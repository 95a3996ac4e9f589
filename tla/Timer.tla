------------------------------- MODULE Timer -------------------------------
(***************************************************************************)
(* The simulator's clockwork: the event list (Scheduler and ListScheduler  *)
(* of common/scheduler.cc) and the timers that agents and nodes build on   *)
(* it (common/timer-handler.cc), the retransmission and poll timers of the *)
(* project among them.                                                     *)
(*                                                                         *)
(* A timer owns one event object, which the scheduler must not get twice;  *)
(* the sign of the event's uid_ says whether it is queued, status_ says    *)
(* whether the timer is pending, and nothing but the order of assignments  *)
(* keeps the two in step.  A handler may schedule, move and cancel any     *)
(* timer, its own included, before it returns.                             *)
(*                                                                         *)
(* The list is the reference for the other schedulers: see Schedulers.     *)
(***************************************************************************)
EXTENDS Integers, Sequences

CONSTANTS
    Timers,     \* timer objects
    Delays,     \* delays that clients ask for
    Scripts,    \* times: of the "at" commands, in order; before: how many of
                \* them precede "run"
    MaxAt,      \* no script has more
    Revoked,    \* those of them that the script may cancel
    TimesOfDay, \* readings of the real-time clock
    MaxTime,    \* bound: no timer is set beyond it
    None, Script, Tcl   \* no handler is running; the script; a Tcl callback

Ats == 1..MaxAt                \* the event objects of "at" commands
Ev == Timers \cup Ats

ASSUME TimerAssumption ==
    /\ MaxAt \in Nat /\ MaxTime \in Nat /\ Delays \subseteq Nat
    /\ Revoked \subseteq Ats /\ TimesOfDay \subseteq Nat
    /\ \A s \in Scripts : s.times \in Seq(Nat) /\ Len(s.times) <= MaxAt
    /\ Timers \cap Ats = {} /\ {None, Script, Tcl} \cap Ev = {}
    /\ None # Script /\ None # Tcl /\ Script # Tcl

VARIABLES
    clock,      \* clock_
    sch,        \* queue: the event list; uid: sign of each event's uid_;
                \* aborted: a check of the scheduler or of a timer has failed
    status,     \* status_ of each timer
    deadline,   \* history: the time a pending timer was last set to
    running,    \* the event whose handler runs; Script before run and after
                \* halt; Tcl in a Tcl callback of the real-time loop; or None
    halted,     \* halted_
    realtime,   \* RealTimeScheduler::run instead of Scheduler::run
    script,     \* the script
    nextAt      \* its next "at" command

vars == <<clock, sch, status, deadline, running, halted, realtime, script, nextAt>>

Entry == [ev : Ev, time : Nat]

Queued(q) == {q[i].ev : i \in DOMAIN q}

Init ==
    /\ clock = 0
    /\ sch = [queue |-> <<>>, uid |-> [e \in Ev |-> 0], aborted |-> FALSE]
    /\ status = [t \in Timers |-> "idle"]
    /\ deadline = [t \in Timers |-> -1]
    /\ running = Script /\ halted = FALSE /\ realtime \in BOOLEAN
    /\ script \in Scripts /\ nextAt = 1

-----------------------------------------------------------------------------
(***************************************************************************)
(* Scheduler and ListScheduler                                             *)
(***************************************************************************)
\* Where the loop of ListScheduler::insert stops: before the first later event.
Place(q, time) ==
    CHOOSE p \in 1..(Len(q) + 1) :
        /\ \A i \in 1..(p - 1) : q[i].time <= time
        /\ p <= Len(q) => time < q[p].time

InsertedAt(q, p, x) ==
    [i \in 1..(Len(q) + 1) |-> IF i < p THEN q[i] ELSE IF i = p THEN x ELSE q[i - 1]]

\* ListScheduler::insert
Inserted(q, e, time) == InsertedAt(q, Place(q, time), [ev |-> e, time |-> time])

RemovedAt(q, p) == [i \in 1..(Len(q) - 1) |-> IF i < p THEN q[i] ELSE q[i + 1]]

Removed(q, e) == RemovedAt(q, CHOOSE p \in DOMAIN q : q[p].ev = e)

\* Scheduler::schedule, at an absolute time.
Scheduled(s, e, time) ==
    IF s.uid[e] > 0
    THEN [s EXCEPT !.aborted = TRUE]
    ELSE [queue |-> Inserted(s.queue, e, time), uid |-> [s.uid EXCEPT ![e] = 1],
          aborted |-> s.aborted]

\* ListScheduler::cancel
Cancelled(s, e) ==
    IF s.uid[e] <= 0
    THEN s
    ELSE IF e \notin Queued(s.queue)
         THEN [s EXCEPT !.aborted = TRUE]
         ELSE [queue |-> Removed(s.queue, e), uid |-> [s.uid EXCEPT ![e] = -1],
               aborted |-> s.aborted]

-----------------------------------------------------------------------------
(***************************************************************************)
(* Scripts: "$ns at", "$ns cancel", halt, run and resume                   *)
(***************************************************************************)
InHandler == running # None /\ ~sch.aborted

\* The command "at" of Scheduler::command refuses a time in the past.
At ==
    /\ InHandler /\ nextAt <= Len(script.times)
    /\ sch' = IF script.times[nextAt] >= clock THEN Scheduled(sch, nextAt, script.times[nextAt]) ELSE sch
    /\ nextAt' = nextAt + 1
    /\ UNCHANGED <<clock, status, deadline, running, halted, realtime, script>>

\* The command "cancel": lookup finds queued events only.
AtCancel(a) ==
    /\ InHandler /\ a \in Queued(sch.queue)
    /\ sch' = Cancelled(sch, a)
    /\ UNCHANGED <<clock, status, deadline, running, halted, realtime, script, nextAt>>

\* The command "halt", of a handler or of a Tcl callback.
Halt ==
    /\ running \in Ev \cup {Tcl} /\ ~sch.aborted /\ ~halted
    /\ halted' = TRUE
    /\ UNCHANGED <<clock, sch, status, deadline, running, realtime, script, nextAt>>

\* The commands "run" and "resume".
Run ==
    /\ running = Script /\ ~sch.aborted /\ nextAt > script.before
    /\ running' = None /\ halted' = FALSE
    /\ UNCHANGED <<clock, sch, status, deadline, realtime, script, nextAt>>

-----------------------------------------------------------------------------
(***************************************************************************)
(* TimerHandler.  sched and cancel abort when their caller breaks the      *)
(* rule that timer-handler.h states, so their guards are that rule.        *)
(***************************************************************************)
\* TimerHandler::sched: the timer must be idle.
Sched(t, d) ==
    /\ InHandler /\ status[t] = "idle" /\ clock + d <= MaxTime
    /\ sch' = Scheduled(sch, t, clock + d)
    /\ status' = [status EXCEPT ![t] = "pending"]
    /\ deadline' = [deadline EXCEPT ![t] = clock + d]
    /\ UNCHANGED <<clock, running, halted, realtime, script, nextAt>>

\* Mutant: a pending event is not taken back.
UnlessPendingNever(t) == sch

\* TimerHandler::resched, its first half: the schedule without a pending event.
UnlessPending(t) == IF status[t] = "pending" THEN Cancelled(sch, t) ELSE sch

Resched(t, d) ==
    /\ InHandler /\ clock + d <= MaxTime
    /\ sch' = Scheduled(UnlessPending(t), t, clock + d)
    /\ status' = [status EXCEPT ![t] = "pending"]
    /\ deadline' = [deadline EXCEPT ![t] = clock + d]
    /\ UNCHANGED <<clock, running, halted, realtime, script, nextAt>>

\* TimerHandler::cancel and force_cancel, of a pending timer.
Cancel(t) ==
    /\ InHandler /\ status[t] = "pending"
    /\ sch' = Cancelled(sch, t)
    /\ status' = [status EXCEPT ![t] = "idle"]
    /\ deadline' = [deadline EXCEPT ![t] = -1]
    /\ UNCHANGED <<clock, running, halted, realtime, script, nextAt>>

-----------------------------------------------------------------------------
(***************************************************************************)
(* Scheduler::run, RealTimeScheduler::run and Scheduler::dispatch          *)
(***************************************************************************)
\* The queue after deque, the uid_ of an event being dispatched, and the checks of
\* dispatch (time) and of TimerHandler::handle (status).
Dispatched(x, now) ==
    [queue |-> Tail(sch.queue), uid |-> [sch.uid EXCEPT ![x.ev] = -@],
     aborted |-> now < clock \/ (x.ev \in Timers /\ status[x.ev] # "pending")]

\* The first event is taken off and its handler called.  The real-time loop leaves
\* events that are not due and does not set the clock back to the event's time.
Dispatch ==
    LET x == Head(sch.queue)
        now == IF realtime THEN clock ELSE x.time
    IN  /\ running = None /\ ~halted /\ ~sch.aborted
        /\ sch.queue # <<>>
        /\ realtime => x.time <= clock
        /\ sch' = Dispatched(x, now)
        /\ clock' = now
        /\ running' = x.ev
        /\ status' = [t \in Timers |-> IF t = x.ev THEN "handling" ELSE status[t]]
        /\ deadline' = [t \in Timers |-> IF t = x.ev THEN -1 ELSE deadline[t]]
        /\ UNCHANGED <<halted, realtime, script, nextAt>>

\* Mutant: the status is not looked at.
HandleEndAlways ==
    /\ running \notin {None, Script} /\ ~sch.aborted
    /\ running' = IF halted THEN Script ELSE None
    /\ status' = [t \in Timers |-> IF t = running THEN "idle" ELSE status[t]]
    /\ UNCHANGED <<clock, sch, deadline, halted, realtime, script, nextAt>>

\* A handler returns: TimerHandler::handle, its last lines.
HandleEnd ==
    /\ running \notin {None, Script} /\ ~sch.aborted
    /\ running' = IF halted THEN Script ELSE None
    /\ status' = [t \in Timers |->
                     IF t = running /\ status[t] = "handling" THEN "idle" ELSE status[t]]
    /\ UNCHANGED <<clock, sch, deadline, halted, realtime, script, nextAt>>

\* The real-time loop reads the time of day, which may have been set back, and may call
\* back into Tcl.
Wake(now) ==
    /\ running = None /\ ~halted /\ ~sch.aborted /\ realtime
    /\ clock' = now
    /\ running' \in {None, Tcl}
    /\ UNCHANGED <<sch, status, deadline, halted, realtime, script, nextAt>>

Next ==
    \/ At \/ Halt \/ Run \/ Dispatch \/ HandleEnd
    \/ \E a \in Revoked : AtCancel(a)
    \/ \E t \in Timers, d \in Delays : Sched(t, d) \/ Resched(t, d)
    \/ \E t \in Timers : Cancel(t)
    \/ \E now \in TimesOfDay : Wake(now)

Spec == Init /\ [][Next]_vars

-----------------------------------------------------------------------------
(***************************************************************************)
(* Properties                                                              *)
(***************************************************************************)
\* The variables have their types.
TypeOK ==
    /\ clock \in Nat
    /\ sch \in [queue : Seq(Entry), uid : [Ev -> {-1, 0, 1}], aborted : BOOLEAN]
    /\ status \in [Timers -> {"idle", "pending", "handling"}]
    /\ deadline \in [Timers -> Nat \cup {-1}]
    /\ running \in Ev \cup {None, Script, Tcl}
    /\ halted \in BOOLEAN /\ realtime \in BOOLEAN
    /\ script \in Scripts /\ nextAt \in 1..(MaxAt + 1)

\* No check fails: an event object is never scheduled while it is queued, one that is
\* cancelled is found, a timer whose event comes is pending, and no event is dispatched for
\* a time before the clock, whatever handlers do to their own and to other timers.
NeverAborts == ~sch.aborted

\* A pending timer has its one event queued, for the time it was last set to; no other
\* timer has one.  A timer that was moved or cancelled does not fire at its old time.
FiresWhenSet ==
    \A t \in Timers :
        /\ status[t] = "pending" <=> t \in Queued(sch.queue)
        /\ \A i, j \in DOMAIN sch.queue :
              sch.queue[i].ev = t /\ sch.queue[j].ev = t
                  => i = j /\ sch.queue[i].time = deadline[t]

\* Only the timer whose handler runs can be in the state "handling": a handler that has
\* returned leaves its timer idle or pending, so that sched may be called again.
HandlingRuns == \A t \in Timers : status[t] = "handling" => running = t
=============================================================================
