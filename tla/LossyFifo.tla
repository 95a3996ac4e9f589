----------------------------- MODULE LossyFifo -----------------------------
(***************************************************************************)
(* What a link promises, and what StatShare and TcpSender assume of their  *)
(* channels: packets may be lost at any place, but those that arrive do so *)
(* in the order in which they were sent, each once.                        *)
(***************************************************************************)
EXTENDS Naturals, Sequences

CONSTANT Packet

VARIABLES
    chan,   \* the packets under way, the next one to arrive first
    out     \* the packet that arrived last, or the empty sequence

chanVars == <<chan, out>>

Under(s) == {s[i] : i \in DOMAIN s}

\* What may be left of s when packets are lost: any of them, the others in their order.
Rising(k, n) == {f \in [1..k -> 1..n] : \A i, j \in 1..k : i < j => f[i] < f[j]}
Remains(s) ==
    UNION {{[i \in 1..k |-> s[f[i]]] : f \in Rising(k, Len(s))} : k \in 0..Len(s)}

Init == chan = <<>> /\ out = <<>>

\* A packet is sent; this may make the link lose some, the new one included.
Put(p) ==
    /\ p \notin Under(chan)
    /\ chan' \in Remains(Append(chan, p))
    /\ UNCHANGED out

Lose ==
    /\ chan' \in Remains(chan)
    /\ UNCHANGED out

Get ==
    /\ chan # <<>>
    /\ out' = <<Head(chan)>>
    /\ chan' = Tail(chan)

Next == (\E p \in Packet : Put(p)) \/ Lose \/ Get

Spec == Init /\ [][Next]_chanVars
=============================================================================
