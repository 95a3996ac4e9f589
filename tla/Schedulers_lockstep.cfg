SPECIFICATION SSpec
CONSTANTS
    Timers = {t1, t2}
    Delays <- MCDelays
    Scripts <- MCScripts
    MaxAt = 10
    MaxTime = 16
    None = None
    Script = Script
    Tcl = Tcl
    Widths <- MCWidths
    MaxSets <- MCMaxSets
    Revoked <- MCRevoked
    TimesOfDay <- MCTimesOfDay
INVARIANTS NeverAborts FiresWhenSet HeapAgrees BucketsAgree HeadIsNext CountsExact
SYMMETRY Sym
CHECK_DEADLOCK FALSE
