\* Two sessions that upload data and submit a package each; work may throw, the scheduler stop.
SPECIFICATION FairSpec
CONSTANTS
    s1 = s1 s2 = s2
    first = first second = second other = other
    a = a d = d
    Sessions = {s1, s2}
    Connections = {first, second, other}
    SessionOf <- Owner
    Script <- Scripts
    ReinitIds = {a, d}
    MaxNum = 2
    NoId = NoId
    NoConnection = NoConnection
    NoSession = NoSession
    MayStop = TRUE
    MayThrow = TRUE
INVARIANTS InOrderOnce
PROPERTIES UsesStorage NoForeignState QueuedIsServed
\* The scripts end, and the thread.
CHECK_DEADLOCK FALSE
