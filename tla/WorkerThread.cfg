\* Two clients, two visitors that set the worker up, a release interval.
SPECIFICATION FairSpec
CONSTANTS
    p1 = p1 p2 = p2
    Packages <- TwoPackages
    Failing <- SecondFails
    Visitors = {v1, v2}
    ReleaseIsZero = FALSE
    NoPackage = NoPackage
INVARIANTS WorksOnSetUpWorker AcceptedIsAccountedFor
PROPERTIES UsesStore WorkIsTakenUp ReleaseHonoured
\* Once the object is destroyed and every client waits nothing happens any more.
CHECK_DEADLOCK FALSE
