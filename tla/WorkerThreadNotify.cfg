\* A notification that comes between predicate and wait.
SPECIFICATION FairSpec
CONSTANTS
    p1 = p1 p2 = p2
    Packages <- TwoPackages
    Failing <- SecondFails
    Visitors = {}
    ReleaseIsZero = FALSE
    NoPackage = NoPackage
PROPERTIES NotifiedWorkIsTakenUp
\* Once the object is destroyed and every client waits nothing happens any more.
CHECK_DEADLOCK FALSE
