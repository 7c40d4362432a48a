\* A switch after every package.  Three users, two of which submit again whenever they have been served.
SPECIFICATION FairSpec
CONSTANTS
    u1 = u1 u2 = u2 u3 = u3
    p1 = p1 p2 = p2 p3 = p3
    Users = {u1, u2, u3}
    Packages = {p1, p2, p3}
    UserOf <- ThreeUsers
    Less <- NoOrder
    Submitters = {s1, s2}
    Observers = {}
    Worker = worker
    PeriodIsZero = TRUE
    Reinit = FALSE
    NoUser = NoUser
    NoPackage = NoPackage
    NoThread = NoThread
PROPERTIES EveryUserServed
