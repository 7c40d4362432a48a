\* The input queue: two submitters and an observer against the worker, which
\* requeues.  The output queue: two threads, three results, destruction at any time.
\* The heap: six packages of two sessions that advance between the calls, one without a number.
SPECIFICATION QueuesSpec
CONSTANTS
    u1 = u1 u2 = u2 u3 = u3
    p1 = p1 p2 = p2 p3 = p3
    c1 = c1 c2 = c2 c3 = c3
    t1 = t1 t2 = t2
    Users = {u1, u2}
    Packages = {p1, p2, p3}
    UserOf <- TwoUsers
    Less <- P1First
    Submitters = {s1, s2}
    Observers = {o}
    Worker = worker
    PeriodIsZero = FALSE
    Reinit = TRUE
    NoUser = NoUser
    NoPackage = NoPackage
    NoThread = NoThread
    Contexts = {c1, c2, c3}
    OutputThreads = {t1, t2}
    NoContext = NoContext
    h1 = h1 h2 = h2 h3 = h3 h4 = h4 h5 = h5 h6 = h6
    MaxNum = 1
    OutOfOrder = OutOfOrder
INVARIANTS IteratorValid WaitingUsersHaveWork CvOutlivesWaiters
PROPERTIES StoreSpec LowestFirst
