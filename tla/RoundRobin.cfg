\* A result, an exception; two handlers at a time; fair scheduling.
SPECIFICATION FairSpec
CONSTANTS
    c1 = c1 c2 = c2 t1 = t1
    Calls <- TwoCalls
    Unauthorized <- NobodyRefused
    Failing <- SecondFails
    NoPackage = NoPackage
    OutputThreads = {t1}
    NumThreadsPre = 2
    TimeoutIsZero = FALSE
INVARIANTS ResultsAccountedFor
PROPERTIES EveryCallAnswered ShutdownCompletes
\* The scheduler is gone in the end.
CHECK_DEADLOCK FALSE
