\* The pool: one to two threads and two calls.  The transport: two clients and a limit of one
\* connection; calls may be answered later.  A session: two requests, two pings, an idle timeout and
\* a client that may go away.  A publisher: two subscribers, two messages, a ping.
SPECIFICATION ServerSpec
CONSTANTS
  Threads = {t1, t2, t3}
  MinCount = 1
  MaxCount = 2
  ReserveLast = TRUE
  MayThrow = TRUE
  MaxCalls = 2
  Sessions = {s1, s2, s3}
  Clients = 2
  initialNumberOfConnections = 1
  connectionLimit = 1
  MaxStarts = 2
  MayHold = TRUE
  Others = {m1}
  Waiters = {m1}
  None = None
  IoThreads = {i1, i2}
  Workers = {w1}
  Calls <- SomeCalls
  MaxPings = 2
  PeerMayClose = TRUE
  IdleTimeout = TRUE
  MayStall = FALSE
  Subscribers = {s1, s2}
  Limit = 1
  MaxMessages = 2
INVARIANTS SomeoneIsFree LimitKept AnswersInOrder OneOperation KeptGotAll
PROPERTIES SessionsEnd CallsAreAnswered
CHECK_DEADLOCK FALSE
