\* Two connections of a session that submit the numbers 0 to 2.
SPECIFICATION Spec
CONSTANTS
    s1 = s1 c1 = c1 c2 = c2 c3 = c3
    Sessions = {s1}
    Connections = {c1, c2}
    SessionOf <- OneSession
    ReinitIds = {a, b}
    MaxNum = 2
    NoId = NoId
    NoConnection = NoConnection
    NoSession = NoSession
PROPERTIES ForwardSkipsLost
\* The process ends when a session expires between is_active() and sequence_num_get().
CHECK_DEADLOCK FALSE
