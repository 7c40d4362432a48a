\* Two uploads, and a thread that is replaced between two of its calls.
SPECIFICATION Spec
CONSTANTS
    Threads = {t1, t2}
    MaxUploads = 2
    MaxFailures = 1
    NumErrorsMax = 2
    NoId = NoId
    NoConnection = NoConnection
    NoThread = NoThread
    Gone = Gone
INVARIANTS StoredIsLatest
\* The object is destroyed and everything stops.
CHECK_DEADLOCK FALSE
