\* Two uploads, two threads, and a call that fails or a session that is forgotten.
SPECIFICATION FairSpec
CONSTANTS
    Threads = {t1, t2}
    MaxUploads = 2
    MaxFailures = 1
    NumErrorsMax = 2
    NoId = NoId
    NoConnection = NoConnection
    NoThread = NoThread
    Gone = Gone
INVARIANTS OneRunsOn
PROPERTIES UploadReturns DestructorReturns
\* The object is destroyed and everything stops.
CHECK_DEADLOCK FALSE
