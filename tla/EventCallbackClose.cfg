\* A session is closed by a response while its start runs.
CONSTANTS
    Session = {s1}
    Message = {m1}
    Thread = {t1, t2}
    System = System
    Nobody = Nobody
    MaxConnections = 1
    ReqQueueSize = 1
    MaxRead = 0
    Dispatcher = TRUE
    MayClose = TRUE
SPECIFICATION FairSpec
PROPERTIES CloseHonoured
CHECK_DEADLOCK FALSE
