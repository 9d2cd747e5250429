\* SP_Dispatcher: a session with pipelined requests, a message and closing.
CONSTANTS
    Session = {s1}
    Message = {m1}
    Thread = {t1, t2}
    System = System
    Nobody = Nobody
    MaxConnections = 1
    ReqQueueSize = 1
    MaxRead = 2
    Dispatcher = TRUE
    MayClose = TRUE
SPECIFICATION FairSpec
INVARIANTS OneTaskPerSession EventsOnlyOfLive NoSessionForgotten PendingInputHandled ReadingFlagTrue
PROPERTIES ExitCompletes
CHECK_DEADLOCK FALSE
