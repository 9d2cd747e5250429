\* SP_Server: two connections live together; the second is refused when it comes
\* while the start of the first has not been handed over.
CONSTANTS
    Session = {s1, s2}
    Message = {m1, m2}
    Thread = {t1, t2}
    System = System
    Nobody = Nobody
    MaxConnections = 2
    ReqQueueSize = 1
    MaxRead = 0
    Dispatcher = FALSE
    MayClose = FALSE
SYMMETRY Symmetry
SPECIFICATION Spec
INVARIANTS TypeOK OneTaskPerSession MessageAccounted NoSessionForgotten
CHECK_DEADLOCK FALSE
