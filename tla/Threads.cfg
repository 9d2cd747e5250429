\* One consumer: only SP_Executor::eventLoop pops.
CONSTANTS
    MaxThreads = 2
    Caller = {c1, c2}
    Task = {k1, k2, k3, k4}
    MaxEntries = 0
    InitSize = 2
    RecvMax = 2
    SockBuf = 8
    MaxPush = 7
    Consumer = {c1}
SPECIFICATION ThreadsSpec
INVARIANTS TypesOK IdleListExact RunsOnce FreedWhenUnused NoLostWakeup NoSleeperOnItems
PROPERTIES RefinesTaskPool DispatchReturns DestructorReturns MessagesAreFifo TasksAreFifo
CHECK_DEADLOCK FALSE
