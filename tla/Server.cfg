CONSTANTS
    Job = {k1, k2}
    Message = {m1, m2}
    MaxThreads = 2
SPECIFICATION Spec
INVARIANTS TypeOK JobsRunOnce EventArgOutlivesWorkers CompletionsInOrder
PROPERTIES EveryJobRuns
CHECK_DEADLOCK FALSE
