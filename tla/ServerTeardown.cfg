CONSTANTS
    Job = {k1}
    Message = {m1}
    MaxThreads = 2
SPECIFICATION Spec
PROPERTIES HandlerOutlivesMessages
CHECK_DEADLOCK FALSE
