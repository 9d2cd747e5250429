CONSTANTS
    Job = {k1}
    Message = {m1}
    MaxThreads = 2
SPECIFICATION Spec
PROPERTIES CleanClose
CHECK_DEADLOCK FALSE
