CONSTANTS
    Topics = {t1}
    Callers = {c1}
    ConsumerType = "group"
    NumPartitions = 1
    MaxChannels = 2
    MaxConsumers = 1
    MaxMsgs = 0
    StopCalls = 2
    QuiescentStop = TRUE
    Nil = Nil
SPECIFICATION Spec
INVARIANT ConsumerClosedOnce
CHECK_DEADLOCK FALSE
