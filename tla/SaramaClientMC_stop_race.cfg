CONSTANTS
    Topics = {t1}
    Callers = {c1}
    ConsumerType = "group"
    NumPartitions = 1
    MaxChannels = 3
    MaxConsumers = 2
    MaxMsgs = 1
    StopCalls = 1
    QuiescentStop = FALSE
    Nil = Nil
SPECIFICATION Spec
INVARIANT StopLeavesNoEntry
