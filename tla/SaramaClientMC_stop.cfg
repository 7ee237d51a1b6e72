CONSTANTS
    Topics = {t1, t2}
    Callers = {c1}
    ConsumerType = "group"
    NumPartitions = 1
    MaxChannels = 3
    MaxConsumers = 2
    MaxMsgs = 1
    StopCalls = 1
    QuiescentStop = TRUE
    Nil = Nil
SPECIFICATION Spec
INVARIANT TypeOK
INVARIANT ConsumerOwned
PROPERTY StopEndsConsumption
