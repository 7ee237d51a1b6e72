CONSTANTS
    Topics = {t1}
    Callers = {c1}
    ConsumerType = "partition"
    NumPartitions = 2
    MaxChannels = 2
    MaxConsumers = 3
    MaxMsgs = 0
    StopCalls = 1
    QuiescentStop = TRUE
    Nil = Nil
SPECIFICATION Spec
SYMMETRY Symmetry
INVARIANT ConsumerOwned
