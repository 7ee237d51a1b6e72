CONSTANTS
    Topics = {t1}
    Callers = {c1, c2}
    ConsumerType = "partition"
    NumPartitions = 1
    MaxChannels = 3
    MaxConsumers = 2
    MaxMsgs = 0
    StopCalls = 1
    QuiescentStop = TRUE
    Nil = Nil
SPECIFICATION Spec
SYMMETRY Symmetry
INVARIANT SubscribedChannelRegistered
