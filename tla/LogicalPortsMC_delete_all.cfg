CONSTANTS
    Threads = {t1, t2}
    PortIds = {1, 2}
    DeviceOf <- MCDeviceOf
    Ops = {"add", "modify", "delete", "deleteAll"}
    MaxEvents = 3
    RootDevice = "olt"
    MaxKids = 0
    Nil = Nil
SPECIFICATION Spec
INVARIANT ControllerViewMatches
