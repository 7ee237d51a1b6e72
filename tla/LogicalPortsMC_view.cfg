CONSTANTS
    Threads = {t1, t2}
    PortIds = {1, 2}
    DeviceOf <- MCDeviceOf
    Ops = {"add", "modify", "delete", "setup"}
    MaxEvents = 3
    RootDevice = "olt"
    MaxKids = 1
    Nil = Nil
SPECIFICATION Spec
INVARIANT ControllerEventsConsistent
INVARIANT ControllerViewMatches
