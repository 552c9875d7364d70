CONSTANTS
    Parts = {"answers", "streams", "cancels"}
    Devices = {"d"}
    Requests = {"get", "post", "stream"}
    DeviceOf <- MCDeviceOf
    KindOf <- MCKindOf
    SizeOf <- MCSizeOf
    Conns = {1, 2}
    MaxChunks = 3
    EventCap = 2
    CountCap = 2
    ByteCap = 2
    SlowPeers = TRUE
    Events = {"browser", "abandon", "timeout", "delete", "disconnect", "disorder", "hangup"}
INVARIANTS PendingIsAccounted StreamsAreWhole
PROPERTIES FailsWithBridge
CHECK_DEADLOCK FALSE
SPECIFICATION PartsSpec
