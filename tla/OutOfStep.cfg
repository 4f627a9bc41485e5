CONSTANTS
    RingSize = 8
    MaxPacket = 8
    Payloads = {116}
    MaxCommands = 1
    MaxConnections = 1
SPECIFICATION FairSession
INVARIANTS FailedReadCloses
CHECK_DEADLOCK FALSE
