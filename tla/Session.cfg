CONSTANTS
    RingSize = 8
    MaxPacket = 8
    Payloads = {116, 117}
    MaxCommands = 2
    MaxConnections = 1
SPECIFICATION FairSession
CONSTRAINT TwoDifferent
INVARIANTS SessionInv InStepOrClosed CommandsInOrder
PROPERTIES SilenceNoticed
CHECK_DEADLOCK FALSE
