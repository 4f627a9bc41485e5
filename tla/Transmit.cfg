SPECIFICATION FairTransmit
CONSTANTS
    Size = 4
    Bytes = {0, 1}
    Depth = 3
    Trigger = 1
    MaxWrite = 4
INVARIANT NothingStranded
PROPERTIES
    SendsInOrder
    KeepsSending
