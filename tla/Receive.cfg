SPECIFICATION ReceiveSpec
CONSTANTS
    Size = 3
    Bytes = {0, 1}
    Depth = 2
    MaxLine = 3
    MaxRead = 2
PROPERTIES
    ReadsInOrder
    DroppedOnlyWhenFull
