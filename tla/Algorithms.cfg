SPECIFICATION Spec
CONSTANTS
    Size = 4
    Bytes = {0, 1}
INVARIANTS
    CallsAsPromised
    LineTrusted
    PressureRight
    RecordsKept
    PacketsReadBack
    PiecesMakePackets
    MessagesHandled
    DrawingExact
    SelectionFramed
    ScreensStayInside
