SPECIFICATION HandlerSpec
CONSTANTS
    Operable = {"rotP", "sw0"}
    ClockWrap = 6
    TurnGap = 1
    PressGap = 3
    MaxSince = 8
    MaxOwed = 4
INVARIANT HandlerInv
PROPERTIES
    PollsThePanel
    Debounced
