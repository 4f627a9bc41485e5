SPECIFICATION FairSpec
CONSTANTS
    Sensors = {"fan", "co2", "t", "rh"}
    Values = {0, 1}
    RxSize = 8
    MaxDue = 1
INVARIANT PollingInv
PROPERTIES
    ReadingIsCurrent
    AcceptedIsGenuine
    ExchangeEnds
