SPECIFICATION FairLoop
CONSTANTS
    TopSpeed = 1
    LeastSpeed = 1
    Setpoints = {1}
    Messages <- SomeMessages
    MaxComing = 2
    MaxOverdue = 2
INVARIANT LoopInv
PROPERTIES
    CommandConfirmed
    AlarmReported
