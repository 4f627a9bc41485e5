SPECIFICATION FairSpec
CONSTANTS
    Operable = {"rotP"}
    Letters = 2
    Symbols = 2
    MaxTyped = 0
    MaxSpeed = 2
    MinSpeed = 1
    MaxPressure = 3
    Deadband = 0
    ErrorLimit = 3
    Readings = {0, 2, 3}
    MqttSpeeds = {2}
    MqttPressures = {2, 6}
    BusFaults = TRUE
CONSTRAINT OutsideEditor
INVARIANTS
    AlarmLocksOutControl
    SpeedIsPercentage
PROPERTIES
    KeepsAlarmPromise
    AlarmStopsFan
    OperatesAsAbstracted
    RunEnds
