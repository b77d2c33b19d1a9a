SPECIFICATION SystemSpec
CONSTANTS
    PeriodIdle = 3
    PeriodUp = 4
    PeriodDown = 2
    MaxGap = 3
    Horizon = 10
    OtherPin = {"lamp"}
    MaxLag = 2
INVARIANTS
    SystemIInv
    Interlock
    RelayRunBound
PROPERTIES
    RelayRest
    StartNeedsFreshPress
    PressStops
