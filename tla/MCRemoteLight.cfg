SPECIFICATION FairSpec
CONSTANTS
    LocalButton = {"button_a"}
    RemoteButton = "button_f"
    Capacity = 2
    NoMessage = 0
    MaxPresses = 3
    MaxLost = 1
    MaxDuplicated = 1
INVARIANTS
    LightIInv
    PressesAccounted
    LightsTellPresses
PROPERTY
    PressesArrive
CHECK_DEADLOCK FALSE
