SPECIFICATION PlcFairSpec
CONSTANTS
    Task <- MCTask
    NTasks = 3
    MaxSystems = 2
    Config <- MCConfig
INVARIANTS
    PlcIInv
    NoIOLeftOpen
    BuiltAsWritten
    AcceptedIfValid
PROPERTIES
    ImplementsScheduler
    StopHonoured
CHECK_DEADLOCK FALSE
