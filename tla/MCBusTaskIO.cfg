SPECIFICATION FairSpec
CONSTANTS
    NIn = 1
    NOut = 2
    InPin = {0}
    OutPin = {0, 1}
    InVar <- MCInVar
    OutVar <- MCOutVar
    Config <- MCConfig
    MaxStarts = 2
    MaxReadFaults = 1
    MaxWriteFaults = 2
INVARIANTS
    BusIInv
    OutputsFollowVariables
    NoPhantomPressOnModbus
PROPERTIES
    UnmappedUntouched
    ImplementsOutputPorts
    OutputsSettle
CHECK_DEADLOCK FALSE
