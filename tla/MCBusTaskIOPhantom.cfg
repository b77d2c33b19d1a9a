SPECIFICATION Spec
CONSTANTS
    NIn = 1
    NOut = 2
    InPin = {0}
    OutPin = {0, 1}
    InVar <- MCInVar
    OutVar <- MCOutVar
    Config <- MCConfigI2C
    MaxStarts = 1
    MaxReadFaults = 1
    MaxWriteFaults = 0
INVARIANTS
    NoPhantomPress
CHECK_DEADLOCK FALSE
