SPECIFICATION FairSpec
CONSTANTS
    InVar = {"light_remote"}
    OutVar = {"light", "siren"}
    Variable <- MCVariable
    Message <- MCMessage
    NoMessage = NoMessage
    Capacity = 2
    SharedOutputs = {"siren"}
INVARIANTS
    InputsAreNews
    EdgesPublished
PROPERTIES
    PublishedOncePerRise
    CyclesUnlessFlooded
CHECK_DEADLOCK FALSE
