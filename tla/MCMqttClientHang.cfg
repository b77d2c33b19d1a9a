SPECIFICATION FairSpec
CONSTANTS
    t1 = t1
    t2 = t2
    Topic <- MCOneTopic
    NoMessage = NoMessage
    Capacity = 1
    MaxPublish = 0
    MaxArrivals = 0
    MaxFaults = 0
    MaxRejects = 0
PROPERTY
    DisconnectReturns
CHECK_DEADLOCK FALSE
