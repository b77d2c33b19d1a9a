SPECIFICATION FairSpec
CONSTANTS
    t1 = t1
    t2 = t2
    Topic <- MCOneTopic
    NoMessage = NoMessage
    Capacity = 1
    MaxPublish = 2
    MaxArrivals = 0
    MaxFaults = 2
    MaxRejects = 1
PROPERTIES
    Reconnects
    SendQueueDrains
    DisconnectReturnsIfSettled
CHECK_DEADLOCK FALSE
