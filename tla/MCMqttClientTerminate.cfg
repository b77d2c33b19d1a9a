SPECIFICATION Spec
CONSTANTS
    t1 = t1
    t2 = t2
    Topic <- MCOneTopic
    NoMessage = NoMessage
    Capacity = 1
    MaxPublish = 0
    MaxArrivals = 0
    MaxFaults = 0
    MaxRejects = 0
INVARIANT
    NoTerminate
CHECK_DEADLOCK FALSE
