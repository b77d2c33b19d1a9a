SPECIFICATION Spec
CONSTANTS
    t1 = t1
    t2 = t2
    Topic <- MCTopic
    NoMessage = NoMessage
    Capacity = 2
    MaxPublish = 3
    MaxArrivals = 1
    MaxFaults = 3
    MaxRejects = 1
SYMMETRY MCSymmetry
INVARIANTS
    ClientIInv
    NoSecondAttempt
    SubscriptionsRestored
PROPERTY
    ImplementsLossyChannel
CHECK_DEADLOCK FALSE
