SPECIFICATION FairSpec
CONSTANTS
    a = a
    b = b
    c1 = c1
    c2 = c2
    c3 = c3
    Item <- MCItem
    NoItem = NoItem
    Consumer <- MCConsumer
    Capacity = 3
INVARIANTS
    TypeOK
    NoLostWakeup
PROPERTIES
    ImplementsMessageQueue
    GetForReturns
