CONSTANTS
    Producers = {p1, p2}
    Consumers = {c1, c2}
    Values = {v, w}
    NoThread = NoThread
    MaxItems = 3
SPECIFICATION FairSpec
INVARIANTS TypeOK NoLostWakeup
PROPERTIES ImplementsBlockingFifo ItemsKeepMoving ShutdownDrains
CHECK_DEADLOCK FALSE
