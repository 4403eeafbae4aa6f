CONSTANTS
    Keys = {k1, k2}
    Tasks = {t1, t2, t3}
    NoKey = NoKey
    NoTask = NoTask
    HungKeys = {k2}
SPECIFICATION FairSpec
INVARIANTS Accounting SerialOrder
PROPERTIES Progress ImplementsSerialQueue
CHECK_DEADLOCK FALSE
