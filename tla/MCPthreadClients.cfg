SPECIFICATION ClientsSpec
CONSTANTS
    Setter = t1
    M = m1
    C = c1
    Threads = {t1, t2, t3}
    Mutexes = {m1}
    Conds = {c1}
    NoThread = NoThread
    NoMutex = NoMutex
    NoSlot = NoSlot
    MaxObjects = 2
    MaxDepth = 1
    o1 = o1
    o2 = o2
    Onces = {o1, o2}
    Nested <- NestedOnce
    NoOnce = NoOnce
PROPERTIES EveryoneLeaves OnceDone CallReturns
CHECK_DEADLOCK FALSE
