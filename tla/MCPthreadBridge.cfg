SPECIFICATION AllSpec
CONSTANTS
    Threads = {t1, t2}
    Mutexes = {m1}
    Conds = {c1}
    NoThread = NoThread
    NoMutex = NoMutex
    NoSlot = NoSlot
    MaxObjects = 3
    MaxDepth = 2
    Sems = {s1}
    NoSem = NoSem
    First = 4
    MaxHandles = 2
    MaxCount = 2
    MaxFails = 1
    MaxNow = 5
    NanosPerMicro = 2
    MicrosPerSec = 2
    Forever = 2
    Creators = {main}
    Attrs = {a1}
    NoAttr = NoAttr
    Uids = {u1, u2, u3}
    Asked = {20}
    Small = 2
    Default = 4
    Big = 8
    Largest = 10
    BigFirst = 1
    BigLast = 2
    MainPrio = 5
    Places = 2
    Lines = 1
    MaxCreated = 3
SYMMETRY Symmetry
INVARIANTS OneObjectPerSlot ThreadsAsMeant
PROPERTIES ImplementsMonitor ImplementsSemaphore
CHECK_DEADLOCK FALSE
