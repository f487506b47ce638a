SPECIFICATION AllSpec
CONSTANTS
    Threads = {t1, t2}
    Cats = {c1, c2, c3}
    NoThread = NoThread
    NoCat = NoCat
    Max = 2
    Ptrs = {p1, p2, p3, p4}
    Empty = Empty
    SetSize = 6
    Blocks = {b1, b2, b3}
    Sizes = {1, 2}
    BigFrom = 2
    BigTab = 2
    EmergMax = 1
    MaxSize = 4
    Render = {b1, b2}
    Size <- SizeOf
    Usable <- UsableOf
    MaxFrees = 3
    Textures = {x1, x2, x3}
    N = 3
    b1 = b1
    b2 = b2
    b3 = b3
    NULL = NULL
    Pools = {"vgl", "newlib"}
    ReallocsBig = FALSE
    Callers = {k1}
    x1 = x1
    x2 = x2
    x3 = x3
INVARIANTS IInv NoDuplicate EmergencyKnown GoesBackHome ScratchHeld CountedOnce
PROPERTIES Returns PixelsKept
