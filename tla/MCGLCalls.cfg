SPECIFICATION CallsSpec
CONSTANTS
    Threads = {t1, t2}
    NoThread = NoThread
    Shaders = {1, 2}
    Sources = {a, b}
    Blocks = {1, 2, 3}
    Cells = 2
    f1 = f1
    f2 = f2
    x1 = x1
    r1 = r1
    p1 = p1
    Asked = {"glDrawArrays", "glMapBufferOES", "glBlendColor"}
    Fbos = {f1, f2}
    Textures = {x1}
    Rbs = {r1}
    Levels = {0, 1}
    Points = {p1}
    CacheSize = 1
    MaxBirths = 2
    Rectangles <- MCRects
    Targets = {1}
    Parts = {"calls", "cache", "rects", "text"}
INVARIANTS SourcesKept AttachedAsAsked FitsScreen PrepassMeans
PROPERTIES CallsReturn
CHECK_DEADLOCK FALSE
