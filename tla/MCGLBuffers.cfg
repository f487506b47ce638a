SPECIFICATION Spec
CONSTANTS
    Threads = {t1, t2}
    Targets = {array}
    Buffers = {b1, b2}
    NoBuffer = NoBuffer
    MaxSize = 2
    MaxFailures = 4
SYMMETRY Symmetry
INVARIANTS WithinStorage
