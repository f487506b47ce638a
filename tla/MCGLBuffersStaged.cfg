SPECIFICATION Spec
CONSTANTS
    Threads = {t1}
    Targets = {array}
    Buffers = {b1}
    NoBuffer = NoBuffer
    MaxSize = 2
    MaxFailures = 2
SYMMETRY Symmetry
INVARIANTS StagedUploadArrives
