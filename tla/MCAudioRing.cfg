SPECIFICATION Spec
CONSTANTS
    a = a
    b = b
    zero = zero
    Sample <- MCSample
    Silence = zero
    RingSize = 4
    Chunk = 2
    Laps = 2
    Submits <- MCSubmits
    DropPeriod = 2
INVARIANTS NoDataRace IInv
PROPERTIES ImplementsFifo Progress
CHECK_DEADLOCK FALSE
