SPECIFICATION Spec
CONSTANTS
    r1 = r1
    Size = 3
    Readers <- MCReaders
    Asked <- MCAsked
    MaxSeq = 8
INVARIANT
    ScanIsComplete
CHECK_DEADLOCK FALSE
