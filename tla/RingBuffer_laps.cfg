SPECIFICATION Spec
CONSTANTS
    r1 = r1
    Size = 3
    Readers <- MCReaders
    Asked <- MCAsked
    MaxSeq = 8
INVARIANTS
    TypeOK
    SlotsInOrder
    UnracedScanIsExact
    RacedScanIsBounded
    ScanOfOneLapIsComplete
PROPERTY
    ImplementsLog
CHECK_DEADLOCK FALSE
