SPECIFICATION Spec
CONSTANTS
    Generators <- MCGenerators
    workerID <- MCWorkerID
    processID <- MCProcessID
    WorkerSize = 2
    ProcessSize = 2
    SequenceSize = 2
    MaxTime = 4
    MaxCalls = 4
INVARIANTS
    TypeOK
    FieldsKept
PROPERTIES
    Increasing
    UniqueUntilSetBack
CHECK_DEADLOCK FALSE
