SPECIFICATION MCSpec
CONSTANTS
    BatchCount = 3
    WorkerCount = 3
    CanFail = {"search", "load", "accumulate", "throw", "spawn"}
INVARIANTS
    AccumulationSound
    ErrorIsReported
    Accounting
    NoWorkerOutlivesCall
PROPERTIES
    CallEnds
    ImplementsDelivery
