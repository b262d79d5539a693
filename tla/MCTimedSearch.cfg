SPECIFICATION TimedSearchSpec
CONSTANTS
    Origin = "O"
    Stops <- MCStops
    Batches <- MCBatches
    MinWait = 0
    MaxWait = 8
    MaxTransfers = 2
    WalkWeight = 1
    WaitWeight = 1
    TransferPenalty = 2
    Tolerances <- MCTolerances
    ChoiceTolerances <- MCTolerances
INVARIANTS
    TasksAreServed
    ArenaSound
    FailsOnlyEarly
    TreeIsExact
    SafePruningLosesNothing
