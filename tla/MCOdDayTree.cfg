SPECIFICATION MCSpec
CONSTANTS
    MaxTransfers = 2
    Tolerances <- MCTolerances
    Origin = "O"
    Destinations <- MCDestinations
    Stops <- MCStops
    Networks <- MCNetworks
    Barred <- MCBarred
    TimeDomain <- MCTimeDomain
    MinWait = 0
    MaxWait = 4
    WalkWeight = 1
    WaitWeight = 1
    TransferPenalty = 2
    CompactionMinRemoved = 2
    CompactionMinSize = 2
    ValidatePhaseInvariants = FALSE
INVARIANTS
    TypeOK
    FrontierSound
    ConnectionSetsCanonical
    EntriesPursued
    FailsOnlyEarly
    NothingLost
PROPERTY
    DropsOnlyDead
    SearchEnds
