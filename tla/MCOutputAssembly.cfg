SPECIFICATION MCSpec
CONSTANTS
    Unit = 60
    Suppression = 3
    LoadThreshold = 0
    TimeScale = 12
    QualityScales <- MCScales
    Gamma = 30
    QTime = 1
    QDeparture = 1
    QFare = 2
    EarlyWeight = 1
    LateWeight = 2
    MaxIterations = 4
    LoadUnit = 12
    AbsoluteTolerance = 6
    RelativeTolerance = 6
    SearchRatio = 1
    SplitRatio = 1
    ImpedanceTolerance = 9
    IntervalOf <- MCIntervals
    Entries <- IterationEntries
    CapacitySets <- CapacityInputs
    Modes <- MCModes
INVARIANTS
    DaySplitIsWhole
    OutputAddsUp
    LoadStateIsMean
    OneCostPerIteration
    FilesTellTheRun
