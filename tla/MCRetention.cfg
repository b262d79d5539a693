SPECIFICATION RetentionSpec
CONSTANTS
    Connections <- MCConnections
    ChoiceTolerances <- MCTolerances
    ExactOnly = FALSE
    Configs <- MCConfigs
    Interval <- MCInterval
    PreAssign = 2
    PostAssign = 9
    DayConnections <- MCDayConnections
    DayTolerances <- MCDayTolerances
    DayExactOnly = FALSE
    PathCount = 4
    Policies <- MCPolicies
INVARIANTS
    TypeOK
    ExactlyNondominated
    FoundExactly
    ChosenExactly
    EfficientExactly
    BestAreKept
    SaturationIsReported
    ChoiceSeesAll
PROPERTY
    TurnedOutForGood
