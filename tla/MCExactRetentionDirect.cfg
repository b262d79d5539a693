SPECIFICATION MCSpec
CONSTANTS
    Connections <- MCConnections
    ChoiceTolerances <- MCTolerances
    ExactOnly = FALSE
    Configs <- MCConfigs
    Interval <- MCInterval
    PreAssign = 2
    PostAssign = 9
INVARIANT
    DirectNeverDominates
