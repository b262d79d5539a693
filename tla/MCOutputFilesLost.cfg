SPECIFICATION FilesSpec
CONSTANTS
    Outputs <- MCOutputs
    OutputOf <- MCOutputOf
    MaxOdResults = 1
    MaxConnectionsPerOd = 2
    MaxRuns = 2
    MaxLost = 1
INVARIANT WrittenIsComplete
CHECK_DEADLOCK FALSE
