SPECIFICATION MCSpec
CONSTANTS
    Cases <- MCCases
    SourceOf <- MCSourceOf
    FilesOf <- MCFilesOf
    LateOf <- MCLateOf
    MaxChanges = 1
    Inputs <- MCInputs
    Hours = 24
INVARIANTS
    LoadTellsTheFiles
    NetworkTellsTheFiles
    NetworkIsTimetable
CHECK_DEADLOCK FALSE
