SPECIFICATION InputSpec
CONSTANTS
    LastSession = 2
    MaxSegments = 2
    Recent = 2
    MaxEdits = 1
    MaxAnalyses = 1
    MaxShown = 1
    MaxAttempts = 1
INVARIANTS
    DistanceIsShortest
    SelectedIsLongestPrefix
    DrilldownAgrees
PROPERTIES
    ResultIsKept
CHECK_DEADLOCK FALSE
