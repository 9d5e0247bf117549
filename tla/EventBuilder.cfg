SPECIFICATION Spec
CONSTANTS
    N = 2
    Outputs = {"pair", "other"}
    Cap = 1
    MaxSeq = 1
    MaxRuns = 2
INVARIANTS EventsAreWhole EventsSentOnce NoneForgotten
PROPERTY StopReturns
CHECK_DEADLOCK FALSE
