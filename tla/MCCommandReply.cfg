SPECIFICATION ReplySpec
CONSTANTS
    Names = {n1}
    Statuses <- ThreeStatuses
    MaxModules = 5
INVARIANTS OverallIsRight NoErrorLost
CHECK_DEADLOCK FALSE
