SPECIFICATION Spec
CONSTANTS
    c1 = c1
    c2 = c2
    u1 = u1
    u2 = u2
    f1 = f1
    f2 = f2
    Clients = {c1, c2}
    Configs = {f1, f2}
    Assignments <- MCAssignments
    InitialConfig = f1
    Tree <- MCTree
    StateSets <- MCStateSets
    InitialState <- MCInitialState
    NotAdded <- MCNotAdded
    Rules <- MCRules
    None = None
    local_user = local_user
    MaxOps = 3
    MaxRequests = 2
INVARIANTS
    FlagIsRight
    ViewIsRight
    ControlsFollowFlag
    OnePageOneConfig
SYMMETRY MCSymmetry
CHECK_DEADLOCK FALSE
