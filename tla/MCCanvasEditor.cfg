SPECIFICATION Spec
CONSTANTS
    Bases = {"a", "B"}
    MixedCase = {"B"}
    Paths = {"p"}
    InitialFiles <- MCFiles
    NoLink = NoLink
    MaxModules = 3
    MaxConnectors = 2
    MaxRequests = 2
    MaxOps = 3
CHECK_DEADLOCK FALSE
INVARIANTS
    LinesAgree
    SavesHeal
    ModulePortsUnique
    ReloadShowsTheSame
