SPECIFICATION Spec
CONSTANTS
    d1 = d1
    d2 = d2
    s1 = s1
    s2 = s2
    n1 = n1
    n2 = n2
    Clients = {c1, c2}
    Docs = {Empty, Default, d1, d2}
    Empty = Empty
    Default = Default
    Absent = Absent
    Schemas = {s1, s2}
    Valid <- MCValid
    Names = {n1, n2}
    NoName = NoName
    InitialOut <- MCInitialOut
    MaxOps = 5
    MaxRequests = 3
SYMMETRY MCSymmetry
INVARIANTS
    ButtonsAgree
    OutFilesValid
    SubmitWritesBoth
CHECK_DEADLOCK FALSE
