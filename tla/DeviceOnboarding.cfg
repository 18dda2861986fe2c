CONSTANTS
    Ops = {o1, o2, o3}
    Servers = {s1, s2}
    MaxCrashes = 1
    First = First
    None = None
SPECIFICATION Spec
CHECK_DEADLOCK FALSE
SYMMETRY Symmetry
INVARIANTS OneSubmission VoidedIsRejected FailsClosedLocally
