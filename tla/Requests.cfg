CONSTANTS
    Requests = {c1, c2, c3}
    Keys = {k1, k2}
    Bodies = {b1, b2}
    MaxEras = 1
    Ops = {c1, c2, c3}
    Tenants = {t1, t2}
    Devices = {d1}
    Issued = Issued
    None = None
SPECIFICATION MCSpec
CHECK_DEADLOCK FALSE
SYMMETRY Symmetry
INVARIANTS OneAnsweredMutation ReplayIsFaithful ConflictIsTrue SerialAsAnswered AclHeals
