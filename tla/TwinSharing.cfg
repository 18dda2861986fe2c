SPECIFICATION Spec
CONSTANTS
    Updates = {u1, u2}
    Requests = {r1}
    Kinds = {"location", "stream", "history", "export", "download", "cancel", "manage", "challenge", "verify"}
    Owners = {o1, o2}
    Wants = {"private", "realtime", "storage"}
    Grants = {"none", "live", "admin", "broken"}
    MaxChain = 1
    MaxJobs = 1
    None = None
INVARIANTS DeliveredWasGranted RevokedTogether EditsBuildOnEachOther
SYMMETRY Symmetry
CHECK_DEADLOCK FALSE
