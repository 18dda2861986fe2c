SPECIFICATION MCSpec
CONSTANTS
    Guards = {"role", "connector", "public", "session", "idle"}
    Requests = {r1, r2}
    Grants <- SomeGrants
    Action = "execute_command"
    Ttl <- Periods
    ChallengeTtl = 1
    Capacity = 1
    MaxTime = 5
    MaxChanges = 2
    MaxChallenges = 2
    Payloads = {"numbers", "text", "encrypted", "badPosition"}
    MaxMessages = 5
    MaxSamples = 2
    MaxRequests = 2
    MaxConfigs = 2
    MaxCrashes = 1
    None = None
    Nil = Nil
INVARIANTS ActsOnRecentAuthority LoginIsSingleUse ExposedIsCurrent PauseHolds RevokedSeesNoMore StreamInOrder
SYMMETRY Symmetry
CHECK_DEADLOCK FALSE
