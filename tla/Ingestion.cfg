CONSTANTS
    Jobs = {j1, j2}
    Keys = {k1, k2}
    NoKey = NoKey
    MaxAttempts = 3
    Operations = {o1, o2}
    StationCount = 3
SPECIFICATION MCSpec
CHECK_DEADLOCK FALSE
INVARIANTS AtMostOnce NoSilentLoss AtMostOneCommit AnswerIsTrue
PROPERTIES Settles Terminates
