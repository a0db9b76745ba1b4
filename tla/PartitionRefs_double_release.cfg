CONSTANTS
    w1 = w1
    d1 = d1
    r1 = r1
    Writers = {w1}
    Deleters = {d1}
    Readers = {r1}
    Payloads <- MCPayloads
    NumParts = 2
    OpFailures = FALSE
    DeleteFailures = TRUE
    InvalidParts = {}
    MaxRef = 4
    SnapFaults = {"init", "build", "compress", "get", "write", "unsquash", "apply"}
    SnapDistinctIds = TRUE
    SnapRetryWrite = FALSE
    SnapFrom2 = "n2"
    LifeFaults = {"mkdir", "tagCreate", "btCreate", "dropAll", "dropTag"}
SPECIFICATION MCSpec
INVARIANT NoUseAfterEvict
CHECK_DEADLOCK FALSE
