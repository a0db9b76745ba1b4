CONSTANTS
    w1 = w1
    d1 = d1
    r1 = r1
    Writers = {w1}
    Deleters = {d1}
    Readers = {r1}
    Payloads <- MCPayloads
    NumParts = 2
    OpFailures = TRUE
    DeleteFailures = FALSE
    InvalidParts = {1}
    MaxRef = 4
    SnapFaults = {"init", "build", "compress", "get", "write", "unsquash", "apply"}
    SnapDistinctIds = TRUE
    SnapRetryWrite = FALSE
    SnapFrom2 = "n2"
    LifeFaults = {"getTag"}
SPECIFICATION MCSpec
INVARIANT NoResurrection
CHECK_DEADLOCK FALSE
