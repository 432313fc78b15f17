\* One task, two workers, whichever of them breaks off, restarts or is slow.
SPECIFICATION Spec
CONSTANTS
    a = a
    d = d
    w1 = w1
    w2 = w2
    b1 = b1
    b2 = b2
    Task = {a}
    Batch = {b1}
    Worker = {w1, w2}
    Slot = {1, 2}
    MaxLease = 3
    MaxFault = 1
    MaxLeft = 0
    None = None
    Unknown = {}
    Resource = {"cpu"}
    Fault = {"cut", "restart", "slow", "expire"}
    ClientVerdict = {"completed"}
    Request <- OneRequest
    Need <- Small
    Capacity <- Fits
SYMMETRY WorkerSymmetry
CHECK_DEADLOCK FALSE
INVARIANTS
    TypeOK
    LedgerIsBacked
    StartingIsAttended
    CompletedIsEarned
