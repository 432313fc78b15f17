SPECIFICATION Spec
CONSTANTS
    a = a
    d = d
    w1 = w1
    w2 = w2
    b1 = b1
    b2 = b2
    Task = {a}
    Batch = {b1}
    Worker = {w1, w2}
    Slot = {1}
    MaxLease = 4
    MaxFault = 2
    MaxLeft = 0
    None = None
    Unknown = {}
    Resource = {"cpu"}
    Fault = {"cut"}
    ClientVerdict = {"completed"}
    Request <- OneRequest
    Need <- Small
    Capacity <- Fits
CHECK_DEADLOCK FALSE
PROPERTIES
    RetryBudgetIsFinal
