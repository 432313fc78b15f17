\* Two batches that overlap on one worker that breaks off once; cancellation and failed boots.
SPECIFICATION FairSpec
CONSTANTS
    a = a
    d = d
    w1 = w1
    w2 = w2
    b1 = b1
    b2 = b2
    Task = {a, d}
    Batch = {b1, b2}
    Worker = {w1}
    Slot = {1}
    MaxLease = 3
    MaxFault = 1
    MaxLeft = 0
    None = None
    Unknown = {}
    Resource = {"cpu"}
    Fault = {"cut", "cancel", "boot"}
    ClientVerdict = {"completed"}
    Request <- TwoRequests
    Need <- Small
    Capacity <- Fits
CHECK_DEADLOCK FALSE
INVARIANTS
    BatchVerdictTruthful
PROPERTIES
    StartingEnds
    EndIsNoticed
