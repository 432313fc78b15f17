\* No connection breaks; failed boots, machines left behind, cancellation and expiry.
SPECIFICATION Spec
CONSTANTS
    a = a
    d = d
    w1 = w1
    w2 = w2
    b1 = b1
    b2 = b2
    Task = {a, d}
    Batch = {b1}
    Worker = {w1, w2}
    Slot = {1}
    MaxLease = 3
    MaxFault = 0
    MaxLeft = 1
    None = None
    Unknown = {}
    Resource = {"cpu"}
    Fault = {"boot", "cancel", "expire"}
    ClientVerdict = {"completed", "failed", "abandoned"}
    Request <- TwoTasks
    Need <- Small
    Capacity <- Fits
SYMMETRY WorkerSymmetry
CHECK_DEADLOCK FALSE
INVARIANTS
    LedgerCoversMachines
    MachinesFit
    ReadyIsBacked
PROPERTIES
    ImplementsLifecycle
