\* Five tasks, two requests that overlap, one external task: every interleaving of
\* clients, dispatch loop, boots, teardowns, deadlines and reaper.
SPECIFICATION Spec
CONSTANTS
    a = a
    c = c
    d = d
    g = g
    big = big
    b1 = b1
    b2 = b2
    Task = {a, c, d, g, big}
    Batch = {b1, b2}
    Lease = {l1, l2, l3}
    None = None
    External = {a}
    Unknown = {}
    TooBig = {big}
    ClientVerdict = {"completed", "failed", "abandoned"}
    Request <- TwoRequests
    Route <- Routes
SYMMETRY LeaseSymmetry
INVARIANTS
    TypeOK
    LeaseTableAgrees
    LeasedMachineRuns
    LeftoverIsReported
    BatchStateTruthful
    QueueIsServed
    OneBoot
PROPERTIES
    TerminalIsFinal
    FirstVerdictStands
    ImplementsLifecycle
