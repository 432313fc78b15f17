\* Liveness on two tasks and two leases, without symmetry.
SPECIFICATION FairSpec
CONSTANTS
    a = a
    c = c
    d = d
    g = g
    big = big
    b1 = b1
    b2 = b2
    Task = {a, d}
    Batch = {b1, b2}
    Lease = {l1, l2}
    None = None
    External = {}
    Unknown = {}
    TooBig = {}
    ClientVerdict = {"completed"}
    Request <- LiveRequests
    Route <- Routes
PROPERTIES
    QueueMoves
    ExpiredLeaseReclaimed
    TeardownEnds
