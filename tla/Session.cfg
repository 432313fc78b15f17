\* One client, two attempts of every request, one restart of the server.
SPECIFICATION Spec
CONSTANTS
    Slot = {s1, s2}
    NoSlot = NoSlot
    Attempts = 2
    MaxRestarts = 1
CHECK_DEADLOCK FALSE
INVARIANTS
    TypeOK
    WorkplaceStands
    
    JudgeSeesReference
    EarnedByClient
    CloudAccounted
PROPERTIES
    AbandonedEnds
    ImplementsContract
