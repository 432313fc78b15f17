\* Three calls for one shape, noVNC ports for two: two cold boots of the
\* same entry, a third that finds it, failures at every step, one restart, two builds.
SPECIFICATION Spec
CONSTANTS
    Boot = {b1, b2, b3}
    Shape = {s1}
    Build = {q1, q2}
    First = q1
    NoBuild = NoBuild
    Published <- PublishedRange
    Novnc <- NovncRange
    Guests = 1
    MaxRestarts = 1
    MaxRmFails = 1
CHECK_DEADLOCK FALSE
INVARIANTS
    TypeOK
    PortsExclusive
    PortsAccounted
    HandleIsBacked
    ContainersAreOwned
    HitIsSound
    ListedIsServed
PROPERTIES
    ImplementsContract
