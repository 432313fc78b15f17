\* Two calls for one shape: the first one's write of the cache entry fails.
SPECIFICATION Spec
CONSTANTS
    Boot = {b1, b2}
    Shape = {s1}
    Build = {q1}
    First = q1
    NoBuild = NoBuild
    Published <- PublishedRange
    Novnc <- NovncRange
    Guests = 1
    MaxRestarts = 0
    MaxRmFails = 0
CHECK_DEADLOCK FALSE
PROPERTIES
    FailedWriteIsCold
