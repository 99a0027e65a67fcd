SPECIFICATION FairSpec
CONSTANTS
    Neighbours = {d1, d2}
    Attempts = {a1, a2}
    Gossips = {g1}
    Sources = {s1, s2}
    MaxTimers = 2
    None = None
INVARIANTS
    TypeOK
    BelievedLinksAreUp
    OneStream
PROPERTIES
    GoneIsNoticed
CHECK_DEADLOCK FALSE
