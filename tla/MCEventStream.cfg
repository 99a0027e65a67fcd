SPECIFICATION FairSpec
CONSTANTS
    Events = {won, lost, hop}
    MaxEvents = 2
    Limit = 2
    Window = 1
    Polls = {q1, q2}
    MaxTime = 1
    MaxResets = 1
INVARIANTS
    TypeOK
    SeenInLogOrder
PROPERTIES
    EventsReachDashboard
