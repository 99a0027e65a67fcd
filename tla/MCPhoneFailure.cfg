SPECIFICATION Spec
CONSTANTS
    Packets = {today, old}
    Kept = {old}
    Aging = {old}
    Syncs = {s1, s2}
    Rounds = {r1}
    NoPacket = NoPacket
INVARIANTS
    FailureMeansNoPayment
