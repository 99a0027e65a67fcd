SPECIFICATION FairMeshSpec
CONSTANTS
    alice = alice
    stranger = stranger
    bridge = bridge
    Seeded <- MCSeeded
    Bridges = {bridge}
    Messages = {m}
    Ttl = 2
    Rounds = {g1, g2}
    Flushes = {}
    Resets = {z}
    Senders = {alice}
    Doomed = {stranger}
INVARIANTS
    OneCopyPerDevice
PROPERTIES
    HeldCopyIsStable
    OneRoundIsEnough
    RequestsEnd
CHECK_DEADLOCK FALSE
