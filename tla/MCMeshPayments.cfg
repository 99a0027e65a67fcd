SPECIFICATION Spec
CONSTANTS
    phone = phone
    bridge = bridge
    alice = alice
    bob = bob
    pay = pay
    back = back
    stray = stray
    Seeded <- MCSeeded
    Bridges = {bridge, phone}
    Messages <- MCMessages
    Ttl = 1
    Rounds = {g}
    Flushes = {f}
    Resets = {z}
    Senders = {bridge, phone}
    Doomed = {bridge}
    Packets = {pay, back, stray}
    MaxSent = 1
    Accounts = {alice, bob}
    Instruction <- MCInstruction
    InitBalance <- MCInitBalance
INVARIANTS
    TypeOK
    BalancesExplained
    FlushSettlesEverything
    VerdictLeavesAck
CHECK_DEADLOCK FALSE
