SPECIFICATION Spec
CONSTANTS
    alice = alice
    bob = bob
    there = there
    back = back
    dear = dear
    again = again
    stray = stray
    short = short
    Packets = {there, again}
    Accounts <- MCAccounts
    Instruction <- MCTwice
    InitBalance <- MCInitBalance
    Uploads = {u1, u2}
    NoPacket = NoPacket
    MaxCrashes = 1
    MaxLosses = 1
INVARIANTS
    SpentWithinFunds
CHECK_DEADLOCK FALSE
