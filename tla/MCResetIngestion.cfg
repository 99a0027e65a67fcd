SPECIFICATION ResetSpec
CONSTANTS
    alice = alice
    bob = bob
    first = first
    back = back
    Packets = {first, back}
    Accounts <- MCAccounts
    Instruction <- MCInstruction
    InitBalance <- MCInitBalance
    Uploads = {u1, u2, u3}
    NoPacket = NoPacket
    MaxAge = 1
    Skew = 1
    Ttl = 3
    MaxStall = 1
    MaxTime = 2
INVARIANTS
    AcksAgreeWithLedger
    MoneyConserved
    OneVerdict
CHECK_DEADLOCK FALSE
