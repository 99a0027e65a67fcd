SPECIFICATION FairSpec
CONSTANTS
    alice = alice
    bob = bob
    first = first
    late = late
    stray = stray
    junk = junk
    broken = broken
    Packets = {first, late, stray, junk, broken}
    Accounts <- MCAccounts
    Instruction <- MCInstruction
    InitBalance <- MCInitBalance
    Uploads = {u1, u2, u3}
    NoPacket = NoPacket
    MaxAge = 1
    Skew = 1
    Ttl = 3
    MaxStall = 1
    MaxTime = 4
INVARIANTS
    TypeOK
    AdmittedOnce
    LedgerExplainsBalances
    NoOverdraft
    DuplicateHasClaimant
    ForgottenIsStale
PROPERTIES
    ImplementsLedger
    EveryUploadAnswered
CHECK_DEADLOCK FALSE
