SPECIFICATION FairSpec
CONSTANTS
    alice = alice
    bob = bob
    there = there
    back = back
    dear = dear
    again = again
    stray = stray
    short = short
    Packets = {there, back, dear, stray, short}
    Accounts <- MCAccounts
    Instruction <- MCOpposite
    InitBalance <- MCInitBalance
    Uploads = {u1, u2}
    NoPacket = NoPacket
    MaxCrashes = 1
    MaxLosses = 1
INVARIANTS
    TypeOK
    MoneyMovesWithItsRow
    AnswerHasRow
    NoOverdraft
PROPERTIES
    IngestEnds
CHECK_DEADLOCK FALSE
