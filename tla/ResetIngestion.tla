--------------------------- MODULE ResetIngestion ---------------------------
(***************************************************************************)
(* BridgeIngestion on a server whose operator may call /api/mesh/reset,    *)
(* which forgets every claim while uploads are under way and transactions  *)
(* stay recorded.  A packet can then be claimed, and admitted to settle(), *)
(* a second time: this is the case for which the transaction store keeps   *)
(* its unique constraint on the packet's hash.                             *)
(***************************************************************************)
EXTENDS BridgeIngestion

Reset == ClearCache

NextWithReset == Next \/ Reset

ResetSpec == Init /\ [][NextWithReset]_vars /\ Fairness

-----------------------------------------------------------------------------

\* Every ack in the mesh tells its sender what the ledger says, after any
\* number of repeats: the repeat that raises sends none.
AcksAgreeWithLedger ==
    \A a \in acks : a.status = tx[a.packet]

\* Repeats move money between the accounts but never make or lose any: an
\* exception leaves settle() before the debit or after the credit.
MoneyConserved ==
    lock = {} => MapThenSumSet(LAMBDA a : balance[a], Accounts)
                   = MapThenSumSet(LAMBDA a : InitBalance[a], Accounts)

\* A bridge is told SETTLED by one upload of a packet at most, and never
\* both SETTLED and INSUFFICIENT_BALANCE: a repeat is answered
\* DUPLICATE_DROPPED or INTERNAL_ERROR.
OneVerdict ==
    \A r1, r2 \in Uploads :
        /\ packet[r1] = packet[r2]
        /\ {result[r1], result[r2]} \subseteq {"SETTLED", "INSUFFICIENT_BALANCE"}
        => r1 = r2
=============================================================================
