----------------------- MODULE BridgeIngestionProofs ------------------------
(***************************************************************************)
(* What BridgeIngestion guarantees for any number of uploads, packets and  *)
(* accounts, any instructions, and any timing that satisfies the cover     *)
(* assumption: types, at most one admission per packet, no overdraft, the  *)
(* refinement of Ledger, and balances that the ledger explains; and what   *)
(* of it ResetIngestion keeps, where resets let packets be admitted again. *)
(***************************************************************************)
EXTENDS ResetIngestion, PaymentsProofs, TLAPS

-----------------------------------------------------------------------------
(* Type correctness.                                                       *)

\* An upload that has left Record has a transaction to acknowledge.
Recorded == \A r \in Uploads : pc[r] = "recorded" => tx[packet[r]] # "NONE"

TypeInv == TypeOK /\ Recorded

LEMMA InitTypeInv == Init => TypeInv
BY BalanceAssumption DEF Init, TypeInv, TypeOK, Recorded, Stages, Critical, Absent

LEMMA NextTypeInv == TypeInv /\ [Next]_vars => TypeInv'
<1> SUFFICES ASSUME TypeInv, [Next]_vars PROVE TypeInv'
  OBVIOUS
<1> USE DEF TypeInv, TypeOK, Recorded
<1>1. ASSUME NEW r \in Uploads, NEW p \in Packets, Ingest(r, p)
      PROVE  TypeInv'
  BY <1>1 DEF Ingest, Claim, Answer, Goto, Results, Stages, Absent
<1>2. ASSUME NEW r \in Uploads, CheckFreshness(r) PROVE TypeInv'
  BY <1>2 DEF CheckFreshness, Answer, Goto, Results, Stages
<1>3. ASSUME NEW r \in Uploads, EnterSettle(r) PROVE TypeInv'
  <2>1. packet[r] \in Packets
    BY <1>3 DEF EnterSettle
  <2>2. balance' \in [Accounts -> Int]
    BY <1>3, <2>1, DebitEffect DEF EnterSettle
  <2> QED
    BY <1>3, <2>1, <2>2 DEF EnterSettle, Raise, Answer, Goto, Results, Stages,
       Critical
<1>4. ASSUME NEW r \in Uploads, Credit(r) PROVE TypeInv'
  <2>1. packet[r] \in Packets
    BY <1>4 DEF Credit
  <2>2. balance' \in [Accounts -> Int]
    BY <1>4, <2>1, CreditEffect DEF Credit
  <2> QED
    BY <1>4, <2>2 DEF Credit, Goto, Stages, Critical
<1>5. ASSUME NEW r \in Uploads, Record(r) PROVE TypeInv'
  BY <1>5 DEF Record, Raise, Answer, Goto, Results, Stages, Critical, Statuses
<1>6. ASSUME NEW r \in Uploads, Acknowledge(r) PROVE TypeInv'
  BY <1>6 DEF Acknowledge, Raise, Answer, Results, Stages, Critical, Statuses
<1>7. CASE EvictExpired
  BY <1>7 DEF EvictExpired, Absent
<1>8. CASE Tick
  BY <1>8 DEF Tick
<1>9. CASE UNCHANGED vars
  BY <1>9 DEF vars
<1> QED
  BY <1>1, <1>2, <1>3, <1>4, <1>5, <1>6, <1>7, <1>8, <1>9 DEF Next, Proceed

\* Every variable keeps its type, and an upload under way has its packet.
THEOREM TypeCorrect == Spec => []TypeOK
BY InitTypeInv, NextTypeInv, PTL DEF Spec, TypeInv

-----------------------------------------------------------------------------
(* At most one admission per packet.                                       *)
(*                                                                         *)
(* While the claim is remembered no second upload gets past it.  When it   *)
(* is forgotten the packet must be too old already; for that its signing   *)
(* time is bounded by the claim's: the freshness check let it be Skew      *)
(* ahead of a clock at most MaxStall past the claim.  Ttl covers the sum.  *)

\* A thread between claim and check is remembered, and has not stalled long.
ClaimStands ==
    \A r \in Uploads : pc[r] = "claimed" =>
        /\ seen[packet[r]] # Absent
        /\ seen[packet[r]] <= now
        /\ now <= seen[packet[r]] + MaxStall

\* The claim bounds how late an admitted packet can have been signed.
SignedInTime ==
    \A r \in Uploads : Admitted(r) /\ seen[packet[r]] # Absent =>
        Instruction[packet[r]].signedAt <= seen[packet[r]] + MaxStall + Skew

\* At most one thread per packet is past the claim, unless the packet is
\* too old to be let past the freshness check again.
OneClaimant ==
    \A r1, r2 \in Uploads : r1 # r2 /\ packet[r1] = packet[r2] =>
        /\ ~(pc[r1] = "claimed" /\ pc[r2] = "claimed")
        /\ pc[r1] = "claimed" /\ Admitted(r2) => TooOld(packet[r1])
        /\ ~(Admitted(r1) /\ Admitted(r2))

AdmissionInv ==
    TypeInv /\ ClaimStands /\ ForgottenIsStale /\ SignedInTime /\ OneClaimant

LEMMA AdmittedHasPacket ==
    TypeInv => \A r \in Uploads : Admitted(r) => packet[r] \in Packets
BY DEF TypeInv, TypeOK, Admitted, Critical

LEMMA InitAdmission == Init => AdmissionInv
<1> SUFFICES ASSUME Init PROVE AdmissionInv
  OBVIOUS
<1>1. TypeInv
  BY InitTypeInv
<1>2. \A r \in Uploads : pc[r] = "idle" /\ ~Admitted(r)
  BY DEF Init, Admitted, Critical
<1> QED
  BY <1>1, <1>2 DEF AdmissionInv, ClaimStands, ForgottenIsStale, SignedInTime,
     OneClaimant

\* What a step does to the predicates of AdmissionInv when it neither claims,
\* admits, evicts nor lets time pass.
Unadmitting ==
    /\ now' = now /\ seen' = seen /\ packet' = packet
    /\ \A q \in Uploads : pc'[q] = "claimed" => pc[q] = "claimed"
    /\ \A q \in Uploads : Admitted(q)' => Admitted(q)

LEMMA UnadmittingKeepsAdmission ==
    ASSUME AdmissionInv, TypeInv', Unadmitting PROVE AdmissionInv'
<1> USE DEF Unadmitting, AdmissionInv
<1>1. ClaimStands'
  BY DEF ClaimStands
<1>2. ForgottenIsStale'
  BY DEF ForgottenIsStale, TooOld
<1>3. SignedInTime'
  BY DEF SignedInTime
<1>4. OneClaimant'
  BY DEF OneClaimant, TooOld
<1> QED
  BY <1>1, <1>2, <1>3, <1>4

LEMMA SettlingIsUnadmitting ==
    ASSUME TypeInv, NEW r \in Uploads,
           EnterSettle(r) \/ Credit(r) \/ Record(r) \/ Acknowledge(r)
    PROVE  Unadmitting
<1> USE DEF TypeInv, TypeOK
<1>1. /\ now' = now /\ seen' = seen /\ packet' = packet
      /\ pc[r] \in {"fresh"} \union Critical
      /\ pc'[r] \in Critical \union {"done"}
      /\ \A q \in Uploads \ {r} : pc'[q] = pc[q] /\ result'[q] = result[q]
  BY DEF EnterSettle, Credit, Record, Acknowledge, Raise, Answer, Goto, Critical
<1> QED
  BY <1>1 DEF Unadmitting, Admitted, Critical

LEMMA NextAdmission == AdmissionInv /\ [Next]_vars => AdmissionInv'
<1> SUFFICES ASSUME AdmissionInv, [Next]_vars PROVE AdmissionInv'
  OBVIOUS
<1>1. TypeInv /\ TypeInv'
  BY NextTypeInv DEF AdmissionInv
<1> USE TimingAssumption, InstructionAssumption
<1>2. ASSUME NEW r \in Uploads, NEW p \in Packets, Ingest(r, p)
      PROVE  AdmissionInv'
  <2> USE DEF AdmissionInv, TypeInv, TypeOK
  <2>1. /\ now' = now /\ packet'[r] = p /\ pc[r] = "idle"
        /\ \A q \in Uploads \ {r} : /\ packet'[q] = packet[q]
                                    /\ pc'[q] = pc[q]
                                    /\ result'[q] = result[q]
    BY <1>2 DEF Ingest, Claim, Answer, Goto
  <2>2. \A q \in Uploads : Admitted(q)' => Admitted(q) /\ q # r
    BY <1>2, <2>1 DEF Ingest, Claim, Answer, Goto, Admitted, Critical
  <2>3. CASE seen' = seen
    <3>1. pc'[r] = "done"
      BY <1>2, <2>3 DEF Ingest, Claim, Answer, Goto, Absent
    <3> QED
      BY <1>1, <2>1, <2>2, <2>3, <3>1
         DEF ClaimStands, ForgottenIsStale, SignedInTime, OneClaimant, TooOld
  <2>4. CASE seen' # seen
    <3>1. /\ seen[p] = Absent
          /\ seen'[p] = now /\ now # Absent
          /\ \A x \in Packets \ {p} : seen'[x] = seen[x]
          /\ pc'[r] = "claimed"
      BY <1>2, <2>4 DEF Ingest, Claim, Answer, Goto, Absent
    <3>2. \A q \in Uploads : Admitted(q)' /\ packet[q] = p => TooOld(p)
      BY <2>2, <3>1 DEF ForgottenIsStale
    <3>3. ClaimStands'
      BY <2>1, <3>1 DEF ClaimStands, Absent
    <3>4. ForgottenIsStale'
      BY AdmittedHasPacket, <2>1, <2>2, <3>1 DEF ForgottenIsStale, TooOld
    <3>5. SignedInTime'
      BY AdmittedHasPacket, <2>1, <2>2, <3>1, <3>2 DEF SignedInTime, TooOld
    <3>6. OneClaimant'
      BY <2>1, <2>2, <3>1, <3>2 DEF OneClaimant, ClaimStands, TooOld
    <3> QED
      BY <1>1, <3>3, <3>4, <3>5, <3>6
  <2> QED
    BY <2>3, <2>4
<1>3. ASSUME NEW r \in Uploads, CheckFreshness(r) PROVE AdmissionInv'
  <2> USE DEF AdmissionInv, TypeInv, TypeOK
  <2>1. /\ now' = now /\ packet' = packet /\ seen' = seen
        /\ pc[r] = "claimed" /\ pc'[r] \in {"fresh", "done"}
        /\ \A q \in Uploads \ {r} : pc'[q] = pc[q] /\ result'[q] = result[q]
    BY <1>3 DEF CheckFreshness, Answer, Goto
  <2>2. \A q \in Uploads \ {r} : Admitted(q)' => Admitted(q)
    BY <2>1 DEF Admitted
  <2>3. Admitted(r)' => ~TooOld(packet[r]) /\ ~TooEarly(packet[r])
    BY <1>3 DEF CheckFreshness, Answer, Goto, Admitted, Critical
  <2>4. ClaimStands'
    BY <2>1 DEF ClaimStands
  <2>5. ForgottenIsStale'
    BY <2>1, <2>2 DEF ForgottenIsStale, ClaimStands, TooOld
  <2>6. SignedInTime'
    <3>1. Admitted(r)' => Instruction[packet[r]].signedAt
                            <= seen[packet[r]] + MaxStall + Skew
      BY <2>1, <2>3 DEF ClaimStands, TooEarly
    <3> QED
      BY <2>1, <2>2, <3>1 DEF SignedInTime
  <2>7. OneClaimant'
    BY <2>1, <2>2, <2>3 DEF OneClaimant, TooOld
  <2> QED
    BY <1>1, <2>4, <2>5, <2>6, <2>7
<1>4. ASSUME NEW r \in Uploads,
             EnterSettle(r) \/ Credit(r) \/ Record(r) \/ Acknowledge(r)
      PROVE  AdmissionInv'
  BY <1>1, <1>4, SettlingIsUnadmitting, UnadmittingKeepsAdmission
<1>5. CASE EvictExpired
  <2> USE DEF AdmissionInv, TypeInv, TypeOK
  <2>1. /\ now' = now /\ packet' = packet /\ pc' = pc /\ result' = result
        /\ \A x \in Packets : \/ seen'[x] = seen[x]
                              \/ /\ seen'[x] = Absent /\ seen[x] # Absent
                                 /\ seen[x] < now - Ttl
    BY <1>5 DEF EvictExpired
  <2>2. \A q \in Uploads : Admitted(q)' <=> Admitted(q)
    BY <2>1 DEF Admitted
  <2>3. ClaimStands'
    BY <2>1, CoverAssumption DEF ClaimStands, Absent
  <2>4. ForgottenIsStale'
    BY AdmittedHasPacket, <2>1, <2>2, CoverAssumption DEF ForgottenIsStale, SignedInTime, TooOld, Absent
  <2>5. SignedInTime'
    BY AdmittedHasPacket, <2>1, <2>2 DEF SignedInTime
  <2>6. OneClaimant'
    BY <2>1, <2>2 DEF OneClaimant, TooOld
  <2> QED
    BY <1>1, <2>3, <2>4, <2>5, <2>6
<1>6. CASE Tick
  <2> USE DEF AdmissionInv, TypeInv, TypeOK
  <2>1. /\ now' = now + 1 /\ packet' = packet /\ pc' = pc /\ seen' = seen
        /\ result' = result
    BY <1>6 DEF Tick
  <2>2. \A q \in Uploads : Admitted(q)' <=> Admitted(q)
    BY <2>1 DEF Admitted
  <2>3. \A q \in Uploads : pc[q] # "idle" /\ TooOld(packet[q]) => TooOld(packet[q])'
    BY <2>1 DEF TooOld
  <2>4. ClaimStands'
    BY <1>6, <2>1 DEF ClaimStands, Tick, Absent
  <2>5. ForgottenIsStale'
    BY <2>1, <2>2, <2>3 DEF ForgottenIsStale, Admitted, Critical
  <2>6. SignedInTime'
    BY <2>1, <2>2 DEF SignedInTime
  <2>7. OneClaimant'
    BY <2>1, <2>2, <2>3 DEF OneClaimant
  <2> QED
    BY <1>1, <2>4, <2>5, <2>6, <2>7
<1>7. CASE UNCHANGED vars
  <2>1. Unadmitting
    BY <1>7 DEF vars, Unadmitting, Admitted
  <2> QED
    BY <1>1, <2>1, UnadmittingKeepsAdmission
<1> QED
  BY <1>2, <1>3, <1>4, <1>5, <1>6, <1>7 DEF Next, Proceed

\* However many bridges deliver a packet, and however far apart, at most one
\* delivery is admitted to settle().
THEOREM AdmittedAtMostOnce == Spec => []AdmittedOnce
<1>1. AdmissionInv => AdmittedOnce
  BY DEF AdmissionInv, OneClaimant, AdmittedOnce
<1> QED
  BY <1>1, InitAdmission, NextAdmission, PTL DEF Spec

\* A claim is forgotten only once the freshness check refuses the packet.
THEOREM NoGapInDefences == Spec => []ForgottenIsStale
<1>1. AdmissionInv => ForgottenIsStale
  BY DEF AdmissionInv
<1> QED
  BY <1>1, InitAdmission, NextAdmission, PTL DEF Spec

-----------------------------------------------------------------------------
(* A bridge that is turned away can rely on another upload of the packet.  *)

\* Another upload of p was let through the claim.
Claimant(q, p) ==
    packet[q] = p /\ pc[q] # "idle" /\ result[q] # "DUPLICATE_DROPPED"

\* Whatever the cache remembers, some upload claimed.
ClaimInv ==
    /\ TypeInv
    /\ \A r \in Uploads : pc[r] = "idle" => result[r] = "NONE"
    /\ \A r \in Uploads : result[r] = "DUPLICATE_DROPPED" => pc[r] = "done"
    /\ \A p \in Packets : seen[p] # Absent => \E q \in Uploads : Claimant(q, p)
    /\ \A r \in Uploads : result[r] = "DUPLICATE_DROPPED" =>
          \E q \in Uploads : Claimant(q, packet[r])

LEMMA InitClaim == Init => ClaimInv
BY InitTypeInv DEF Init, ClaimInv

\* Every step but a claim keeps the claimants, turns nobody away as a
\* duplicate and makes the cache remember nothing.
Unclaiming ==
    /\ \A p \in Packets : seen'[p] # Absent => seen[p] # Absent
    /\ \A r \in Uploads :
          /\ packet'[r] = packet[r]
          /\ pc[r] # "idle" => pc'[r] # "idle"
          /\ result'[r] = "DUPLICATE_DROPPED" => result[r] = "DUPLICATE_DROPPED"
          /\ pc'[r] = "idle" => pc[r] = "idle" /\ result'[r] = result[r]
          /\ pc[r] = "done" => pc'[r] = "done"

LEMMA UnclaimingKeepsClaims ==
    ASSUME ClaimInv, TypeInv', Unclaiming PROVE ClaimInv'
BY DEF ClaimInv, Unclaiming, Claimant

LEMMA NextClaim == ClaimInv /\ [Next]_vars => ClaimInv'
<1> SUFFICES ASSUME ClaimInv, [Next]_vars PROVE ClaimInv'
  OBVIOUS
<1>1. TypeInv /\ TypeInv'
  BY NextTypeInv DEF ClaimInv
<1> USE DEF TypeInv, TypeOK
<1>2. ASSUME NEW r \in Uploads, NEW p \in Packets, Ingest(r, p)
      PROVE  ClaimInv'
  <2>1. /\ packet'[r] = p /\ pc[r] = "idle" /\ pc'[r] # "idle"
        /\ \A q \in Uploads \ {r} : /\ packet'[q] = packet[q]
                                    /\ pc'[q] = pc[q]
                                    /\ result'[q] = result[q]
    BY <1>1, <1>2 DEF Ingest, Claim, Answer, Goto
  <2>2. \A q \in Uploads, x \in Packets :
           Claimant(q, x) => q # r /\ Claimant(q, x)'
    BY <2>1 DEF Claimant
  <2>3. CASE result'[r] = "DUPLICATE_DROPPED"
    <3>1. seen' = seen /\ seen[p] # Absent /\ pc'[r] = "done"
      BY <1>1, <1>2, <2>1, <2>3 DEF Ingest, Claim, Answer, Goto, ClaimInv
    <3> QED
      BY <1>1, <2>1, <2>2, <2>3, <3>1 DEF ClaimInv
  <2>4. CASE result'[r] # "DUPLICATE_DROPPED"
    <3>1. Claimant(r, p)'
      BY <2>1, <2>4 DEF Claimant
    <3>2. \A x \in Packets \ {p} : seen'[x] = seen[x]
      BY <1>1, <1>2 DEF Ingest, Claim
    <3> QED
      BY <1>1, <2>1, <2>2, <2>4, <3>1, <3>2 DEF ClaimInv
  <2> QED
    BY <2>3, <2>4
<1>3. ASSUME NEW r \in Uploads, Proceed(r) PROVE ClaimInv'
  <2>1. /\ seen' = seen /\ packet' = packet
        /\ pc[r] \notin {"idle", "done"} /\ pc'[r] # "idle"
        /\ \A q \in Uploads \ {r} : pc'[q] = pc[q] /\ result'[q] = result[q]
    BY <1>1, <1>3 DEF Proceed, CheckFreshness, EnterSettle, Credit, Record,
       Acknowledge, Raise, Answer, Goto
  <2>2. result'[r] = "DUPLICATE_DROPPED" => result[r] = "DUPLICATE_DROPPED"
    BY <1>1, <1>3 DEF Proceed, CheckFreshness, EnterSettle, Credit, Record,
       Acknowledge, Raise, Answer, Goto
  <2> QED
    BY <1>1, <2>1, <2>2, UnclaimingKeepsClaims DEF Unclaiming
<1>4. CASE EvictExpired \/ Tick \/ UNCHANGED vars
  <2>1. Unclaiming
    BY <1>1, <1>4 DEF EvictExpired, Tick, vars, Unclaiming
  <2> QED
    BY <1>1, <2>1, UnclaimingKeepsClaims
<1> QED
  BY <1>2, <1>3, <1>4 DEF Next

\* Whoever is told that a packet is a duplicate can forget it: another
\* upload of it was let through the claim.
THEOREM DuplicatesAreCarried == Spec => []DuplicateHasClaimant
<1>1. ClaimInv => DuplicateHasClaimant
  BY DEF ClaimInv, Claimant, DuplicateHasClaimant
<1> QED
  BY <1>1, InitClaim, NextClaim, PTL DEF Spec

-----------------------------------------------------------------------------
(* Settlement: who holds the lock, and what is true while it is held.      *)

\* The lock is held by exactly the upload inside settle(), so by one at most.
LockHeldInside ==
    /\ \A r \in Uploads : r \in lock <=> pc[r] \in Critical
    /\ \A r1, r2 \in lock : r1 = r2

\* Nothing malformed gets past the claim, only payments past the freshness
\* check, and only payable ones past validation.
OnlyPayments ==
    \A r \in Uploads :
        /\ pc[r] = "claimed" => Instruction[packet[r]].kind # "malformed"
        /\ pc[r] \in {"fresh"} \union Critical
              => Instruction[packet[r]].kind = "payment"
        /\ pc[r] \in Critical => Payable(packet[r])

\* What settle() found or left in the balances is still there: nobody else
\* changes them meanwhile.
FundsInPlace ==
    \A r \in Uploads :
        /\ pc[r] = "credited"
              => balance[Receiver(packet[r])] >= Amount(packet[r])
        /\ pc[r] = "rejecting" => balance[Sender(packet[r])] < Amount(packet[r])

\* Who is inside settle() and what it stands on.  None of it depends on how
\* often a packet is admitted.
FundsInv ==
    /\ TypeInv
    /\ LockHeldInside
    /\ OnlyPayments
    /\ NoOverdraft
    /\ FundsInPlace

\* Behind every transaction there is an upload that has left Record.
TransactionHasUpload ==
    \A p \in Packets : tx[p] # "NONE" =>
        \E r \in Uploads : /\ packet[r] = p
                           /\ Admitted(r)
                           /\ pc[r] \in {"recorded", "done"}

SettleInv == AdmissionInv /\ FundsInv /\ TransactionHasUpload

LEMMA InitFunds == Init => FundsInv
BY InitTypeInv, BalanceAssumption DEF Init, FundsInv, LockHeldInside,
   OnlyPayments, NoOverdraft, FundsInPlace, Critical

LEMMA InitSettle == Init => SettleInv
BY InitAdmission, InitFunds DEF Init, SettleInv, TransactionHasUpload

\* A transfer about to be recorded meets no transaction of its packet, so
\* record() never raises: the unique constraint is a second line of defence.
LEMMA RecordIsFirst ==
    ASSUME SettleInv, NEW r \in Uploads, pc[r] \in {"credited", "rejecting"}
    PROVE  tx[packet[r]] = "NONE"
<1>1. Admitted(r) /\ packet[r] \in Packets
  BY AdmittedHasPacket DEF SettleInv, AdmissionInv, Admitted, Critical
<1>2. SUFFICES ASSUME tx[packet[r]] # "NONE" PROVE FALSE
  OBVIOUS
<1>3. PICK q \in Uploads : /\ packet[q] = packet[r]
                           /\ Admitted(q)
                           /\ pc[q] \in {"recorded", "done"}
  BY <1>1, <1>2 DEF SettleInv, TransactionHasUpload
<1>4. q = r
  BY <1>1, <1>3 DEF SettleInv, AdmissionInv, OneClaimant
<1> QED
  BY <1>3, <1>4

\* A step outside settle(): it moves no upload into, inside or out of it.
Outside ==
    /\ lock' = lock /\ balance' = balance /\ tx' = tx
    /\ \A r \in Uploads :
          /\ pc'[r] \in Critical <=> pc[r] \in Critical
          /\ pc[r] \in Critical => pc'[r] = pc[r]
          /\ pc[r] # "idle" => packet'[r] = packet[r]
          /\ pc[r] \in {"recorded", "done"} /\ Admitted(r)
                => pc'[r] = pc[r] /\ Admitted(r)'
          /\ pc'[r] = "fresh" => Instruction[packet'[r]].kind = "payment"
          /\ pc'[r] = "claimed" => Instruction[packet'[r]].kind # "malformed"

LEMMA OutsideKeepsFunds ==
    ASSUME FundsInv, TypeInv', Outside PROVE FundsInv'
<1> USE DEF FundsInv, Outside
<1>1. \A r \in Uploads : pc[r] \in Critical => packet'[r] = packet[r]
  BY DEF Critical
<1>2. LockHeldInside'
  BY DEF LockHeldInside
<1>3. OnlyPayments'
  BY <1>1 DEF OnlyPayments
<1>4. NoOverdraft'
  BY DEF NoOverdraft
<1>5. FundsInPlace'
  BY <1>1 DEF FundsInPlace, Critical
<1> QED
  BY <1>2, <1>3, <1>4, <1>5

LEMMA IngestIsOutside ==
    ASSUME FundsInv, NEW r \in Uploads, NEW p \in Packets, Ingest(r, p)
    PROVE  Outside
<1>1. TypeOK
  BY DEF FundsInv, TypeInv
<1>2. /\ lock' = lock /\ balance' = balance /\ tx' = tx
      /\ pc[r] = "idle" /\ packet'[r] = p
      /\ pc'[r] = "done" \/ (pc'[r] = "claimed" /\ Instruction[p].kind # "malformed")
      /\ \A q \in Uploads \ {r} : /\ packet'[q] = packet[q]
                                  /\ pc'[q] = pc[q]
                                  /\ result'[q] = result[q]
  BY <1>1 DEF Ingest, Claim, Answer, Goto, TypeOK
<1> QED
  BY <1>2 DEF Outside, Admitted, Critical, FundsInv, OnlyPayments

LEMMA FreshnessIsOutside ==
    ASSUME FundsInv, NEW r \in Uploads, CheckFreshness(r)
    PROVE  Outside
<1>1. TypeOK
  BY DEF FundsInv, TypeInv
<1>2. /\ lock' = lock /\ balance' = balance /\ tx' = tx /\ packet' = packet
      /\ pc[r] = "claimed" /\ packet[r] \in Packets
      /\ pc'[r] = "done" \/ (pc'[r] = "fresh" /\ Instruction[packet[r]].kind # "junk")
      /\ \A q \in Uploads \ {r} : pc'[q] = pc[q] /\ result'[q] = result[q]
  BY <1>1 DEF CheckFreshness, Answer, Goto, TypeOK
<1>3. pc'[r] = "fresh" => Instruction[packet[r]].kind = "payment"
  BY <1>2, InstructionAssumption DEF FundsInv, OnlyPayments, Kinds
<1> QED
  BY <1>2, <1>3 DEF Outside, Admitted, Critical, FundsInv, OnlyPayments

LEMMA BackgroundIsOutside ==
    ASSUME FundsInv, EvictExpired \/ Tick \/ UNCHANGED vars
    PROVE  Outside
<1>1. /\ lock' = lock /\ balance' = balance /\ tx' = tx
      /\ pc' = pc /\ packet' = packet /\ result' = result
  BY DEF EvictExpired, Tick, vars
<1> QED
  BY <1>1 DEF Outside, Admitted, FundsInv, OnlyPayments

LEMMA NextFunds == FundsInv /\ [Next]_vars => FundsInv'
<1> SUFFICES ASSUME FundsInv, [Next]_vars PROVE FundsInv'
  OBVIOUS
<1>1. TypeInv /\ TypeInv'
  BY NextTypeInv DEF FundsInv
<1> USE DEF TypeInv, TypeOK
<1>2. ASSUME NEW r \in Uploads, NEW p \in Packets, Ingest(r, p)
      PROVE  FundsInv'
  BY <1>1, <1>2, IngestIsOutside, OutsideKeepsFunds
<1>3. ASSUME NEW r \in Uploads, CheckFreshness(r) PROVE FundsInv'
  BY <1>1, <1>3, FreshnessIsOutside, OutsideKeepsFunds
<1>4. ASSUME NEW r \in Uploads, EnterSettle(r) PROVE FundsInv'
  <2>1. /\ tx' = tx /\ packet' = packet /\ pc[r] = "fresh" /\ packet[r] \in Packets
        /\ \A q \in Uploads \ {r} : pc'[q] = pc[q] /\ result'[q] = result[q]
    BY <1>1, <1>4 DEF EnterSettle, Raise, Answer, Goto
  <2>2. \A q \in Uploads : pc[q] \notin Critical
    BY <1>4 DEF EnterSettle, FundsInv, LockHeldInside
  <2>3. \/ pc'[r] = "done" /\ lock' = {} /\ balance' = balance
        \/ /\ pc'[r] = "rejecting" /\ lock' = {r} /\ balance' = balance
           /\ Payable(packet[r]) /\ balance[Sender(packet[r])] < Amount(packet[r])
        \/ /\ pc'[r] = "debited" /\ lock' = {r} /\ Payable(packet[r])
           /\ balance[Sender(packet[r])] >= Amount(packet[r])
           /\ balance' = DebitSender(balance, packet[r])
    BY <1>1, <1>4 DEF EnterSettle, Raise, Answer, Goto
  <2>4. LockHeldInside'
    BY <2>1, <2>2, <2>3 DEF LockHeldInside, Critical
  <2>5. OnlyPayments'
    BY <2>1, <2>2, <2>3 DEF FundsInv, OnlyPayments, Critical
  <2>6. NoOverdraft'
    <3>1. Amount(packet[r]) \in Int /\ \A a \in Accounts : balance[a] \in Nat
      BY <1>1, <2>1, AmountType DEF FundsInv, NoOverdraft
    <3>2. \/ balance' = balance
          \/ /\ balance[Sender(packet[r])] >= Amount(packet[r])
             /\ \A a \in Accounts : balance'[a] = IF a = Sender(packet[r])
                                THEN balance[a] - Amount(packet[r]) ELSE balance[a]
      BY <1>1, <2>1, <2>3, DebitEffect
    <3> QED
      BY <3>1, <3>2 DEF NoOverdraft
  <2>7. FundsInPlace'
    BY <2>1, <2>2, <2>3 DEF FundsInPlace, Critical
  <2> QED
    BY <1>1, <2>4, <2>5, <2>6, <2>7 DEF FundsInv
<1>5. ASSUME NEW r \in Uploads, Credit(r) PROVE FundsInv'
  <2>1. /\ tx' = tx /\ packet' = packet /\ lock' = lock
        /\ pc[r] = "debited" /\ pc'[r] = "credited" /\ packet[r] \in Packets
        /\ balance' = CreditReceiver(balance, packet[r])
        /\ \A q \in Uploads \ {r} : pc'[q] = pc[q] /\ result'[q] = result[q]
    BY <1>1, <1>5 DEF Credit, Goto
  <2>2. \A q \in Uploads \ {r} : pc[q] \notin Critical
    BY <2>1 DEF FundsInv, LockHeldInside, Critical
  <2>3. Payable(packet[r])
    BY <2>1 DEF FundsInv, OnlyPayments, Critical
  <2>4. LockHeldInside'
    BY <2>1 DEF FundsInv, LockHeldInside, Critical
  <2>5. OnlyPayments'
    BY <2>1 DEF FundsInv, OnlyPayments, Critical
  <2>6. NoOverdraft'
    <3>1. Amount(packet[r]) \in Nat /\ \A a \in Accounts : balance[a] \in Nat
      BY <1>1, <2>1, <2>3, AmountType DEF FundsInv, NoOverdraft, Payable
    <3>2. \A a \in Accounts : balance'[a] = IF a = Receiver(packet[r])
                             THEN balance[a] + Amount(packet[r]) ELSE balance[a]
      BY <1>1, <2>1, CreditEffect
    <3> QED
      BY <3>1, <3>2 DEF NoOverdraft
  <2>7. FundsInPlace'
    BY <1>1, <2>1, <2>2, <2>3, CreditEffect, AmountType
       DEF FundsInv, NoOverdraft, FundsInPlace, Payable, Critical
  <2> QED
    BY <1>1, <2>4, <2>5, <2>6, <2>7 DEF FundsInv
<1>6. ASSUME NEW r \in Uploads, Record(r) PROVE FundsInv'
  <2>1. /\ balance' = balance /\ packet' = packet
        /\ pc[r] \in {"credited", "rejecting"}
        /\ \/ pc'[r] = "recorded" /\ lock' = lock
           \/ pc'[r] = "done" /\ lock' = {}
        /\ \A q \in Uploads \ {r} : pc'[q] = pc[q]
    BY <1>1, <1>6 DEF Record, Raise, Answer, Goto
  <2>2. \A q \in Uploads \ {r} : pc[q] \notin Critical
    BY <2>1 DEF FundsInv, LockHeldInside, Critical
  <2>3. LockHeldInside'
    BY <2>1, <2>2 DEF FundsInv, LockHeldInside, Critical
  <2>4. OnlyPayments'
    BY <2>1 DEF FundsInv, OnlyPayments, Critical
  <2>5. NoOverdraft'
    BY <2>1 DEF FundsInv, NoOverdraft
  <2>6. FundsInPlace'
    BY <2>1 DEF FundsInv, FundsInPlace
  <2> QED
    BY <1>1, <2>3, <2>4, <2>5, <2>6 DEF FundsInv
<1>7. ASSUME NEW r \in Uploads, Acknowledge(r) PROVE FundsInv'
  <2>1. /\ balance' = balance /\ packet' = packet /\ tx' = tx /\ lock' = {}
        /\ pc[r] = "recorded" /\ pc'[r] = "done" /\ packet[r] \in Packets
        /\ result'[r] \in {"SETTLED", "INSUFFICIENT_BALANCE", "INTERNAL_ERROR"}
        /\ \A q \in Uploads \ {r} : pc'[q] = pc[q] /\ result'[q] = result[q]
    BY <1>1, <1>7 DEF Acknowledge, Raise, Answer
  <2>2. LockHeldInside'
    BY <2>1 DEF FundsInv, LockHeldInside, Critical
  <2>3. OnlyPayments'
    BY <2>1 DEF FundsInv, OnlyPayments, Critical
  <2>4. NoOverdraft'
    BY <2>1 DEF FundsInv, NoOverdraft
  <2>5. FundsInPlace'
    BY <2>1 DEF FundsInv, FundsInPlace
  <2> QED
    BY <1>1, <2>2, <2>3, <2>4, <2>5 DEF FundsInv
<1>8. CASE EvictExpired \/ Tick \/ UNCHANGED vars
  BY <1>1, <1>8, BackgroundIsOutside, OutsideKeepsFunds
<1> QED
  BY <1>2, <1>3, <1>4, <1>5, <1>6, <1>7, <1>8 DEF Next, Proceed

LEMMA NextSettle == SettleInv /\ [Next]_vars => SettleInv'
<1> SUFFICES ASSUME SettleInv, [Next]_vars PROVE TransactionHasUpload'
  BY NextAdmission, NextFunds DEF SettleInv
<1>1. TypeInv /\ FundsInv /\ TransactionHasUpload
  BY DEF SettleInv, FundsInv
<1> USE DEF TypeInv, TypeOK
<1>2. CASE Outside
  BY <1>1, <1>2 DEF Outside, TransactionHasUpload
<1>3. ASSUME NEW r \in Uploads, EnterSettle(r) \/ Credit(r)
      PROVE  TransactionHasUpload'
  <2>1. /\ tx' = tx /\ packet' = packet /\ pc[r] \in {"fresh", "debited"}
        /\ \A q \in Uploads \ {r} : pc'[q] = pc[q] /\ result'[q] = result[q]
    BY <1>1, <1>3 DEF EnterSettle, Credit, Raise, Answer, Goto
  <2> QED
    BY <1>1, <2>1 DEF TransactionHasUpload, Admitted
<1>4. ASSUME NEW r \in Uploads, Record(r) PROVE TransactionHasUpload'
  <2>1. tx[packet[r]] = "NONE"
    BY <1>4, RecordIsFirst DEF Record
  <2>2. /\ packet' = packet /\ result' = result
        /\ pc[r] \in {"credited", "rejecting"} /\ pc'[r] = "recorded"
        /\ packet[r] \in Packets
        /\ \A p \in Packets \ {packet[r]} : tx'[p] = tx[p]
        /\ \A q \in Uploads \ {r} : pc'[q] = pc[q]
    BY <1>1, <1>4, <2>1 DEF Record, Goto
  <2>3. Admitted(r)'
    BY <2>2 DEF Admitted, Critical
  <2> QED
    BY <1>1, <2>2, <2>3 DEF TransactionHasUpload, Admitted
<1>5. ASSUME NEW r \in Uploads, Acknowledge(r) PROVE TransactionHasUpload'
  <2>1. /\ packet' = packet /\ tx' = tx
        /\ pc[r] = "recorded" /\ pc'[r] = "done" /\ packet[r] \in Packets
        /\ result'[r] \in {"SETTLED", "INSUFFICIENT_BALANCE", "INTERNAL_ERROR"}
        /\ \A q \in Uploads \ {r} : pc'[q] = pc[q] /\ result'[q] = result[q]
    BY <1>1, <1>5 DEF Acknowledge, Raise, Answer
  <2>2. Admitted(r)'
    BY <1>1, <2>1 DEF Admitted, FundsInv, OnlyPayments, Critical
  <2> QED
    BY <1>1, <2>1, <2>2 DEF TransactionHasUpload, Admitted
<1> QED
  BY <1>1, <1>2, <1>3, <1>4, <1>5, IngestIsOutside, FreshnessIsOutside,
     BackgroundIsOutside DEF Next, Proceed

\* No interleaving of uploads overdraws an account, not even between the
\* debit and the credit of a transfer.
THEOREM NeverOverdrawn == Spec => []NoOverdraft
<1>1. FundsInv => NoOverdraft
  BY DEF FundsInv
<1> QED
  BY <1>1, InitFunds, NextFunds, PTL DEF Spec

-----------------------------------------------------------------------------
(* The refinement of Ledger.                                               *)

LEMMA UndoDebitEffect ==
    ASSUME NEW bal \in [Accounts -> Int], NEW p \in Packets
    PROVE  /\ UndoDebit(bal, p) \in [Accounts -> Int]
           /\ \A a \in Accounts :
                 UndoDebit(bal, p)[a] = IF a = Sender(p)
                                        THEN bal[a] + Amount(p) ELSE bal[a]
<1>1. \A a \in Accounts : bal[a] \in Int /\ bal[a] + Amount(p) \in Int
  BY AmountType
<1>2. UndoDebit(bal, p) = [a \in Accounts |-> IF a = Sender(p)
                             THEN bal[a] + Amount(p) ELSE bal[a]]
  BY DEF UndoDebit
<1> QED
  BY <1>1, <1>2

LEMMA UndoCreditEffect ==
    ASSUME NEW bal \in [Accounts -> Int], NEW p \in Packets
    PROVE  /\ UndoCredit(bal, p) \in [Accounts -> Int]
           /\ \A a \in Accounts :
                 UndoCredit(bal, p)[a] = IF a = Receiver(p)
                                         THEN bal[a] - Amount(p) ELSE bal[a]
<1>1. \A a \in Accounts : bal[a] \in Int /\ bal[a] - Amount(p) \in Int
  BY AmountType
<1>2. UndoCredit(bal, p) = [a \in Accounts |-> IF a = Receiver(p)
                              THEN bal[a] - Amount(p) ELSE bal[a]]
  BY DEF UndoCredit
<1> QED
  BY <1>1, <1>2

LEMMA BalanceExtensionality ==
    ASSUME NEW f \in [Accounts -> Int], NEW g \in [Accounts -> Int],
           \A a \in Accounts : f[a] = g[a]
    PROVE  f = g
OBVIOUS

\* Undoing a debit or a credit, and redoing a transfer that was undone.
LEMMA UndoIsInverse ==
    ASSUME NEW bal \in [Accounts -> Int], NEW p \in Packets
    PROVE  /\ UndoDebit(DebitSender(bal, p), p) = bal
           /\ UndoCredit(CreditReceiver(bal, p), p) = bal
           /\ CreditReceiver(DebitSender(
                 UndoDebit(UndoCredit(bal, p), p), p), p) = bal
<1>1. Amount(p) \in Int /\ \A a \in Accounts : bal[a] \in Int
  BY AmountType
<1>2. UndoDebit(DebitSender(bal, p), p) = bal
  <2>1. DebitSender(bal, p) \in [Accounts -> Int]
    BY DebitEffect
  <2>2. \A a \in Accounts : UndoDebit(DebitSender(bal, p), p)[a] = bal[a]
    BY <1>1, <2>1, DebitEffect, UndoDebitEffect
  <2> QED
    BY <2>1, <2>2, UndoDebitEffect, BalanceExtensionality
<1>3. UndoCredit(CreditReceiver(bal, p), p) = bal
  <2>1. CreditReceiver(bal, p) \in [Accounts -> Int]
    BY CreditEffect
  <2>2. \A a \in Accounts : UndoCredit(CreditReceiver(bal, p), p)[a] = bal[a]
    BY <1>1, <2>1, CreditEffect, UndoCreditEffect
  <2> QED
    BY <2>1, <2>2, UndoCreditEffect, BalanceExtensionality
<1>4. CreditReceiver(DebitSender(UndoDebit(UndoCredit(bal, p), p), p), p) = bal
  <2> DEFINE b1 == UndoCredit(bal, p)
             b2 == UndoDebit(b1, p)
             b3 == DebitSender(b2, p)
             b4 == CreditReceiver(b3, p)
  <2>1. b1 \in [Accounts -> Int]
    BY UndoCreditEffect
  <2> HIDE DEF b1
  <2>2. b2 \in [Accounts -> Int]
    BY <2>1, UndoDebitEffect
  <2>3. b3 = b1
    <3>1. \A a \in Accounts : DebitSender(b2, p)[a] = b1[a]
      <4>1. \A a \in Accounts : b1[a] \in Int
        BY <2>1
      <4>2. \A a \in Accounts :
               b2[a] = IF a = Sender(p) THEN b1[a] + Amount(p) ELSE b1[a]
        BY <2>1, UndoDebitEffect
      <4> HIDE DEF b2
      <4>3. \A a \in Accounts : DebitSender(b2, p)[a]
               = IF a = Sender(p) THEN b2[a] - Amount(p) ELSE b2[a]
        BY <2>2, DebitEffect
      <4> QED
        BY <1>1, <4>1, <4>2, <4>3
    <3> HIDE DEF b2
    <3> QED
      BY <2>1, <2>2, <3>1, DebitEffect, BalanceExtensionality
  <2> HIDE DEF b3
  <2>4. b4 = CreditReceiver(b1, p)
    BY <2>3
  <2>5. \A a \in Accounts : CreditReceiver(b1, p)[a] = bal[a]
    <3>1. \A a \in Accounts :
             b1[a] = IF a = Receiver(p) THEN bal[a] - Amount(p) ELSE bal[a]
      BY UndoCreditEffect DEF b1
    <3> QED
      BY <1>1, <2>1, <3>1, CreditEffect
  <2>6. CreditReceiver(b1, p) = bal
    BY <2>1, <2>5, CreditEffect, BalanceExtensionality
  <2> QED
    BY <2>4, <2>6 DEF b1, b3
<1> QED
  BY <1>2, <1>3, <1>4

\* The balances the abstract ledger sees, stage by stage.
LEMMA CommittedInside ==
    ASSUME SettleInv, NEW r \in Uploads, pc[r] \in Critical
    PROVE  CommittedBalance =
              IF pc[r] = "debited" THEN UndoDebit(balance, packet[r])
              ELSE IF pc[r] = "credited"
                   THEN UndoDebit(UndoCredit(balance, packet[r]), packet[r])
                   ELSE balance
<1>1. lock = {r}
  BY DEF SettleInv, FundsInv, LockHeldInside, AdmissionInv, TypeInv, TypeOK
<1>2. (CHOOSE q \in lock : TRUE) = r
  BY <1>1
<1> QED
  BY <1>1, <1>2, Zenon DEF CommittedBalance

LEMMA CommittedOutside ==
    ASSUME lock = {} PROVE CommittedBalance = balance
BY DEF CommittedBalance

\* Steps outside settle() are invisible to the ledger.
LEMMA OutsideStutters ==
    ASSUME SettleInv, SettleInv', Outside
    PROVE  CommittedBalance' = CommittedBalance /\ tx' = tx
<1>1. CASE lock = {}
  BY <1>1, CommittedOutside DEF Outside, CommittedBalance
<1>2. ASSUME NEW r \in lock PROVE CommittedBalance' = CommittedBalance
  <2>1. r \in Uploads /\ pc[r] \in Critical
    BY DEF SettleInv, FundsInv, LockHeldInside, AdmissionInv, TypeInv, TypeOK
  <2>2. lock = {r} /\ lock' = {r} /\ pc'[r] = pc[r] /\ packet'[r] = packet[r]
        /\ balance' = balance
    BY <2>1 DEF Outside, SettleInv, FundsInv, LockHeldInside, Critical
  <2>3. (CHOOSE q \in lock : TRUE) = r /\ (CHOOSE q \in lock' : TRUE) = r
    BY <2>2
  <2> QED
    BY <2>2, <2>3, Zenon DEF CommittedBalance
<1> QED
  BY <1>1, <1>2 DEF Outside

LEMMA InitRefines == Init => Promise!Init
BY CommittedOutside DEF Init, Promise!Init

LEMMA NextRefines ==
    SettleInv /\ SettleInv' /\ [Next]_vars
        => [Promise!Next]_<<CommittedBalance, tx>>
<1> SUFFICES ASSUME SettleInv, SettleInv', [Next]_vars
             PROVE  \/ \E p \in Packets : Promise!Settle(p) \/ Promise!Reject(p)
                    \/ CommittedBalance' = CommittedBalance /\ tx' = tx
  BY DEF Promise!Next
<1>1. TypeInv
  BY DEF SettleInv, FundsInv, AdmissionInv
<1> USE DEF TypeInv, TypeOK
<1>2. ASSUME NEW r \in Uploads, NEW p \in Packets, Ingest(r, p)
      PROVE  CommittedBalance' = CommittedBalance /\ tx' = tx
  BY <1>2, IngestIsOutside, OutsideStutters DEF SettleInv
<1>3. ASSUME NEW r \in Uploads, CheckFreshness(r)
      PROVE  CommittedBalance' = CommittedBalance /\ tx' = tx
  BY <1>3, FreshnessIsOutside, OutsideStutters DEF SettleInv
<1>4. ASSUME NEW r \in Uploads, EnterSettle(r)
      PROVE  CommittedBalance' = CommittedBalance /\ tx' = tx
  <2>1. /\ tx' = tx /\ packet' = packet /\ packet[r] \in Packets
        /\ CommittedBalance = balance
    BY <1>1, <1>4, CommittedOutside DEF EnterSettle
  <2>2. CASE lock' = {}
    BY <1>4, <2>1, <2>2 DEF EnterSettle, CommittedBalance
  <2>3. CASE lock' # {}
    <3>1. /\ lock' = {r}
          /\ \/ pc'[r] = "rejecting" /\ balance' = balance
             \/ pc'[r] = "debited" /\ balance' = DebitSender(balance, packet[r])
      BY <1>1, <1>4, <2>3 DEF EnterSettle, Raise, Goto
    <3>2. (CHOOSE q \in lock' : TRUE) = r
      BY <3>1
    <3>3. CommittedBalance' = IF pc'[r] = "debited"
                              THEN UndoDebit(balance', packet[r]) ELSE balance'
      BY <2>1, <3>1, <3>2 DEF CommittedBalance, UndoDebit
    <3> QED
      BY <1>1, <2>1, <3>1, <3>3, UndoIsInverse
  <2> QED
    BY <2>2, <2>3
<1>5. ASSUME NEW r \in Uploads, Credit(r)
      PROVE  CommittedBalance' = CommittedBalance /\ tx' = tx
  <2>1. /\ tx' = tx /\ packet' = packet /\ lock' = lock /\ packet[r] \in Packets
        /\ pc[r] = "debited" /\ pc'[r] = "credited"
        /\ balance' = CreditReceiver(balance, packet[r])
    BY <1>1, <1>5 DEF Credit, Goto
  <2>2. lock = {r}
    BY <1>1, <2>1 DEF SettleInv, FundsInv, LockHeldInside, Critical
  <2>3. CommittedBalance = UndoDebit(balance, packet[r])
    BY <2>1, CommittedInside DEF Critical
  <2>4. (CHOOSE q \in lock' : TRUE) = r
    BY <2>1, <2>2
  <2>5. CommittedBalance' =
           UndoDebit(UndoCredit(balance', packet[r]), packet[r])
    BY <2>1, <2>2, <2>4 DEF CommittedBalance, UndoDebit, UndoCredit
  <2>6. UndoCredit(balance', packet[r]) = balance
    BY <1>1, <2>1, UndoIsInverse
  <2> QED
    BY <2>1, <2>3, <2>5, <2>6
<1>6. ASSUME NEW r \in Uploads, Record(r)
      PROVE  \E p \in Packets : Promise!Settle(p) \/ Promise!Reject(p)
  <2> DEFINE p == packet[r]
  <2>1. tx[p] = "NONE"
    BY <1>6, RecordIsFirst DEF Record
  <2>2. /\ balance' = balance /\ packet' = packet /\ lock' = lock
        /\ pc[r] \in {"credited", "rejecting"} /\ pc'[r] = "recorded"
        /\ p \in Packets
        /\ tx' = [tx EXCEPT ![p] = IF pc[r] = "credited"
                                   THEN "SETTLED" ELSE "REJECTED"]
    BY <1>1, <1>6, <2>1 DEF Record, Goto
  <2>3. Payable(p) /\ lock = {r}
    BY <1>1, <2>2 DEF SettleInv, FundsInv, LockHeldInside, OnlyPayments, Critical
  <2>4. CommittedBalance' = balance
    <3>1. \A q \in lock' : pc'[q] = "recorded"
      BY <2>2, <2>3
    <3> QED
      BY <2>2, <3>1, Zenon DEF CommittedBalance
  <2>5. CASE pc[r] = "rejecting"
    <3>1. CommittedBalance = balance
      BY <2>5, CommittedInside DEF Critical
    <3>2. balance[Sender(p)] < Amount(p)
      BY <2>5 DEF SettleInv, FundsInv, FundsInPlace
    <3>3. Promise!Reject(p)
      BY <2>1, <2>2, <2>3, <2>4, <2>5, <3>1, <3>2
         DEF Promise!Reject, Promise!Payable, Promise!Amount, Promise!Sender,
             Promise!Receiver, Payable, Amount, Sender, Receiver
    <3> QED
      BY <2>2, <3>3
  <2>6. CASE pc[r] = "credited"
    <3> DEFINE before == UndoDebit(UndoCredit(balance, p), p)
    <3>1. CommittedBalance = before
      BY <2>6, CommittedInside DEF Critical
    <3>2. before[Sender(p)] >= Amount(p)
      <4>1. /\ UndoCredit(balance, p) \in [Accounts -> Int]
            /\ UndoCredit(balance, p)[Sender(p)] >= 0
        <5>1. Amount(p) \in Int /\ balance[Sender(p)] \in Nat
              /\ balance[Receiver(p)] >= Amount(p)
          BY <1>1, <2>2, <2>3, <2>6, AmountType
             DEF SettleInv, FundsInv, FundsInPlace, NoOverdraft, Payable
        <5>2. Sender(p) \in Accounts
          BY <2>3 DEF Payable
        <5>3. /\ UndoCredit(balance, p) \in [Accounts -> Int]
              /\ UndoCredit(balance, p)[Sender(p)] =
                    IF Sender(p) = Receiver(p)
                    THEN balance[Sender(p)] - Amount(p) ELSE balance[Sender(p)]
          BY <1>1, <2>2, <5>2, UndoCreditEffect
        <5> QED
          BY <5>1, <5>3
      <4> QED
        BY <2>2, <2>3, <4>1, UndoDebitEffect, AmountType DEF Payable
    <3>3. balance = CreditReceiver(DebitSender(before, p), p)
      BY <1>1, <2>2, UndoIsInverse
    <3>4. Promise!Settle(p)
      <4>1. Promise!CreditReceiver(Promise!DebitSender(before, p), p) = balance
        BY <3>3 DEF CreditReceiver, DebitSender, Promise!CreditReceiver,
           Promise!DebitSender, Promise!Amount, Promise!Sender,
           Promise!Receiver, Amount, Sender, Receiver
      <4>2. Promise!Payable(p) /\ Promise!Sender(p) = Sender(p)
            /\ Promise!Amount(p) = Amount(p)
        BY <2>3 DEF Payable, Promise!Payable, Promise!Amount, Promise!Sender,
           Promise!Receiver, Amount, Sender, Receiver
      <4>3. tx' = [tx EXCEPT ![p] = "SETTLED"]
        BY <2>2, <2>6
      <4> HIDE DEF before, p
      <4> QED
        BY <2>1, <2>4, <3>1, <3>2, <4>1, <4>2, <4>3 DEF Promise!Settle
    <3> QED
      BY <2>2, <3>4
  <2> QED
    BY <2>2, <2>5, <2>6
<1>7. ASSUME NEW r \in Uploads, Acknowledge(r)
      PROVE  CommittedBalance' = CommittedBalance /\ tx' = tx
  <2>1. /\ balance' = balance /\ tx' = tx /\ lock' = {} /\ pc[r] = "recorded"
    BY <1>7 DEF Acknowledge, Raise
  <2>2. CommittedBalance = balance
    BY <2>1, CommittedInside DEF Critical
  <2>3. CommittedBalance' = balance'
    BY <2>1 DEF CommittedBalance
  <2> QED
    BY <2>1, <2>2, <2>3
<1>8. CASE EvictExpired \/ Tick \/ UNCHANGED vars
  BY <1>8, BackgroundIsOutside, OutsideStutters DEF SettleInv
<1> QED
  BY <1>2, <1>3, <1>4, <1>5, <1>6, <1>7, <1>8 DEF Next, Proceed

\* Cache, threads, lock and clock together implement the ledger: every packet
\* gets at most one transaction, and a settled one moves its amount, once,
\* from a sender who has it.
THEOREM IngestionImplementsLedger == Spec => ImplementsLedger
<1>1. Spec => []SettleInv
  BY InitSettle, NextSettle, PTL DEF Spec
<1> QED
  BY <1>1, InitRefines, NextRefines, PTL DEF Spec, ImplementsLedger, Promise!Spec

-----------------------------------------------------------------------------
(* The ledger explains the balances.                                       *)

LEMMA CommittedType == SettleInv => CommittedBalance \in [Accounts -> Int]
<1> SUFFICES ASSUME SettleInv PROVE CommittedBalance \in [Accounts -> Int]
  OBVIOUS
<1>1. /\ balance \in [Accounts -> Int]
      /\ \A r \in Uploads : pc[r] \in Critical => packet[r] \in Packets
      /\ lock \in SUBSET Uploads
  BY DEF SettleInv, FundsInv, TypeInv, TypeOK, Critical
<1>2. CASE lock = {}
  BY <1>1, <1>2, CommittedOutside
<1>3. ASSUME NEW r \in lock PROVE CommittedBalance \in [Accounts -> Int]
  <2>1. r \in Uploads /\ pc[r] \in Critical /\ packet[r] \in Packets
    BY <1>1 DEF SettleInv, FundsInv, LockHeldInside
  <2>2. /\ UndoDebit(balance, packet[r]) \in [Accounts -> Int]
        /\ UndoCredit(balance, packet[r]) \in [Accounts -> Int]
    BY <1>1, <2>1, UndoDebitEffect, UndoCreditEffect
  <2>3. UndoDebit(UndoCredit(balance, packet[r]), packet[r]) \in [Accounts -> Int]
    BY <2>1, <2>2, UndoDebitEffect
  <2> QED
    BY <1>1, <2>1, <2>2, <2>3, CommittedInside
<1> QED
  BY <1>2, <1>3

\* LedgerExplainsBalances while the lock is held, too: what settle() has not
\* yet recorded is not yet in the balances the ledger is compared with.
Explained ==
    /\ IsFiniteSet(Settled)
    /\ \A a \in Accounts :
           CommittedBalance[a] = InitBalance[a] + NetOf(Settled, a)

LEMMA InitExplained == Init => Explained
<1> SUFFICES ASSUME Init PROVE Explained
  OBVIOUS
<1>1. Settled = {} /\ CommittedBalance = InitBalance
  BY CommittedOutside DEF Init, Settled
<1> QED
  BY <1>1, NetOfNone, BalanceAssumption, FS_EmptySet DEF Explained

LEMMA NextExplained ==
    SettleInv /\ SettleInv' /\ Explained /\ [Next]_vars => Explained'
<1> SUFFICES ASSUME SettleInv, SettleInv', Explained, [Next]_vars
             PROVE  Explained'
  OBVIOUS
<1>1. tx \in [Packets -> Statuses \union {"NONE"}]
  BY DEF SettleInv, FundsInv, TypeInv, TypeOK
<1>2. CASE CommittedBalance' = CommittedBalance /\ tx' = tx
  <2>1. Settled' = Settled
    BY <1>2 DEF Settled
  <2> QED
    BY <1>2, <2>1 DEF Explained
<1>3. ASSUME NEW p \in Packets, Promise!Reject(p) PROVE Explained'
  <2>1. tx[p] = "NONE" /\ tx' = [tx EXCEPT ![p] = "REJECTED"]
        /\ CommittedBalance' = CommittedBalance
    BY <1>3 DEF Promise!Reject
  <2>2. Settled' = Settled
    BY <1>1, <2>1 DEF Settled
  <2> QED
    BY <2>1, <2>2 DEF Explained
<1>4. ASSUME NEW p \in Packets, Promise!Settle(p) PROVE Explained'
  <2>1. tx[p] = "NONE" /\ tx' = [tx EXCEPT ![p] = "SETTLED"]
    BY <1>4 DEF Promise!Settle
  <2>2. CommittedBalance' = CreditReceiver(DebitSender(CommittedBalance, p), p)
    BY <1>4 DEF Promise!Settle, Promise!CreditReceiver, Promise!DebitSender,
       Promise!Amount, Promise!Sender, Promise!Receiver, CreditReceiver,
       DebitSender, Amount, Sender, Receiver
  <2>3. p \notin Settled /\ Settled' = Settled \union {p}
        /\ Settled \in SUBSET Packets
    BY <1>1, <2>1 DEF Settled
  <2>4. IsFiniteSet(Settled')
    BY <2>3, FS_AddElement DEF Explained
  <2>5. ASSUME NEW a \in Accounts
        PROVE  CommittedBalance'[a] = InitBalance[a] + NetOf(Settled', a)
    <3> DEFINE in  == IF a = Receiver(p) THEN Amount(p) ELSE 0
               out == IF a = Sender(p) THEN Amount(p) ELSE 0
    <3>1. CommittedBalance'[a] = CommittedBalance[a] + in - out
      BY <2>2, CommittedType, TransferEffect
    <3>2. /\ NetOf(Settled, a) \in Int
          /\ NetOf(Settled', a) = NetOf(Settled, a) + in - out
      BY <2>3, NetOfSettled DEF Explained
    <3>3. in \in Int /\ out \in Int /\ InitBalance[a] \in Int
      BY AmountType, BalanceAssumption
    <3>4. CommittedBalance[a] = InitBalance[a] + NetOf(Settled, a)
      BY DEF Explained
    <3> HIDE DEF in, out
    <3> QED
      BY <3>1, <3>2, <3>3, <3>4
  <2> QED
    BY <2>4, <2>5 DEF Explained
<1> QED
  BY <1>2, <1>3, <1>4, NextRefines DEF Promise!Next

\* The money that has moved, whenever nobody is inside settle(), is the money
\* of the SETTLED transactions, account by account.
THEOREM LedgerExplains == Spec => []LedgerExplainsBalances
<1>1. SettleInv /\ Explained => LedgerExplainsBalances
  BY CommittedOutside DEF Explained, LedgerExplainsBalances
<1>2. Init => SettleInv /\ Explained
  BY InitSettle, InitExplained
<1>3. SettleInv /\ Explained /\ [Next]_vars => (SettleInv /\ Explained)'
  BY NextSettle, NextExplained
<1> QED
  BY <1>1, <1>2, <1>3, PTL DEF Spec

-----------------------------------------------------------------------------
(* Resets.  Nothing of AdmissionInv survives one.  What does is that only  *)
(* the upload that recorded the transaction of a packet acknowledges it.   *)

Verdicts == {"SETTLED", "INSUFFICIENT_BALANCE"}

\* The upload recorded the transaction of its packet: it is about to
\* acknowledge it, or has told its bridge the verdict.
Owns(r) == pc[r] = "recorded" \/ result[r] \in Verdicts

\* An upload has an answer only when it is done.
AnsweredWhenDone == \A r \in Uploads : result[r] # "NONE" => pc[r] = "done"

\* The owner of a transaction has a packet, and the transaction is there.
OwnerHasRecorded ==
    \A r \in Uploads :
        Owns(r) => packet[r] \in Packets /\ tx[packet[r]] # "NONE"

\* A transaction has one owner at most.
OneOwner ==
    \A r1, r2 \in Uploads :
        Owns(r1) /\ Owns(r2) /\ packet[r1] = packet[r2] => r1 = r2

ResetInv ==
    /\ TypeInv
    /\ AnsweredWhenDone
    /\ OwnerHasRecorded
    /\ OneOwner
    /\ AcksAgreeWithLedger

LEMMA InitReset == Init => ResetInv
BY InitTypeInv DEF Init, ResetInv, AnsweredWhenDone, OwnerHasRecorded,
   OneOwner, AcksAgreeWithLedger, Owns, Verdicts

LEMMA ResetTypeInv == TypeInv /\ [NextWithReset]_vars => TypeInv'
<1>1. TypeInv /\ Reset => TypeInv'
  BY DEF TypeInv, TypeOK, Recorded, Reset, ClearCache, Absent
<1> QED
  BY <1>1, NextTypeInv DEF NextWithReset

-----------------------------------------------------------------------------
(* A step that records nothing and acknowledges nothing.                   *)

Unrecording ==
    /\ tx' = tx /\ acks' = acks
    /\ \A q \in Uploads : Owns(q)' => Owns(q) /\ packet'[q] = packet[q]
    /\ \A q \in Uploads : result'[q] # "NONE" => pc'[q] = "done"

LEMMA UnrecordingKeepsReset ==
    ASSUME ResetInv, TypeInv', Unrecording PROVE ResetInv'
BY DEF Unrecording, ResetInv, AnsweredWhenDone, OwnerHasRecorded, OneOwner,
   AcksAgreeWithLedger

LEMMA NextReset == ResetInv /\ [NextWithReset]_vars => ResetInv'
<1> SUFFICES ASSUME ResetInv, [NextWithReset]_vars PROVE ResetInv'
  OBVIOUS
<1>1. TypeInv /\ TypeInv' /\ AnsweredWhenDone
  BY ResetTypeInv DEF ResetInv
<1> USE DEF TypeInv, TypeOK
<1>2. ASSUME NEW r \in Uploads, NEW p \in Packets, Ingest(r, p)
      PROVE  ResetInv'
  <2>1. Unrecording
    BY <1>1, <1>2 DEF Ingest, Claim, Answer, Goto, Unrecording, Owns, Verdicts,
       AnsweredWhenDone
  <2> QED
    BY <1>1, <2>1, UnrecordingKeepsReset
<1>3. ASSUME NEW r \in Uploads,
             CheckFreshness(r) \/ EnterSettle(r) \/ Credit(r)
      PROVE  ResetInv'
  <2>1. Unrecording
    BY <1>1, <1>3 DEF CheckFreshness, EnterSettle, Credit, Raise, Answer, Goto,
       Unrecording, Owns, Verdicts, AnsweredWhenDone
  <2> QED
    BY <1>1, <2>1, UnrecordingKeepsReset
<1>4. ASSUME NEW r \in Uploads, Record(r) PROVE ResetInv'
  <2>1. packet[r] \in Packets
    BY <1>1, <1>4 DEF Record
  <2>2. CASE tx[packet[r]] # "NONE"
    <3>1. Unrecording
      BY <1>1, <1>4, <2>2 DEF Record, Raise, Answer, Unrecording, Owns,
         Verdicts, AnsweredWhenDone
    <3> QED
      BY <1>1, <3>1, UnrecordingKeepsReset
  <2>3. CASE tx[packet[r]] = "NONE"
    <3>1. /\ packet' = packet /\ acks' = acks /\ result' = result
          /\ pc'[r] = "recorded" /\ pc[r] # "done"
          /\ \A q \in Uploads \ {r} : pc'[q] = pc[q]
          /\ tx'[packet[r]] # "NONE"
          /\ \A p \in Packets \ {packet[r]} : tx'[p] = tx[p]
      BY <1>1, <1>4, <2>1, <2>3 DEF Record, Goto
    <3>2. \A q \in Uploads : Owns(q) => packet[q] # packet[r]
      BY <2>3 DEF ResetInv, OwnerHasRecorded
    <3>3. \A q \in Uploads \ {r} : Owns(q)' <=> Owns(q)
      BY <3>1 DEF Owns
    <3>4. AnsweredWhenDone'
      BY <1>1, <3>1 DEF AnsweredWhenDone
    <3>5. OwnerHasRecorded'
      BY <2>1, <3>1, <3>2, <3>3 DEF ResetInv, OwnerHasRecorded
    <3>6. OneOwner'
      BY <3>1, <3>2, <3>3 DEF ResetInv, OneOwner
    <3>7. AcksAgreeWithLedger'
      BY <1>1, <2>3, <3>1 DEF ResetInv, AcksAgreeWithLedger, Statuses
    <3> QED
      BY <1>1, <3>4, <3>5, <3>6, <3>7 DEF ResetInv
  <2> QED
    BY <2>2, <2>3
<1>5. ASSUME NEW r \in Uploads, Acknowledge(r) PROVE ResetInv'
  <2>1. /\ tx' = tx /\ packet' = packet /\ packet[r] \in Packets
        /\ pc[r] = "recorded" /\ pc'[r] = "done"
        /\ \A q \in Uploads \ {r} : pc'[q] = pc[q] /\ result'[q] = result[q]
    BY <1>1, <1>5 DEF Acknowledge, Raise, Answer
  <2>2. \A q \in Uploads : Owns(q)' => Owns(q)
    BY <2>1 DEF Owns
  <2>3. AnsweredWhenDone'
    BY <1>1, <2>1 DEF AnsweredWhenDone
  <2>4. OwnerHasRecorded' /\ OneOwner'
    BY <2>1, <2>2 DEF ResetInv, OwnerHasRecorded, OneOwner
  <2>5. AcksAgreeWithLedger'
    <3>1. \A a \in acks' : a \in acks \/ a = [packet |-> packet[r],
                                              status |-> tx[packet[r]]]
      BY <1>5 DEF Acknowledge
    <3> QED
      BY <2>1, <3>1 DEF ResetInv, AcksAgreeWithLedger
  <2> QED
    BY <1>1, <2>3, <2>4, <2>5 DEF ResetInv
<1>6. CASE EvictExpired \/ Tick \/ Reset \/ UNCHANGED vars
  <2>1. Unrecording
    BY <1>1, <1>6 DEF EvictExpired, Tick, Reset, ClearCache, vars, Unrecording,
       Owns, AnsweredWhenDone
  <2> QED
    BY <1>1, <2>1, UnrecordingKeepsReset
<1> QED
  BY <1>2, <1>3, <1>4, <1>5, <1>6 DEF NextWithReset, Next, Proceed

\* Whatever was reset, every ack says what the ledger says of its packet:
\* the repeat that raises sends none, and no transaction is overwritten.
THEOREM AcksAgree == ResetSpec => []AcksAgreeWithLedger
<1>1. ResetInv => AcksAgreeWithLedger
  BY DEF ResetInv
<1> QED
  BY <1>1, InitReset, NextReset, PTL DEF ResetSpec

\* Whatever was reset, one upload of a packet at most is told a verdict.
THEOREM OneVerdictAtMost == ResetSpec => []OneVerdict
<1>1. ResetInv => OneVerdict
  BY DEF ResetInv, OneOwner, OneVerdict, Owns, Verdicts
<1> QED
  BY <1>1, InitReset, NextReset, PTL DEF ResetSpec

-----------------------------------------------------------------------------
(* What resets do not touch: the lock, the money and the claimants.        *)

LEMMA NextFundsWithReset == FundsInv /\ [NextWithReset]_vars => FundsInv'
<1>1. FundsInv /\ Reset => FundsInv'
  <2> SUFFICES ASSUME FundsInv, Reset PROVE FundsInv'
    OBVIOUS
  <2>1. TypeInv'
    BY ResetTypeInv DEF FundsInv, NextWithReset
  <2>2. Outside
    BY DEF Reset, ClearCache, Outside, Admitted, FundsInv, OnlyPayments
  <2> QED
    BY <2>1, <2>2, OutsideKeepsFunds
<1> QED
  BY <1>1, NextFunds DEF NextWithReset

\* A repeat that a reset lets through may move the money twice, but never
\* money that is not there.
THEOREM NeverOverdrawnWithResets == ResetSpec => []NoOverdraft
<1>1. FundsInv => NoOverdraft
  BY DEF FundsInv
<1> QED
  BY <1>1, InitFunds, NextFundsWithReset, PTL DEF ResetSpec

\* Nor does a reset make a duplicate of a packet that nobody carries.
THEOREM DuplicatesAreCarriedWithResets == ResetSpec => []DuplicateHasClaimant
<1>1. ClaimInv /\ Reset => ClaimInv'
  <2> SUFFICES ASSUME ClaimInv, Reset PROVE ClaimInv'
    OBVIOUS
  <2>1. TypeInv'
    BY ResetTypeInv DEF ClaimInv, NextWithReset
  <2>2. Unclaiming
    BY DEF Reset, ClearCache, Unclaiming
  <2> QED
    BY <2>1, <2>2, UnclaimingKeepsClaims
<1>2. ClaimInv /\ [NextWithReset]_vars => ClaimInv'
  BY <1>1, NextClaim DEF NextWithReset
<1>3. ClaimInv => DuplicateHasClaimant
  BY DEF ClaimInv, Claimant, DuplicateHasClaimant
<1> QED
  BY <1>2, <1>3, InitClaim, PTL DEF ResetSpec

-----------------------------------------------------------------------------
(* Money.                                                                  *)

\* MoneyConserved while the lock is held, too: between its debit and its
\* credit a transfer owes the amount.
MoneyInv ==
    /\ FundsInv
    /\ \A r \in Uploads : pc[r] = "debited" =>
           Total(balance, Accounts) = Total(InitBalance, Accounts) - Amount(packet[r])
    /\ (\A r \in Uploads : pc[r] # "debited") =>
           Total(balance, Accounts) = Total(InitBalance, Accounts)

LEMMA InitMoney == Init => MoneyInv
BY InitFunds DEF Init, MoneyInv

\* A step that neither debits nor credits.
Unmoving ==
    /\ balance' = balance
    /\ \A r \in Uploads : /\ pc'[r] = "debited" <=> pc[r] = "debited"
                          /\ pc[r] = "debited" => packet'[r] = packet[r]

LEMMA UnmovingKeepsMoney ==
    ASSUME MoneyInv, FundsInv', Unmoving PROVE MoneyInv'
BY DEF MoneyInv, Unmoving

LEMMA OutsideIsUnmoving == Outside => Unmoving
BY DEF Outside, Unmoving, Critical

LEMMA NextMoney == MoneyInv /\ [NextWithReset]_vars => MoneyInv'
<1> SUFFICES ASSUME MoneyInv, [NextWithReset]_vars PROVE MoneyInv'
  OBVIOUS
<1>1. FundsInv /\ FundsInv' /\ TypeInv
  BY NextFundsWithReset DEF MoneyInv, FundsInv
<1> USE DEF TypeInv, TypeOK
<1>2. ASSUME NEW r \in Uploads, NEW p \in Packets, Ingest(r, p) PROVE MoneyInv'
  BY <1>1, <1>2, IngestIsOutside, OutsideIsUnmoving, UnmovingKeepsMoney
<1>3. ASSUME NEW r \in Uploads, CheckFreshness(r) PROVE MoneyInv'
  BY <1>1, <1>3, FreshnessIsOutside, OutsideIsUnmoving, UnmovingKeepsMoney
<1>4. ASSUME NEW r \in Uploads, EnterSettle(r) PROVE MoneyInv'
  <2>1. /\ packet' = packet /\ pc[r] = "fresh" /\ packet[r] \in Packets
        /\ \A q \in Uploads \ {r} : pc'[q] = pc[q]
    BY <1>1, <1>4 DEF EnterSettle, Raise, Answer, Goto
  <2>2. \A q \in Uploads : pc[q] # "debited"
    BY <1>4 DEF EnterSettle, MoneyInv, FundsInv, LockHeldInside, Critical
  <2>3. \/ pc'[r] \in {"done", "rejecting"} /\ balance' = balance
        \/ /\ pc'[r] = "debited" /\ Payable(packet[r])
           /\ balance' = DebitSender(balance, packet[r])
    BY <1>1, <1>4 DEF EnterSettle, Raise, Answer, Goto
  <2>4. CASE pc'[r] # "debited"
    <3>1. Unmoving
      BY <2>1, <2>2, <2>3, <2>4 DEF Unmoving
    <3> QED
      BY <1>1, <3>1, UnmovingKeepsMoney
  <2>5. CASE pc'[r] = "debited"
    <3>1. Total(balance, Accounts) = Total(InitBalance, Accounts)
      BY <2>2 DEF MoneyInv
    <3>2. Total(balance', Accounts)
          = Total(InitBalance, Accounts) - Amount(packet'[r])
      BY <1>1, <2>1, <2>3, <2>5, <3>1, DebitTotal
    <3>3. \A q \in Uploads : pc'[q] = "debited" => q = r
      BY <2>1, <2>2
    <3> QED
      BY <1>1, <2>5, <3>2, <3>3 DEF MoneyInv
  <2> QED
    BY <2>4, <2>5
<1>5. ASSUME NEW r \in Uploads, Credit(r) PROVE MoneyInv'
  <2>1. /\ packet' = packet /\ pc[r] = "debited" /\ pc'[r] = "credited"
        /\ packet[r] \in Packets
        /\ balance' = CreditReceiver(balance, packet[r])
        /\ \A q \in Uploads \ {r} : pc'[q] = pc[q]
    BY <1>1, <1>5 DEF Credit, Goto
  <2>2. \A q \in Uploads : pc'[q] # "debited"
    BY <2>1 DEF MoneyInv, FundsInv, LockHeldInside, Critical
  <2>3. Payable(packet[r]) /\ Amount(packet[r]) \in Int
    BY <2>1, AmountType DEF MoneyInv, FundsInv, OnlyPayments, Critical
  <2>4. Total(balance', Accounts) = Total(balance, Accounts) + Amount(packet[r])
    BY <1>1, <2>1, <2>3, CreditTotal
  <2>5. Total(balance, Accounts)
        = Total(InitBalance, Accounts) - Amount(packet[r])
    BY <2>1 DEF MoneyInv
  <2>6. Total(InitBalance, Accounts) \in Int
    BY BalanceAssumption, AccountsAssumption, TotalTakeOut
  <2>7. Total(balance', Accounts) = Total(InitBalance, Accounts)
    BY <2>3, <2>4, <2>5, <2>6
  <2> QED
    BY <1>1, <2>2, <2>7 DEF MoneyInv
<1>6. ASSUME NEW r \in Uploads, Record(r) \/ Acknowledge(r) PROVE MoneyInv'
  <2>1. Unmoving
    BY <1>1, <1>6 DEF Record, Acknowledge, Raise, Answer, Goto, Unmoving
  <2> QED
    BY <1>1, <2>1, UnmovingKeepsMoney
<1>7. CASE EvictExpired \/ Tick \/ Reset \/ UNCHANGED vars
  <2>1. Unmoving
    BY <1>7 DEF EvictExpired, Tick, Reset, ClearCache, vars, Unmoving
  <2> QED
    BY <1>1, <2>1, UnmovingKeepsMoney
<1> QED
  BY <1>2, <1>3, <1>4, <1>5, <1>6, <1>7 DEF NextWithReset, Next, Proceed

\* However often resets let a packet be settled, the accounts together have
\* the money they started with, whenever nobody is inside settle().
THEOREM MoneyIsConserved == ResetSpec => []MoneyConserved
<1>1. MoneyInv => MoneyConserved
  <2> SUFFICES ASSUME MoneyInv, lock = {}
               PROVE  Total(balance, Accounts) = Total(InitBalance, Accounts)
    BY DEF MoneyConserved, Total
  <2> QED
    BY DEF MoneyInv, FundsInv, LockHeldInside, Critical
<1> QED
  BY <1>1, InitMoney, NextMoney, PTL DEF ResetSpec
=============================================================================
