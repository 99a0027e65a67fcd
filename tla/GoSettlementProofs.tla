-------------------------- MODULE GoSettlementProofs -------------------------
(***************************************************************************)
(* What GoSettlement guarantees for any sets of requests, packets and      *)
(* accounts, any balances and any number of crashes and losses of claims:  *)
(* types, money that moves with its row and once, answers that agree with  *)
(* the rows, and no overdraft.                                             *)
(***************************************************************************)
EXTENDS GoSettlement, FiniteSetTheorems, TLAPS

-----------------------------------------------------------------------------
(* The inductive invariant, in four parts.                                 *)

\* A request that has begun has a packet, and no answer before it begins; one
\* that is answered was answered with an outcome.
AnswersInTurn ==
    \A r \in Uploads : /\ stage[r] # "idle" => packet[r] \in Packets
                       /\ stage[r] = "idle" => answer[r] = "NONE"
                       /\ stage[r] = "answered" => answer[r] \in Outcomes

\* A row is locked by one transaction at most: stated without Cardinality,
\* which says nothing of sets that may be infinite.
OneHolder ==
    \A a \in Accounts : rowLock[a] = {} \/ \E r \in Uploads : rowLock[a] = {r}

TypeInv == TypeOK /\ AnswersInTurn /\ OneHolder

\* An insert that is not committed is the only one of its hash, and no row
\* of that hash is committed before it.
InsertedIsFirst ==
    \A r \in Uploads :
        stage[r] = "inserted" =>
            /\ tx[packet[r]] = "NONE"
            /\ \A q \in Uploads : stage[q] = "inserted" /\ packet[q] = packet[r] => q = r

\* A request past its commit has its row.
CommittedHasRow ==
    \A r \in Uploads : stage[r] = "committed" => tx[packet[r]] = "SETTLED"

RowInv == InsertedIsFirst /\ CommittedHasRow /\ MoneyMovesWithItsRow /\ AnswerHasRow

\* Which accounts exist has been seen by the time a row is locked.
AccountsExist ==
    \A r \in Uploads :
        /\ stage[r] \in {"read", "rejecting"} \union InTransaction => Sender(packet[r]) \in Accounts
        /\ stage[r] \in {"rejecting"} \union InTransaction => Receiver(packet[r]) \in Accounts

\* What a transaction is going to write was computed from balances that were
\* not overdrawn and that covered the amount.
FundsChecked ==
    \A r \in Uploads :
        stage[r] \in InTransaction =>
            /\ Rupees(funds[r].sender) >= Rupees(Amount(packet[r]))
            /\ funds[r].receiver >= 0

FundsInv == AccountsExist /\ FundsChecked /\ NoOverdraft

-----------------------------------------------------------------------------
(* The helpers.                                                            *)

LEMMA StageNames ==
    /\ Stages = {"idle", "claimed", "fresh", "read", "rejecting", "committed",
                 "answered", "broadcasting", "begun", "debited", "credited",
                 "inserted", "done", "crashed"}
    /\ InTransaction = {"begun", "debited", "credited", "inserted"}
BY DEF Stages, InTransaction, Ended

\* Amounts and balances in rupees are integers, and not negative if the paise
\* are not.
LEMMA RupeesType ==
    ASSUME NEW x \in Int
    PROVE  Rupees(x) \in Int /\ (x >= 0 => Rupees(x) >= 0)
BY DEF Rupees

LEMMA ToPaiseType ==
    ASSUME NEW x \in Int
    PROVE  ToPaise(x) \in Int /\ (x >= 0 => ToPaise(x) >= 0)
BY DEF ToPaise

LEMMA AmountType ==
    ASSUME NEW p \in Packets
    PROVE  Amount(p) \in Int /\ Amount(p) > 0
BY InstructionAssumption, GoAssumption DEF Amount

\* A request's step changes its own stage and answer only.
LEMMA GotoType ==
    ASSUME TypeOK, NEW r \in Uploads, NEW next \in Stages, Goto(r, next)
    PROVE  /\ stage' \in [Uploads -> Stages] /\ stage'[r] = next
           /\ \A q \in Uploads \ {r} : stage'[q] = stage[q]
           /\ answer' = answer
BY DEF TypeOK, Goto

LEMMA ReturnType ==
    ASSUME TypeOK, NEW r \in Uploads, NEW outcome \in Outcomes, Return(r, outcome)
    PROVE  /\ stage' \in [Uploads -> Stages] /\ stage'[r] = "answered"
           /\ \A q \in Uploads \ {r} : stage'[q] = stage[q]
           /\ answer' \in [Uploads -> Outcomes \union {"NONE", "ERROR"}]
           /\ answer'[r] = outcome
           /\ \A q \in Uploads \ {r} : answer'[q] = answer[q]
BY StageNames DEF TypeOK, Return

LEMMA FailType ==
    ASSUME TypeOK, NEW r \in Uploads, Fail(r)
    PROVE  /\ stage' \in [Uploads -> Stages] /\ stage'[r] = "done"
           /\ \A q \in Uploads \ {r} : stage'[q] = stage[q]
           /\ answer' \in [Uploads -> Outcomes \union {"NONE", "ERROR"}]
           /\ answer'[r] = "ERROR"
           /\ \A q \in Uploads \ {r} : answer'[q] = answer[q]
BY StageNames DEF TypeOK, Fail

\* Releasing a request's locks leaves one holder at most.
LEMMA UnlockedType ==
    ASSUME TypeInv, NEW r \in Uploads, rowLock' = Unlocked(r)
    PROVE  rowLock' \in [Accounts -> SUBSET Uploads] /\ OneHolder'
BY DEF TypeInv, TypeOK, OneHolder, Unlocked

\* One holder at most, as the type invariant counts it.
LEMMA HolderCount ==
    ASSUME NEW S, S = {} \/ \E r \in Uploads : S = {r}
    PROVE  Cardinality(S) <= 1
<1>1. CASE S = {}
  BY <1>1, FS_EmptySet
<1>2. ASSUME NEW r \in Uploads, S = {r} PROVE Cardinality(S) <= 1
  <2>1. Cardinality({r}) = 1
    BY FS_Singleton, Zenon
  <2> QED
    BY <1>2, <2>1
<1> QED
  BY <1>1, <1>2

\* Only requests inside settlement wait for one another.
LEMMA DeadlockedStage ==
    ASSUME NEW r \in Uploads, Deadlocked(r)
    PROVE  stage[r] \in {"begun", "debited", "credited", "rejecting"}
<1>1. PICK s : Awaits(r, s)
  BY DEF Deadlocked
<1> QED
  BY <1>1 DEF Awaits

-----------------------------------------------------------------------------
(* Type correctness.                                                       *)

LEMMA InitTypeInv == Init => TypeInv
<1> SUFFICES ASSUME Init PROVE TypeInv
  OBVIOUS
<1>1. OneHolder /\ AnswersInTurn
  BY DEF Init, OneHolder, AnswersInTurn
<1>2. \A a \in Accounts : Cardinality(rowLock[a]) <= 1
  BY <1>1, HolderCount DEF OneHolder
<1>3. balance \in [Accounts -> Int]
  BY BalanceAssumption DEF Init
<1>4. /\ stage \in [Uploads -> Stages]
      /\ funds \in [Uploads -> [sender : Int, receiver : Int]]
      /\ rowLock \in [Accounts -> SUBSET Uploads]
      /\ tx \in [Packets -> {"NONE", "SETTLED", "REJECTED"}]
      /\ moves \in [Packets -> Nat]
  BY StageNames DEF Init
<1> QED
  BY <1>1, <1>2, <1>3, <1>4 DEF Init, TypeInv, TypeOK

\* A step of one request that keeps the locks and the database.
LEMMA RequestStepType ==
    ASSUME TypeInv, NEW r \in Uploads,
           stage' \in [Uploads -> Stages],
           stage'[r] # "idle" => packet'[r] \in Packets,
           stage'[r] = "idle" => answer'[r] = "NONE",
           stage'[r] = "answered" => answer'[r] \in Outcomes,
           \A q \in Uploads \ {r} : /\ stage'[q] = stage[q]
                                    /\ answer'[q] = answer[q]
                                    /\ packet'[q] = packet[q],
           claims' \subseteq Packets,
           packet' \in [Uploads -> Packets \union {NoPacket}],
           funds' \in [Uploads -> [sender : Int, receiver : Int]],
           answer' \in [Uploads -> Outcomes \union {"NONE", "ERROR"}],
           rowLock' \in [Accounts -> SUBSET Uploads], OneHolder',
           balance' \in [Accounts -> Int],
           tx' \in [Packets -> {"NONE", "SETTLED", "REJECTED"}],
           moves' \in [Packets -> Nat],
           audits' \subseteq Packets,
           events' \subseteq [packet : Packets, result : Outcomes]
    PROVE  TypeInv'
<1>1. \A a \in Accounts : Cardinality(rowLock'[a]) <= 1
  BY HolderCount DEF OneHolder
<1>2. AnswersInTurn'
  BY DEF TypeInv, AnswersInTurn
<1> QED
  BY <1>1, <1>2 DEF TypeInv, TypeOK
LEMMA NextTypeInv == TypeInv /\ [Next]_vars => TypeInv'
<1> SUFFICES ASSUME TypeInv, [Next]_vars PROVE TypeInv'
  OBVIOUS
<1> USE DEF dbVars, envVars
<1>0. /\ TypeOK /\ OneHolder
      /\ \A r \in Uploads : stage[r] # "idle" => packet[r] \in Packets
  BY DEF TypeInv, AnswersInTurn
<1>1. ASSUME NEW r \in Uploads, NEW p \in Packets, Ingest(r, p) PROVE TypeInv'
  <2>1. /\ packet' \in [Uploads -> Packets \union {NoPacket}]
        /\ packet'[r] = p
        /\ \A q \in Uploads \ {r} : packet'[q] = packet[q]
    BY <1>0, <1>1 DEF Ingest, TypeOK
  <2>2. claims' \subseteq Packets
    BY <1>0, <1>1 DEF Ingest, TypeOK
  <2>3. UNCHANGED <<funds, rowLock, balance, tx, moves, audits, events>>
    BY <1>1 DEF Ingest
  <2>4. CASE Fail(r)
    <3>1. /\ stage' \in [Uploads -> Stages] /\ stage'[r] = "done"
          /\ answer' \in [Uploads -> Outcomes \union {"NONE", "ERROR"}]
          /\ \A q \in Uploads \ {r} : stage'[q] = stage[q] /\ answer'[q] = answer[q]
      BY <1>0, <2>4, FailType
    <3> QED
      BY <1>0, <2>1, <2>2, <2>3, <3>1, RequestStepType DEF TypeOK, OneHolder
  <2>5. CASE Goto(r, "claimed")
    BY <1>0, <2>1, <2>2, <2>3, <2>5, GotoType, StageNames, RequestStepType
       DEF TypeOK, OneHolder
  <2>6. CASE Return(r, "DUPLICATE_DROPPED")
    <3>1. "DUPLICATE_DROPPED" \in Outcomes
      BY DEF Outcomes
    <3> QED
      BY <1>0, <2>1, <2>2, <2>3, <2>6, <3>1, ReturnType, RequestStepType
         DEF TypeOK, OneHolder
  <2> QED
    BY <1>1, <2>4, <2>5, <2>6 DEF Ingest
<1>2. ASSUME NEW r \in Uploads, CheckFreshness(r) PROVE TypeInv'
  <2>1. packet[r] \in Packets
    BY <1>0, <1>2 DEF CheckFreshness
  <2>2. CASE Goto(r, "fresh")
    BY <1>0, <1>2, <2>1, <2>2, GotoType, StageNames, RequestStepType
       DEF CheckFreshness, TypeOK, OneHolder
  <2>3. ASSUME NEW outcome \in {"STALE_PACKET", "FUTURE_DATED"}, Return(r, outcome)
        PROVE  TypeInv'
    <3>1. outcome \in Outcomes
      BY DEF Outcomes
    <3>2. /\ stage' \in [Uploads -> Stages] /\ stage'[r] = "answered"
          /\ answer' \in [Uploads -> Outcomes \union {"NONE", "ERROR"}]
          /\ answer'[r] = outcome
          /\ \A q \in Uploads \ {r} : stage'[q] = stage[q] /\ answer'[q] = answer[q]
      BY <1>0, <2>3, <3>1, ReturnType
    <3> QED
      BY <1>0, <1>2, <2>1, <3>1, <3>2, RequestStepType DEF CheckFreshness, TypeOK, OneHolder
  <2> QED
    BY <1>2, <2>2, <2>3 DEF CheckFreshness
<1>3. ASSUME NEW r \in Uploads, ReadSender(r) PROVE TypeInv'
  <2>1. packet[r] \in Packets
    BY <1>0, <1>3 DEF ReadSender
  <2>2. CASE Sender(packet[r]) \in Accounts
    <3>1. balance[Sender(packet[r])] \in Int
      BY <1>0, <2>2 DEF TypeOK
    <3>2. funds' \in [Uploads -> [sender : Int, receiver : Int]]
      BY <1>0, <1>3, <2>2, <3>1 DEF ReadSender, TypeOK
    <3> QED
      BY <1>0, <1>3, <2>1, <2>2, <3>2, GotoType, StageNames, RequestStepType
         DEF ReadSender, TypeOK, OneHolder
  <2>3. CASE Sender(packet[r]) \notin Accounts
    BY <1>0, <1>3, <2>1, <2>3, ReturnType, RequestStepType
       DEF ReadSender, TypeOK, OneHolder, Outcomes
  <2> QED
    BY <2>2, <2>3
<1>4. ASSUME NEW r \in Uploads, ReadReceiver(r) PROVE TypeInv'
  <2>1. packet[r] \in Packets
    BY <1>0, <1>4 DEF ReadReceiver
  <2>2. CASE Receiver(packet[r]) \in Accounts
    <3>1. balance[Receiver(packet[r])] \in Int
      BY <1>0, <2>2 DEF TypeOK
    <3>2. funds' \in [Uploads -> [sender : Int, receiver : Int]]
      BY <1>0, <1>4, <2>2, <3>1 DEF ReadReceiver, TypeOK
    <3>3. PICK next \in {"rejecting", "begun"} : Goto(r, next)
      BY <1>4, <2>2 DEF ReadReceiver
    <3> QED
      BY <1>0, <1>4, <2>1, <2>2, <3>2, <3>3, GotoType, StageNames, RequestStepType
         DEF ReadReceiver, TypeOK, OneHolder
  <2>3. CASE Receiver(packet[r]) \notin Accounts
    BY <1>0, <1>4, <2>1, <2>3, ReturnType, RequestStepType
       DEF ReadReceiver, TypeOK, OneHolder, Outcomes
  <2> QED
    BY <2>2, <2>3
<1>5. ASSUME NEW r \in Uploads, RecordRejected(r) PROVE TypeInv'
  <2>1. packet[r] \in Packets
    BY <1>0, <1>5 DEF RecordRejected
  <2>2. PICK outcome \in Outcomes : Return(r, outcome)
    BY <1>5 DEF RecordRejected, Outcomes
  <2>3. tx' \in [Packets -> {"NONE", "SETTLED", "REJECTED"}]
    BY <1>0, <1>5 DEF RecordRejected, TypeOK
  <2>4. /\ stage' \in [Uploads -> Stages] /\ stage'[r] = "answered"
        /\ answer' \in [Uploads -> Outcomes \union {"NONE", "ERROR"}]
        /\ answer'[r] = outcome
        /\ \A q \in Uploads \ {r} : stage'[q] = stage[q] /\ answer'[q] = answer[q]
    BY <1>0, <2>2, ReturnType
  <2>5. UNCHANGED <<claims, packet, funds, rowLock, balance, moves, audits, events>>
    BY <1>5 DEF RecordRejected
  <2> QED
    BY <1>0, <2>1, <2>3, <2>4, <2>5, RequestStepType DEF TypeOK, OneHolder
<1>6. ASSUME NEW r \in Uploads, NEW a, NEW next \in {"debited", "credited"},
             LockRow(r, a, next), stage[r] \in InTransaction
      PROVE  TypeInv'
  <2>1. packet[r] \in Packets
    BY <1>0, <1>6, StageNames
  <2>2. rowLock' \in [Accounts -> SUBSET Uploads] /\ OneHolder'
    BY <1>0, <1>6 DEF LockRow, TypeOK, OneHolder
  <2> QED
    BY <1>0, <1>6, <2>1, <2>2, GotoType, StageNames, RequestStepType DEF LockRow, TypeOK
<1>7. ASSUME NEW r \in Uploads, Rollback(r), stage[r] # "idle",
             UNCHANGED <<claims, packet, funds, envVars>>
      PROVE  TypeInv'
  <2>1. rowLock' \in [Accounts -> SUBSET Uploads] /\ OneHolder'
    BY <1>7, UnlockedType DEF Rollback
  <2> QED
    BY <1>0, <1>7, <2>1, ReturnType, RequestStepType DEF Rollback, TypeOK, Outcomes
<1>8. ASSUME NEW r \in Uploads, InsertTransaction(r) PROVE TypeInv'
  <2>1. CASE Goto(r, "inserted") /\ UNCHANGED dbVars
    BY <1>0, <1>8, <2>1, GotoType, StageNames, RequestStepType
       DEF InsertTransaction, TypeOK, OneHolder
  <2> QED
    BY <1>7, <1>8, <2>1 DEF InsertTransaction
<1>9. ASSUME NEW r \in Uploads, Commit(r) PROVE TypeInv'
  <2>1. packet[r] \in Packets
    BY <1>0, <1>9 DEF Commit
  <2>2. rowLock' \in [Accounts -> SUBSET Uploads] /\ OneHolder'
    BY <1>9, UnlockedType DEF Commit
  <2>3. balance' \in [Accounts -> Int]
    <3>1. Rupees(Amount(packet[r])) \in Int
      BY <2>1, AmountType, RupeesType
    <3>2. Rupees(funds[r].sender) \in Int /\ Rupees(funds[r].receiver) \in Int
      BY <1>0, RupeesType DEF TypeOK
    <3>3. /\ ToPaise(Rupees(funds[r].sender) - Rupees(Amount(packet[r]))) \in Int
          /\ ToPaise(Rupees(funds[r].receiver) + Rupees(Amount(packet[r]))) \in Int
      BY <3>1, <3>2, ToPaiseType
    <3> QED
      BY <1>0, <1>9, <3>3 DEF Commit, Written, TypeOK
  <2>4. /\ tx' \in [Packets -> {"NONE", "SETTLED", "REJECTED"}]
        /\ moves' \in [Packets -> Nat]
    BY <1>0, <1>9 DEF Commit, TypeOK
  <2>5. CASE Goto(r, "committed")
    BY <1>0, <1>9, <2>1, <2>2, <2>3, <2>4, <2>5, GotoType, StageNames, RequestStepType
       DEF Commit, TypeOK
  <2>6. CASE Return(r, "INTERNAL_ERROR")
    BY <1>0, <1>9, <2>1, <2>2, <2>3, <2>4, <2>6, ReturnType, RequestStepType
       DEF Commit, TypeOK, Outcomes
  <2> QED
    BY <1>9, <2>5, <2>6 DEF Commit
<1>10. ASSUME NEW r \in Uploads, Audit(r) PROVE TypeInv'
  <2>1. packet[r] \in Packets
    BY <1>0, <1>10 DEF Audit
  <2> QED
    BY <1>0, <1>10, <2>1, ReturnType, RequestStepType DEF Audit, TypeOK, OneHolder, Outcomes
<1>11. ASSUME NEW r \in Uploads, LogMeshEvent(r) PROVE TypeInv'
  <2>1. packet[r] \in Packets /\ answer[r] \in Outcomes
    BY <1>0, <1>11 DEF LogMeshEvent, TypeInv, AnswersInTurn
  <2>2. events' \subseteq [packet : Packets, result : Outcomes]
    BY <1>0, <1>11, <2>1 DEF LogMeshEvent, TypeOK
  <2> QED
    BY <1>0, <1>11, <2>1, <2>2, GotoType, StageNames, RequestStepType
       DEF LogMeshEvent, TypeOK, OneHolder
<1>11b. ASSUME NEW r \in Uploads, EndBroadcast(r) PROVE TypeInv'
  <2>1. packet[r] \in Packets
    BY <1>0, <1>11b DEF EndBroadcast
  <2>2. CASE Goto(r, "done")
    BY <1>0, <1>11b, <2>1, <2>2, GotoType, StageNames, RequestStepType
       DEF EndBroadcast, TypeOK, OneHolder
  <2>3. CASE Fail(r)
    <3>1. /\ stage' \in [Uploads -> Stages] /\ stage'[r] = "done"
          /\ answer' \in [Uploads -> Outcomes \union {"NONE", "ERROR"}]
          /\ \A q \in Uploads \ {r} : stage'[q] = stage[q] /\ answer'[q] = answer[q]
      BY <1>0, <2>3, FailType
    <3> QED
      BY <1>0, <1>11b, <2>1, <3>1, RequestStepType DEF EndBroadcast, TypeOK, OneHolder
  <2> QED
    BY <1>11b, <2>2, <2>3 DEF EndBroadcast
<1>12. CASE Crash
  <2>1. OneHolder' /\ AnswersInTurn'
    BY <1>0, <1>12 DEF Crash, OneHolder, AnswersInTurn, TypeOK, TypeInv
  <2>2. \A a \in Accounts : Cardinality(rowLock'[a]) <= 1
    BY <2>1, HolderCount DEF OneHolder
  <2>3. /\ stage' \in [Uploads -> Stages]
        /\ answer' \in [Uploads -> Outcomes \union {"NONE", "ERROR"}]
        /\ rowLock' \in [Accounts -> SUBSET Uploads]
    BY <1>0, <1>12, StageNames DEF Crash, TypeOK
  <2> QED
    BY <1>0, <1>12, <2>1, <2>2, <2>3 DEF Crash, TypeInv, TypeOK
<1>13. CASE LoseClaims
  BY <1>13 DEF LoseClaims, TypeInv, TypeOK, AnswersInTurn, OneHolder
<1>14. CASE UNCHANGED vars
  BY <1>14 DEF vars, TypeInv, TypeOK, AnswersInTurn, OneHolder
<1>15. ASSUME NEW r \in Uploads, Serve(r) \/ StatementFails(r) \/ EndBroadcast(r)
       PROVE  TypeInv'
  <2>1. CASE UpdateSender(r)
    BY <1>6, <2>1, StageNames DEF UpdateSender
  <2>2. CASE UpdateReceiver(r)
    BY <1>6, <2>2, StageNames DEF UpdateReceiver
  <2>3. CASE BreakDeadlock(r)
    BY <1>7, <2>3, DeadlockedStage DEF BreakDeadlock
  <2>4. CASE StatementFails(r)
    BY <1>7, <2>4, StageNames DEF StatementFails
  <2> QED
    BY <1>2, <1>3, <1>4, <1>5, <1>8, <1>9, <1>10, <1>11, <1>11b, <1>15, <2>1, <2>2, <2>3, <2>4
       DEF Serve
<1> QED
  BY <1>1, <1>12, <1>13, <1>14, <1>15 DEF Next
-----------------------------------------------------------------------------
(* Money moves with its row, and answers agree with it.                    *)

LEMMA InitRowInv == Init => RowInv
BY DEF Init, RowInv, InsertedIsFirst, CommittedHasRow, MoneyMovesWithItsRow, AnswerHasRow

\* A step of one request that commits nothing.
LEMMA UncommittedStep ==
    ASSUME TypeInv, RowInv, NEW r \in Uploads,
           \A q \in Uploads \ {r} : /\ stage'[q] = stage[q]
                                    /\ answer'[q] = answer[q]
                                    /\ packet'[q] = packet[q],
           stage'[r] \notin {"inserted", "committed"},
           answer'[r] # "NONE" /\ answer'[r] = answer[r] => packet'[r] = packet[r],
           answer'[r] # answer[r] => answer'[r] \notin {"SETTLED", "INSUFFICIENT_BALANCE"},
           UNCHANGED <<tx, moves>>
    PROVE  RowInv'
<1>1. InsertedIsFirst'
  BY DEF RowInv, InsertedIsFirst
<1>2. CommittedHasRow'
  BY DEF RowInv, CommittedHasRow
<1>3. MoneyMovesWithItsRow'
  BY DEF RowInv, MoneyMovesWithItsRow
<1>4. AnswerHasRow'
  BY DEF RowInv, AnswerHasRow
<1> QED
  BY <1>1, <1>2, <1>3, <1>4 DEF RowInv

LEMMA NextRowInv == TypeInv /\ RowInv /\ [Next]_vars => RowInv'
<1> SUFFICES ASSUME TypeInv, RowInv, [Next]_vars PROVE RowInv'
  OBVIOUS
<1> USE DEF dbVars, envVars
<1>0. /\ TypeOK
      /\ \A r \in Uploads : stage[r] # "idle" => packet[r] \in Packets
      /\ \A r \in Uploads : stage[r] = "idle" => answer[r] = "NONE"
  BY DEF TypeInv, AnswersInTurn
<1>1. ASSUME NEW r \in Uploads, NEW outcome \in Outcomes \ {"SETTLED", "INSUFFICIENT_BALANCE"},
             Return(r, outcome), UNCHANGED <<packet, tx, moves>>
      PROVE  RowInv'
  BY <1>0, <1>1, ReturnType, UncommittedStep
<1>2. ASSUME NEW r \in Uploads, NEW next \in Stages \ {"inserted", "committed"},
             Goto(r, next), UNCHANGED <<packet, tx, moves>>
      PROVE  RowInv'
  BY <1>0, <1>2, GotoType, UncommittedStep
<1>3. {"DUPLICATE_DROPPED", "STALE_PACKET", "FUTURE_DATED", "INTERNAL_ERROR"}
          \subseteq Outcomes \ {"SETTLED", "INSUFFICIENT_BALANCE"}
  BY DEF Outcomes
<1>4. ASSUME NEW r \in Uploads, NEW p \in Packets, Ingest(r, p) PROVE RowInv'
  <2>1. /\ answer[r] = "NONE"
        /\ \A q \in Uploads \ {r} : packet'[q] = packet[q]
        /\ UNCHANGED <<tx, moves>>
    BY <1>0, <1>4 DEF Ingest, TypeOK
  <2>2. CASE Fail(r)
    BY <1>0, <2>1, <2>2, FailType, UncommittedStep
  <2>3. CASE Goto(r, "claimed")
    BY <1>0, <2>1, <2>3, GotoType, StageNames, UncommittedStep
  <2>4. CASE Return(r, "DUPLICATE_DROPPED")
    BY <1>0, <1>3, <2>1, <2>4, ReturnType, UncommittedStep
  <2> QED
    BY <1>4, <2>2, <2>3, <2>4 DEF Ingest
<1>5. ASSUME NEW r \in Uploads, CheckFreshness(r) PROVE RowInv'
  BY <1>1, <1>2, <1>3, <1>5, StageNames DEF CheckFreshness
<1>6. ASSUME NEW r \in Uploads, ReadSender(r) PROVE RowInv'
  BY <1>1, <1>2, <1>3, <1>6, StageNames DEF ReadSender
<1>7. ASSUME NEW r \in Uploads, ReadReceiver(r) PROVE RowInv'
  <2>1. {"rejecting", "begun"} \subseteq Stages \ {"inserted", "committed"}
    BY StageNames
  <2> QED
    BY <1>1, <1>2, <1>3, <1>7, <2>1 DEF ReadReceiver
<1>8. ASSUME NEW r \in Uploads, RecordRejected(r) PROVE RowInv'
  <2>1. packet[r] \in Packets
    BY <1>0, <1>8 DEF RecordRejected
  <2>2. CASE tx[packet[r]] = "NONE"
    <3>1. /\ tx' = [tx EXCEPT ![packet[r]] = "REJECTED"]
          /\ UNCHANGED <<packet, moves>>
          /\ InsertReady(r)
      BY <1>8, <2>2 DEF RecordRejected
    <3>2. /\ stage'[r] = "answered"
          /\ answer'[r] \in {"INSUFFICIENT_BALANCE", "INTERNAL_ERROR"}
          /\ \A q \in Uploads \ {r} : stage'[q] = stage[q] /\ answer'[q] = answer[q]
      <4>1. CASE Return(r, "INSUFFICIENT_BALANCE")
        BY <1>0, <4>1, ReturnType DEF Outcomes
      <4>2. CASE Return(r, "INTERNAL_ERROR")
        BY <1>0, <4>2, ReturnType DEF Outcomes
      <4> QED
        BY <1>8, <2>2, <4>1, <4>2 DEF RecordRejected
    <3>3. /\ tx'[packet[r]] = "REJECTED"
          /\ \A p \in Packets \ {packet[r]} : tx'[p] = tx[p]
      BY <1>0, <2>1, <3>1 DEF TypeOK
    <3>4. InsertedIsFirst'
      BY <1>0, <3>1, <3>2, <3>3 DEF RowInv, InsertedIsFirst, InsertReady
    <3>5. CommittedHasRow'
      BY <1>0, <2>2, <3>1, <3>2, <3>3 DEF RowInv, CommittedHasRow
    <3>6. MoneyMovesWithItsRow'
      BY <2>2, <3>1, <3>3 DEF RowInv, MoneyMovesWithItsRow
    <3>7. AnswerHasRow'
      <4> SUFFICES ASSUME NEW q \in Uploads
                   PROVE  /\ answer'[q] = "SETTLED" => tx'[packet'[q]] = "SETTLED"
                          /\ answer'[q] = "INSUFFICIENT_BALANCE" => tx'[packet'[q]] = "REJECTED"
        BY DEF AnswerHasRow
      <4>1. CASE q = r
        BY <3>1, <3>2, <3>3, <4>1
      <4>2. CASE q # r
        BY <1>0, <2>2, <3>1, <3>2, <3>3, <4>2 DEF RowInv, AnswerHasRow
      <4> QED
        BY <4>1, <4>2
    <3> QED
      BY <3>4, <3>5, <3>6, <3>7 DEF RowInv
  <2>3. CASE tx[packet[r]] # "NONE"
    BY <1>1, <1>3, <1>8, <2>3 DEF RecordRejected
  <2> QED
    BY <2>2, <2>3
<1>9. ASSUME NEW r \in Uploads, UpdateSender(r) \/ UpdateReceiver(r) PROVE RowInv'
  BY <1>2, <1>9, StageNames DEF UpdateSender, UpdateReceiver, LockRow
<1>10. ASSUME NEW r \in Uploads, InsertTransaction(r) PROVE RowInv'
  <2>1. CASE tx[packet[r]] = "NONE"
    <3>1. Goto(r, "inserted") /\ UNCHANGED <<packet, tx, moves>> /\ InsertReady(r)
      BY <1>10, <2>1 DEF InsertTransaction
    <3>2. /\ stage'[r] = "inserted"
          /\ \A q \in Uploads \ {r} : stage'[q] = stage[q]
          /\ answer' = answer
      BY <1>0, <3>1, GotoType, StageNames
    <3>3. InsertedIsFirst'
      BY <2>1, <3>1, <3>2 DEF RowInv, InsertedIsFirst, InsertReady
    <3> QED
      BY <3>1, <3>2, <3>3 DEF RowInv, CommittedHasRow, MoneyMovesWithItsRow, AnswerHasRow
  <2>2. CASE tx[packet[r]] # "NONE"
    BY <1>1, <1>3, <1>10, <2>2 DEF InsertTransaction, Rollback
  <2> QED
    BY <2>1, <2>2
<1>11. ASSUME NEW r \in Uploads, Commit(r) PROVE RowInv'
  <2>1. /\ packet[r] \in Packets /\ stage[r] = "inserted"
        /\ UNCHANGED packet
        /\ tx[packet[r]] = "NONE"
    BY <1>0, <1>11 DEF Commit, RowInv, InsertedIsFirst
  <2>2. /\ tx'[packet[r]] = "SETTLED"
        /\ \A p \in Packets \ {packet[r]} : tx'[p] = tx[p]
        /\ moves'[packet[r]] = moves[packet[r]] + 1
        /\ \A p \in Packets \ {packet[r]} : moves'[p] = moves[p]
    BY <1>0, <1>11, <2>1 DEF Commit, TypeOK
  <2>3. /\ \A q \in Uploads \ {r} : stage'[q] = stage[q] /\ answer'[q] = answer[q]
        /\ stage'[r] \in {"committed", "answered"}
        /\ answer'[r] \in {answer[r], "INTERNAL_ERROR"}
    <3>1. CASE Goto(r, "committed")
      BY <1>0, <3>1, GotoType, StageNames
    <3>2. CASE Return(r, "INTERNAL_ERROR")
      BY <1>0, <1>3, <3>2, ReturnType
    <3> QED
      BY <1>11, <3>1, <3>2 DEF Commit
  <2>4. InsertedIsFirst'
    BY <1>0, <2>1, <2>2, <2>3 DEF RowInv, InsertedIsFirst
  <2>5. CommittedHasRow'
    BY <1>0, <2>1, <2>2, <2>3 DEF RowInv, CommittedHasRow
  <2>6. MoneyMovesWithItsRow'
    BY <2>1, <2>2 DEF RowInv, MoneyMovesWithItsRow
  <2>7. AnswerHasRow'
    BY <1>0, <2>1, <2>2, <2>3 DEF RowInv, AnswerHasRow
  <2> QED
    BY <2>4, <2>5, <2>6, <2>7 DEF RowInv
<1>12. ASSUME NEW r \in Uploads, BreakDeadlock(r) \/ StatementFails(r) PROVE RowInv'
  BY <1>1, <1>3, <1>12 DEF BreakDeadlock, StatementFails, Rollback
<1>13. ASSUME NEW r \in Uploads, Audit(r) PROVE RowInv'
  <2>1. /\ stage[r] = "committed" /\ UNCHANGED <<packet, tx, moves>>
        /\ Return(r, "SETTLED") /\ tx[packet[r]] = "SETTLED"
    BY <1>13 DEF Audit, RowInv, CommittedHasRow
  <2>2. /\ stage'[r] = "answered" /\ answer'[r] = "SETTLED"
        /\ \A q \in Uploads \ {r} : stage'[q] = stage[q] /\ answer'[q] = answer[q]
    BY <1>0, <2>1, ReturnType DEF Outcomes
  <2> QED
    BY <2>1, <2>2 DEF RowInv, InsertedIsFirst, CommittedHasRow, MoneyMovesWithItsRow, AnswerHasRow
<1>14. ASSUME NEW r \in Uploads, LogMeshEvent(r) PROVE RowInv'
  BY <1>2, <1>14, StageNames DEF LogMeshEvent
<1>14a. ASSUME NEW r \in Uploads, EndBroadcast(r) PROVE RowInv'
  <2>1. UNCHANGED <<packet, tx, moves>>
    BY <1>14a DEF EndBroadcast
  <2>2. CASE Goto(r, "done")
    BY <1>2, <2>1, <2>2, StageNames
  <2>3. CASE Fail(r)
    BY <1>0, <2>1, <2>3, FailType, UncommittedStep
  <2> QED
    BY <1>14a, <2>2, <2>3 DEF EndBroadcast
<1>15. CASE Crash
  <2>1. /\ \A r \in Uploads : stage'[r] \in {stage[r], "crashed"}
        /\ \A r \in Uploads : answer'[r] \in {answer[r], "NONE"}
        /\ \A r \in Uploads : stage[r] \notin {"idle", "done"} => stage'[r] = "crashed"
    BY <1>15 DEF Crash
  <2> QED
    BY <1>15, <2>1 DEF Crash, RowInv, InsertedIsFirst, CommittedHasRow,
                       MoneyMovesWithItsRow, AnswerHasRow
<1>16. CASE LoseClaims
  BY <1>16 DEF LoseClaims, RowInv, InsertedIsFirst, CommittedHasRow,
               MoneyMovesWithItsRow, AnswerHasRow
<1>17. CASE UNCHANGED vars
  BY <1>17 DEF vars, RowInv, InsertedIsFirst, CommittedHasRow, MoneyMovesWithItsRow, AnswerHasRow
<1> QED
  BY <1>4, <1>5, <1>6, <1>7, <1>8, <1>9, <1>10, <1>11, <1>12, <1>13, <1>14, <1>14a,
     <1>15, <1>16, <1>17 DEF Next, Serve

-----------------------------------------------------------------------------
(* No overdraft.                                                           *)

LEMMA InitFundsInv == Init => FundsInv
BY BalanceAssumption, StageNames DEF Init, FundsInv, AccountsExist, FundsChecked, NoOverdraft

\* A step of one request to a stage outside the transaction, or within it
\* with its funds unchanged.
LEMMA FundsKept ==
    ASSUME TypeInv, FundsInv, NEW r \in Uploads,
           \A q \in Uploads \ {r} : /\ stage'[q] = stage[q]
                                    /\ packet'[q] = packet[q]
                                    /\ funds'[q] = funds[q],
           \/ stage'[r] \notin {"read", "rejecting"} \union InTransaction
           \/ /\ stage'[r] \in InTransaction /\ stage[r] \in InTransaction
              /\ packet'[r] = packet[r] /\ funds'[r] = funds[r],
           UNCHANGED balance
    PROVE  FundsInv'
<1>1. AccountsExist'
  BY StageNames DEF FundsInv, AccountsExist
<1>2. FundsChecked'
  BY StageNames DEF FundsInv, FundsChecked
<1> QED
  BY <1>1, <1>2 DEF FundsInv, NoOverdraft

LEMMA NextFundsInv == TypeInv /\ FundsInv /\ [Next]_vars => FundsInv'
<1> SUFFICES ASSUME TypeInv, FundsInv, [Next]_vars PROVE FundsInv'
  OBVIOUS
<1> USE DEF dbVars, envVars
<1>0. /\ TypeOK
      /\ \A r \in Uploads : stage[r] # "idle" => packet[r] \in Packets
  BY DEF TypeInv, AnswersInTurn
<1>1. ASSUME NEW r \in Uploads, NEW outcome \in Outcomes,
             Return(r, outcome), UNCHANGED <<packet, funds, balance>>
      PROVE  FundsInv'
  BY <1>0, <1>1, ReturnType, StageNames, FundsKept
<1>2. ASSUME NEW r \in Uploads, NEW next \in Stages, Goto(r, next),
             \/ next \notin {"read", "rejecting"} \union InTransaction
             \/ next \in InTransaction /\ stage[r] \in InTransaction,
             UNCHANGED <<packet, funds, balance>>
      PROVE  FundsInv'
  BY <1>0, <1>2, GotoType, FundsKept
<1>3. {"DUPLICATE_DROPPED", "STALE_PACKET", "FUTURE_DATED", "INTERNAL_ERROR",
       "INSUFFICIENT_BALANCE", "SETTLED"} \subseteq Outcomes
  BY DEF Outcomes
<1>4. ASSUME NEW r \in Uploads, NEW p \in Packets, Ingest(r, p) PROVE FundsInv'
  <2>1. /\ \A q \in Uploads \ {r} : packet'[q] = packet[q]
        /\ UNCHANGED <<funds, balance>>
    BY <1>0, <1>4 DEF Ingest, TypeOK
  <2>2. CASE Fail(r)
    BY <1>0, <2>1, <2>2, FailType, StageNames, FundsKept
  <2>3. CASE Goto(r, "claimed")
    BY <1>0, <2>1, <2>3, GotoType, StageNames, FundsKept
  <2>4. CASE Return(r, "DUPLICATE_DROPPED")
    BY <1>0, <1>3, <2>1, <2>4, ReturnType, StageNames, FundsKept
  <2> QED
    BY <1>4, <2>2, <2>3, <2>4 DEF Ingest
<1>5. ASSUME NEW r \in Uploads, CheckFreshness(r) PROVE FundsInv'
  BY <1>1, <1>2, <1>3, <1>5, StageNames DEF CheckFreshness
<1>6. ASSUME NEW r \in Uploads, ReadSender(r) PROVE FundsInv'
  <2>1. CASE Sender(packet[r]) \in Accounts
    <3>1. /\ Goto(r, "read") /\ UNCHANGED <<packet, balance>>
          /\ \A q \in Uploads \ {r} : funds'[q] = funds[q]
      BY <1>0, <1>6, <2>1 DEF ReadSender, TypeOK
    <3>2. stage'[r] = "read" /\ \A q \in Uploads \ {r} : stage'[q] = stage[q]
      BY <1>0, <3>1, GotoType, StageNames
    <3> QED
      BY <2>1, <3>1, <3>2, StageNames DEF FundsInv, AccountsExist, FundsChecked, NoOverdraft
  <2>2. CASE Sender(packet[r]) \notin Accounts
    BY <1>1, <1>3, <1>6, <2>2 DEF ReadSender
  <2> QED
    BY <2>1, <2>2
<1>7. ASSUME NEW r \in Uploads, ReadReceiver(r) PROVE FundsInv'
  <2>1. CASE Receiver(packet[r]) \in Accounts
    <3>1. /\ funds'[r].sender = funds[r].sender
          /\ funds'[r].receiver = balance[Receiver(packet[r])]
          /\ \A q \in Uploads \ {r} : funds'[q] = funds[q]
          /\ stage[r] = "read" /\ UNCHANGED <<packet, balance>>
      BY <1>0, <1>7, <2>1 DEF ReadReceiver, TypeOK
    <3>2. funds'[r].receiver >= 0
      BY <2>1, <3>1 DEF FundsInv, NoOverdraft
    <3>3. Sender(packet[r]) \in Accounts
      BY <3>1 DEF FundsInv, AccountsExist
    <3>4. packet[r] \in Packets /\ funds[r].sender \in Int
      BY <1>0, <3>1 DEF TypeOK
    <3>5. Rupees(funds[r].sender) \in Int /\ Rupees(Amount(packet[r])) \in Int
      BY <3>4, AmountType, RupeesType
    <3>6. /\ stage'[r] \in {"rejecting", "begun"}
          /\ stage'[r] = "begun" => Rupees(funds[r].sender) >= Rupees(Amount(packet[r]))
          /\ \A q \in Uploads \ {r} : stage'[q] = stage[q]
      <4>1. CASE Rupees(funds[r].sender) < Rupees(Amount(packet[r]))
        BY <1>0, <1>7, <2>1, <4>1, GotoType, StageNames DEF ReadReceiver
      <4>2. CASE ~(Rupees(funds[r].sender) < Rupees(Amount(packet[r])))
        BY <1>0, <1>7, <2>1, <3>5, <4>2, GotoType, StageNames DEF ReadReceiver
      <4> QED
        BY <4>1, <4>2
    <3>7. AccountsExist'
      BY <2>1, <3>1, <3>3, <3>6, StageNames DEF FundsInv, AccountsExist
    <3>8. FundsChecked'
      BY <3>1, <3>2, <3>6, StageNames DEF FundsInv, FundsChecked
    <3> QED
      BY <3>1, <3>7, <3>8 DEF FundsInv, NoOverdraft
  <2>2. CASE Receiver(packet[r]) \notin Accounts
    <3>1. /\ UNCHANGED <<packet, funds, balance>> /\ Return(r, "INTERNAL_ERROR")
      BY <1>7, <2>2 DEF ReadReceiver
    <3> QED
      BY <1>1, <1>3, <3>1
  <2> QED
    BY <2>1, <2>2
<1>8. ASSUME NEW r \in Uploads, RecordRejected(r) PROVE FundsInv'
  BY <1>1, <1>3, <1>8 DEF RecordRejected
<1>9. ASSUME NEW r \in Uploads, UpdateSender(r) \/ UpdateReceiver(r) PROVE FundsInv'
  BY <1>2, <1>9, StageNames DEF UpdateSender, UpdateReceiver, LockRow
<1>10. ASSUME NEW r \in Uploads, Rollback(r), UNCHANGED <<packet, funds>> PROVE FundsInv'
  BY <1>1, <1>3, <1>10 DEF Rollback
<1>11. ASSUME NEW r \in Uploads, InsertTransaction(r) PROVE FundsInv'
  <2>1. CASE Goto(r, "inserted") /\ UNCHANGED dbVars
    BY <1>2, <1>11, <2>1, StageNames DEF InsertTransaction
  <2> QED
    BY <1>10, <1>11, <2>1 DEF InsertTransaction
<1>12. ASSUME NEW r \in Uploads, Commit(r) PROVE FundsInv'
  <2>1. /\ packet[r] \in Packets /\ stage[r] = "inserted"
        /\ UNCHANGED <<packet, funds>>
        /\ balance' = Written(r)
    BY <1>0, <1>12 DEF Commit
  <2>2. /\ \A q \in Uploads \ {r} : stage'[q] = stage[q]
        /\ stage'[r] \in {"committed", "answered"}
    <3>1. CASE Goto(r, "committed")
      BY <1>0, <3>1, GotoType, StageNames
    <3>2. CASE Return(r, "INTERNAL_ERROR")
      BY <1>0, <1>3, <3>2, ReturnType
    <3> QED
      BY <1>12, <3>1, <3>2 DEF Commit
  <2>3. /\ Rupees(funds[r].sender) >= Rupees(Amount(packet[r]))
        /\ funds[r].receiver >= 0
    BY <2>1, StageNames DEF FundsInv, FundsChecked
  <2>4. /\ Rupees(funds[r].sender) \in Int
        /\ Rupees(funds[r].receiver) \in Int /\ Rupees(funds[r].receiver) >= 0
        /\ Rupees(Amount(packet[r])) \in Int /\ Rupees(Amount(packet[r])) >= 0
    BY <1>0, <2>1, <2>3, AmountType, RupeesType DEF TypeOK
  <2>5. /\ ToPaise(Rupees(funds[r].sender) - Rupees(Amount(packet[r]))) >= 0
        /\ ToPaise(Rupees(funds[r].receiver) + Rupees(Amount(packet[r]))) >= 0
    BY <2>3, <2>4, ToPaiseType
  <2>6. NoOverdraft'
    BY <1>0, <2>1, <2>5 DEF Written, TypeOK, FundsInv, NoOverdraft
  <2>7. AccountsExist' /\ FundsChecked'
    BY <2>1, <2>2, StageNames DEF FundsInv, AccountsExist, FundsChecked
  <2> QED
    BY <2>6, <2>7 DEF FundsInv
<1>13. ASSUME NEW r \in Uploads, BreakDeadlock(r) \/ StatementFails(r) PROVE FundsInv'
  BY <1>10, <1>13 DEF BreakDeadlock, StatementFails
<1>14. ASSUME NEW r \in Uploads, Audit(r) PROVE FundsInv'
  BY <1>1, <1>3, <1>14 DEF Audit
<1>15. ASSUME NEW r \in Uploads, LogMeshEvent(r) PROVE FundsInv'
  BY <1>2, <1>15, StageNames DEF LogMeshEvent
<1>15a. ASSUME NEW r \in Uploads, EndBroadcast(r) PROVE FundsInv'
  <2>1. UNCHANGED <<packet, funds, balance>>
    BY <1>15a DEF EndBroadcast
  <2>2. CASE Goto(r, "done")
    BY <1>2, <2>1, <2>2, StageNames
  <2>3. CASE Fail(r)
    BY <1>0, <2>1, <2>3, FailType, StageNames, FundsKept
  <2> QED
    BY <1>15a, <2>2, <2>3 DEF EndBroadcast
<1>16. CASE Crash
  <2>1. \A r \in Uploads : stage'[r] \in {"idle", "done", "crashed"}
    BY <1>16 DEF Crash
  <2> QED
    BY <1>16, <2>1, StageNames DEF Crash, FundsInv, AccountsExist, FundsChecked, NoOverdraft
<1>17. CASE LoseClaims
  BY <1>17 DEF LoseClaims, FundsInv, AccountsExist, FundsChecked, NoOverdraft
<1>18. CASE UNCHANGED vars
  BY <1>18 DEF vars, FundsInv, AccountsExist, FundsChecked, NoOverdraft
<1> QED
  BY <1>4, <1>5, <1>6, <1>7, <1>8, <1>9, <1>11, <1>12, <1>13, <1>14, <1>15, <1>15a,
     <1>16, <1>17, <1>18 DEF Next, Serve

-----------------------------------------------------------------------------
(* The theorems.                                                           *)

LEMMA TypeInvHolds == Spec => []TypeInv
BY InitTypeInv, NextTypeInv, PTL DEF Spec

LEMMA RowInvHolds == Spec => []RowInv
BY TypeInvHolds, InitRowInv, NextRowInv, PTL DEF Spec

LEMMA FundsInvHolds == Spec => []FundsInv
BY TypeInvHolds, InitFundsInv, NextFundsInv, PTL DEF Spec

\* Type correctness of the Go backend's stores and requests; that no two
\* transactions hold one row is part of it.
THEOREM TypeCorrect == Spec => []TypeOK
<1>1. TypeInv => TypeOK
  BY DEF TypeInv
<1> QED
  BY <1>1, TypeInvHolds, PTL

\* Ingest() commits a transfer with the row of its packet, and once, however
\* many retries, crashes, lost claims and lost replies there are.
THEOREM MovesWithRow == Spec => []MoneyMovesWithItsRow
<1>1. RowInv => MoneyMovesWithItsRow
  BY DEF RowInv
<1> QED
  BY <1>1, RowInvHolds, PTL

\* What HandleBridgeIngest answers is what the row of the packet says.
THEOREM AnswersAgree == Spec => []AnswerHasRow
<1>1. RowInv => AnswerHasRow
  BY DEF RowInv
<1> QED
  BY <1>1, RowInvHolds, PTL

\* No account is overdrawn, whatever reads and commits interleave.
THEOREM NeverOverdrawn == Spec => []NoOverdraft
<1>1. FundsInv => NoOverdraft
  BY DEF FundsInv
<1> QED
  BY <1>1, FundsInvHolds, PTL
=============================================================================
