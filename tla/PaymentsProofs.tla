--------------------------- MODULE PaymentsProofs ---------------------------
(***************************************************************************)
(* Facts that the proofs about BridgeIngestion and MeshPayments share.     *)
(*                                                                         *)
(* First, sums over finite sets, MapThenSumSet, which the modules use to   *)
(* say what balances add up to.  A sum is computed by a recursive function *)
(* over the subsets; that the function exists, and that the order of the   *)
(* elements does not matter, is proved by the least counterexample, as the *)
(* natural numbers are well-founded.  Then Payments: what the two          *)
(* assignments of a transfer change, that they make and lose no money, and *)
(* what a settled packet adds to NetOf.                                    *)
(***************************************************************************)
EXTENDS Payments, FiniteSetTheorems, WellFoundedInduction, TLAPS

\* The sum of f[x] for all x \in S.
Total(f, S) == MapThenSumSet(LAMBDA x : f[x], S)

-----------------------------------------------------------------------------
(* Induction.                                                              *)

LEMMA LeastElement ==
    ASSUME NEW T \in SUBSET Nat, T # {}
    PROVE  \E n \in T : \A m \in T : ~ (m < n)
<1> DEFINE R == OpToRel(<, Nat)
<1>1. IsWellFoundedOn(R, Nat)
  BY NatLessThanWellFounded
<1>2. \A m, n \in Nat : m < n => <<m, n>> \in R
  BY DEF OpToRel
<1> HIDE DEF R
<1>3. PICK n \in T : \A m \in T : ~ (<<m, n>> \in R)
  BY <1>1, WFMin
<1> QED
  BY <1>2, <1>3

\* A set of subsets that has a set if it has it less any one element.
LEMMA SubsetInduction ==
    ASSUME NEW S, IsFiniteSet(S), NEW Good,
           \A s \in SUBSET S : (\A x \in s : s \ {x} \in Good) => s \in Good
    PROVE  SUBSET S \subseteq Good
<1> SUFFICES ASSUME NEW bad \in SUBSET S, bad \notin Good PROVE FALSE
  OBVIOUS
<1> DEFINE T == {Cardinality(s) : s \in {u \in SUBSET S : u \notin Good}}
<1>1. \A s \in SUBSET S : IsFiniteSet(s) /\ Cardinality(s) \in Nat
  BY FS_Subset, FS_CardinalityType
<1>2. T \in SUBSET Nat /\ T # {}
  BY <1>1
<1>3. \A n : n \in T <=>
          \E s \in SUBSET S : s \notin Good /\ n = Cardinality(s)
  OBVIOUS
<1> HIDE DEF T
<1>4. PICK n \in T : \A m \in T : ~ (m < n)
  BY <1>2, LeastElement
<1>5. PICK s \in SUBSET S : s \notin Good /\ n = Cardinality(s)
  BY <1>3
<1>6. PICK x \in s : s \ {x} \notin Good
  BY <1>5
<1>7. Cardinality(s \ {x}) = n - 1
  BY <1>1, <1>5, FS_RemoveElement
<1>8. Cardinality(s \ {x}) \in T
  BY <1>3, <1>6
<1>9. n - 1 < n
  BY <1>1, <1>5
<1> QED
  BY <1>4, <1>7, <1>8, <1>9

-----------------------------------------------------------------------------
(* The recursive function.                                                 *)

\* One turn of the recursion, with G for the rest.
Turned(G, f, s) ==
    IF s = {} THEN 0 ELSE LET x == CHOOSE x \in s : TRUE IN f[x] + G[s \ {x}]

Sums(G, f, S) == G = [s \in SUBSET S |-> Turned(G, f, s)]

\* There is a function that the recursion defines.
LEMMA SumsExist ==
    ASSUME NEW f, NEW S, IsFiniteSet(S) PROVE \E G : Sums(G, f, S)
<1> DEFINE Small(n) == {s \in SUBSET S : Cardinality(s) <= n}
           Defined(n) == \E G : G = [s \in Small(n) |-> Turned(G, f, s)]
           T == {n \in Nat : ~ Defined(n)}
<1>1. \A s \in SUBSET S : IsFiniteSet(s) /\ Cardinality(s) \in Nat
  BY FS_Subset, FS_CardinalityType
<1>2. ASSUME T # {} PROVE FALSE
  <2>1. PICK n \in T : \A m \in T : ~ (m < n)
    BY <1>2, LeastElement
  <2> SUFFICES Defined(n)
    BY <2>1
  <2>2. CASE n = 0
    <3>1. \A s \in Small(0) : s = {}
      BY <1>1, FS_EmptySet
    <3>2. [s \in Small(0) |-> 0]
          = [s \in Small(0) |-> Turned([u \in Small(0) |-> 0], f, s)]
      BY <3>1 DEF Turned
    <3> QED
      BY <2>2, <3>2
  <2>3. CASE n # 0
    <3>1. n - 1 \in Nat /\ n - 1 < n /\ n \in Nat
      BY <2>3
    <3>2. Defined(n - 1)
      BY <2>1, <3>1
    <3>3. PICK G : G = [s \in Small(n - 1) |-> Turned(G, f, s)]
      BY <3>2
    <3> DEFINE H == [s \in Small(n) |-> Turned(G, f, s)]
    <3>4. ASSUME NEW s \in Small(n) PROVE Turned(G, f, s) = Turned(H, f, s)
      <4>1. CASE s = {}
        BY <4>1 DEF Turned
      <4>2. CASE s # {}
        <5> DEFINE x == CHOOSE x \in s : TRUE
        <5>1. x \in s
          BY <4>2
        <5>2. Cardinality(s \ {x}) = Cardinality(s) - 1
          BY <1>1, <5>1, FS_RemoveElement
        <5>3. s \ {x} \in Small(n - 1) /\ s \ {x} \in Small(n)
          BY <1>1, <3>1, <5>2
        <5>4. H[s \ {x}] = G[s \ {x}]
          BY <3>3, <5>3
        <5> QED
          BY <4>2, <5>4 DEF Turned
      <4> QED
        BY <4>1, <4>2
    <3>5. H = [s \in Small(n) |-> Turned(H, f, s)]
      BY <3>4
    <3> QED
      BY <3>5
  <2> QED
    BY <2>2, <2>3
<1>3. Cardinality(S) \in Nat
  BY FS_CardinalityType
<1>4. Small(Cardinality(S)) = SUBSET S
  BY <1>1, <1>3, FS_Subset
<1>5. Defined(Cardinality(S))
  BY <1>2, <1>3
<1> QED
  BY <1>4, <1>5 DEF Sums

\* It depends on what it adds up only.
LEMMA SumsAgree ==
    ASSUME NEW S, IsFiniteSet(S), NEW U, NEW f, NEW g, NEW G, NEW H,
           S \subseteq U, Sums(G, f, S), Sums(H, g, U),
           \A x \in S : f[x] = g[x]
    PROVE  \A s \in SUBSET S : G[s] = H[s]
<1> DEFINE Good == {s \in SUBSET S : G[s] = H[s]}
<1>1. ASSUME NEW s \in SUBSET S, \A x \in s : s \ {x} \in Good PROVE s \in Good
  <2>1. G[s] = Turned(G, f, s) /\ H[s] = Turned(H, g, s)
    BY DEF Sums
  <2>2. CASE s = {}
    BY <2>1, <2>2 DEF Turned
  <2>3. CASE s # {}
    <3> DEFINE x == CHOOSE x \in s : TRUE
    <3>1. x \in s
      BY <2>3
    <3>2. G[s \ {x}] = H[s \ {x}] /\ f[x] = g[x]
      BY <1>1, <3>1
    <3>3. G[s] = f[x] + G[s \ {x}] /\ H[s] = g[x] + H[s \ {x}]
      BY <2>1, <2>3 DEF Turned
    <3> QED
      BY <3>2, <3>3
  <2> QED
    BY <2>2, <2>3
<1> HIDE DEF Good
<1>2. SUBSET S \subseteq Good
  BY <1>1, SubsetInduction
<1> QED
  BY <1>2 DEF Good

\* Any element may be taken out first.
LEMMA SumsTakeOut ==
    ASSUME NEW S, IsFiniteSet(S), NEW f, NEW G, Sums(G, f, S),
           \A x \in S : f[x] \in Int
    PROVE  \A s \in SUBSET S : /\ G[s] \in Int
                               /\ \A x \in s : G[s] = f[x] + G[s \ {x}]
<1>0. \A s \in SUBSET S : G[s] \in Int
  <2> DEFINE Good == {s \in SUBSET S : G[s] \in Int}
  <2>1. ASSUME NEW s \in SUBSET S, \A x \in s : s \ {x} \in Good PROVE s \in Good
    <3>1. G[s] = Turned(G, f, s)
      BY DEF Sums
    <3>2. CASE s = {}
      BY <3>1, <3>2 DEF Turned
    <3>3. CASE s # {}
      <4> DEFINE c == CHOOSE x \in s : TRUE
      <4>1. c \in s
        BY <3>3
      <4>2. G[s] = f[c] + G[s \ {c}]
        BY <3>1, <3>3 DEF Turned
      <4> HIDE DEF c
      <4>3. f[c] \in Int /\ G[s \ {c}] \in Int
        BY <2>1, <4>1
      <4> QED
        BY <4>2, <4>3
    <3> QED
      BY <3>2, <3>3
  <2> HIDE DEF Good
  <2>2. SUBSET S \subseteq Good
    BY <2>1, SubsetInduction
  <2> QED
    BY <2>2 DEF Good
<1> DEFINE TakesOut(s) == \A x \in s : G[s] = f[x] + G[s \ {x}]
           Good == {s \in SUBSET S : TakesOut(s)}
<1>1. ASSUME NEW s \in SUBSET S, \A x \in s : s \ {x} \in Good PROVE s \in Good
  <2>1. G[s] = Turned(G, f, s)
    BY DEF Sums
  <2>2. CASE s = {}
    BY <2>1, <2>2 DEF Turned
  <2>3. CASE s # {}
    <3> DEFINE c == CHOOSE x \in s : TRUE
    <3>1. c \in s
      BY <2>3
    <3>2. G[s] = f[c] + G[s \ {c}]
      BY <2>1, <2>3 DEF Turned
    <3> HIDE DEF c
    <3>3. G[s \ {c}] \in Int /\ f[c] \in Int
      BY <1>0, <3>1
    <3>4. ASSUME NEW x \in s, x # c PROVE G[s] = f[x] + G[s \ {x}]
      <4>1. G[s \ {c}] = f[x] + G[(s \ {c}) \ {x}]
        BY <1>1, <3>1, <3>4
      <4>2. G[s \ {x}] = f[c] + G[(s \ {x}) \ {c}]
        BY <1>1, <3>1, <3>4
      <4>3. (s \ {c}) \ {x} = (s \ {x}) \ {c}
        OBVIOUS
      <4>4. f[x] \in Int /\ G[s \ {x}] \in Int /\ G[(s \ {c}) \ {x}] \in Int
        <5>1. s \ {x} \in SUBSET S /\ (s \ {c}) \ {x} \in SUBSET S
          OBVIOUS
        <5> QED
          BY <1>0, <5>1
      <4>5. G[s \ {x}] = f[c] + G[(s \ {c}) \ {x}]
        BY <4>2, <4>3, Zenon
      <4> QED
        BY <3>2, <3>3, <4>1, <4>4, <4>5
    <3> QED
      BY <3>2, <3>3, <3>4
  <2> QED
    BY <2>2, <2>3
<1> HIDE DEF Good
<1>2. SUBSET S \subseteq Good
  BY <1>1, SubsetInduction
<1> QED
  BY <1>0, <1>2 DEF Good

-----------------------------------------------------------------------------
(* Sums.                                                                   *)

\* MapThenSumSet is the value of such a function.
LEMMA TotalIsSum ==
    ASSUME NEW f, NEW S, IsFiniteSet(S)
    PROVE  \E G : Sums(G, f, S) /\ Total(f, S) = G[S]
<1> DEFINE rest(G) == [s \in SUBSET S |->
               IF s = {} THEN 0
               ELSE LET x == CHOOSE x \in s : TRUE IN f[x] + G[s \ {x}]]
           iter == CHOOSE G : G = rest(G)
<1>1. Total(f, S) = iter[S]
  BY DEF Total, MapThenSumSet, MapThenFoldSet
<1>2. \A G : Sums(G, f, S) <=> G = rest(G)
  BY DEF Sums, Turned
<1> HIDE DEF rest
<1>3. PICK G : G = rest(G)
  BY <1>2, SumsExist
<1>4. iter = rest(iter)
  BY <1>3, Zenon
<1> HIDE DEF iter
<1> QED
  BY <1>1, <1>2, <1>4

LEMMA TotalEmpty == \A f : Total(f, {}) = 0
<1> SUFFICES ASSUME NEW f PROVE Total(f, {}) = 0
  OBVIOUS
<1>1. PICK G : Sums(G, f, {}) /\ Total(f, {}) = G[{}]
  BY TotalIsSum, FS_EmptySet
<1> QED
  BY <1>1 DEF Sums, Turned

\* The sum of the rest, and one more.
LEMMA TotalTakeOut ==
    ASSUME NEW f, NEW S, IsFiniteSet(S), \A x \in S : f[x] \in Int
    PROVE  /\ Total(f, S) \in Int
           /\ \A x \in S : Total(f, S) = f[x] + Total(f, S \ {x})
<1>1. PICK G : Sums(G, f, S) /\ Total(f, S) = G[S]
  BY TotalIsSum
<1>2. G[S] \in Int
  BY <1>1, SumsTakeOut
<1>3. ASSUME NEW x \in S PROVE G[S] = f[x] + Total(f, S \ {x})
  <2>1. IsFiniteSet(S \ {x}) /\ S \ {x} \subseteq S
    BY FS_Subset
  <2>2. PICK H : Sums(H, f, S \ {x}) /\ Total(f, S \ {x}) = H[S \ {x}]
    BY <2>1, TotalIsSum
  <2>3. H[S \ {x}] = G[S \ {x}]
    BY <1>1, <2>1, <2>2, SumsAgree
  <2>4. G[S] = f[x] + G[S \ {x}]
    BY <1>1, SumsTakeOut
  <2> QED
    BY <2>2, <2>3, <2>4
<1> QED
  BY <1>1, <1>2, <1>3

\* The sum depends on the values for the elements of the set only.
LEMMA TotalAgree ==
    ASSUME NEW f, NEW g, NEW S, IsFiniteSet(S), \A x \in S : f[x] = g[x]
    PROVE  Total(f, S) = Total(g, S)
<1>1. PICK G : Sums(G, f, S) /\ Total(f, S) = G[S]
  BY TotalIsSum
<1>2. PICK H : Sums(H, g, S) /\ Total(g, S) = H[S]
  BY TotalIsSum
<1>3. G[S] = H[S]
  BY <1>1, <1>2, SumsAgree
<1> QED
  BY <1>1, <1>2, <1>3

\* A new element adds its value.
LEMMA TotalAdd ==
    ASSUME NEW f, NEW S, IsFiniteSet(S), NEW x, x \notin S,
           \A y \in S \union {x} : f[y] \in Int
    PROVE  Total(f, S \union {x}) = Total(f, S) + f[x]
<1>1. IsFiniteSet(S \union {x})
  BY FS_AddElement
<1>2. Total(f, S \union {x}) = f[x] + Total(f, (S \union {x}) \ {x})
  BY <1>1, TotalTakeOut
<1>3. (S \union {x}) \ {x} = S
  OBVIOUS
<1>4. Total(f, S \union {x}) = f[x] + Total(f, S)
  BY <1>2, <1>3, Zenon
<1>5. f[x] \in Int /\ Total(f, S) \in Int
  BY TotalTakeOut
<1> QED
  BY <1>4, <1>5

\* Another value for one element changes the sum by the difference.
LEMMA TotalChange ==
    ASSUME NEW f, NEW g, NEW S, IsFiniteSet(S), NEW x \in S,
           \A y \in S : f[y] \in Int /\ g[y] \in Int,
           \A y \in S \ {x} : g[y] = f[y]
    PROVE  Total(g, S) = Total(f, S) - f[x] + g[x]
<1>1. IsFiniteSet(S \ {x})
  BY FS_Subset
<1>2. Total(g, S \ {x}) = Total(f, S \ {x})
  BY <1>1, TotalAgree
<1>3. Total(f, S) = f[x] + Total(f, S \ {x})
  BY TotalTakeOut
<1>4. Total(g, S) = g[x] + Total(g, S \ {x})
  BY TotalTakeOut
<1>5. Total(f, S \ {x}) \in Int
  BY <1>1, TotalTakeOut
<1> QED
  BY <1>2, <1>3, <1>4, <1>5

-----------------------------------------------------------------------------
(* The assignments of a transfer.                                          *)

LEMMA AmountType == \A p \in Packets : Amount(p) \in Int
BY InstructionAssumption DEF Amount

\* A debit changes the balance of the sender alone, by the amount.
LEMMA DebitEffect ==
    ASSUME NEW bal \in [Accounts -> Int], NEW p \in Packets
    PROVE  /\ DebitSender(bal, p) \in [Accounts -> Int]
           /\ \A a \in Accounts :
                 DebitSender(bal, p)[a] = IF a = Sender(p)
                                          THEN bal[a] - Amount(p) ELSE bal[a]
<1>1. Amount(p) \in Int
  BY AmountType
<1>2. \A a \in Accounts : bal[a] \in Int /\ bal[a] - Amount(p) \in Int
  BY <1>1
<1>3. DebitSender(bal, p) = [a \in Accounts |-> IF a = Sender(p)
                                THEN bal[a] - Amount(p) ELSE bal[a]]
  BY DEF DebitSender
<1> QED
  BY <1>2, <1>3

\* A credit changes the balance of the receiver alone, by the amount.
LEMMA CreditEffect ==
    ASSUME NEW bal \in [Accounts -> Int], NEW p \in Packets
    PROVE  /\ CreditReceiver(bal, p) \in [Accounts -> Int]
           /\ \A a \in Accounts :
                 CreditReceiver(bal, p)[a] = IF a = Receiver(p)
                                             THEN bal[a] + Amount(p) ELSE bal[a]
<1>1. Amount(p) \in Int
  BY AmountType
<1>2. \A a \in Accounts : bal[a] \in Int /\ bal[a] + Amount(p) \in Int
  BY <1>1
<1>3. CreditReceiver(bal, p) = [a \in Accounts |-> IF a = Receiver(p)
                                   THEN bal[a] + Amount(p) ELSE bal[a]]
  BY DEF CreditReceiver
<1> QED
  BY <1>2, <1>3

\* What both together do to the balances, as one function.
LEMMA TransferEffect ==
    ASSUME NEW bal \in [Accounts -> Int], NEW p \in Packets
    PROVE  /\ CreditReceiver(DebitSender(bal, p), p) \in [Accounts -> Int]
           /\ \A a \in Accounts :
                 CreditReceiver(DebitSender(bal, p), p)[a] =
                    bal[a] + (IF a = Receiver(p) THEN Amount(p) ELSE 0)
                           - (IF a = Sender(p) THEN Amount(p) ELSE 0)
<1> DEFINE debited == DebitSender(bal, p)
<1>1. /\ debited \in [Accounts -> Int]
      /\ \A a \in Accounts : debited[a] = IF a = Sender(p)
                                          THEN bal[a] - Amount(p) ELSE bal[a]
  BY DebitEffect
<1> HIDE DEF debited
<1>2. /\ CreditReceiver(debited, p) \in [Accounts -> Int]
      /\ \A a \in Accounts :
            CreditReceiver(debited, p)[a] = IF a = Receiver(p)
                                THEN debited[a] + Amount(p) ELSE debited[a]
  BY <1>1, CreditEffect
<1>3. Amount(p) \in Int /\ \A a \in Accounts : bal[a] \in Int
  BY AmountType
<1>4. \A a \in Accounts : CreditReceiver(debited, p)[a] =
                              bal[a] + (IF a = Receiver(p) THEN Amount(p) ELSE 0)
                                     - (IF a = Sender(p) THEN Amount(p) ELSE 0)
  BY <1>1, <1>2, <1>3
<1> QED
  BY <1>2, <1>4 DEF debited

-----------------------------------------------------------------------------
(* Money.                                                                  *)

\* A debit takes the amount out of all the money there is.
LEMMA DebitTotal ==
    ASSUME NEW bal \in [Accounts -> Int], NEW p \in Packets, Payable(p)
    PROVE  Total(DebitSender(bal, p), Accounts) = Total(bal, Accounts) - Amount(p)
<1>1. /\ Sender(p) \in Accounts /\ Amount(p) \in Int
      /\ \A a \in Accounts : bal[a] \in Int
  BY AmountType DEF Payable
<1>2. /\ \A a \in Accounts : DebitSender(bal, p)[a] \in Int
      /\ \A a \in Accounts \ {Sender(p)} : DebitSender(bal, p)[a] = bal[a]
      /\ DebitSender(bal, p)[Sender(p)] = bal[Sender(p)] - Amount(p)
  BY <1>1, DebitEffect
<1>3. Total(DebitSender(bal, p), Accounts)
      = Total(bal, Accounts) - bal[Sender(p)] + DebitSender(bal, p)[Sender(p)]
  BY <1>1, <1>2, AccountsAssumption, TotalChange
<1>4. Total(bal, Accounts) \in Int
  BY <1>1, AccountsAssumption, TotalTakeOut
<1> QED
  BY <1>1, <1>2, <1>3, <1>4

\* A credit puts it back.
LEMMA CreditTotal ==
    ASSUME NEW bal \in [Accounts -> Int], NEW p \in Packets, Payable(p)
    PROVE  Total(CreditReceiver(bal, p), Accounts)
           = Total(bal, Accounts) + Amount(p)
<1>1. /\ Receiver(p) \in Accounts /\ Amount(p) \in Int
      /\ \A a \in Accounts : bal[a] \in Int
  BY AmountType DEF Payable
<1>2. /\ \A a \in Accounts : CreditReceiver(bal, p)[a] \in Int
      /\ \A a \in Accounts \ {Receiver(p)} : CreditReceiver(bal, p)[a] = bal[a]
      /\ CreditReceiver(bal, p)[Receiver(p)] = bal[Receiver(p)] + Amount(p)
  BY <1>1, CreditEffect
<1>3. Total(CreditReceiver(bal, p), Accounts)
      = Total(bal, Accounts) - bal[Receiver(p)] + CreditReceiver(bal, p)[Receiver(p)]
  BY <1>1, <1>2, AccountsAssumption, TotalChange
<1>4. Total(bal, Accounts) \in Int
  BY <1>1, AccountsAssumption, TotalTakeOut
<1> QED
  BY <1>1, <1>2, <1>3, <1>4

-----------------------------------------------------------------------------
(* What the ledger explains.                                               *)

Amounts == [p \in Packets |-> Amount(p)]

AmountSum(S) == MapThenSumSet(Amount, S)

\* The sum over the operator Amount is the sum over the function.
LEMMA AmountsTotal ==
    ASSUME NEW S \in SUBSET Packets, IsFiniteSet(S)
    PROVE  AmountSum(S) = Total(Amounts, S)
<1> DEFINE rest(G) == [s \in SUBSET S |->
               IF s = {} THEN 0
               ELSE LET x == CHOOSE x \in s : TRUE IN Amount(x) + G[s \ {x}]]
           iter == CHOOSE G : G = rest(G)
<1>1. AmountSum(S) = iter[S]
  BY DEF AmountSum, MapThenSumSet, MapThenFoldSet
<1>2. \A G : Sums(G, Amounts, S) <=> G = rest(G)
  BY DEF Sums, Turned, Amounts
<1>3. PICK G : Sums(G, Amounts, S) /\ Total(Amounts, S) = G[S]
  BY TotalIsSum
<1> HIDE DEF rest
<1>4. iter = rest(iter)
  BY <1>2, <1>3, Zenon
<1> HIDE DEF iter
<1>5. iter[S] = G[S]
  BY <1>2, <1>3, <1>4, SumsAgree
<1> QED
  BY <1>1, <1>3, <1>5

\* The amounts of some of the packets, when one more packet comes in.
LEMMA AmountsAdd ==
    ASSUME NEW S \in SUBSET Packets, IsFiniteSet(S),
           NEW p \in Packets, p \notin S, NEW C
    PROVE  /\ AmountSum(S \intersect C) \in Int
           /\ AmountSum((S \union {p}) \intersect C)
              = AmountSum(S \intersect C)
                + (IF p \in C THEN Amount(p) ELSE 0)
<1> DEFINE T == S \intersect C
<1>1. IsFiniteSet(T) /\ T \in SUBSET Packets /\ p \notin T
  BY FS_Subset
<1>2. \A q \in Packets : Amounts[q] \in Int /\ Amounts[q] = Amount(q)
  BY AmountType DEF Amounts
<1>3. AmountSum(T) = Total(Amounts, T) /\ Total(Amounts, T) \in Int
  BY <1>1, <1>2, AmountsTotal, TotalTakeOut
<1>4. CASE p \in C
  <2>1. (S \union {p}) \intersect C = T \union {p}
    BY <1>4
  <2>2. IsFiniteSet(T \union {p}) /\ T \union {p} \in SUBSET Packets
    BY <1>1, FS_AddElement
  <2>3. AmountSum(T \union {p}) = Total(Amounts, T \union {p})
    BY <2>2, AmountsTotal
  <2>4. Total(Amounts, T \union {p}) = Total(Amounts, T) + Amounts[p]
    BY <1>1, <1>2, TotalAdd
  <2> QED
    BY <1>2, <1>3, <1>4, <2>1, <2>3, <2>4
<1>5. CASE p \notin C
  <2>1. (S \union {p}) \intersect C = T
    BY <1>5
  <2>2. AmountSum((S \union {p}) \intersect C) = AmountSum(S \intersect C)
    BY <2>1, Zenon
  <2> QED
    BY <1>3, <1>5, <2>2
<1> QED
  BY <1>3, <1>4, <1>5

\* A packet that is settled adds its transfer to what the ledger explains.
LEMMA NetOfSettled ==
    ASSUME NEW S \in SUBSET Packets, IsFiniteSet(S),
           NEW p \in Packets, p \notin S, NEW a
    PROVE  /\ NetOf(S, a) \in Int
           /\ NetOf(S \union {p}, a) =
                 NetOf(S, a) + (IF a = Receiver(p) THEN Amount(p) ELSE 0)
                             - (IF a = Sender(p) THEN Amount(p) ELSE 0)
<1> DEFINE to   == {q \in Packets : Receiver(q) = a}
           from == {q \in Packets : Sender(q) = a}
<1>1. /\ {q \in S : Receiver(q) = a} = S \intersect to
      /\ {q \in S : Sender(q) = a} = S \intersect from
      /\ {q \in S \union {p} : Receiver(q) = a} = (S \union {p}) \intersect to
      /\ {q \in S \union {p} : Sender(q) = a} = (S \union {p}) \intersect from
  OBVIOUS
<1>2. /\ NetOf(S, a) = AmountSum(S \intersect to)
                       - AmountSum(S \intersect from)
      /\ NetOf(S \union {p}, a)
         = AmountSum((S \union {p}) \intersect to)
           - AmountSum((S \union {p}) \intersect from)
  BY <1>1, Zenon DEF NetOf, AmountSum
<1>3. (p \in to <=> a = Receiver(p)) /\ (p \in from <=> a = Sender(p))
  OBVIOUS
<1> HIDE DEF to, from
<1>4. /\ AmountSum(S \intersect to) \in Int
      /\ AmountSum((S \union {p}) \intersect to)
         = AmountSum(S \intersect to)
           + (IF p \in to THEN Amount(p) ELSE 0)
  BY AmountsAdd
<1>5. /\ AmountSum(S \intersect from) \in Int
      /\ AmountSum((S \union {p}) \intersect from)
         = AmountSum(S \intersect from)
           + (IF p \in from THEN Amount(p) ELSE 0)
  BY AmountsAdd
<1>6. Amount(p) \in Int
  BY AmountType
<1> QED
  BY <1>2, <1>3, <1>4, <1>5, <1>6

\* Nothing settled explains nothing.
LEMMA NetOfNone == \A a : NetOf({}, a) = 0
<1>1. AmountSum({}) = 0
  BY AmountsTotal, TotalEmpty, FS_EmptySet
<1> SUFFICES ASSUME NEW a PROVE NetOf({}, a) = 0
  OBVIOUS
<1>2. {q \in {} : Receiver(q) = a} = {} /\ {q \in {} : Sender(q) = a} = {}
  OBVIOUS
<1> QED
  <2>1. NetOf({}, a) = AmountSum({}) - AmountSum({})
    BY <1>2, Zenon DEF NetOf, AmountSum
  <2> QED
    BY <1>1, <2>1
=============================================================================
