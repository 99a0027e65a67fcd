------------------------- MODULE EventStreamProofs -------------------------
(***************************************************************************)
(* EventStream proved for any number of events and polls, any limits, any  *)
(* clock and any number of resets: its type invariant, and that the        *)
(* dashboard meets events in the order of the log.                         *)
(*                                                                         *)
(* An event is due before another that was logged after it, unless it may  *)
(* be missed for good.  Whatever is on its way to the dashboard, over the  *)
(* stream or in an answer to a poll, lacks no event that is due before one *)
(* it holds, but for those the dashboard has: that is the invariant.  It   *)
(* needs to know what a cursor is: the stamp of an event that is seen or   *)
(* on the way, so that an event the question leaves out, being older than  *)
(* the cursor, is one of these or was overtaken.  And it needs that a read *)
(* goes through a stretch of the log, though it overlaps with appends and  *)
(* with the truncation of the list.                                        *)
(***************************************************************************)
EXTENDS EventStream, SequenceTheorems, FiniteSetTheorems,
        WellFoundedInduction, TLAPS

-----------------------------------------------------------------------------
(* Induction, maxima, and sequences.                                       *)

LEMMA LeastElement ==
    ASSUME NEW T \in SUBSET Nat, T # {}
    PROVE  \E n \in T : \A m \in T : ~ (m < n)
<1> DEFINE R == OpToRel(<, Nat)
<1>1. IsWellFoundedOn(R, Nat)
  BY NatLessThanWellFounded
<1>2. \A m, n \in Nat : m < n => <<m, n>> \in R
  BY DEF OpToRel
<1> HIDE DEF R
<1>3. PICK n \in T : \A m \in T : ~ (<<m, n>> \in R)
  BY <1>1, WFMin
<1> QED
  BY <1>2, <1>3

\* A set that has 0 and, with a number, the next has them all.
LEMMA Inductive ==
    ASSUME NEW Good, 0 \in Good, \A n \in Nat : n \in Good => n + 1 \in Good
    PROVE  Nat \subseteq Good
<1> SUFFICES ASSUME NEW bad \in Nat, bad \notin Good PROVE FALSE
  OBVIOUS
<1> DEFINE T == {n \in Nat : n \notin Good}
<1>1. PICK n \in T : \A m \in T : ~ (m < n)
  BY LeastElement
<1>2. n - 1 \in Nat /\ n - 1 < n /\ (n - 1) + 1 = n
  BY <1>1
<1>3. n - 1 \in Good
  BY <1>1, <1>2
<1> QED
  BY <1>1, <1>2, <1>3

\* A maximum of bounded natural numbers is one of them.
LEMMA MaxIsMember ==
    ASSUME NEW m \in Nat, NEW S \in SUBSET (0..m), S # {}
    PROVE  Max(S) \in S
<1> DEFINE T == {n \in Nat : \E x \in S : n = m - x}
<1>1. \A x \in S : x \in 0..m /\ m - x \in T
  OBVIOUS
<1>2. PICK n \in T : \A k \in T : ~ (k < n)
  BY <1>1, LeastElement
<1>3. PICK x \in S : n = m - x
  BY <1>2
<1>4. ASSUME NEW y \in S PROVE x >= y
  BY <1>1, <1>2, <1>3
<1> QED
  BY <1>4 DEF Max

Distinct(s) == \A i, j \in DOMAIN s : s[i] = s[j] => i = j

LEMMA ElementType ==
    ASSUME NEW E, NEW s \in Seq(E), NEW i \in DOMAIN s
    PROVE  s[i] \in E /\ s[i] \in ToSet(s) /\ i \in Nat /\ 1 <= i /\ i <= Len(s)
BY LenProperties, ElementOfSeq DEF ToSet

LEMMA InToSet ==
    ASSUME NEW s, NEW e
    PROVE  e \in ToSet(s) <=> \E i \in DOMAIN s : s[i] = e
BY DEF ToSet

LEMMA ToSetType ==
    ASSUME NEW E, NEW s \in Seq(E) PROVE ToSet(s) \subseteq E
BY ElementType, InToSet

LEMMA ToSetEmpty == ToSet(<<>>) = {}
BY DEF ToSet

LEMMA ToSetConcat ==
    ASSUME NEW E, NEW s \in Seq(E), NEW t \in Seq(E)
    PROVE  ToSet(s \o t) = ToSet(s) \union ToSet(t)
<1> DEFINE c == s \o t
<1>1. /\ c \in Seq(E)
      /\ Len(c) = Len(s) + Len(t)
      /\ \A i \in 1..Len(s) + Len(t) :
             c[i] = IF i <= Len(s) THEN s[i] ELSE t[i - Len(s)]
  BY ConcatProperties
<1>2. /\ Len(s) \in Nat /\ Len(t) \in Nat
      /\ DOMAIN s = 1..Len(s) /\ DOMAIN t = 1..Len(t) /\ DOMAIN c = 1..Len(c)
  BY <1>1, LenProperties
<1> HIDE DEF c
<1>3. ASSUME NEW e \in ToSet(c) PROVE e \in ToSet(s) \union ToSet(t)
  <2>1. PICK i \in DOMAIN c : c[i] = e
    BY <1>3, InToSet
  <2>2. CASE i <= Len(s)
    <3>1. i \in DOMAIN s /\ s[i] = e
      BY <1>1, <1>2, <2>1, <2>2
    <3> QED
      BY <3>1, InToSet
  <2>3. CASE ~ (i <= Len(s))
    <3>1. i - Len(s) \in DOMAIN t /\ t[i - Len(s)] = e
      BY <1>1, <1>2, <2>1, <2>3
    <3> QED
      BY <3>1, InToSet
  <2> QED
    BY <2>2, <2>3
<1>4. ASSUME NEW e \in ToSet(s) PROVE e \in ToSet(c)
  <2>1. PICK i \in DOMAIN s : s[i] = e
    BY <1>4, InToSet
  <2>2. i \in DOMAIN c /\ c[i] = e
    BY <1>1, <1>2, <2>1
  <2> QED
    BY <2>2, InToSet
<1>5. ASSUME NEW e \in ToSet(t) PROVE e \in ToSet(c)
  <2>1. PICK i \in DOMAIN t : t[i] = e
    BY <1>5, InToSet
  <2>2. i + Len(s) \in DOMAIN c /\ c[i + Len(s)] = e
    BY <1>1, <1>2, <2>1
  <2> QED
    BY <2>2, InToSet
<1> QED
  BY <1>3, <1>4, <1>5 DEF c

LEMMA Appended ==
    ASSUME NEW E, NEW s \in Seq(E), NEW e \in E
    PROVE  /\ <<e>> \in Seq(E) /\ ToSet(<<e>>) = {e}
           /\ Append(s, e) = s \o <<e>>
<1>1. <<e>> \in Seq(E) /\ ToSet(<<e>>) = {e}
  BY DEF ToSet
<1>2. Append(s, e) = s \o <<e>>
  BY AppendIsConcat
<1> QED
  BY <1>1, <1>2

LEMMA AppendKeeps ==
    ASSUME NEW E, NEW s \in Seq(E), NEW e \in E
    PROVE  /\ Append(s, e) \in Seq(E) /\ ToSet(Append(s, e)) = ToSet(s) \union {e}
           /\ Len(Append(s, e)) = Len(s) + 1 /\ Len(s) \in Nat
<1>1. <<e>> \in Seq(E) /\ ToSet(<<e>>) = {e}
  BY Appended
<1>2. Append(s, e) = s \o <<e>>
  BY Appended
<1>3. ToSet(s \o <<e>>) = ToSet(s) \union ToSet(<<e>>)
  BY <1>1, ToSetConcat
<1>4. ToSet(Append(s, e)) = ToSet(s) \union {e}
  BY <1>1, <1>2, <1>3, Zenon
<1>5. /\ Append(s, e) \in Seq(E)
      /\ Len(Append(s, e)) = Len(s) + 1 /\ Len(s) \in Nat
  BY AppendProperties, LenProperties
<1> QED
  BY <1>4, <1>5

\* Head and Tail, as a sequence cut after its first element.
LEMMA HeadAndTail ==
    ASSUME NEW E, NEW s \in Seq(E), s # <<>>
    PROVE  /\ Head(s) \in E /\ Tail(s) \in Seq(E)
           /\ s = <<Head(s)>> \o Tail(s)
           /\ ToSet(s) = {Head(s)} \union ToSet(Tail(s))
           /\ Len(s) \in Nat /\ Len(Tail(s)) = Len(s) - 1
<1>1. /\ Head(s) \in E /\ Tail(s) \in Seq(E) /\ Len(Tail(s)) = Len(s) - 1
      /\ \A i \in 1..Len(Tail(s)) : Tail(s)[i] = s[i + 1]
  BY HeadTailProperties
<1>2. <<Head(s)>> \in Seq(E) /\ ToSet(<<Head(s)>>) = {Head(s)}
  BY <1>1, EmptySeq, Appended
<1>3. Len(s) \in Nat /\ Len(s) >= 1 /\ Head(s) = s[1]
  <2>1. Len(s) \in Nat \ {0}
    BY EmptySeq
  <2>2. Head(s) = s[1]
    OBVIOUS
  <2> QED
    BY <2>1, <2>2
<1>4. s = <<Head(s)>> \o Tail(s)
  <2> DEFINE c == <<Head(s)>> \o Tail(s)
  <2>1. /\ c \in Seq(E) /\ Len(c) = 1 + Len(Tail(s))
        /\ \A i \in 1..1 + Len(Tail(s)) :
               c[i] = IF i <= 1 THEN <<Head(s)>>[i] ELSE Tail(s)[i - 1]
    BY <1>1, <1>2, ConcatProperties
  <2> HIDE DEF c
  <2>2. \A i \in 1..Len(s) : s[i] = c[i]
    BY <1>1, <1>3, <2>1
  <2> QED
    BY <1>1, <1>3, <2>1, <2>2, SeqEqual DEF c
<1>5. ToSet(<<Head(s)>> \o Tail(s)) = ToSet(<<Head(s)>>) \union ToSet(Tail(s))
  <2> DEFINE h == <<Head(s)>>
             t == Tail(s)
  <2>1. h \in Seq(E) /\ t \in Seq(E)
    BY <1>1, <1>2
  <2> HIDE DEF h, t
  <2>2. ToSet(h \o t) = ToSet(h) \union ToSet(t)
    BY <2>1, ToSetConcat
  <2> QED
    BY <2>2 DEF h, t
<1>6. ToSet(s) = {Head(s)} \union ToSet(Tail(s))
  BY <1>2, <1>4, <1>5, Zenon
<1> QED
  BY <1>1, <1>3, <1>4, <1>6

LEMMA DistinctConcat ==
    ASSUME NEW E, NEW s \in Seq(E), NEW t \in Seq(E), Distinct(s), Distinct(t),
           ToSet(s) \intersect ToSet(t) = {}
    PROVE  Distinct(s \o t)
<1> DEFINE c == s \o t
<1>1. /\ c \in Seq(E)
      /\ Len(c) = Len(s) + Len(t)
      /\ \A i \in 1..Len(s) + Len(t) :
             c[i] = IF i <= Len(s) THEN s[i] ELSE t[i - Len(s)]
  BY ConcatProperties
<1>2. /\ Len(s) \in Nat /\ Len(t) \in Nat
      /\ DOMAIN s = 1..Len(s) /\ DOMAIN t = 1..Len(t) /\ DOMAIN c = 1..Len(c)
  BY <1>1, LenProperties
<1> HIDE DEF c
<1>3. ASSUME NEW i \in DOMAIN c
      PROVE  \/ i \in DOMAIN s /\ c[i] = s[i] /\ c[i] \in ToSet(s)
             \/ i - Len(s) \in DOMAIN t /\ c[i] = t[i - Len(s)] /\ c[i] \in ToSet(t)
  <2>1. CASE i <= Len(s)
    BY <1>1, <1>2, <2>1, ElementType
  <2>2. CASE ~ (i <= Len(s))
    <3>1. i - Len(s) \in DOMAIN t /\ c[i] = t[i - Len(s)]
      BY <1>1, <1>2, <2>2
    <3> QED
      BY <3>1, ElementType
  <2> QED
    BY <2>1, <2>2
<1>4. ASSUME NEW i \in DOMAIN c, NEW j \in DOMAIN c, c[i] = c[j] PROVE i = j
  <2>1. CASE i \in DOMAIN s /\ j \in DOMAIN s /\ c[i] = s[i] /\ c[j] = s[j]
    BY <1>4, <2>1 DEF Distinct
  <2>2. CASE /\ i - Len(s) \in DOMAIN t /\ j - Len(s) \in DOMAIN t
             /\ c[i] = t[i - Len(s)] /\ c[j] = t[j - Len(s)]
    <3>1. i - Len(s) = j - Len(s)
      BY <1>4, <2>2 DEF Distinct
    <3>2. i \in Int /\ j \in Int
      BY <1>2
    <3> QED
      BY <1>2, <3>1, <3>2
  <2> QED
    BY <1>3, <1>4, <2>1, <2>2
<1> QED
  BY <1>4 DEF c, Distinct

\* Distinct events are no more than there are.
LEMMA DistinctIsBounded ==
    ASSUME NEW s \in Seq(Events), Distinct(s) PROVE s \in EventSeqs
<1>1. /\ Len(s) \in Nat /\ DOMAIN s = 1..Len(s)
      /\ s \in [1..Len(s) -> Events]
  BY LenProperties
<1>2. s \in Injection(1..Len(s), Events)
  BY <1>1 DEF Injection, IsInjective, Distinct
<1>3. IsFiniteSet(Events) /\ Cardinality(Events) \in Nat
  BY LogAssumption, FS_CardinalityType
<1>4. Cardinality(1..Len(s)) <= Cardinality(Events)
  BY <1>2, <1>3, FS_Injection
<1>5. Cardinality(1..Len(s)) = Len(s)
  BY <1>1, FS_Interval
<1>6. Len(s) \in 0..Cardinality(Events)
  BY <1>1, <1>3, <1>4, <1>5
<1> QED
  BY <1>1, <1>6 DEF EventSeqs

-----------------------------------------------------------------------------
(* Only and Newest.                                                        *)

\* One turn of the recursion of Only, with K for what comes before.
Kept(K, s, S, n) ==
    IF n = 0 THEN <<>>
    ELSE IF s[n] \in S THEN Append(K[n - 1], s[n]) ELSE K[n - 1]

Keeps(K, s, S, m) == K = [n \in 0..m |-> Kept(K, s, S, n)]

\* There is a function that the recursion defines.
LEMMA KeptExists ==
    ASSUME NEW s, NEW S, NEW len \in Nat
    PROVE  \E K : Keeps(K, s, S, len)
<1> DEFINE Good == {m \in Nat : \E K : K = [n \in 0..m |-> Kept(K, s, S, n)]}
<1>1. 0 \in Good
  <2> DEFINE K == [n \in 0..0 |-> <<>>]
  <2>1. \A n \in 0..0 : n = 0
    OBVIOUS
  <2>2. K = [n \in 0..0 |-> Kept(K, s, S, n)]
    BY <2>1 DEF Kept
  <2> QED
    BY <2>2
<1>2. ASSUME NEW m \in Nat, m \in Good PROVE m + 1 \in Good
  <2>1. PICK K : K = [n \in 0..m |-> Kept(K, s, S, n)]
    BY <1>2
  <2> DEFINE H == [n \in 0..m + 1 |-> Kept(K, s, S, n)]
  <2>2. ASSUME NEW n \in 0..m PROVE H[n] = K[n]
    <3>1. n \in 0..m + 1
      BY <1>2
    <3>2. H[n] = Kept(K, s, S, n)
      BY <3>1
    <3>3. K[n] = Kept(K, s, S, n)
      BY <2>1
    <3> QED
      BY <3>2, <3>3
  <2>3. ASSUME NEW n \in 0..m + 1 PROVE Kept(K, s, S, n) = Kept(H, s, S, n)
    <3>1. CASE n = 0
      BY <3>1 DEF Kept
    <3>2. CASE n # 0
      <4>1. n - 1 \in 0..m
        BY <1>2, <3>2
      <4>2. H[n - 1] = K[n - 1]
        BY <2>2, <4>1
      <4> HIDE DEF H
      <4> QED
        BY <4>2 DEF Kept
    <3> QED
      BY <3>1, <3>2
  <2>4. H = [n \in 0..m + 1 |-> Kept(H, s, S, n)]
    BY <2>3
  <2> HIDE DEF H
  <2>5. \E G : G = [n \in 0..m + 1 |-> Kept(G, s, S, n)]
    BY <2>4
  <2>6. m + 1 \in Nat
    BY <1>2
  <2> QED
    BY <2>5, <2>6
<1>3. Nat \subseteq Good
  <2> HIDE DEF Good
  <2> QED
    BY <1>1, <1>2, Inductive
<1> QED
  BY <1>3 DEF Keeps

\* r holds what s holds of S among its first n, in its order: g says from
\* where, and leaves out nothing.
Picks(g, r, s, S, n) ==
    /\ g \in [1..Len(r) -> 1..n]
    /\ \A i \in 1..Len(r) : r[i] = s[g[i]] /\ s[g[i]] \in S
    /\ \A i, j \in 1..Len(r) : i <= j => j - i <= g[j] - g[i]
    /\ \A p \in 1..n : s[p] \in S => \E i \in 1..Len(r) : g[i] = p

LEMMA PickNone ==
    ASSUME NEW g, NEW s, NEW S, g = [i \in {} |-> 0]
    PROVE  Picks(g, <<>>, s, S, 0)
<1>1. Len(<<>>) = 0 /\ 1..0 = {}
  OBVIOUS
<1> QED
  BY <1>1, Zenon DEF Picks

LEMMA PickMore ==
    ASSUME NEW E, NEW s \in Seq(E), NEW S, NEW n \in Nat, n + 1 \in 1..Len(s),
           NEW r \in Seq(E), NEW g, Picks(g, r, s, S, n), s[n + 1] \in S
    PROVE  \E h : Picks(h, Append(r, s[n + 1]), s, S, n + 1)
<1> DEFINE q == Append(r, s[n + 1])
           l == Len(r)
           h == [i \in 1..l + 1 |-> IF i <= l THEN g[i] ELSE n + 1]
<1>1. /\ g \in [1..l -> 1..n]
      /\ \A i \in 1..l : r[i] = s[g[i]] /\ s[g[i]] \in S
      /\ \A i, j \in 1..l : i <= j => j - i <= g[j] - g[i]
      /\ \A p \in 1..n : s[p] \in S => \E i \in 1..l : g[i] = p
  BY DEF Picks
<1>2. /\ s[n + 1] \in E
      /\ l \in Nat /\ Len(q) = l + 1
      /\ \A i \in 1..l : q[i] = r[i]
      /\ q[l + 1] = s[n + 1]
  BY LenProperties, ElementOfSeq, AppendProperties
<1> HIDE DEF q, l
<1>3. /\ h \in [1..l + 1 -> 1..n + 1]
      /\ \A i \in 1..l : h[i] = g[i] /\ h[i] \in 1..n
      /\ h[l + 1] = n + 1
  BY <1>1, <1>2
<1> HIDE DEF h
<1>4. ASSUME NEW i \in 1..l + 1 PROVE i \in 1..l \/ i = l + 1
  BY <1>2
<1>5. ASSUME NEW i \in 1..l + 1 PROVE q[i] = s[h[i]] /\ s[h[i]] \in S
  BY <1>1, <1>2, <1>3, <1>4
<1>6. ASSUME NEW i \in 1..l + 1, NEW j \in 1..l + 1, i <= j
      PROVE  j - i <= h[j] - h[i]
  <2>1. CASE j \in 1..l
    <3>1. i \in 1..l
      BY <1>2, <1>6, <2>1
    <3> QED
      BY <1>1, <1>3, <1>6, <2>1, <3>1
  <2>2. CASE j = l + 1 /\ i \in 1..l
    <3>1. l \in 1..l /\ i <= l
      BY <1>2, <2>2
    <3>2. l - i <= g[l] - g[i]
      BY <1>1, <2>2, <3>1
    <3>3. g[l] \in 1..n /\ g[i] \in 1..n
      BY <1>1, <2>2, <3>1
    <3>4. h[j] = n + 1 /\ h[i] = g[i]
      BY <1>3, <2>2
    <3> QED
      BY <1>2, <2>2, <3>2, <3>3, <3>4
  <2>3. CASE j = l + 1 /\ i = l + 1
    BY <1>2, <1>3, <2>3
  <2> QED
    BY <1>4, <2>1, <2>2, <2>3
<1>7. ASSUME NEW p \in 1..n + 1, s[p] \in S
      PROVE  \E i \in 1..l + 1 : h[i] = p
  <2>1. CASE p = n + 1
    BY <1>2, <1>3, <2>1
  <2>2. CASE p # n + 1
    <3>1. p \in 1..n
      BY <2>2
    <3>2. PICK i \in 1..l : g[i] = p
      BY <1>1, <1>7, <3>1
    <3>3. i \in 1..l + 1 /\ h[i] = p
      BY <1>2, <1>3, <3>2
    <3> QED
      BY <3>3
  <2> QED
    BY <2>1, <2>2
<1>8. Picks(h, q, s, S, n + 1)
  BY <1>2, <1>3, <1>5, <1>6, <1>7 DEF Picks
<1> QED
  BY <1>8 DEF q

LEMMA PickSame ==
    ASSUME NEW s, NEW S, NEW n \in Nat, NEW r, NEW g, Picks(g, r, s, S, n),
           s[n + 1] \notin S
    PROVE  Picks(g, r, s, S, n + 1)
<1>1. /\ g \in [1..Len(r) -> 1..n]
      /\ \A p \in 1..n : s[p] \in S => \E i \in 1..Len(r) : g[i] = p
  BY DEF Picks
<1>2. \A p \in 1..n + 1 : p \in 1..n \/ p = n + 1
  OBVIOUS
<1>3. 1..n \subseteq 1..n + 1
  OBVIOUS
<1>4. g \in [1..Len(r) -> 1..n + 1]
  BY <1>1, <1>3
<1>5. \A p \in 1..n + 1 : s[p] \in S => \E i \in 1..Len(r) : g[i] = p
  BY <1>1, <1>2
<1> QED
  BY <1>4, <1>5 DEF Picks

\* Only keeps the elements that are in the set, and their order.
LEMMA OnlyPicks ==
    ASSUME NEW E, NEW s \in Seq(E), NEW S
    PROVE  /\ Only(s, S) \in Seq(E)
           /\ \E g : Picks(g, Only(s, S), s, S, Len(s))
<1>1. Len(s) \in Nat
  BY LenProperties
<1> DEFINE K == CHOOSE K : K = [n \in 0..Len(s) |->
                    IF n = 0 THEN <<>>
                    ELSE IF s[n] \in S THEN Append(K[n - 1], s[n]) ELSE K[n - 1]]
<1>2. Only(s, S) = K[Len(s)]
  BY DEF Only
<1>3. K = [n \in 0..Len(s) |-> Kept(K, s, S, n)]
  <2>1. \E k : Keeps(k, s, S, Len(s))
    BY <1>1, KeptExists
  <2>2. Keeps(CHOOSE k : Keeps(k, s, S, Len(s)), s, S, Len(s))
    BY <2>1, Zenon
  <2>3. K = CHOOSE k : Keeps(k, s, S, Len(s))
    BY Zenon DEF Keeps, Kept
  <2> HIDE DEF K
  <2> QED
    BY <2>2, <2>3, Zenon DEF Keeps
<1> HIDE DEF K
<1>4. /\ K[0] = <<>>
      /\ \A n \in Nat : n + 1 <= Len(s) =>
             K[n + 1] = IF s[n + 1] \in S THEN Append(K[n], s[n + 1]) ELSE K[n]
  <2>1. K[0] = Kept(K, s, S, 0)
    BY <1>1, <1>3
  <2>2. ASSUME NEW n \in Nat, n + 1 <= Len(s)
        PROVE  K[n + 1] = Kept(K, s, S, n + 1)
    <3>1. n + 1 \in 0..Len(s)
      BY <1>1, <2>2
    <3> QED
      BY <1>3, <3>1
  <2>3. ASSUME NEW n \in Nat
        PROVE  Kept(K, s, S, n + 1)
               = IF s[n + 1] \in S THEN Append(K[n], s[n + 1]) ELSE K[n]
    <3>1. n + 1 # 0 /\ (n + 1) - 1 = n
      OBVIOUS
    <3> QED
      BY <3>1 DEF Kept
  <2> QED
    BY <2>1, <2>2, <2>3 DEF Kept
<1> DEFINE Good == {n \in Nat : n <= Len(s) =>
                        K[n] \in Seq(E) /\ \E g : Picks(g, K[n], s, S, n)}
<1>5. 0 \in Good
  <2>1. Picks([i \in {} |-> 0], <<>>, s, S, 0)
    BY PickNone
  <2> QED
    BY <1>4, <2>1, EmptySeq
<1>6. ASSUME NEW n \in Nat, n \in Good PROVE n + 1 \in Good
  <2> SUFFICES ASSUME n + 1 <= Len(s)
               PROVE  K[n + 1] \in Seq(E) /\ \E g : Picks(g, K[n + 1], s, S, n + 1)
    OBVIOUS
  <2>1. n <= Len(s) /\ n + 1 \in 1..Len(s)
    BY <1>1
  <2>2. K[n] \in Seq(E)
    BY <1>6, <2>1
  <2>3. PICK g : Picks(g, K[n], s, S, n)
    BY <1>6, <2>1
  <2>4. CASE s[n + 1] \in S
    <3>1. K[n + 1] = Append(K[n], s[n + 1])
      BY <1>4, <2>4
    <3>2. s[n + 1] \in E
      BY <2>1, ElementOfSeq
    <3>3. Append(K[n], s[n + 1]) \in Seq(E)
      BY <2>2, <3>2, AppendProperties
    <3>4. \E h : Picks(h, Append(K[n], s[n + 1]), s, S, n + 1)
      BY <2>1, <2>2, <2>3, <2>4, PickMore
    <3> QED
      BY <3>1, <3>3, <3>4
  <2>5. CASE s[n + 1] \notin S
    <3>1. K[n + 1] = K[n]
      BY <1>4, <2>5
    <3>2. Picks(g, K[n], s, S, n + 1)
      BY <2>3, <2>5, PickSame
    <3> QED
      BY <2>2, <3>1, <3>2
  <2> QED
    BY <2>4, <2>5
<1>7. Len(s) \in Good
  <2> HIDE DEF Good
  <2> QED
    BY <1>1, <1>5, <1>6, Inductive
<1> QED
  BY <1>1, <1>2, <1>7

\* The newest elements are the last.
LEMMA NewestIsTail ==
    ASSUME NEW E, NEW s \in Seq(E), NEW n \in Nat \ {0}
    PROVE  \E d \in Nat :
               /\ Newest(s, n) \in Seq(E)
               /\ Len(Newest(s, n)) + d = Len(s)
               /\ Len(Newest(s, n)) <= n
               /\ d = 0 \/ Len(Newest(s, n)) = n
               /\ \A k \in 1..Len(Newest(s, n)) : Newest(s, n)[k] = s[k + d]
<1> DEFINE d == IF Len(s) > n THEN Len(s) - n ELSE 0
           r == SubSeq(s, d + 1, Len(s))
<1>1. Len(s) \in Nat
  BY LenProperties
<1>2. d \in Nat /\ d <= Len(s) /\ (d = 0 \/ Len(s) - d = n) /\ Len(s) - d <= n
  BY <1>1
<1>3. Newest(s, n) = r
  BY <1>1 DEF Newest
<1> HIDE DEF d
<1>4. \A i \in (d + 1)..Len(s) : i \in 1..Len(s) /\ s[i] \in E
  BY <1>1, <1>2, ElementOfSeq
<1>5. /\ r \in Seq(E)
      /\ Len(r) = IF d + 1 <= Len(s) THEN Len(s) - (d + 1) + 1 ELSE 0
      /\ \A i \in 1..Len(s) - (d + 1) + 1 : r[i] = s[d + 1 + i - 1]
  BY <1>1, <1>2, <1>4, SubSeqProperties
<1> HIDE DEF r
<1>6. Len(r) + d = Len(s) /\ Len(r) <= n /\ (d = 0 \/ Len(r) = n)
  BY <1>1, <1>2, <1>5
<1>7. ASSUME NEW k \in 1..Len(r) PROVE r[k] = s[k + d]
  <2>1. k \in 1..Len(s) - (d + 1) + 1 /\ d + 1 + k - 1 = k + d
    BY <1>1, <1>2, <1>6
  <2> QED
    BY <1>5, <2>1
<1> QED
  BY <1>2, <1>3, <1>5, <1>6, <1>7

\* What Only keeps, without g.
LEMMA OnlyKeeps ==
    ASSUME NEW E, NEW s \in Seq(E), NEW S
    PROVE  /\ Only(s, S) \in Seq(E)
           /\ ToSet(Only(s, S)) = ToSet(s) \intersect S
           /\ Distinct(s) => Distinct(Only(s, S))
<1> DEFINE r == Only(s, S)
<1>1. r \in Seq(E)
  BY OnlyPicks
<1>2. PICK g : Picks(g, r, s, S, Len(s))
  BY OnlyPicks
<1> HIDE DEF r
<1>3. /\ Len(r) \in Nat /\ DOMAIN r = 1..Len(r)
      /\ Len(s) \in Nat /\ DOMAIN s = 1..Len(s)
  BY <1>1, LenProperties
<1>4. /\ g \in [1..Len(r) -> 1..Len(s)]
      /\ \A i \in 1..Len(r) : r[i] = s[g[i]] /\ s[g[i]] \in S
      /\ \A i, j \in 1..Len(r) : i <= j => j - i <= g[j] - g[i]
      /\ \A p \in 1..Len(s) : s[p] \in S => \E i \in 1..Len(r) : g[i] = p
  BY <1>2 DEF Picks
<1>5. ASSUME NEW e \in ToSet(r) PROVE e \in ToSet(s) \intersect S
  <2>1. PICK i \in DOMAIN r : r[i] = e
    BY <1>5, InToSet
  <2>2. g[i] \in DOMAIN s /\ s[g[i]] = e /\ e \in S
    BY <1>3, <1>4, <2>1
  <2> QED
    BY <2>2, InToSet
<1>6. ASSUME NEW e \in ToSet(s), e \in S PROVE e \in ToSet(r)
  <2>1. PICK p \in DOMAIN s : s[p] = e
    BY <1>6, InToSet
  <2>2. PICK i \in 1..Len(r) : g[i] = p
    BY <1>3, <1>4, <1>6, <2>1
  <2>3. i \in DOMAIN r /\ r[i] = e
    BY <1>3, <1>4, <2>1, <2>2
  <2> QED
    BY <2>3, InToSet
<1>7. ASSUME Distinct(s) PROVE Distinct(r)
  <2> SUFFICES ASSUME NEW i \in DOMAIN r, NEW j \in DOMAIN r, r[i] = r[j]
               PROVE  i = j
    BY DEF Distinct
  <2>1. g[i] \in DOMAIN s /\ g[j] \in DOMAIN s /\ s[g[i]] = s[g[j]]
    BY <1>3, <1>4
  <2>2. g[i] = g[j] /\ g[i] \in Nat /\ g[j] \in Nat
    BY <1>3, <1>7, <2>1 DEF Distinct
  <2>3. (i <= j => j - i <= g[j] - g[i]) /\ (j <= i => i - j <= g[i] - g[j])
    BY <1>3, <1>4
  <2>4. i \in Nat /\ j \in Nat
    BY <1>3
  <2> QED
    BY <2>2, <2>3, <2>4
<1> QED
  BY <1>1, <1>5, <1>6, <1>7 DEF r

-----------------------------------------------------------------------------
(* Sequences that lack nothing.  D is a relation between events: which is  *)
(* due before which.                                                       *)

\* s has each event that is due before one of it, and earlier, but for those
\* that are there before.
Complete(D, s, before) ==
    \A i \in DOMAIN s : \A e \in Events :
        <<e, s[i]>> \in D => e \in before \/ \E k \in DOMAIN s : k < i /\ s[k] = e

LEMMA CompleteStays ==
    ASSUME NEW s \in Seq(Events), NEW D, NEW D2, NEW before, NEW before2,
           Complete(D, s, before), before \subseteq before2,
           \A e \in Events : \A f \in ToSet(s) : <<e, f>> \in D2 => <<e, f>> \in D
    PROVE  Complete(D2, s, before2)
<1>1. \A i \in DOMAIN s : s[i] \in ToSet(s)
  BY InToSet
<1> QED
  BY <1>1 DEF Complete

LEMMA CompleteEmpty ==
    ASSUME NEW D, NEW before PROVE Complete(D, <<>>, before)
BY DEF Complete

LEMMA CompleteIsClosed ==
    ASSUME NEW s \in Seq(Events), NEW D, NEW before, Complete(D, s, before),
           NEW e \in Events, NEW f \in ToSet(s), <<e, f>> \in D
    PROVE  e \in before \union ToSet(s)
<1>1. PICK i \in DOMAIN s : s[i] = f
  BY InToSet
<1>2. e \in before \/ \E k \in DOMAIN s : k < i /\ s[k] = e
  BY <1>1 DEF Complete
<1> QED
  BY <1>2, InToSet

LEMMA CompleteJoin ==
    ASSUME NEW s \in Seq(Events), NEW t \in Seq(Events), NEW D, NEW before,
           Complete(D, s, before), Complete(D, t, before \union ToSet(s))
    PROVE  Complete(D, s \o t, before)
<1> DEFINE c == s \o t
<1>1. /\ c \in Seq(Events)
      /\ Len(c) = Len(s) + Len(t)
      /\ \A i \in 1..Len(s) + Len(t) :
             c[i] = IF i <= Len(s) THEN s[i] ELSE t[i - Len(s)]
  BY ConcatProperties
<1>2. /\ Len(s) \in Nat /\ Len(t) \in Nat
      /\ DOMAIN s = 1..Len(s) /\ DOMAIN t = 1..Len(t) /\ DOMAIN c = 1..Len(c)
  BY <1>1, LenProperties
<1> HIDE DEF c
<1>3. \A k \in DOMAIN s : k \in DOMAIN c /\ c[k] = s[k] /\ k <= Len(s)
  BY <1>1, <1>2
<1>4. \A k \in DOMAIN t : /\ k + Len(s) \in DOMAIN c
                          /\ c[k + Len(s)] = t[k]
  BY <1>1, <1>2
<1> SUFFICES ASSUME NEW i \in DOMAIN c, NEW e \in Events, <<e, c[i]>> \in D,
                    e \notin before
             PROVE  \E k \in DOMAIN c : k < i /\ c[k] = e
  BY DEF c, Complete
<1>5. CASE i <= Len(s)
  <2>1. i \in DOMAIN s /\ c[i] = s[i]
    BY <1>1, <1>2, <1>5
  <2>2. PICK k \in DOMAIN s : k < i /\ s[k] = e
    BY <2>1 DEF Complete
  <2> QED
    BY <1>3, <2>2
<1>6. CASE ~ (i <= Len(s))
  <2> DEFINE j == i - Len(s)
  <2>1. j \in DOMAIN t /\ c[i] = t[j] /\ i \in Nat
    BY <1>1, <1>2, <1>6
  <2>2. e \in ToSet(s) \/ \E k \in DOMAIN t : k < j /\ t[k] = e
    BY <2>1 DEF Complete
  <2>3. CASE e \in ToSet(s)
    <3>1. PICK k \in DOMAIN s : s[k] = e
      BY <2>3, InToSet
    <3>2. k < i
      BY <1>2, <1>6, <2>1, <3>1
    <3> QED
      BY <1>3, <3>1, <3>2
  <2>4. CASE \E k \in DOMAIN t : k < j /\ t[k] = e
    <3>1. PICK k \in DOMAIN t : k < j /\ t[k] = e
      BY <2>4
    <3>2. k + Len(s) \in DOMAIN c /\ c[k + Len(s)] = e
      BY <1>4, <3>1
    <3>3. k + Len(s) < i
      BY <1>2, <2>1, <3>1
    <3> QED
      BY <3>2, <3>3
  <2> QED
    BY <2>2, <2>3, <2>4
<1> QED
  BY <1>5, <1>6

LEMMA CompleteSplit ==
    ASSUME NEW s \in Seq(Events), NEW t \in Seq(Events), NEW D, NEW before,
           Complete(D, s \o t, before)
    PROVE  /\ Complete(D, s, before)
           /\ Complete(D, t, before \union ToSet(s))
<1> DEFINE c == s \o t
<1>1. /\ c \in Seq(Events)
      /\ Len(c) = Len(s) + Len(t)
      /\ \A i \in 1..Len(s) + Len(t) :
             c[i] = IF i <= Len(s) THEN s[i] ELSE t[i - Len(s)]
  BY ConcatProperties
<1>2. /\ Len(s) \in Nat /\ Len(t) \in Nat
      /\ DOMAIN s = 1..Len(s) /\ DOMAIN t = 1..Len(t) /\ DOMAIN c = 1..Len(c)
  BY <1>1, LenProperties
<1>3. \A i \in DOMAIN c : \A e \in Events :
          <<e, c[i]>> \in D =>
              e \in before \/ \E k \in DOMAIN c : k < i /\ c[k] = e
  BY DEF Complete
<1> HIDE DEF c
<1>4. \A k \in DOMAIN s : k \in DOMAIN c /\ c[k] = s[k]
  BY <1>1, <1>2
<1>5. \A k \in DOMAIN t : /\ k + Len(s) \in DOMAIN c
                          /\ c[k + Len(s)] = t[k]
  BY <1>1, <1>2
<1>6. ASSUME NEW i \in DOMAIN s, NEW e \in Events, <<e, s[i]>> \in D,
             e \notin before
      PROVE  \E k \in DOMAIN s : k < i /\ s[k] = e
  <2>1. PICK k \in DOMAIN c : k < i /\ c[k] = e
    BY <1>3, <1>4, <1>6
  <2>2. k \in DOMAIN s
    BY <1>1, <1>2, <1>6, <2>1
  <2> QED
    BY <1>4, <2>1, <2>2
<1>7. ASSUME NEW i \in DOMAIN t, NEW e \in Events, <<e, t[i]>> \in D,
             e \notin before, e \notin ToSet(s)
      PROVE  \E k \in DOMAIN t : k < i /\ t[k] = e
  <2>1. PICK k \in DOMAIN c : k < i + Len(s) /\ c[k] = e
    BY <1>3, <1>5, <1>7
  <2>2. ~ (k <= Len(s))
    <3>1. ASSUME k <= Len(s) PROVE FALSE
      <4>1. k \in DOMAIN s
        BY <1>1, <1>2, <2>1, <3>1
      <4> QED
        BY <1>4, <1>7, <2>1, <4>1, InToSet
    <3> QED
      BY <3>1
  <2>3. k - Len(s) \in DOMAIN t /\ k - Len(s) < i /\ t[k - Len(s)] = e
    BY <1>1, <1>2, <1>7, <2>1, <2>2
  <2> QED
    BY <2>3
<1> QED
  BY <1>6, <1>7 DEF Complete

LEMMA CompleteOnly ==
    ASSUME NEW s \in Seq(Events), NEW D, NEW before, Complete(D, s, before)
    PROVE  Complete(D, Only(s, Events \ before), before)
<1> DEFINE S == Events \ before
           r == Only(s, S)
<1>1. r \in Seq(Events)
  BY OnlyPicks
<1>2. PICK g : Picks(g, r, s, S, Len(s))
  BY OnlyPicks
<1> HIDE DEF r
<1>3. /\ Len(r) \in Nat /\ DOMAIN r = 1..Len(r)
      /\ Len(s) \in Nat /\ DOMAIN s = 1..Len(s)
  BY <1>1, LenProperties
<1>4. /\ g \in [1..Len(r) -> 1..Len(s)]
      /\ \A i \in 1..Len(r) : r[i] = s[g[i]]
      /\ \A i, j \in 1..Len(r) : i <= j => j - i <= g[j] - g[i]
      /\ \A p \in 1..Len(s) : s[p] \in S => \E i \in 1..Len(r) : g[i] = p
  BY <1>2 DEF Picks
<1> SUFFICES ASSUME NEW j \in DOMAIN r, NEW e \in Events, <<e, r[j]>> \in D,
                    e \notin before
             PROVE  \E k \in DOMAIN r : k < j /\ r[k] = e
  BY DEF Complete, r
<1>5. g[j] \in DOMAIN s /\ r[j] = s[g[j]]
  BY <1>3, <1>4
<1>6. PICK p \in DOMAIN s : p < g[j] /\ s[p] = e
  BY <1>5 DEF Complete
<1>7. PICK k \in DOMAIN r : g[k] = p
  BY <1>3, <1>4, <1>6
<1>8. r[k] = e
  BY <1>3, <1>4, <1>6, <1>7
<1>9. k < j
  <2>1. j <= k => k - j <= g[k] - g[j]
    BY <1>3, <1>4
  <2>2. g[k] \in Nat /\ g[j] \in Nat /\ k \in Nat /\ j \in Nat
    BY <1>3, <1>5, <1>6, <1>7
  <2> QED
    BY <1>6, <1>7, <2>1, <2>2
<1> QED
  BY <1>8, <1>9

LEMMA NewestKeeps ==
    ASSUME NEW E, NEW s \in Seq(E), NEW n \in Nat \ {0}
    PROVE  /\ Newest(s, n) \in Seq(E) /\ Len(Newest(s, n)) <= n
           /\ ToSet(Newest(s, n)) \subseteq ToSet(s)
           /\ Distinct(s) => Distinct(Newest(s, n))
<1> DEFINE r == Newest(s, n)
<1>1. PICK d \in Nat : /\ r \in Seq(E)
                       /\ Len(r) + d = Len(s)
                       /\ Len(r) <= n
                       /\ \A k \in 1..Len(r) : r[k] = s[k + d]
  BY NewestIsTail
<1> HIDE DEF r
<1>2. /\ Len(r) \in Nat /\ DOMAIN r = 1..Len(r)
      /\ Len(s) \in Nat /\ DOMAIN s = 1..Len(s)
  BY <1>1, LenProperties
<1>3. \A k \in DOMAIN r : k + d \in DOMAIN s /\ r[k] = s[k + d] /\ k \in Nat
  BY <1>1, <1>2
<1>4. ToSet(r) \subseteq ToSet(s)
  BY <1>3, InToSet
<1>5. ASSUME Distinct(s), NEW i \in DOMAIN r, NEW j \in DOMAIN r, r[i] = r[j]
      PROVE  i = j
  <2>1. i + d = j + d
    BY <1>3, <1>5 DEF Distinct
  <2> QED
    BY <1>1, <1>3, <2>1
<1> QED
  BY <1>1, <1>4, <1>5 DEF r, Distinct

\* A stretch of a sequence.
LEMMA SubSeqKeeps ==
    ASSUME NEW E, NEW s \in Seq(E), NEW n \in Nat, NEW m \in Nat, m <= Len(s)
    PROVE  /\ SubSeq(s, n + 1, m) \in Seq(E)
           /\ ToSet(SubSeq(s, n + 1, m)) \subseteq ToSet(s)
           /\ Distinct(s) => Distinct(SubSeq(s, n + 1, m))
<1> DEFINE r == SubSeq(s, n + 1, m)
<1>1. Len(s) \in Nat /\ DOMAIN s = 1..Len(s)
  BY LenProperties
<1>2. \A i \in (n + 1)..m : s[i] \in E
  BY <1>1, ElementOfSeq
<1>3. /\ r \in Seq(E)
      /\ Len(r) = IF n + 1 <= m THEN m - (n + 1) + 1 ELSE 0
      /\ \A i \in 1..m - (n + 1) + 1 : r[i] = s[n + 1 + i - 1]
  BY <1>2, SubSeqProperties
<1>4. DOMAIN r = 1..Len(r)
  BY <1>3, LenProperties
<1> HIDE DEF r
<1>5. \A k \in DOMAIN r : k + n \in DOMAIN s /\ r[k] = s[k + n] /\ k \in Nat
  <2> SUFFICES ASSUME NEW k \in DOMAIN r
               PROVE  k + n \in DOMAIN s /\ r[k] = s[k + n] /\ k \in Nat
    OBVIOUS
  <2>1. k \in 1..m - (n + 1) + 1 /\ n + 1 + k - 1 = k + n
    BY <1>3, <1>4
  <2> QED
    BY <1>1, <1>3, <2>1
<1>6. ToSet(r) \subseteq ToSet(s)
  BY <1>5, InToSet
<1>7. ASSUME Distinct(s), NEW i \in DOMAIN r, NEW j \in DOMAIN r, r[i] = r[j]
      PROVE  i = j
  <2>1. i + n = j + n
    BY <1>5, <1>7 DEF Distinct
  <2> QED
    BY <1>5, <2>1
<1> QED
  BY <1>3, <1>6, <1>7 DEF r, Distinct

\* What a read has behind it, and a stretch of a list that has none of it.
LEMMA Lengthened ==
    ASSUME NEW E, NEW s \in Seq(E), NEW l \in Seq(E), Distinct(s), Distinct(l),
           ToSet(s) \intersect ToSet(l) = {},
           NEW n \in Nat, NEW m \in Nat, m <= Len(l)
    PROVE  /\ s \o SubSeq(l, n + 1, m) \in Seq(E)
           /\ Distinct(s \o SubSeq(l, n + 1, m))
           /\ ToSet(s \o SubSeq(l, n + 1, m)) \subseteq ToSet(s) \union ToSet(l)
<1> DEFINE t == SubSeq(l, n + 1, m)
<1>1. t \in Seq(E) /\ ToSet(t) \subseteq ToSet(l) /\ Distinct(t)
  BY SubSeqKeeps
<1> HIDE DEF t
<1>2. ToSet(s) \intersect ToSet(t) = {}
  BY <1>1
<1>3. s \o t \in Seq(E) /\ Distinct(s \o t) /\ ToSet(s \o t) = ToSet(s) \union ToSet(t)
  BY <1>1, <1>2, ConcatProperties, DistinctConcat, ToSetConcat
<1> QED
  BY <1>1, <1>3 DEF t

-----------------------------------------------------------------------------
(* The types, and that no event is anywhere twice or before it was logged. *)

Logged == ToSet(appended)

Listed(s) == s \in Seq(Events) /\ Distinct(s) /\ ToSet(s) \subseteq Logged

Values ==
    /\ now \in Times
    /\ stamp \in [Events -> Times \union {Unstamped}]
    /\ cursor \in Times
    /\ mode \in {"sse", "polling"}
    /\ latest \in Times
    /\ resets \in 0..MaxResets
    /\ polls \in [Polls -> [stage : {"none", "asked", "answered"},
                            since : Times, events : Seq(Events)]]
    /\ skipped \subseteq Events
    /\ reads \in [Readers -> [stage : {"none", "live", "replaced"},
                              seen : Seq(Events), next : 0..MaxEvents]]

Lists ==
    /\ appended \in Seq(Events) /\ Distinct(appended)
    /\ \A e \in Logged : stamp[e] # Unstamped
    /\ Listed(log) /\ Len(log) <= MaxEvents
    /\ Listed(batch) /\ Len(batch) <= Limit
    /\ wire \in Seq(Events) /\ Len(wire) <= Window /\ ToSet(wire) \subseteq Logged
    /\ Listed(sighted)
    /\ \A q \in Polls : Listed(polls[q].events)
    /\ mode = "polling" => wire = <<>> /\ batch = <<>>

\* What a read has behind it is listed, and is not in the list before it.
ReadListed(r) ==
    /\ Listed(reads[r].seen)
    /\ reads[r].stage = "live" => ToSet(reads[r].seen) \intersect ToSet(log) = {}

ReadsListed == \A r \in Readers : ReadListed(r)

\* The generator reads when it has nothing to yield.
Idle == reads[Generator].stage # "none" => mode = "sse" /\ batch = <<>>

TypeInv == Values /\ Lists /\ ReadsListed /\ Idle

LEMMA TypeInvImpliesTypeOK == TypeInv => TypeOK
<1> SUFFICES ASSUME TypeInv PROVE TypeOK
  OBVIOUS
<1>1. /\ log \in EventSeqs /\ batch \in EventSeqs /\ appended \in EventSeqs
      /\ sighted \in EventSeqs
  BY DistinctIsBounded DEF TypeInv, Lists, Listed
<1>2. ToSet(wire) \subseteq Events
  BY ToSetType DEF TypeInv, Lists
<1>3. polls \in [Polls -> [stage : {"none", "asked", "answered"},
                           since : Times, events : EventSeqs]]
  <2>1. ASSUME NEW q \in Polls
        PROVE  polls[q] \in [stage : {"none", "asked", "answered"},
                             since : Times, events : EventSeqs]
    <3>1. polls[q] \in [stage : {"none", "asked", "answered"},
                        since : Times, events : Seq(Events)]
      BY DEF TypeInv, Values
    <3>2. polls[q].events \in EventSeqs
      BY DistinctIsBounded DEF TypeInv, Lists, Listed
    <3> QED
      BY <3>1, <3>2
  <2> QED
    BY <2>1 DEF TypeInv, Values
<1>4. reads \in [Readers -> [stage : {"none", "live", "replaced"},
                            seen : EventSeqs, next : 0..MaxEvents]]
  <2>1. ASSUME NEW r \in Readers
        PROVE  reads[r] \in [stage : {"none", "live", "replaced"},
                             seen : EventSeqs, next : 0..MaxEvents]
    <3>1. reads[r] \in [stage : {"none", "live", "replaced"},
                        seen : Seq(Events), next : 0..MaxEvents]
      BY DEF TypeInv, Values
    <3>2. reads[r].seen \in EventSeqs
      BY DistinctIsBounded DEF TypeInv, ReadsListed, ReadListed, Listed
    <3> QED
      BY <3>1, <3>2
  <2> QED
    BY <2>1 DEF TypeInv, Values
<1> QED
  BY <1>1, <1>2, <1>3, <1>4 DEF TypeInv, Values, Lists, TypeOK

LEMMA ListedEmpty == Listed(<<>>)
<1>1. <<>> \in Seq(Events) /\ Distinct(<<>>)
  BY EmptySeq DEF Distinct
<1> QED
  BY <1>1, ToSetEmpty DEF Listed

LEMMA EventsFacts ==
    /\ 0 \in Times /\ Unstamped \notin Times
    /\ \A t \in Times : t \in Nat /\ t <= MaxTime
    /\ MaxTime \in Nat /\ Limit \in Nat \ {0} /\ MaxEvents \in Nat \ {0}
    /\ Limit <= MaxEvents /\ Window \in Nat \ {0} /\ MaxResets \in Nat
    /\ 0 \in 0..MaxResets
    /\ Generator \in Readers /\ \A q \in Polls : q \in Readers /\ q # Generator
BY LogAssumption DEF Times, Unstamped, Readers, Generator

LEMMA ReadTypes ==
    /\ NoRead \in [stage : {"none", "live", "replaced"},
                    seen : Seq(Events), next : 0..MaxEvents]
    /\ BeginRead \in [stage : {"none", "live", "replaced"},
                       seen : Seq(Events), next : 0..MaxEvents]
    /\ NoRead.seen = <<>> /\ BeginRead.seen = <<>> /\ NoRead.stage = "none"
    /\ BeginRead.stage = "live" /\ BeginRead.next = 0
BY EventsFacts, EmptySeq DEF NoRead, BeginRead

LEMMA InitTypeInv == Init => TypeInv
<1> SUFFICES ASSUME Init PROVE TypeInv
  OBVIOUS
<1>1. Values
  <2>1. NoPoll \in [stage : {"none", "asked", "answered"},
                    since : Times, events : Seq(Events)]
    BY EventsFacts, EmptySeq DEF NoPoll
  <2> QED
    BY <2>1, EventsFacts, ReadTypes DEF Init, Values
<1>2. Lists
  <2>1. <<>> \in Seq(Events) /\ Distinct(<<>>) /\ Len(<<>>) = 0
    BY EmptySeq DEF Distinct
  <2>2. \A q \in Polls : polls[q].events = <<>>
    BY DEF Init, NoPoll
  <2>3. Logged = {}
    BY ToSetEmpty DEF Init, Logged
  <2> QED
    BY <2>1, <2>2, <2>3, ListedEmpty, ToSetEmpty, EventsFacts DEF Init, Lists
<1>3. ReadsListed /\ Idle
  <2>1. \A r \in Readers : reads[r] = NoRead
    BY DEF Init
  <2> QED
    BY <2>1, ReadTypes, ListedEmpty, EventsFacts DEF ReadsListed, ReadListed, Idle
<1> QED
  BY <1>1, <1>2, <1>3 DEF TypeInv

\* The list that a read goes through.
LEMMA ViewListed ==
    ASSUME TypeInv, NEW r \in Readers
    PROVE  Listed(View(r))
<1>1. CASE reads[r].stage = "live"
  <2> DEFINE s == reads[r].seen
             n == reads[r].next
  <2>1. /\ s \in Seq(Events) /\ Distinct(s) /\ ToSet(s) \subseteq Logged
        /\ ToSet(s) \intersect ToSet(log) = {}
    BY <1>1 DEF TypeInv, ReadsListed, ReadListed, Listed
  <2>2. log \in Seq(Events) /\ Distinct(log) /\ ToSet(log) \subseteq Logged
    BY DEF TypeInv, Lists, Listed
  <2>3. n \in Nat /\ Len(log) \in Nat /\ Len(log) <= Len(log)
    BY <2>2, EventsFacts, LenProperties DEF TypeInv, Values
  <2>4. View(r) = s \o SubSeq(log, n + 1, Len(log))
    BY <1>1 DEF View, Met
  <2> HIDE DEF s, n
  <2> QED
    BY <2>1, <2>2, <2>3, <2>4, Lengthened DEF Listed
<1>2. CASE reads[r].stage # "live"
  BY <1>2 DEF View, TypeInv, ReadsListed, ReadListed
<1> QED
  BY <1>1, <1>2

\* What an answer holds was logged, and is in it once.
LEMMA GetEventsListed ==
    ASSUME TypeInv, NEW r \in Readers
    PROVE  Listed(GetEvents(r)) /\ Len(GetEvents(r)) <= Limit
<1> DEFINE v == View(r)
           S == From(Since(r))
           o == Only(v, S)
<1>1. v \in Seq(Events) /\ Distinct(v) /\ ToSet(v) \subseteq Logged
  BY ViewListed DEF Listed
<1>2. GetEvents(r) = Newest(o, Limit)
  BY DEF GetEvents
<1> HIDE DEF v, S
<1>3. o \in Seq(Events) /\ ToSet(o) = ToSet(v) \intersect S /\ Distinct(o)
  BY <1>1, OnlyKeeps
<1> HIDE DEF o
<1>4. /\ Newest(o, Limit) \in Seq(Events) /\ Len(Newest(o, Limit)) <= Limit
      /\ ToSet(Newest(o, Limit)) \subseteq ToSet(o) /\ Distinct(Newest(o, Limit))
  BY <1>3, EventsFacts, NewestKeeps
<1> QED
  BY <1>1, <1>2, <1>3, <1>4 DEF Listed

\* What the dashboard does with events that were logged.
LEMMA HandleKeeps ==
    ASSUME TypeInv, NEW es \in Seq(Events), Distinct(es),
           ToSet(es) \subseteq Logged, Handle(es)
    PROVE  /\ latest' \in Times
           /\ latest' = latest \/ \E e \in ToSet(es) : stamp[e] = latest'
           /\ sighted' = sighted \o Only(es, Events \ ToSet(sighted))
           /\ sighted' \in Seq(Events) /\ Distinct(sighted')
           /\ ToSet(sighted') = ToSet(sighted) \union ToSet(es)
<1> DEFINE S == {latest} \union {stamp[e] : e \in ToSet(es)}
           r == Only(es, Events \ ToSet(sighted))
<1>1. \A e \in ToSet(es) : stamp[e] \in Times
  BY ToSetType DEF TypeInv, Values, Lists
<1>2. S \in SUBSET (0..MaxTime) /\ S # {}
  BY <1>1 DEF TypeInv, Values, Times
<1>3. latest' \in S
  <2>1. latest' = Max(S)
    BY DEF Handle
  <2> HIDE DEF S
  <2> QED
    BY <1>2, <2>1, EventsFacts, MaxIsMember
<1>4. sighted' = sighted \o r
  BY DEF Handle
<1>5. sighted \in Seq(Events) /\ Distinct(sighted)
  BY DEF TypeInv, Lists, Listed
<1>6. /\ r \in Seq(Events) /\ Distinct(r)
      /\ ToSet(r) = ToSet(es) \intersect (Events \ ToSet(sighted))
  BY OnlyKeeps
<1> HIDE DEF r
<1>7. Distinct(sighted \o r)
  <2>1. ToSet(sighted) \intersect ToSet(r) = {}
    BY <1>6
  <2> QED
    BY <1>5, <1>6, <2>1, DistinctConcat
<1>8. ToSet(sighted \o r) = ToSet(sighted) \union ToSet(r)
  BY <1>5, <1>6, ToSetConcat
<1>9. sighted \o r \in Seq(Events)
  BY <1>5, <1>6, ConcatProperties
<1>10. ToSet(es) \subseteq Events
  BY ToSetType
<1> QED
  BY <1>2, <1>3, <1>4, <1>6, <1>7, <1>8, <1>9, <1>10 DEF r, Times

\* What is listed stays so while nothing is appended.
LEMMA ListsStay ==
    ASSUME Lists, UNCHANGED <<stamp, appended>>
    PROVE  /\ Logged' = Logged
           /\ appended' \in Seq(Events) /\ Distinct(appended')
           /\ \A e \in Logged' : stamp'[e] # Unstamped
           /\ \A s : Listed(s) => Listed(s)'
BY DEF Lists, Listed, Logged

\* Reads that begin or end, or go on while nothing is appended or cleared.
LEMMA ReadsStay ==
    ASSUME TypeInv, UNCHANGED <<log, appended>>,
           \A r \in Readers : reads'[r] \in {reads[r], NoRead, BeginRead}
    PROVE  ReadsListed'
<1> SUFFICES ASSUME NEW r \in Readers
             PROVE  ReadListed(r)'
  BY DEF ReadsListed
<1>1. Logged' = Logged /\ log' = log
  BY DEF Logged
<1>2. CASE reads'[r] = reads[r]
  BY <1>1, <1>2 DEF TypeInv, ReadsListed, ReadListed, Listed
<1>3. CASE reads'[r] \in {NoRead, BeginRead}
  <2>1. reads'[r].seen = <<>>
    BY <1>3, ReadTypes
  <2> QED
    BY <1>1, <2>1, ListedEmpty, ToSetEmpty DEF ReadListed, Listed
<1> QED
  BY <1>2, <1>3

LEMMA StampKeepsTypes ==
    ASSUME TypeInv, NEW e \in Events, StampEvent(e) PROVE TypeInv'
<1> USE DEF StampEvent, logVars, streamVars, dashVars
<1>1. e \notin Logged
  BY DEF TypeInv, Lists
<1>2. Logged' = Logged /\ \A f \in Logged : stamp'[f] = stamp[f]
  BY <1>1, ToSetType DEF TypeInv, Values, Lists, Logged
<1>3. \A s : Listed(s) => Listed(s)'
  BY <1>2 DEF Listed
<1>4. Values'
  BY DEF TypeInv, Values
<1>5. Lists'
  BY <1>2, <1>3 DEF TypeInv, Lists
<1>6. ReadsListed' /\ Idle'
  BY ReadsStay DEF TypeInv, Idle
<1> QED
  BY <1>4, <1>5, <1>6 DEF TypeInv

LEMMA AppendKeepsTypes ==
    ASSUME TypeInv, NEW e \in Events, AppendEvent(e) PROVE TypeInv'
<1> USE DEF AppendEvent, logVars, streamVars, dashVars
<1>1. appended \in Seq(Events) /\ Distinct(appended) /\ e \notin ToSet(appended)
  BY DEF TypeInv, Lists
<1>2. /\ <<e>> \in Seq(Events) /\ ToSet(<<e>>) = {e}
      /\ appended' = appended \o <<e>>
      /\ appended' \in Seq(Events) /\ Logged' = Logged \union {e}
  BY <1>1, Appended, AppendKeeps DEF Logged
<1>3. Distinct(<<e>>)
  BY DEF Distinct
<1>4. Distinct(appended')
  <2>1. ToSet(appended) \intersect ToSet(<<e>>) = {}
    BY <1>1, <1>2
  <2> QED
    BY <1>1, <1>2, <1>3, <2>1, DistinctConcat
<1>5. \A s : Listed(s) => Listed(s)'
  BY <1>2 DEF Listed
<1>6. Listed(log)' /\ Len(log') <= MaxEvents
  <2>1. log \in Seq(Events) /\ Distinct(log) /\ ToSet(log) \subseteq Logged
    BY DEF TypeInv, Lists, Listed
  <2>2. /\ Append(log, e) = log \o <<e>> /\ Append(log, e) \in Seq(Events)
        /\ ToSet(Append(log, e)) = ToSet(log) \union {e}
    BY <2>1, Appended, AppendKeeps
  <2>3. Distinct(Append(log, e))
    <3>1. ToSet(log) \intersect ToSet(<<e>>) = {}
      BY <1>1, <1>2, <2>1 DEF Logged
    <3> DEFINE t == <<e>>
    <3>2. t \in Seq(Events) /\ Distinct(t) /\ ToSet(log) \intersect ToSet(t) = {}
      BY <1>2, <1>3, <3>1
    <3> HIDE DEF t
    <3>3. Distinct(log \o t)
      BY <2>1, <3>2, DistinctConcat
    <3> QED
      BY <2>2, <3>3 DEF t
  <2>4. /\ log' \in Seq(Events) /\ Len(log') <= MaxEvents
        /\ ToSet(log') \subseteq ToSet(Append(log, e)) /\ Distinct(log')
    BY <2>2, <2>3, EventsFacts, NewestKeeps
  <2> QED
    BY <1>2, <2>1, <2>2, <2>4 DEF Listed
<1>7. Lists'
  BY <1>2, <1>4, <1>5, <1>6 DEF TypeInv, Lists
<1>8. ASSUME NEW r \in Readers
      PROVE  /\ reads'[r] \in [stage : {"none", "live", "replaced"},
                               seen : Seq(Events), next : 0..MaxEvents]
             /\ reads'[r].stage = "none" <=> reads[r].stage = "none"
             /\ ReadListed(r)'
  <2> DEFINE s == reads[r].seen
             n == reads[r].next
             l == Append(log, e)
  <2>1. /\ s \in Seq(Events) /\ Distinct(s) /\ ToSet(s) \subseteq Logged
        /\ reads[r].stage = "live" => ToSet(s) \intersect ToSet(log) = {}
        /\ n \in Nat /\ 0 \in 0..MaxEvents
    BY EventsFacts DEF TypeInv, Values, ReadsListed, ReadListed, Listed
  <2>2. log \in Seq(Events) /\ Distinct(log) /\ ToSet(log) \subseteq Logged
    BY DEF TypeInv, Lists, Listed
  <2>3. /\ l \in Seq(Events) /\ ToSet(l) = ToSet(log) \union {e}
        /\ Len(l) \in Nat /\ Len(l) <= Len(l)
    BY <2>2, AppendKeeps
  <2>4. e \notin Logged
    BY <1>1 DEF Logged
  <2>5. Distinct(l)
    <3> DEFINE t == <<e>>
    <3>1. l = log \o t /\ t \in Seq(Events) /\ Distinct(t) /\ ToSet(t) = {e}
      BY <1>2, <1>3, <2>2, Appended
    <3> HIDE DEF t, l
    <3>2. ToSet(log) \intersect ToSet(t) = {}
      BY <2>2, <2>4, <3>1
    <3>3. Distinct(log \o t)
      BY <2>2, <3>1, <3>2, DistinctConcat
    <3> QED
      BY <3>1, <3>3, Zenon
  <2>6. log' = Newest(l, MaxEvents)
    OBVIOUS
  <2>7. \/ reads'[r] = reads[r]
        \/ /\ reads[r].stage = "live"
           /\ reads'[r] = [stage |-> "replaced",
                           seen |-> s \o SubSeq(l, n + 1, Len(l)), next |-> 0]
    BY DEF Replaced, Met, TypeInv, Values
  <2> HIDE DEF l
  <2>8. ToSet(log') \subseteq ToSet(l)
    BY <2>3, <2>6, EventsFacts, NewestKeeps
  <2>9. CASE reads'[r] = reads[r]
    <3>1. ToSet(s) \subseteq Logged'
      BY <1>2, <2>1
    <3>2. ASSUME reads[r].stage = "live" PROVE ToSet(s) \intersect ToSet(log') = {}
      BY <2>1, <2>3, <2>4, <2>8, <3>2
    <3> QED
      BY <2>1, <2>9, <3>1, <3>2 DEF TypeInv, Values, ReadListed, Listed
  <2>10. CASE /\ reads[r].stage = "live"
              /\ reads'[r] = [stage |-> "replaced",
                              seen |-> s \o SubSeq(l, n + 1, Len(l)), next |-> 0]
    <3> DEFINE u == s \o SubSeq(l, n + 1, Len(l))
    <3>1. ToSet(s) \intersect ToSet(l) = {}
      BY <2>1, <2>3, <2>4, <2>10
    <3>2. u \in Seq(Events) /\ Distinct(u) /\ ToSet(u) \subseteq ToSet(s) \union ToSet(l)
      <4> HIDE DEF s, n
      <4> QED
        BY <2>1, <2>3, <2>5, <3>1, Lengthened
    <3>3. reads'[r] = [stage |-> "replaced", seen |-> u, next |-> 0]
      BY <2>10
    <3> HIDE DEF u
    <3>4. ToSet(u) \subseteq Logged'
      BY <1>2, <2>1, <2>2, <2>3, <3>2
    <3>5. ReadListed(r)'
      BY <3>2, <3>3, <3>4 DEF ReadListed, Listed
    <3>6. reads[r].stage = "live"
      BY <2>10
    <3> QED
      BY <2>1, <3>2, <3>3, <3>5, <3>6
  <2> QED
    BY <2>7, <2>9, <2>10
<1>9. Values'
  <2>1. reads' \in [Readers -> [stage : {"none", "live", "replaced"},
                               seen : Seq(Events), next : 0..MaxEvents]]
    <3>1. reads' = [r \in Readers |-> reads'[r]]
      BY DEF Replaced, TypeInv, Values
    <3> QED
      BY <1>8, <3>1
  <2> QED
    BY <2>1 DEF TypeInv, Values
<1>10. ReadsListed' /\ Idle'
  BY <1>8, EventsFacts DEF ReadsListed, TypeInv, Idle
<1> QED
  BY <1>7, <1>9, <1>10 DEF TypeInv

LEMMA YieldKeepsTypes == ASSUME TypeInv, StreamYield PROVE TypeInv'
<1> DEFINE h == Head(batch)
<1>0. /\ batch # <<>> /\ Len(wire) < Window /\ mode = "sse" /\ mode' = "sse"
      /\ cursor' = stamp[h] /\ wire' = Append(wire, h) /\ batch' = Tail(batch)
      /\ UNCHANGED <<now, stamp, log, appended, skipped, reads, polls, latest,
                     sighted, resets>>
  BY DEF StreamYield, logVars, dashVars, TypeInv
<1>1. batch \in Seq(Events) /\ batch # <<>> /\ Distinct(batch) /\ ToSet(batch) \subseteq Logged
  BY <1>0 DEF TypeInv, Lists, Listed
<1>2. /\ h \in Events /\ Tail(batch) \in Seq(Events)
      /\ ToSet(batch) = {h} \union ToSet(Tail(batch))
      /\ Len(batch) \in Nat /\ Len(Tail(batch)) = Len(batch) - 1
  BY <1>1, HeadAndTail
<1>3. Distinct(Tail(batch))
  <2>1. /\ DOMAIN Tail(batch) = 1..Len(Tail(batch)) /\ DOMAIN batch = 1..Len(batch)
        /\ \A i \in 1..Len(Tail(batch)) : Tail(batch)[i] = batch[i + 1]
    BY <1>1, <1>2, LenProperties, HeadTailProperties
  <2> SUFFICES ASSUME NEW i \in DOMAIN Tail(batch), NEW j \in DOMAIN Tail(batch),
                      Tail(batch)[i] = Tail(batch)[j]
               PROVE  i = j
    BY DEF Distinct
  <2>2. i + 1 \in DOMAIN batch /\ j + 1 \in DOMAIN batch /\ batch[i + 1] = batch[j + 1]
    BY <1>2, <2>1
  <2>3. i + 1 = j + 1
    BY <1>1, <2>2 DEF Distinct
  <2>4. i \in Int /\ j \in Int
    BY <2>1
  <2> QED
    BY <2>3, <2>4
<1>4. /\ wire' \in Seq(Events) /\ ToSet(wire') = ToSet(wire) \union {h}
      /\ Len(wire') = Len(wire) + 1 /\ Len(wire) \in Nat
  <2>1. wire \in Seq(Events)
    BY DEF TypeInv, Lists
  <2>2. h \in Events
    BY <1>2
  <2> HIDE DEF h
  <2> QED
    BY <1>0, <2>1, <2>2, AppendKeeps
<1>5. stamp[h] \in Times
  BY <1>1, <1>2 DEF TypeInv, Values, Lists
<1> HIDE DEF h
<1>6. Values'
  BY <1>0, <1>5 DEF TypeInv, Values
<1>7. Logged' = Logged /\ \A s : Listed(s) => Listed(s)'
  BY <1>0, ListsStay DEF TypeInv
<1>8. Listed(Tail(batch))
  BY <1>1, <1>2, <1>3 DEF Listed
<1>9. Lists'
  <2>1. ToSet(wire') \subseteq Logged' /\ Len(wire') <= Window
    BY <1>0, <1>1, <1>2, <1>4, <1>7, EventsFacts DEF TypeInv, Lists
  <2>2. Listed(batch)' /\ Len(batch') <= Limit
    BY <1>0, <1>2, <1>7, <1>8, EventsFacts DEF TypeInv, Lists, Listed
  <2> QED
    BY <1>0, <1>4, <1>7, <2>1, <2>2, ListsStay DEF TypeInv, Lists
<1>10. ReadsListed' /\ Idle'
  BY <1>0, ReadsStay DEF TypeInv, Idle
<1> QED
  BY <1>6, <1>9, <1>10 DEF TypeInv

LEMMA ReceiveKeepsTypes == ASSUME TypeInv, Receive PROVE TypeInv'
<1> USE DEF Receive, logVars
<1> DEFINE h == Head(wire)
<1>1. /\ wire \in Seq(Events) /\ wire # <<>> /\ ToSet(wire) \subseteq Logged
  BY DEF TypeInv, Lists
<1>2. /\ h \in Events /\ Tail(wire) \in Seq(Events)
      /\ ToSet(wire) = {h} \union ToSet(Tail(wire))
      /\ Len(wire) \in Nat /\ Len(Tail(wire)) = Len(wire) - 1
  BY <1>1, HeadAndTail
<1>3. /\ <<h>> \in Seq(Events) /\ ToSet(<<h>>) = {h} /\ Distinct(<<h>>)
  BY <1>2, EmptySeq, Appended DEF Distinct
<1>4. Handle(<<h>>) /\ wire' = Tail(wire)
  OBVIOUS
<1> HIDE DEF h
<1>5. /\ latest' \in Times
      /\ sighted' \in Seq(Events) /\ Distinct(sighted')
      /\ ToSet(sighted') = ToSet(sighted) \union {h}
  BY <1>1, <1>2, <1>3, <1>4, HandleKeeps
<1>6. Values'
  BY <1>5 DEF TypeInv, Values
<1>7. Logged' = Logged /\ \A s : Listed(s) => Listed(s)'
  BY ListsStay DEF TypeInv
<1>8. Listed(sighted)'
  BY <1>1, <1>2, <1>5, <1>7 DEF TypeInv, Lists, Listed
<1>9. /\ wire' \in Seq(Events) /\ Len(wire') <= Window /\ ToSet(wire') \subseteq Logged'
  BY <1>1, <1>2, <1>4, <1>7, EventsFacts DEF TypeInv, Lists
<1>10. mode' # "polling"
  BY <1>1 DEF TypeInv, Lists
<1>11. Lists'
  BY <1>7, <1>8, <1>9, <1>10, ListsStay DEF TypeInv, Lists
<1>12. ReadsListed' /\ Idle'
  BY ReadsStay DEF TypeInv, Idle
<1> QED
  BY <1>6, <1>11, <1>12 DEF TypeInv

LEMMA PollKeepsTypes ==
    ASSUME TypeInv, NEW q \in Polls,
           \/ Ask(q) \/ BeginPoll(q) \/ AnswerPoll(q)
           \/ HandlePoll(q) \/ LosePoll(q)
    PROVE  TypeInv'
<1> USE DEF logVars, streamVars, dashVars
<1>0. /\ UNCHANGED <<log, mode, batch>>
      /\ reads' \in {reads, [reads EXCEPT ![q] = NoRead], [reads EXCEPT ![q] = BeginRead]}
  BY DEF Ask, BeginPoll, AnswerPoll, HandlePoll, LosePoll
<1>1. UNCHANGED <<stamp, appended>>
  BY DEF Ask, BeginPoll, AnswerPoll, HandlePoll, LosePoll
<1>2. Logged' = Logged /\ \A s : Listed(s) => Listed(s)'
  BY <1>1, ListsStay DEF TypeInv
<1>3. NoPoll \in [stage : {"none", "asked", "answered"},
                  since : Times, events : Seq(Events)]
  BY EventsFacts, EmptySeq DEF NoPoll
<1>4. <<>> \in Seq(Events) /\ Listed(<<>>) /\ NoPoll.events = <<>>
  BY ListedEmpty, EmptySeq DEF NoPoll
<1>5. polls \in [Polls -> [stage : {"none", "asked", "answered"},
                           since : Times, events : Seq(Events)]]
  BY DEF TypeInv, Values
<1>6. Lists' <=> /\ Listed(sighted)'
                 /\ \A p \in Polls : Listed(polls[p].events)'
  BY <1>1, <1>2, ListsStay
     DEF TypeInv, Lists, Ask, BeginPoll, AnswerPoll, HandlePoll, LosePoll
<1>r. /\ reads' \in [Readers -> [stage : {"none", "live", "replaced"},
                                seen : Seq(Events), next : 0..MaxEvents]]
      /\ ReadsListed' /\ Idle'
  <2>1. reads \in [Readers -> [stage : {"none", "live", "replaced"},
                              seen : Seq(Events), next : 0..MaxEvents]]
    BY DEF TypeInv, Values
  <2>2. /\ \A r \in Readers : reads'[r] \in {reads[r], NoRead, BeginRead}
        /\ reads'[Generator] = reads[Generator]
    BY <1>0, <2>1, EventsFacts
  <2>3. reads' \in [Readers -> [stage : {"none", "live", "replaced"},
                               seen : Seq(Events), next : 0..MaxEvents]]
    BY <1>0, <2>1, ReadTypes
  <2> QED
    BY <1>0, <1>1, <2>2, <2>3, ReadsStay DEF TypeInv, Idle
<1>7. CASE Ask(q)
  <2>1. latest \in Times
    BY DEF TypeInv, Values
  <2>2. Values'
    BY <1>4, <1>5, <1>7, <1>r, <2>1 DEF Ask, TypeInv, Values
  <2>3. \A p \in Polls : polls'[p].events \in {<<>>, polls[p].events}
    BY <1>5, <1>7 DEF Ask
  <2>4. \A p \in Polls : Listed(polls[p].events)'
    BY <1>2, <1>4, <2>3 DEF TypeInv, Lists, Listed
  <2>5. Listed(sighted)'
    BY <1>2, <1>7 DEF Listed, Ask, TypeInv, Lists
  <2> QED
    BY <1>2, <1>6, <1>r, <2>2, <2>4, <2>5 DEF TypeInv
<1>b. CASE BeginPoll(q)
  <2>1. Values'
    BY <1>b, <1>r DEF BeginPoll, TypeInv, Values
  <2>2. Lists'
    BY <1>b, <1>6, <1>2 DEF BeginPoll, TypeInv, Lists, Listed
  <2> QED
    BY <1>r, <2>1, <2>2 DEF TypeInv
<1>8. CASE AnswerPoll(q)
  <2> DEFINE a == GetEvents(q)
  <2>1. Listed(a) /\ a \in Seq(Events)
    BY EventsFacts, GetEventsListed DEF Listed
  <2>0. polls' = [polls EXCEPT ![q].stage = "answered", ![q].events = a]
    BY <1>8 DEF AnswerPoll
  <2> HIDE DEF a
  <2>2. Values'
    <3>1. polls' \in [Polls -> [stage : {"none", "asked", "answered"},
                           since : Times, events : Seq(Events)]]
      BY <1>5, <2>0, <2>1
    <3> QED
      BY <1>8, <1>r, <3>1 DEF AnswerPoll, TypeInv, Values
  <2>3. \A p \in Polls : polls'[p].events = IF p = q THEN a ELSE polls[p].events
    BY <1>5, <2>0
  <2>4. \A p \in Polls : Listed(polls[p].events)'
    BY <1>2, <2>1, <2>3 DEF TypeInv, Lists, Listed
  <2>5. Listed(sighted)'
    BY <1>2, <1>8 DEF Listed, AnswerPoll, TypeInv, Lists
  <2> QED
    BY <1>2, <1>6, <1>r, <2>2, <2>4, <2>5 DEF TypeInv
<1>9. CASE HandlePoll(q)
  <2> DEFINE es == polls[q].events
  <2>1. es \in Seq(Events) /\ Distinct(es) /\ ToSet(es) \subseteq Logged
    BY DEF TypeInv, Lists, Listed
  <2>2. Handle(es) /\ polls' = [polls EXCEPT ![q] = NoPoll]
    BY <1>9 DEF HandlePoll
  <2> HIDE DEF es
  <2>3. /\ latest' \in Times
        /\ sighted' \in Seq(Events) /\ Distinct(sighted')
        /\ ToSet(sighted') = ToSet(sighted) \union ToSet(es)
    BY <2>1, <2>2, HandleKeeps
  <2>4. Values'
    BY <1>3, <1>5, <1>9, <1>r, <2>2, <2>3 DEF HandlePoll, TypeInv, Values
  <2>5. Listed(sighted)'
    BY <1>2, <2>1, <2>3 DEF TypeInv, Lists, Listed
  <2>6. \A p \in Polls : polls'[p].events \in {<<>>, polls[p].events}
    BY <1>4, <1>5, <2>2
  <2>7. \A p \in Polls : Listed(polls[p].events)'
    BY <1>2, <1>4, <2>6 DEF TypeInv, Lists, Listed
  <2> QED
    BY <1>2, <1>6, <1>r, <2>4, <2>5, <2>7 DEF TypeInv
<1>10. CASE LosePoll(q)
  <2>1. Values'
    BY <1>3, <1>5, <1>10 DEF LosePoll, TypeInv, Values
  <2>2. \A p \in Polls : polls'[p].events \in {<<>>, polls[p].events}
    BY <1>4, <1>5, <1>10 DEF LosePoll
  <2>3. \A p \in Polls : Listed(polls[p].events)'
    BY <1>2, <1>4, <2>2 DEF TypeInv, Lists, Listed
  <2>4. Listed(sighted)'
    BY <1>2, <1>10 DEF Listed, LosePoll, TypeInv, Lists
  <2> QED
    BY <1>2, <1>6, <1>r, <2>1, <2>3, <2>4 DEF TypeInv
<1> QED
  BY <1>7, <1>b, <1>8, <1>9, <1>10

LEMMA ResetKeepsTypes == ASSUME TypeInv, ResetLog PROVE TypeInv'
<1> USE DEF ResetLog, streamVars, dashVars
<1>1. PICK at \in [Readers -> 0..Len(log)] :
          reads' = [r \in Readers |-> IF reads[r].stage = "live"
                                     THEN Emptied(r, at[r]) ELSE reads[r]]
  OBVIOUS
<1>2. Lists'
  <2>1. Len(<<>>) = 0
    BY EmptySeq
  <2> QED
    BY <2>1, ListsStay, ListedEmpty, EventsFacts DEF TypeInv, Lists
<1>3. Logged' = Logged /\ \A s : Listed(s) => Listed(s)'
  BY ListsStay DEF TypeInv
<1>4. ToSet(log') = {}
  BY ToSetEmpty
<1>5. ASSUME NEW r \in Readers
      PROVE  /\ reads'[r] \in [stage : {"none", "live", "replaced"},
                               seen : Seq(Events), next : 0..MaxEvents]
             /\ reads'[r].stage = reads[r].stage
             /\ ReadListed(r)'
  <2> DEFINE s == reads[r].seen
             n == reads[r].next
             m == at[r]
  <2>1. /\ s \in Seq(Events) /\ Distinct(s) /\ ToSet(s) \subseteq Logged
        /\ reads[r].stage = "live" => ToSet(s) \intersect ToSet(log) = {}
        /\ n \in 0..MaxEvents /\ n \in Nat
    BY EventsFacts DEF TypeInv, Values, ReadsListed, ReadListed, Listed
  <2>2. /\ log \in Seq(Events) /\ Distinct(log) /\ ToSet(log) \subseteq Logged
        /\ Len(log) <= MaxEvents /\ Len(log) \in Nat
    BY LenProperties DEF TypeInv, Lists, Listed
  <2>3. m \in Nat /\ m <= Len(log) /\ m \in 0..MaxEvents
    BY <1>1, <2>2, EventsFacts
  <2>4. CASE reads[r].stage = "live"
    <3> DEFINE u == s \o SubSeq(log, n + 1, m)
               x == Max({m, n})
    <3>1. u \in Seq(Events) /\ Distinct(u) /\ ToSet(u) \subseteq Logged
      <4> HIDE DEF s, n, m
      <4>1. ToSet(u) \subseteq ToSet(s) \union ToSet(log) /\ u \in Seq(Events) /\ Distinct(u)
        BY <2>1, <2>2, <2>3, <2>4, Lengthened
      <4> QED
        BY <2>1, <2>2, <4>1
    <3>2. x \in 0..MaxEvents
      <4> DEFINE T == {m, n}
      <4>1. T \in SUBSET (0..MaxEvents) /\ T # {}
        BY <2>1, <2>3
      <4> HIDE DEF T
      <4>2. Max(T) \in T
        BY <4>1, EventsFacts, MaxIsMember
      <4> QED
        BY <4>1, <4>2 DEF T
    <3>3. reads'[r] = [stage |-> "live", seen |-> u, next |-> x]
      BY <1>1, <2>4 DEF Emptied
    <3> HIDE DEF u, x
    <3>4. ReadListed(r)'
      BY <1>3, <1>4, <3>1, <3>3 DEF ReadListed, Listed
    <3> QED
      BY <2>4, <3>1, <3>2, <3>3, <3>4
  <2>5. CASE reads[r].stage # "live"
    <3>1. reads'[r] = reads[r]
      BY <1>1, <2>5
    <3>2. ReadListed(r)'
      BY <1>3, <1>4, <2>1, <3>1 DEF ReadListed, Listed
    <3> QED
      BY <3>1, <3>2 DEF TypeInv, Values
  <2> QED
    BY <2>4, <2>5
<1>6. Values'
  <2>1. reads' \in [Readers -> [stage : {"none", "live", "replaced"},
                               seen : Seq(Events), next : 0..MaxEvents]]
    <3>1. reads' = [r \in Readers |-> reads'[r]]
      BY <1>1
    <3> QED
      BY <1>5, <3>1
  <2> QED
    BY <2>1, EventsFacts DEF TypeInv, Values
<1>7. ReadsListed' /\ Idle'
  BY <1>4, <1>5, EventsFacts DEF ReadsListed, TypeInv, Idle
<1> QED
  BY <1>2, <1>6, <1>7 DEF TypeInv

LEMMA NextTypeInv == TypeInv /\ [Next]_vars => TypeInv'
<1> SUFFICES ASSUME TypeInv, [Next]_vars PROVE TypeInv'
  OBVIOUS
<1> USE DEF logVars, streamVars, dashVars
<1>1. ASSUME NEW e \in Events, StampEvent(e) PROVE TypeInv'
  BY <1>1, StampKeepsTypes
<1>2. ASSUME NEW e \in Events, AppendEvent(e) PROVE TypeInv'
  BY <1>2, AppendKeepsTypes
<1>3. CASE Tick
  <2>1. Values'
    BY <1>3, EventsFacts DEF Tick, TypeInv, Values, Times
  <2>2. Lists'
    BY <1>3, ListsStay DEF Tick, TypeInv, Lists
  <2>3. ReadsListed' /\ Idle'
    BY <1>3, ReadsStay DEF Tick, TypeInv, Idle
  <2> QED
    BY <2>1, <2>2, <2>3 DEF TypeInv
<1>r. reads \in [Readers -> [stage : {"none", "live", "replaced"},
                            seen : Seq(Events), next : 0..MaxEvents]]
  BY DEF TypeInv, Values
<1>4. CASE StreamWake
  <2>1. Values'
    BY <1>4, <1>r, ReadTypes DEF StreamWake, TypeInv, Values
  <2>2. Lists'
    BY <1>4, ListsStay DEF StreamWake, TypeInv, Lists
  <2>3. \A r \in Readers : reads'[r] \in {reads[r], NoRead, BeginRead}
    BY <1>4, <1>r DEF StreamWake
  <2>4. ReadsListed' /\ Idle'
    BY <1>4, <2>3, ReadsStay DEF StreamWake, TypeInv, Idle
  <2> QED
    BY <2>1, <2>2, <2>4 DEF TypeInv
<1>5. CASE StreamRead
  <2>1. Values'
    BY <1>5, <1>r, ReadTypes DEF StreamRead, TypeInv, Values
  <2>2. Listed(GetEvents(Generator)) /\ Len(GetEvents(Generator)) <= Limit
    BY EventsFacts, GetEventsListed
  <2>3. batch' = GetEvents(Generator) /\ mode = "sse" /\ mode' = "sse"
    BY <1>5 DEF StreamRead, TypeInv, Idle
  <2>4. Lists'
    BY <1>5, <2>2, <2>3, ListsStay DEF StreamRead, TypeInv, Lists
  <2>5. \A r \in Readers : reads'[r] \in {reads[r], NoRead, BeginRead}
    BY <1>5, <1>r DEF StreamRead
  <2>6. reads'[Generator].stage = "none"
    BY <1>5, <1>r, EventsFacts, ReadTypes DEF StreamRead
  <2>7. ReadsListed' /\ Idle'
    BY <1>5, <2>5, <2>6, ReadsStay DEF StreamRead, Idle
  <2> QED
    BY <2>1, <2>4, <2>7 DEF TypeInv
<1>6. CASE StreamYield
  BY <1>6, YieldKeepsTypes
<1>7. CASE Receive
  BY <1>7, ReceiveKeepsTypes
<1>8. CASE ConnectionLost
  <2>1. Values'
    BY <1>8, <1>r, ReadTypes DEF ConnectionLost, TypeInv, Values
  <2>2. <<>> \in Seq(Events) /\ Len(<<>>) = 0
    BY EmptySeq
  <2>3. Lists'
    BY <1>8, <2>2, ListsStay, ListedEmpty, ToSetEmpty, EventsFacts
       DEF ConnectionLost, TypeInv, Lists
  <2>4. \A r \in Readers : reads'[r] \in {reads[r], NoRead, BeginRead}
    BY <1>8, <1>r DEF ConnectionLost
  <2>5. reads'[Generator].stage = "none"
    BY <1>8, <1>r, EventsFacts, ReadTypes DEF ConnectionLost
  <2>6. ReadsListed' /\ Idle'
    BY <1>8, <2>4, <2>5, ReadsStay DEF ConnectionLost, Idle
  <2> QED
    BY <2>1, <2>3, <2>6 DEF TypeInv
<1>9. ASSUME NEW q \in Polls,
             \/ Ask(q) \/ BeginPoll(q) \/ AnswerPoll(q)
             \/ HandlePoll(q) \/ LosePoll(q)
      PROVE  TypeInv'
  BY <1>9, PollKeepsTypes
<1>10. CASE ResetLog
  BY <1>10, ResetKeepsTypes
<1>11. CASE UNCHANGED vars
  <2>1. Values'
    BY <1>11 DEF vars, TypeInv, Values
  <2>2. Lists'
    BY <1>11, ListsStay DEF vars, TypeInv, Lists
  <2>3. ReadsListed' /\ Idle'
    BY <1>11, ReadsStay DEF vars, TypeInv, Idle
  <2> QED
    BY <2>1, <2>2, <2>3 DEF TypeInv
<1> QED
  BY <1>1, <1>2, <1>3, <1>4, <1>5, <1>6, <1>7, <1>8, <1>9, <1>10, <1>11
     DEF Next, Stream

-----------------------------------------------------------------------------
(* What is due before what.                                                *)

\* An event that the dashboard may never meet, whatever it asks for.
Missable(e) == Overtaken(e) \/ Displaced(e)

\* An event is due before each that was logged after it.
Due == {p \in Logged \X Logged :
            Position(p[1]) < Position(p[2]) /\ ~ Missable(p[1])}

\* The log holds the last of what was appended, and all of it until it was
\* full.
LogIsTail ==
    \E d \in Nat :
        /\ Len(log) + d = Len(appended)
        /\ \A i \in DOMAIN log : log[i] = appended[i + d]
        /\ d = 0 \/ Len(log) = MaxEvents

\* The list of a read: all that was appended up to some time, or the last of it.
Stretch(list) ==
    \E d \in Nat :
        /\ Len(list) + d <= Len(appended)
        /\ \A i \in DOMAIN list : list[i] = appended[i + d]
        /\ d = 0 \/ Len(list) >= MaxEvents

LEMMA PositionIs ==
    ASSUME NEW s \in Seq(Events), Distinct(s), NEW i \in DOMAIN s
    PROVE  (CHOOSE k \in DOMAIN s : s[k] = s[i]) = i
BY DEF Distinct

LEMMA PlaceType ==
    ASSUME NEW s \in Seq(Events), NEW e \in ToSet(s),
           NEW p, p = CHOOSE i \in DOMAIN s : s[i] = e
    PROVE  /\ p \in DOMAIN s /\ s[p] = e
           /\ p \in Nat /\ 1 <= p /\ p <= Len(s) /\ Len(s) \in Nat
<1>1. \E i \in DOMAIN s : s[i] = e
  BY InToSet
<1>2. p \in DOMAIN s /\ s[p] = e
  BY <1>1
<1>3. DOMAIN s = 1..Len(s) /\ Len(s) \in Nat
  BY LenProperties
<1> QED
  BY <1>2, <1>3

LEMMA PositionType ==
    ASSUME Lists, NEW e \in Logged
    PROVE  /\ Position(e) \in DOMAIN appended /\ appended[Position(e)] = e
           /\ Position(e) \in Nat /\ 1 <= Position(e)
           /\ Position(e) <= Len(appended) /\ Len(appended) \in Nat
BY PlaceType DEF Lists, Logged, Position

LEMMA PositionOf ==
    ASSUME Lists, NEW i \in DOMAIN appended
    PROVE  appended[i] \in Logged /\ Position(appended[i]) = i
<1>1. appended \in Seq(Events) /\ Distinct(appended)
  BY DEF Lists
<1> QED
  BY <1>1, PositionIs, InToSet DEF Position, Logged

\* What a step does to the log leaves what was logged in its place, and makes
\* nothing due that was not.
Grown ==
    /\ \A e \in Logged : e \in Logged' /\ stamp'[e] = stamp[e]
    /\ \A e \in Events : \A f \in Logged : <<e, f>> \in Due' => <<e, f>> \in Due

LEMMA NextGrows == TypeInv /\ [Next]_vars => Grown
<1> SUFFICES ASSUME TypeInv, [Next]_vars PROVE Grown
  OBVIOUS
<1>1. TypeInv'
  BY NextTypeInv
<1>2. \/ UNCHANGED <<stamp, appended>>
      \/ \E e \in Events : StampEvent(e)
      \/ \E e \in Events : AppendEvent(e)
  BY DEF Next, Stream, vars, logVars, streamVars, dashVars, Tick, StreamRead,
     StreamWake, StreamYield, Receive, ConnectionLost, Ask, BeginPoll, AnswerPoll,
     HandlePoll, LosePoll, ResetLog
<1>3. /\ appended \in Seq(Events) /\ appended' \in Seq(Events)
      /\ Len(appended) \in Nat /\ DOMAIN appended = 1..Len(appended)
      /\ Len(appended') \in Nat /\ DOMAIN appended' = 1..Len(appended')
  BY <1>1, LenProperties DEF TypeInv, Lists
<1>4. /\ Len(appended) <= Len(appended')
      /\ \A i \in DOMAIN appended : appended'[i] = appended[i]
      /\ \A e \in Logged : stamp'[e] = stamp[e]
  <2>1. CASE UNCHANGED <<stamp, appended>>
    BY <1>3, <2>1
  <2>2. ASSUME NEW e \in Events, StampEvent(e)
        PROVE  /\ appended' = appended
               /\ \A f \in Logged : stamp'[f] = stamp[f]
    <3>1. e \notin Logged
      BY <2>2 DEF TypeInv, Lists, StampEvent
    <3> QED
      BY <2>2, <3>1, ToSetType DEF TypeInv, Values, Lists, Logged, StampEvent, logVars
  <2>3. ASSUME NEW e \in Events, AppendEvent(e)
        PROVE  /\ stamp' = stamp /\ Len(appended') = Len(appended) + 1
               /\ \A i \in 1..Len(appended) : appended'[i] = appended[i]
    <3>1. appended' = Append(appended, e) /\ stamp' = stamp
      BY <2>3 DEF AppendEvent
    <3> QED
      BY <1>3, <3>1, AppendProperties
  <2>4. CASE \E e \in Events : StampEvent(e)
    BY <1>3, <2>2, <2>4
  <2>5. CASE \E e \in Events : AppendEvent(e)
    <3>1. /\ stamp' = stamp /\ Len(appended') = Len(appended) + 1
          /\ \A i \in 1..Len(appended) : appended'[i] = appended[i]
      BY <2>3, <2>5
    <3> QED
      BY <1>3, <3>1
  <2> QED
    BY <1>2, <2>1, <2>4, <2>5
<1>5. ASSUME NEW e \in Logged PROVE e \in Logged' /\ Position(e)' = Position(e)
  <2>1. Position(e) \in DOMAIN appended /\ appended[Position(e)] = e
    BY PositionType DEF TypeInv
  <2>2. Position(e) \in DOMAIN appended' /\ appended'[Position(e)] = e
    BY <1>3, <1>4, <2>1
  <2>3. e \in Logged'
    BY <2>2, InToSet DEF Logged
  <2>4. (CHOOSE k \in DOMAIN appended' : appended'[k] = appended'[Position(e)])
        = Position(e)
    BY <1>1, <1>3, <2>2, PositionIs DEF TypeInv, Lists
  <2>5. Position(e)' = Position(e)
    BY <2>2, <2>4 DEF Position
  <2> QED
    BY <2>3, <2>5
<1>6. ASSUME NEW e \in Events, NEW f \in Logged, <<e, f>> \in Due'
      PROVE  <<e, f>> \in Due
  <2>1. e \in Logged' /\ Position(e)' < Position(f)' /\ ~ Missable(e)'
    BY <1>6 DEF Due
  <2>2. /\ Position(e)' \in DOMAIN appended' /\ appended'[Position(e)'] = e
        /\ Position(e)' \in Nat /\ 1 <= Position(e)'
    BY <1>1, <2>1, PlaceType DEF TypeInv, Lists, Logged, Position
  <2>3. Position(f)' = Position(f) /\ Position(f) \in Nat /\ Position(f) <= Len(appended)
    BY <1>5, PositionType DEF TypeInv
  <2>4. Position(e)' \in DOMAIN appended
    BY <1>3, <2>1, <2>2, <2>3
  <2>5. appended[Position(e)'] = e
    BY <1>4, <2>2, <2>4
  <2>6. e \in Logged
    BY <2>4, <2>5, InToSet DEF Logged
  <2>7. Position(e)' = Position(e)
    BY <1>5, <2>6
  <2>8. ASSUME Overtaken(e) PROVE FALSE
    <3>1. PICK g \in Logged : Position(g) < Position(e) /\ stamp[g] > stamp[e]
      BY <2>8 DEF Overtaken, Logged
    <3>2. /\ g \in Logged' /\ Position(g)' = Position(g)
          /\ stamp'[g] = stamp[g] /\ stamp'[e] = stamp[e]
      BY <1>4, <1>5, <2>6, <3>1
    <3>3. Position(g)' < Position(e)' /\ stamp'[g] > stamp'[e]
      BY <2>7, <3>1, <3>2
    <3>4. Overtaken(e)'
      BY <3>2, <3>3 DEF Overtaken, Logged
    <3> QED
      BY <2>1, <3>4 DEF Missable
  <2>9. ASSUME Displaced(e) PROVE FALSE
    <3>1. Position(e) \in Nat
      BY <2>6, PositionType DEF TypeInv
    <3>2. Len(appended) - Position(e) >= Limit
      BY <2>9 DEF Displaced
    <3>3. Len(appended') - Position(e)' >= Limit
      BY <1>3, <1>4, <2>7, <3>1, <3>2, EventsFacts
    <3>4. Displaced(e)'
      BY <3>3 DEF Displaced
    <3> QED
      BY <2>1, <3>4 DEF Missable
  <2> QED
    BY <2>1, <2>3, <2>6, <2>7, <2>8, <2>9 DEF Due, Missable
<1> QED
  BY <1>4, <1>5, <1>6 DEF Grown

-----------------------------------------------------------------------------
(* Answers.                                                                *)

\* A cursor is 0 or the stamp of an event in S.
Named(st, time, S) == time = 0 \/ \E e \in S : st[e] = time

Closed(S) ==
    S \subseteq Logged /\ \A e \in Events : \A f \in S : <<e, f>> \in Due => e \in S

\* An event older than a cursor is among those the cursor comes from, if it
\* may not be missed.
LEMMA CursorCovers ==
    ASSUME TypeInv, NEW S, Closed(S), NEW time \in Times, Named(stamp, time, S),
           NEW e \in Logged, stamp[e] < time, ~ Missable(e)
    PROVE  e \in S
<1>1. \A f \in Logged : f \in Events /\ stamp[f] \in Times
  BY ToSetType DEF TypeInv, Values, Lists, Logged
<1>2. time # 0
  BY <1>1, EventsFacts
<1>3. PICK f \in S : stamp[f] = time
  BY <1>2 DEF Named
<1>4. f \in Logged
  BY DEF Closed
<1>5. /\ Position(e) \in Nat /\ appended[Position(e)] = e
      /\ Position(f) \in Nat /\ appended[Position(f)] = f
  BY <1>4, PositionType DEF TypeInv
<1>6. CASE Position(f) < Position(e)
  <2>1. stamp[f] > stamp[e]
    BY <1>1, <1>3, <1>4, EventsFacts
  <2>2. Overtaken(e)
    BY <1>4, <1>6, <2>1 DEF Overtaken, Logged
  <2> QED
    BY <2>2 DEF Missable
<1>7. CASE Position(e) < Position(f)
  <2>1. <<e, f>> \in Due
    BY <1>4, <1>7 DEF Due
  <2> QED
    BY <1>1, <2>1 DEF Closed
<1>8. CASE Position(e) = Position(f)
  <2>1. e = f
    BY <1>5, <1>8
  <2> QED
    BY <1>3, <2>1
<1> QED
  BY <1>5, <1>6, <1>7, <1>8

\* An answer lacks only what its cursor comes from.
LEMMA AnswerIsComplete ==
    ASSUME TypeInv, NEW reader \in Readers, Stretch(View(reader)),
           NEW S, Closed(S), Since(reader) \in Times,
           Named(stamp, Since(reader), S)
    PROVE  Complete(Due, GetEvents(reader), S)
<1> DEFINE list == View(reader)
           time == Since(reader)
           r == Only(list, From(time))
           a == GetEvents(reader)
<1>0. list \in Seq(Events) /\ Stretch(list)
  BY ViewListed DEF Listed
<1>v. a = Newest(r, Limit)
  BY DEF GetEvents
<1>n. time \in Times /\ Named(stamp, time, S)
  OBVIOUS
<1> HIDE DEF list, time
<1>1. /\ list \in Seq(Events) /\ appended \in Seq(Events)
      /\ Len(list) \in Nat /\ DOMAIN list = 1..Len(list)
      /\ Len(appended) \in Nat /\ DOMAIN appended = 1..Len(appended)
  BY <1>0, LenProperties DEF TypeInv, Lists, Listed
<1>2. r \in Seq(Events)
  BY <1>1, OnlyPicks
<1>3. PICK g : Picks(g, r, list, From(time), Len(list))
  BY <1>1, OnlyPicks
<1>4. a = Newest(r, Limit)
  BY <1>v
<1> HIDE DEF r, a
<1>5. PICK d \in Nat :
          /\ a \in Seq(Events)
          /\ Len(a) + d = Len(r)
          /\ d = 0 \/ Len(a) = Limit
          /\ \A k \in 1..Len(a) : a[k] = r[k + d]
  <2>1. Limit \in Nat \ {0}
    BY EventsFacts
  <2>2. \E d \in Nat :
            /\ Newest(r, Limit) \in Seq(Events)
            /\ Len(Newest(r, Limit)) + d = Len(r)
            /\ d = 0 \/ Len(Newest(r, Limit)) = Limit
            /\ \A k \in 1..Len(Newest(r, Limit)) : Newest(r, Limit)[k] = r[k + d]
    BY <1>2, <2>1, NewestIsTail
  <2> QED
    BY <1>4, <2>2
<1>6. PICK o \in Nat :
          /\ Len(list) + o <= Len(appended)
          /\ \A i \in DOMAIN list : list[i] = appended[i + o]
          /\ o = 0 \/ Len(list) >= MaxEvents
  BY <1>0 DEF Stretch
<1>7. /\ Len(a) \in Nat /\ DOMAIN a = 1..Len(a)
      /\ Len(r) \in Nat /\ DOMAIN r = 1..Len(r)
  BY <1>2, <1>5, LenProperties
<1>8. /\ g \in [1..Len(r) -> 1..Len(list)]
      /\ \A i \in 1..Len(r) : r[i] = list[g[i]]
      /\ \A i, j \in 1..Len(r) : i <= j => j - i <= g[j] - g[i]
      /\ \A p \in 1..Len(list) : list[p] \in From(time) =>
             \E i \in 1..Len(r) : g[i] = p
  BY <1>3 DEF Picks
<1> SUFFICES ASSUME NEW i \in DOMAIN a, NEW e \in Events, <<e, a[i]>> \in Due,
                    e \notin S
             PROVE  \E k \in DOMAIN a : k < i /\ a[k] = e
  BY DEF Complete, a
<1>9. e \in Logged /\ Position(e) < Position(a[i]) /\ ~ Missable(e)
  BY DEF Due
<1>10. /\ Position(e) \in Nat /\ appended[Position(e)] = e
       /\ 1 <= Position(e) /\ Position(e) <= Len(appended)
  BY <1>9, PositionType DEF TypeInv
<1>11. Len(appended) - Position(e) < Limit
  BY <1>1, <1>9, <1>10, EventsFacts DEF Missable, Displaced
<1>12. i + d \in 1..Len(r) /\ i \in Nat
  BY <1>5, <1>7
<1>13. g[i + d] \in 1..Len(list)
  BY <1>8, <1>12
<1>14. Position(a[i]) = g[i + d] + o
  <2>1. a[i] = appended[g[i + d] + o]
    BY <1>1, <1>5, <1>6, <1>7, <1>8, <1>12, <1>13
  <2>2. g[i + d] + o \in DOMAIN appended
    BY <1>1, <1>6, <1>13
  <2> QED
    BY <2>1, <2>2, PositionOf DEF TypeInv
<1>15. Position(e) > o
  BY <1>1, <1>6, <1>10, <1>11, EventsFacts
<1> DEFINE p == Position(e) - o
<1>16. p \in 1..Len(list) /\ p < g[i + d] /\ p + o = Position(e)
  BY <1>1, <1>6, <1>9, <1>10, <1>13, <1>14, <1>15
<1>17. list[p] = e
  BY <1>1, <1>6, <1>10, <1>16
<1> HIDE DEF p
<1>18. e \in From(time)
  <2>1. ASSUME stamp[e] < time PROVE FALSE
    BY <1>9, <1>n, <2>1, CursorCovers
  <2>2. stamp[e] \in Times
    BY <1>9 DEF TypeInv, Values, Lists
  <2> QED
    BY <1>n, <2>1, <2>2, EventsFacts DEF From
<1>19. PICK m \in 1..Len(r) : g[m] = p
  BY <1>8, <1>16, <1>17, <1>18
<1>20. m < i + d
  <2>1. i + d <= m => m - (i + d) <= g[m] - g[i + d]
    BY <1>8, <1>12
  <2> QED
    BY <1>7, <1>12, <1>13, <1>16, <1>19, <2>1
<1>21. m > d
  <2> SUFFICES ASSUME m <= d PROVE FALSE
    BY <1>7
  <2>1. Len(a) = Limit /\ Len(r) \in 1..Len(r) /\ m <= Len(r)
    BY <1>5, <1>7
  <2>2. Len(r) - m <= g[Len(r)] - g[m]
    BY <1>8, <2>1
  <2>3. g[Len(r)] \in 1..Len(list)
    BY <1>8, <2>1
  <2>4. Len(r) - m >= Limit
    BY <1>5, <1>7, <2>1
  <2>5. Len(list) - p >= Limit
    BY <1>1, <1>7, <1>16, <1>19, <2>2, <2>3, <2>4, EventsFacts
  <2>6. Len(list) - p <= Len(appended) - Position(e)
    <3>1. p \in Int /\ p + o = Position(e)
      BY <1>16
    <3>2. Len(list) + o <= Len(appended) /\ o \in Nat
      BY <1>6
    <3>3. Len(list) \in Nat /\ Len(appended) \in Nat /\ Position(e) \in Nat
      BY <1>1, <1>10
    <3> QED
      BY <3>1, <3>2, <3>3
  <2> QED
    <3>1. p \in Int
      BY <1>16
    <3> QED
      BY <1>11, <2>5, <2>6, <1>1, <1>10, <3>1, EventsFacts
<1>22. m - d \in DOMAIN a /\ m - d < i /\ a[m - d] = e
  <2>1. m - d \in 1..Len(a) /\ m - d < i /\ (m - d) + d = m
    BY <1>5, <1>7, <1>12, <1>20, <1>21
  <2>2. a[m - d] = r[m]
    BY <1>5, <2>1
  <2> QED
    BY <1>7, <1>8, <1>17, <1>19, <2>1, <2>2
<1> QED
  BY <1>22

-----------------------------------------------------------------------------
(* The order.                                                              *)

\* Each cursor is the stamp of an event seen or, for the stream's, on the way.
Cursors ==
    /\ mode = "sse" => Named(stamp, cursor, ToSet(sighted) \union ToSet(wire))
    /\ Named(stamp, latest, ToSet(sighted))
    /\ \A q \in Polls : Named(stamp, polls[q].since, ToSet(sighted))

\* What was seen, and what is on the way, lacks nothing that is due.
Ordered ==
    /\ LogIsTail
    /\ Complete(Due, sighted, {})
    /\ Complete(Due, wire \o batch, ToSet(sighted))
    /\ \A q \in Polls : Complete(Due, polls[q].events, ToSet(sighted))

OrderInv == Cursors /\ (resets = 0 => Ordered)

LEMMA NamedStays ==
    ASSUME Grown, NEW S, S \subseteq Logged, NEW S2, S \subseteq S2, NEW time,
           Named(stamp, time, S)
    PROVE  Named(stamp', time, S2)
BY DEF Grown, Named

LEMMA CompleteStill ==
    ASSUME Grown, NEW s \in Seq(Events), ToSet(s) \subseteq Logged, NEW before,
           Complete(Due, s, before), NEW before2, before \subseteq before2
    PROVE  Complete(Due', s, before2)
<1>1. \A e \in Events : \A f \in ToSet(s) : <<e, f>> \in Due' => <<e, f>> \in Due
  BY DEF Grown
<1> DEFINE D == Due
           D2 == Due'
<1>2. /\ Complete(D, s, before)
      /\ \A e \in Events : \A f \in ToSet(s) : <<e, f>> \in D2 => <<e, f>> \in D
  BY <1>1
<1> HIDE DEF D, D2
<1>3. Complete(D2, s, before2)
  BY <1>2, CompleteStays
<1> QED
  BY <1>3 DEF D2

LEMMA Sets ==
    ASSUME TypeInv
    PROVE  /\ ToSet(sighted) \subseteq Logged /\ ToSet(wire) \subseteq Logged
           /\ sighted \in Seq(Events) /\ wire \in Seq(Events) /\ batch \in Seq(Events)
           /\ \A q \in Polls : /\ polls[q].events \in Seq(Events)
                               /\ Distinct(polls[q].events)
                               /\ ToSet(polls[q].events) \subseteq Logged
                               /\ polls[q].since \in Times
           /\ wire \o batch \in Seq(Events) /\ ToSet(wire \o batch) \subseteq Logged
<1>1. /\ ToSet(sighted) \subseteq Logged /\ ToSet(wire) \subseteq Logged
      /\ sighted \in Seq(Events) /\ wire \in Seq(Events) /\ batch \in Seq(Events)
      /\ ToSet(batch) \subseteq Logged
  BY DEF TypeInv, Lists, Listed
<1>2. \A q \in Polls : /\ polls[q].events \in Seq(Events)
                       /\ Distinct(polls[q].events)
                       /\ ToSet(polls[q].events) \subseteq Logged
                       /\ polls[q].since \in Times
  BY DEF TypeInv, Values, Lists, Listed
<1>3. wire \o batch \in Seq(Events)
  BY <1>1, ConcatProperties
<1>4. ToSet(wire \o batch) = ToSet(wire) \union ToSet(batch)
  BY <1>1, ToSetConcat
<1> QED
  BY <1>1, <1>2, <1>3, <1>4

LEMMA InitOrderInv == Init => OrderInv
<1> SUFFICES ASSUME Init PROVE OrderInv
  OBVIOUS
<1>1. Cursors
  BY DEF Init, Cursors, Named, NoPoll
<1>2. LogIsTail
  <2>1. DOMAIN <<>> = {} /\ Len(<<>>) = 0
    OBVIOUS
  <2> QED
    BY <2>1 DEF Init, LogIsTail
<1>3. \A q \in Polls : polls[q].events = <<>>
  BY DEF Init, NoPoll
<1>4. wire \o batch = <<>>
  BY EmptySeq, ConcatEmptySeq DEF Init
<1>5. Complete(Due, wire \o batch, ToSet(sighted))
  BY <1>4, CompleteEmpty
<1>6. Complete(Due, sighted, {})
  BY CompleteEmpty DEF Init
<1>7. \A q \in Polls : Complete(Due, polls[q].events, ToSet(sighted))
  BY <1>3, CompleteEmpty
<1> QED
  BY <1>1, <1>2, <1>5, <1>6, <1>7 DEF OrderInv, Ordered

\* A step keeps the order of whatever it does not touch.
LEMMA OrderedStill ==
    ASSUME TypeInv, Grown, OrderInv, resets = 0, UNCHANGED sighted
    PROVE  /\ Complete(Due', sighted', {})
           /\ UNCHANGED <<wire, batch>> =>
                  Complete(Due', wire' \o batch', ToSet(sighted'))
           /\ \A q \in Polls : Complete(Due', polls[q].events, ToSet(sighted'))
<1>1. Ordered
  BY DEF OrderInv
<1>2. Complete(Due', sighted, {})
  BY <1>1, Sets, CompleteStill DEF Ordered
<1>3. Complete(Due', wire \o batch, ToSet(sighted))
  BY <1>1, Sets, CompleteStill DEF Ordered
<1>4. \A q \in Polls : Complete(Due', polls[q].events, ToSet(sighted))
  BY <1>1, Sets, CompleteStill DEF Ordered
<1> QED
  BY <1>2, <1>3, <1>4

\* What the dashboard handles, when it lacks nothing that is due.
LEMMA HandleKeepsOrder ==
    ASSUME TypeInv, Grown, Cursors, Complete(Due, sighted, {}),
           NEW es \in Seq(Events), Distinct(es), ToSet(es) \subseteq Logged,
           Complete(Due, es, ToSet(sighted)), Handle(es)
    PROVE  /\ Complete(Due', sighted', {})
           /\ Named(stamp', latest', ToSet(sighted'))
           /\ ToSet(sighted') = ToSet(sighted) \union ToSet(es)
<1> DEFINE r == Only(es, Events \ ToSet(sighted))
<1>1. /\ latest' = latest \/ \E e \in ToSet(es) : stamp[e] = latest'
      /\ sighted' = sighted \o r
      /\ sighted' \in Seq(Events)
      /\ ToSet(sighted') = ToSet(sighted) \union ToSet(es)
  BY HandleKeeps
<1>2. /\ sighted \in Seq(Events) /\ ToSet(sighted) \subseteq Logged
  BY Sets
<1>3. /\ r \in Seq(Events)
  BY OnlyKeeps
<1>4. Complete(Due, r, ToSet(sighted))
  BY CompleteOnly
<1> HIDE DEF r
<1>5. Complete(Due, sighted \o r, {})
  <2>1. {} \union ToSet(sighted) = ToSet(sighted)
    OBVIOUS
  <2>2. Complete(Due, r, {} \union ToSet(sighted))
    BY <1>4, <2>1
  <2> QED
    BY <1>2, <1>3, <2>2, CompleteJoin
<1>6. Complete(Due', sighted', {})
  <2>1. Complete(Due, sighted', {}) /\ ToSet(sighted') \subseteq Logged
    BY <1>1, <1>2, <1>5
  <2> DEFINE u == sighted'
  <2>2. u \in Seq(Events) /\ Complete(Due, u, {}) /\ ToSet(u) \subseteq Logged
    BY <1>1, <2>1
  <2> HIDE DEF u
  <2>3. Complete(Due', u, {})
    BY <2>2, CompleteStill
  <2> QED
    BY <2>3 DEF u
<1>7. Named(stamp', latest', ToSet(sighted'))
  <2>1. Named(stamp, latest', ToSet(sighted'))
    BY <1>1 DEF Cursors, Named
  <2>2. ToSet(sighted') \subseteq Logged
    BY <1>1, <1>2
  <2> QED
    BY <2>1, <2>2, NamedStays
<1> QED
  BY <1>1, <1>6, <1>7

LEMMA LogIsTailStays ==
    ASSUME LogIsTail, UNCHANGED <<log, appended>> PROVE LogIsTail'
BY DEF LogIsTail

LEMMA CursorsStill ==
    ASSUME TypeInv, Grown, Cursors, ToSet(sighted) \subseteq ToSet(sighted')
    PROVE  /\ Named(stamp', latest, ToSet(sighted'))
           /\ \A q \in Polls : Named(stamp', polls[q].since, ToSet(sighted'))
           /\ mode = "sse" /\ ToSet(wire) \subseteq ToSet(sighted') \union ToSet(wire') =>
                  Named(stamp', cursor, ToSet(sighted') \union ToSet(wire'))
<1>1. ToSet(sighted) \subseteq Logged /\ ToSet(sighted) \union ToSet(wire) \subseteq Logged
  BY Sets
<1>2. Named(stamp', latest, ToSet(sighted'))
  BY <1>1, NamedStays DEF Cursors
<1>3. \A q \in Polls : Named(stamp', polls[q].since, ToSet(sighted'))
  BY <1>1, NamedStays DEF Cursors
<1>4. ASSUME mode = "sse", ToSet(wire) \subseteq ToSet(sighted') \union ToSet(wire')
      PROVE  Named(stamp', cursor, ToSet(sighted') \union ToSet(wire'))
  <2> DEFINE S == ToSet(sighted) \union ToSet(wire)
             S2 == ToSet(sighted') \union ToSet(wire')
  <2>1. S \subseteq Logged /\ S \subseteq S2 /\ Named(stamp, cursor, S)
    BY <1>1, <1>4 DEF Cursors
  <2> HIDE DEF S, S2
  <2>2. Named(stamp', cursor, S2)
    BY <2>1, NamedStays
  <2> QED
    BY <2>2 DEF S2
<1> QED
  BY <1>2, <1>3, <1>4

\* The steps that leave the stream, the polls and the dashboard alone.
LEMMA LogKeepsOrder ==
    ASSUME TypeInv, Grown, OrderInv, UNCHANGED <<streamVars, mode, polls, dashVars>>,
           resets' = 0 => resets = 0,
           resets' = 0 /\ LogIsTail => LogIsTail'
    PROVE  OrderInv'
<1> USE DEF streamVars, dashVars
<1>1. Cursors'
  BY CursorsStill DEF OrderInv, Cursors
<1>2. ASSUME resets' = 0 PROVE Ordered'
  BY <1>2, OrderedStill DEF OrderInv, Ordered
<1> QED
  BY <1>1, <1>2 DEF OrderInv

LEMMA AppendKeepsTail ==
    ASSUME TypeInv, NEW e \in Events, AppendEvent(e), LogIsTail PROVE LogIsTail'
<1>1. /\ log' = Newest(Append(log, e), MaxEvents)
      /\ appended' = Append(appended, e)
  BY DEF AppendEvent
<1>2. /\ log \in Seq(Events) /\ appended \in Seq(Events)
      /\ Len(log) \in Nat /\ DOMAIN log = 1..Len(log)
      /\ Len(appended) \in Nat
  BY LenProperties DEF TypeInv, Lists, Listed
<1> DEFINE l == Append(log, e)
<1>3. /\ l \in Seq(Events) /\ Len(l) = Len(log) + 1
      /\ \A i \in 1..Len(log) : l[i] = log[i]
      /\ l[Len(log) + 1] = e
  BY <1>2, AppendProperties
<1>4. /\ appended' \in Seq(Events) /\ Len(appended') = Len(appended) + 1
      /\ \A i \in 1..Len(appended) : appended'[i] = appended[i]
      /\ appended'[Len(appended) + 1] = e
  BY <1>1, <1>2, AppendProperties
<1>5. log' = Newest(l, MaxEvents)
  BY <1>1
<1> HIDE DEF l
<1>6. PICK d \in Nat :
          /\ Len(log) + d = Len(appended)
          /\ \A i \in DOMAIN log : log[i] = appended[i + d]
          /\ d = 0 \/ Len(log) = MaxEvents
  BY DEF LogIsTail
<1>7. PICK c \in Nat :
          /\ log' \in Seq(Events)
          /\ Len(log') + c = Len(l)
          /\ Len(log') <= MaxEvents
          /\ c = 0 \/ Len(log') = MaxEvents
          /\ \A k \in 1..Len(log') : log'[k] = l[k + c]
  <2>1. MaxEvents \in Nat \ {0}
    BY EventsFacts
  <2>2. \E c \in Nat :
            /\ Newest(l, MaxEvents) \in Seq(Events)
            /\ Len(Newest(l, MaxEvents)) + c = Len(l)
            /\ Len(Newest(l, MaxEvents)) <= MaxEvents
            /\ c = 0 \/ Len(Newest(l, MaxEvents)) = MaxEvents
            /\ \A k \in 1..Len(Newest(l, MaxEvents)) :
                   Newest(l, MaxEvents)[k] = l[k + c]
    <3>1. l \in Seq(Events)
      BY <1>3
    <3> QED
      BY <2>1, <3>1, NewestIsTail
  <2> QED
    BY <1>5, <2>2
<1>8. Len(log') \in Nat /\ DOMAIN log' = 1..Len(log')
  BY <1>7, LenProperties
<1>9. ASSUME NEW i \in 1..Len(l) PROVE l[i] = appended'[i + d]
  <2>1. CASE i = Len(log) + 1
    <3>1. i + d = Len(appended) + 1
      BY <1>2, <1>6, <2>1
    <3> QED
      BY <1>3, <1>4, <2>1, <3>1
  <2>2. CASE i # Len(log) + 1
    <3>1. i \in 1..Len(log) /\ i + d \in 1..Len(appended)
      BY <1>2, <1>3, <1>6, <2>2
    <3> QED
      BY <1>2, <1>3, <1>4, <1>6, <3>1
  <2> QED
    BY <2>1, <2>2
<1>10. c + d \in Nat /\ Len(log') + (c + d) = Len(appended')
  <2>1. /\ Len(log) + d = Len(appended) /\ Len(log') + c = Len(log) + 1
        /\ Len(appended') = Len(appended) + 1
    BY <1>3, <1>4, <1>6, <1>7
  <2> QED
    BY <1>2, <1>8, <2>1
<1>11. ASSUME NEW i \in DOMAIN log' PROVE log'[i] = appended'[i + (c + d)]
  <2>1. i + c \in 1..Len(l) /\ (i + c) + d = i + (c + d)
    BY <1>2, <1>3, <1>7, <1>8
  <2> QED
    BY <1>7, <1>8, <1>9, <2>1
<1>12. c + d = 0 \/ Len(log') = MaxEvents
  <2>1. /\ Len(log') + c = Len(log) + 1 /\ Len(log') <= MaxEvents
        /\ c = 0 \/ Len(log') = MaxEvents
        /\ d = 0 \/ Len(log) = MaxEvents
    BY <1>3, <1>6, <1>7
  <2>2. /\ Len(log') \in Nat /\ Len(log) \in Nat /\ MaxEvents \in Nat
        /\ c \in Nat /\ d \in Nat
    BY <1>2, <1>6, <1>7, <1>8, EventsFacts
  <2>3. CASE c # 0
    BY <2>1, <2>3
  <2>4. CASE c = 0 /\ d # 0
    BY <2>1, <2>2, <2>4
  <2> QED
    BY <2>3, <2>4
<1> QED
  BY <1>10, <1>11, <1>12 DEF LogIsTail

-----------------------------------------------------------------------------
(* The reads under way.                                                    *)

\* Before the first clear no read has anything behind it that is not in its
\* list.
ReadInOrder(r) ==
    /\ reads[r].stage = "live" => reads[r].seen = <<>> /\ reads[r].next = 0
    /\ reads[r].stage = "replaced" => Stretch(reads[r].seen)

ReadsInv == resets = 0 => \A r \in Readers : ReadInOrder(r)

LEMMA FromTheStart ==
    ASSUME NEW E, NEW s \in Seq(E)
    PROVE  <<>> \o SubSeq(s, 0 + 1, Len(s)) = s
<1> DEFINE t == SubSeq(s, 0 + 1, Len(s))
<1>1. Len(s) \in Nat
  BY LenProperties
<1>2. \A i \in (0 + 1)..Len(s) : s[i] \in E
  BY <1>1, ElementOfSeq
<1>3. /\ t \in Seq(E)
      /\ Len(t) = IF 0 + 1 <= Len(s) THEN Len(s) - (0 + 1) + 1 ELSE 0
      /\ \A i \in 1..Len(s) - (0 + 1) + 1 : t[i] = s[0 + 1 + i - 1]
  BY <1>1, <1>2, SubSeqProperties
<1> HIDE DEF t
<1>4. Len(t) = Len(s) /\ \A i \in 1..Len(t) : t[i] = s[i]
  BY <1>1, <1>3
<1>5. t = s
  BY <1>3, <1>4, SeqEqual
<1>6. <<>> \o s = s
  BY ConcatEmptySeq
<1> QED
  BY <1>5, <1>6 DEF t

LEMMA ViewIsStretch ==
    ASSUME TypeInv, LogIsTail, NEW r \in Readers, ReadInOrder(r),
           reads[r].stage # "none"
    PROVE  Stretch(View(r))
<1>1. CASE reads[r].stage = "live"
  <2>1. View(r) = <<>> \o SubSeq(log, 0 + 1, Len(log))
    BY <1>1 DEF View, Met, ReadInOrder
  <2>2. log \in Seq(Events) /\ Len(log) \in Nat
    BY LenProperties DEF TypeInv, Lists, Listed
  <2>3. View(r) = log
    BY <2>1, <2>2, FromTheStart
  <2>4. Len(appended) \in Nat /\ MaxEvents \in Nat
    BY EventsFacts, LenProperties DEF TypeInv, Lists
  <2>5. Stretch(log)
    <3>1. PICK d \in Nat : /\ Len(log) + d = Len(appended)
                           /\ \A i \in DOMAIN log : log[i] = appended[i + d]
                           /\ d = 0 \/ Len(log) = MaxEvents
      BY DEF LogIsTail
    <3>2. Len(log) + d <= Len(appended) /\ (d = 0 \/ Len(log) >= MaxEvents)
      BY <2>2, <2>4, <3>1
    <3> QED
      BY <3>1, <3>2 DEF Stretch
  <2> QED
    BY <2>3, <2>5
<1>2. CASE reads[r].stage = "replaced"
  BY <1>2 DEF View, ReadInOrder
<1>3. reads[r].stage \in {"none", "live", "replaced"}
  BY DEF TypeInv, Values
<1> QED
  BY <1>1, <1>2, <1>3

\* A stretch of what was appended stays one.
LEMMA StretchStays ==
    ASSUME TypeInv, NEW list \in Seq(Events), Stretch(list),
           \/ appended' = appended
           \/ \E e \in Events : appended' = Append(appended, e)
    PROVE  \E d \in Nat :
               /\ Len(list) + d <= Len(appended')
               /\ \A i \in DOMAIN list : list[i] = appended'[i + d]
               /\ d = 0 \/ Len(list) >= MaxEvents
<1>1. PICK d \in Nat :
          /\ Len(list) + d <= Len(appended)
          /\ \A i \in DOMAIN list : list[i] = appended[i + d]
          /\ d = 0 \/ Len(list) >= MaxEvents
  BY DEF Stretch
<1>2. /\ appended \in Seq(Events) /\ Len(appended) \in Nat
      /\ Len(list) \in Nat /\ DOMAIN list = 1..Len(list)
  BY LenProperties DEF TypeInv, Lists
<1>3. CASE appended' = appended
  BY <1>1, <1>3
<1>4. ASSUME NEW e \in Events, appended' = Append(appended, e)
      PROVE  /\ Len(list) + d <= Len(appended')
             /\ \A i \in DOMAIN list : list[i] = appended'[i + d]
  <2>1. /\ Len(appended') = Len(appended) + 1
        /\ \A i \in 1..Len(appended) : appended'[i] = appended[i]
    BY <1>2, <1>4, AppendProperties
  <2>2. \A i \in DOMAIN list : i + d \in 1..Len(appended)
    BY <1>1, <1>2
  <2> QED
    BY <1>1, <1>2, <2>1, <2>2
<1> QED
  BY <1>1, <1>3, <1>4

\* The list that gives way, with its newest event.
LEMMA FullListIsStretch ==
    ASSUME TypeInv, LogIsTail, NEW e \in Events, appended' = Append(appended, e),
           Len(log) >= MaxEvents
    PROVE  \E d \in Nat :
               /\ Len(Append(log, e)) + d <= Len(appended')
               /\ \A i \in DOMAIN Append(log, e) : Append(log, e)[i] = appended'[i + d]
               /\ d = 0 \/ Len(Append(log, e)) >= MaxEvents
<1>1. PICK d \in Nat :
          /\ Len(log) + d = Len(appended)
          /\ \A i \in DOMAIN log : log[i] = appended[i + d]
  BY DEF LogIsTail
<1>2. /\ log \in Seq(Events) /\ appended \in Seq(Events)
      /\ Len(log) \in Nat /\ DOMAIN log = 1..Len(log)
      /\ Len(appended) \in Nat /\ MaxEvents \in Nat
  BY EventsFacts, LenProperties DEF TypeInv, Lists, Listed
<1> DEFINE l == Append(log, e)
<1>3. /\ l \in Seq(Events) /\ Len(l) = Len(log) + 1
      /\ \A i \in 1..Len(log) : l[i] = log[i]
      /\ l[Len(log) + 1] = e
  BY <1>2, AppendProperties
<1>4. /\ Len(appended') = Len(appended) + 1
      /\ \A i \in 1..Len(appended) : appended'[i] = appended[i]
      /\ appended'[Len(appended) + 1] = e
  BY <1>2, AppendProperties
<1> HIDE DEF l
<1>5. DOMAIN l = 1..Len(l)
  BY <1>3, LenProperties
<1>6. ASSUME NEW i \in DOMAIN l PROVE l[i] = appended'[i + d]
  <2>1. CASE i = Len(log) + 1
    <3>1. i + d = Len(appended) + 1
      BY <1>1, <1>2, <2>1
    <3> QED
      BY <1>3, <1>4, <2>1, <3>1
  <2>2. CASE i # Len(log) + 1
    <3>1. i \in 1..Len(log) /\ i + d \in 1..Len(appended)
      BY <1>1, <1>2, <1>3, <1>5, <2>2
    <3> QED
      BY <1>1, <1>2, <1>3, <1>4, <3>1
  <2> QED
    BY <2>1, <2>2
<1>7. Len(l) + d <= Len(appended') /\ Len(l) >= MaxEvents
  BY <1>1, <1>2, <1>3, <1>4
<1> QED
  BY <1>6, <1>7 DEF l

LEMMA AppendKeepsReads ==
    ASSUME TypeInv, OrderInv, ReadsInv, NEW e \in Events, AppendEvent(e)
    PROVE  ReadsInv'
<1> SUFFICES ASSUME resets = 0, NEW r \in Readers PROVE ReadInOrder(r)'
  BY DEF ReadsInv, AppendEvent
<1>1. LogIsTail /\ ReadInOrder(r) /\ appended' = Append(appended, e)
  BY DEF OrderInv, Ordered, ReadsInv, AppendEvent
<1> DEFINE s == reads[r].seen
           l == Append(log, e)
<1>2. s \in Seq(Events) /\ log \in Seq(Events) /\ l \in Seq(Events)
  BY AppendProperties DEF TypeInv, Values, Lists, Listed
<1>3. \/ reads'[r] = reads[r]
      \/ /\ reads[r].stage = "live" /\ Len(log) >= MaxEvents
         /\ reads'[r] = [stage |-> "replaced", seen |-> Met(r, l), next |-> 0]
  <2>1. Len(log) \in Nat /\ MaxEvents \in Nat
    BY <1>2, EventsFacts, LenProperties
  <2> QED
    BY <2>1 DEF AppendEvent, Replaced
<1>4. CASE reads'[r] = reads[r]
  <2>1. ASSUME reads[r].stage = "replaced"
        PROVE  \E d \in Nat :
                   /\ Len(s) + d <= Len(appended')
                   /\ \A i \in DOMAIN s : s[i] = appended'[i + d]
                   /\ d = 0 \/ Len(s) >= MaxEvents
    BY <1>1, <1>2, <2>1, StretchStays DEF ReadInOrder
  <2> QED
    BY <1>1, <1>4, <2>1 DEF ReadInOrder, Stretch
<1>5. CASE /\ reads[r].stage = "live" /\ Len(log) >= MaxEvents
           /\ reads'[r] = [stage |-> "replaced", seen |-> Met(r, l), next |-> 0]
  <2>1. Met(r, l) = <<>> \o SubSeq(l, 0 + 1, Len(l))
    BY <1>1, <1>5 DEF Met, ReadInOrder
  <2>2. Met(r, l) = l
    <3> HIDE DEF l
    <3> QED
      BY <1>2, <2>1, FromTheStart
  <2>3. reads'[r] = [stage |-> "replaced", seen |-> l, next |-> 0]
    BY <1>5, <2>2
  <2>4. \E d \in Nat :
            /\ Len(l) + d <= Len(appended')
            /\ \A i \in DOMAIN l : l[i] = appended'[i + d]
            /\ d = 0 \/ Len(l) >= MaxEvents
    BY <1>1, <1>5, FullListIsStretch
  <2> HIDE DEF l
  <2> QED
    BY <2>3, <2>4 DEF ReadInOrder, Stretch
<1> QED
  BY <1>3, <1>4, <1>5

\* Reads that begin or end, or go on while nothing is appended or cleared.
LEMMA ReadsStayInOrder ==
    ASSUME TypeInv, ReadsInv, UNCHANGED <<appended, resets>>,
           \A r \in Readers : reads'[r] \in {reads[r], NoRead, BeginRead}
    PROVE  ReadsInv'
<1> SUFFICES ASSUME resets = 0, NEW r \in Readers PROVE ReadInOrder(r)'
  BY DEF ReadsInv
<1>1. ReadInOrder(r)
  BY DEF ReadsInv
<1>2. CASE reads'[r] = reads[r]
  BY <1>1, <1>2 DEF ReadInOrder, Stretch
<1>3. CASE reads'[r] \in {NoRead, BeginRead}
  BY <1>3 DEF ReadInOrder, NoRead, BeginRead
<1> QED
  BY <1>2, <1>3

LEMMA NextReadsInv ==
    TypeInv /\ OrderInv /\ ReadsInv /\ [Next]_vars => ReadsInv'
<1> SUFFICES ASSUME TypeInv, OrderInv, ReadsInv, [Next]_vars PROVE ReadsInv'
  OBVIOUS
<1>1. ASSUME NEW e \in Events, AppendEvent(e) PROVE ReadsInv'
  BY <1>1, AppendKeepsReads
<1>2. CASE ResetLog
  BY <1>2 DEF ResetLog, ReadsInv, TypeInv, Values
<1>3. reads \in [Readers -> [stage : {"none", "live", "replaced"},
                            seen : Seq(Events), next : 0..MaxEvents]]
  BY DEF TypeInv, Values
<1>4. ASSUME /\ UNCHANGED <<appended, resets>>
             /\ \/ reads' = reads
                \/ \E r \in Readers : \/ reads' = [reads EXCEPT ![r] = NoRead]
                                      \/ reads' = [reads EXCEPT ![r] = BeginRead]
      PROVE  ReadsInv'
  <2>1. \A r \in Readers : reads'[r] \in {reads[r], NoRead, BeginRead}
    BY <1>3, <1>4
  <2> QED
    BY <1>4, <2>1, ReadsStayInOrder
<1>5. \/ \E e \in Events : AppendEvent(e)
      \/ ResetLog
      \/ /\ UNCHANGED <<appended, resets>>
         /\ \/ reads' = reads
            \/ \E r \in Readers : \/ reads' = [reads EXCEPT ![r] = NoRead]
                                  \/ reads' = [reads EXCEPT ![r] = BeginRead]
  BY EventsFacts
     DEF Next, Stream, vars, logVars, streamVars, dashVars, StampEvent, Tick,
     StreamWake, StreamRead, StreamYield, Receive, ConnectionLost, Ask, BeginPoll,
     AnswerPoll, HandlePoll, LosePoll
<1> QED
  BY <1>1, <1>2, <1>4, <1>5

-----------------------------------------------------------------------------
(* The order is kept.                                                      *)

LEMMA ReadKeepsOrder ==
    ASSUME TypeInv, Grown, OrderInv, ReadsInv, StreamRead PROVE OrderInv'
<1>0. /\ mode = "sse" /\ mode' = "sse" /\ batch = <<>>
      /\ batch' = GetEvents(Generator) /\ reads[Generator].stage # "none"
      /\ UNCHANGED <<stamp, log, appended, cursor, wire, polls, latest, sighted, resets>>
  BY DEF StreamRead, logVars, dashVars, TypeInv, Idle
<1>1. Cursors'
  BY <1>0, CursorsStill DEF OrderInv, Cursors
<1>2. ASSUME resets' = 0 PROVE Ordered'
  <2>1. Ordered /\ LogIsTail
    BY <1>0, <1>2 DEF OrderInv, Ordered
  <2> DEFINE S == ToSet(sighted) \union ToSet(wire)
             a == GetEvents(Generator)
  <2>2. wire \in Seq(Events) /\ sighted \in Seq(Events)
    BY Sets
  <2>3. Complete(Due, wire, ToSet(sighted))
    <3>1. wire \o batch = wire
      BY <1>0, <2>2, ConcatEmptySeq
    <3> QED
      BY <2>1, <3>1 DEF Ordered
  <2>4. Closed(S)
    <3>1. S \subseteq Logged
      BY Sets
    <3>2. ASSUME NEW e \in Events, NEW f \in ToSet(wire), <<e, f>> \in Due
          PROVE  e \in S
      BY <2>2, <2>3, <3>2, CompleteIsClosed
    <3>3. ASSUME NEW e \in Events, NEW f \in ToSet(sighted), <<e, f>> \in Due
          PROVE  e \in S
      <4>1. Complete(Due, sighted, {})
        BY <2>1 DEF Ordered
      <4>2. e \in {} \union ToSet(sighted)
        BY <2>2, <3>3, <4>1, CompleteIsClosed
      <4> QED
        BY <4>2
    <3> QED
      BY <3>1, <3>2, <3>3 DEF Closed
  <2>5. Complete(Due, a, S)
    <3>1. Since(Generator) = cursor /\ cursor \in Times
      BY DEF Since, TypeInv, Values
    <3>2. Named(stamp, cursor, S)
      BY <1>0 DEF OrderInv, Cursors
    <3>3. Generator \in Readers /\ Stretch(View(Generator))
      BY <1>0, <1>2, <2>1, EventsFacts, ViewIsStretch DEF ReadsInv
    <3> QED
      BY <2>4, <3>1, <3>2, <3>3, AnswerIsComplete
  <2>6. a \in Seq(Events) /\ ToSet(a) \subseteq Logged
    BY EventsFacts, GetEventsListed DEF Listed
  <2> HIDE DEF a
  <2>7. Complete(Due, wire \o a, ToSet(sighted))
    BY <2>2, <2>3, <2>5, <2>6, CompleteJoin
  <2>8. wire \o a \in Seq(Events) /\ ToSet(wire \o a) \subseteq Logged
    <3>1. ToSet(wire \o a) = ToSet(wire) \union ToSet(a)
      BY <2>2, <2>6, ToSetConcat
    <3> QED
      BY <2>2, <2>6, <3>1, Sets, ConcatProperties
  <2>9. Complete(Due', wire \o a, ToSet(sighted))
    BY <2>7, <2>8, CompleteStill
  <2>10. Complete(Due', wire' \o batch', ToSet(sighted'))
    BY <1>0, <2>9 DEF a
  <2> QED
    BY <1>0, <1>2, <2>1, <2>10, LogIsTailStays, OrderedStill DEF Ordered
<1> QED
  BY <1>1, <1>2 DEF OrderInv

LEMMA YieldKeepsOrder ==
    ASSUME TypeInv, Grown, OrderInv, StreamYield PROVE OrderInv'
<1> DEFINE h == Head(batch)
           t == Tail(batch)
<1>0. /\ batch # <<>> /\ mode = "sse"
      /\ cursor' = stamp[h] /\ wire' = Append(wire, h) /\ batch' = t
      /\ UNCHANGED <<stamp, log, appended, mode, polls, latest, sighted, resets>>
  BY DEF StreamYield, logVars, dashVars
<1>1. wire \in Seq(Events) /\ batch \in Seq(Events)
  BY Sets
<1>2. h \in Events /\ t \in Seq(Events) /\ batch = <<h>> \o t
  BY <1>0, <1>1, HeadAndTail
<1> HIDE DEF h, t
<1>3. <<h>> \in Seq(Events)
  BY <1>2, Appended
<1>4. Append(wire, h) = wire \o <<h>>
  BY <1>1, <1>2, Appended
<1>5. ToSet(wire') = ToSet(wire) \union {h}
  BY <1>0, <1>1, <1>2, AppendKeeps
<1>6. wire' \o batch' = wire \o batch
  <2> DEFINE s == <<h>>
  <2>1. s \in Seq(Events)
    BY <1>3
  <2> HIDE DEF s
  <2>2. (wire \o s) \o t = wire \o (s \o t)
    BY <1>1, <1>2, <2>1, ConcatAssociative
  <2> QED
    BY <1>0, <1>2, <1>4, <2>2, Zenon DEF s
<1>7. Cursors'
  <2>1. Named(stamp', cursor', ToSet(sighted') \union ToSet(wire'))
    BY <1>0, <1>5 DEF Named
  <2> QED
    BY <1>0, <2>1, CursorsStill DEF OrderInv, Cursors
<1>8. ASSUME resets' = 0 PROVE Ordered'
  <2>1. Ordered
    BY <1>0, <1>8 DEF OrderInv
  <2>2. wire \o batch \in Seq(Events) /\ ToSet(wire \o batch) \subseteq Logged
    BY Sets
  <2>3. Complete(Due', wire \o batch, ToSet(sighted))
    BY <2>1, <2>2, CompleteStill DEF Ordered
  <2>4. Complete(Due', wire' \o batch', ToSet(sighted'))
    BY <1>0, <1>6, <2>3
  <2> QED
    BY <1>0, <1>8, <2>1, <2>4, LogIsTailStays, OrderedStill DEF Ordered
<1> QED
  BY <1>7, <1>8 DEF OrderInv

LEMMA ReceiveKeepsOrder ==
    ASSUME TypeInv, Grown, OrderInv, Receive PROVE OrderInv'
<1> DEFINE h == Head(wire)
           t == Tail(wire)
           s == <<h>>
<1>0. /\ wire # <<>> /\ wire' = t /\ Handle(s)
      /\ UNCHANGED <<stamp, log, appended, cursor, batch, mode, polls, resets>>
  BY DEF Receive, logVars
<1>1. wire \in Seq(Events) /\ batch \in Seq(Events) /\ ToSet(wire) \subseteq Logged
  BY Sets
<1>2. h \in Events /\ t \in Seq(Events) /\ wire = s \o t /\ ToSet(wire) = {h} \union ToSet(t)
  BY <1>0, <1>1, HeadAndTail
<1>3. s \in Seq(Events) /\ ToSet(s) = {h} /\ Distinct(s)
  <2>1. h \in Events
    BY <1>2
  <2> HIDE DEF h
  <2>2. s \in Seq(Events) /\ ToSet(s) = {h}
    BY <1>1, <2>1, Appended
  <2>3. Distinct(s)
    BY DEF Distinct
  <2> QED
    BY <2>2, <2>3
<1> HIDE DEF h, t, s
<1>4. /\ latest' = latest \/ \E e \in ToSet(s) : stamp[e] = latest'
      /\ ToSet(sighted') = ToSet(sighted) \union {h}
  BY <1>0, <1>1, <1>2, <1>3, HandleKeeps
<1>5. Cursors'
  <2>1. Named(stamp', latest', ToSet(sighted'))
    <3>1. Named(stamp', latest, ToSet(sighted'))
      BY <1>4, CursorsStill DEF OrderInv
    <3> QED
      BY <1>0, <1>3, <1>4, <3>1 DEF Named
  <2> QED
    BY <1>0, <1>2, <1>4, <2>1, CursorsStill DEF OrderInv, Cursors
<1>6. ASSUME resets' = 0 PROVE Ordered'
  <2>1. Ordered /\ Cursors
    BY <1>0, <1>6 DEF OrderInv
  <2> DEFINE rest == t \o batch
  <2>2. wire \o batch = s \o rest
    BY <1>1, <1>2, <1>3, ConcatAssociative
  <2>3. rest \in Seq(Events) /\ ToSet(rest) = ToSet(t) \union ToSet(batch)
    BY <1>1, <1>2, ConcatProperties, ToSetConcat
  <2> HIDE DEF rest
  <2>4. Complete(Due, s \o rest, ToSet(sighted))
    BY <2>1, <2>2 DEF Ordered
  <2>5. /\ Complete(Due, s, ToSet(sighted))
        /\ Complete(Due, rest, ToSet(sighted) \union ToSet(s))
    BY <1>3, <2>3, <2>4, CompleteSplit
  <2>6. ToSet(rest) \subseteq Logged
    BY <1>1, <1>2, <2>3 DEF TypeInv, Lists, Listed
  <2>7. Complete(Due', sighted', {})
    BY <1>0, <1>1, <1>2, <1>3, <2>1, <2>5, HandleKeepsOrder DEF Ordered
  <2>8. Complete(Due', rest, ToSet(sighted'))
    BY <1>3, <1>4, <2>3, <2>5, <2>6, CompleteStill
  <2>9. \A q \in Polls : Complete(Due', polls[q].events, ToSet(sighted'))
    BY <1>4, <2>1, Sets, CompleteStill DEF Ordered
  <2> QED
    BY <1>0, <2>1, <2>7, <2>8, <2>9, LogIsTailStays DEF Ordered, rest
<1> QED
  BY <1>5, <1>6 DEF OrderInv

LEMMA LossKeepsOrder ==
    ASSUME TypeInv, Grown, OrderInv, ConnectionLost PROVE OrderInv'
<1>0. /\ mode' = "polling" /\ batch' = <<>> /\ wire' = <<>>
      /\ UNCHANGED <<stamp, log, appended, polls, latest, sighted, resets>>
  BY DEF ConnectionLost, logVars, dashVars
<1>1. Cursors'
  BY <1>0, CursorsStill DEF OrderInv, Cursors
<1>2. wire' \o batch' = <<>>
  BY <1>0, EmptySeq, ConcatEmptySeq
<1>3. Complete(Due', wire' \o batch', ToSet(sighted'))
  BY <1>2, CompleteEmpty
<1>4. ASSUME resets' = 0 PROVE Ordered'
  BY <1>0, <1>3, <1>4, LogIsTailStays, OrderedStill DEF OrderInv, Ordered
<1> QED
  BY <1>1, <1>4 DEF OrderInv

\* A request that is sent, answered or lost leaves the dashboard as it is.
LEMMA PollKeepsOrder ==
    ASSUME TypeInv, Grown, OrderInv, ReadsInv, NEW q \in Polls,
           Ask(q) \/ BeginPoll(q) \/ AnswerPoll(q) \/ LosePoll(q)
    PROVE  OrderInv'
<1>0. UNCHANGED <<stamp, log, appended, cursor, batch, wire, mode, latest, sighted, resets>>
  BY DEF Ask, BeginPoll, AnswerPoll, LosePoll, logVars, streamVars, dashVars
<1>1. polls \in [Polls -> [stage : {"none", "asked", "answered"},
                           since : Times, events : Seq(Events)]]
  BY DEF TypeInv, Values
<1>2. /\ \A p \in Polls : p # q => polls'[p] = polls[p]
      /\ \/ polls'[q].since = latest /\ polls'[q].events = <<>>
         \/ polls'[q] = polls[q]
         \/ /\ polls'[q].since = polls[q].since /\ polls'[q].events = GetEvents(q)
            /\ reads[q].stage # "none"
         \/ polls'[q].since = 0 /\ polls'[q].events = <<>>
  BY <1>1 DEF Ask, BeginPoll, AnswerPoll, LosePoll, NoPoll
<1>3. Named(stamp', polls'[q].since, ToSet(sighted'))
  <2>1. Named(stamp', 0, ToSet(sighted'))
    BY DEF Named
  <2>2. /\ Named(stamp', latest, ToSet(sighted'))
        /\ Named(stamp', polls[q].since, ToSet(sighted'))
    BY <1>0, CursorsStill DEF OrderInv
  <2> QED
    BY <1>2, <2>1, <2>2
<1>4. Cursors'
  BY <1>0, <1>2, <1>3, CursorsStill DEF OrderInv, Cursors
<1>5. ASSUME resets' = 0 PROVE Ordered'
  <2>1. Ordered /\ LogIsTail
    BY <1>0, <1>5 DEF OrderInv, Ordered
  <2>2. Complete(Due', polls'[q].events, ToSet(sighted'))
    <3> DEFINE a == GetEvents(q)
               S == ToSet(sighted)
    <3>1. Closed(S)
      <4>1. S \subseteq Logged /\ sighted \in Seq(Events)
        BY Sets
      <4>2. Complete(Due, sighted, {})
        BY <2>1 DEF Ordered
      <4>3. ASSUME NEW e \in Events, NEW f \in S, <<e, f>> \in Due
            PROVE  e \in {} \union S
        BY <4>1, <4>2, <4>3, CompleteIsClosed
      <4> QED
        BY <4>1, <4>3 DEF Closed
    <3>2. ASSUME reads[q].stage # "none" PROVE Complete(Due', a, S)
      <4>1. Since(q) = polls[q].since /\ polls[q].since \in Times
        BY EventsFacts, Sets DEF Since
      <4>2. Named(stamp, polls[q].since, S)
        BY DEF OrderInv, Cursors
      <4>3. q \in Readers /\ Stretch(View(q))
        BY <1>0, <1>5, <2>1, <3>2, EventsFacts, ViewIsStretch DEF ReadsInv
      <4>4. Complete(Due, a, S)
        BY <3>1, <4>1, <4>2, <4>3, AnswerIsComplete
      <4>5. a \in Seq(Events) /\ ToSet(a) \subseteq Logged
        BY EventsFacts, GetEventsListed DEF Listed
      <4> HIDE DEF a
      <4> QED
        BY <4>4, <4>5, CompleteStill
    <3>3. Complete(Due', <<>>, S)
      BY CompleteEmpty
    <3>4. Complete(Due', polls[q].events, S)
      BY <1>0, <1>5, OrderedStill
    <3> HIDE DEF a
    <3> QED
      BY <1>0, <1>2, <3>2, <3>3, <3>4 DEF a
  <2>3. ASSUME NEW p \in Polls PROVE Complete(Due', polls'[p].events, ToSet(sighted'))
    <3>1. CASE p = q
      BY <2>2, <3>1
    <3>2. CASE p # q
      <4>1. Complete(Due', polls[p].events, ToSet(sighted'))
        BY <1>0, <1>5, OrderedStill
      <4> QED
        BY <1>2, <3>2, <4>1
    <3> QED
      BY <3>1, <3>2
  <2> QED
    BY <1>0, <1>5, <2>1, <2>3, LogIsTailStays, OrderedStill DEF Ordered
<1> QED
  BY <1>4, <1>5 DEF OrderInv

LEMMA HandlePollKeepsOrder ==
    ASSUME TypeInv, Grown, OrderInv, NEW q \in Polls, HandlePoll(q)
    PROVE  OrderInv'
<1> DEFINE es == polls[q].events
<1>0. /\ Handle(es) /\ polls' = [polls EXCEPT ![q] = NoPoll]
      /\ UNCHANGED <<stamp, log, appended, cursor, batch, wire, mode, resets>>
  BY DEF HandlePoll, logVars, streamVars
<1>1. es \in Seq(Events) /\ Distinct(es) /\ ToSet(es) \subseteq Logged
  BY Sets
<1>2. polls \in [Polls -> [stage : {"none", "asked", "answered"},
                           since : Times, events : Seq(Events)]]
  BY DEF TypeInv, Values
<1>3. \A p \in Polls : \/ polls'[p] = polls[p]
                       \/ polls'[p].since = 0 /\ polls'[p].events = <<>>
  BY <1>0, <1>2 DEF NoPoll
<1> HIDE DEF es
<1>4. /\ latest' = latest \/ \E e \in ToSet(es) : stamp[e] = latest'
      /\ ToSet(sighted') = ToSet(sighted) \union ToSet(es)
  BY <1>0, <1>1, HandleKeeps
<1>5. Cursors'
  <2>1. Named(stamp', latest', ToSet(sighted'))
    <3>1. Named(stamp', latest, ToSet(sighted'))
      BY <1>4, CursorsStill DEF OrderInv
    <3> QED
      BY <1>0, <1>4, <3>1 DEF Named
  <2>2. \A p \in Polls : Named(stamp', polls'[p].since, ToSet(sighted'))
    <3>1. \A p \in Polls : Named(stamp', polls[p].since, ToSet(sighted'))
      BY <1>4, CursorsStill DEF OrderInv
    <3>2. Named(stamp', 0, ToSet(sighted'))
      BY DEF Named
    <3> QED
      BY <1>3, <3>1, <3>2
  <2>3. mode' = "sse" => Named(stamp', cursor', ToSet(sighted') \union ToSet(wire'))
    BY <1>0, <1>4, CursorsStill DEF OrderInv
  <2> QED
    BY <2>1, <2>2, <2>3 DEF Cursors
<1>6. ASSUME resets' = 0 PROVE Ordered'
  <2>1. Ordered /\ Cursors
    BY <1>0, <1>6 DEF OrderInv
  <2>2. Complete(Due, es, ToSet(sighted))
    BY <2>1 DEF Ordered, es
  <2>3. Complete(Due', sighted', {})
    BY <1>0, <1>1, <2>1, <2>2, HandleKeepsOrder DEF Ordered
  <2>4. Complete(Due', wire \o batch, ToSet(sighted'))
    BY <1>4, <2>1, Sets, CompleteStill DEF Ordered
  <2>5. \A p \in Polls : Complete(Due', polls[p].events, ToSet(sighted'))
    BY <1>4, <2>1, Sets, CompleteStill DEF Ordered
  <2>6. \A p \in Polls : Complete(Due', polls'[p].events, ToSet(sighted'))
    BY <1>3, <2>5, CompleteEmpty
  <2> QED
    BY <1>0, <2>1, <2>3, <2>4, <2>6, LogIsTailStays DEF Ordered
<1> QED
  BY <1>5, <1>6 DEF OrderInv

LEMMA NextOrderInv ==
    TypeInv /\ OrderInv /\ ReadsInv /\ [Next]_vars => OrderInv'
<1> SUFFICES ASSUME TypeInv, OrderInv, ReadsInv, [Next]_vars PROVE OrderInv'
  OBVIOUS
<1>0. Grown
  BY NextGrows
<1> USE <1>0
<1>1. ASSUME NEW e \in Events, StampEvent(e) PROVE OrderInv'
  BY <1>1, LogKeepsOrder, LogIsTailStays DEF StampEvent
<1>2. ASSUME NEW e \in Events, AppendEvent(e) PROVE OrderInv'
  <2>1. LogIsTail => LogIsTail'
    BY <1>2, AppendKeepsTail
  <2> QED
    BY <1>2, <2>1, LogKeepsOrder DEF AppendEvent
<1>3. CASE Tick
  BY <1>3, LogKeepsOrder, LogIsTailStays DEF Tick
<1>w. CASE StreamWake
  BY <1>w, LogKeepsOrder, LogIsTailStays DEF StreamWake, logVars
<1>4. CASE StreamRead
  BY <1>4, ReadKeepsOrder
<1>5. CASE StreamYield
  BY <1>5, YieldKeepsOrder
<1>6. CASE Receive
  BY <1>6, ReceiveKeepsOrder
<1>7. CASE ConnectionLost
  BY <1>7, LossKeepsOrder
<1>8. ASSUME NEW q \in Polls, Ask(q) \/ BeginPoll(q) \/ AnswerPoll(q) \/ LosePoll(q)
      PROVE  OrderInv'
  BY <1>8, PollKeepsOrder
<1>9. ASSUME NEW q \in Polls, HandlePoll(q) PROVE OrderInv'
  BY <1>9, HandlePollKeepsOrder
<1>10. CASE ResetLog
  <2>1. resets' # 0
    BY <1>10 DEF ResetLog, TypeInv, Values
  <2> QED
    BY <1>10, <2>1, LogKeepsOrder DEF ResetLog
<1>11. CASE UNCHANGED vars
  BY <1>11, LogKeepsOrder, LogIsTailStays DEF vars, logVars
<1> QED
  BY <1>1, <1>2, <1>3, <1>w, <1>4, <1>5, <1>6, <1>7, <1>8, <1>9, <1>10, <1>11
     DEF Next, Stream

LEMMA OrderInvImpliesOrder == TypeInv /\ OrderInv => SeenInLogOrder
<1> SUFFICES ASSUME TypeInv, OrderInv, resets = 0,
                    NEW i \in DOMAIN sighted, NEW j \in DOMAIN sighted, i < j,
                    ~ (Position(sighted[i]) < Position(sighted[j])),
                    ~ Missable(sighted[j])
             PROVE  FALSE
  BY DEF SeenInLogOrder, Missable
<1>1. /\ sighted \in Seq(Events) /\ Distinct(sighted) /\ ToSet(sighted) \subseteq Logged
  BY DEF TypeInv, Lists, Listed
<1>2. /\ sighted[i] \in Logged /\ sighted[j] \in Logged /\ sighted[j] \in Events
      /\ i \in Nat /\ j \in Nat
  BY <1>1, ElementType
<1>3. /\ Position(sighted[i]) \in Nat
      /\ appended[Position(sighted[i])] = sighted[i]
      /\ Position(sighted[j]) \in Nat
      /\ appended[Position(sighted[j])] = sighted[j]
  BY <1>2, PositionType DEF TypeInv
<1>4. Position(sighted[i]) # Position(sighted[j])
  <2>1. sighted[i] # sighted[j]
    BY <1>1, <1>2 DEF Distinct
  <2> QED
    BY <1>3, <2>1
<1>5. <<sighted[j], sighted[i]>> \in Due
  BY <1>2, <1>3, <1>4 DEF Due
<1>6. \E k \in DOMAIN sighted : k < i /\ sighted[k] = sighted[j]
  <2>1. Complete(Due, sighted, {})
    BY DEF OrderInv, Ordered
  <2> QED
    BY <1>2, <1>5, <2>1 DEF Complete
<1>7. PICK k \in DOMAIN sighted : k < i /\ sighted[k] = sighted[j]
  BY <1>6
<1>8. k = j
  BY <1>1, <1>7 DEF Distinct
<1> QED
  BY <1>2, <1>7, <1>8

-----------------------------------------------------------------------------
(* The theorems.                                                           *)

\* The types of the log, of the stream and of the polls: no list grows beyond
\* its limit, and no event is in one twice.
THEOREM TypeCorrect == Spec => []TypeOK
<1>1. Init => TypeInv
  BY InitTypeInv
<1>2. TypeInv /\ [Next]_vars => TypeInv'
  BY NextTypeInv
<1>3. TypeInv => TypeOK
  BY TypeInvImpliesTypeOK
<1> QED
  BY <1>1, <1>2, <1>3, PTL DEF Spec

\* The dashboard meets events in the order of the log, though the stream
\* breaks and answers to polls overtake each other: only events that another
\* thread's later event overtook, or newer ones crowded out of an answer, come
\* late.
THEOREM LogOrder == Spec => []SeenInLogOrder
<1>1. Init => TypeInv /\ OrderInv /\ ReadsInv
  <2>1. Init => ReadsInv
    BY DEF Init, ReadsInv, ReadInOrder, NoRead
  <2> QED
    BY <2>1, InitTypeInv, InitOrderInv
<1>2. TypeInv /\ OrderInv /\ ReadsInv /\ [Next]_vars
      => TypeInv' /\ OrderInv' /\ ReadsInv'
  BY NextTypeInv, NextOrderInv, NextReadsInv
<1>3. TypeInv /\ OrderInv => SeenInLogOrder
  BY OrderInvImpliesOrder
<1> QED
  BY <1>1, <1>2, <1>3, PTL DEF Spec
=============================================================================
