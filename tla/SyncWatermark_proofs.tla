------------------------ MODULE SyncWatermark_proofs ------------------------
(***************************************************************************)
(* Proofs about SyncWatermark, for any handles, items, rounds and settings. *)
(***************************************************************************)
EXTENDS SyncWatermark, TLAPS, FiniteSetTheorems, WellFoundedInduction

-----------------------------------------------------------------------------
(* The harvest as a sequence *)

\* The place of a handle in the order of a set: how many are listed before it.
Place(hs, h) == Cardinality({g \in hs : g < h}) + 1

\* Two handles are listed in the order of their numbers, hence in different places.
LEMMA PlacesGrow ==
    ASSUME NEW hs \in SUBSET Handles
    PROVE  /\ IsFiniteSet(hs) /\ Cardinality(hs) \in Nat
           /\ \A h \in hs : Place(hs, h) \in 1 .. Cardinality(hs)
           /\ \A g, h \in hs : g < h => Place(hs, g) < Place(hs, h)
<1> USE SyncAssumption
<1>1. IsFiniteSet(hs) /\ Cardinality(hs) \in Nat
  BY FS_Subset, FS_CardinalityType
<1>2. ASSUME NEW h \in hs
      PROVE  /\ IsFiniteSet({g \in hs : g < h}) /\ Cardinality({g \in hs : g < h}) \in Nat
             /\ Cardinality({g \in hs : g < h}) < Cardinality(hs)
  <2>1. {g \in hs : g < h} \in SUBSET hs /\ h \notin {g \in hs : g < h}
    OBVIOUS
  <2>2. /\ IsFiniteSet({g \in hs : g < h}) /\ Cardinality({g \in hs : g < h}) \in Nat
        /\ Cardinality({g \in hs : g < h}) <= Cardinality(hs)
        /\ Cardinality(hs) = Cardinality({g \in hs : g < h}) => hs = {g \in hs : g < h}
    BY <1>1, <2>1, FS_Subset, FS_CardinalityType
  <2>3. QED
    BY <1>1, <2>1, <2>2
<1>3. ASSUME NEW g \in hs, NEW h \in hs, g < h PROVE Place(hs, g) < Place(hs, h)
  <2> DEFINE A == {x \in hs : x < g}
             B == {x \in hs : x < h}
  <2>1. A \in SUBSET B /\ g \in B /\ g \notin A
    <3>1. hs \subseteq Nat
      OBVIOUS
    <3>2. ASSUME NEW x \in A PROVE x \in B
      <4>1. x \in hs /\ x < g
        OBVIOUS
      <4>2. x < h
        BY <1>3, <3>1, <4>1
      <4>3. QED
        BY <4>1, <4>2
    <3>3. ~(g < g)
      BY <3>1
    <3>4. QED
      BY <1>3, <3>2, <3>3
  <2>2. IsFiniteSet(B) /\ Cardinality(A) \in Nat /\ Cardinality(B) \in Nat
    BY <1>2, Zenon
  <2>3. Place(hs, g) = Cardinality(A) + 1 /\ Place(hs, h) = Cardinality(B) + 1
    BY DEF Place
  <2> HIDE DEF A, B
  <2>4. Cardinality(A) <= Cardinality(B) /\ (Cardinality(B) = Cardinality(A) => B = A)
    BY <2>1, <2>2, FS_Subset
  <2>5. QED
    BY <2>1, <2>2, <2>3, <2>4
<1>4. QED
  BY <1>1, <1>2, <1>3 DEF Place

\* A set of handles can be listed in order, and a listing has each of them once.
LEMMA InOrderLists ==
    ASSUME NEW hs \in SUBSET Handles
    PROVE  /\ InOrder(hs) \in Seq(hs)
           /\ \A h \in hs : \E i \in DOMAIN InOrder(hs) : InOrder(hs)[i] = h
           /\ \A i, j \in DOMAIN InOrder(hs) : InOrder(hs)[i] = InOrder(hs)[j] => i = j
<1> DEFINE n == Cardinality(hs)
           rank == [h \in hs |-> Place(hs, h)]
           listing == [i \in 1 .. n |-> CHOOSE h \in hs : rank[h] = i]
<1> USE SyncAssumption
<1>1. n \in Nat /\ IsFiniteSet(1 .. n) /\ Cardinality(1 .. n) = n /\ IsFiniteSet(hs)
  <2>1. IsFiniteSet(hs)
    BY FS_Subset
  <2>2. n \in Nat
    BY <2>1, FS_CardinalityType
  <2>3. QED
    BY <2>1, <2>2, FS_Interval
<1>2. rank \in Surjection(hs, 1 .. n)
  <2>1. rank \in [hs -> 1 .. n]
    BY PlacesGrow
  <2>2. ASSUME NEW g \in hs, NEW h \in hs, rank[g] = rank[h] PROVE g = h
    <3>1. g \in Nat /\ h \in Nat /\ rank[g] \in Nat /\ rank[h] \in Nat
      BY <2>1
    <3>2. ~(g < h) /\ ~(h < g)
      BY <2>2, <3>1, PlacesGrow
    <3>3. QED
      BY <3>1, <3>2
  <2>3. rank \in Injection(hs, 1 .. n)
    BY <2>1, <2>2 DEF Injection, IsInjective
  <2>4. QED
    BY <1>1, <2>3, FS_Injection
<1>3. ASSUME NEW i \in 1 .. n PROVE listing[i] \in hs /\ rank[listing[i]] = i
  <2>1. \E h \in hs : rank[h] = i
    BY <1>2 DEF Surjection
  <2>2. QED
    BY <2>1
<1>4. ASSUME NEW i \in 1 .. n, NEW j \in 1 .. n, i < j PROVE listing[i] < listing[j]
  <2>1. /\ listing[i] \in hs /\ listing[j] \in hs
        /\ Place(hs, listing[i]) = i /\ Place(hs, listing[j]) = j
    BY <1>3
  <2> HIDE DEF listing
  <2>2. ~(listing[j] < listing[i]) /\ listing[i] # listing[j]
    <3>1. listing[j] < listing[i] => j < i
      BY <2>1, PlacesGrow
    <3>2. QED
      BY <1>1, <1>4, <2>1, <3>1
  <2>3. listing[i] \in Nat /\ listing[j] \in Nat
    BY <2>1
  <2>4. QED
    BY <2>2, <2>3
<1>5. /\ listing \in [1 .. n -> hs]
      /\ \A i, j \in DOMAIN listing : i < j => listing[i] < listing[j]
  <2>1. listing \in [1 .. n -> hs]
    BY <1>3
  <2>2. QED
    BY <1>4, <2>1
<1> DEFINE q == InOrder(hs)
<1>6. /\ q \in [1 .. n -> hs] /\ DOMAIN q = 1 .. n
      /\ \A i, j \in 1 .. n : i < j => q[i] < q[j]
  <2> HIDE DEF listing
  <2>1. \E f \in [1 .. n -> hs] : \A i, j \in DOMAIN f : i < j => f[i] < f[j]
    BY <1>5
  <2>2. q \in [1 .. n -> hs] /\ \A i, j \in DOMAIN q : i < j => q[i] < q[j]
    BY <2>1 DEF InOrder
  <2>3. QED
    BY <2>2
<1>7. /\ q \in [1 .. n -> hs] /\ DOMAIN q = 1 .. n
      /\ \A i, j \in 1 .. n : q[i] = q[j] => i = j
  <2> HIDE DEF q, n, rank, listing
  <2>1. ASSUME NEW i \in 1 .. n, NEW j \in 1 .. n, q[i] = q[j] PROVE i = j
    <3>1. q[i] \in Nat /\ q[j] \in Nat
      <4>1. q[i] \in Handles /\ q[j] \in Handles
        BY <1>6
      <4>2. QED
        BY <4>1 DEF SyncAssumption
    <3>2. ~(i < j) /\ ~(j < i)
      <4>1. ~(q[i] < q[j]) /\ ~(q[j] < q[i])
        BY <2>1, <3>1
      <4>2. QED
        BY <1>6, <4>1
    <3>3. i \in Nat /\ j \in Nat
      BY <1>1
    <3>4. QED
      BY <3>2, <3>3
  <2>2. QED
    BY <1>6, <2>1
<1>8. q \in Surjection(1 .. n, hs)
  <2>1. q \in Injection(1 .. n, hs)
    BY <1>7 DEF Injection, IsInjective
  <2>2. QED
    BY <1>1, <2>1, FS_Injection
<1>9. q \in Seq(hs)
  BY <1>1, <1>7
<1>10. QED
  BY <1>7, <1>8, <1>9 DEF Surjection

Candidate == [h : Handles, force : BOOLEAN]
HandlesIn(q) == {q[i].h : i \in DOMAIN q}
Once(q) == \A i, j \in DOMAIN q : q[i].h = q[j].h => i = j

\* The candidate that is taken from a list does not come again.
LEMMA TailList ==
    ASSUME NEW q \in Seq(Candidate), q # <<>>, Once(q)
    PROVE  /\ Head(q) \in Candidate /\ Tail(q) \in Seq(Candidate) /\ Once(Tail(q))
           /\ HandlesIn(q) = HandlesIn(Tail(q)) \cup {Head(q).h}
           /\ Head(q).h \notin HandlesIn(Tail(q))
<1>1. /\ Len(q) \in Nat \ {0} /\ DOMAIN q = 1 .. Len(q) /\ Head(q) = q[1]
      /\ Head(q) \in Candidate /\ Tail(q) \in Seq(Candidate)
  OBVIOUS
<1>2. /\ DOMAIN Tail(q) = 1 .. Len(q) - 1
      /\ \A i \in 1 .. Len(q) - 1 : Tail(q)[i] = q[i + 1]
  BY <1>1
<1>3. Once(Tail(q))
  BY <1>1, <1>2 DEF Once
<1>4. Head(q).h \notin HandlesIn(Tail(q))
  BY <1>1, <1>2 DEF Once, HandlesIn
<1>5. HandlesIn(q) = HandlesIn(Tail(q)) \cup {Head(q).h}
  <2>1. ASSUME NEW i \in 1 .. Len(q) PROVE q[i].h \in HandlesIn(Tail(q)) \cup {Head(q).h}
    <3>1. CASE i = 1
      BY <1>1, <3>1
    <3>2. CASE i # 1
      <4>1. i - 1 \in 1 .. Len(q) - 1 /\ Tail(q)[i - 1] = q[i]
        BY <1>1, <1>2, <3>2
      <4>2. QED
        BY <1>2, <4>1 DEF HandlesIn
    <3>3. QED
      BY <3>1, <3>2
  <2>2. ASSUME NEW i \in 1 .. Len(q) - 1 PROVE Tail(q)[i].h \in HandlesIn(q)
    BY <1>1, <1>2 DEF HandlesIn
  <2>3. HandlesIn(q) \subseteq HandlesIn(Tail(q)) \cup {Head(q).h}
    BY <1>1, <2>1 DEF HandlesIn
  <2>4. HandlesIn(Tail(q)) \subseteq HandlesIn(q)
    BY <1>2, <2>2 DEF HandlesIn
  <2>5. Head(q).h \in HandlesIn(q)
    BY <1>1 DEF HandlesIn
  <2>6. QED
    BY <2>3, <2>4, <2>5
<1>6. QED
  BY <1>1, <1>3, <1>4, <1>5

\* Two lists without a common handle make one list.
LEMMA ConcatList ==
    ASSUME NEW p \in Seq(Candidate), NEW q \in Seq(Candidate), Once(p), Once(q),
           HandlesIn(p) \cap HandlesIn(q) = {}
    PROVE  /\ p \o q \in Seq(Candidate) /\ Once(p \o q)
           /\ HandlesIn(p \o q) = HandlesIn(p) \cup HandlesIn(q)
<1> DEFINE m == Len(p)
           n == Len(q)
           c == p \o q
<1>1. /\ m \in Nat /\ n \in Nat /\ DOMAIN p = 1 .. m /\ DOMAIN q = 1 .. n
      /\ c \in Seq(Candidate) /\ DOMAIN c = 1 .. m + n
      /\ \A i \in 1 .. m : c[i] = p[i]
      /\ \A i \in (m + 1) .. (m + n) : c[i] = q[i - m]
  OBVIOUS
<1> HIDE DEF m, n, c
<1>2. ASSUME NEW i \in 1 .. m + n
      PROVE  \/ i \in 1 .. m /\ c[i] = p[i] /\ c[i].h \in HandlesIn(p)
             \/ /\ i \in (m + 1) .. (m + n) /\ i - m \in 1 .. n
                /\ c[i] = q[i - m] /\ c[i].h \in HandlesIn(q)
  <2>1. CASE i \in 1 .. m
    BY <1>1, <2>1 DEF HandlesIn
  <2>2. CASE i \in (m + 1) .. (m + n)
    <3>1. i - m \in 1 .. n /\ c[i] = q[i - m]
      BY <1>1, <2>2
    <3>2. QED
      BY <1>1, <2>2, <3>1 DEF HandlesIn
  <2>3. QED
    BY <1>1, <2>1, <2>2
<1>3. Once(c)
  <2>1. ASSUME NEW i \in 1 .. m + n, NEW j \in 1 .. m + n, c[i].h = c[j].h
        PROVE  i = j
    <3>1. CASE i \in 1 .. m /\ j \in 1 .. m
      BY <1>1, <2>1, <3>1 DEF Once
    <3>2. CASE i \in (m + 1) .. (m + n) /\ j \in (m + 1) .. (m + n)
      <4>1. /\ i - m \in 1 .. n /\ c[i] = q[i - m]
            /\ j - m \in 1 .. n /\ c[j] = q[j - m]
        BY <1>1, <3>2
      <4>2. i - m = j - m
        BY <1>1, <2>1, <4>1 DEF Once
      <4>3. QED
        BY <1>1, <4>2
    <3>3. QED
      BY <1>1, <1>2, <2>1, <3>1, <3>2
  <2>2. QED
    BY <1>1, <2>1 DEF Once
<1>4. HandlesIn(c) = HandlesIn(p) \cup HandlesIn(q)
  <2>1. ASSUME NEW i \in 1 .. m PROVE p[i].h \in HandlesIn(c)
    <3>1. i \in DOMAIN c /\ c[i] = p[i]
      BY <1>1
    <3>2. QED
      BY <3>1 DEF HandlesIn
  <2>2. ASSUME NEW i \in 1 .. n PROVE q[i].h \in HandlesIn(c)
    <3>1. i + m \in (m + 1) .. (m + n) /\ c[i + m] = q[i]
      <4>1. i + m \in (m + 1) .. (m + n) /\ (i + m) - m = i
        BY <1>1
      <4>2. c[i + m] = q[(i + m) - m]
        BY <1>1, <4>1
      <4>3. QED
        BY <4>1, <4>2
    <3>2. i + m \in DOMAIN c
      BY <1>1
    <3>3. QED
      BY <3>1, <3>2 DEF HandlesIn
  <2>3. HandlesIn(c) \subseteq HandlesIn(p) \cup HandlesIn(q)
    <3>1. \A i \in DOMAIN c : c[i].h \in HandlesIn(p) \cup HandlesIn(q)
      BY <1>1, <1>2
    <3>2. QED
      BY <3>1 DEF HandlesIn
  <2>4. HandlesIn(p) \cup HandlesIn(q) \subseteq HandlesIn(c)
    BY <1>1, <2>1, <2>2 DEF HandlesIn
  <2>5. QED
    BY <2>3, <2>4
<1>5. QED
  BY <1>1, <1>3, <1>4 DEF c

\* The first candidates of a list are a list.
LEMMA TruncateList ==
    ASSUME NEW q \in Seq(Candidate), Once(q)
    PROVE  /\ Truncate(q) \in Seq(Candidate) /\ Once(Truncate(q))
           /\ HandlesIn(Truncate(q)) \subseteq HandlesIn(q)
<1>1. CASE MaxItems > 0 /\ Len(q) > MaxItems
  <2> DEFINE t == SubSeq(q, 1, MaxItems)
  <2>1. /\ DOMAIN t = 1 .. MaxItems /\ t \in Seq(Candidate)
        /\ \A i \in 1 .. MaxItems : t[i] = q[i] /\ i \in DOMAIN q
    BY <1>1, SyncAssumption
  <2>2. Truncate(q) = t
    BY <1>1 DEF Truncate
  <2> HIDE DEF t
  <2>3. QED
    BY <2>1, <2>2 DEF Once, HandlesIn
<1>2. CASE ~(MaxItems > 0 /\ Len(q) > MaxItems)
  BY <1>2 DEF Truncate
<1>3. QED
  BY <1>1, <1>2

\* A round's candidates: what waits in the queue, then what the window shows and the
\* queue does not hold; each handle once, and every one the CSV does not know.
LEMMA CandidatesList ==
    ASSUME NEW s, s.pend \in [Handles -> Nat]
    PROVE  /\ Candidates(s) \in Seq(Candidate) /\ Once(Candidates(s))
           /\ \A h \in HandlesIn(Candidates(s)) :
                 h \in Handles /\ (s.pend[h] # 0 \/ h \in Listed(s))
           /\ \A h \in Handles \ csv :
                 s.pend[h] # 0 \/ h \in Listed(s) => h \in HandlesIn(Candidates(s))
<1> DEFINE Q == {h \in Handles : s.pend[h] # 0} \ csv
           H == {h \in Listed(s) \ ToSet(Queued(s)) : h \in csv => Modified(s, h)}
           qs == InOrder(Q)
           hs == InOrder(H)
           p == [i \in 1 .. Len(qs) |-> [h |-> qs[i], force |-> FALSE]]
           q == [i \in 1 .. Len(hs) |-> [h |-> hs[i], force |-> hs[i] \in csv]]
<1>1. Q \in SUBSET Handles /\ H \in SUBSET Handles /\ Listed(s) \subseteq Handles
  BY DEF Listed
<1>2. Queued(s) = qs
  BY DEF Queued
<1>3. Candidates(s) = p \o q
  BY <1>2 DEF Candidates
<1> HIDE DEF Q, H, p, q
<1>4. /\ qs \in Seq(Q) /\ DOMAIN qs = 1 .. Len(qs)
      /\ \A h \in Q : \E i \in DOMAIN qs : qs[i] = h
      /\ \A i, j \in DOMAIN qs : qs[i] = qs[j] => i = j
  BY <1>1, InOrderLists
<1>5. /\ hs \in Seq(H) /\ DOMAIN hs = 1 .. Len(hs)
      /\ \A h \in H : \E i \in DOMAIN hs : hs[i] = h
      /\ \A i, j \in DOMAIN hs : hs[i] = hs[j] => i = j
  BY <1>1, InOrderLists
<1>6. ToSet(Queued(s)) = Q
  BY <1>2, <1>4 DEF ToSet
<1> HIDE DEF qs, hs
<1>7. p \in Seq(Candidate) /\ Once(p) /\ HandlesIn(p) = Q
  <2>1. Len(qs) \in Nat /\ \A i \in 1 .. Len(qs) : qs[i] \in Q
    BY <1>4
  <2>2. \A i \in 1 .. Len(qs) : p[i] \in Candidate /\ p[i].h = qs[i]
    BY <1>1, <2>1 DEF Candidate, p
  <2>3. p \in Seq(Candidate) /\ DOMAIN p = 1 .. Len(qs)
    BY <2>1, <2>2 DEF p
  <2>4. Once(p)
    BY <1>4, <2>2, <2>3 DEF Once
  <2>5. HandlesIn(p) = Q
    BY <1>4, <2>1, <2>2, <2>3 DEF HandlesIn
  <2>6. QED
    BY <2>3, <2>4, <2>5
<1>8. q \in Seq(Candidate) /\ Once(q) /\ HandlesIn(q) = H
  <2>1. Len(hs) \in Nat /\ \A i \in 1 .. Len(hs) : hs[i] \in H
    BY <1>5
  <2>2. \A i \in 1 .. Len(hs) : q[i] \in Candidate /\ q[i].h = hs[i]
    BY <1>1, <2>1 DEF Candidate, q
  <2>3. q \in Seq(Candidate) /\ DOMAIN q = 1 .. Len(hs)
    BY <2>1, <2>2 DEF q
  <2>4. Once(q)
    BY <1>5, <2>2, <2>3 DEF Once
  <2>5. HandlesIn(q) = H
    BY <1>5, <2>1, <2>2, <2>3 DEF HandlesIn
  <2>6. QED
    BY <2>3, <2>4, <2>5
<1>9. Q \cap H = {}
  BY <1>6 DEF H
<1>10. /\ Candidates(s) \in Seq(Candidate) /\ Once(Candidates(s))
       /\ HandlesIn(Candidates(s)) = Q \cup H
  BY <1>3, <1>7, <1>8, <1>9, ConcatList
<1>11. /\ \A h \in Q : s.pend[h] # 0
       /\ \A h \in H : h \in Listed(s)
       /\ \A h \in Handles \ csv : s.pend[h] # 0 => h \in Q
       /\ \A h \in Handles \ csv : h \in Listed(s) => h \in Q \cup H
  BY <1>6 DEF Q, H
<1>12. QED
  BY <1>1, <1>10, <1>11

\* A bounded set of numbers that is not empty has its maximum.
LEMMA MaxOfBounded ==
    ASSUME NEW n \in Nat, NEW S \in SUBSET (0 .. n), S # {}
    PROVE  Max(S) \in S
<1> DEFINE T == {n - x : x \in S}
<1>1. T \subseteq Nat /\ T # {}
  <2>1. \A x \in S : x \in Nat /\ n - x \in Nat
    OBVIOUS
  <2>2. PICK x \in S : TRUE
    OBVIOUS
  <2>3. n - x \in T
    OBVIOUS
  <2>4. QED
    BY <2>1, <2>3
<1>2. PICK m \in T : \A k \in T : ~(<<k, m>> \in OpToRel(<, Nat))
  BY <1>1, NatLessThanWellFounded, WFMin
<1>3. \A k \in T : ~(k < m)
  BY <1>1, <1>2 DEF OpToRel
<1>4. PICK x \in S : m = n - x
  OBVIOUS
<1>5. ASSUME NEW y \in S PROVE x >= y
  <2>1. n - y \in T
    OBVIOUS
  <2>2. ~(n - y < n - x)
    BY <1>3, <1>4, <2>1
  <2>3. QED
    BY <2>2
<1>6. QED
  BY <1>5 DEF Max

-----------------------------------------------------------------------------
(* What a state remembers *)

\* The handles a watermark keeps in its window, and those a state has noted.
Window(marca, st) == {g \in Handles : marca <= st[g] + Overlap}
Noted(s) == {g \in Handles : s.pend[g] # 0} \cup s.left
Held(s, st) == Window(s.marca, st) \cup Noted(s)
Shown(st) == UuidsOf({h \in Handles : st[h] # 0})

\* Every item of U that is not sent has a handle that OAI shows, among those of W.
Kept(U, W, st, sent) ==
    \A u \in U \ sent : \E g \in W : UuidOf[g] = u /\ st[g] # 0

\* The state s forgets no item that OAI shows.
Covers(s, st, sent) == Kept(Shown(st), Held(s, st), st, sent)

EstadoType == [marca : Nat, fresh : BOOLEAN, pend : [Handles -> Nat], left : SUBSET Handles]
Reply == {"2xx", "4xx", "erro"}
RoundType == [pc : {"off", "loaded", "locked", "sending"}, dry : BOOLEAN,
              estado : EstadoType, full : BOOLEAN, top : Nat, cut : BOOLEAN,
              todo : Seq(Candidate), uuids : SUBSET UuidsOf(Handles),
              flight : SUBSET Handles, answer : [Handles -> Reply \cup {"none"}],
              colhe : BOOLEAN]

\* An item keeps a handle if a handle that is dropped is of an item that was sent
\* or that has another one.
LEMMA KeptStep ==
    ASSUME NEW U, NEW W, NEW W2, NEW st, NEW sent, NEW sent2, Kept(U, W, st, sent),
           sent \subseteq sent2,
           \A g \in W \ W2 : \/ UuidOf[g] \in sent2 \/ st[g] = 0
                             \/ \E k \in W2 : UuidOf[k] = UuidOf[g] /\ st[k] # 0
    PROVE  Kept(U, W2, st, sent2)
BY DEF Kept

\* What the operations on the queue leave noted.
LEMMA NotedAfter ==
    ASSUME NEW s \in EstadoType, NEW h \in Handles
    PROVE  /\ Pop(s, h) \in EstadoType /\ Pop(s, h).marca = s.marca
           /\ Noted(s) \ {h} \subseteq Noted(Pop(s, h))
           /\ \A g \in Handles : Pop(s, h).pend[g] # 0 => s.pend[g] # 0
           /\ Leave(s, h) \in EstadoType /\ Leave(s, h).marca = s.marca
           /\ Noted(s) \cup {h} \subseteq Noted(Leave(s, h))
           /\ \A g \in Handles : Leave(s, h).pend[g] # 0 => s.pend[g] # 0
           /\ MarcarFalha(s, h) \in EstadoType /\ MarcarFalha(s, h).marca = s.marca
           /\ Noted(s) \cup {h} \subseteq Noted(MarcarFalha(s, h))
           /\ \A g \in Handles \ {h} : MarcarFalha(s, h).pend[g] # 0 => s.pend[g] # 0
<1>1. /\ s.marca \in Nat /\ s.fresh \in BOOLEAN /\ s.pend \in [Handles -> Nat]
      /\ s.left \in SUBSET Handles
  BY DEF EstadoType
<1> DEFINE P == Pop(s, h)
           L == Leave(s, h)
           F == [s EXCEPT !.pend[h] = @ + 1, !.left = @ \ {h}]
<1>2. P = [s EXCEPT !.pend = [s.pend EXCEPT ![h] = 0]]
  BY DEF Pop
<1>3. /\ P \in EstadoType /\ P.marca = s.marca /\ P.left = s.left
      /\ P.pend = [s.pend EXCEPT ![h] = 0]
  BY <1>1, <1>2 DEF EstadoType
<1>4. L = [P EXCEPT !.left = P.left \cup {h}]
  BY DEF Leave
<1>5. /\ L \in EstadoType /\ L.marca = s.marca /\ L.left = s.left \cup {h}
      /\ L.pend = [s.pend EXCEPT ![h] = 0]
  BY <1>1, <1>3, <1>4 DEF EstadoType
<1>6. F = [s EXCEPT !.pend = [s.pend EXCEPT ![h] = s.pend[h] + 1], !.left = s.left \ {h}]
  OBVIOUS
<1> HIDE DEF P, L, F
<1>7. /\ F \in EstadoType /\ F.marca = s.marca /\ F.left = s.left \ {h}
      /\ F.pend = [s.pend EXCEPT ![h] = s.pend[h] + 1]
  <2> DEFINE pend == [s.pend EXCEPT ![h] = s.pend[h] + 1]
             left == s.left \ {h}
  <2>1. pend \in [Handles -> Nat] /\ left \in SUBSET Handles
    BY <1>1
  <2> HIDE DEF pend, left
  <2>2. F = [s EXCEPT !.pend = pend, !.left = left]
    BY <1>6 DEF pend, left
  <2>3. F \in EstadoType /\ F.marca = s.marca /\ F.left = left /\ F.pend = pend
    BY <2>1, <2>2 DEF EstadoType
  <2>4. QED
    BY <2>3 DEF pend, left
<1>8. Noted(s) \ {h} \subseteq Noted(P)
  BY <1>1, <1>3 DEF Noted
<1>9. Noted(s) \cup {h} \subseteq Noted(L)
  BY <1>1, <1>5 DEF Noted
<1>10. Noted(s) \cup {h} \subseteq Noted(F)
  BY <1>1, <1>7 DEF Noted
<1>11. MarcarFalha(s, h) = L \/ MarcarFalha(s, h) = F
  BY DEF MarcarFalha, L, F
<1>12. /\ \A g \in Handles : P.pend[g] # 0 => s.pend[g] # 0
       /\ \A g \in Handles : L.pend[g] # 0 => s.pend[g] # 0
       /\ \A g \in Handles \ {h} : F.pend[g] # 0 => s.pend[g] # 0
  BY <1>1, <1>3, <1>5, <1>7
<1>13. QED
  BY <1>3, <1>5, <1>7, <1>8, <1>9, <1>10, <1>11, <1>12 DEF P, L

-----------------------------------------------------------------------------
(* What a round remembers *)

\* The watermark that a round will save if it tries the whole window.
Mark(x) == IF x.top # 0 THEN x.top ELSE x.estado.marca

\* The handles that will be remembered of the items a round has tried, whether or
\* not the watermark moves, and of all items if it does.
Tried(x, st) ==
    (Window(x.estado.marca, st) \cap Window(x.top, st))
    \cup ((x.flight \cup Noted(x.estado)) \ HandlesIn(x.todo))
Ahead(x, st) ==
    Window(Mark(x), st) \cup HandlesIn(x.todo) \cup x.flight \cup Noted(x.estado)

\* No watermark is in the future, and only what OAI shows is retried.
Sound(s, st, t) == s.marca <= t /\ \A h \in Handles : s.pend[h] # 0 => st[h] # 0

\* A round that sends: the items it has tried, those it leaves to the next window
\* when it is cut short, and all of them otherwise, keep a handle.
Sending(x, st, sent, t) ==
    /\ x.top <= t /\ Once(x.todo)
    /\ \A h \in HandlesIn(x.todo) \cup x.flight : st[h] # 0
    /\ Kept(x.uuids, Tried(x, st), st, sent)
    /\ Kept(Shown(st), Held(x.estado, st) \cup x.flight, st, sent)
    /\ ~x.cut => Kept(Shown(st), Ahead(x, st), st, sent)

RoundInv(x, st, sent, t) ==
    /\ ~x.dry
    /\ Sound(x.estado, st, t)
    /\ x.pc \in {"loaded", "locked"} => Covers(x.estado, st, sent)
    /\ x.pc = "sending" => Sending(x, st, sent, t)
    /\ x.pc # "sending" => x.todo = <<>> /\ x.flight = {}

\* A candidate is of a handle.
LEMMA HandlesOfList ==
    ASSUME NEW q \in Seq(Candidate)
    PROVE  HandlesIn(q) \subseteq Handles
<1>1. \A i \in DOMAIN q : q[i] \in Candidate
  OBVIOUS
<1>2. QED
  BY <1>1 DEF HandlesIn, Candidate

\* What more is sent leaves less to remember.
LEMMA MoreSentKeeps ==
    ASSUME NEW x, NEW st, NEW sent, NEW sent2, NEW t,
           RoundInv(x, st, sent, t), sent \subseteq sent2
    PROVE  RoundInv(x, st, sent2, t)
<1>1. ASSUME NEW U, NEW W, Kept(U, W, st, sent) PROVE Kept(U, W, st, sent2)
  BY <1>1 DEF Kept
<1>2. Covers(x.estado, st, sent) => Covers(x.estado, st, sent2)
  BY <1>1 DEF Covers
<1>3. Sending(x, st, sent, t) => Sending(x, st, sent2, t)
  BY <1>1 DEF Sending
<1>4. QED
  BY <1>2, <1>3 DEF RoundInv

\* A candidate that is not sent, because it fails or because another handle of its
\* item was, leaves every item a handle.
LEMMA TakeKeeps ==
    ASSUME NEW x \in RoundType, NEW st, NEW sent, NEW t, NEW s2 \in EstadoType, NEW y,
           RoundInv(x, st, sent, t), x.todo # <<>>,
           y = [x EXCEPT !.todo = Tail(x.todo), !.estado = s2],
           s2.marca = x.estado.marca,
           Noted(x.estado) \ {Head(x.todo).h} \subseteq Noted(s2),
           \A g \in Handles \ {Head(x.todo).h} : s2.pend[g] # 0 => x.estado.pend[g] # 0,
           \/ Head(x.todo).h \in Noted(s2)
           \/ UuidOf[Head(x.todo).h] \in x.uuids
    PROVE  y \in RoundType /\ RoundInv(y, st, sent, t)
<1> DEFINE h == Head(x.todo).h
<1>1. x.pc = "sending" /\ Sending(x, st, sent, t)
  BY DEF RoundInv, RoundType
<1>2. x.todo \in Seq(Candidate) /\ Once(x.todo)
  BY <1>1 DEF Sending, RoundType
<1>3. /\ Head(x.todo) \in Candidate /\ Tail(x.todo) \in Seq(Candidate)
      /\ Once(Tail(x.todo)) /\ h \notin HandlesIn(Tail(x.todo))
      /\ HandlesIn(x.todo) = HandlesIn(Tail(x.todo)) \cup {h}
  BY <1>2, TailList
<1>4. y \in RoundType
  BY <1>3 DEF RoundType
<1>5. /\ y.pc = x.pc /\ y.dry = x.dry /\ y.top = x.top /\ y.cut = x.cut /\ y.uuids = x.uuids
      /\ y.flight = x.flight /\ y.todo = Tail(x.todo) /\ y.estado = s2
  BY DEF RoundType
<1>6. Mark(y) = Mark(x)
  BY <1>5 DEF Mark
<1>7. h \in Handles /\ st[h] # 0
  BY <1>1, <1>3 DEF Candidate, Sending
<1> HIDE DEF h
<1>8. Tried(x, st) \subseteq Tried(y, st)
  BY <1>3, <1>5 DEF Tried, h
<1>9. \/ h \in Noted(s2)
      \/ UuidOf[h] \in sent
      \/ \E k \in Tried(x, st) : UuidOf[k] = UuidOf[h] /\ st[k] # 0
  BY <1>1 DEF Sending, Kept, h
<1>10. Kept(y.uuids, Tried(y, st), st, sent)
  BY <1>1, <1>5, <1>8 DEF Sending, Kept
<1>11. ASSUME NEW W, NEW W2, Kept(Shown(st), W, st, sent),
              W \ {h} \subseteq W2, Noted(s2) \subseteq W2, Tried(y, st) \subseteq W2
       PROVE  Kept(Shown(st), W2, st, sent)
  BY <1>8, <1>9, <1>11 DEF Kept
<1>12. Tried(y, st) \subseteq Held(s2, st) \cup x.flight
  BY <1>5 DEF Tried, Held
<1>13. Kept(Shown(st), Held(y.estado, st) \cup y.flight, st, sent)
  <2>1. (Held(x.estado, st) \cup x.flight) \ {h} \subseteq Held(s2, st) \cup x.flight
    BY DEF Held, h
  <2>2. Noted(s2) \subseteq Held(s2, st) \cup x.flight
    BY DEF Held
  <2>3. QED
    BY <1>1, <1>5, <1>11, <1>12, <2>1, <2>2 DEF Sending
<1>14. ~y.cut => Kept(Shown(st), Ahead(y, st), st, sent)
  <2>1. Ahead(x, st) \ {h} \subseteq Ahead(y, st)
    BY <1>3, <1>5, <1>6 DEF Ahead, h
  <2>2. Noted(s2) \subseteq Ahead(y, st)
    BY <1>5 DEF Ahead
  <2>3. Tried(y, st) \subseteq Ahead(y, st)
    BY <1>5 DEF Tried, Ahead, Window, Mark
  <2>4. QED
    BY <1>1, <1>5, <1>11, <2>1, <2>2, <2>3 DEF Sending
<1>15. Sound(y.estado, st, t)
  BY <1>5, <1>7 DEF RoundInv, Sound, h
<1>16. Sending(y, st, sent, t)
  <2>1. \A g \in HandlesIn(y.todo) \cup y.flight : st[g] # 0
    BY <1>1, <1>3, <1>5 DEF Sending
  <2>2. QED
    BY <1>1, <1>3, <1>5, <1>10, <1>13, <1>14, <2>1 DEF Sending
<1>17. QED
  BY <1>1, <1>4, <1>5, <1>15, <1>16 DEF RoundInv

\* A candidate that is sent is in flight.
LEMMA SendKeeps ==
    ASSUME NEW x \in RoundType, NEW st, NEW sent, NEW t, NEW y,
           RoundInv(x, st, sent, t), x.todo # <<>>,
           y = [x EXCEPT !.todo = Tail(x.todo),
                         !.uuids = x.uuids \cup {UuidOf[Head(x.todo).h]},
                         !.flight = x.flight \cup {Head(x.todo).h}]
    PROVE  y \in RoundType /\ RoundInv(y, st, sent, t)
<1> DEFINE h == Head(x.todo).h
<1>1. x.pc = "sending" /\ Sending(x, st, sent, t)
  BY DEF RoundInv, RoundType
<1>2. x.todo \in Seq(Candidate) /\ Once(x.todo)
  BY <1>1 DEF Sending, RoundType
<1>3. /\ Head(x.todo) \in Candidate /\ Tail(x.todo) \in Seq(Candidate)
      /\ Once(Tail(x.todo)) /\ h \notin HandlesIn(Tail(x.todo))
      /\ HandlesIn(x.todo) = HandlesIn(Tail(x.todo)) \cup {h}
  BY <1>2, TailList
<1>4. h \in Handles /\ st[h] # 0
  BY <1>1, <1>3 DEF Candidate, Sending
<1> HIDE DEF h
<1>5. y \in RoundType
  <2>1. /\ x.uuids \cup {UuidOf[h]} \in SUBSET UuidsOf(Handles)
        /\ x.flight \cup {h} \in SUBSET Handles
    BY <1>4 DEF RoundType, UuidsOf
  <2>2. QED
    BY <1>3, <2>1 DEF RoundType, h
<1>6. /\ y.pc = x.pc /\ y.dry = x.dry /\ y.top = x.top /\ y.cut = x.cut
      /\ y.uuids = x.uuids \cup {UuidOf[h]} /\ y.flight = x.flight \cup {h}
      /\ y.todo = Tail(x.todo) /\ y.estado = x.estado
  BY DEF RoundType, h
<1>7. Tried(x, st) \subseteq Tried(y, st) /\ h \in Tried(y, st)
  BY <1>3, <1>6 DEF Tried
<1>8. Ahead(x, st) \subseteq Ahead(y, st)
  BY <1>3, <1>6 DEF Ahead, Mark
<1>9. Kept(y.uuids, Tried(y, st), st, sent)
  BY <1>1, <1>4, <1>6, <1>7 DEF Sending, Kept
<1>10. Kept(Shown(st), Held(y.estado, st) \cup y.flight, st, sent)
  BY <1>1, <1>6 DEF Sending, Kept
<1>11. ~y.cut => Kept(Shown(st), Ahead(y, st), st, sent)
  BY <1>1, <1>6, <1>8 DEF Sending, Kept
<1>12. \A g \in HandlesIn(y.todo) \cup y.flight : st[g] # 0
  BY <1>1, <1>3, <1>4, <1>6 DEF Sending
<1>13. Sending(y, st, sent, t)
  BY <1>1, <1>3, <1>6, <1>9, <1>10, <1>11, <1>12 DEF Sending
<1>14. QED
  BY <1>1, <1>5, <1>6, <1>13 DEF RoundInv

\* A round that stops at its deadline keeps what its state holds.
LEMMA StopKeeps ==
    ASSUME NEW x \in RoundType, NEW st, NEW sent, NEW t, NEW y,
           RoundInv(x, st, sent, t), x.todo # <<>>,
           y = [x EXCEPT !.todo = <<>>, !.cut = TRUE]
    PROVE  y \in RoundType /\ RoundInv(y, st, sent, t)
<1>1. x.pc = "sending" /\ Sending(x, st, sent, t)
  BY DEF RoundInv, RoundType
<1>2. /\ y.pc = x.pc /\ y.dry = x.dry /\ y.top = x.top /\ y.cut = TRUE
      /\ y.uuids = x.uuids /\ y.flight = x.flight /\ y.todo = <<>> /\ y.estado = x.estado
  BY DEF RoundType
<1>3. y \in RoundType
  <2>1. <<>> \in Seq(Candidate)
    OBVIOUS
  <2>2. QED
    BY <2>1 DEF RoundType
<1>4. HandlesIn(y.todo) = {} /\ Once(y.todo)
  BY <1>2 DEF HandlesIn, Once
<1>5. Tried(x, st) \subseteq Tried(y, st)
  BY <1>2, <1>4 DEF Tried
<1>6. Kept(y.uuids, Tried(y, st), st, sent)
  BY <1>1, <1>2, <1>5 DEF Sending, Kept
<1>7. Sending(y, st, sent, t)
  BY <1>1, <1>2, <1>4, <1>6 DEF Sending
<1>8. QED
  BY <1>1, <1>2, <1>3, <1>7 DEF RoundInv

\* A task's answer waits in memory.
LEMMA AnswerKeeps ==
    ASSUME NEW x \in RoundType, NEW st, NEW sent, NEW t, NEW y,
           NEW a \in [Handles -> Reply \cup {"none"}],
           RoundInv(x, st, sent, t), y = [x EXCEPT !.answer = a]
    PROVE  RoundInv(y, st, sent, t)
<1>1. /\ y.pc = x.pc /\ y.dry = x.dry /\ y.top = x.top /\ y.cut = x.cut
      /\ y.uuids = x.uuids /\ y.flight = x.flight /\ y.todo = x.todo /\ y.estado = x.estado
  BY DEF RoundType
<1>2. Tried(y, st) = Tried(x, st) /\ Ahead(y, st) = Ahead(x, st)
  BY <1>1 DEF Tried, Ahead, Mark
<1>3. Sending(x, st, sent, t) => Sending(y, st, sent, t)
  BY <1>1, <1>2 DEF Sending
<1>4. QED
  BY <1>1, <1>3 DEF RoundInv

\* colher takes h: its item is among those sent, or its handle is noted.
Collected(x, h, s2) ==
    [x EXCEPT !.flight = x.flight \ {h}, !.answer = [x.answer EXCEPT ![h] = "none"],
              !.colhe = ({g \in x.flight : x.answer[g] # "none"} # {h}),
              !.estado = s2]
Lands(x, y, h, s2, sent2) ==
    /\ h \in x.flight /\ s2 \in EstadoType
    /\ y = Collected(x, h, s2)
    /\ s2.marca = x.estado.marca
    /\ Noted(x.estado) \ {h} \subseteq Noted(s2)
    /\ \A g \in Handles \ {h} : s2.pend[g] # 0 => x.estado.pend[g] # 0
    /\ h \in Noted(s2) \/ UuidOf[h] \in sent2

\* What colher leaves of a round.
LeavesRest(x, h, s2, y) ==
    /\ y.pc = x.pc /\ y.dry = x.dry /\ y.top = x.top /\ y.cut = x.cut
    /\ y.uuids = x.uuids /\ y.flight = x.flight \ {h} /\ y.todo = x.todo /\ y.estado = s2
    /\ y.answer = [x.answer EXCEPT ![h] = "none"]
LEMMA CollectedFields ==
    ASSUME NEW x \in RoundType, NEW s2 \in EstadoType, NEW h, h \in x.flight
    PROVE  LeavesRest(x, h, s2, Collected(x, h, s2))
<1> DEFINE a == [x.answer EXCEPT ![h] = "none"]
           c == {g \in x.flight : x.answer[g] # "none"} # {h}
           f == x.flight \ {h}
           y == Collected(x, h, s2)
<1>1. a \in [Handles -> Reply \cup {"none"}] /\ c \in BOOLEAN /\ f \in SUBSET Handles
  BY DEF RoundType
<1>2. y = [x EXCEPT !.flight = f, !.answer = a, !.colhe = c, !.estado = s2]
  BY DEF Collected
<1> HIDE DEF a, c, f, y
<1>3. /\ y.pc = x.pc /\ y.dry = x.dry /\ y.top = x.top /\ y.cut = x.cut
      /\ y.uuids = x.uuids /\ y.todo = x.todo /\ y.flight = f /\ y.estado = s2
      /\ y.answer = a
  BY <1>1, <1>2 DEF RoundType
<1>4. QED
  BY <1>3 DEF LeavesRest, a, f, y

\* A round stays a round when colher takes a handle.
LEMMA CollectedTypes ==
    ASSUME NEW x \in RoundType, NEW s2 \in EstadoType, NEW h, h \in x.flight
    PROVE  Collected(x, h, s2) \in RoundType
<1> DEFINE a == [x.answer EXCEPT ![h] = "none"]
           c == {g \in x.flight : x.answer[g] # "none"} # {h}
           f == x.flight \ {h}
           y == Collected(x, h, s2)
<1>1. a \in [Handles -> Reply \cup {"none"}] /\ c \in BOOLEAN /\ f \in SUBSET Handles
  BY DEF RoundType
<1>2. y = [x EXCEPT !.flight = f, !.answer = a, !.colhe = c, !.estado = s2]
  BY DEF Collected
<1> HIDE DEF a, c, f
<1>3. QED
  BY <1>1, <1>2 DEF RoundType, y

\* A send that ends leaves every item a handle.
LEMMA LandKeeps ==
    ASSUME NEW x \in RoundType, NEW st, NEW sent, NEW sent2, NEW t, NEW y, NEW s2, NEW h,
           RoundInv(x, st, sent, t), sent \subseteq sent2, Lands(x, y, h, s2, sent2)
    PROVE  RoundInv(y, st, sent2, t)
<1>1. x.pc = "sending" /\ Sending(x, st, sent, t)
  BY DEF RoundInv, RoundType, Lands
<1>2. /\ h \in x.flight /\ s2 \in EstadoType
      /\ y = Collected(x, h, s2)
      /\ s2.marca = x.estado.marca
      /\ Noted(x.estado) \ {h} \subseteq Noted(s2)
      /\ \A g \in Handles \ {h} : s2.pend[g] # 0 => x.estado.pend[g] # 0
      /\ h \in Noted(s2) \/ UuidOf[h] \in sent2
  BY DEF Lands
<1>3. /\ y.pc = x.pc /\ y.dry = x.dry /\ y.top = x.top /\ y.cut = x.cut
      /\ y.uuids = x.uuids /\ y.flight = x.flight \ {h} /\ y.todo = x.todo /\ y.estado = s2
  <2>1. LeavesRest(x, h, s2, Collected(x, h, s2))
    BY <1>2, CollectedFields
  <2>2. QED
    BY <1>2, <2>1 DEF LeavesRest
<1>4. h \in Handles /\ st[h] # 0
  BY <1>1, <1>2 DEF RoundType, Sending
<1>5. ASSUME NEW U, NEW W, NEW W2, Kept(U, W, st, sent), W \ {h} \subseteq W2,
             h \in W => h \in W2 \/ UuidOf[h] \in sent2
      PROVE  Kept(U, W2, st, sent2)
  BY <1>5 DEF Kept
<1>6. Kept(y.uuids, Tried(y, st), st, sent2)
  <2>1. /\ Tried(x, st) \ {h} \subseteq Tried(y, st)
        /\ h \in Tried(x, st) => h \in Tried(y, st) \/ UuidOf[h] \in sent2
    BY <1>2, <1>3 DEF Tried
  <2>2. QED
    BY <1>1, <1>3, <1>5, <2>1 DEF Sending
<1>7. Kept(Shown(st), Held(y.estado, st) \cup y.flight, st, sent2)
  <2>1. (Held(x.estado, st) \cup x.flight) \ {h} \subseteq Held(y.estado, st) \cup y.flight
    BY <1>2, <1>3 DEF Held
  <2>2. h \in Held(y.estado, st) \/ UuidOf[h] \in sent2
    BY <1>2, <1>3 DEF Held
  <2>3. QED
    BY <1>1, <1>5, <2>1, <2>2 DEF Sending
<1>8. ~y.cut => Kept(Shown(st), Ahead(y, st), st, sent2)
  <2>1. Ahead(x, st) \ {h} \subseteq Ahead(y, st)
    BY <1>2, <1>3 DEF Ahead, Mark
  <2>2. h \in Ahead(y, st) \/ UuidOf[h] \in sent2
    BY <1>2, <1>3 DEF Ahead
  <2>3. QED
    BY <1>1, <1>3, <1>5, <2>1, <2>2 DEF Sending
<1>9. Sound(y.estado, st, t)
  BY <1>2, <1>3, <1>4 DEF RoundInv, Sound
<1>10. Sending(y, st, sent2, t)
  BY <1>1, <1>3, <1>6, <1>7, <1>8 DEF Sending
<1>11. QED
  BY <1>1, <1>3, <1>9, <1>10 DEF RoundInv

\* An item that changes is in the window of every watermark that is not in the future.
LEMMA ChangedKeeps ==
    ASSUME NEW U, NEW W, NEW W2, NEW st, NEW st2, NEW sent, NEW h, NEW d \in Nat \ {0},
           st2 = [st EXCEPT ![h] = d], h \in DOMAIN st, W \subseteq DOMAIN st,
           Kept(U, W, st, sent), W \ {h} \subseteq W2, h \in W2
    PROVE  Kept(U \cup {UuidOf[h]}, W2, st2, sent)
<1>1. st2[h] # 0 /\ \A g \in W \ {h} : st2[g] = st[g]
  OBVIOUS
<1>2. ASSUME NEW u \in (U \cup {UuidOf[h]}) \ sent
      PROVE  \E g \in W2 : UuidOf[g] = u /\ st2[g] # 0
  <2>1. CASE u = UuidOf[h]
    BY <1>1, <2>1
  <2>2. CASE u # UuidOf[h]
    <3>1. PICK g \in W : UuidOf[g] = u /\ st[g] # 0
      BY <2>2 DEF Kept
    <3>2. g # h /\ g \in W2 /\ st2[g] # 0
      BY <1>1, <2>2, <3>1
    <3>3. QED
      BY <3>1, <3>2
  <2>3. QED
    BY <2>1, <2>2
<1>3. QED
  BY <1>2 DEF Kept

\* A change is seen by a watermark whose overlap is no shorter than the delay of OAI.
LEMMA ChangedInWindow ==
    ASSUME Overlap >= Lateness, NEW marca \in Nat, NEW t \in Nat, marca <= t,
           NEW st \in [Handles -> Nat], NEW h \in Handles, NEW d \in Nat, d + Lateness > t
    PROVE  /\ h \in Window(marca, [st EXCEPT ![h] = d])
           /\ Window(marca, st) \ {h} \subseteq Window(marca, [st EXCEPT ![h] = d])
<1>1. marca <= d + Overlap
  BY SyncAssumption
<1>2. /\ [st EXCEPT ![h] = d][h] = d
      /\ \A g \in Handles \ {h} : [st EXCEPT ![h] = d][g] = st[g]
  OBVIOUS
<1>3. QED
  BY <1>1, <1>2 DEF Window

\* The handle h changes at the time t, at the datestamp d.
Changes(st, st2, h, d, t) ==
    /\ t \in Nat /\ st \in [Handles -> Nat] /\ h \in Handles
    /\ d \in Nat \ {0} /\ d + Lateness > t /\ st2 = [st EXCEPT ![h] = d]
Unlisted(s, h) == [s EXCEPT !.left = s.left \ {h}]

\* Whatever a state and a round knew of an item, its change is not forgotten.
LEMMA PublishKeeps ==
    ASSUME Overlap >= Lateness, NEW st, NEW st2, NEW h, NEW d, NEW t, NEW sent,
           Changes(st, st2, h, d, t), NEW s \in EstadoType
    PROVE  /\ Sound(s, st, t) => Sound(Unlisted(s, h), st2, t + 1)
           /\ Sound(s, st, t) /\ Covers(s, st, sent) => Covers(Unlisted(s, h), st2, sent)
           /\ \A x \in RoundType :
                 x.estado = s /\ RoundInv(x, st, sent, t)
                 => RoundInv([x EXCEPT !.estado = Unlisted(s, h)], st2, sent, t + 1)
<1> DEFINE s2 == Unlisted(s, h)
<1>0. /\ t \in Nat /\ st \in [Handles -> Nat] /\ h \in Handles
      /\ d \in Nat \ {0} /\ d + Lateness > t /\ st2 = [st EXCEPT ![h] = d]
  BY DEF Changes
<1>1. /\ s2 \in EstadoType /\ s2.marca = s.marca /\ s2.pend = s.pend
      /\ s2.left = s.left \ {h} /\ s.marca \in Nat /\ s.pend \in [Handles -> Nat]
      /\ s.left \subseteq Handles
  BY DEF EstadoType, Unlisted
<1> HIDE DEF s2
<1>2. /\ DOMAIN st = Handles /\ st2[h] = d
      /\ \A g \in Handles \ {h} : st2[g] = st[g]
      /\ \A g \in Handles : st[g] # 0 => st2[g] # 0
  BY <1>0
<1>3. Sound(s, st, t) => Sound(s2, st2, t + 1)
  BY <1>0, <1>1, <1>2 DEF Sound
<1>4. ASSUME NEW marca \in Nat, marca <= t
      PROVE  h \in Window(marca, st2) /\ Window(marca, st) \ {h} \subseteq Window(marca, st2)
  BY <1>0, <1>4, ChangedInWindow
<1>5. Noted(s) \ {h} \subseteq Noted(s2) /\ Noted(s) \subseteq Handles
  BY <1>1 DEF Noted
<1>6. Shown(st2) \subseteq Shown(st) \cup {UuidOf[h]}
  BY <1>2 DEF Shown, UuidsOf
<1>7. ASSUME NEW U, NEW U2, NEW W, NEW W2, W \subseteq Handles, Kept(U, W, st, sent),
             W \ {h} \subseteq W2, h \in W2, U2 \subseteq U \cup {UuidOf[h]}
      PROVE  Kept(U2, W2, st2, sent)
  <2>1. Kept(U \cup {UuidOf[h]}, W2, st2, sent)
    BY <1>0, <1>2, <1>7, ChangedKeeps, Zenon
  <2>2. QED
    BY <1>7, <2>1 DEF Kept
<1>8. Sound(s, st, t) =>
         /\ Held(s, st) \subseteq Handles /\ h \in Held(s2, st2)
         /\ Held(s, st) \ {h} \subseteq Held(s2, st2)
  <2>1. Window(s.marca, st) \subseteq Handles
    BY DEF Window
  <2>2. QED
    BY <1>1, <1>4, <1>5, <2>1 DEF Held, Sound
<1>9. Sound(s, st, t) /\ Covers(s, st, sent) => Covers(s2, st2, sent)
  BY <1>6, <1>7, <1>8 DEF Covers
<1>10. ASSUME NEW x \in RoundType, x.estado = s, RoundInv(x, st, sent, t)
       PROVE  RoundInv([x EXCEPT !.estado = s2], st2, sent, t + 1)
  <2> DEFINE y == [x EXCEPT !.estado = s2]
  <2>2. /\ y.pc = x.pc /\ y.dry = x.dry /\ y.top = x.top /\ y.cut = x.cut
        /\ y.uuids = x.uuids /\ y.flight = x.flight /\ y.todo = x.todo /\ y.estado = s2
    BY <1>10 DEF RoundType
  <2> HIDE DEF y
  <2>3. Sound(s, st, t) /\ Sound(y.estado, st2, t + 1)
    BY <1>3, <1>10, <2>2 DEF RoundInv
  <2>4. x.pc \in {"loaded", "locked"} => Covers(y.estado, st2, sent)
    BY <1>9, <1>10, <2>2, <2>3 DEF RoundInv
  <2>5. ASSUME x.pc = "sending" PROVE Sending(y, st2, sent, t + 1)
    <3>1. Sending(x, st, sent, t)
      BY <1>10, <2>5 DEF RoundInv
    <3>2. /\ x.todo \in Seq(Candidate) /\ x.flight \subseteq Handles
          /\ HandlesIn(x.todo) \subseteq Handles /\ x.top \in Nat /\ x.top <= t
      BY <3>1, HandlesOfList DEF RoundType, Sending
    <3>3. Mark(y) = Mark(x) /\ Mark(x) \in Nat /\ Mark(x) <= t
      BY <1>1, <1>10, <2>2, <2>3, <3>2 DEF Mark, Sound
    <3>4. /\ h \in Window(s.marca, st2) /\ h \in Window(x.top, st2)
          /\ h \in Window(Mark(x), st2)
          /\ Window(s.marca, st) \ {h} \subseteq Window(s.marca, st2)
          /\ Window(x.top, st) \ {h} \subseteq Window(x.top, st2)
          /\ Window(Mark(x), st) \ {h} \subseteq Window(Mark(x), st2)
      BY <1>1, <1>4, <2>3, <3>2, <3>3 DEF Sound
    <3>5. \A m : Window(m, st) \subseteq Handles
      BY DEF Window
    <3>6. /\ Tried(x, st) \subseteq Handles /\ h \in Tried(y, st2)
          /\ Tried(x, st) \ {h} \subseteq Tried(y, st2)
      BY <1>1, <1>5, <1>10, <2>2, <3>2, <3>4, <3>5 DEF Tried
    <3>7. /\ Ahead(x, st) \subseteq Handles /\ h \in Ahead(y, st2)
          /\ Ahead(x, st) \ {h} \subseteq Ahead(y, st2)
      BY <1>1, <1>5, <1>10, <2>2, <3>2, <3>3, <3>4, <3>5 DEF Ahead
    <3>8. Kept(y.uuids, Tried(y, st2), st2, sent)
      <4>1. Kept(x.uuids, Tried(x, st), st, sent) /\ y.uuids \subseteq x.uuids \cup {UuidOf[h]}
        BY <2>2, <3>1 DEF Sending
      <4>2. QED
        BY <1>7, <3>6, <4>1, Zenon
    <3>9. Kept(Shown(st2), Held(y.estado, st2) \cup y.flight, st2, sent)
      <4>1. /\ Kept(Shown(st), Held(s, st) \cup x.flight, st, sent)
            /\ Held(s, st) \cup x.flight \subseteq Handles
            /\ (Held(s, st) \cup x.flight) \ {h} \subseteq Held(s2, st2) \cup x.flight
            /\ h \in Held(s2, st2) \cup x.flight
        BY <1>8, <1>10, <2>3, <3>1, <3>2 DEF Sending
      <4>2. Kept(Shown(st2), Held(s2, st2) \cup x.flight, st2, sent)
        BY <1>6, <1>7, <4>1, Zenon
      <4>3. QED
        BY <2>2, <4>2
    <3>10. ~y.cut => Kept(Shown(st2), Ahead(y, st2), st2, sent)
      <4>1. ASSUME ~y.cut PROVE Kept(Shown(st), Ahead(x, st), st, sent)
        BY <2>2, <3>1, <4>1 DEF Sending
      <4>2. QED
        BY <1>6, <1>7, <3>7, <4>1, Zenon
    <3>11. y.top <= t + 1
      BY <1>0, <2>2, <3>2
    <3>12. /\ Once(y.todo)
           /\ \A g \in HandlesIn(y.todo) \cup y.flight : st2[g] # 0
      BY <1>2, <2>2, <3>1, <3>2 DEF Sending
    <3>13. QED
      BY <3>8, <3>9, <3>10, <3>11, <3>12 DEF Sending
  <2>6. RoundInv(y, st2, sent, t + 1)
    BY <1>10, <2>2, <2>3, <2>4, <2>5 DEF RoundInv
  <2>7. QED
    BY <2>6 DEF y
<1>11. QED
  BY <1>3, <1>9, <1>10 DEF s2

\* The age of the last full sweep is not what a state remembers.
LEMMA WeekKeeps ==
    ASSUME NEW st, NEW sent, NEW t, NEW s \in EstadoType,
           NEW s2, s2 = [s EXCEPT !.fresh = FALSE]
    PROVE  /\ s2 \in EstadoType
           /\ Sound(s, st, t) => Sound(s2, st, t)
           /\ Covers(s, st, sent) => Covers(s2, st, sent)
           /\ \A x \in RoundType : \A y :
                 /\ x.estado = s /\ y = [x EXCEPT !.estado = s2]
                 /\ RoundInv(x, st, sent, t)
                 => y \in RoundType /\ RoundInv(y, st, sent, t)
<1>1. s2 \in EstadoType /\ s2.marca = s.marca /\ s2.pend = s.pend /\ s2.left = s.left
  BY DEF EstadoType
<1>2. Sound(s, st, t) => Sound(s2, st, t)
  BY <1>1 DEF Sound
<1>3. Noted(s2) = Noted(s) /\ Held(s2, st) = Held(s, st)
  BY <1>1 DEF Noted, Held
<1>4. Covers(s, st, sent) => Covers(s2, st, sent)
  BY <1>3 DEF Covers
<1>5. ASSUME NEW x \in RoundType, NEW y, x.estado = s, y = [x EXCEPT !.estado = s2],
             RoundInv(x, st, sent, t)
      PROVE  y \in RoundType /\ RoundInv(y, st, sent, t)
  <2>1. y \in RoundType
    BY <1>1, <1>5 DEF RoundType
  <2>2. /\ y.pc = x.pc /\ y.dry = x.dry /\ y.top = x.top /\ y.cut = x.cut
        /\ y.uuids = x.uuids /\ y.flight = x.flight /\ y.todo = x.todo /\ y.estado = s2
    BY <1>5 DEF RoundType
  <2>3. Tried(y, st) = Tried(x, st) /\ Ahead(y, st) = Ahead(x, st)
    BY <1>1, <1>3, <1>5, <2>2 DEF Tried, Ahead, Mark
  <2>4. Sending(x, st, sent, t) => Sending(y, st, sent, t)
    BY <1>3, <1>5, <2>2, <2>3 DEF Sending
  <2>5. QED
    BY <1>2, <1>4, <1>5, <2>1, <2>2, <2>4 DEF RoundInv
<1>6. QED
  BY <1>1, <1>2, <1>4, <1>5

-----------------------------------------------------------------------------
(* Harvest and end of a round *)

TypeOK ==
    /\ now \in Nat /\ stamp \in [Handles -> 0 .. now]
    /\ disk \in EstadoType
    /\ csv \subseteq Handles
    /\ lock \in Rounds \cup {Nobody}
    /\ round \in [Rounds -> RoundType]

Sent == UuidsOf(csv)

\* A task ends: only its answer is new.
LEMMA AnswerStep ==
    ASSUME TypeOK, NEW r \in Rounds, NEW h \in Handles,
           Enviado(r, h) \/ Recusado(r, h) \/ Falhou(r, h)
    PROVE  /\ h \in round[r].flight /\ UNCHANGED <<now, stamp, disk, csv, lock>>
           /\ \E a \in [Handles -> Reply \cup {"none"}] :
                 /\ round' = [round EXCEPT ![r] = [round[r] EXCEPT !.answer = a]]
                 /\ \A g \in Handles : a[g] # "none" => g = h \/ round[r].answer[g] # "none"
<1>1. round[r].answer \in [Handles -> Reply \cup {"none"}]
  BY DEF TypeOK, RoundType
<1>2. PICK v \in Reply : Answers(r, h, v)
  BY DEF Enviado, Recusado, Falhou, Reply
<1>3. PICK a : a = [round[r].answer EXCEPT ![h] = v]
  OBVIOUS
<1>4. /\ a \in [Handles -> Reply \cup {"none"}]
      /\ \A g \in Handles : a[g] # "none" => g = h \/ round[r].answer[g] # "none"
  BY <1>1, <1>3
<1>5. round' = [round EXCEPT ![r] = [round[r] EXCEPT !.answer = a]]
  BY <1>2, <1>3 DEF Answers
<1>6. h \in round[r].flight /\ UNCHANGED <<now, stamp, disk, csv, lock>>
  BY DEF Enviado, Recusado, Falhou, Waits
<1>7. QED
  BY <1>4, <1>5, <1>6

\* colher takes h: the CSV has its line if it was taken, the queue notes it otherwise.
LEMMA CollectStep ==
    ASSUME TypeOK, NEW r \in Rounds, NEW h \in Handles, Colher(r, h)
    PROVE  /\ h \in round[r].flight /\ UNCHANGED <<now, stamp, disk, lock>>
           /\ csv \subseteq csv' /\ csv' \subseteq csv \cup {h}
           /\ \E s2 \in EstadoType :
                 /\ round' = [round EXCEPT ![r] = Collected(round[r], h, s2)]
                 /\ s2.marca = round[r].estado.marca
                 /\ Noted(round[r].estado) \ {h} \subseteq Noted(s2)
                 /\ \A g \in Handles \ {h} : s2.pend[g] # 0 => round[r].estado.pend[g] # 0
                 /\ h \in Noted(s2) \/ h \in csv'
<1> DEFINE s == round[r].estado
           a == round[r].answer[h]
           s2 == After(s, h, a)
<1>1. s \in EstadoType /\ round[r].answer \in [Handles -> Reply \cup {"none"}]
  BY DEF TypeOK, RoundType
<1>2. /\ h \in round[r].flight /\ a # "none"
      /\ csv' = (IF a = "2xx" THEN csv \cup {h} ELSE csv)
      /\ UNCHANGED <<now, stamp, disk, lock>>
  BY DEF Colher, Answered
<1>3. a \in Reply
  BY <1>1, <1>2
<1>4. round' = [round EXCEPT ![r] = Collected(round[r], h, s2)]
  BY DEF Colher, Answered, Collected
<1>5. \/ a = "2xx" /\ s2 = Pop(s, h)
      \/ a = "4xx" /\ s2 = Leave(s, h)
      \/ a = "erro" /\ s2 = MarcarFalha(s, h)
  <2> HIDE DEF a, s
  <2>1. QED
    BY <1>3 DEF Reply, After
<1> HIDE DEF s2, s, a
<1>6. /\ s2 \in EstadoType /\ s2.marca = s.marca
      /\ Noted(s) \ {h} \subseteq Noted(s2)
      /\ \A g \in Handles \ {h} : s2.pend[g] # 0 => s.pend[g] # 0
      /\ h \in Noted(s2) \/ a = "2xx"
  <2>1. CASE s2 = Pop(s, h)
    BY <1>1, <1>5, <2>1, NotedAfter
  <2>2. CASE s2 = Leave(s, h)
    BY <1>1, <2>2, NotedAfter
  <2>3. CASE s2 = MarcarFalha(s, h)
    BY <1>1, <2>3, NotedAfter
  <2>4. QED
    BY <1>5, <2>1, <2>2, <2>3
<1>7. QED
  BY <1>2, <1>4, <1>6 DEF s

\* The harvest sees no datestamp of the future, and what the queue loses was sent.
LEMMA HarvestTypes ==
    ASSUME TypeOK, NEW s \in EstadoType
    PROVE  /\ Max({0} \cup {stamp[h] : h \in Listed(s)}) \in 0 .. now
           /\ MontarJanela(s).full \in BOOLEAN
           /\ WithoutSent(s) \in EstadoType /\ WithoutSent(s).marca = s.marca
           /\ WithoutSent(s).left = s.left
           /\ \A h \in Handles : WithoutSent(s).pend[h] = IF h \in csv THEN 0 ELSE s.pend[h]
<1> DEFINE T == {0} \cup {stamp[h] : h \in Listed(s)}
<1>1. T \in SUBSET (0 .. now) /\ T # {} /\ now \in Nat
  BY DEF TypeOK, Listed
<1>2. Max(T) \in 0 .. now
  <2> HIDE DEF T
  <2>1. Max(T) \in T
    BY <1>1, MaxOfBounded
  <2>2. QED
    BY <1>1, <2>1
<1>3. MontarJanela(s).full \in BOOLEAN
  BY DEF MontarJanela, Completa
<1>4. /\ s.pend \in [Handles -> Nat] /\ s.marca \in Nat /\ s.fresh \in BOOLEAN
      /\ s.left \in SUBSET Handles
  BY DEF EstadoType
<1> DEFINE pend == [h \in Handles |-> IF h \in csv THEN 0 ELSE s.pend[h]]
<1>5. WithoutSent(s) = [s EXCEPT !.pend = pend]
  BY DEF WithoutSent
<1>6. pend \in [Handles -> Nat] /\ \A h \in Handles : pend[h] = IF h \in csv THEN 0 ELSE s.pend[h]
  BY <1>4
<1> HIDE DEF pend
<1>7. /\ WithoutSent(s) \in EstadoType /\ WithoutSent(s).marca = s.marca
      /\ WithoutSent(s).left = s.left /\ WithoutSent(s).pend = pend
  BY <1>4, <1>5, <1>6 DEF EstadoType
<1>8. QED
  BY <1>2, <1>3, <1>6, <1>7

\* A handle that a state notes and that was not sent stays noted.
LEMMA WithoutSentKeeps ==
    ASSUME TypeOK, NEW s \in EstadoType, Sound(s, stamp, now)
    PROVE  /\ Sound(WithoutSent(s), stamp, now)
           /\ \A g \in Noted(s) : UuidOf[g] \notin Sent => g \in Noted(WithoutSent(s))
           /\ Covers(s, stamp, Sent) => Covers(WithoutSent(s), stamp, Sent)
<1>1. /\ WithoutSent(s).marca = s.marca /\ WithoutSent(s).left = s.left
      /\ \A h \in Handles : WithoutSent(s).pend[h] = IF h \in csv THEN 0 ELSE s.pend[h]
  BY HarvestTypes
<1>2. Sound(WithoutSent(s), stamp, now)
  BY <1>1 DEF Sound
<1>3. \A g \in Noted(s) : UuidOf[g] \notin Sent => g \in Noted(WithoutSent(s))
  BY <1>1 DEF Noted, Sent, UuidsOf
<1>4. Covers(s, stamp, Sent) => Covers(WithoutSent(s), stamp, Sent)
  BY <1>1, <1>3 DEF Covers, Kept, Held
<1>5. QED
  BY <1>2, <1>3, <1>4

\* The state that is saved, with the watermark moved or not.
LEMMA AvancarTypes ==
    ASSUME NEW s \in EstadoType, NEW full, NEW top \in Nat, NEW cut
    PROVE  /\ Avancar(s, full, top, cut) \in EstadoType
           /\ Noted(Avancar(s, full, top, cut)) = Noted(s)
           /\ Avancar(s, full, top, cut).pend = s.pend
           /\ cut => Avancar(s, full, top, cut).marca = s.marca
           /\ ~cut => Avancar(s, full, top, cut).marca = IF top # 0 THEN top ELSE s.marca
<1> DEFINE a == [s EXCEPT !.marca = IF top # 0 THEN top ELSE s.marca,
                          !.fresh = IF full THEN TRUE ELSE s.fresh]
<1>1. CASE cut
  BY <1>1 DEF Avancar, Avanca
<1>2. CASE ~cut
  <2>1. Avancar(s, full, top, cut) = a
    BY <1>2 DEF Avancar, Avanca
  <2>2. /\ s.marca \in Nat /\ s.fresh \in BOOLEAN /\ s.pend \in [Handles -> Nat]
        /\ s.left \in SUBSET Handles
    BY DEF EstadoType
  <2>3. /\ a \in EstadoType /\ a.marca = (IF top # 0 THEN top ELSE s.marca)
        /\ a.pend = s.pend /\ a.left = s.left
    BY <2>2 DEF EstadoType
  <2> HIDE DEF a
  <2>4. QED
    BY <1>2, <2>1, <2>3 DEF Noted
<1>3. QED
  BY <1>1, <1>2

\* A round that has candidates covers, with them, all that its state did.
LEMMA HarvestKeeps ==
    ASSUME TypeOK, NEW x \in RoundType, x.pc = "locked",
           RoundInv(x, stamp, Sent, now),
           NEW y, NEW s, s = x.estado,
           y = [x EXCEPT !.pc = "sending", !.estado = WithoutSent(s),
                         !.full = MontarJanela(s).full,
                         !.top = Max({0} \cup {stamp[h] : h \in Listed(s)}),
                         !.cut = Truncate(Candidates(s)) # Candidates(s),
                         !.todo = Truncate(Candidates(s)), !.uuids = Sent]
    PROVE  RoundInv(y, stamp, Sent, now)
<1> DEFINE top == Max({0} \cup {stamp[h] : h \in Listed(s)})
           cs == Candidates(s)
           ts == Truncate(cs)
           w == WithoutSent(s)
<1>1. /\ y.pc = "sending" /\ y.estado = w /\ y.top = top /\ y.cut = (ts # cs)
      /\ y.todo = ts /\ y.uuids = Sent /\ y.flight = x.flight /\ y.dry = x.dry
  BY DEF RoundType
<1>2. /\ s \in EstadoType /\ Sound(s, stamp, now) /\ Covers(s, stamp, Sent)
      /\ x.flight = {} /\ ~x.dry
  BY DEF RoundInv, RoundType
<1>3. top \in 0 .. now /\ w.marca = s.marca
  BY <1>2, HarvestTypes
<1>4. /\ Sound(w, stamp, now) /\ Covers(w, stamp, Sent)
      /\ \A g \in Noted(s) : UuidOf[g] \notin Sent => g \in Noted(w)
  BY <1>2, WithoutSentKeeps
<1>5. /\ cs \in Seq(Candidate) /\ Once(cs)
      /\ \A h \in HandlesIn(cs) : h \in Handles /\ (s.pend[h] # 0 \/ h \in Listed(s))
      /\ \A h \in Handles \ csv : s.pend[h] # 0 \/ h \in Listed(s) => h \in HandlesIn(cs)
  <2>1. s.pend \in [Handles -> Nat]
    BY <1>2 DEF EstadoType
  <2>2. QED
    BY <2>1, CandidatesList
<1> HIDE DEF top, cs, w
<1>6. Once(ts) /\ HandlesIn(ts) \subseteq HandlesIn(cs)
  BY <1>5, TruncateList
<1> HIDE DEF ts
<1>7. \A h \in HandlesIn(ts) \cup x.flight : stamp[h] # 0
  BY <1>2, <1>5, <1>6 DEF Sound, Listed
<1>8. y.top <= now
  BY <1>1, <1>3 DEF TypeOK
<1>9. Kept(Sent, Tried(y, stamp), stamp, Sent)
  BY DEF Kept
<1>10. Kept(Shown(stamp), Held(w, stamp) \cup y.flight, stamp, Sent)
  BY <1>4 DEF Covers, Kept
<1>11. ASSUME ts = cs PROVE Kept(Shown(stamp), Ahead(y, stamp), stamp, Sent)
  <2>1. \A g \in Window(s.marca, stamp) : stamp[g] # 0 => g \in Listed(s)
    <3>1. s.marca \in Nat /\ stamp \in [Handles -> Nat]
      BY <1>2 DEF EstadoType, TypeOK
    <3>2. QED
      BY <3>1, SyncAssumption DEF Window, Listed, MontarJanela
  <2>2. ASSUME NEW u \in Shown(stamp) \ Sent
        PROVE  \E g \in Ahead(y, stamp) : UuidOf[g] = u /\ stamp[g] # 0
    <3>1. PICK g \in Held(s, stamp) : UuidOf[g] = u /\ stamp[g] # 0
      BY <1>2 DEF Covers, Kept
    <3>2. CASE g \in Window(s.marca, stamp)
      <4>1. g \in Handles \ csv
        BY <3>1, <3>2 DEF Window, Sent, UuidsOf
      <4>2. g \in HandlesIn(cs)
        BY <1>5, <2>1, <3>1, <3>2, <4>1
      <4>3. QED
        BY <1>1, <1>11, <3>1, <4>2 DEF Ahead
    <3>3. CASE g \in Noted(s)
      BY <1>1, <1>4, <3>1, <3>3 DEF Ahead
    <3>4. QED
      BY <3>1, <3>2, <3>3 DEF Held
  <2>3. QED
    BY <2>2 DEF Kept
<1>12. Sending(y, stamp, Sent, now)
  BY <1>1, <1>6, <1>7, <1>8, <1>9, <1>10, <1>11 DEF Sending
<1>13. QED
  BY <1>1, <1>2, <1>4, <1>12 DEF RoundInv

\* A harvest without candidates moves the watermark past items that were all sent.
LEMMA NothingToSend ==
    ASSUME TypeOK, NEW s \in EstadoType, Sound(s, stamp, now), Covers(s, stamp, Sent),
           Candidates(s) = <<>>, NEW s2,
           s2 = Avancar(WithoutSent(s), MontarJanela(s).full,
                        Max({0} \cup {stamp[h] : h \in Listed(s)}), FALSE)
    PROVE  Sound(s2, stamp, now) /\ Covers(s2, stamp, Sent)
<1> DEFINE top == Max({0} \cup {stamp[h] : h \in Listed(s)})
           w == WithoutSent(s)
<1>1. top \in 0 .. now /\ w \in EstadoType /\ MontarJanela(s).full \in BOOLEAN
  BY HarvestTypes
<1>2. /\ Sound(w, stamp, now)
      /\ \A g \in Noted(s) : UuidOf[g] \notin Sent => g \in Noted(w)
  BY WithoutSentKeeps
<1> HIDE DEF top, w
<1>3. /\ Noted(s2) = Noted(w) /\ s2.pend = w.pend
      /\ s2.marca = IF top # 0 THEN top ELSE w.marca
  <2>1. top \in Nat /\ FALSE \in BOOLEAN
    BY <1>1
  <2>2. s2 = Avancar(w, MontarJanela(s).full, top, FALSE)
    BY DEF top, w
  <2>3. Noted(Avancar(w, MontarJanela(s).full, top, FALSE)) = Noted(w)
    BY <1>1, <2>1, AvancarTypes
  <2>4. Avancar(w, MontarJanela(s).full, top, FALSE).pend = w.pend
    BY <1>1, <2>1, AvancarTypes
  <2>5. Avancar(w, MontarJanela(s).full, top, FALSE).marca = IF top # 0 THEN top ELSE w.marca
    BY <1>1 DEF Avancar, Avanca, EstadoType
  <2>6. QED
    BY <2>2, <2>3, <2>4, <2>5
<1>4. Sound(s2, stamp, now)
  <2>1. s2.marca <= now
    <3>1. s2.marca = top \/ s2.marca = w.marca
      BY <1>3
    <3>2. top <= now /\ w.marca <= now
      BY <1>1, <1>2 DEF Sound
    <3>3. QED
      BY <3>1, <3>2
  <2>2. QED
    BY <1>2, <1>3, <2>1 DEF Sound
<1>5. \A h \in Handles \ csv : s.pend[h] = 0 /\ h \notin Listed(s)
  <2>1. s.pend \in [Handles -> Nat] /\ HandlesIn(Candidates(s)) = {}
    BY DEF EstadoType, HandlesIn
  <2>2. QED
    BY <2>1, CandidatesList
<1>6. ASSUME NEW u \in Shown(stamp) \ Sent
      PROVE  \E g \in Held(s2, stamp) : UuidOf[g] = u /\ stamp[g] # 0
  <2>1. PICK g \in Held(s, stamp) : UuidOf[g] = u /\ stamp[g] # 0
    BY DEF Covers, Kept
  <2>2. g \notin Window(s.marca, stamp)
    <3>1. s.marca \in Nat /\ stamp \in [Handles -> Nat]
      BY DEF EstadoType, TypeOK
    <3>2. ASSUME g \in Window(s.marca, stamp) PROVE g \in Listed(s) /\ g \in Handles \ csv
      BY <2>1, <3>1, <3>2, SyncAssumption
         DEF Window, Listed, MontarJanela, Sent, UuidsOf
    <3>3. QED
      BY <1>5, <3>2
  <2>3. g \in Noted(s2)
    BY <1>2, <1>3, <2>1, <2>2 DEF Held
  <2>4. QED
    BY <2>1, <2>3 DEF Held
<1>7. QED
  BY <1>4, <1>6 DEF Covers, Kept

\* A round that ends saves a state that forgets nothing.
LEMMA EndKeeps ==
    ASSUME NEW x \in RoundType, NEW st, NEW sent, NEW t \in Nat, RoundInv(x, st, sent, t),
           x.pc = "sending", x.todo = <<>>, x.flight = {},
           NEW s2, s2 = Avancar(x.estado, x.full, x.top, x.cut)
    PROVE  Sound(s2, st, t) /\ Covers(s2, st, sent)
<1>1. Sending(x, st, sent, t) /\ Sound(x.estado, st, t)
  BY DEF RoundInv
<1>2. /\ Noted(s2) = Noted(x.estado) /\ s2.pend = x.estado.pend
      /\ x.cut => s2.marca = x.estado.marca
      /\ ~x.cut => s2.marca = IF x.top # 0 THEN x.top ELSE x.estado.marca
  <2> DEFINE a == Avancar(x.estado, x.full, x.top, x.cut)
  <2>1. x.estado \in EstadoType /\ x.top \in Nat
    BY DEF RoundType
  <2>2. Noted(a) = Noted(x.estado)
    BY <2>1, AvancarTypes
  <2>3. a.pend = x.estado.pend
    BY <2>1, AvancarTypes
  <2>4. x.cut => a.marca = x.estado.marca
    BY DEF Avancar, Avanca
  <2>5. ~x.cut => a.marca = IF x.top # 0 THEN x.top ELSE x.estado.marca
    BY <2>1 DEF Avancar, Avanca, EstadoType
  <2>6. s2 = a
    OBVIOUS
  <2> HIDE DEF a
  <2>7. QED
    BY <2>2, <2>3, <2>4, <2>5, <2>6
<1>3. Sound(s2, st, t)
  BY <1>1, <1>2 DEF Sound, Sending
<1>4. CASE x.cut
  <2>1. Held(s2, st) = Held(x.estado, st) \cup x.flight
    BY <1>2, <1>4 DEF Held
  <2>2. QED
    BY <1>1, <1>3, <2>1 DEF Sending, Covers
<1>5. CASE ~x.cut
  <2>1. HandlesIn(x.todo) = {}
    BY DEF HandlesIn
  <2>2. Held(s2, st) = Ahead(x, st)
    BY <1>2, <1>5, <2>1 DEF Held, Ahead, Mark
  <2>3. QED
    BY <1>1, <1>3, <1>5, <2>2 DEF Sending, Covers
<1>6. QED
  BY <1>4, <1>5 DEF RoundType

-----------------------------------------------------------------------------
(* Types *)

\* A round that is off, and the state of a first execution.
LEMMA OffTypes == Estado \in EstadoType /\ Off \in RoundType
<1>1. Estado \in EstadoType
  BY DEF Estado, EstadoType
<1>2. <<>> \in Seq(Candidate)
  OBVIOUS
<1>3. QED
  BY <1>1, <1>2 DEF Off, RoundType

\* The first state has the types.
LEMMA TypeInit == Init => TypeOK
<1> SUFFICES ASSUME Init PROVE TypeOK
  OBVIOUS
<1>2. stamp \in [Handles -> 0 .. now] /\ csv \subseteq Handles /\ now \in Nat
  BY DEF Init
<1>3. round \in [Rounds -> RoundType] /\ disk \in EstadoType
  BY OffTypes DEF Init
<1>4. lock \in Rounds \cup {Nobody}
  BY DEF Init
<1>5. QED
  BY <1>2, <1>3, <1>4 DEF TypeOK

\* Types after a step of a round that leaves the environment alone.
LEMMA RoundTypes ==
    ASSUME TypeOK, NEW r \in Rounds, NEW y \in RoundType, round' = [round EXCEPT ![r] = y],
           UNCHANGED <<now, stamp>>, disk' \in EstadoType, csv' \subseteq Handles,
           lock' \in {lock, r, Nobody}
    PROVE  TypeOK'
<1>1. round' \in [Rounds -> RoundType]
  BY DEF TypeOK
<1>2. lock' \in Rounds \cup {Nobody}
  BY DEF TypeOK
<1>3. now' \in Nat /\ stamp' \in [Handles -> 0 .. now']
  BY DEF TypeOK
<1>4. QED
  BY <1>1, <1>2, <1>3 DEF TypeOK

\* Types after a round saves its state.
LEMMA SaveTypes ==
    ASSUME TypeOK, NEW r \in Rounds, NEW s \in EstadoType, Salvar(r, s),
           UNCHANGED <<now, stamp, csv>>
    PROVE  TypeOK'
<1>1. /\ round' = [round EXCEPT ![r] = Off] /\ disk' \in EstadoType
      /\ lock' = Nobody /\ csv' \subseteq Handles
  BY DEF Salvar, TypeOK
<1>2. QED
  BY <1>1, OffTypes, RoundTypes

\* Every step keeps the types.
LEMMA TypeInductive == TypeOK /\ [Next]_vars => TypeOK'
<1> SUFFICES ASSUME TypeOK, [Next]_vars PROVE TypeOK'
  OBVIOUS
<1>1. ASSUME NEW h \in Handles, Publish(h) PROVE TypeOK'
  <2>1. PICK d \in (stamp[h] + 1) .. (now + 1) : stamp' = [stamp EXCEPT ![h] = d]
    BY <1>1, Zenon DEF Publish
  <2>2. now' = now + 1 /\ now \in Nat /\ stamp \in [Handles -> 0 .. now]
    BY <1>1 DEF Publish, TypeOK
  <2>3. stamp' \in [Handles -> 0 .. now'] /\ now' \in Nat
    BY <2>1, <2>2
  <2>4. ASSUME NEW s \in EstadoType PROVE [s EXCEPT !.left = s.left \ {h}] \in EstadoType
    BY DEF EstadoType
  <2>5. disk' \in EstadoType
    BY <1>1, <2>4 DEF Publish, TypeOK
  <2>6. ASSUME NEW r \in Rounds PROVE round'[r] \in RoundType
    <3>1. round[r] \in RoundType /\ round[r].estado \in EstadoType
      BY DEF TypeOK, RoundType
    <3>2. PICK s2 : s2 = [round[r].estado EXCEPT !.left = round[r].estado.left \ {h}]
      OBVIOUS
    <3>3. s2 \in EstadoType /\ round'[r] = [round[r] EXCEPT !.estado = s2]
      BY <1>1, <2>4, <3>1, <3>2 DEF Publish
    <3>4. QED
      BY <3>1, <3>3 DEF RoundType
  <2>7. round' \in [Rounds -> RoundType]
    BY <1>1, <2>6 DEF Publish
  <2>8. QED
    BY <1>1, <2>3, <2>5, <2>7 DEF Publish, TypeOK
<1>2. ASSUME WeekPasses PROVE TypeOK'
  <2>1. ASSUME NEW s \in EstadoType PROVE [s EXCEPT !.fresh = FALSE] \in EstadoType
    BY DEF EstadoType
  <2>2. disk' \in EstadoType
    BY <1>2, <2>1 DEF WeekPasses, TypeOK
  <2>3. ASSUME NEW r \in Rounds PROVE round'[r] \in RoundType
    <3>1. round[r] \in RoundType /\ round[r].estado \in EstadoType
      BY DEF TypeOK, RoundType
    <3>2. PICK s2 : s2 = [round[r].estado EXCEPT !.fresh = FALSE]
      OBVIOUS
    <3>3. s2 \in EstadoType /\ round'[r] = [round[r] EXCEPT !.estado = s2]
      BY <1>2, <2>1, <3>1, <3>2 DEF WeekPasses
    <3>4. QED
      BY <3>1, <3>3 DEF RoundType
  <2>4. round' \in [Rounds -> RoundType]
    BY <1>2, <2>3 DEF WeekPasses
  <2>5. QED
    BY <1>2, <2>2, <2>4 DEF WeekPasses, TypeOK
<1>3. ASSUME NEW r \in Rounds, Step(r) \/ Fails(r) PROVE TypeOK'
  <2> DEFINE x == round[r]
  <2>1. /\ x \in RoundType /\ x.estado \in EstadoType /\ x.todo \in Seq(Candidate)
        /\ x.flight \subseteq Handles /\ x.uuids \subseteq UuidsOf(Handles)
        /\ x.full \in BOOLEAN /\ x.top \in Nat /\ x.cut \in BOOLEAN
    BY DEF TypeOK, RoundType
  <2>2. disk \in EstadoType /\ csv \subseteq Handles /\ stamp \in [Handles -> Nat]
    BY DEF TypeOK
  <2>3. ASSUME x.todo # <<>>
        PROVE  /\ Candidato(r).h \in Handles /\ Tail(x.todo) \in Seq(Candidate)
    <3>1. Head(x.todo) \in Candidate /\ Tail(x.todo) \in Seq(Candidate)
      BY <2>1, <2>3
    <3>2. QED
      BY <3>1 DEF Candidato, Candidate
  <2>4. ASSUME NEW y \in RoundType, round' = [round EXCEPT ![r] = y],
               UNCHANGED <<now, stamp, disk, csv, lock>>
        PROVE  TypeOK'
    <3>1. disk' \in EstadoType /\ csv' \subseteq Handles /\ lock' \in {lock, r, Nobody}
      BY <2>2, <2>4
    <3>2. QED
      BY <2>4, <3>1, RoundTypes
  <2>5. CASE Carregar(r)
    <3>1. PICK dry \in DryRuns :
             round' = [round EXCEPT ![r] =
                          [Off EXCEPT !.pc = "loaded", !.dry = dry, !.estado = disk]]
      BY <2>5, Zenon DEF Carregar
    <3>2. [Off EXCEPT !.pc = "loaded", !.dry = dry, !.estado = disk] \in RoundType
      BY <2>2, OffTypes, SyncAssumption DEF RoundType
    <3>3. QED
      BY <2>4, <2>5, <3>1, <3>2 DEF Carregar
  <2>6. CASE Travar(r)
    <3>1. [x EXCEPT !.pc = "locked"] \in RoundType
      BY <2>1 DEF RoundType
    <3>2. \E y \in RoundType : round' = [round EXCEPT ![r] = y]
      BY <2>6, <3>1, OffTypes DEF Travar
    <3>3. disk' \in EstadoType /\ csv' \subseteq Handles /\ lock' \in {lock, r, Nobody}
      BY <2>2, <2>6 DEF Travar
    <3>4. QED
      BY <2>6, <3>2, <3>3, RoundTypes DEF Travar
  <2>7. CASE Colheita(r)
    <3> DEFINE s == x.estado
               top == Max({0} \cup {stamp[h] : h \in Listed(s)})
               full == MontarJanela(s).full
               cs == Candidates(s)
    <3>1. top \in 0 .. now /\ full \in BOOLEAN /\ WithoutSent(s) \in EstadoType
      BY <2>1, HarvestTypes
    <3>2. CASE cs = <<>>
      <4>1. Salvar(r, Avancar(WithoutSent(s), full, top, FALSE)) /\ UNCHANGED <<now, stamp, csv>>
        BY <2>7, <3>2 DEF Colheita
      <4>2. top \in Nat
        BY <3>1
      <4> HIDE DEF top, full
      <4>3. Avancar(WithoutSent(s), full, top, FALSE) \in EstadoType
        BY <3>1, <4>2, AvancarTypes
      <4>4. QED
        BY <4>1, <4>3, SaveTypes
    <3>3. CASE cs # <<>>
      <4> DEFINE y == [x EXCEPT !.pc = "sending", !.estado = WithoutSent(s), !.full = full,
                                !.top = top, !.cut = Truncate(cs) # cs,
                                !.todo = Truncate(cs), !.uuids = Sent]
      <4>1. round' = [round EXCEPT ![r] = y] /\ UNCHANGED <<now, stamp, disk, csv, lock>>
        BY <2>7, <3>3 DEF Colheita, Sent
      <4>2. Truncate(cs) \in Seq(Candidate)
        <5>1. s.pend \in [Handles -> Nat]
          BY <2>1 DEF EstadoType
        <5>2. cs \in Seq(Candidate) /\ Once(cs)
          BY <5>1, CandidatesList
        <5> HIDE DEF cs
        <5>3. QED
          BY <5>2, TruncateList
      <4>3. Sent \in SUBSET UuidsOf(Handles) /\ top \in Nat
        BY <2>2, <3>1 DEF Sent, UuidsOf
      <4> HIDE DEF top, full, cs
      <4>4. y \in RoundType
        BY <2>1, <3>1, <4>2, <4>3 DEF RoundType
      <4> HIDE DEF y
      <4>5. QED
        BY <2>4, <4>1, <4>4
    <3>4. QED
      BY <3>2, <3>3
  <2>8. CASE Enviar(r)
    <3>1. x.todo # <<>> /\ UNCHANGED <<now, stamp, disk, csv, lock>>
      BY <2>8 DEF Enviar, Loops
    <3>2. CASE Sends(r, Candidato(r))
      <4> DEFINE us == x.uuids \cup {UuidOf[Candidato(r).h]}
                 fs == IF x.dry THEN x.flight ELSE x.flight \cup {Candidato(r).h}
                 y == [x EXCEPT !.todo = Tail(x.todo), !.uuids = us, !.flight = fs]
      <4>1. us \in SUBSET UuidsOf(Handles) /\ fs \in SUBSET Handles
        BY <2>1, <2>3, <3>1 DEF UuidsOf
      <4>2. round' = [round EXCEPT ![r] = y]
        BY <2>8, <3>2 DEF Enviar, Loops
      <4> HIDE DEF us, fs
      <4>3. y \in RoundType
        BY <2>1, <2>3, <3>1, <4>1 DEF RoundType
      <4> HIDE DEF y
      <4>4. QED
        BY <2>4, <3>1, <4>2, <4>3
    <3>3. CASE ~Sends(r, Candidato(r))
      <4> DEFINE s2 == Pop(x.estado, Candidato(r).h)
                 y == [x EXCEPT !.todo = Tail(x.todo), !.estado = s2]
      <4>1. s2 \in EstadoType
        BY <2>1, <2>3, <3>1, NotedAfter
      <4>2. round' = [round EXCEPT ![r] = y]
        BY <2>8, <3>3 DEF Enviar, Skip
      <4> HIDE DEF s2
      <4>3. y \in RoundType
        BY <2>1, <2>3, <3>1, <4>1 DEF RoundType
      <4> HIDE DEF y
      <4>4. QED
        BY <2>4, <3>1, <4>2, <4>3
    <3>4. QED
      BY <3>2, <3>3
  <2>9. CASE SemUuid(r)
    <3> DEFINE s2 == MarcarFalha(x.estado, Candidato(r).h)
               y == [x EXCEPT !.todo = Tail(x.todo), !.estado = s2]
    <3>1. x.todo # <<>> /\ UNCHANGED <<now, stamp, disk, csv, lock>>
      BY <2>9 DEF SemUuid, Loops
    <3>2. s2 \in EstadoType
      BY <2>1, <2>3, <3>1, NotedAfter
    <3>3. round' = [round EXCEPT ![r] = y]
      BY <2>9 DEF SemUuid, Skip, Loops
    <3> HIDE DEF s2
    <3>4. y \in RoundType
      BY <2>1, <2>3, <3>1, <3>2 DEF RoundType
    <3> HIDE DEF y
    <3>5. QED
      BY <2>4, <3>1, <3>3, <3>4
  <2>10. CASE PrazoEstourado(r)
    <3>1. <<>> \in Seq(Candidate)
      OBVIOUS
    <3>2. [x EXCEPT !.todo = <<>>, !.cut = TRUE] \in RoundType
      BY <2>1, <3>1 DEF RoundType
    <3>3. QED
      BY <2>4, <2>10, <3>2 DEF PrazoEstourado, Loops
  <2>11. CASE \E h \in Handles : Enviado(r, h) \/ Recusado(r, h) \/ Falhou(r, h)
    <3>1. UNCHANGED <<now, stamp, disk, csv, lock>>
      BY <2>11, AnswerStep
    <3>2. PICK a \in [Handles -> Reply \cup {"none"}] :
             round' = [round EXCEPT ![r] = [x EXCEPT !.answer = a]]
      BY <2>11, AnswerStep
    <3>3. [x EXCEPT !.answer = a] \in RoundType
      BY <2>1 DEF RoundType
    <3>4. QED
      BY <2>4, <3>1, <3>2, <3>3
  <2>12. CASE \E h \in Handles : Colher(r, h)
    <3>1. PICK h \in Handles : Colher(r, h)
      BY <2>12
    <3>2. /\ h \in x.flight /\ UNCHANGED <<now, stamp, disk, lock>> /\ csv' \subseteq Handles
          /\ \E s2 \in EstadoType : round' = [round EXCEPT ![r] = Collected(x, h, s2)]
      BY <2>2, <3>1, CollectStep
    <3>3. \E y \in RoundType : round' = [round EXCEPT ![r] = y]
      BY <2>1, <3>2, CollectedTypes
    <3>4. disk' \in EstadoType /\ lock' \in {lock, r, Nobody}
      BY <2>2, <3>2
    <3>5. QED
      BY <3>2, <3>3, <3>4, RoundTypes
  <2>13. CASE Terminar(r)
    <3>1. Avancar(x.estado, x.full, x.top, x.cut) \in EstadoType
      BY <2>1, AvancarTypes
    <3>2. QED
      BY <2>13, <3>1, SaveTypes DEF Terminar
  <2>14. CASE Pular(r) \/ ColheitaFalhou(r)
    <3>1. WithoutSent(x.estado) \in EstadoType
      BY <2>1, HarvestTypes
    <3>2. \E s \in EstadoType : Salvar(r, s)
      BY <2>1, <2>14, <3>1 DEF Pular, ColheitaFalhou
    <3>3. QED
      BY <2>14, <3>2, SaveTypes DEF Pular, ColheitaFalhou
  <2>15. CASE Interromper(r)
    <3>1. disk' \in EstadoType /\ csv' \subseteq Handles /\ lock' \in {lock, r, Nobody}
      BY <2>2, <2>15 DEF Interromper, TravaLivre
    <3>2. QED
      BY <2>15, <3>1, OffTypes, RoundTypes DEF Interromper
  <2>16. QED
    BY <1>3, <2>5, <2>6, <2>7, <2>8, <2>9, <2>10, <2>11, <2>12, <2>13, <2>14, <2>15 DEF Step, Fails
<1>4. CASE UNCHANGED vars
  BY <1>4 DEF vars, TypeOK
<1>5. QED
  BY <1>1, <1>2, <1>3, <1>4 DEF Next

\* The types hold in every state.
THEOREM TypesHold == Spec => []TypeOK
<1>1. Init => TypeOK
  BY TypeInit
<1>2. TypeOK /\ [Next]_vars => TypeOK'
  BY TypeInductive
<1>3. QED
  BY <1>1, <1>2, PTL DEF Spec

-----------------------------------------------------------------------------
(* Nothing is sent twice *)

\* The lock is of the round that harvests and sends, no other has anything to send, and
\* a round that sends knows all items that were sent or are on their way.
Exclusive ==
    \A r \in Rounds :
        /\ round[r].pc \in {"locked", "sending"} => lock = r
        /\ round[r].pc # "sending" => round[r].todo = <<>> /\ round[r].flight = {}
        /\ round[r].pc = "sending" => Sent \cup UuidsOf(round[r].flight) \subseteq round[r].uuids
        /\ \A h \in Handles : round[r].answer[h] # "none" => h \in round[r].flight

\* A step of a round leaves the other rounds as they should be.
LEMMA ExclusiveAfter ==
    ASSUME TypeOK, Exclusive, NEW r \in Rounds, NEW y, round' = [round EXCEPT ![r] = y],
           y.pc \in {"locked", "sending"} => lock' = r,
           y.pc # "sending" => y.todo = <<>> /\ y.flight = {},
           y.pc = "sending" => Sent' \cup UuidsOf(y.flight) \subseteq y.uuids,
           \A h \in Handles : y.answer[h] # "none" => h \in y.flight,
           lock' = lock \/ lock \in {r, Nobody},
           Sent' = Sent \/ round[r].pc = "sending"
    PROVE  Exclusive'
<1>1. round'[r] = y /\ \A q \in Rounds \ {r} : round'[q] = round[q]
  BY DEF TypeOK
<1>2. ASSUME NEW q \in Rounds \ {r}, round[q].pc \in {"locked", "sending"}
      PROVE  lock' = q /\ Sent' = Sent
  <2>1. lock = q /\ (round[r].pc = "sending" => lock = r)
    BY <1>2 DEF Exclusive
  <2>2. lock # r /\ lock # Nobody
    BY <1>2, <2>1, SyncAssumption DEF Nobody
  <2>3. QED
    BY <2>1, <2>2
<1>3. ASSUME NEW q \in Rounds
      PROVE  /\ round'[q].pc \in {"locked", "sending"} => lock' = q
             /\ round'[q].pc # "sending" => round'[q].todo = <<>> /\ round'[q].flight = {}
             /\ round'[q].pc = "sending" =>
                   Sent' \cup UuidsOf(round'[q].flight) \subseteq round'[q].uuids
             /\ \A h \in Handles : round'[q].answer[h] # "none" => h \in round'[q].flight
  <2>1. CASE q = r
    BY <1>1, <2>1
  <2>2. CASE q # r
    BY <1>1, <1>2, <2>2 DEF Exclusive
  <2>3. QED
    BY <2>1, <2>2
<1>4. QED
  BY <1>3 DEF Exclusive

\* A round that saves frees the lock that it held.
LEMMA ExclusiveSave ==
    ASSUME TypeOK, Exclusive, NEW r \in Rounds, NEW s, Salvar(r, s), UNCHANGED csv,
           round[r].pc \in {"locked", "sending"}
    PROVE  Exclusive'
<1>1. round' = [round EXCEPT ![r] = Off] /\ lock = r
  BY DEF Salvar, Exclusive
<1>2. Sent' = Sent
  BY DEF Sent, UuidsOf
<1>3. /\ Off.pc = "off" /\ Off.todo = <<>> /\ Off.flight = {}
      /\ \A h \in Handles : Off.answer[h] = "none"
  BY DEF Off
<1>4. QED
  BY <1>1, <1>2, <1>3, ExclusiveAfter

\* Every step leaves the lock to the round that harvests and sends.
LEMMA ExclusiveInductive == TypeOK /\ Exclusive /\ [Next]_vars => Exclusive'
<1> SUFFICES ASSUME TypeOK, Exclusive, [Next]_vars PROVE Exclusive'
  OBVIOUS
<1>1. ASSUME UNCHANGED <<csv, lock>>,
             \A r \in Rounds : /\ round'[r].pc = round[r].pc
                               /\ round'[r].todo = round[r].todo
                               /\ round'[r].flight = round[r].flight
                               /\ round'[r].uuids = round[r].uuids
                               /\ round'[r].answer = round[r].answer
      PROVE  Exclusive'
  <2>1. Sent' = Sent
    BY <1>1 DEF Sent, UuidsOf
  <2>2. QED
    BY <1>1, <2>1 DEF Exclusive
<1>2. CASE WeekPasses \/ \E h \in Handles : Publish(h)
  <2>1. UNCHANGED <<csv, lock>>
    BY <1>2 DEF WeekPasses, Publish
  <2>2. ASSUME NEW r \in Rounds PROVE \E s : round'[r] = [round[r] EXCEPT !.estado = s]
    BY <1>2 DEF WeekPasses, Publish
  <2>3. ASSUME NEW r \in Rounds
        PROVE  /\ round'[r].pc = round[r].pc /\ round'[r].todo = round[r].todo
               /\ round'[r].flight = round[r].flight /\ round'[r].uuids = round[r].uuids
               /\ round'[r].answer = round[r].answer
    <3>1. round[r] \in RoundType
      BY DEF TypeOK
    <3>2. QED
      BY <2>2, <3>1 DEF RoundType
  <2>4. QED
    BY <1>1, <2>1, <2>3
<1>3. CASE UNCHANGED vars
  BY <1>1, <1>3 DEF vars
<1>4. ASSUME NEW r \in Rounds, Step(r) \/ Fails(r) PROVE Exclusive'
  <2> DEFINE x == round[r]
  <2>1. /\ x \in RoundType /\ Off.pc = "off" /\ Off.todo = <<>> /\ Off.flight = {}
        /\ \A h \in Handles : Off.answer[h] = "none"
    BY DEF TypeOK, Off
  <2>2. x.todo # <<>> \/ x.flight # {} => x.pc = "sending"
    BY DEF Exclusive
  <2>3. x.pc = "sending" =>
           lock = r /\ Sent \cup UuidsOf(x.flight) \subseteq x.uuids
    BY DEF Exclusive
  <2>17. \A h \in Handles : x.answer[h] # "none" => h \in x.flight
    BY DEF Exclusive
  <2>4. UNCHANGED csv => Sent' = Sent
    BY DEF Sent, UuidsOf
  <2>5. ASSUME NEW y, round' = [round EXCEPT ![r] = y], UNCHANGED <<csv, lock>>,
               x.pc = "sending", y.pc = "sending",
               Sent \cup UuidsOf(y.flight) \subseteq y.uuids,
               \A h \in Handles : y.answer[h] # "none" => h \in y.flight
        PROVE  Exclusive'
    BY <2>3, <2>4, <2>5, ExclusiveAfter
  <2>6. CASE Carregar(r)
    <3>1. PICK dry \in DryRuns :
             round' = [round EXCEPT ![r] =
                          [Off EXCEPT !.pc = "loaded", !.dry = dry, !.estado = disk]]
      BY <2>6, Zenon DEF Carregar
    <3> DEFINE y == [Off EXCEPT !.pc = "loaded", !.dry = dry, !.estado = disk]
    <3>2. /\ y.pc = "loaded" /\ y.todo = <<>> /\ y.flight = {}
          /\ \A h \in Handles : y.answer[h] = "none"
      BY DEF Off
    <3>3. UNCHANGED <<csv, lock>>
      BY <2>6 DEF Carregar
    <3> HIDE DEF y
    <3>4. QED
      BY <2>4, <3>1, <3>2, <3>3, ExclusiveAfter DEF y
  <2>7. CASE Travar(r)
    <3>1. UNCHANGED csv /\ x.pc = "loaded"
      BY <2>7 DEF Travar
    <3>2. CASE Livre
      <4> DEFINE y == [x EXCEPT !.pc = "locked"]
      <4>1. round' = [round EXCEPT ![r] = y] /\ lock' = r /\ lock = Nobody
        BY <2>7, <3>2 DEF Travar, Livre
      <4>2. y.pc = "locked" /\ y.todo = <<>> /\ y.flight = {} /\ y.answer = x.answer
        BY <2>1, <2>2, <3>1 DEF RoundType
      <4> HIDE DEF y
      <4>3. QED
        BY <2>2, <2>4, <2>17, <3>1, <4>1, <4>2, ExclusiveAfter
    <3>3. CASE ~Livre
      <4>1. round' = [round EXCEPT ![r] = Off] /\ lock' = lock
        BY <2>7, <3>3 DEF Travar
      <4>2. QED
        BY <2>1, <2>4, <3>1, <4>1, ExclusiveAfter
    <3>4. QED
      BY <3>2, <3>3
  <2>8. CASE Colheita(r)
    <3>1. x.pc = "locked" /\ UNCHANGED csv /\ x.flight = {}
      BY <2>2, <2>8 DEF Colheita
    <3>2. CASE \E s : Salvar(r, s)
      BY <3>1, <3>2, ExclusiveSave
    <3>3. CASE ~\E s : Salvar(r, s)
      <4> DEFINE s == x.estado
                 y == [x EXCEPT !.pc = "sending", !.estado = WithoutSent(s),
                                !.full = MontarJanela(s).full,
                                !.top = Max({0} \cup {stamp[h] : h \in Listed(s)}),
                                !.cut = Truncate(Candidates(s)) # Candidates(s),
                                !.todo = Truncate(Candidates(s)), !.uuids = Sent]
      <4>1. round' = [round EXCEPT ![r] = y] /\ lock' = lock
        BY <2>8, <3>3 DEF Colheita, Sent
      <4>2. y.pc = "sending" /\ y.uuids = Sent /\ y.flight = x.flight /\ y.answer = x.answer
        BY <2>1 DEF RoundType
      <4> HIDE DEF y
      <4>3. UuidsOf(y.flight) = {} /\ lock = r
        BY <3>1, <4>2 DEF UuidsOf, Exclusive
      <4>4. QED
        BY <2>4, <2>17, <3>1, <4>1, <4>2, <4>3, ExclusiveAfter
    <3>4. QED
      BY <3>2, <3>3
  <2>9. CASE Enviar(r)
    <3>1. x.todo # <<>> /\ UNCHANGED <<csv, lock>> /\ x.pc = "sending"
      BY <2>2, <2>9 DEF Enviar, Loops
    <3>2. CASE Sends(r, Candidato(r))
      <4> DEFINE us == x.uuids \cup {UuidOf[Candidato(r).h]}
                 fs == IF x.dry THEN x.flight ELSE x.flight \cup {Candidato(r).h}
                 y == [x EXCEPT !.todo = Tail(x.todo), !.uuids = us, !.flight = fs]
      <4>1. Sent \cup UuidsOf(fs) \subseteq us /\ x.flight \subseteq fs
        BY <2>3, <3>1 DEF UuidsOf
      <4>2. round' = [round EXCEPT ![r] = y]
        BY <2>9, <3>2 DEF Enviar, Loops
      <4> HIDE DEF us, fs
      <4>3. y.pc = "sending" /\ y.uuids = us /\ y.flight = fs /\ y.answer = x.answer
        BY <2>1, <3>1 DEF RoundType
      <4> HIDE DEF y
      <4>4. QED
        BY <2>5, <2>17, <3>1, <4>1, <4>2, <4>3
    <3>3. CASE ~Sends(r, Candidato(r))
      <4> DEFINE y == [x EXCEPT !.todo = Tail(x.todo), !.estado = Pop(x.estado, Candidato(r).h)]
      <4>1. round' = [round EXCEPT ![r] = y]
        BY <2>9, <3>3 DEF Enviar, Skip
      <4>2. /\ y.pc = "sending" /\ y.uuids = x.uuids /\ y.flight = x.flight
          /\ y.answer = x.answer
        BY <2>1, <3>1 DEF RoundType
      <4> HIDE DEF y
      <4>3. QED
        BY <2>3, <2>5, <2>17, <3>1, <4>1, <4>2
    <3>4. QED
      BY <3>2, <3>3
  <2>10. CASE SemUuid(r)
    <3> DEFINE y == [x EXCEPT !.todo = Tail(x.todo),
                              !.estado = MarcarFalha(x.estado, Candidato(r).h)]
    <3>1. UNCHANGED <<csv, lock>> /\ x.pc = "sending" /\ round' = [round EXCEPT ![r] = y]
      BY <2>2, <2>10 DEF SemUuid, Skip, Loops
    <3>2. /\ y.pc = "sending" /\ y.uuids = x.uuids /\ y.flight = x.flight
          /\ y.answer = x.answer
      BY <2>1, <3>1 DEF RoundType
    <3> HIDE DEF y
    <3>3. QED
      BY <2>3, <2>5, <2>17, <3>1, <3>2
  <2>11. CASE PrazoEstourado(r)
    <3> DEFINE y == [x EXCEPT !.todo = <<>>, !.cut = TRUE]
    <3>1. UNCHANGED <<csv, lock>> /\ x.pc = "sending" /\ round' = [round EXCEPT ![r] = y]
      BY <2>2, <2>11 DEF PrazoEstourado, Loops
    <3>2. /\ y.pc = "sending" /\ y.uuids = x.uuids /\ y.flight = x.flight
          /\ y.answer = x.answer
      BY <2>1, <3>1 DEF RoundType
    <3> HIDE DEF y
    <3>3. QED
      BY <2>3, <2>5, <2>17, <3>1, <3>2
  <2>12. CASE \E h \in Handles : Enviado(r, h) \/ Recusado(r, h) \/ Falhou(r, h)
    <3>1. PICK h \in Handles : Enviado(r, h) \/ Recusado(r, h) \/ Falhou(r, h)
      BY <2>12
    <3>2. h \in x.flight /\ UNCHANGED <<csv, lock>> /\ x.pc = "sending"
      BY <2>2, <3>1, AnswerStep
    <3>3. PICK a \in [Handles -> Reply \cup {"none"}] :
             /\ round' = [round EXCEPT ![r] = [x EXCEPT !.answer = a]]
             /\ \A g \in Handles : a[g] # "none" => g = h \/ x.answer[g] # "none"
      BY <3>1, AnswerStep
    <3> DEFINE y == [x EXCEPT !.answer = a]
    <3>4. y.pc = "sending" /\ y.uuids = x.uuids /\ y.flight = x.flight /\ y.answer = a
      BY <2>1, <3>2 DEF RoundType
    <3>5. round' = [round EXCEPT ![r] = y]
      BY <3>3
    <3> HIDE DEF y
    <3>6. QED
      BY <2>3, <2>5, <2>17, <3>2, <3>3, <3>4, <3>5
  <2>18. CASE \E h \in Handles : Colher(r, h)
    <3>1. PICK h \in Handles : Colher(r, h)
      BY <2>18
    <3>2. /\ h \in x.flight /\ lock' = lock /\ x.pc = "sending"
          /\ csv \subseteq csv' /\ csv' \subseteq csv \cup {h}
      BY <2>2, <3>1, CollectStep
    <3>3. PICK s2 \in EstadoType : round' = [round EXCEPT ![r] = Collected(x, h, s2)]
      BY <3>1, CollectStep
    <3> DEFINE y == Collected(x, h, s2)
    <3>4. /\ y.pc = x.pc /\ y.uuids = x.uuids /\ y.flight = x.flight \ {h}
          /\ y.answer = [x.answer EXCEPT ![h] = "none"]
      <4>1. LeavesRest(x, h, s2, y)
        BY <2>1, <3>2, CollectedFields
      <4>2. QED
        BY <4>1 DEF LeavesRest
    <3>5. \A g \in Handles : y.answer[g] # "none" => g \in y.flight
      BY <2>1, <2>17, <3>4 DEF RoundType
    <3>6. UuidsOf(y.flight) \subseteq x.uuids /\ UuidOf[h] \in x.uuids
      BY <2>3, <3>2, <3>4 DEF UuidsOf
    <3>7. Sent' \subseteq x.uuids
      BY <2>3, <3>2, <3>6 DEF Sent, UuidsOf
    <3>8. round' = [round EXCEPT ![r] = y]
      BY <3>3
    <3> HIDE DEF y
    <3>9. QED
      BY <2>3, <3>2, <3>4, <3>5, <3>6, <3>7, <3>8, ExclusiveAfter
  <2>13. CASE Terminar(r)
    BY <2>13, ExclusiveSave DEF Terminar
  <2>14. CASE Pular(r) \/ ColheitaFalhou(r)
    BY <2>14, ExclusiveSave DEF Pular, ColheitaFalhou
  <2>15. CASE Interromper(r)
    <3>1. UNCHANGED csv /\ round' = [round EXCEPT ![r] = Off] /\ (lock' = lock \/ lock = r)
      BY <2>15 DEF Interromper, TravaLivre
    <3>2. QED
      BY <2>1, <2>4, <3>1, ExclusiveAfter
  <2>16. QED
    BY <1>4, <2>6, <2>7, <2>8, <2>9, <2>10, <2>11, <2>12, <2>13, <2>14, <2>15, <2>18
       DEF Step, Fails
<1>5. QED
  BY <1>2, <1>3, <1>4 DEF Next

\* A handle is in flight only when the loop over the candidates sends it.
LEMMA SentByLoop ==
    ASSUME TypeOK, [Next]_vars, NEW r \in Rounds, NEW h \in round'[r].flight \ round[r].flight
    PROVE  h = Candidato(r).h /\ Sends(r, Candidato(r)) /\ round[r].todo # <<>>
<1>1. round[r] \in RoundType /\ round \in [Rounds -> RoundType]
  BY DEF TypeOK
<1>2. ASSUME NEW y, round' = [round EXCEPT ![r] = y], y.flight \subseteq round[r].flight
      PROVE  FALSE
  BY <1>1, <1>2
<1>3. ~(\E s : round'[r] = [round[r] EXCEPT !.estado = s])
  BY <1>1 DEF RoundType
<1>4. Next
  BY DEF vars
<1>5. ~WeekPasses /\ ~(\E k \in Handles : Publish(k))
  <2>1. CASE WeekPasses
    BY <1>3, <2>1 DEF WeekPasses
  <2>2. CASE \E k \in Handles : Publish(k)
    BY <1>3, <2>2 DEF Publish
  <2>3. QED
    BY <2>1, <2>2
<1>6. PICK q \in Rounds : Step(q) \/ Fails(q)
  BY <1>4, <1>5 DEF Next
<1>7. q = r
  <2>1. round' = [round EXCEPT ![q] = round'[q]]
    BY <1>1, <1>6 DEF Step, Fails, Carregar, Travar, Colheita, Enviar, SemUuid,
                      PrazoEstourado, Colher,
                      Enviado, Recusado, Falhou, Terminar, Pular, ColheitaFalhou, Interromper,
                      Salvar, Skip, Answers
  <2>2. QED
    BY <1>1, <2>1
<1>8. Off.flight = {}
  BY DEF Off
<1>9. ~(\E s : Salvar(r, s)) /\ ~Interromper(r)
  BY <1>2, <1>8 DEF Salvar, Interromper
<1>10. ~(\E s : Skip(r, s)) /\ ~(\E k \in Handles : Colher(r, k)) /\ ~PrazoEstourado(r)
  <2>1. ASSUME NEW s, Skip(r, s) PROVE FALSE
    <3> DEFINE y == [round[r] EXCEPT !.todo = Tail(round[r].todo), !.estado = s]
    <3>1. round' = [round EXCEPT ![r] = y]
      BY <2>1 DEF Skip
    <3>2. y.flight = round[r].flight
      BY <1>1 DEF RoundType
    <3> HIDE DEF y
    <3>3. QED
      BY <1>2, <3>1, <3>2
  <2>2. ASSUME NEW k \in Handles, Colher(r, k) PROVE FALSE
    <3>1. PICK s2 \in EstadoType : round' = [round EXCEPT ![r] = Collected(round[r], k, s2)]
      BY <2>2, CollectStep
    <3>2. k \in round[r].flight
      BY <2>2, CollectStep
    <3>3. Collected(round[r], k, s2).flight = round[r].flight \ {k}
      <4>1. LeavesRest(round[r], k, s2, Collected(round[r], k, s2))
        BY <1>1, <3>2, CollectedFields
      <4>2. QED
        BY <4>1 DEF LeavesRest
    <3>4. QED
      BY <1>2, <3>1, <3>3
  <2>3. ASSUME PrazoEstourado(r) PROVE FALSE
    <3> DEFINE y == [round[r] EXCEPT !.todo = <<>>, !.cut = TRUE]
    <3>1. round' = [round EXCEPT ![r] = y]
      BY <2>3 DEF PrazoEstourado, Loops
    <3>2. y.flight = round[r].flight
      BY <1>1 DEF RoundType
    <3> HIDE DEF y
    <3>3. QED
      BY <1>2, <3>1, <3>2
  <2>4. QED
    BY <2>1, <2>2, <2>3
<1>11. ~Carregar(r) /\ ~Travar(r)
  <2>1. ASSUME Carregar(r) PROVE FALSE
    <3>1. PICK dry \in DryRuns :
             round' = [round EXCEPT ![r] =
                          [Off EXCEPT !.pc = "loaded", !.dry = dry, !.estado = disk]]
      BY <2>1, Zenon DEF Carregar
    <3>2. [Off EXCEPT !.pc = "loaded", !.dry = dry, !.estado = disk].flight = {}
      BY DEF Off
    <3>3. QED
      BY <1>2, <3>1, <3>2
  <2>2. ASSUME Travar(r) PROVE FALSE
    <3>1. [round[r] EXCEPT !.pc = "locked"].flight = round[r].flight
      BY <1>1 DEF RoundType
    <3>2. QED
      BY <1>2, <1>8, <2>2, <3>1 DEF Travar
  <2>3. QED
    BY <2>1, <2>2
<1>12. ~Colheita(r)
  <2> DEFINE s == round[r].estado
             y == [round[r] EXCEPT !.pc = "sending", !.estado = WithoutSent(s),
                                   !.full = MontarJanela(s).full,
                                   !.top = Max({0} \cup {stamp[g] : g \in Listed(s)}),
                                   !.cut = Truncate(Candidates(s)) # Candidates(s),
                                   !.todo = Truncate(Candidates(s)), !.uuids = UuidsOf(csv)]
  <2>1. ASSUME Colheita(r) PROVE round' = [round EXCEPT ![r] = y]
    BY <1>9, <2>1 DEF Colheita
  <2>2. y.flight = round[r].flight
    BY <1>1 DEF RoundType
  <2> HIDE DEF y
  <2>3. QED
    BY <1>2, <2>1, <2>2
<1>17. ~(\E k \in Handles : Enviado(r, k) \/ Recusado(r, k) \/ Falhou(r, k))
  <2>1. ASSUME NEW k \in Handles, Enviado(r, k) \/ Recusado(r, k) \/ Falhou(r, k) PROVE FALSE
    <3>1. PICK a \in [Handles -> Reply \cup {"none"}] :
             round' = [round EXCEPT ![r] = [round[r] EXCEPT !.answer = a]]
      BY <2>1, AnswerStep
    <3>2. [round[r] EXCEPT !.answer = a].flight = round[r].flight
      BY <1>1 DEF RoundType
    <3>3. QED
      BY <1>2, <3>1, <3>2
  <2>2. QED
    BY <2>1
<1>13. Enviar(r)
  BY <1>6, <1>7, <1>9, <1>10, <1>11, <1>12, <1>17
     DEF Step, Fails, Terminar, Pular, ColheitaFalhou, SemUuid
<1>14. Sends(r, Candidato(r))
  BY <1>10, <1>13 DEF Enviar, Loops
<1>15. round'[r].flight \subseteq round[r].flight \cup {Candidato(r).h}
  <2> DEFINE x == round[r]
             us == x.uuids \cup {UuidOf[Candidato(r).h]}
             fs == IF x.dry THEN x.flight ELSE x.flight \cup {Candidato(r).h}
             y == [x EXCEPT !.todo = Tail(x.todo), !.uuids = us, !.flight = fs]
  <2>1. round' = [round EXCEPT ![r] = y]
    BY <1>13, <1>14 DEF Enviar, Loops
  <2>2. fs \subseteq x.flight \cup {Candidato(r).h}
    OBVIOUS
  <2> HIDE DEF us, fs
  <2>3. y.flight = fs
    BY <1>1 DEF RoundType
  <2> HIDE DEF y
  <2>4. round'[r] = y
    BY <1>1, <2>1
  <2>5. QED
    BY <2>2, <2>3, <2>4
<1>16. QED
  BY <1>13, <1>14, <1>15 DEF Enviar, Loops

\* However the rounds overlap and whatever state they read, no round posts an item whose
\* 2xx the CSV has or a round that runs still holds, but to reprocess one that was modified.
THEOREM NotResentHolds == Spec => NotResent
<1> DEFINE OnlyForced ==
        \A r \in Rounds : \A h \in Posted(r) :
            UuidOf[h] \in UuidsOf(Accepted) => Candidato(r).force
<1>1. Init => TypeOK /\ Exclusive
  <2>1. Init => Exclusive
    BY DEF Init, Exclusive, Off
  <2>2. QED
    BY <2>1, TypeInit
<1>2. TypeOK /\ [Next]_vars => TypeOK'
  BY TypeInductive
<1>3. TypeOK /\ Exclusive /\ [Next]_vars => Exclusive'
  BY ExclusiveInductive
<1>4. TypeOK /\ Exclusive /\ [Next]_vars => [OnlyForced]_vars
  <2>1. SUFFICES ASSUME TypeOK, Exclusive, [Next]_vars, NEW r \in Rounds,
                        NEW h \in round'[r].flight \ round[r].flight,
                        UuidOf[h] \in UuidsOf(Accepted)
                 PROVE  Candidato(r).force
    BY DEF Posted
  <2>2. h = Candidato(r).h /\ Sends(r, Candidato(r)) /\ round[r].todo # <<>>
    BY <2>1, SentByLoop
  <2>3. UuidOf[h] \in round[r].uuids
    <3>1. /\ round[r].pc = "sending" /\ lock = r
          /\ Sent \cup UuidsOf(round[r].flight) \subseteq round[r].uuids
      BY <2>1, <2>2 DEF Exclusive
    <3>2. PICK g \in Accepted : UuidOf[g] = UuidOf[h]
      BY <2>1 DEF UuidsOf
    <3>3. CASE g \in csv
      BY <3>1, <3>2, <3>3 DEF Sent, UuidsOf
    <3>4. CASE g \notin csv
      <4>1. PICK q \in Rounds : round[q].answer[g] = "2xx" /\ g \in Handles
        BY <3>2, <3>4 DEF Accepted
      <4>2. g \in round[q].flight /\ round[q].pc = "sending" /\ lock = q
        BY <2>1, <4>1 DEF Exclusive
      <4>3. UuidOf[g] \in UuidsOf(round[r].flight)
        BY <3>1, <4>2 DEF UuidsOf
      <4>4. QED
        BY <3>1, <3>2, <4>3
    <3>5. QED
      BY <3>3, <3>4
  <2>4. QED
    BY <2>2, <2>3 DEF Sends
<1>5. QED
  BY <1>1, <1>2, <1>3, <1>4, PTL DEF Spec, NotResent

-----------------------------------------------------------------------------
(* Nothing is skipped *)

\* The state on disk, and whatever state a round holds, forget no item that OAI shows.
NothingForgotten ==
    /\ Sound(disk, stamp, now) /\ Covers(disk, stamp, Sent)
    /\ \A r \in Rounds : RoundInv(round[r], stamp, Sent, now)

\* A round that is off has nothing to forget.
LEMMA OffForgetsNothing ==
    ASSUME NEW st, NEW sent, NEW t \in Nat
    PROVE  RoundInv(Off, st, sent, t) /\ Sound(Estado, st, t)
BY DEF RoundInv, Off, Estado, Sound

\* At first OAI shows no item.
LEMMA ForgottenInit == Init => NothingForgotten
<1> SUFFICES ASSUME Init PROVE NothingForgotten
  OBVIOUS
<1>1. Shown(stamp) = {} /\ now \in Nat
  BY DEF Init, Shown, UuidsOf
<1>2. Covers(disk, stamp, Sent)
  BY <1>1 DEF Covers, Kept
<1>3. QED
  BY <1>1, <1>2, OffForgetsNothing DEF Init, NothingForgotten

\* A step of one round: what the others hold is no worse for what was sent.
LEMMA ForgottenAfter ==
    ASSUME TypeOK, NothingForgotten, NEW r \in Rounds, NEW y, round' = [round EXCEPT ![r] = y],
           UNCHANGED <<now, stamp>>, Sent \subseteq Sent',
           Sound(disk', stamp, now), Covers(disk', stamp, Sent'),
           RoundInv(y, stamp, Sent', now)
    PROVE  NothingForgotten'
<1>1. round'[r] = y /\ \A q \in Rounds \ {r} : round'[q] = round[q]
  BY DEF TypeOK
<1>2. \A q \in Rounds \ {r} : RoundInv(round[q], stamp, Sent', now)
  BY MoreSentKeeps DEF NothingForgotten
<1>3. \A q \in Rounds : RoundInv(round'[q], stamp', Sent', now')
  BY <1>1, <1>2
<1>4. Sound(disk', stamp', now') /\ Covers(disk', stamp', Sent')
  OBVIOUS
<1>5. QED
  BY <1>3, <1>4 DEF NothingForgotten

\* A round that saves a state that forgets nothing.
LEMMA ForgottenSave ==
    ASSUME TypeOK, NothingForgotten, NEW r \in Rounds, NEW s, Salvar(r, s),
           UNCHANGED <<now, stamp, csv>>, Sound(s, stamp, now), Covers(s, stamp, Sent)
    PROVE  NothingForgotten'
<1>1. round' = [round EXCEPT ![r] = Off] /\ disk' = s
  BY DEF Salvar
<1>2. Sent' = Sent /\ now \in Nat
  BY DEF Sent, UuidsOf, TypeOK
<1>3. RoundInv(Off, stamp, Sent', now)
  BY <1>2, OffForgetsNothing
<1>4. QED
  BY <1>1, <1>2, <1>3, ForgottenAfter

\* An item changes, or OAI gets to know of it.
LEMMA ForgottenPublish ==
    ASSUME Overlap >= Lateness, TypeOK, NothingForgotten, NEW h \in Handles, Publish(h)
    PROVE  NothingForgotten'
<1>1. PICK d \in (stamp[h] + 1) .. (now + 1) :
         d + Lateness > now /\ stamp' = [stamp EXCEPT ![h] = d]
  BY Zenon DEF Publish
<1>2. /\ now' = now + 1 /\ now \in Nat /\ stamp \in [Handles -> Nat] /\ disk \in EstadoType
      /\ disk' = [disk EXCEPT !.left = disk.left \ {h}]
  BY DEF Publish, TypeOK
<1>3. d \in Nat \ {0} /\ d + Lateness > now /\ stamp' = [stamp EXCEPT ![h] = d]
  BY <1>1, <1>2
<1>4. Sent' = Sent
  BY DEF Publish, Sent, UuidsOf
<1>5. Changes(stamp, stamp', h, d, now) /\ disk' = Unlisted(disk, h)
  BY <1>2, <1>3 DEF Changes, Unlisted
<1>6. Sound(disk', stamp', now') /\ Covers(disk', stamp', Sent)
  <2>1. Sound(disk, stamp, now) /\ Covers(disk, stamp, Sent)
    BY DEF NothingForgotten
  <2>2. Sound(disk', stamp', now + 1)
    BY <1>2, <1>5, <2>1, PublishKeeps
  <2>3. Covers(Unlisted(disk, h), stamp', Sent)
    BY <1>2, <1>5, <2>1, PublishKeeps, Zenon
  <2>4. QED
    BY <1>2, <1>5, <2>2, <2>3
<1>7. ASSUME NEW r \in Rounds PROVE RoundInv(round'[r], stamp', Sent, now')
  <2>1. /\ round[r] \in RoundType /\ round[r].estado \in EstadoType
        /\ RoundInv(round[r], stamp, Sent, now)
    BY DEF TypeOK, RoundType, NothingForgotten
  <2>2. round'[r] = [round[r] EXCEPT !.estado = Unlisted(round[r].estado, h)]
    BY DEF Publish, Unlisted
  <2>3. RoundInv(round'[r], stamp', Sent, now + 1)
    BY <1>5, <2>1, <2>2, PublishKeeps
  <2>4. QED
    BY <1>2, <2>3
<1>8. QED
  BY <1>4, <1>6, <1>7 DEF NothingForgotten

\* A week passes.
LEMMA ForgottenWeek ==
    ASSUME TypeOK, NothingForgotten, WeekPasses
    PROVE  NothingForgotten'
<1>1. /\ UNCHANGED <<now, stamp, csv>> /\ disk \in EstadoType
      /\ disk' = [disk EXCEPT !.fresh = FALSE]
  BY DEF WeekPasses, TypeOK
<1>2. Sent' = Sent
  BY <1>1 DEF Sent, UuidsOf
<1>3. Sound(disk', stamp, now) /\ Covers(disk', stamp, Sent)
  BY <1>1, WeekKeeps DEF NothingForgotten
<1>4. ASSUME NEW r \in Rounds PROVE RoundInv(round'[r], stamp, Sent, now)
  <2>1. /\ round[r] \in RoundType /\ round[r].estado \in EstadoType
        /\ RoundInv(round[r], stamp, Sent, now)
    BY DEF TypeOK, RoundType, NothingForgotten
  <2>2. PICK s2 : s2 = [round[r].estado EXCEPT !.fresh = FALSE]
    OBVIOUS
  <2>3. round'[r] = [round[r] EXCEPT !.estado = s2]
    BY <2>1, <2>2 DEF WeekPasses
  <2>4. QED
    BY <2>1, <2>2, <2>3, WeekKeeps
<1>5. QED
  BY <1>1, <1>2, <1>3, <1>4 DEF NothingForgotten

\* No step of a round that really sends forgets an item.
LEMMA ForgottenRound ==
    ASSUME DryRuns \subseteq {FALSE}, TypeOK, NothingForgotten,
           NEW r \in Rounds, Step(r) \/ Fails(r)
    PROVE  NothingForgotten'
<1> DEFINE x == round[r]
<1>1. /\ x \in RoundType /\ x.estado \in EstadoType /\ RoundInv(x, stamp, Sent, now)
      /\ now \in Nat /\ x.todo \in Seq(Candidate) /\ x.flight \subseteq Handles
  BY DEF TypeOK, RoundType, NothingForgotten
<1>2. Sound(disk, stamp, now) /\ Covers(disk, stamp, Sent) /\ Sound(x.estado, stamp, now)
  BY <1>1 DEF NothingForgotten, RoundInv
<1>3. x.pc \in {"loaded", "locked"} => Covers(x.estado, stamp, Sent)
  BY <1>1 DEF RoundInv
<1>4. UNCHANGED csv => Sent' = Sent
  BY DEF Sent, UuidsOf
<1>5. ASSUME NEW y, round' = [round EXCEPT ![r] = y], UNCHANGED <<now, stamp, disk, csv>>,
             RoundInv(y, stamp, Sent, now)
      PROVE  NothingForgotten'
  BY <1>2, <1>4, <1>5, ForgottenAfter
<1>6. ASSUME x.todo # <<>> PROVE Candidato(r).h \in Handles /\ Candidato(r) = Head(x.todo)
  <2>1. Head(x.todo) \in Candidate
    BY <1>1, <1>6
  <2>2. QED
    BY <2>1 DEF Candidato, Candidate
<1>7. CASE Carregar(r)
  <2>1. PICK dry \in DryRuns :
           round' = [round EXCEPT ![r] =
                        [Off EXCEPT !.pc = "loaded", !.dry = dry, !.estado = disk]]
    BY <1>7, Zenon DEF Carregar
  <2> DEFINE y == [Off EXCEPT !.pc = "loaded", !.dry = dry, !.estado = disk]
  <2>2. /\ y.pc = "loaded" /\ y.dry = dry /\ y.estado = disk /\ y.todo = <<>>
        /\ y.flight = {} /\ dry = FALSE
    BY DEF Off
  <2>3. UNCHANGED <<now, stamp, disk, csv>> /\ round' = [round EXCEPT ![r] = y]
    BY <1>7, <2>1 DEF Carregar
  <2> HIDE DEF y
  <2>4. RoundInv(y, stamp, Sent, now)
    BY <1>2, <2>2 DEF RoundInv
  <2>5. QED
    BY <1>5, <2>3, <2>4
<1>8. CASE Travar(r)
  <2> DEFINE y == [x EXCEPT !.pc = "locked"]
  <2>1. /\ x.pc = "loaded" /\ UNCHANGED <<now, stamp, disk, csv>>
        /\ round' = [round EXCEPT ![r] = y] \/ round' = [round EXCEPT ![r] = Off]
    BY <1>8 DEF Travar
  <2>2. /\ y.pc = "locked" /\ y.dry = x.dry /\ y.estado = x.estado /\ y.todo = x.todo
        /\ y.flight = x.flight
    BY <1>1 DEF RoundType
  <2> HIDE DEF y
  <2>3. RoundInv(y, stamp, Sent, now)
    BY <1>1, <2>1, <2>2 DEF RoundInv
  <2>4. RoundInv(Off, stamp, Sent, now)
    BY <1>1, OffForgetsNothing
  <2>5. QED
    BY <1>5, <2>1, <2>3, <2>4
<1>9. CASE Pular(r)
  BY <1>2, <1>3, <1>9, ForgottenSave DEF Pular
<1>10. CASE ColheitaFalhou(r)
  <2>1. Sound(WithoutSent(x.estado), stamp, now) /\ Covers(WithoutSent(x.estado), stamp, Sent)
    BY <1>1, <1>2, <1>3, <1>10, WithoutSentKeeps DEF ColheitaFalhou
  <2>2. QED
    BY <1>10, <2>1, ForgottenSave DEF ColheitaFalhou
<1>11. CASE Colheita(r)
  <2> DEFINE s == x.estado
             s2 == Avancar(WithoutSent(s), MontarJanela(s).full,
                           Max({0} \cup {stamp[h] : h \in Listed(s)}), FALSE)
             y == [x EXCEPT !.pc = "sending", !.estado = WithoutSent(s),
                            !.full = MontarJanela(s).full,
                            !.top = Max({0} \cup {stamp[h] : h \in Listed(s)}),
                            !.cut = Truncate(Candidates(s)) # Candidates(s),
                            !.todo = Truncate(Candidates(s)), !.uuids = Sent]
  <2>1. x.pc = "locked" /\ UNCHANGED <<now, stamp, csv>>
    BY <1>11 DEF Colheita
  <2>2. CASE Candidates(s) = <<>>
    <3>1. Salvar(r, s2)
      BY <1>11, <2>2 DEF Colheita
    <3>2. Sound(s2, stamp, now) /\ Covers(s2, stamp, Sent)
      BY <1>1, <1>2, <1>3, <2>1, <2>2, NothingToSend
    <3> HIDE DEF s2
    <3>3. QED
      BY <2>1, <3>1, <3>2, ForgottenSave
  <2>3. CASE Candidates(s) # <<>>
    <3>1. round' = [round EXCEPT ![r] = y] /\ UNCHANGED disk
      BY <1>11, <2>3 DEF Colheita, Sent
    <3>2. RoundInv(y, stamp, Sent, now)
      BY <1>1, <2>1, HarvestKeeps
    <3> HIDE DEF y
    <3>3. QED
      BY <1>5, <2>1, <3>1, <3>2
  <2>4. QED
    BY <2>2, <2>3
<1>12. CASE Enviar(r)
  <2>1. x.todo # <<>> /\ UNCHANGED <<now, stamp, disk, csv>> /\ ~x.dry
    BY <1>1, <1>12 DEF Enviar, Loops, RoundInv
  <2>2. CASE Sends(r, Candidato(r))
    <3> DEFINE y == [x EXCEPT !.todo = Tail(x.todo),
                              !.uuids = x.uuids \cup {UuidOf[Head(x.todo).h]},
                              !.flight = x.flight \cup {Head(x.todo).h}]
    <3>1. round' = [round EXCEPT ![r] = y]
      BY <1>12, <2>1, <2>2 DEF Enviar, Candidato
    <3>2. RoundInv(y, stamp, Sent, now)
      BY <1>1, <2>1, SendKeeps
    <3> HIDE DEF y
    <3>3. QED
      BY <1>5, <2>1, <3>1, <3>2
  <2>3. CASE ~Sends(r, Candidato(r))
    <3> DEFINE s2 == Pop(x.estado, Candidato(r).h)
               y == [x EXCEPT !.todo = Tail(x.todo), !.estado = s2]
    <3>1. round' = [round EXCEPT ![r] = y]
      BY <1>12, <2>3 DEF Enviar, Skip
    <3>2. UuidOf[Head(x.todo).h] \in x.uuids
      BY <1>6, <2>1, <2>3 DEF Sends
    <3>3. /\ s2 \in EstadoType /\ s2.marca = x.estado.marca
          /\ Noted(x.estado) \ {Head(x.todo).h} \subseteq Noted(s2)
          /\ \A g \in Handles \ {Head(x.todo).h} : s2.pend[g] # 0 => x.estado.pend[g] # 0
      BY <1>1, <1>6, <2>1, NotedAfter
    <3> HIDE DEF s2
    <3>4. RoundInv(y, stamp, Sent, now)
      BY <1>1, <2>1, <3>2, <3>3, TakeKeeps
    <3> HIDE DEF y
    <3>5. QED
      BY <1>5, <2>1, <3>1, <3>4
  <2>4. QED
    BY <2>2, <2>3
<1>13. CASE SemUuid(r)
  <2> DEFINE s2 == MarcarFalha(x.estado, Candidato(r).h)
             y == [x EXCEPT !.todo = Tail(x.todo), !.estado = s2]
  <2>1. /\ x.todo # <<>> /\ UNCHANGED <<now, stamp, disk, csv>>
        /\ round' = [round EXCEPT ![r] = y]
    BY <1>13 DEF SemUuid, Skip, Loops
  <2>2. /\ s2 \in EstadoType /\ s2.marca = x.estado.marca
        /\ Noted(x.estado) \ {Head(x.todo).h} \subseteq Noted(s2)
        /\ Head(x.todo).h \in Noted(s2)
        /\ \A g \in Handles \ {Head(x.todo).h} : s2.pend[g] # 0 => x.estado.pend[g] # 0
    <3> DEFINE k == Candidato(r).h
    <3>1. k \in Handles /\ k = Head(x.todo).h /\ x.estado \in EstadoType
      BY <1>1, <1>6, <2>1
    <3> HIDE DEF k
    <3>2. /\ MarcarFalha(x.estado, k) \in EstadoType
          /\ MarcarFalha(x.estado, k).marca = x.estado.marca
          /\ Noted(x.estado) \cup {k} \subseteq Noted(MarcarFalha(x.estado, k))
          /\ \A g \in Handles \ {k} :
                MarcarFalha(x.estado, k).pend[g] # 0 => x.estado.pend[g] # 0
      BY <3>1, NotedAfter
    <3>3. s2 = MarcarFalha(x.estado, k)
      BY DEF k
    <3> HIDE DEF s2
    <3>4. QED
      BY <3>1, <3>2, <3>3
  <2> HIDE DEF s2
  <2>3. RoundInv(y, stamp, Sent, now)
    BY <1>1, <2>1, <2>2, TakeKeeps
  <2> HIDE DEF y
  <2>4. QED
    BY <1>5, <2>1, <2>3
<1>14. CASE PrazoEstourado(r)
  <2> DEFINE y == [x EXCEPT !.todo = <<>>, !.cut = TRUE]
  <2>1. /\ x.todo # <<>> /\ UNCHANGED <<now, stamp, disk, csv>>
        /\ round' = [round EXCEPT ![r] = y]
    BY <1>14 DEF PrazoEstourado, Loops
  <2>2. RoundInv(y, stamp, Sent, now)
    BY <1>1, <2>1, StopKeeps
  <2> HIDE DEF y
  <2>3. QED
    BY <1>5, <2>1, <2>2
<1>15. CASE \E h \in Handles : Enviado(r, h) \/ Recusado(r, h) \/ Falhou(r, h)
  <2>1. UNCHANGED <<now, stamp, disk, csv>>
    BY <1>15, AnswerStep
  <2>2. PICK a \in [Handles -> Reply \cup {"none"}] :
           round' = [round EXCEPT ![r] = [x EXCEPT !.answer = a]]
    BY <1>15, AnswerStep
  <2>3. RoundInv([x EXCEPT !.answer = a], stamp, Sent, now)
    BY <1>1, AnswerKeeps
  <2>4. QED
    BY <1>5, <2>1, <2>2, <2>3
<1>16. CASE \E h \in Handles : Colher(r, h)
  <2>1. PICK h \in Handles : Colher(r, h)
    BY <1>16
  <2>2. /\ h \in x.flight /\ UNCHANGED <<now, stamp, disk>> /\ csv \subseteq csv'
    BY <2>1, CollectStep
  <2>3. PICK s2 \in EstadoType :
           /\ round' = [round EXCEPT ![r] = Collected(x, h, s2)]
           /\ s2.marca = x.estado.marca
           /\ Noted(x.estado) \ {h} \subseteq Noted(s2)
           /\ \A g \in Handles \ {h} : s2.pend[g] # 0 => x.estado.pend[g] # 0
           /\ h \in Noted(s2) \/ h \in csv'
    BY <2>1, CollectStep
  <2>4. Sent \subseteq Sent' /\ (h \in Noted(s2) \/ UuidOf[h] \in Sent')
    BY <2>2, <2>3 DEF Sent, UuidsOf
  <2>5. RoundInv(Collected(x, h, s2), stamp, Sent', now)
    <3>1. Lands(x, Collected(x, h, s2), h, s2, Sent')
      BY <2>2, <2>3, <2>4 DEF Lands
    <3>2. QED
      BY <1>1, <2>4, <3>1, LandKeeps
  <2>6. Covers(disk', stamp, Sent') /\ Sound(disk', stamp, now)
    BY <1>2, <2>2, <2>4 DEF Covers, Kept
  <2>7. QED
    BY <2>2, <2>3, <2>4, <2>5, <2>6, ForgottenAfter
<1>18. CASE Terminar(r)
  <2> DEFINE s2 == Avancar(x.estado, x.full, x.top, x.cut)
  <2>1. /\ x.pc = "sending" /\ x.todo = <<>> /\ x.flight = {}
        /\ Salvar(r, s2) /\ UNCHANGED <<now, stamp, csv>>
    BY <1>18 DEF Terminar
  <2>2. Sound(s2, stamp, now) /\ Covers(s2, stamp, Sent)
    BY <1>1, <2>1, EndKeeps
  <2> HIDE DEF s2
  <2>3. QED
    BY <2>1, <2>2, ForgottenSave
<1>19. CASE Interromper(r)
  <2>1. RoundInv(Off, stamp, Sent, now)
    BY <1>1, OffForgetsNothing
  <2>2. QED
    BY <1>5, <1>19, <2>1 DEF Interromper
<1>20. QED
  BY <1>7, <1>8, <1>9, <1>10, <1>11, <1>12, <1>13, <1>14, <1>15, <1>16, <1>18, <1>19
     DEF Step, Fails

\* Every step forgets nothing.
LEMMA ForgottenInductive ==
    ASSUME DryRuns \subseteq {FALSE}, Overlap >= Lateness
    PROVE  TypeOK /\ NothingForgotten /\ [Next]_vars => NothingForgotten'
<1> SUFFICES ASSUME TypeOK, NothingForgotten, [Next]_vars PROVE NothingForgotten'
  OBVIOUS
<1>1. CASE \E h \in Handles : Publish(h)
  BY <1>1, ForgottenPublish
<1>2. CASE WeekPasses
  BY <1>2, ForgottenWeek
<1>3. CASE \E r \in Rounds : Step(r) \/ Fails(r)
  BY <1>3, ForgottenRound
<1>4. CASE UNCHANGED vars
  BY <1>4 DEF vars, NothingForgotten, Sent, UuidsOf
<1>5. QED
  BY <1>1, <1>2, <1>3, <1>4 DEF Next

\* The watermark moves without a risk of losing an item, as long as no run of the script
\* is a dry one (it moves the watermark over what it does not send) and OAI shows an item
\* no later than the overlap.  However the rounds overlap, read a stale state, are cut
\* short or interrupted, and whatever fails.
THEOREM NothingSkippedHolds ==
    ASSUME DryRuns \subseteq {FALSE}, Overlap >= Lateness
    PROVE  Spec => []NothingSkipped
<1>1. Init => TypeOK /\ NothingForgotten
  BY TypeInit, ForgottenInit
<1>2. TypeOK /\ [Next]_vars => TypeOK'
  BY TypeInductive
<1>3. TypeOK /\ NothingForgotten /\ [Next]_vars => NothingForgotten'
  BY ForgottenInductive
<1>4. TypeOK /\ NothingForgotten => NothingSkipped
  <2>1. SUFFICES ASSUME TypeOK, NothingForgotten, NEW h \in Handles, stamp[h] # 0,
                        UuidOf[h] \notin Sent
                 PROVE  \E g \in Handles : UuidOf[g] = UuidOf[h] /\ stamp[g] # 0 /\ Remembered(g)
    BY DEF NothingSkipped, Sent
  <2>2. UuidOf[h] \in Shown(stamp) \ Sent
    BY <2>1 DEF Shown, UuidsOf
  <2>3. PICK g \in Held(disk, stamp) : UuidOf[g] = UuidOf[h] /\ stamp[g] # 0
    BY <2>1, <2>2 DEF NothingForgotten, Covers, Kept
  <2>4. disk.left \subseteq Handles
    BY <2>1 DEF TypeOK, EstadoType
  <2>5. QED
    BY <2>3, <2>4 DEF Held, Window, Noted, Remembered, InWindow
<1>5. QED
  BY <1>1, <1>2, <1>3, <1>4, PTL DEF Spec

=============================================================================
