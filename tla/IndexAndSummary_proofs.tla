------------------------ MODULE IndexAndSummary_proofs ------------------------
(***************************************************************************)
(* Proofs about what is made of the text of a document: its chunks in the  *)
(* index (Indexing, for any documents and limits) and the summaries of     *)
(* what is retrieved (SummaryService, for any number of requests,          *)
(* processes, questions, writes and outages).  Both fold over sequences    *)
(* with FoldLeft, and the first part says of every such fold what the rest *)
(* cites: so that one module extends both, which say nothing of each other *)
(* and share no name.                                                      *)
(***************************************************************************)
EXTENDS SummaryService, Indexing, FiniteSetTheorems, WellFoundedInduction, TLAPS

-----------------------------------------------------------------------------
(* FOLDS: FoldLeft computes the run of its step, and what every step keeps holds of it *)

\* A set of numbers has a least one.
LEMMA LeastOf ==
    ASSUME NEW S \in SUBSET Nat, S # {}
    PROVE  \E n \in S : \A m \in S : n <= m
<1> DEFINE R == OpToRel(<, Nat)
<1>1. IsWellFoundedOn(R, Nat)
  BY NatLessThanWellFounded
<1>2. \A m, n \in Nat : m < n => <<m, n>> \in R
  BY DEF OpToRel
<1> HIDE DEF R
<1>3. PICK n \in S : \A m \in S : <<m, n>> \notin R
  BY <1>1, WFMin
<1>4. ASSUME NEW m \in S PROVE n <= m
  <2>1. m \in Nat /\ n \in Nat
    OBVIOUS
  <2>2. ~(m < n)
    BY <1>2, <1>3, <2>1
  <2>3. QED
    BY <2>1, <2>2
<1>5. QED
  BY <1>4

\* Induction up to a number, over a set instead of a formula.
LEMMA CountingUp ==
    ASSUME NEW n \in Nat, NEW T, 0 \in T, \A k \in 1 .. n : k - 1 \in T => k \in T
    PROVE  \A k \in 0 .. n : k \in T
<1> DEFINE Missed == {k \in 0 .. n : k \notin T}
<1>1. SUFFICES ASSUME Missed # {} PROVE FALSE
  OBVIOUS
<1>2. Missed \in SUBSET Nat
  OBVIOUS
<1>3. PICK k \in Missed : \A m \in Missed : k <= m
  BY <1>1, <1>2, LeastOf
<1>4. k \in 1 .. n /\ k - 1 \in 0 .. n
  OBVIOUS
<1>5. k - 1 \notin Missed
  BY <1>3, <1>4
<1>6. QED
  BY <1>4, <1>5

\* Induction over sequences, in the same form.
LEMMA SeqInduction ==
    ASSUME NEW S, NEW T, <<>> \in T,
           \A q \in Seq(S), e \in S : q \in T => Append(q, e) \in T
    PROVE  \A q \in Seq(S) : q \in T
<1> SUFFICES ASSUME NEW q \in Seq(S) PROVE q \in T
  OBVIOUS
<1> DEFINE n == Len(q)
           front == [k \in 0 .. n |-> SubSeq(q, 1, k)]
           P == {k \in 0 .. n : front[k] \in T}
<1>1. n \in Nat /\ front[0] = <<>> /\ front[n] = q
  OBVIOUS
<1>2. ASSUME NEW k \in 1 .. n
      PROVE  front[k - 1] \in Seq(S) /\ q[k] \in S /\ front[k] = Append(front[k - 1], q[k])
  <2>1. SubSeq(q, 1, k - 1) \in Seq(S) /\ q[k] \in S
    BY <1>1
  <2>2. SubSeq(q, 1, k) = Append(SubSeq(q, 1, k - 1), q[k])
    BY <1>1
  <2>3. k \in 0 .. n /\ k - 1 \in 0 .. n
    BY <1>1
  <2>4. QED
    BY <2>1, <2>2, <2>3
<1> HIDE DEF front, n
<1>3. ASSUME NEW k \in 1 .. n, k - 1 \in P PROVE k \in P
  <2>1. k \in 0 .. n /\ k - 1 \in 0 .. n
    BY <1>1
  <2>2. QED
    BY <1>2, <1>3, <2>1
<1>4. 0 \in P
  BY <1>1
<1> HIDE DEF P
<1>5. \A k \in 0 .. n : k \in P
  BY <1>1, <1>3, <1>4, CountingUp
<1>6. n \in P
  BY <1>1, <1>5
<1>7. QED
  BY <1>1, <1>6 DEF P

\* The last of a set of places.
LEMMA MaxIs ==
    ASSUME NEW n \in Nat, NEW s \in SUBSET (1 .. n), s # {}
    PROVE  Max(s) \in s /\ \A m \in s : m <= Max(s)
<1> DEFINE D == {n - m : m \in s}
<1>1. D \in SUBSET Nat /\ D # {}
  <2>1. ASSUME NEW m \in s PROVE n - m \in Nat
    <3>1. m \in 1 .. n
      OBVIOUS
    <3>2. QED
      BY <3>1
  <2>2. QED
    BY <2>1
<1>2. PICK d \in D : \A c \in D : d <= c
  BY <1>1, LeastOf
<1>3. PICK x \in s : d = n - x
  OBVIOUS
<1>4. \A m \in s : x >= m
  BY <1>2, <1>3
<1>5. Max(s) \in s /\ \A m \in s : Max(s) >= m
  BY <1>4 DEF Max
<1>6. QED
  BY <1>5

\* The largest of the first k places.
LEMMA MaxOfPrefix ==
    ASSUME NEW k \in Nat, k # 0
    PROVE  Max(1 .. k) = k /\ (1 .. k) \ {k} = 1 .. k - 1
<1>1. 1 .. k \in SUBSET (1 .. k) /\ k \in 1 .. k
  OBVIOUS
<1>2. Max(1 .. k) \in 1 .. k /\ k <= Max(1 .. k)
  BY <1>1, MaxIs
<1>3. QED
  BY <1>2

\* What FoldLeft computes for every set of places, when its operator is the function `step`.
IsFold(it, base, step, q) ==
    it = [s \in SUBSET DOMAIN q |->
             IF s = {} THEN base ELSE step[<<it[s \ {Max(s)}], q[Max(s)]>>]]
Obeys(it, A, E, base, step, q) ==
    /\ it[{}] = base
    /\ \A s \in SUBSET DOMAIN q :
          s # {} /\ it[s \ {Max(s)}] \in A /\ q[Max(s)] \in E
             => it[s] = step[<<it[s \ {Max(s)}], q[Max(s)]>>]
Run(base, step, q) == (CHOOSE it : IsFold(it, base, step, q))[DOMAIN q]

\* A fold is defined: one for the first k places is extended to one for the first k + 1.
LEMMA FoldExists ==
    ASSUME NEW A, NEW E, NEW base \in A, NEW step \in [A \X E -> A], NEW q \in Seq(E)
    PROVE  \E it \in [SUBSET DOMAIN q -> A] : IsFold(it, base, step, q)
<1> DEFINE n == Len(q)
           Good(it, k) ==
               /\ it \in [SUBSET (1 .. k) -> A]
               /\ \A s \in SUBSET (1 .. k) :
                     it[s] = IF s = {} THEN base ELSE step[<<it[s \ {Max(s)}], q[Max(s)]>>]
           Reached(k) == \E it : Good(it, k)
           T == {k \in 0 .. n : Reached(k)}
<1>n. n \in Nat
  OBVIOUS
<1>1. DOMAIN q = 1 .. n /\ \A k \in 1 .. n : q[k] \in E
  OBVIOUS
<1> HIDE DEF n, T
<1>2. Reached(0)
  <2> DEFINE it == [s \in SUBSET (1 .. 0) |-> base]
  <2>1. 1 .. 0 = {}
    OBVIOUS
  <2>2. it \in [SUBSET (1 .. 0) -> A] /\ \A s \in SUBSET (1 .. 0) : s = {} /\ it[s] = base
    BY <2>1
  <2> HIDE DEF it
  <2>3. QED
    BY <2>2
<1>3. ASSUME NEW k \in 1 .. n, Reached(k - 1) PROVE Reached(k)
  <2>1. PICK it : Good(it, k - 1)
    BY <1>3
  <2>n. k \in Nat
    BY <1>n
  <2> DEFINE more == [s \in SUBSET (1 .. k) |->
                         IF k \in s THEN step[<<it[s \ {k}], q[k]>>] ELSE it[s]]
  <2>2. ASSUME NEW s \in SUBSET (1 .. k)
        PROVE  /\ k \notin s => s \in SUBSET (1 .. k - 1)
               /\ s \ {k} \in SUBSET (1 .. k - 1)
    <3>1. ASSUME NEW x \in s, x # k PROVE x \in 1 .. k - 1
      <4>1. x \in 1 .. k
        OBVIOUS
      <4>2. QED
        BY <2>n, <3>1, <4>1
    <3>2. QED
      BY <3>1
  <2>3. more \in [SUBSET (1 .. k) -> A]
    <3>1. ASSUME NEW s \in SUBSET (1 .. k)
          PROVE  (IF k \in s THEN step[<<it[s \ {k}], q[k]>>] ELSE it[s]) \in A
      <4>1. CASE k \in s
        <5>1. it[s \ {k}] \in A /\ q[k] \in E
          BY <1>1, <2>1, <2>2
        <5>2. QED
          BY <4>1, <5>1
      <4>2. CASE k \notin s
        BY <2>1, <2>2, <4>2
      <4>3. QED
        BY <4>1, <4>2
    <3>2. QED
      BY <3>1
  <2>4. ASSUME NEW s \in SUBSET (1 .. k)
        PROVE  more[s] = IF s = {} THEN base ELSE step[<<more[s \ {Max(s)}], q[Max(s)]>>]
    <3>1. CASE k \in s
      <4>1. Max(s) = k
        <5>1. Max(s) \in s /\ \A m \in s : m <= Max(s)
          <6>1. s # {}
            BY <3>1
          <6>2. QED
            BY <2>n, <6>1, MaxIs
        <5>2. Max(s) \in 1 .. k /\ k <= Max(s)
          BY <3>1, <5>1
        <5>3. QED
          BY <2>n, <5>2
      <4>2. more[s \ {k}] = it[s \ {k}]
        OBVIOUS
      <4>3. more[s] = step[<<it[s \ {k}], q[k]>>]
        BY <3>1
      <4>4. QED
        BY <3>1, <4>1, <4>2, <4>3
    <3>2. CASE k \notin s
      <4>1. s \in SUBSET (1 .. k - 1) /\ more[s] = it[s]
        BY <2>2, <3>2
      <4>2. more[s \ {Max(s)}] = it[s \ {Max(s)}]
        BY <3>2
      <4>3. QED
        BY <2>1, <4>1, <4>2
    <3>3. QED
      BY <3>1, <3>2
  <2> HIDE DEF more
  <2>5. QED
    BY <2>3, <2>4
<1> HIDE DEF Reached
<1>4. 0 \in T /\ \A k \in 1 .. n : k - 1 \in T => k \in T
  BY <1>n, <1>2, <1>3 DEF T
<1>5. \A k \in 0 .. n : k \in T
  BY <1>n, <1>4, CountingUp
<1>6. Reached(n)
  BY <1>n, <1>5 DEF T
<1>7. PICK it : Good(it, n)
  BY <1>6 DEF Reached
<1>8. IsFold(it, base, step, q)
  BY <1>1, <1>7 DEF IsFold
<1>9. QED
  BY <1>1, <1>7, <1>8

\* Whatever obeys the equation of the fold while it stays in A is the fold.
LEMMA FoldIsRun ==
    ASSUME NEW A, NEW E, NEW base \in A, NEW step \in [A \X E -> A], NEW q \in Seq(E),
           NEW it, Obeys(it, A, E, base, step, q)
    PROVE  it[DOMAIN q] = Run(base, step, q) /\ Run(base, step, q) \in A
<1> DEFINE n == Len(q)
           run == CHOOSE f : IsFold(f, base, step, q)
           T == {k \in 0 .. n : it[1 .. k] = run[1 .. k] /\ it[1 .. k] \in A}
<1>n. n \in Nat
  OBVIOUS
<1>1. DOMAIN q = 1 .. n /\ \A k \in 1 .. n : q[k] \in E
  OBVIOUS
<1> HIDE DEF n
<1>2. /\ run[{}] = base
      /\ \A s \in SUBSET DOMAIN q : s # {} => run[s] = step[<<run[s \ {Max(s)}], q[Max(s)]>>]
  <2>1. IsFold(run, base, step, q)
    BY FoldExists
  <2> HIDE DEF run
  <2>2. QED
    BY <2>1 DEF IsFold
<1> HIDE DEF run
<1>3. 0 \in T
  <2>1. 1 .. 0 = {}
    OBVIOUS
  <2>2. QED
    BY <1>n, <1>2, <2>1 DEF Obeys
<1>4. ASSUME NEW k \in 1 .. n, k - 1 \in T PROVE k \in T
  <2> DEFINE s == 1 .. k
  <2>n. k \in Nat /\ k # 0 /\ 1 .. k \subseteq 1 .. n /\ k \in 1 .. k
    BY <1>n
  <2>1. k \in Nat /\ k # 0 /\ s \in SUBSET DOMAIN q /\ s # {}
    BY <1>1, <2>n
  <2>2. Max(s) = k /\ s \ {Max(s)} = 1 .. k - 1
    BY <2>1, MaxOfPrefix
  <2> HIDE DEF s
  <2>3. it[1 .. k - 1] \in A /\ run[1 .. k - 1] = it[1 .. k - 1]
    BY <1>4
  <2>4. q[k] \in E
    BY <1>1
  <2>5. it[s] = step[<<it[1 .. k - 1], q[k]>>] /\ run[s] = step[<<run[1 .. k - 1], q[k]>>]
    BY <1>2, <2>1, <2>2, <2>3, <2>4 DEF Obeys
  <2>6. it[s] = run[s] /\ it[s] \in A
    BY <2>3, <2>4, <2>5
  <2>7. QED
    BY <1>n, <2>6 DEF s
<1> HIDE DEF T
<1>5. \A k \in 0 .. n : k \in T
  BY <1>n, <1>3, <1>4, CountingUp
<1>6. n \in T
  BY <1>n, <1>5
<1>7. QED
  BY <1>1, <1>6 DEF T, Run, run

\* A fold over one element more.
Grows(A, E, base, step, q, e) ==
    /\ Run(base, step, q) \in A
    /\ Run(base, step, Append(q, e)) = step[<<Run(base, step, q), e>>]

\* Over one element more, a fold takes one step more.
LEMMA RunGrows ==
    ASSUME NEW A, NEW E, NEW base \in A, NEW step \in [A \X E -> A], NEW q \in Seq(E), NEW e \in E
    PROVE  Grows(A, E, base, step, q, e)
<1> DEFINE more == Append(q, e)
           n == Len(q)
<1>n. n \in Nat
  OBVIOUS
<1>1. /\ DOMAIN q = 1 .. n /\ more \in Seq(E) /\ DOMAIN more = 1 .. n + 1
      /\ \A k \in 1 .. n : more[k] = q[k]
      /\ more[n + 1] = e
  OBVIOUS
<1> HIDE DEF more, n
<1>2. PICK it \in [SUBSET DOMAIN more -> A] : IsFold(it, base, step, more)
  BY <1>1, FoldExists
<1>3. /\ it[{}] = base
      /\ DOMAIN more \in SUBSET DOMAIN more
      /\ \A s \in SUBSET DOMAIN more : s # {} => it[s] = step[<<it[s \ {Max(s)}], more[Max(s)]>>]
  BY <1>2 DEF IsFold
<1>4. it[DOMAIN more] = Run(base, step, more) /\ Run(base, step, more) \in A
  <2> HIDE DEF Run
  <2>1. more \in Seq(E)
    BY <1>1
  <2>2. Obeys(it, A, E, base, step, more)
    BY <1>3 DEF Obeys
  <2>3. QED
    BY <2>1, <2>2, FoldIsRun
<1>5. ASSUME NEW s \in SUBSET DOMAIN q, s # {}
      PROVE  it[s] = step[<<it[s \ {Max(s)}], q[Max(s)]>>]
  <2>1. s \in SUBSET DOMAIN more
    <3>1. \A x \in 1 .. n : x \in 1 .. n + 1
      BY <1>n
    <3>2. QED
      BY <1>1, <3>1
  <2>2. Max(s) \in 1 .. n
    BY <1>n, <1>1, <1>5, MaxIs
  <2>3. QED
    BY <1>1, <1>3, <1>5, <2>1, <2>2
<1>6. it[1 .. n] = Run(base, step, q) /\ Run(base, step, q) \in A
  <2>1. Obeys(it, A, E, base, step, q)
    BY <1>3, <1>5 DEF Obeys
  <2>2. it[DOMAIN q] = Run(base, step, q) /\ Run(base, step, q) \in A
    BY <2>1, FoldIsRun
  <2>3. QED
    BY <1>1, <2>2
<1>7. it[1 .. n + 1] = step[<<it[1 .. n], e>>]
  <2> DEFINE m == n + 1
  <2>1. m \in Nat /\ m # 0 /\ m - 1 = n /\ m \in 1 .. m
    BY <1>n
  <2> HIDE DEF m
  <2>2. Max(1 .. m) = m /\ (1 .. m) \ {m} = 1 .. m - 1
    BY <2>1, MaxOfPrefix
  <2>3. 1 .. m = DOMAIN more /\ more[m] = e
    BY <1>1 DEF m
  <2>4. it[1 .. m] = step[<<it[1 .. n], e>>]
    BY <1>3, <2>1, <2>2, <2>3
  <2>5. QED
    BY <2>4 DEF m
<1>8. QED
  BY <1>1, <1>4, <1>6, <1>7 DEF more, Grows

\* The last of a set of places of a sequence holds one of its elements.
LEMMA LastPlace ==
    ASSUME NEW E, NEW q \in Seq(E), NEW s \in SUBSET DOMAIN q, s # {}
    PROVE  q[Max(s)] \in E
<1>1. Len(q) \in Nat /\ DOMAIN q = 1 .. Len(q)
  OBVIOUS
<1>2. Max(s) \in s
  BY <1>1, MaxIs
<1>3. QED
  BY <1>1, <1>2

\* The same function, as the equation that the definition of a fold chooses by.
Follows(it, A, E, base, step, q) ==
    /\ it[{}] = base
    /\ \A s \in SUBSET DOMAIN q :
          s # {} => /\ it[s \ {Max(s)}] \in A /\ q[Max(s)] \in E
                    /\ it[s] = step[<<it[s \ {Max(s)}], q[Max(s)]>>]

\* There is a function that obeys the equation of a fold.
LEMMA FoldSteps ==
    ASSUME NEW A, NEW E, NEW base \in A, NEW step \in [A \X E -> A], NEW q \in Seq(E)
    PROVE  \E it \in [SUBSET DOMAIN q -> A] : Follows(it, A, E, base, step, q)
<1>0. \E f \in [SUBSET DOMAIN q -> A] : IsFold(f, base, step, q)
  BY FoldExists
<1>1. PICK f \in [SUBSET DOMAIN q -> A] : IsFold(f, base, step, q)
  BY <1>0
<1>2. \A s \in SUBSET DOMAIN q : s # {} => q[Max(s)] \in E
  BY LastPlace
<1>3. \A s \in SUBSET DOMAIN q : f[s \ {Max(s)}] \in A
  <2>1. \A s \in SUBSET DOMAIN q : s \ {Max(s)} \in SUBSET DOMAIN q
    OBVIOUS
  <2>2. QED
    BY <2>1
<1>4. f[{}] = base
  BY <1>1 DEF IsFold
<1>5. \A s \in SUBSET DOMAIN q : s # {} => f[s] = step[<<f[s \ {Max(s)}], q[Max(s)]>>]
  BY <1>1 DEF IsFold
<1>6. Follows(f, A, E, base, step, q)
  BY <1>2, <1>3, <1>4, <1>5 DEF Follows
<1>7. QED
  BY <1>6

\* A fold over nothing.
LEMMA RunStarts ==
    ASSUME NEW base, NEW step
    PROVE  Run(base, step, <<>>) = base
<1> DEFINE f == [s \in SUBSET {} |-> base]
           run == CHOOSE it : IsFold(it, base, step, <<>>)
<1>1. DOMAIN <<>> = {} /\ \A s \in SUBSET {} : s = {}
  OBVIOUS
<1>2. IsFold(f, base, step, <<>>)
  <2>1. f = [s \in SUBSET {} |-> IF s = {} THEN base ELSE step[<<f[s \ {Max(s)}], <<>>[Max(s)]>>]]
    BY <1>1
  <2>2. QED
    BY <1>1, <2>1 DEF IsFold
<1> HIDE DEF f
<1>3. IsFold(run, base, step, <<>>)
  BY <1>2
<1> HIDE DEF run
<1>4. run[{}] = base
  BY <1>1, <1>3 DEF IsFold
<1>5. QED
  BY <1>1, <1>4 DEF run, Run

\* Whatever a fold keeps true of the elements it has seen and what it has made of them.
Keeps(I, A, E, base, step) ==
    /\ <<<<>>, base>> \in I
    /\ \A q \in Seq(E), a \in A, e \in E :
          <<q, a>> \in I => <<Append(q, e), step[<<a, e>>]>> \in I

\* What the base has and every step keeps, a fold has over every sequence.
LEMMA FoldKeeps ==
    ASSUME NEW A, NEW E, NEW base \in A, NEW step \in [A \X E -> A],
           NEW I, Keeps(I, A, E, base, step)
    PROVE  \A q \in Seq(E) : <<q, Run(base, step, q)>> \in I
<1>0. ASSUME NEW q \in Seq(E), NEW e \in E
      PROVE  Grows(A, E, base, step, q, e)
  BY RunGrows
<1> DEFINE T == {q \in Seq(E) : <<q, Run(base, step, q)>> \in I}
<1>1. <<>> \in T
  BY RunStarts DEF Keeps
<1> HIDE DEF T
<1>2. ASSUME NEW q \in Seq(E), NEW e \in E, q \in T PROVE Append(q, e) \in T
  <2>0. <<q, Run(base, step, q)>> \in I
    BY <1>2 DEF T
  <2>1. /\ Run(base, step, q) \in A
        /\ Run(base, step, Append(q, e)) = step[<<Run(base, step, q), e>>]
    BY <1>0 DEF Grows
  <2>2. ASSUME NEW a, a = Run(base, step, q) PROVE <<Append(q, e), step[<<a, e>>]>> \in I
    <3>1. a \in A /\ <<q, a>> \in I
      BY <2>0, <2>1, <2>2
    <3>2. QED
      BY <3>1 DEF Keeps
  <2>3. Append(q, e) \in Seq(E)
    OBVIOUS
  <2>4. QED
    BY <2>1, <2>2, <2>3 DEF T
<1>3. \A q \in Seq(E) : q \in T
  BY <1>1, <1>2, SeqInduction
<1>4. QED
  BY <1>3 DEF T

-----------------------------------------------------------------------------
(* THE TEXT OF A DOCUMENT: tokens *)

\* A sentence says something of blocks, of which it may be a piece, in some tokens.
Sentence == [of : Seq(Nat \X Nat) \ {<<>>}, piece : Nat, n : Nat \ {0}, paired : Nat \ {0}]
Paragraph == Seq(Sentence)

\* The step of the count of a paragraph.
AddSentence == [x \in Nat \X Sentence |-> x[1] + x[2].n]

\* The tokens of a paragraph are a fold.
LEMMA CountPFoldStep ==
    /\ 0 \in Nat
    /\ AddSentence \in [Nat \X Sentence -> Nat]
    /\ \A a \in Nat, e \in Sentence : AddSentence[<<a, e>>] = a + e.n
<1>1. \A e \in Sentence : e.n \in Nat
  BY DEF Sentence
<1>2. \A x \in Nat \X Sentence : x[1] \in Nat /\ x[2] \in Sentence
  OBVIOUS
<1>3. \A x \in Nat \X Sentence : x[1] + x[2].n \in Nat
  BY <1>1, <1>2
<1>4. QED
  BY <1>3 DEF AddSentence

\* That fold is the run of its step, and keeps its type.
LEMMA CountPIsRun ==
    ASSUME NEW q \in Seq(Sentence)
    PROVE  CountP(q) = Run(0, AddSentence, q) /\ Run(0, AddSentence, q) \in Nat
<1>1. /\ 0 \in Nat /\ AddSentence \in [Nat \X Sentence -> Nat]
      /\ \A a \in Nat, e \in Sentence : AddSentence[<<a, e>>] = a + e.n
  BY CountPFoldStep
<1>2. PICK f \in [SUBSET DOMAIN q -> Nat] : Follows(f, Nat, Sentence, 0, AddSentence, q)
  BY <1>1, FoldSteps
<1>3. f = [s \in SUBSET DOMAIN q |-> IF s = {} THEN 0
                                 ELSE f[s \ {Max(s)}] + q[Max(s)].n]
  BY <1>1, <1>2 DEF Follows
<1>4. PICK it : /\ CountP(q) = it[DOMAIN q]
                /\ it = [s \in SUBSET DOMAIN q |-> IF s = {} THEN 0
                                 ELSE it[s \ {Max(s)}] + q[Max(s)].n]
  BY <1>3 DEF CountP, FoldLeft, MapThenFoldSet
<1>5. Obeys(it, Nat, Sentence, 0, AddSentence, q)
  BY <1>1, <1>4 DEF Obeys
<1>6. it[DOMAIN q] = Run(0, AddSentence, q) /\ Run(0, AddSentence, q) \in Nat
  BY <1>1, <1>5, FoldIsRun
<1>7. QED
  BY <1>4, <1>6

\* A sentence more counts its tokens more.
LEMMA CountPGrows ==
    ASSUME NEW p \in Paragraph, NEW s \in Sentence
    PROVE  CountP(p) \in Nat /\ CountP(Append(p, s)) = CountP(p) + s.n
<1>1. AddSentence \in [Nat \X Sentence -> Nat] /\ \A n \in Nat : AddSentence[<<n, s>>] = n + s.n
  BY CountPFoldStep
<1>2. Grows(Nat, Sentence, 0, AddSentence, p, s)
  BY <1>1, RunGrows DEF Paragraph
<1>3. Append(p, s) \in Seq(Sentence)
  BY DEF Paragraph
<1>4. QED
  BY <1>1, <1>2, <1>3, CountPIsRun DEF Paragraph, Grows

\* A paragraph without a sentence has no token.
LEMMA CountPStarts == CountP(<<>>) = 0
<1>1. Run(0, AddSentence, <<>>) = 0
  BY RunStarts
<1>2. <<>> \in Seq(Sentence)
  OBVIOUS
<1>3. CountP(<<>>) = Run(0, AddSentence, <<>>)
  BY <1>2, CountPIsRun
<1>4. QED
  BY <1>1, <1>3

\* A paragraph has a number of tokens.
LEMMA CountPType == \A p \in Paragraph : CountP(p) \in Nat
  BY CountPIsRun DEF Paragraph

\* A paragraph of one sentence has its tokens.
LEMMA CountPOne ==
    ASSUME NEW s \in Sentence
    PROVE  CountP(<<s>>) = s.n
<1>1. <<>> \in Paragraph /\ <<s>> = Append(<<>>, s) /\ s.n \in Nat
  BY DEF Paragraph, Sentence
<1>2. CountP(Append(<<>>, s)) = CountP(<<>>) + s.n
  BY <1>1, CountPGrows
<1>3. QED
  BY <1>1, <1>2, CountPStarts

\* The count of two parts is that of the whole.
LEMMA CountPJoin ==
    ASSUME NEW p \in Paragraph, NEW r \in Paragraph
    PROVE  CountP(p \o r) = CountP(p) + CountP(r)
<1> DEFINE T == {x \in Seq(Sentence) : CountP(p \o x) = CountP(p) + CountP(x)}
<1>1. <<>> \in T
  <2>1. p \o <<>> = p /\ CountP(p) \in Nat
    BY CountPType DEF Paragraph
  <2>2. QED
    BY <2>1, CountPStarts
<1>2. ASSUME NEW x \in Seq(Sentence), NEW s \in Sentence, x \in T PROVE Append(x, s) \in T
  <2>1. p \o Append(x, s) = Append(p \o x, s) /\ p \o x \in Paragraph /\ x \in Paragraph
    BY DEF Paragraph
  <2>2. CountP(Append(p \o x, s)) = CountP(p \o x) + s.n /\ CountP(Append(x, s)) = CountP(x) + s.n
    BY <2>1, CountPGrows
  <2>3. CountP(p) \in Nat /\ CountP(x) \in Nat /\ s.n \in Nat
    BY <2>1, CountPType DEF Sentence
  <2>4. CountP(p \o x) = CountP(p) + CountP(x)
    BY <1>2
  <2>5. Append(x, s) \in Seq(Sentence)
    OBVIOUS
  <2>6. CountP(p \o Append(x, s)) = CountP(p) + CountP(Append(x, s))
    BY <2>1, <2>2, <2>3, <2>4
  <2>7. QED
    BY <2>5, <2>6
<1> HIDE DEF T
<1>3. \A x \in Seq(Sentence) : x \in T
  BY <1>1, <1>2, SeqInduction
<1>4. QED
  BY <1>3 DEF T, Paragraph

\* The step of the count of a text.
AddParagraph == [x \in Nat \X Paragraph |-> x[1] + CountP(x[2])]

\* The tokens of a text are a fold.
LEMMA CountFoldStep ==
    /\ 0 \in Nat
    /\ AddParagraph \in [Nat \X Paragraph -> Nat]
    /\ \A a \in Nat, e \in Paragraph : AddParagraph[<<a, e>>] = a + CountP(e)
  BY CountPType DEF AddParagraph

\* That fold is the run of its step, and keeps its type.
LEMMA CountIsRun ==
    ASSUME NEW q \in Seq(Paragraph)
    PROVE  Count(q) = Run(0, AddParagraph, q) /\ Run(0, AddParagraph, q) \in Nat
<1>1. /\ 0 \in Nat /\ AddParagraph \in [Nat \X Paragraph -> Nat]
      /\ \A a \in Nat, e \in Paragraph : AddParagraph[<<a, e>>] = a + CountP(e)
  BY CountFoldStep
<1>2. PICK f \in [SUBSET DOMAIN q -> Nat] : Follows(f, Nat, Paragraph, 0, AddParagraph, q)
  BY <1>1, FoldSteps
<1>3. f = [s \in SUBSET DOMAIN q |-> IF s = {} THEN 0
                                 ELSE f[s \ {Max(s)}] + CountP(q[Max(s)])]
  BY <1>1, <1>2 DEF Follows
<1>4. PICK it : /\ Count(q) = it[DOMAIN q]
                /\ it = [s \in SUBSET DOMAIN q |-> IF s = {} THEN 0
                                 ELSE it[s \ {Max(s)}] + CountP(q[Max(s)])]
  BY <1>3 DEF Count, FoldLeft, MapThenFoldSet
<1>5. Obeys(it, Nat, Paragraph, 0, AddParagraph, q)
  BY <1>1, <1>4 DEF Obeys
<1>6. it[DOMAIN q] = Run(0, AddParagraph, q) /\ Run(0, AddParagraph, q) \in Nat
  BY <1>1, <1>5, FoldIsRun
<1>7. QED
  BY <1>4, <1>6

\* A paragraph more counts its tokens more.
LEMMA CountGrows ==
    ASSUME NEW t \in Seq(Paragraph), NEW p \in Paragraph
    PROVE  Count(t) \in Nat /\ Count(Append(t, p)) = Count(t) + CountP(p)
<1>1. AddParagraph \in [Nat \X Paragraph -> Nat] /\
        \A n \in Nat : AddParagraph[<<n, p>>] = n + CountP(p)
  BY CountFoldStep
<1>2. Grows(Nat, Paragraph, 0, AddParagraph, t, p)
  BY <1>1, RunGrows
<1>3. Append(t, p) \in Seq(Paragraph)
  OBVIOUS
<1>4. QED
  BY <1>1, <1>2, <1>3, CountIsRun DEF Grows

\* A text without a paragraph has no token.
LEMMA CountStarts == Count(<<>>) = 0
<1>1. Run(0, AddParagraph, <<>>) = 0
  BY RunStarts
<1>2. <<>> \in Seq(Paragraph)
  OBVIOUS
<1>3. Count(<<>>) = Run(0, AddParagraph, <<>>)
  BY <1>2, CountIsRun
<1>4. QED
  BY <1>1, <1>3

\* A text has a number of tokens.
LEMMA CountType == \A t \in Seq(Paragraph) : Count(t) \in Nat
  BY CountIsRun

\* A text of one paragraph has its tokens.
LEMMA CountOne ==
    ASSUME NEW p \in Paragraph
    PROVE  Count(<<p>>) = CountP(p)
<1>1. <<>> \in Seq(Paragraph) /\ <<p>> = Append(<<>>, p) /\ CountP(p) \in Nat
  BY CountPType
<1>2. Count(Append(<<>>, p)) = Count(<<>>) + CountP(p)
  BY <1>1, CountGrows
<1>3. QED
  BY <1>1, <1>2, CountStarts

\* The tokens of two texts are those of the texts joined.
LEMMA CountJoin ==
    ASSUME NEW t \in Seq(Paragraph), NEW u \in Seq(Paragraph)
    PROVE  Count(t \o u) = Count(t) + Count(u)
<1> DEFINE T == {x \in Seq(Paragraph) : Count(t \o x) = Count(t) + Count(x)}
<1>1. <<>> \in T
  <2>1. t \o <<>> = t /\ Count(t) \in Nat
    BY CountType
  <2>2. QED
    BY <2>1, CountStarts
<1>2. ASSUME NEW x \in Seq(Paragraph), NEW p \in Paragraph, x \in T PROVE Append(x, p) \in T
  <2>1. t \o Append(x, p) = Append(t \o x, p) /\ t \o x \in Seq(Paragraph)
    OBVIOUS
  <2>2. Count(Append(t \o x, p)) = Count(t \o x) + CountP(p) /\
          Count(Append(x, p)) = Count(x) + CountP(p)
    BY <2>1, CountGrows
  <2>3. Count(t) \in Nat /\ Count(x) \in Nat /\ CountP(p) \in Nat
    BY <2>1, CountPType, CountType
  <2>4. Count(t \o x) = Count(t) + Count(x)
    BY <1>2
  <2>5. Append(x, p) \in Seq(Paragraph)
    OBVIOUS
  <2>6. Count(t \o Append(x, p)) = Count(t) + Count(Append(x, p))
    BY <2>1, <2>2, <2>3, <2>4
  <2>7. QED
    BY <2>5, <2>6
<1> HIDE DEF T
<1>3. \A x \in Seq(Paragraph) : x \in T
  BY <1>1, <1>2, SeqInduction
<1>4. QED
  BY <1>3 DEF T

-----------------------------------------------------------------------------
(* What is said: ranges of sequences, blocks and drafts *)

\* A heading on a path; the kinds a section has; blocks, and drafts of chunks.
Entry == [level : Nat, id : Nat]
Path == Seq(Entry)
Kinds == {"body", "bibliography"} \cup FrontMatter \cup Navigation \cup Appendices
Block == [id : Nat, type : BlockTypes \cup {"reference"}, path : Path, kind : Kinds, page : Nat,
          text : Paragraph \ {<<>>}, open : BOOLEAN, cont : BOOLEAN, chunkable : BOOLEAN,
          good : BOOLEAN, note : BOOLEAN, chart : BOOLEAN]
DraftRecord == [type : Common \cup {"table", "list", "figure_caption"},
                text : Seq(Paragraph) \ {<<>>}, blocks : Seq(Block), path : Path,
                allow : BOOLEAN, overlap : Nat]

\* The blocks of one section, and the drafts of prose of one that fit.
BlocksAt(path) == {b \in Block : b.path = path}
ProseAt(path) == {d \in DraftRecord : /\ d.path = path /\ d.type \in Common
                                      /\ Count(d.text) <= MaxTokens}

\* What joining and growing do to the elements of sequences.
RangesAdd(S, q, r, e) ==
    /\ Range(q \o r) = Range(q) \cup Range(r)
    /\ Range(Append(q, e)) = Range(q) \cup {e}
    /\ Range(<<>>) = {} /\ Range(<<e>>) = {e}
    /\ Range(q) \in SUBSET S

\* The elements of sequences that are joined, or that grow by one.
LEMMA RangeJoin ==
    ASSUME NEW S, NEW q \in Seq(S), NEW r \in Seq(S), NEW e \in S
    PROVE  RangesAdd(S, q, r, e)
<1>1. Range(q \o r) = Range(q) \cup Range(r)
  <2>0. DOMAIN (q \o r) = 1 .. Len(q) + Len(r) /\ DOMAIN q = 1 .. Len(q) /\ DOMAIN r = 1 .. Len(r)
    OBVIOUS
  <2>1. ASSUME NEW k \in 1 .. Len(q) + Len(r)
        PROVE  (q \o r)[k] \in Range(q) \cup Range(r)
    <3>1. CASE k <= Len(q)
      BY <3>1 DEF Range
    <3>2. CASE ~(k <= Len(q))
      <4>1. k - Len(q) \in 1 .. Len(r) /\ (q \o r)[k] = r[k - Len(q)]
        BY <3>2
      <4>2. QED
        BY <4>1 DEF Range
    <3>3. QED
      BY <3>1, <3>2
  <2>2. ASSUME NEW k \in 1 .. Len(q) PROVE q[k] \in Range(q \o r)
    <3>1. k \in 1 .. Len(q \o r) /\ (q \o r)[k] = q[k]
      OBVIOUS
    <3>2. QED
      BY <3>1 DEF Range
  <2>3. ASSUME NEW k \in 1 .. Len(r) PROVE r[k] \in Range(q \o r)
    <3>1. Len(q) + k \in 1 .. Len(q \o r) /\ (q \o r)[Len(q) + k] = r[k]
      OBVIOUS
    <3>2. QED
      BY <3>1 DEF Range
  <2>4. Range(q \o r) \subseteq Range(q) \cup Range(r)
    BY <2>0, <2>1 DEF Range
  <2>5. Range(q) \cup Range(r) \subseteq Range(q \o r)
    BY <2>0, <2>2, <2>3 DEF Range
  <2>6. QED
    BY <2>4, <2>5
<1>2. Range(Append(q, e)) = Range(q) \cup {e}
  <2>1. /\ DOMAIN Append(q, e) = 1 .. Len(q) + 1 /\ DOMAIN q = 1 .. Len(q)
        /\ \A k \in 1 .. Len(q) : Append(q, e)[k] = q[k] /\ k \in 1 .. Len(q) + 1
        /\ Append(q, e)[Len(q) + 1] = e /\ Len(q) + 1 \in 1 .. Len(q) + 1
        /\ \A k \in 1 .. Len(q) + 1 : k \in 1 .. Len(q) \/ k = Len(q) + 1
    OBVIOUS
  <2>2. QED
    BY <2>1 DEF Range
<1>3. Range(<<>>) = {} /\ Range(<<e>>) = {e} /\ Range(q) \in SUBSET S
  BY DEF Range
<1>4. QED
  BY <1>1, <1>2, <1>3 DEF RangesAdd

\* What a paragraph says.
SaidP(p) == UNION {Range(s.of) : s \in Range(p)}

\* What a text says is what its paragraphs say.
LEMMA SaidIs ==
    ASSUME NEW t
    PROVE  Said(t) = UNION {SaidP(p) : p \in Range(t)}
  BY DEF Said, SaidP, Range

\* A range of a sequence that is joined, of which only one part matters.
LEMMA RangeOfJoin ==
    ASSUME NEW S, NEW q \in Seq(S), NEW r \in Seq(S)
    PROVE  Range(q \o r) = Range(q) \cup Range(r)
<1>1. CASE \E e \in S : TRUE
  <2>1. PICK e \in S : TRUE
    BY <1>1
  <2>2. RangesAdd(S, q, r, e)
    BY RangeJoin
  <2>3. QED
    BY <2>2 DEF RangesAdd
<1>2. CASE ~(\E e \in S : TRUE)
  <2>1. \A x \in Seq(S) : x = <<>>
    BY <1>2
  <2>2. q \o r \in Seq(S)
    OBVIOUS
  <2>3. q = <<>> /\ r = <<>> /\ q \o r = <<>>
    BY <2>1, <2>2
  <2>4. QED
    BY <2>3
<1>3. QED
  BY <1>1, <1>2

\* An element more.
LEMMA RangeOfAppend ==
    ASSUME NEW S, NEW q \in Seq(S), NEW e \in S
    PROVE  Range(Append(q, e)) = Range(q) \cup {e}
<1>1. RangesAdd(S, q, q, e)
  BY RangeJoin
<1>2. QED
  BY <1>1 DEF RangesAdd

\* One element, and none.
LEMMA RangeOfOne ==
    ASSUME NEW e
    PROVE  Range(<<e>>) = {e} /\ Range(<<>>) = {}
  BY DEF Range

\* Texts that are joined say what each of them says.
LEMMA SaidJoin ==
    ASSUME NEW t \in Seq(Paragraph), NEW u \in Seq(Paragraph)
    PROVE  Said(t \o u) = Said(t) \cup Said(u)
<1>1. Range(t \o u) = Range(t) \cup Range(u)
  BY RangeOfJoin
<1>2. QED
  BY <1>1, SaidIs

\* A paragraph more says what it says more.
LEMMA SaidGrows ==
    ASSUME NEW t \in Seq(Paragraph), NEW p \in Paragraph
    PROVE  Said(Append(t, p)) = Said(t) \cup SaidP(p)
<1>1. Range(Append(t, p)) = Range(t) \cup {p}
  BY RangeOfAppend
<1>2. QED
  BY <1>1, SaidIs

\* What one paragraph says, and what none does.
LEMMA SaidOne ==
    ASSUME NEW p
    PROVE  Said(<<p>>) = SaidP(p) /\ Said(<<>>) = {}
<1>1. Range(<<p>>) = {p} /\ Range(<<>>) = {}
  BY RangeOfOne
<1>2. QED
  BY <1>1, SaidIs

\* Paragraphs that are joined say what each of them says.
LEMMA SaidPJoin ==
    ASSUME NEW p \in Paragraph, NEW r \in Paragraph
    PROVE  SaidP(p \o r) = SaidP(p) \cup SaidP(r)
<1>1. Range(p \o r) = Range(p) \cup Range(r)
  BY RangeOfJoin DEF Paragraph
<1>2. QED
  BY <1>1 DEF SaidP

\* A sentence more says what it says more.
LEMMA SaidPGrows ==
    ASSUME NEW p \in Paragraph, NEW s \in Sentence
    PROVE  SaidP(Append(p, s)) = SaidP(p) \cup Range(s.of)
<1>1. Range(Append(p, s)) = Range(p) \cup {s}
  BY RangeOfAppend DEF Paragraph
<1>2. QED
  BY <1>1 DEF SaidP

\* What one sentence says, and what none does.
LEMMA SaidPOne ==
    ASSUME NEW s
    PROVE  SaidP(<<s>>) = Range(s.of) /\ SaidP(<<>>) = {}
<1>1. Range(<<s>>) = {s} /\ Range(<<>>) = {}
  BY RangeOfOne
<1>2. QED
  BY <1>1 DEF SaidP

\* Without a paragraph, or a sentence, nothing is said.
LEMMA NothingSaid == Said(<<>>) = {} /\ SaidP(<<>>) = {}
<1>1. Range(<<>>) = {}
  BY DEF Range
<1>2. Said(<<>>) = UNION {SaidP(p) : p \in Range(<<>>)}
  BY SaidIs
<1>3. QED
  BY <1>1, <1>2 DEF SaidP

\* What drafts say of their own.
Covered(ds) == UNION {Said(OwnText(d)) : d \in Range(ds)}

\* Drafts that are joined say of their own what each of them says.
LEMMA CoveredJoin ==
    ASSUME NEW S, NEW a \in Seq(S), NEW c \in Seq(S)
    PROVE  Covered(a \o c) = Covered(a) \cup Covered(c)
<1>1. Range(a \o c) = Range(a) \cup Range(c)
  BY RangeOfJoin
<1>2. QED
  BY <1>1 DEF Covered

\* A draft more says its own text more.
LEMMA CoveredGrows ==
    ASSUME NEW S, NEW a \in Seq(S), NEW d \in S
    PROVE  Covered(Append(a, d)) = Covered(a) \cup Said(OwnText(d))
<1>1. Range(Append(a, d)) = Range(a) \cup {d}
  BY RangeOfAppend
<1>2. QED
  BY <1>1 DEF Covered

\* What one draft says of its own, and what none does.
LEMMA CoveredOne ==
    ASSUME NEW d
    PROVE  Covered(<<d>>) = Said(OwnText(d)) /\ Covered(<<>>) = {}
<1>1. Range(<<d>>) = {d} /\ Range(<<>>) = {}
  BY RangeOfOne
<1>2. QED
  BY <1>1 DEF Covered

\* The own text of a draft, without what it repeats, is part of its text.
LEMMA OwnIsPart ==
    ASSUME NEW d \in DraftRecord
    PROVE  Said(OwnText(d)) \subseteq Said(d.text)
<1>1. d.text \in Seq(Paragraph) /\ d.text # <<>>
  BY DEF DraftRecord
<1>2. Range(Tail(d.text)) \subseteq Range(d.text)
  <2>1. ASSUME NEW k \in 1 .. Len(d.text) - 1 PROVE Tail(d.text)[k] \in Range(d.text)
    <3>1. k + 1 \in 1 .. Len(d.text) /\ Tail(d.text)[k] = d.text[k + 1]
      BY <1>1
    <3>2. QED
      BY <1>1, <3>1 DEF Range
  <2>2. DOMAIN Tail(d.text) = 1 .. Len(d.text) - 1
    BY <1>1
  <2>3. QED
    BY <2>1, <2>2 DEF Range
<1>3. QED
  BY <1>2, SaidIs DEF OwnText

\* What is repeated of a text is a paragraph.
LEMMA TailType ==
    ASSUME NEW t \in Seq(Paragraph), t # <<>>
    PROVE  TailOverlap(t) \in Paragraph
<1> DEFINE last == Last(t)
           Fits(k) == CountP(SubSeq(last, k, Len(last))) <= Overlap
           Enough(k) == CountP(SubSeq(last, k, Len(last))) >= Overlap
           from == {k \in DOMAIN last : k = Len(last) \/ (Fits(k) /\ ~Enough(k + 1))}
           at == CHOOSE k \in from : \A j \in from : k <= j
<1>1. last \in Paragraph
  BY DEF Last
<1> HIDE DEF last
<1>2. CASE last = <<>>
  <2>1. CountP(last) = 0
    BY <1>2, CountPStarts
  <2>2. MaxOverlap \in Nat /\ Overlap \in Nat
    BY ChunkingAssumption
  <2>3. CountP(last) <= MaxOverlap /\ CountP(last) <= 2 * Overlap
    BY <2>1, <2>2
  <2>4. QED
    BY <1>1, <2>3 DEF TailOverlap, last
<1>3. CASE last # <<>>
  <2>1. Len(last) \in DOMAIN last /\ DOMAIN last \in SUBSET Nat
    BY <1>1, <1>3 DEF Paragraph
  <2>2. from # {} /\ from \in SUBSET Nat
    BY <2>1
  <2> HIDE DEF Fits, Enough
  <2>3. at \in from
    <3> HIDE DEF from
    <3>1. \E k \in from : \A j \in from : k <= j
      BY <2>2, LeastOf
    <3>2. QED
      BY <3>1
  <2>4. at \in DOMAIN last
    BY <2>3
  <2> HIDE DEF at
  <2>5. SubSeq(last, at, Len(last)) \in Paragraph
    BY <1>1, <2>4 DEF Paragraph
  <2>6. TailOverlap(t) \in {last, SubSeq(last, at, Len(last))}
    BY DEF TailOverlap, at, from, Fits, Enough, last
  <2>7. QED
    BY <1>1, <2>5, <2>6
<1>4. QED
  BY <1>2, <1>3

-----------------------------------------------------------------------------
(* Overlap and merging of small drafts *)

\* What the proofs use of the limits.
LEMMA Limits ==
    /\ Target \in Nat /\ MaxTokens \in Nat /\ MinTokens \in Nat /\ Overlap \in Nat
    /\ MaxOverlap \in Nat /\ TableMax \in Nat /\ ListMax \in Nat /\ MaxTokens >= 1
    /\ Target <= MaxTokens
  BY ChunkingAssumption

\* A draft that begins with the end of the one before still fits, and says all it said.
LEMMA OverlappingHolds ==
    ASSUME NEW path, NEW prev \in ProseAt(path), NEW d \in ProseAt(path)
    PROVE  /\ Overlapping(prev, d) \in ProseAt(path)
           /\ Said(OwnText(d)) \subseteq Said(OwnText(Overlapping(prev, d)))
<1> DEFINE tail == TailOverlap(prev.text)
           more == [d EXCEPT !.text = <<tail>> \o @, !.overlap = CountP(tail)]
<1>1. d \in DraftRecord /\ prev \in DraftRecord
  BY DEF ProseAt
<1>2. tail \in Paragraph
  <2>1. prev.text \in Seq(Paragraph) /\ prev.text # <<>>
    BY <1>1 DEF DraftRecord
  <2>2. QED
    BY <2>1, TailType
<1> HIDE DEF tail
<1>3. d.text \in Seq(Paragraph) /\ CountP(tail) \in Nat /\ Count(d.text) \in Nat
  BY <1>1, <1>2, CountPType, CountType DEF DraftRecord
<1>4. <<tail>> \in Seq(Paragraph) /\ <<tail>> \o d.text \in Seq(Paragraph) /\
        <<tail>> \o d.text # <<>>
  BY <1>2, <1>3
<1>5. CASE /\ d.allow /\ prev.allow /\ d.path = prev.path /\
                CountP(tail) + Count(d.text) <= MaxTokens
  <2>1. Overlapping(prev, d) = more
    BY <1>5 DEF Overlapping, tail
  <2>2. more \in DraftRecord /\ more.path = path /\ more.type = d.type /\
          more.text = <<tail>> \o d.text
        /\ more.overlap = CountP(tail)
    BY <1>1, <1>3, <1>4 DEF DraftRecord, ProseAt
  <2>3. Count(more.text) <= MaxTokens
    <3>1. Count(<<tail>> \o d.text) = Count(<<tail>>) + Count(d.text)
      BY <1>3, <1>4, CountJoin
    <3>2. Count(<<tail>>) = CountP(tail)
      BY <1>2, CountOne
    <3>3. QED
      BY <1>5, <2>2, <3>1, <3>2
  <2>4. more \in ProseAt(path)
    BY <2>2, <2>3 DEF ProseAt
  <2>5. OwnText(more) \in {d.text, <<tail>> \o d.text}
    <3>1. Tail(<<tail>> \o d.text) = d.text
      BY <1>2, <1>3
    <3>2. QED
      BY <2>2, <3>1 DEF OwnText
  <2>6. Said(<<tail>> \o d.text) = Said(<<tail>>) \cup Said(d.text)
    BY <1>2, <1>3, <1>4, SaidJoin
  <2>7. Said(OwnText(d)) \subseteq Said(d.text)
    BY <1>1, OwnIsPart
  <2> HIDE DEF more
  <2>8. QED
    BY <2>1, <2>4, <2>5, <2>6, <2>7
<1>6. CASE ~(/\ d.allow /\ prev.allow /\ d.path = prev.path
             /\ CountP(tail) + Count(d.text) <= MaxTokens)
  <2>1. Overlapping(prev, d) = d
    BY <1>6 DEF Overlapping, tail
  <2>2. QED
    BY <2>1
<1>7. QED
  BY <1>5, <1>6

\* A sequence is its front and its last element.
LEMMA LastOf ==
    ASSUME NEW S, NEW q \in Seq(S), q # <<>>
    PROVE  /\ Last(q) \in S /\ Front(q) \in Seq(S)
           /\ q = Append(Front(q), Last(q))
  BY DEF Last, Front

\* The tail of sequences that are joined.
LEMMA TailJoin ==
    ASSUME NEW S, NEW t \in Seq(S), NEW u \in Seq(S), t # <<>>
    PROVE  Tail(t \o u) = Tail(t) \o u /\ Tail(t) \in Seq(S)
<1>1. /\ Len(t) \in Nat /\ Len(u) \in Nat /\ Len(t) >= 1
      /\ Tail(t \o u) \in Seq(S) /\ Tail(t) \o u \in Seq(S) /\ Tail(t) \in Seq(S)
      /\ Len(Tail(t \o u)) = Len(t) + Len(u) - 1 /\ Len(Tail(t) \o u) = Len(t) - 1 + Len(u)
  OBVIOUS
<1>2. ASSUME NEW k \in 1 .. Len(t) + Len(u) - 1
      PROVE  Tail(t \o u)[k] = (Tail(t) \o u)[k]
  <2>1. Tail(t \o u)[k] = (t \o u)[k + 1]
    OBVIOUS
  <2>2. CASE k + 1 <= Len(t)
    BY <2>1, <2>2
  <2>3. CASE ~(k + 1 <= Len(t))
    BY <2>1, <2>3
  <2>4. QED
    BY <2>2, <2>3
<1>3. QED
  BY <1>1, <1>2

\* The step of the overlap.
OverlapStep(path) == [x \in Seq(ProseAt(path)) \X ProseAt(path) |-> OverlapOne(x[1], x[2])]

\* One step of the overlap keeps the limit and leaves out nothing.
LEMMA OverlapOneHolds ==
    ASSUME NEW path, NEW out \in Seq(ProseAt(path)), NEW d \in ProseAt(path)
    PROVE  /\ OverlapOne(out, d) \in Seq(ProseAt(path))
           /\ Covered(out) \cup Said(OwnText(d)) \subseteq Covered(OverlapOne(out, d))
<1> DEFINE new == IF out = <<>> THEN d ELSE Overlapping(Last(out), d)
<1>1. new \in ProseAt(path) /\ Said(OwnText(d)) \subseteq Said(OwnText(new))
  <2>1. out # <<>> => Last(out) \in ProseAt(path)
    BY LastOf
  <2>2. QED
    BY <2>1, OverlappingHolds
<1> HIDE DEF new
<1>2. Append(out, new) \in Seq(ProseAt(path))
  BY <1>1
<1>3. Covered(Append(out, new)) = Covered(out) \cup Said(OwnText(new))
  BY <1>1, CoveredGrows
<1>4. OverlapOne(out, d) = Append(out, new)
  BY DEF OverlapOne, new
<1>5. QED
  BY <1>1, <1>2, <1>3, <1>4

\* The overlap is a fold, when there is one.
LEMMA OverlapFoldStep ==
    ASSUME NEW path, Overlap # 0
    PROVE  /\ <<>> \in Seq(ProseAt(path))
           /\ OverlapStep(path) \in [Seq(ProseAt(path)) \X ProseAt(path) -> Seq(ProseAt(path))]
           /\ \A a \in Seq(ProseAt(path)),
                e \in ProseAt(path) : OverlapStep(path)[<<a, e>>] = OverlapOne(a, e)
  BY OverlapOneHolds DEF OverlapStep

\* That fold is the run of its step, and keeps its type.
LEMMA OverlapIsRun ==
    ASSUME NEW path, Overlap # 0, NEW q \in Seq(ProseAt(path))
    PROVE  ApplyStructuralOverlap(q) = Run(<<>>, OverlapStep(path), q) /\
             Run(<<>>, OverlapStep(path), q) \in Seq(ProseAt(path))
<1>1. /\ <<>> \in Seq(ProseAt(path)) /\
           OverlapStep(path) \in [Seq(ProseAt(path)) \X ProseAt(path) -> Seq(ProseAt(path))]
      /\ \A a \in Seq(ProseAt(path)),
           e \in ProseAt(path) : OverlapStep(path)[<<a, e>>] = OverlapOne(a, e)
  BY OverlapFoldStep
<1>2. PICK f \in [SUBSET DOMAIN q -> Seq(ProseAt(path))] :
        Follows(f, Seq(ProseAt(path)), ProseAt(path), <<>>, OverlapStep(path), q)
  BY <1>1, FoldSteps
<1>3. f = [s \in SUBSET DOMAIN q |-> IF s = {} THEN <<>>
                                 ELSE OverlapOne(f[s \ {Max(s)}], q[Max(s)])]
  BY <1>1, <1>2 DEF Follows
<1>4. PICK it : /\ ApplyStructuralOverlap(q) = it[DOMAIN q]
                /\ it = [s \in SUBSET DOMAIN q |-> IF s = {} THEN <<>>
                                 ELSE OverlapOne(it[s \ {Max(s)}], q[Max(s)])]
  BY <1>3 DEF ApplyStructuralOverlap, FoldLeft, MapThenFoldSet
<1>5. Obeys(it, Seq(ProseAt(path)), ProseAt(path), <<>>, OverlapStep(path), q)
  BY <1>1, <1>4 DEF Obeys
<1>6. it[DOMAIN q] = Run(<<>>, OverlapStep(path), q) /\
        Run(<<>>, OverlapStep(path), q) \in Seq(ProseAt(path))
  BY <1>1, <1>5, FoldIsRun
<1>7. QED
  BY <1>4, <1>6

\* Overlap leaves out no text
LEMMA OverlapCovers ==
    ASSUME NEW path, Overlap # 0, NEW q \in Seq(ProseAt(path))
    PROVE  Covered(q) \subseteq Covered(ApplyStructuralOverlap(q))
<1> DEFINE P(x, a) == Covered(x) \subseteq Covered(a)
           I == {y \in Seq(ProseAt(path)) \X Seq(ProseAt(path)) : P(y[1], y[2])}
<1>0. /\ <<>> \in Seq(ProseAt(path)) /\
           OverlapStep(path) \in [Seq(ProseAt(path)) \X ProseAt(path) -> Seq(ProseAt(path))]
      /\ \A a \in Seq(ProseAt(path)),
           e \in ProseAt(path) : OverlapStep(path)[<<a, e>>] = OverlapOne(a, e)
  BY OverlapFoldStep
<1>1. P(<<>>, <<>>)
  OBVIOUS
<1>2. ASSUME NEW x \in Seq(ProseAt(path)), NEW a \in Seq(ProseAt(path)), NEW e \in ProseAt(path),
               P(x, a)
      PROVE  P(Append(x, e), OverlapOne(a, e))
  BY <1>2, OverlapOneHolds, CoveredGrows
<1> HIDE DEF P
<1>3. Keeps(I, Seq(ProseAt(path)), ProseAt(path), <<>>, OverlapStep(path))
  <2>1. <<<<>>, <<>>>> \in I
    <3>1. <<>> \in Seq(ProseAt(path)) /\ <<>> \in Seq(ProseAt(path))
      BY <1>0
    <3>2. <<<<>>, <<>>>> \in Seq(ProseAt(path)) \X Seq(ProseAt(path))
      BY <3>1
    <3>3. QED
      BY <1>1, <3>2
  <2>2. ASSUME NEW x \in Seq(ProseAt(path)), NEW a \in Seq(ProseAt(path)), NEW e \in ProseAt(path),
                 <<x, a>> \in I
        PROVE  <<Append(x, e), OverlapStep(path)[<<a, e>>]>> \in I
    <3>1. P(x, a)
      BY <2>2
    <3>2. P(Append(x, e), OverlapStep(path)[<<a, e>>])
      BY <1>0, <1>2, <3>1
    <3>3. Append(x, e) \in Seq(ProseAt(path))
      OBVIOUS
    <3>4. OverlapStep(path)[<<a, e>>] \in Seq(ProseAt(path))
      BY <1>0
    <3>5. QED
      BY <3>2, <3>3, <3>4
  <2> HIDE DEF I
  <2>3. QED
    BY <2>1, <2>2 DEF Keeps
<1> HIDE DEF I
<1>4. <<q, Run(<<>>, OverlapStep(path), q)>> \in I
  BY <1>0, <1>3, FoldKeeps
<1>5. P(q, Run(<<>>, OverlapStep(path), q))
  BY <1>4 DEF I
<1>6. QED
  BY <1>5, OverlapIsRun DEF P

\* The step of the merging.
MergeStep(path) == [x \in Seq(ProseAt(path)) \X ProseAt(path) |-> MergeOne(x[1], x[2])]

\* One step of merging small drafts keeps the limit and leaves out nothing.
LEMMA MergeOneHolds ==
    ASSUME NEW path, NEW out \in Seq(ProseAt(path)), NEW d \in ProseAt(path)
    PROVE  /\ MergeOne(out, d) \in Seq(ProseAt(path))
           /\ Covered(out) \cup Said(OwnText(d)) \subseteq Covered(MergeOne(out, d))
<1>1. CASE /\ out # <<>> /\ Count(d.text) < MinTokens
           /\ Count(Last(out).text) + Count(d.text) <= MaxTokens
  <2> DEFINE last == Last(out)
             new == [last EXCEPT !.text = @ \o d.text, !.blocks = @ \o d.blocks]
  <2>1. last \in ProseAt(path) /\ Front(out) \in Seq(ProseAt(path)) /\
          out = Append(Front(out), last)
    BY <1>1, LastOf
  <2> HIDE DEF last
  <2>2. /\ last \in DraftRecord /\ d \in DraftRecord /\ last.path = path /\ last.type \in Common
        /\ last.text \in Seq(Paragraph) /\ d.text \in Seq(Paragraph) /\ last.text # <<>>
        /\ last.blocks \in Seq(Block) /\ d.blocks \in Seq(Block)
    BY <2>1 DEF ProseAt, DraftRecord
  <2>3. /\ last.text \o d.text \in Seq(Paragraph) /\ last.text \o d.text # <<>>
        /\ last.blocks \o d.blocks \in Seq(Block)
    BY <2>2
  <2>4. new \in DraftRecord /\ new.path = path /\ new.type \in Common
        /\ new.text = last.text \o d.text /\ new.overlap = last.overlap
    BY <2>2, <2>3 DEF DraftRecord
  <2>5. Count(new.text) <= MaxTokens
    BY <1>1, <2>2, <2>4, CountJoin DEF last
  <2>6. new \in ProseAt(path)
    BY <2>4, <2>5 DEF ProseAt
  <2>7. Said(OwnText(last)) \cup Said(OwnText(d)) \subseteq Said(OwnText(new))
    <3>1. Said(OwnText(d)) \subseteq Said(d.text)
      BY <2>2, OwnIsPart
    <3>2. Said(last.text \o d.text) = Said(last.text) \cup Said(d.text)
      BY <2>2, SaidJoin
    <3>3. Tail(last.text \o d.text) = Tail(last.text) \o d.text /\
            Tail(last.text) \in Seq(Paragraph)
      BY <2>2, TailJoin
    <3>4. Said(Tail(last.text) \o d.text) = Said(Tail(last.text)) \cup Said(d.text)
      BY <2>2, <3>3, SaidJoin
    <3> HIDE DEF new
    <3>5. CASE last.overlap > 0
      <4>1. OwnText(last) = Tail(last.text) /\ OwnText(new) = Tail(last.text) \o d.text
        BY <2>4, <3>3, <3>5 DEF OwnText
      <4>2. QED
        BY <3>1, <3>4, <4>1
    <3>6. CASE ~(last.overlap > 0)
      <4>1. OwnText(last) = last.text /\ OwnText(new) = last.text \o d.text
        BY <2>4, <3>6 DEF OwnText
      <4>2. QED
        BY <3>1, <3>2, <4>1
    <3>7. QED
      BY <3>5, <3>6
  <2>8. MergeOne(out, d) = Append(Front(out), new)
    BY <1>1 DEF MergeOne, last
  <2> HIDE DEF new
  <2>9. Covered(Append(Front(out), new)) = Covered(Front(out)) \cup Said(OwnText(new))
    BY <2>1, <2>6, CoveredGrows
  <2>10. Covered(Append(Front(out), last)) = Covered(Front(out)) \cup Said(OwnText(last))
    BY <2>1, CoveredGrows
  <2>11. Covered(out) = Covered(Front(out)) \cup Said(OwnText(last))
    BY <2>1, <2>10
  <2>12. Append(Front(out), new) \in Seq(ProseAt(path))
    BY <2>1, <2>6
  <2>13. QED
    BY <2>7, <2>8, <2>9, <2>11, <2>12
<1>2. CASE ~(/\ out # <<>> /\ Count(d.text) < MinTokens
             /\ Count(Last(out).text) + Count(d.text) <= MaxTokens)
  <2>1. MergeOne(out, d) = Append(out, d)
    BY <1>2 DEF MergeOne
  <2>2. Covered(Append(out, d)) = Covered(out) \cup Said(OwnText(d))
    BY CoveredGrows
  <2>3. QED
    BY <2>1, <2>2
<1>3. QED
  BY <1>1, <1>2

\* Merging small drafts is a fold.
LEMMA MergeFoldStep ==
    ASSUME NEW path
    PROVE  /\ <<>> \in Seq(ProseAt(path))
           /\ MergeStep(path) \in [Seq(ProseAt(path)) \X ProseAt(path) -> Seq(ProseAt(path))]
           /\ \A a \in Seq(ProseAt(path)),
                e \in ProseAt(path) : MergeStep(path)[<<a, e>>] = MergeOne(a, e)
<1>1. \A a \in Seq(ProseAt(path)), e \in ProseAt(path) : MergeOne(a, e) \in Seq(ProseAt(path))
  BY MergeOneHolds
<1>2. <<>> \in Seq(ProseAt(path))
  OBVIOUS
<1>3. QED
  BY <1>1, <1>2 DEF MergeStep

\* That fold is the run of its step, and keeps its type.
LEMMA MergeIsRun ==
    ASSUME NEW path, NEW q \in Seq(ProseAt(path))
    PROVE  MergeSmall(q) = Run(<<>>, MergeStep(path), q) /\
             Run(<<>>, MergeStep(path), q) \in Seq(ProseAt(path))
<1>1. /\ <<>> \in Seq(ProseAt(path)) /\
           MergeStep(path) \in [Seq(ProseAt(path)) \X ProseAt(path) -> Seq(ProseAt(path))]
      /\ \A a \in Seq(ProseAt(path)),
           e \in ProseAt(path) : MergeStep(path)[<<a, e>>] = MergeOne(a, e)
  BY MergeFoldStep
<1>2. PICK f \in [SUBSET DOMAIN q -> Seq(ProseAt(path))] :
        Follows(f, Seq(ProseAt(path)), ProseAt(path), <<>>, MergeStep(path), q)
  BY <1>1, FoldSteps
<1>3. f = [s \in SUBSET DOMAIN q |-> IF s = {} THEN <<>>
                                 ELSE MergeOne(f[s \ {Max(s)}], q[Max(s)])]
  BY <1>1, <1>2 DEF Follows
<1>4. PICK it : /\ MergeSmall(q) = it[DOMAIN q]
                /\ it = [s \in SUBSET DOMAIN q |-> IF s = {} THEN <<>>
                                 ELSE MergeOne(it[s \ {Max(s)}], q[Max(s)])]
  BY <1>3 DEF MergeSmall, FoldLeft, MapThenFoldSet
<1>5. Obeys(it, Seq(ProseAt(path)), ProseAt(path), <<>>, MergeStep(path), q)
  BY <1>1, <1>4 DEF Obeys
<1>6. it[DOMAIN q] = Run(<<>>, MergeStep(path), q) /\
        Run(<<>>, MergeStep(path), q) \in Seq(ProseAt(path))
  BY <1>1, <1>5, FoldIsRun
<1>7. QED
  BY <1>4, <1>6

\* Merging leaves out no text
LEMMA MergeCovers ==
    ASSUME NEW path, NEW q \in Seq(ProseAt(path))
    PROVE  Covered(q) \subseteq Covered(MergeSmall(q))
<1> DEFINE P(x, a) == Covered(x) \subseteq Covered(a)
           I == {y \in Seq(ProseAt(path)) \X Seq(ProseAt(path)) : P(y[1], y[2])}
<1>0. /\ <<>> \in Seq(ProseAt(path)) /\
           MergeStep(path) \in [Seq(ProseAt(path)) \X ProseAt(path) -> Seq(ProseAt(path))]
      /\ \A a \in Seq(ProseAt(path)),
           e \in ProseAt(path) : MergeStep(path)[<<a, e>>] = MergeOne(a, e)
  BY MergeFoldStep
<1>1. P(<<>>, <<>>)
  OBVIOUS
<1>2. ASSUME NEW x \in Seq(ProseAt(path)), NEW a \in Seq(ProseAt(path)), NEW e \in ProseAt(path),
               P(x, a)
      PROVE  P(Append(x, e), MergeOne(a, e))
  BY <1>2, MergeOneHolds, CoveredGrows
<1> HIDE DEF P
<1>3. Keeps(I, Seq(ProseAt(path)), ProseAt(path), <<>>, MergeStep(path))
  <2>1. <<<<>>, <<>>>> \in I
    <3>1. <<>> \in Seq(ProseAt(path)) /\ <<>> \in Seq(ProseAt(path))
      BY <1>0
    <3>2. <<<<>>, <<>>>> \in Seq(ProseAt(path)) \X Seq(ProseAt(path))
      BY <3>1
    <3>3. QED
      BY <1>1, <3>2
  <2>2. ASSUME NEW x \in Seq(ProseAt(path)), NEW a \in Seq(ProseAt(path)), NEW e \in ProseAt(path),
                 <<x, a>> \in I
        PROVE  <<Append(x, e), MergeStep(path)[<<a, e>>]>> \in I
    <3>1. P(x, a)
      BY <2>2
    <3>2. P(Append(x, e), MergeStep(path)[<<a, e>>])
      BY <1>0, <1>2, <3>1
    <3>3. Append(x, e) \in Seq(ProseAt(path))
      OBVIOUS
    <3>4. MergeStep(path)[<<a, e>>] \in Seq(ProseAt(path))
      BY <1>0
    <3>5. QED
      BY <3>2, <3>3, <3>4
  <2> HIDE DEF I
  <2>3. QED
    BY <2>1, <2>2 DEF Keeps
<1> HIDE DEF I
<1>4. <<q, Run(<<>>, MergeStep(path), q)>> \in I
  BY <1>0, <1>3, FoldKeeps
<1>5. P(q, Run(<<>>, MergeStep(path), q))
  BY <1>4 DEF I
<1>6. QED
  BY <1>5, MergeIsRun DEF P

-----------------------------------------------------------------------------
(* A block that is too long *)

\* With overlap or without, the drafts fit and say what they said.
LEMMA OverlapHolds ==
    ASSUME NEW path, NEW q \in Seq(ProseAt(path))
    PROVE  /\ ApplyStructuralOverlap(q) \in Seq(ProseAt(path))
           /\ Covered(q) \subseteq Covered(ApplyStructuralOverlap(q))
<1>1. CASE Overlap = 0
  BY <1>1 DEF ApplyStructuralOverlap
<1>2. CASE Overlap # 0
  <2>1. ApplyStructuralOverlap(q) \in Seq(ProseAt(path))
    BY <1>2, OverlapIsRun
  <2>2. Covered(q) \subseteq Covered(ApplyStructuralOverlap(q))
    BY <1>2, OverlapCovers
  <2>3. QED
    BY <2>1, <2>2
<1>3. QED
  BY <1>1, <1>2

\* Every piece of a sentence that is cut has a token.
LEMMA PieceFits ==
    ASSUME NEW n \in Nat, NEW m \in Nat, m >= 1, NEW k \in 1 .. (n + m - 1) \div m
    PROVE  n - (k - 1) * m >= 1
<1> DEFINE top == (n + m - 1) \div m
<1>1. top \in Nat /\ top * m <= n + m - 1
  OBVIOUS
<1> HIDE DEF top
<1>2. k * m <= top * m
  BY <1>1 DEF top
<1>3. (k - 1) * m = k * m - m
  OBVIOUS
<1>4. QED
  BY <1>1, <1>2, <1>3

\* The pieces of a sentence that is too long are of it, and each fits.
LEMMA PiecesHold ==
    ASSUME NEW s \in Sentence, s.n > MaxTokens
    PROVE  /\ Pieces(s) \in Seq(Sentence) /\ Len(Pieces(s)) >= 1
           /\ \A k \in DOMAIN Pieces(s) : Pieces(s)[k].of = s.of /\ Pieces(s)[k].n <= MaxTokens
<1> DEFINE top == (s.n + MaxTokens - 1) \div MaxTokens
           size(k) == s.n - (k - 1) * MaxTokens
<1>1. s.n \in Nat /\ MaxTokens \in Nat /\ MaxTokens >= 1
  BY Limits DEF Sentence
<1>2. top \in Nat /\ top >= 1
  <2>1. s.n + MaxTokens - 1 >= MaxTokens /\ s.n + MaxTokens - 1 \in Nat
    BY <1>1
  <2>2. QED
    BY <1>1, <2>1
<1>3. \A k \in 1 .. top : size(k) >= 1 /\ size(k) \in Int
  BY <1>1, PieceFits
<1> HIDE DEF size
<1>4. Pieces(s) = [k \in 1 .. top |-> [s EXCEPT !.piece = k, !.n = Least(MaxTokens, size(k))]]
  BY DEF Pieces, size
<1> HIDE DEF top
<1>5. ASSUME NEW k \in 1 .. top
      PROVE  /\ Pieces(s)[k] \in Sentence
             /\ Pieces(s)[k].of = s.of /\ Pieces(s)[k].n <= MaxTokens
  <2>1. Pieces(s)[k] = [s EXCEPT !.piece = k, !.n = Least(MaxTokens, size(k))]
    BY <1>4
  <2>2. Least(MaxTokens, size(k)) \in Nat \ {0} /\ Least(MaxTokens, size(k)) <= MaxTokens
    BY <1>1, <1>3 DEF Least
  <2>3. k \in Nat
    BY <1>2
  <2>4. QED
    BY <2>1, <2>2, <2>3 DEF Sentence
<1>6. DOMAIN Pieces(s) = 1 .. top
  BY <1>4
<1>7. Pieces(s) \in Seq(Sentence) /\ Len(Pieces(s)) = top
  <2> DEFINE all == Pieces(s)
  <2>1. all = [k \in 1 .. top |-> all[k]]
    BY <1>4
  <2>2. \A k \in 1 .. top : all[k] \in Sentence
    BY <1>5
  <2> HIDE DEF all
  <2>3. all \in [1 .. top -> Sentence]
    BY <2>1, <2>2
  <2>4. all \in Seq(Sentence) /\ Len(all) = top
    BY <1>2, <2>3
  <2>5. QED
    BY <2>4 DEF all
<1>8. QED
  BY <1>2, <1>5, <1>6, <1>7

\* A draft of one paragraph that fits is one of prose.
LEMMA DraftOfParagraph ==
    ASSUME NEW path, NEW b \in BlocksAt(path), NEW type \in Common, NEW p \in Paragraph,
           CountP(p) <= MaxTokens
    PROVE  /\ Draft(type, <<p>>, <<b>>, TRUE) \in ProseAt(path)
           /\ Said(OwnText(Draft(type, <<p>>, <<b>>, TRUE))) = SaidP(p)
<1> DEFINE d == Draft(type, <<p>>, <<b>>, TRUE)
<1>1. b \in Block /\ b.path = path /\ path \in Path
  BY DEF BlocksAt, Block
<1>2. <<p>> \in Seq(Paragraph) \ {<<>>} /\ <<b>> \in Seq(Block) /\ <<b>>[1] = b
  BY <1>1
<1>3. d =
        [type |-> type, text |-> <<p>>, blocks |-> <<b>>, path |-> path, allow |-> TRUE,
          overlap |-> 0]
  BY <1>1, <1>2 DEF Draft
<1> HIDE DEF d
<1>4. d \in DraftRecord
  BY <1>1, <1>2, <1>3 DEF DraftRecord
<1>5. Count(d.text) <= MaxTokens
  BY <1>3, CountOne
<1>6. d \in ProseAt(path)
  BY <1>3, <1>4, <1>5 DEF ProseAt
<1>7. OwnText(d) = <<p>>
  BY <1>3 DEF OwnText
<1>8. QED
  BY <1>6, <1>7, SaidOne DEF d

\* A block that is being split: the paragraph being filled, and the drafts so far.
SplitAcc(path) == [cur : {p \in Paragraph : CountP(p) <= MaxTokens}, drafts : Seq(ProseAt(path))]
SplitStart == [cur |-> <<>>, drafts |-> <<>>]
SplitRun(q, b, type) == FoldLeft(LAMBDA a, s : SplitOne(a, s, b, type), SplitStart, q)
SplitStep(path, b, type) == [x \in SplitAcc(path) \X Sentence |-> SplitOne(x[1], x[2], b, type)]

\* The split starts with nothing.
LEMMA SplitStartType ==
    ASSUME NEW path
    PROVE  SplitStart \in SplitAcc(path) /\ SplitStart.cur = <<>> /\ SplitStart.drafts = <<>>
<1>1. <<>> \in Paragraph /\ CountP(<<>>) <= MaxTokens
  BY CountPStarts, Limits DEF Paragraph
<1>2. <<>> \in Seq(ProseAt(path))
  OBVIOUS
<1>3. QED
  BY <1>1, <1>2 DEF SplitAcc, SplitStart

\* Closing the paragraph that is being filled leaves out nothing of it.
LEMMA ClosedHolds ==
    ASSUME NEW path, NEW b \in BlocksAt(path), NEW type \in Common, NEW acc \in SplitAcc(path)
    PROVE  /\ Closed(acc, b, type) \in Seq(ProseAt(path))
           /\ SaidP(acc.cur) \cup Covered(acc.drafts) \subseteq Covered(Closed(acc, b, type))
<1> DEFINE d == Draft(type, <<acc.cur>>, <<b>>, TRUE)
<1>1. acc.cur \in Paragraph /\ CountP(acc.cur) <= MaxTokens /\ acc.drafts \in Seq(ProseAt(path))
  BY DEF SplitAcc
<1>2. d \in ProseAt(path) /\ Said(OwnText(d)) = SaidP(acc.cur)
  BY <1>1, DraftOfParagraph
<1>3. Closed(acc, b, type) = IF acc.cur = <<>> THEN acc.drafts ELSE Append(acc.drafts, d)
  BY DEF Closed
<1> HIDE DEF d
<1>4. Covered(Append(acc.drafts, d)) = Covered(acc.drafts) \cup SaidP(acc.cur)
  BY <1>1, <1>2, CoveredGrows
<1>5. CASE acc.cur = <<>>
  <2>1. SaidP(acc.cur) = {}
    BY <1>5, SaidPOne
  <2>2. QED
    BY <1>1, <1>3, <1>5, <2>1
<1>6. CASE acc.cur # <<>>
  BY <1>1, <1>2, <1>3, <1>4, <1>6
<1>7. QED
  BY <1>5, <1>6

\* A sentence more of a block that is split fits, and none is left out.
LEMMA SplitOneHolds ==
    ASSUME NEW path, NEW b \in BlocksAt(path), NEW type \in Common, NEW acc \in SplitAcc(path),
           NEW s \in Sentence
    PROVE  /\ SplitOne(acc, s, b, type) \in SplitAcc(path)
           /\ SaidP(acc.cur) \cup Covered(acc.drafts) \cup Range(s.of)
                \subseteq SaidP(SplitOne(acc, s, b, type).cur)
                          \cup Covered(SplitOne(acc, s, b, type).drafts)
<1> DEFINE new == SplitOne(acc, s, b, type)
<1>1. acc.cur \in Paragraph /\ CountP(acc.cur) <= MaxTokens /\ acc.drafts \in Seq(ProseAt(path))
  BY DEF SplitAcc
<1>2. /\ Closed(acc, b, type) \in Seq(ProseAt(path))
      /\ SaidP(acc.cur) \cup Covered(acc.drafts) \subseteq Covered(Closed(acc, b, type))
  BY ClosedHolds
<1>3. s.n \in Nat /\ CountP(acc.cur) \in Nat /\ Target \in Nat /\ MaxTokens \in Nat /\
        Target <= MaxTokens
  BY <1>1, CountPType, Limits DEF Sentence
<1>4. CASE s.n > MaxTokens
  <2> DEFINE n == Len(Pieces(s))
             cut == [k \in DOMAIN Pieces(s) |-> Draft(type, <<<<Pieces(s)[k]>>>>, <<b>>, TRUE)]
  <2>1. /\ Pieces(s) \in Seq(Sentence) /\ Len(Pieces(s)) >= 1
        /\ \A k \in DOMAIN Pieces(s) : Pieces(s)[k].of = s.of /\ Pieces(s)[k].n <= MaxTokens
    BY <1>4, PiecesHold
  <2>2. n \in Nat /\ n >= 1 /\ DOMAIN Pieces(s) = 1 .. n /\ 1 \in 1 .. n
    BY <2>1
  <2> HIDE DEF n
  <2>3. ASSUME NEW k \in 1 .. n
        PROVE  cut[k] \in ProseAt(path) /\ Said(OwnText(cut[k])) = Range(s.of)
    <3> DEFINE r == Pieces(s)[k]
    <3>1. r \in Sentence /\ r.of = s.of /\ r.n <= MaxTokens
      BY <2>1, <2>2
    <3>2. cut[k] = Draft(type, <<<<r>>>>, <<b>>, TRUE)
      BY <2>2
    <3> HIDE DEF r, cut
    <3>3. <<r>> \in Paragraph /\ CountP(<<r>>) <= MaxTokens /\ SaidP(<<r>>) = Range(s.of)
      BY <3>1, CountPOne, SaidPOne DEF Paragraph
    <3>4. QED
      BY <3>2, <3>3, DraftOfParagraph
  <2>4. DOMAIN cut = 1 .. n
    BY <2>2
  <2>5. new = [cur |-> <<>>, drafts |-> Closed(acc, b, type) \o cut]
    BY <1>4 DEF SplitOne
  <2>6. cut \in Seq(ProseAt(path))
    <3>1. cut \in [1 .. n -> ProseAt(path)]
      BY <2>2, <2>3
    <3> HIDE DEF cut
    <3>2. QED
      BY <2>2, <3>1
  <2> HIDE DEF cut, new
  <2>7. Range(s.of) \subseteq Covered(cut)
    BY <2>2, <2>3, <2>4 DEF Covered, Range
  <2>8. Covered(Closed(acc, b, type) \o cut) = Covered(Closed(acc, b, type)) \cup Covered(cut)
    BY <1>2, <2>6, CoveredJoin
  <2>9. Closed(acc, b, type) \o cut \in Seq(ProseAt(path)) /\ <<>> \in Paragraph
        /\ CountP(<<>>) <= MaxTokens
    BY <1>2, <1>3, <2>6, CountPStarts DEF Paragraph
  <2>10. new \in SplitAcc(path)
    BY <2>5, <2>9 DEF SplitAcc
  <2>11. QED
    BY <1>2, <2>5, <2>7, <2>8, <2>10 DEF new
<1>5. CASE ~(s.n > MaxTokens) /\ acc.cur # <<>> /\ CountP(acc.cur) + s.n > Target
  <2>1. new = [cur |-> <<s>>, drafts |-> Closed(acc, b, type)]
    BY <1>5 DEF SplitOne
  <2>2. <<s>> \in Paragraph /\ CountP(<<s>>) <= MaxTokens /\ SaidP(<<s>>) = Range(s.of)
    BY <1>3, <1>5, CountPOne, SaidPOne DEF Paragraph
  <2>3. new \in SplitAcc(path)
    BY <1>2, <2>1, <2>2 DEF SplitAcc
  <2>4. QED
    BY <1>2, <2>1, <2>2, <2>3
<1>6. CASE ~(s.n > MaxTokens) /\ ~(acc.cur # <<>> /\ CountP(acc.cur) + s.n > Target)
  <2>1. new = [acc EXCEPT !.cur = Append(@, s)]
    BY <1>6 DEF SplitOne
  <2>2. Append(acc.cur, s) \in Paragraph /\ CountP(Append(acc.cur, s)) = CountP(acc.cur) + s.n
        /\ SaidP(Append(acc.cur, s)) = SaidP(acc.cur) \cup Range(s.of)
    BY <1>1, CountPGrows, SaidPGrows DEF Paragraph
  <2>3. CountP(Append(acc.cur, s)) <= MaxTokens
    <3>1. CASE acc.cur = <<>>
      <4>1. CountP(acc.cur) = 0
        BY <3>1, CountPStarts
      <4>2. QED
        BY <1>3, <1>6, <2>2, <4>1
    <3>2. CASE acc.cur # <<>>
      BY <1>3, <1>6, <2>2, <3>2
    <3>3. QED
      BY <3>1, <3>2
  <2>4. new \in SplitAcc(path) /\ new.cur = Append(acc.cur, s) /\ new.drafts = acc.drafts
    BY <1>1, <2>1, <2>2, <2>3 DEF SplitAcc
  <2>5. QED
    BY <2>2, <2>4
<1>7. QED
  BY <1>4, <1>5, <1>6

\* The split of a block is a fold over its sentences.
LEMMA SplitFoldStep ==
    ASSUME NEW path, NEW b \in BlocksAt(path), NEW type \in Common
    PROVE  /\ SplitStart \in SplitAcc(path)
           /\ SplitStep(path, b, type) \in [SplitAcc(path) \X Sentence -> SplitAcc(path)]
           /\ \A a \in SplitAcc(path),
                e \in Sentence : SplitStep(path, b, type)[<<a, e>>] = SplitOne(a, e, b, type)
  BY SplitStartType, SplitOneHolds DEF SplitStep

\* That fold is the run of its step, and keeps its type.
LEMMA SplitIsRun ==
    ASSUME NEW path, NEW b \in BlocksAt(path), NEW type \in Common, NEW q \in Seq(Sentence)
    PROVE  SplitRun(q, b, type) = Run(SplitStart, SplitStep(path, b, type), q) /\
             Run(SplitStart, SplitStep(path, b, type), q) \in SplitAcc(path)
<1>1. /\ SplitStart \in SplitAcc(path) /\
           SplitStep(path, b, type) \in [SplitAcc(path) \X Sentence -> SplitAcc(path)]
      /\ \A a \in SplitAcc(path),
           e \in Sentence : SplitStep(path, b, type)[<<a, e>>] = SplitOne(a, e, b, type)
  BY SplitFoldStep
<1>2. PICK f \in [SUBSET DOMAIN q -> SplitAcc(path)] :
        Follows(f, SplitAcc(path), Sentence, SplitStart, SplitStep(path, b, type), q)
  BY <1>1, FoldSteps
<1>3. f = [s \in SUBSET DOMAIN q |-> IF s = {} THEN SplitStart
                                 ELSE SplitOne(f[s \ {Max(s)}], q[Max(s)], b, type)]
  BY <1>1, <1>2 DEF Follows
<1>4. PICK it : /\ SplitRun(q, b, type) = it[DOMAIN q]
                /\ it = [s \in SUBSET DOMAIN q |-> IF s = {} THEN SplitStart
                                 ELSE SplitOne(it[s \ {Max(s)}], q[Max(s)], b, type)]
  BY <1>3 DEF SplitRun, FoldLeft, MapThenFoldSet
<1>5. Obeys(it, SplitAcc(path), Sentence, SplitStart, SplitStep(path, b, type), q)
  BY <1>1, <1>4 DEF Obeys
<1>6. it[DOMAIN q] = Run(SplitStart, SplitStep(path, b, type), q) /\
        Run(SplitStart, SplitStep(path, b, type), q) \in SplitAcc(path)
  BY <1>1, <1>5, FoldIsRun
<1>7. QED
  BY <1>4, <1>6

\* The split of a block leaves out no sentence.
LEMMA SplitCovers ==
    ASSUME NEW path, NEW b \in BlocksAt(path), NEW type \in Common, NEW q \in Seq(Sentence)
    PROVE  SaidP(q) \subseteq SaidP(SplitRun(q, b, type).cur) \cup
             Covered(SplitRun(q, b, type).drafts)
<1> DEFINE P(x, a) == SaidP(x) \subseteq SaidP(a.cur) \cup Covered(a.drafts)
           I == {y \in Seq(Sentence) \X SplitAcc(path) : P(y[1], y[2])}
<1>0. /\ SplitStart \in SplitAcc(path) /\
           SplitStep(path, b, type) \in [SplitAcc(path) \X Sentence -> SplitAcc(path)]
      /\ \A a \in SplitAcc(path),
           e \in Sentence : SplitStep(path, b, type)[<<a, e>>] = SplitOne(a, e, b, type)
  BY SplitFoldStep
<1>1. P(<<>>, SplitStart)
  BY NothingSaid
<1>2. ASSUME NEW x \in Seq(Sentence), NEW a \in SplitAcc(path), NEW e \in Sentence, P(x, a)
      PROVE  P(Append(x, e), SplitOne(a, e, b, type))
  <2>1. SaidP(a.cur) \cup Covered(a.drafts) \cup Range(e.of)
           \subseteq SaidP(SplitOne(a, e, b, type).cur) \cup Covered(SplitOne(a, e, b, type).drafts)
    BY SplitOneHolds
  <2>2. SaidP(Append(x, e)) = SaidP(x) \cup Range(e.of)
    BY SaidPGrows DEF Paragraph
  <2>3. QED
    BY <1>2, <2>1, <2>2
<1> HIDE DEF P
<1>3. Keeps(I, SplitAcc(path), Sentence, SplitStart, SplitStep(path, b, type))
  <2>1. <<<<>>, SplitStart>> \in I
    <3>1. <<>> \in Seq(Sentence) /\ SplitStart \in SplitAcc(path)
      BY <1>0
    <3>2. <<<<>>, SplitStart>> \in Seq(Sentence) \X SplitAcc(path)
      BY <3>1
    <3>3. QED
      BY <1>1, <3>2
  <2>2. ASSUME NEW x \in Seq(Sentence), NEW a \in SplitAcc(path), NEW e \in Sentence, <<x, a>> \in I
        PROVE  <<Append(x, e), SplitStep(path, b, type)[<<a, e>>]>> \in I
    <3>1. P(x, a)
      BY <2>2
    <3>2. P(Append(x, e), SplitStep(path, b, type)[<<a, e>>])
      BY <1>0, <1>2, <3>1
    <3>3. Append(x, e) \in Seq(Sentence)
      OBVIOUS
    <3>4. SplitStep(path, b, type)[<<a, e>>] \in SplitAcc(path)
      BY <1>0
    <3>5. QED
      BY <3>2, <3>3, <3>4
  <2> HIDE DEF I
  <2>3. QED
    BY <2>1, <2>2 DEF Keeps
<1> HIDE DEF I
<1>4. <<q, Run(SplitStart, SplitStep(path, b, type), q)>> \in I
  BY <1>0, <1>3, FoldKeeps
<1>5. P(q, Run(SplitStart, SplitStep(path, b, type), q))
  BY <1>4 DEF I
<1>6. QED
  BY <1>5, SplitIsRun DEF P

\* A block that is too long becomes drafts that fit and say all of it.
LEMMA SplitOversizedHolds ==
    ASSUME NEW path, NEW b \in BlocksAt(path), NEW type \in Common
    PROVE  /\ SplitOversizedBlock(b, type) \in Seq(ProseAt(path))
           /\ SaidP(b.text) \subseteq Covered(SplitOversizedBlock(b, type))
<1> DEFINE acc == SplitRun(b.text, b, type)
           all == Closed(acc, b, type)
<1>1. b.text \in Seq(Sentence)
  BY DEF BlocksAt, Block, Paragraph
<1>2. acc \in SplitAcc(path)
  BY <1>1, SplitIsRun
<1>3. SaidP(b.text) \subseteq SaidP(acc.cur) \cup Covered(acc.drafts)
  BY <1>1, SplitCovers
<1>4. SplitOversizedBlock(b, type) = ApplyStructuralOverlap(all)
  BY DEF SplitOversizedBlock, SplitRun, SplitStart
<1> HIDE DEF acc
<1>5. all \in Seq(ProseAt(path)) /\ SaidP(acc.cur) \cup Covered(acc.drafts) \subseteq Covered(all)
  BY <1>2, ClosedHolds
<1> HIDE DEF all
<1>6. QED
  BY <1>3, <1>4, <1>5, OverlapHolds

-----------------------------------------------------------------------------
(* The prose of a section *)

\* What blocks say, and the text they make.
SaidB(q) == UNION {SaidP(b.text) : b \in Range(q)}
TextOf(q) == [i \in DOMAIN q |-> q[i].text]

\* The step of the count of a group.
AddBlock == [x \in Nat \X Block |-> x[1] + CountP(x[2].text)]

\* A block has a text.
LEMMA BlockText ==
    ASSUME NEW b \in Block
    PROVE  b.text \in Paragraph /\ b.text # <<>> /\ CountP(b.text) \in Nat
  BY CountPType DEF Block

\* The tokens of a group are a fold.
LEMMA TokensFoldStep ==
    /\ 0 \in Nat
    /\ AddBlock \in [Nat \X Block -> Nat]
    /\ \A a \in Nat, e \in Block : AddBlock[<<a, e>>] = a + CountP(e.text)
  BY BlockText DEF AddBlock

\* That fold is the run of its step, and keeps its type.
LEMMA TokensIsRun ==
    ASSUME NEW q \in Seq(Block)
    PROVE  Tokens(q) = Run(0, AddBlock, q) /\ Run(0, AddBlock, q) \in Nat
<1>1. /\ 0 \in Nat /\ AddBlock \in [Nat \X Block -> Nat]
      /\ \A a \in Nat, e \in Block : AddBlock[<<a, e>>] = a + CountP(e.text)
  BY TokensFoldStep
<1>2. PICK f \in [SUBSET DOMAIN q -> Nat] : Follows(f, Nat, Block, 0, AddBlock, q)
  BY <1>1, FoldSteps
<1>3. f = [s \in SUBSET DOMAIN q |-> IF s = {} THEN 0
                                 ELSE f[s \ {Max(s)}] + CountP(q[Max(s)].text)]
  BY <1>1, <1>2 DEF Follows
<1>4. PICK it : /\ Tokens(q) = it[DOMAIN q]
                /\ it = [s \in SUBSET DOMAIN q |-> IF s = {} THEN 0
                                 ELSE it[s \ {Max(s)}] + CountP(q[Max(s)].text)]
  BY <1>3 DEF Tokens, FoldLeft, MapThenFoldSet
<1>5. Obeys(it, Nat, Block, 0, AddBlock, q)
  BY <1>1, <1>4 DEF Obeys
<1>6. it[DOMAIN q] = Run(0, AddBlock, q) /\ Run(0, AddBlock, q) \in Nat
  BY <1>1, <1>5, FoldIsRun
<1>7. QED
  BY <1>4, <1>6

\* A group without a block has no token.
LEMMA TokensStarts == Tokens(<<>>) = 0
<1>1. Run(0, AddBlock, <<>>) = 0
  BY RunStarts
<1>2. <<>> \in Seq(Block)
  OBVIOUS
<1>3. Tokens(<<>>) = Run(0, AddBlock, <<>>)
  BY <1>2, TokensIsRun
<1>4. QED
  BY <1>1, <1>3

\* A block more counts its tokens more.
LEMMA TokensGrows ==
    ASSUME NEW q \in Seq(Block), NEW b \in Block
    PROVE  Tokens(q) \in Nat /\ Tokens(Append(q, b)) = Tokens(q) + CountP(b.text)
<1>1. AddBlock \in [Nat \X Block -> Nat] /\ \A n \in Nat : AddBlock[<<n, b>>] = n + CountP(b.text)
  BY TokensFoldStep
<1>2. Grows(Nat, Block, 0, AddBlock, q, b)
  BY <1>1, RunGrows
<1>3. Append(q, b) \in Seq(Block)
  OBVIOUS
<1>4. QED
  BY <1>1, <1>2, <1>3, TokensIsRun DEF Grows

\* The text of a group has the tokens and the sentences of its blocks.
LEMMA TextOfGroup ==
    ASSUME NEW group \in Seq(Block)
    PROVE  TextOf(group) \in Seq(Paragraph) /\ Count(TextOf(group)) = Tokens(group)
<1> DEFINE T == {q \in Seq(Block) : TextOf(q) \in Seq(Paragraph) /\ Count(TextOf(q)) = Tokens(q)}
<1>1. <<>> \in T
  <2>1. TextOf(<<>>) = <<>> /\ <<>> \in Seq(Block) /\ <<>> \in Seq(Paragraph)
    BY DEF TextOf
  <2>2. QED
    BY <2>1, TokensStarts, CountStarts
<1>2. ASSUME NEW q \in Seq(Block), NEW b \in Block, q \in T PROVE Append(q, b) \in T
  <2>1. TextOf(Append(q, b)) = Append(TextOf(q), b.text)
    BY DEF TextOf
  <2>2. TextOf(q) \in Seq(Paragraph) /\ Count(TextOf(q)) = Tokens(q)
    BY <1>2
  <2>3. b.text \in Paragraph
    BY BlockText
  <2>4. Count(Append(TextOf(q), b.text)) = Count(TextOf(q)) + CountP(b.text)
    BY <2>2, <2>3, CountGrows
  <2>5. Tokens(Append(q, b)) = Tokens(q) + CountP(b.text)
    BY TokensGrows
  <2>6. Append(q, b) \in Seq(Block) /\ Append(TextOf(q), b.text) \in Seq(Paragraph)
    BY <2>2, <2>3
  <2>7. QED
    BY <2>1, <2>2, <2>4, <2>5, <2>6
<1> HIDE DEF T
<1>3. \A q \in Seq(Block) : q \in T
  BY <1>1, <1>2, SeqInduction
<1>4. QED
  BY <1>3 DEF T

\* The text of a group says what its blocks say.
LEMMA SaidOfGroup ==
    ASSUME NEW q
    PROVE  Said(TextOf(q)) = SaidB(q)
  BY SaidIs DEF TextOf, SaidB, Range

\* A block more says what it says more.
LEMMA SaidBGrows ==
    ASSUME NEW S, NEW q \in Seq(S), NEW b \in S
    PROVE  SaidB(Append(q, b)) = SaidB(q) \cup SaidP(b.text)
<1>1. Range(Append(q, b)) = Range(q) \cup {b}
  BY RangeOfAppend
<1>2. QED
  BY <1>1 DEF SaidB

\* What one block says, and what none does.
LEMMA SaidBOne ==
    ASSUME NEW b
    PROVE  SaidB(<<b>>) = SaidP(b.text) /\ SaidB(<<>>) = {}
<1>1. Range(<<b>>) = {b} /\ Range(<<>>) = {}
  BY RangeOfOne
<1>2. QED
  BY <1>1 DEF SaidB

\* Without a block nothing is said.
LEMMA NoBlockSaid == SaidB(<<>>) = {}
  BY SaidBOne

\* The draft of a group that fits is one of prose, and says what the group says.
LEMMA DraftOfGroup ==
    ASSUME NEW path, NEW q \in Seq(BlocksAt(path)), q # <<>>, NEW type \in Common,
           NEW allow \in BOOLEAN, Tokens(q) <= MaxTokens
    PROVE  /\ Draft(type, TextOf(q), q, allow) \in ProseAt(path)
           /\ Said(OwnText(Draft(type, TextOf(q), q, allow))) = SaidB(q)
<1> DEFINE d == Draft(type, TextOf(q), q, allow)
<1>1. q \in Seq(Block) /\ q[1] \in BlocksAt(path)
  BY DEF BlocksAt
<1>2. q[1].path = path /\ path \in Path
  BY <1>1 DEF BlocksAt, Block
<1>3. TextOf(q) \in Seq(Paragraph) /\ Count(TextOf(q)) = Tokens(q) /\ TextOf(q) # <<>>
  <2>1. 1 \in DOMAIN q
    BY <1>1
  <2>2. DOMAIN TextOf(q) = DOMAIN q
    BY DEF TextOf
  <2>3. TextOf(q) \in Seq(Paragraph) /\ Count(TextOf(q)) = Tokens(q)
    BY <1>1, TextOfGroup
  <2>4. TextOf(q) # <<>>
    <3>1. 1 \in DOMAIN TextOf(q) /\ 1 \notin DOMAIN <<>>
      BY <2>1, <2>2
    <3>2. QED
      BY <3>1
  <2>5. QED
    BY <2>3, <2>4
<1>4. d =
        [type |-> type, text |-> TextOf(q), blocks |-> q, path |-> path, allow |-> allow,
          overlap |-> 0]
  BY <1>2 DEF Draft
<1> HIDE DEF d
<1>5. d \in DraftRecord
  BY <1>1, <1>2, <1>3, <1>4 DEF DraftRecord
<1>6. d \in ProseAt(path)
  BY <1>3, <1>4, <1>5 DEF ProseAt
<1>7. OwnText(d) = TextOf(q)
  BY <1>4 DEF OwnText
<1>8. QED
  BY <1>6, <1>7, SaidOfGroup DEF d

\* A section that is being grouped: the blocks of the group, and the drafts so far.
GroupAcc(path) ==
    [cur : {q \in Seq(BlocksAt(path)) : Tokens(q) <= MaxTokens}, drafts : Seq(ProseAt(path))]
GroupStart == [cur |-> <<>>, drafts |-> <<>>]
GroupRun(q, type) == FoldLeft(LAMBDA a, b : GroupOne(a, b, type), GroupStart, q)
GroupStep(path, type) == [x \in GroupAcc(path) \X BlocksAt(path) |-> GroupOne(x[1], x[2], type)]

\* The grouping starts with nothing.
LEMMA GroupStartType ==
    ASSUME NEW path
    PROVE  GroupStart \in GroupAcc(path) /\ GroupStart.cur = <<>> /\ GroupStart.drafts = <<>>
<1>1. <<>> \in Seq(BlocksAt(path)) /\ Tokens(<<>>) <= MaxTokens
  BY TokensStarts, Limits
<1>2. <<>> \in Seq(ProseAt(path))
  OBVIOUS
<1>3. QED
  BY <1>1, <1>2 DEF GroupAcc, GroupStart

\* Closing the group that is being filled leaves out nothing of it.
LEMMA CloseGroupHolds ==
    ASSUME NEW path, NEW type \in Common, NEW acc \in GroupAcc(path)
    PROVE  /\ CloseGroup(acc, type) \in Seq(ProseAt(path))
           /\ SaidB(acc.cur) \cup Covered(acc.drafts) \subseteq Covered(CloseGroup(acc, type))
<1> DEFINE d == Draft(type, TextOf(acc.cur), acc.cur, type # "references")
<1>1. /\ acc.cur \in Seq(BlocksAt(path)) /\ Tokens(acc.cur) <= MaxTokens
      /\ acc.drafts \in Seq(ProseAt(path))
  BY DEF GroupAcc
<1>2. CASE acc.cur = <<>>
  <2>1. CloseGroup(acc, type) = acc.drafts
    BY <1>2 DEF CloseGroup
  <2>2. SaidB(acc.cur) = {}
    BY <1>2, NoBlockSaid
  <2>3. QED
    BY <1>1, <2>1, <2>2
<1>3. CASE acc.cur # <<>>
  <2>1. CloseGroup(acc, type) = Append(acc.drafts, d)
    BY <1>3 DEF CloseGroup, TextOf
  <2>2. d \in ProseAt(path) /\ Said(OwnText(d)) = SaidB(acc.cur)
    <3>1. (type # "references") \in BOOLEAN
      OBVIOUS
    <3>2. QED
      BY <1>1, <1>3, <3>1, DraftOfGroup
  <2> HIDE DEF d
  <2>3. Covered(Append(acc.drafts, d)) = Covered(acc.drafts) \cup SaidB(acc.cur)
    BY <1>1, <2>2, CoveredGrows
  <2>4. QED
    BY <1>1, <2>1, <2>2, <2>3
<1>4. QED
  BY <1>2, <1>3

\* A block more of a section fits, split if it must be, and none is left out.
LEMMA GroupOneHolds ==
    ASSUME NEW path, NEW type \in Common, NEW acc \in GroupAcc(path), NEW b \in BlocksAt(path)
    PROVE  /\ GroupOne(acc, b, type) \in GroupAcc(path)
           /\ SaidB(acc.cur) \cup Covered(acc.drafts) \cup SaidP(b.text)
                \subseteq SaidB(GroupOne(acc, b, type).cur) \cup
                  Covered(GroupOne(acc, b, type).drafts)
<1> DEFINE full == acc.cur # <<>> /\ Tokens(acc.cur) + CountP(b.text) > MaxTokens
           before == IF full THEN [cur |-> <<>>, drafts |-> CloseGroup(acc, type)] ELSE acc
           after == [before EXCEPT !.cur = Append(@, b)]
           new == GroupOne(acc, b, type)
<1>1. /\ acc.cur \in Seq(BlocksAt(path)) /\ Tokens(acc.cur) <= MaxTokens
      /\ acc.drafts \in Seq(ProseAt(path))
  BY DEF GroupAcc
<1>2. /\ CloseGroup(acc, type) \in Seq(ProseAt(path))
      /\ SaidB(acc.cur) \cup Covered(acc.drafts) \subseteq Covered(CloseGroup(acc, type))
  BY CloseGroupHolds
<1>3. b \in Block /\ CountP(b.text) \in Nat /\ MaxTokens \in Nat
  BY BlockText, Limits DEF BlocksAt
<1>0. <<>> \in Seq(BlocksAt(path)) /\ Tokens(<<>>) = 0 /\ Tokens(<<>>) <= MaxTokens
  BY <1>3, TokensStarts
<1>4. CASE CountP(b.text) > MaxTokens
  <2> DEFINE cut == SplitOversizedBlock(b, type)
  <2>1. new = [cur |-> <<>>, drafts |-> CloseGroup(acc, type) \o cut]
    BY <1>4 DEF GroupOne
  <2>2. cut \in Seq(ProseAt(path)) /\ SaidP(b.text) \subseteq Covered(cut)
    BY SplitOversizedHolds
  <2> HIDE DEF cut, new
  <2>3. /\ CloseGroup(acc, type) \o cut \in Seq(ProseAt(path))
        /\ Covered(CloseGroup(acc, type) \o cut) = Covered(CloseGroup(acc, type)) \cup Covered(cut)
    BY <1>2, <2>2, CoveredJoin
  <2>4. new \in GroupAcc(path)
    BY <1>0, <2>1, <2>3 DEF GroupAcc
  <2>5. QED
    BY <1>2, <2>1, <2>2, <2>3, <2>4 DEF new
<1>5. CASE ~(CountP(b.text) > MaxTokens)
  <2>1. /\ before \in GroupAcc(path)
        /\ before.cur = <<>> \/ Tokens(before.cur) + CountP(b.text) <= MaxTokens
        /\ SaidB(acc.cur) \cup Covered(acc.drafts) \subseteq SaidB(before.cur) \cup
             Covered(before.drafts)
    <3>1. CASE full
      <4>1. before = [cur |-> <<>>, drafts |-> CloseGroup(acc, type)]
        BY <3>1
      <4> HIDE DEF before
      <4>2. before \in GroupAcc(path) /\ before.cur = <<>> /\ before.drafts = CloseGroup(acc, type)
        BY <1>2, <1>0, <4>1 DEF GroupAcc
      <4>3. QED
        BY <1>2, <4>2
    <3>2. CASE ~full
      <4>1. before = acc
        BY <3>2
      <4>2. acc.cur = <<>> \/ ~(Tokens(acc.cur) + CountP(b.text) > MaxTokens)
        BY <3>2
      <4>3. Tokens(acc.cur) \in Nat
        <5>1. acc.cur \in Seq(Block)
          BY <1>1 DEF BlocksAt
        <5>2. QED
          BY <5>1, TokensIsRun
      <4> HIDE DEF before
      <4>4. QED
        BY <1>3, <4>1, <4>2, <4>3
    <3>3. QED
      BY <3>1, <3>2
  <2> HIDE DEF before
  <2>2. before.cur \in Seq(BlocksAt(path)) /\ before.drafts \in Seq(ProseAt(path))
    BY <2>1 DEF GroupAcc
  <2>3. before.cur \in Seq(Block)
    BY <2>2 DEF BlocksAt
  <2>4. Tokens(Append(before.cur, b)) <= MaxTokens
    <3>1. Tokens(Append(before.cur, b)) = Tokens(before.cur) + CountP(b.text)
      BY <1>3, <2>3, TokensGrows
    <3>2. CASE before.cur = <<>>
      BY <1>3, <1>5, <3>1, <3>2, TokensStarts
    <3>3. CASE before.cur # <<>>
      BY <2>1, <3>1, <3>3
    <3>4. QED
      BY <3>2, <3>3
  <2>5. SaidB(Append(before.cur, b)) = SaidB(before.cur) \cup SaidP(b.text)
    BY <2>2, SaidBGrows
  <2>6. after \in GroupAcc(path) /\ after.cur = Append(before.cur, b) /\
          after.drafts = before.drafts
    <3>1. Append(before.cur, b) \in Seq(BlocksAt(path))
      BY <2>2
    <3>2. before = [cur |-> before.cur, drafts |-> before.drafts]
      BY <2>1 DEF GroupAcc
    <3>3. after = [cur |-> Append(before.cur, b), drafts |-> before.drafts]
      BY <3>2
    <3> HIDE DEF after
    <3>4. after \in GroupAcc(path)
      BY <2>2, <2>4, <3>1, <3>3 DEF GroupAcc
    <3>5. QED
      BY <3>3, <3>4
  <2>7. new = IF Tokens(after.cur) >= Target
              THEN [cur |-> <<>>, drafts |-> CloseGroup(after, type)] ELSE after
    BY <1>5 DEF GroupOne, before
  <2> HIDE DEF after, new
  <2>8. /\ CloseGroup(after, type) \in Seq(ProseAt(path))
        /\ SaidB(after.cur) \cup Covered(after.drafts) \subseteq Covered(CloseGroup(after, type))
    BY <2>6, CloseGroupHolds
  <2>9. new \in GroupAcc(path) /\ SaidB(after.cur) \cup Covered(after.drafts)
                                    \subseteq SaidB(new.cur) \cup Covered(new.drafts)
    <3>1. CASE Tokens(after.cur) >= Target
      <4>1. new = [cur |-> <<>>, drafts |-> CloseGroup(after, type)]
        BY <2>7, <3>1
      <4>2. new \in GroupAcc(path)
        BY <1>0, <2>8, <4>1 DEF GroupAcc
      <4>3. QED
        BY <2>8, <4>1, <4>2
    <3>2. CASE ~(Tokens(after.cur) >= Target)
      BY <2>6, <2>7, <3>2
    <3>3. QED
      BY <3>1, <3>2
  <2>10. QED
    BY <2>1, <2>5, <2>6, <2>9 DEF new
<1>6. QED
  BY <1>4, <1>5

\* The grouping of a section is a fold over its blocks.
LEMMA GroupFoldStep ==
    ASSUME NEW path, NEW type \in Common
    PROVE  /\ GroupStart \in GroupAcc(path)
           /\ GroupStep(path, type) \in [GroupAcc(path) \X BlocksAt(path) -> GroupAcc(path)]
           /\ \A a \in GroupAcc(path),
                e \in BlocksAt(path) : GroupStep(path, type)[<<a, e>>] = GroupOne(a, e, type)
  BY GroupStartType, GroupOneHolds DEF GroupStep

\* That fold is the run of its step, and keeps its type.
LEMMA GroupIsRun ==
    ASSUME NEW path, NEW type \in Common, NEW q \in Seq(BlocksAt(path))
    PROVE  GroupRun(q, type) = Run(GroupStart, GroupStep(path, type), q) /\
             Run(GroupStart, GroupStep(path, type), q) \in GroupAcc(path)
<1>1. /\ GroupStart \in GroupAcc(path) /\
           GroupStep(path, type) \in [GroupAcc(path) \X BlocksAt(path) -> GroupAcc(path)]
      /\ \A a \in GroupAcc(path),
           e \in BlocksAt(path) : GroupStep(path, type)[<<a, e>>] = GroupOne(a, e, type)
  BY GroupFoldStep
<1>2. PICK f \in [SUBSET DOMAIN q -> GroupAcc(path)] :
        Follows(f, GroupAcc(path), BlocksAt(path), GroupStart, GroupStep(path, type), q)
  BY <1>1, FoldSteps
<1>3. f = [s \in SUBSET DOMAIN q |-> IF s = {} THEN GroupStart
                                 ELSE GroupOne(f[s \ {Max(s)}], q[Max(s)], type)]
  BY <1>1, <1>2 DEF Follows
<1>4. PICK it : /\ GroupRun(q, type) = it[DOMAIN q]
                /\ it = [s \in SUBSET DOMAIN q |-> IF s = {} THEN GroupStart
                                 ELSE GroupOne(it[s \ {Max(s)}], q[Max(s)], type)]
  BY <1>3 DEF GroupRun, FoldLeft, MapThenFoldSet
<1>5. Obeys(it, GroupAcc(path), BlocksAt(path), GroupStart, GroupStep(path, type), q)
  BY <1>1, <1>4 DEF Obeys
<1>6. it[DOMAIN q] = Run(GroupStart, GroupStep(path, type), q) /\
        Run(GroupStart, GroupStep(path, type), q) \in GroupAcc(path)
  BY <1>1, <1>5, FoldIsRun
<1>7. QED
  BY <1>4, <1>6

\* Grouping leaves out no block.
LEMMA GroupCovers ==
    ASSUME NEW path, NEW type \in Common, NEW q \in Seq(BlocksAt(path))
    PROVE  SaidB(q) \subseteq SaidB(GroupRun(q, type).cur) \cup Covered(GroupRun(q, type).drafts)
<1> DEFINE P(x, a) == SaidB(x) \subseteq SaidB(a.cur) \cup Covered(a.drafts)
           I == {y \in Seq(BlocksAt(path)) \X GroupAcc(path) : P(y[1], y[2])}
<1>0. /\ GroupStart \in GroupAcc(path) /\
           GroupStep(path, type) \in [GroupAcc(path) \X BlocksAt(path) -> GroupAcc(path)]
      /\ \A a \in GroupAcc(path),
           e \in BlocksAt(path) : GroupStep(path, type)[<<a, e>>] = GroupOne(a, e, type)
  BY GroupFoldStep
<1>1. P(<<>>, GroupStart)
  BY NoBlockSaid
<1>2. ASSUME NEW x \in Seq(BlocksAt(path)), NEW a \in GroupAcc(path), NEW e \in BlocksAt(path),
               P(x, a)
      PROVE  P(Append(x, e), GroupOne(a, e, type))
  <2>1. SaidB(a.cur) \cup Covered(a.drafts) \cup SaidP(e.text)
           \subseteq SaidB(GroupOne(a, e, type).cur) \cup Covered(GroupOne(a, e, type).drafts)
    BY GroupOneHolds
  <2>2. SaidB(Append(x, e)) = SaidB(x) \cup SaidP(e.text)
    BY SaidBGrows
  <2>3. QED
    BY <1>2, <2>1, <2>2
<1> HIDE DEF P
<1>3. Keeps(I, GroupAcc(path), BlocksAt(path), GroupStart, GroupStep(path, type))
  <2>1. <<<<>>, GroupStart>> \in I
    <3>1. <<>> \in Seq(BlocksAt(path)) /\ GroupStart \in GroupAcc(path)
      BY <1>0
    <3>2. <<<<>>, GroupStart>> \in Seq(BlocksAt(path)) \X GroupAcc(path)
      BY <3>1
    <3>3. QED
      BY <1>1, <3>2
  <2>2. ASSUME NEW x \in Seq(BlocksAt(path)), NEW a \in GroupAcc(path), NEW e \in BlocksAt(path),
                 <<x, a>> \in I
        PROVE  <<Append(x, e), GroupStep(path, type)[<<a, e>>]>> \in I
    <3>1. P(x, a)
      BY <2>2
    <3>2. P(Append(x, e), GroupStep(path, type)[<<a, e>>])
      BY <1>0, <1>2, <3>1
    <3>3. Append(x, e) \in Seq(BlocksAt(path))
      OBVIOUS
    <3>4. GroupStep(path, type)[<<a, e>>] \in GroupAcc(path)
      BY <1>0
    <3>5. QED
      BY <3>2, <3>3, <3>4
  <2> HIDE DEF I
  <2>3. QED
    BY <2>1, <2>2 DEF Keeps
<1> HIDE DEF I
<1>4. <<q, Run(GroupStart, GroupStep(path, type), q)>> \in I
  BY <1>0, <1>3, FoldKeeps
<1>5. P(q, Run(GroupStart, GroupStep(path, type), q))
  BY <1>4 DEF I
<1>6. QED
  BY <1>5, GroupIsRun DEF P

\* The prose of a section becomes drafts that fit and say all of it.
LEMMA TextGroupHolds ==
    ASSUME NEW path, NEW group \in Seq(BlocksAt(path)), group # <<>>
    PROVE  /\ ChunksFromTextGroup(group) \in Seq(ProseAt(path))
           /\ SaidB(group) \subseteq Covered(ChunksFromTextGroup(group))
<1> DEFINE type == IF group[1].type = "reference" THEN "references" ELSE "paragraph"
           acc == GroupRun(group, type)
           all == CloseGroup(acc, type)
           few == MergeSmall(all)
<1>1. type \in Common
  BY DEF Common
<1>2. ChunksFromTextGroup(group) = ApplyStructuralOverlap(few)
  BY DEF ChunksFromTextGroup, GroupRun, GroupStart
<1> HIDE DEF type
<1>3. acc \in GroupAcc(path)
  BY <1>1, GroupIsRun
<1>4. SaidB(group) \subseteq SaidB(acc.cur) \cup Covered(acc.drafts)
  BY <1>1, GroupCovers
<1> HIDE DEF acc
<1>5. all \in Seq(ProseAt(path)) /\ SaidB(acc.cur) \cup Covered(acc.drafts) \subseteq Covered(all)
  BY <1>1, <1>3, CloseGroupHolds
<1> HIDE DEF all
<1>6. few \in Seq(ProseAt(path))
  BY <1>5, MergeIsRun
<1>7. Covered(all) \subseteq Covered(few)
  BY <1>5, MergeCovers
<1> HIDE DEF few
<1>8. QED
  BY <1>2, <1>4, <1>5, <1>6, <1>7, OverlapHolds

-----------------------------------------------------------------------------
(* Packing, and lists *)

\* A part that is packed: not empty, and within the limit or of one unit.
Part(limit) == {p \in Paragraph \ {<<>>} : CountP(p) <= limit \/ Len(p) = 1}
PackAcc(limit) == [out : Seq(Part(limit)), cur : Part(limit) \cup {<<>>}]
PackStart == [out |-> <<>>, cur |-> <<>>]
PackRun(q, limit) == FoldLeft(LAMBDA a, u : PackOne(a, u, limit), PackStart, q)
PackStep(limit) == [x \in PackAcc(limit) \X Sentence |-> PackOne(x[1], x[2], limit)]

\* A part more says what it says more.
LEMMA PartSaid ==
    ASSUME NEW limit, NEW parts \in Seq(Part(limit)), NEW p \in Part(limit)
    PROVE  Said(Append(parts, p)) = Said(parts) \cup SaidP(p)
<1>1. parts \in Seq(Paragraph) /\ p \in Paragraph
  BY DEF Part
<1>2. QED
  BY <1>1, SaidGrows

\* A unit more is packed with those before or starts a part; none is left out.
LEMMA PackOneHolds ==
    ASSUME NEW limit \in Nat, NEW acc \in PackAcc(limit), NEW u \in Sentence
    PROVE  /\ PackOne(acc, u, limit) \in PackAcc(limit)
           /\ PackOne(acc, u, limit).cur # <<>>
           /\ Said(acc.out) \cup SaidP(acc.cur) \cup Range(u.of)
                \subseteq Said(PackOne(acc, u, limit).out) \cup SaidP(PackOne(acc, u, limit).cur)
<1> DEFINE new == PackOne(acc, u, limit)
<1>1. /\ acc.out \in Seq(Part(limit)) /\ acc.cur \in Paragraph
      /\ acc.cur # <<>> => acc.cur \in Part(limit)
      /\ CountP(acc.cur) \in Nat /\ u.n \in Nat
  <2>1. acc.out \in Seq(Part(limit)) /\ acc.cur \in Part(limit) \cup {<<>>}
    BY DEF PackAcc
  <2>2. <<>> \in Paragraph
    BY DEF Paragraph
  <2>3. acc.cur \in Paragraph
    BY <2>1, <2>2 DEF Part
  <2>4. QED
    BY <2>1, <2>3, CountPType DEF Sentence
<1>2. <<u>> \in Part(limit) /\ SaidP(<<u>>) = Range(u.of)
  <2>1. <<u>> \in Seq(Sentence) /\ <<u>> # <<>> /\ Len(<<u>>) = 1
    OBVIOUS
  <2>2. QED
    BY <2>1, SaidPOne DEF Part, Paragraph
<1>3. CASE acc.cur # <<>> /\ CountP(acc.cur) + u.n > limit
  <2>1. new = [out |-> Append(acc.out, acc.cur), cur |-> <<u>>]
    BY <1>3 DEF PackOne
  <2>2. Append(acc.out, acc.cur) \in Seq(Part(limit))
    BY <1>1, <1>3
  <2>3. Said(Append(acc.out, acc.cur)) = Said(acc.out) \cup SaidP(acc.cur)
    BY <1>1, <1>3, PartSaid
  <2>4. new \in PackAcc(limit)
    BY <1>2, <2>1, <2>2 DEF PackAcc
  <2>5. <<u>> # <<>>
    OBVIOUS
  <2>6. QED
    BY <1>2, <2>1, <2>3, <2>4, <2>5
<1>4. CASE ~(acc.cur # <<>> /\ CountP(acc.cur) + u.n > limit)
  <2> DEFINE more == Append(acc.cur, u)
  <2>1. new = [acc EXCEPT !.cur = more]
    BY <1>4 DEF PackOne
  <2>2. /\ more \in Paragraph /\ more # <<>> /\ CountP(more) = CountP(acc.cur) + u.n
        /\ SaidP(more) = SaidP(acc.cur) \cup Range(u.of)
    BY <1>1, CountPGrows, SaidPGrows DEF Paragraph
  <2>3. more \in Part(limit)
    <3>1. CASE acc.cur = <<>>
      <4>1. Len(more) = 1
        BY <3>1
      <4>2. QED
        BY <2>2, <4>1 DEF Part
    <3>2. CASE acc.cur # <<>>
      <4>1. CountP(more) <= limit
        BY <1>1, <1>4, <2>2, <3>2
      <4>2. QED
        BY <2>2, <4>1 DEF Part
    <3>3. QED
      BY <3>1, <3>2
  <2> HIDE DEF more
  <2>4. acc = [out |-> acc.out, cur |-> acc.cur]
    BY DEF PackAcc
  <2>5. new = [out |-> acc.out, cur |-> more]
    BY <2>1, <2>4
  <2>6. new \in PackAcc(limit)
    BY <1>1, <2>3, <2>5 DEF PackAcc
  <2>7. QED
    BY <2>2, <2>5, <2>6
<1>5. QED
  BY <1>3, <1>4

\* Packing starts with nothing.
LEMMA PackStartType == \A limit \in Nat : PackStart \in PackAcc(limit)
<1>1. \A limit \in Nat : <<>> \in Seq(Part(limit))
  OBVIOUS
<1>2. QED
  BY <1>1 DEF PackStart, PackAcc

\* Packing is a fold over the units.
LEMMA PackFoldStep ==
    ASSUME NEW limit \in Nat
    PROVE  /\ PackStart \in PackAcc(limit)
           /\ PackStep(limit) \in [PackAcc(limit) \X Sentence -> PackAcc(limit)]
           /\ \A a \in PackAcc(limit),
                e \in Sentence : PackStep(limit)[<<a, e>>] = PackOne(a, e, limit)
  BY PackStartType, PackOneHolds DEF PackStep

\* That fold is the run of its step, and keeps its type.
LEMMA PackIsRun ==
    ASSUME NEW limit \in Nat, NEW q \in Seq(Sentence)
    PROVE  PackRun(q, limit) = Run(PackStart, PackStep(limit), q) /\
             Run(PackStart, PackStep(limit), q) \in PackAcc(limit)
<1>1. /\ PackStart \in PackAcc(limit) /\
           PackStep(limit) \in [PackAcc(limit) \X Sentence -> PackAcc(limit)]
      /\ \A a \in PackAcc(limit), e \in Sentence : PackStep(limit)[<<a, e>>] = PackOne(a, e, limit)
  BY PackFoldStep
<1>2. PICK f \in [SUBSET DOMAIN q -> PackAcc(limit)] :
        Follows(f, PackAcc(limit), Sentence, PackStart, PackStep(limit), q)
  BY <1>1, FoldSteps
<1>3. f = [s \in SUBSET DOMAIN q |-> IF s = {} THEN PackStart
                                 ELSE PackOne(f[s \ {Max(s)}], q[Max(s)], limit)]
  BY <1>1, <1>2 DEF Follows
<1>4. PICK it : /\ PackRun(q, limit) = it[DOMAIN q]
                /\ it = [s \in SUBSET DOMAIN q |-> IF s = {} THEN PackStart
                                 ELSE PackOne(it[s \ {Max(s)}], q[Max(s)], limit)]
  BY <1>3 DEF PackRun, FoldLeft, MapThenFoldSet
<1>5. Obeys(it, PackAcc(limit), Sentence, PackStart, PackStep(limit), q)
  BY <1>1, <1>4 DEF Obeys
<1>6. it[DOMAIN q] = Run(PackStart, PackStep(limit), q) /\
        Run(PackStart, PackStep(limit), q) \in PackAcc(limit)
  BY <1>1, <1>5, FoldIsRun
<1>7. QED
  BY <1>4, <1>6

\* Packing leaves out no unit.
LEMMA PackCovers ==
    ASSUME NEW limit \in Nat, NEW q \in Seq(Sentence)
    PROVE  (q # <<>> => PackRun(q, limit).cur # <<>>) /\
             SaidP(q) \subseteq Said(PackRun(q, limit).out) \cup SaidP(PackRun(q, limit).cur)
<1> DEFINE P(x, a) == (x # <<>> => a.cur # <<>>) /\ SaidP(x) \subseteq Said(a.out) \cup SaidP(a.cur)
           I == {y \in Seq(Sentence) \X PackAcc(limit) : P(y[1], y[2])}
<1>0. /\ PackStart \in PackAcc(limit) /\
           PackStep(limit) \in [PackAcc(limit) \X Sentence -> PackAcc(limit)]
      /\ \A a \in PackAcc(limit), e \in Sentence : PackStep(limit)[<<a, e>>] = PackOne(a, e, limit)
  BY PackFoldStep
<1>1. P(<<>>, PackStart)
  BY NothingSaid
<1>2. ASSUME NEW x \in Seq(Sentence), NEW a \in PackAcc(limit), NEW e \in Sentence, P(x, a)
      PROVE  P(Append(x, e), PackOne(a, e, limit))
  <2>1. /\ PackOne(a, e, limit).cur # <<>>
        /\ Said(a.out) \cup SaidP(a.cur) \cup Range(e.of)
             \subseteq Said(PackOne(a, e, limit).out) \cup SaidP(PackOne(a, e, limit).cur)
    BY PackOneHolds
  <2>2. SaidP(Append(x, e)) = SaidP(x) \cup Range(e.of)
    BY SaidPGrows DEF Paragraph
  <2>3. QED
    BY <1>2, <2>1, <2>2
<1> HIDE DEF P
<1>3. Keeps(I, PackAcc(limit), Sentence, PackStart, PackStep(limit))
  <2>1. <<<<>>, PackStart>> \in I
    <3>1. <<>> \in Seq(Sentence) /\ PackStart \in PackAcc(limit)
      BY <1>0
    <3>2. <<<<>>, PackStart>> \in Seq(Sentence) \X PackAcc(limit)
      BY <3>1
    <3>3. QED
      BY <1>1, <3>2
  <2>2. ASSUME NEW x \in Seq(Sentence), NEW a \in PackAcc(limit), NEW e \in Sentence, <<x, a>> \in I
        PROVE  <<Append(x, e), PackStep(limit)[<<a, e>>]>> \in I
    <3>1. P(x, a)
      BY <2>2
    <3>2. P(Append(x, e), PackStep(limit)[<<a, e>>])
      BY <1>0, <1>2, <3>1
    <3>3. Append(x, e) \in Seq(Sentence)
      OBVIOUS
    <3>4. PackStep(limit)[<<a, e>>] \in PackAcc(limit)
      BY <1>0
    <3>5. QED
      BY <3>2, <3>3, <3>4
  <2> HIDE DEF I
  <2>3. QED
    BY <2>1, <2>2 DEF Keeps
<1> HIDE DEF I
<1>4. <<q, Run(PackStart, PackStep(limit), q)>> \in I
  BY <1>0, <1>3, FoldKeeps
<1>5. P(q, Run(PackStart, PackStep(limit), q))
  BY <1>4 DEF I
<1>6. QED
  BY <1>5, PackIsRun DEF P

\* Units that are packed give parts that fit, or have one unit, and say all of them.
LEMMA PackedHolds ==
    ASSUME NEW limit \in Nat, NEW units \in Seq(Sentence)
    PROVE  /\ Packed(units, limit) \in Seq(Part(limit))
           /\ SaidP(units) \subseteq Said(Packed(units, limit))
           /\ Packed(units, limit) = <<>> => units = <<>>
<1> DEFINE pack == PackRun(units, limit)
<1>1. Packed(units, limit) = IF pack.cur = <<>> THEN pack.out ELSE Append(pack.out, pack.cur)
  BY DEF Packed, PackRun, PackStart
<1>2. pack \in PackAcc(limit)
  BY PackIsRun
<1>3. (units # <<>> => pack.cur # <<>>) /\
        SaidP(units) \subseteq Said(pack.out) \cup SaidP(pack.cur)
  BY PackCovers
<1> HIDE DEF pack
<1>4. pack.out \in Seq(Part(limit)) /\ pack.cur \in Part(limit) \cup {<<>>}
  BY <1>2 DEF PackAcc
<1>5. CASE pack.cur = <<>>
  BY <1>1, <1>3, <1>4, <1>5, NothingSaid
<1>6. CASE pack.cur # <<>>
  <2>1. pack.cur \in Part(limit)
    BY <1>4, <1>6
  <2>2. Said(Append(pack.out, pack.cur)) = Said(pack.out) \cup SaidP(pack.cur)
    BY <1>4, <2>1, PartSaid
  <2>3. Append(pack.out, pack.cur) \in Seq(Part(limit)) /\ Append(pack.out, pack.cur) # <<>>
    BY <1>4, <2>1
  <2>4. QED
    BY <1>1, <1>3, <1>6, <2>2, <2>3
<1>7. QED
  BY <1>5, <1>6

\* What a draft must be within.
Fits(d) ==
    CASE d.type \in Common -> Count(d.text) <= MaxTokens
      [] d.type = "list" -> Count(d.text) <= ListMax \/ Len(d.text[1]) = 1
      [] d.type = "table" -> \/ Count(d.text) <= TableMax \/ Len(d.text[1]) <= 2
      [] OTHER -> TRUE
FitAt(path) == {d \in DraftRecord : d.path = path /\ Fits(d)}
FitDraft == {d \in DraftRecord : Fits(d)}

\* The drafts of prose are within the limits of a draft.
LEMMA ProseFits == \A path : ProseAt(path) \in SUBSET FitAt(path)
  BY DEF ProseAt, FitAt, Fits, Common

\* A draft of one paragraph of a unit that stands alone.
UnitHolds(type, p, b, path) ==
    LET d == Draft(type, <<p>>, <<b>>, FALSE) IN
    /\ d \in DraftRecord /\ d.type = type /\ d.text = <<p>> /\ d.path = path
    /\ Said(OwnText(d)) = SaidP(p) /\ Count(<<p>>) = CountP(p)

\* A draft of one part of a table, of a list or of a caption says what the part says.
LEMMA UnitDraft ==
    ASSUME NEW path, NEW b \in BlocksAt(path), NEW type \in {"table", "list", "figure_caption"},
           NEW p \in Paragraph
    PROVE  UnitHolds(type, p, b, path)
<1> DEFINE d == Draft(type, <<p>>, <<b>>, FALSE)
<1>1. b \in Block /\ b.path = path /\ path \in Path
  BY DEF BlocksAt, Block
<1>2. <<p>> \in Seq(Paragraph) \ {<<>>} /\ <<b>> \in Seq(Block) /\ <<b>>[1] = b
  BY <1>1
<1>3. d =
        [type |-> type, text |-> <<p>>, blocks |-> <<b>>, path |-> path, allow |-> FALSE,
          overlap |-> 0]
  BY <1>1, <1>2 DEF Draft
<1> HIDE DEF d
<1>4. d \in DraftRecord
  BY <1>1, <1>2, <1>3 DEF DraftRecord
<1>5. OwnText(d) = <<p>>
  BY <1>3 DEF OwnText
<1>6. Said(OwnText(d)) = SaidP(p) /\ Count(<<p>>) = CountP(p)
  BY <1>5, SaidOne, CountOne
<1>7. d.type = type /\ d.text = <<p>> /\ d.path = path
  BY <1>3
<1>8. QED
  BY <1>4, <1>6, <1>7 DEF d, UnitHolds

\* The drafts of the parts of a unit are a sequence of as many.
LEMMA SeqOfSame ==
    ASSUME NEW S, NEW P, NEW parts \in Seq(P), NEW ds, ds = [k \in DOMAIN parts |-> ds[k]],
           \A k \in DOMAIN parts : ds[k] \in S
    PROVE  ds \in Seq(S)
<1> DEFINE n == Len(parts)
<1>1. n \in Nat /\ DOMAIN parts = 1 .. n
  OBVIOUS
<1> HIDE DEF n
<1>2. ds \in [1 .. n -> S]
  BY <1>1
<1>3. QED
  BY <1>1, <1>2

\* Drafts that say, each, what their part says, say what all the parts say.
LEMMA PartsCovered ==
    ASSUME NEW P, NEW parts \in Seq(P), NEW S, NEW ds \in Seq(S), DOMAIN ds = DOMAIN parts,
           \A k \in DOMAIN parts : SaidP(parts[k]) \subseteq Said(OwnText(ds[k]))
    PROVE  Said(parts) \subseteq Covered(ds)
<1>1. Said(parts) = UNION {SaidP(p) : p \in Range(parts)}
  BY SaidIs
<1>2. ASSUME NEW p \in Range(parts) PROVE SaidP(p) \subseteq Covered(ds)
  <2>1. PICK k \in DOMAIN parts : p = parts[k]
    BY DEF Range
  <2>2. ds[k] \in Range(ds)
    BY DEF Range
  <2>3. QED
    BY <2>1, <2>2 DEF Covered
<1>3. QED
  BY <1>1, <1>2

\* What a block says that chunking may not leave out.
Essential(b) == SaidP(Own(b)) \ Omissible(b)

\* A list becomes drafts that fit, or have one item, and say all of it.
LEMMA ListHolds ==
    ASSUME NEW path, NEW b \in BlocksAt(path)
    PROVE  /\ ChunksFromList(b) \in Seq(FitAt(path))
           /\ SaidP(b.text) \subseteq Covered(ChunksFromList(b))
<1> DEFINE parts == Packed(b.text, ListMax)
           D(p) == Draft("list", <<p>>, <<b>>, FALSE)
<1>1. b.text \in Paragraph /\ b.text \in Seq(Sentence) /\ ListMax \in Nat
  BY BlockText, Limits DEF BlocksAt, Paragraph
<1>2. ASSUME NEW p \in Paragraph, CountP(p) <= ListMax \/ Len(p) = 1
      PROVE  D(p) \in FitAt(path) /\ Said(OwnText(D(p))) = SaidP(p)
  <2>1. /\ D(p) \in DraftRecord /\ D(p).type = "list" /\ D(p).text = <<p>> /\ D(p).path = path
        /\ Said(OwnText(D(p))) = SaidP(p) /\ Count(<<p>>) = CountP(p)
    <3>1. "list" \in {"table", "list", "figure_caption"}
      OBVIOUS
    <3>2. UnitHolds("list", p, b, path)
      BY <1>2, <3>1, UnitDraft
    <3>3. QED
      BY <3>2 DEF UnitHolds
  <2> HIDE DEF D
  <2>2. <<p>>[1] = p
    OBVIOUS
  <2>3. Fits(D(p))
    BY <1>2, <2>1, <2>2 DEF Fits, Common
  <2>4. QED
    BY <2>1, <2>3 DEF FitAt
<1>3. CASE CountP(b.text) <= ListMax
  <2>1. ChunksFromList(b) = <<D(b.text)>>
    BY <1>3 DEF ChunksFromList
  <2> HIDE DEF D
  <2>2. D(b.text) \in FitAt(path) /\ Said(OwnText(D(b.text))) = SaidP(b.text)
    BY <1>1, <1>2, <1>3
  <2>3. QED
    BY <2>1, <2>2, CoveredOne
<1>4. CASE ~(CountP(b.text) <= ListMax)
  <2>1. parts \in Seq(Part(ListMax)) /\ SaidP(b.text) \subseteq Said(parts)
    BY <1>1, PackedHolds
  <2> DEFINE ds == [k \in DOMAIN parts |-> D(parts[k])]
  <2>2. ChunksFromList(b) = ds
    BY <1>4 DEF ChunksFromList
  <2> HIDE DEF D, parts
  <2>3. ASSUME NEW k \in DOMAIN parts
        PROVE  ds[k] \in FitAt(path) /\ Said(OwnText(ds[k])) = SaidP(parts[k])
    <3>1. parts[k] \in Part(ListMax)
      BY <2>1
    <3>2. QED
      BY <1>2, <3>1 DEF Part
  <2>4. ds = [k \in DOMAIN parts |-> ds[k]] /\ DOMAIN ds = DOMAIN parts
    OBVIOUS
  <2> HIDE DEF ds
  <2>5. ds \in Seq(FitAt(path))
    BY <2>1, <2>3, <2>4, SeqOfSame
  <2>6. Said(parts) \subseteq Covered(ds)
    BY <2>1, <2>3, <2>4, <2>5, PartsCovered
  <2>7. QED
    BY <2>1, <2>2, <2>5, <2>6
<1>5. QED
  BY <1>3, <1>4

\* A header and the rows that follow it are all that a table says.
LEMMA HeaderAndRows ==
    ASSUME NEW t \in Seq(Sentence), NEW rows \in Seq(Sentence), NEW own \in Seq(Sentence),
           Len(own) <= Len(rows) + 1, \A k \in 1 .. Len(rows) : rows[k] = t[k + 1],
           \A k \in 1 .. Len(own) : own[k] = t[k]
    PROVE  SaidP(own) \subseteq Range(t[1].of) \cup SaidP(rows)
<1>1. ASSUME NEW s \in Range(own) PROVE Range(s.of) \subseteq Range(t[1].of) \cup SaidP(rows)
  <2>1. PICK k \in DOMAIN own : s = own[k]
    BY DEF Range
  <2>2. k \in 1 .. Len(own) /\ s = t[k]
    BY <2>1
  <2>3. CASE k = 1
    BY <2>2, <2>3
  <2>4. CASE k # 1
    <3>1. k - 1 \in 1 .. Len(rows) /\ (k - 1) + 1 = k
      BY <2>2, <2>4
    <3>2. k - 1 \in DOMAIN rows /\ rows[k - 1] = s
      BY <2>2, <3>1
    <3>3. s \in Range(rows)
      BY <3>2 DEF Range
    <3>4. QED
      BY <3>3 DEF SaidP
  <2>5. QED
    BY <2>3, <2>4
<1>2. QED
  BY <1>1 DEF SaidP

\* The first elements of a sequence.
LEMMA FirstOf ==
    ASSUME NEW S, NEW q \in Seq(S), NEW n \in Nat, n <= Len(q)
    PROVE  /\ SubSeq(q, 1, n) \in Seq(S) /\ Len(SubSeq(q, 1, n)) = n
           /\ \A k \in 1 .. n : SubSeq(q, 1, n)[k] = q[k]
  OBVIOUS

\* A table says what its header and its rows say.
LEMMA RowsOfTable ==
    ASSUME NEW b \in Block
    PROVE  /\ b.text[1] \in Sentence /\ RowsOf(b) \in Seq(Sentence)
           /\ SaidP(Own(b)) \subseteq Range(b.text[1].of) \cup SaidP(RowsOf(b))
           /\ RowsOf(b) = <<>> => Len(b.text) <= 2
           /\ Own(b) \in Seq(Sentence) /\ Len(Own(b)) <= Len(RowsOf(b)) + 1
           /\ \A k \in 1 .. Len(Own(b)) : Own(b)[k] = IF k = 1 THEN b.text[1] ELSE RowsOf(b)[k - 1]
<1>1. PICK t : t = b.text
  OBVIOUS
<1>2. PICK rows : rows = RowsOf(b)
  OBVIOUS
<1>3. PICK own : own = Own(b)
  OBVIOUS
<1>4. t \in Seq(Sentence) /\ t # <<>>
  BY <1>1, BlockText DEF Paragraph
<1>5. Len(t) \in Nat /\ Len(t) >= 1 /\ t[1] \in Sentence
  BY <1>4
<1>6. /\ Tail(t) \in Seq(Sentence) /\ Len(Tail(t)) = Len(t) - 1
      /\ \A k \in 1 .. Len(t) - 1 : Tail(t)[k] = t[k + 1]
  BY <1>4
<1>7. /\ rows \in Seq(Sentence) /\ own \in Seq(Sentence)
      /\ Len(own) <= Len(rows) + 1 /\ Len(t) <= Len(rows) + 2
      /\ \A k \in 1 .. Len(rows) : rows[k] = t[k + 1]
      /\ \A k \in 1 .. Len(own) : own[k] = t[k]
  <2>1. CASE b.note
    <3>1. rows = SubSeq(Tail(t), 1, Len(t) - 2) /\ own = SubSeq(t, 1, Len(t) - 1)
      BY <1>1, <1>2, <1>3, <1>6, <2>1, <1>5 DEF Front, RowsOf, Own
    <3>2. /\ own \in Seq(Sentence) /\ Len(own) = Len(t) - 1
          /\ \A k \in 1 .. Len(t) - 1 : own[k] = t[k]
      <4>1. Len(t) - 1 \in Nat /\ Len(t) - 1 <= Len(t)
        BY <1>5
      <4>2. QED
        BY <1>4, <3>1, <4>1, FirstOf
    <3>3. CASE Len(t) = 1
      <4>1. Len(Tail(t)) = 0 /\ Tail(t) \in Seq(Sentence)
        BY <1>6, <3>3
      <4>2. rows = SubSeq(Tail(t), 1, 0 - 1)
        BY <3>1, <3>3
      <4>3. rows = <<>> /\ Len(rows) = 0
        BY <4>1, <4>2
      <4>4. rows \in Seq(Sentence)
        BY <4>3
      <4>5. QED
        BY <3>2, <3>3, <4>3, <4>4
    <3>4. CASE Len(t) # 1
      <4>1. /\ rows \in Seq(Sentence) /\ Len(rows) = Len(t) - 2
            /\ \A k \in 1 .. Len(t) - 2 : rows[k] = Tail(t)[k]
        <5>1. 1 \in 1 .. Len(Tail(t)) + 1 /\ Len(t) - 2 \in 0 .. Len(Tail(t)) /\ Len(t) - 2 \in Nat
          BY <1>5, <1>6, <3>4
        <5>2. QED
          BY <1>6, <3>1, <5>1
      <4>2. \A k \in 1 .. Len(rows) : rows[k] = t[k + 1]
        BY <1>5, <1>6, <4>1
      <4>3. QED
        BY <1>5, <3>2, <4>1, <4>2
    <3>5. QED
      BY <3>3, <3>4
  <2>2. CASE ~b.note
    <3>1. rows = Tail(t) /\ own = t
      BY <1>1, <1>2, <1>3, <2>2 DEF RowsOf, Own
    <3>2. QED
      BY <1>4, <1>5, <1>6, <3>1
  <2>3. QED
    BY <2>1, <2>2
<1>8. SaidP(own) \subseteq Range(t[1].of) \cup SaidP(rows)
  BY <1>4, <1>7, HeaderAndRows
<1>9. rows = <<>> => Len(t) <= 2
  BY <1>5, <1>7
<1>10. ASSUME NEW k \in 1 .. Len(own) PROVE own[k] = IF k = 1 THEN t[1] ELSE rows[k - 1]
  <2>1. CASE k = 1
    BY <1>7, <2>1
  <2>2. CASE k # 1
    <3>1. k - 1 \in 1 .. Len(rows) /\ (k - 1) + 1 = k
      BY <1>7, <2>2
    <3>2. rows[k - 1] = t[k] /\ own[k] = t[k]
      BY <1>7, <3>1
    <3>3. QED
      BY <2>2, <3>2
  <2>3. QED
    BY <2>1, <2>2
<1>11. QED
  BY <1>1, <1>2, <1>3, <1>5, <1>7, <1>8, <1>9, <1>10

-----------------------------------------------------------------------------
(* Tables and other blocks that stand alone *)

\* What a block says without the note is part of what it says.
LEMMA OwnSaid ==
    ASSUME NEW b \in Block
    PROVE  SaidP(Own(b)) \subseteq SaidP(b.text)
<1>1. PICK t : t = b.text
  OBVIOUS
<1>2. t \in Seq(Sentence) /\ t # <<>>
  BY <1>1, BlockText DEF Paragraph
<1>3. CASE b.note
  <2>1. Own(b) = SubSeq(t, 1, Len(t) - 1)
    BY <1>1, <1>3 DEF Own, Front
  <2>2. Len(t) - 1 \in Nat /\ Len(t) - 1 <= Len(t)
    BY <1>2
  <2>3. /\ SubSeq(t, 1, Len(t) - 1) \in Seq(Sentence) /\ Len(SubSeq(t, 1, Len(t) - 1)) = Len(t) - 1
        /\ \A k \in 1 .. Len(t) - 1 : SubSeq(t, 1, Len(t) - 1)[k] = t[k]
    BY <1>2, <2>2, FirstOf
  <2>4. Range(SubSeq(t, 1, Len(t) - 1)) \subseteq Range(t)
    BY <1>2, <2>2, <2>3 DEF Range
  <2>5. QED
    BY <1>1, <2>1, <2>4 DEF SaidP
<1>4. QED
  BY <1>3 DEF Own

\* A paragraph with a sentence has a token.
LEMMA CountPPositive ==
    ASSUME NEW p \in Paragraph, p # <<>>
    PROVE  CountP(p) \in Nat /\ CountP(p) >= 1
<1>1. p \in Seq(Sentence) /\ Len(p) \in Nat /\ Len(p) >= 1
  BY DEF Paragraph
<1> DEFINE front == SubSeq(p, 1, Len(p) - 1)
           last == p[Len(p)]
<1>2. front \in Paragraph /\ last \in Sentence /\ p = Append(front, last)
  BY <1>1 DEF Paragraph
<1> HIDE DEF front, last
<1>3. CountP(front) \in Nat /\ CountP(p) = CountP(front) + last.n
  BY <1>2, CountPGrows
<1>4. last.n \in Nat \ {0}
  BY <1>2 DEF Sentence
<1>5. QED
  BY <1>3, <1>4

\* A part of a table repeats the header before its rows, and fits unless it has one row.
PartOfTable(h, p) == <<h>> \o p

\* A header with a part of the rows fits, or has one row; it says what both say.
LEMMA PartOfTableFits ==
    ASSUME NEW h \in Sentence, NEW limit, limit = IF TableMax > h.n THEN TableMax - h.n ELSE 0,
           NEW p \in Part(limit)
    PROVE  /\ limit \in Nat
           /\ PartOfTable(h, p) \in Paragraph
           /\ CountP(PartOfTable(h, p)) <= TableMax \/ Len(PartOfTable(h, p)) <= 2
           /\ SaidP(PartOfTable(h, p)) = Range(h.of) \cup SaidP(p)
<1>1. p \in Paragraph /\ p # <<>> /\ (CountP(p) <= limit \/ Len(p) = 1)
  BY DEF Part
<1>2. <<h>> \in Paragraph /\ CountP(<<h>>) = h.n /\ h.n \in Nat /\ TableMax \in Nat
  <2>1. <<h>> \in Seq(Sentence)
    OBVIOUS
  <2>2. QED
    BY <2>1, CountPOne, Limits DEF Paragraph, Sentence
<1>3. CountP(PartOfTable(h, p)) = h.n + CountP(p)
  BY <1>1, <1>2, CountPJoin DEF PartOfTable
<1>4. SaidP(PartOfTable(h, p)) = Range(h.of) \cup SaidP(p)
  BY <1>1, <1>2, SaidPJoin, SaidPOne DEF PartOfTable
<1>5. PartOfTable(h, p) \in Paragraph /\ Len(PartOfTable(h, p)) = 1 + Len(p)
  BY <1>1, <1>2 DEF Paragraph, PartOfTable
<1>6. CountP(p) \in Nat /\ CountP(p) >= 1
  BY <1>1, CountPPositive
<1>7. limit \in Nat
  BY <1>2
<1>8. CASE Len(p) = 1
  BY <1>4, <1>5, <1>7, <1>8
<1>9. CASE CountP(p) <= limit
  <2>1. TableMax > h.n
    BY <1>2, <1>6, <1>9
  <2>2. CountP(PartOfTable(h, p)) <= TableMax
    BY <1>2, <1>3, <1>6, <1>9, <2>1
  <2>3. QED
    BY <1>4, <1>5, <1>7, <2>2
<1>10. QED
  BY <1>1, <1>8, <1>9

\* The words of a table that its representation by rows leaves out.
Omitted(b) ==
    UNION {LET line == Own(b)[s] IN
           IF s > RowLimit + 1 THEN Range(line.of) ELSE Range(Tail(line.of)) : s \in DOMAIN Own(b)}

\* Of the elements of a sequence, only the first is not in its tail.
LEMMA FirstOrTail ==
    ASSUME NEW S, NEW q \in Seq(S), NEW x \in Range(q), x \notin Range(Tail(q))
    PROVE  x \in Range(SubSeq(q, 1, 1))
<1>1. PICK i \in 1 .. Len(q) : x = q[i]
  BY DEF Range
<1>2. CASE i = 1
  <2>1. 1 <= Len(q)
    BY <1>1
  <2>2. SubSeq(q, 1, 1) \in Seq(S) /\ Len(SubSeq(q, 1, 1)) = 1 /\ SubSeq(q, 1, 1)[1] = q[1]
    BY <2>1, FirstOf
  <2>3. 1 \in DOMAIN SubSeq(q, 1, 1)
    BY <2>2
  <2>4. QED
    BY <1>1, <1>2, <2>2, <2>3 DEF Range
<1>3. CASE i # 1
  <2>1. i - 1 \in 1 .. Len(q) - 1 /\ Tail(q)[i - 1] = q[i] /\ DOMAIN Tail(q) = 1 .. Len(q) - 1
    BY <1>1, <1>3
  <2>2. QED
    BY <1>1, <2>1 DEF Range
<1>4. QED
  BY <1>2, <1>3

\* A sequence that begins with one that is not empty is not empty.
LEMMA JoinNotEmpty ==
    ASSUME NEW S, NEW u \in Seq(S), NEW v \in Seq(S), u # <<>>
    PROVE  u \o v \in Seq(S) \ {<<>>}
<1>1. Len(u) \in Nat /\ Len(u) >= 1 /\ Len(v) \in Nat
  OBVIOUS
<1>2. u \o v \in Seq(S) /\ Len(u \o v) = Len(u) + Len(v)
  OBVIOUS
<1>3. Len(u \o v) >= 1
  BY <1>1, <1>2
<1>4. QED
  BY <1>2, <1>3

\* A row with its header is a sentence that says the paired words of both.
LEMMA RowWithHeaderHolds ==
    ASSUME NEW h \in Sentence, NEW r \in Sentence
    PROVE  /\ RowWithHeader(h, r) \in Sentence
           /\ Range(RowWithHeader(h, r).of)
                = Range(SubSeq(h.of, 1, 1)) \cup Range(SubSeq(r.of, 1, 1))
<1>1. /\ h.of \in Seq(Nat \X Nat) \ {<<>>} /\ r.of \in Seq(Nat \X Nat) \ {<<>>}
      /\ h.paired \in Nat \ {0} /\ r.paired \in Nat \ {0}
  BY DEF Sentence
<1>2. ASSUME NEW q \in Seq(Nat \X Nat) \ {<<>>}
      PROVE  SubSeq(q, 1, 1) \in Seq(Nat \X Nat) /\ SubSeq(q, 1, 1) # <<>>
  <2>1. 1 <= Len(q) /\ q \in Seq(Nat \X Nat)
    OBVIOUS
  <2>2. SubSeq(q, 1, 1) \in Seq(Nat \X Nat) /\ Len(SubSeq(q, 1, 1)) = 1
    BY <2>1, FirstOf
  <2>3. QED
    BY <2>2
<1>3. PICK u, v : u = SubSeq(h.of, 1, 1) /\ v = SubSeq(r.of, 1, 1)
  OBVIOUS
<1>4. u \in Seq(Nat \X Nat) /\ v \in Seq(Nat \X Nat) /\ u # <<>>
  BY <1>1, <1>2, <1>3
<1>5. Range(u \o v) = Range(u) \cup Range(v)
  BY <1>4, RangeOfJoin
<1>6. h.paired + r.paired \in Nat \ {0} /\ u \o v \in Seq(Nat \X Nat) \ {<<>>}
  <2>1. h.paired + r.paired \in Nat \ {0}
    BY <1>1
  <2>2. QED
    BY <1>4, <2>1, JoinNotEmpty
<1>7. RowWithHeader(h, r) = [of |-> u \o v, piece |-> 0, n |-> h.paired + r.paired,
                             paired |-> h.paired + r.paired]
  BY <1>3 DEF RowWithHeader
<1>8. QED
  BY <1>3, <1>5, <1>6, <1>7 DEF Sentence

\* The representation of a table by its rows says all but what it may leave out.
LEMMA RepresentationHolds ==
    ASSUME NEW b \in Block, RowsOf(b) # <<>>
    PROVE  /\ RowRepresentation(b) \in Paragraph
           /\ SaidP(Own(b)) \ Omitted(b) \subseteq SaidP(RowRepresentation(b))
<1>1. PICK rows, own, h : rows = RowsOf(b) /\ own = Own(b) /\ h = b.text[1]
  OBVIOUS
<1>2. /\ h \in Sentence /\ rows \in Seq(Sentence) /\ rows # <<>> /\ own \in Seq(Sentence)
      /\ Len(own) <= Len(rows) + 1
      /\ \A k \in 1 .. Len(own) : own[k] = IF k = 1 THEN h ELSE rows[k - 1]
  BY <1>1, RowsOfTable
<1> DEFINE top == Least(RowLimit, Len(rows))
<1>3. top \in 1 .. Len(rows) /\ top <= RowLimit /\ (top = RowLimit \/ top = Len(rows))
      /\ RowLimit \in Nat
  <2>1. RowLimit \in Nat \ {0} /\ Len(rows) \in Nat \ {0}
    BY <1>2, ChunkingAssumption
  <2>2. QED
    BY <2>1 DEF Least
<1>4. /\ FirstRows(b) = SubSeq(rows, 1, top) /\ DOMAIN FirstRows(b) = 1 .. top
      /\ \A k \in 1 .. top : FirstRows(b)[k] = rows[k] /\ rows[k] \in Sentence
  BY <1>1, <1>2, <1>3 DEF FirstRows
<1> HIDE DEF top
<1>5. PICK rep : rep = RowRepresentation(b)
  OBVIOUS
<1>6. rep = [k \in 1 .. top |-> RowWithHeader(h, FirstRows(b)[k])]
  BY <1>1, <1>4, <1>5 DEF RowRepresentation
<1>7. ASSUME NEW k \in 1 .. top
      PROVE  /\ rep[k] \in Sentence
             /\ Range(rep[k].of) = Range(SubSeq(h.of, 1, 1)) \cup Range(SubSeq(rows[k].of, 1, 1))
  <2>1. rep[k] = RowWithHeader(h, rows[k])
    BY <1>4, <1>6
  <2>2. QED
    BY <1>2, <1>4, <2>1, RowWithHeaderHolds
<1>8. rep \in Paragraph /\ DOMAIN rep = 1 .. top
  <2>1. rep \in [1 .. top -> Sentence]
    BY <1>6, <1>7
  <2>2. QED
    BY <1>3, <2>1 DEF Paragraph
<1>9. ASSUME NEW x \in SaidP(own), x \notin Omitted(b) PROVE x \in SaidP(rep)
  <2>1. PICK s \in 1 .. Len(own) : x \in Range(own[s].of)
    BY <1>2 DEF SaidP, Range
  <2>2. x \notin IF s > RowLimit + 1 THEN Range(own[s].of) ELSE Range(Tail(own[s].of))
    BY <1>1, <1>2, <1>9, <2>1 DEF Omitted
  <2>3. ~(s > RowLimit + 1) /\ x \notin Range(Tail(own[s].of))
    BY <2>1, <2>2
  <2>4. own[s].of \in Seq(Nat \X Nat)
    <3>1. own[s] \in Sentence
      BY <1>2, <2>1
    <3>2. QED
      BY <3>1 DEF Sentence
  <2>5. x \in Range(SubSeq(own[s].of, 1, 1))
    BY <2>1, <2>3, <2>4, FirstOrTail
  <2>6. \E k \in 1 .. top : x \in Range(rep[k].of)
    <3>1. CASE s = 1
      <4>1. 1 \in 1 .. top /\ own[s] = h
        BY <1>2, <1>3, <2>1, <3>1
      <4>2. QED
        BY <1>7, <2>5, <4>1
    <3>2. CASE s # 1
      <4>1. s - 1 \in 1 .. top /\ own[s] = rows[s - 1]
        BY <1>2, <1>3, <2>1, <2>3, <3>2
      <4>2. QED
        BY <1>7, <2>5, <4>1
    <3>3. QED
      BY <3>1, <3>2
  <2>7. QED
    BY <1>8, <2>6 DEF SaidP, Range
<1>10. QED
  BY <1>1, <1>5, <1>8, <1>9

\* A table becomes drafts that fit, or have one row, and leave out no more than they may.
LEMMA TableHolds ==
    ASSUME NEW path, NEW b \in BlocksAt(path), b.type = "table"
    PROVE  /\ ChunksFromTable(b) \in Seq(FitAt(path))
           /\ ~(TableMode = "conditional" /\ ~b.good) => Essential(b) \subseteq
                Covered(ChunksFromTable(b))
<1> DEFINE header == b.text[1]
           limit == IF TableMax > header.n THEN TableMax - header.n ELSE 0
           rows == RowsOf(b)
           parts == Packed(rows, limit)
           D(p) == Draft("table", <<p>>, <<b>>, FALSE)
<1>1. b \in Block /\ b.text \in Paragraph
  BY BlockText DEF BlocksAt
<1>2. /\ header \in Sentence /\ rows \in Seq(Sentence)
      /\ SaidP(Own(b)) \subseteq Range(header.of) \cup SaidP(rows)
      /\ rows = <<>> => Len(b.text) <= 2
  <2> HIDE DEF parts, limit, D
  <2>1. QED
    BY <1>1, RowsOfTable
<1>3. limit \in Nat
  <2>1. header.n \in Nat /\ TableMax \in Nat
    BY <1>2, Limits DEF Sentence
  <2> HIDE DEF header
  <2>2. QED
    BY <2>1
<1>4. ASSUME NEW p \in Paragraph, CountP(p) <= TableMax \/ Len(p) <= 2
      PROVE  D(p) \in FitAt(path) /\ Said(OwnText(D(p))) = SaidP(p)
  <2>1. "table" \in {"table", "list", "figure_caption"}
    OBVIOUS
  <2>2. UnitHolds("table", p, b, path)
    <3> HIDE DEF D, header, limit, rows, parts
    <3>1. QED
      BY <1>4, <2>1, UnitDraft
  <2>3. /\ D(p) \in DraftRecord /\ D(p).type = "table" /\ D(p).text = <<p>> /\ D(p).path = path
        /\ Said(OwnText(D(p))) = SaidP(p) /\ Count(<<p>>) = CountP(p)
    BY <2>2 DEF UnitHolds
  <2> HIDE DEF D
  <2>4. <<p>>[1] = p
    OBVIOUS
  <2>5. Fits(D(p))
    BY <1>4, <2>3, <2>4 DEF Fits, Common
  <2>6. QED
    BY <2>3, <2>5 DEF FitAt
<1>5. CASE TableMode = "conditional" /\ ~b.good
  <2>1. ChunksFromTable(b) = <<>>
    BY <1>5 DEF ChunksFromTable
  <2>2. <<>> \in Seq(FitAt(path))
    OBVIOUS
  <2>3. QED
    BY <1>5, <2>1, <2>2
<1>9. CASE ~(TableMode = "conditional" /\ ~b.good) /\ ByRows(b)
  <2>1. ChunksFromTable(b) = <<D(RowRepresentation(b))>>
    BY <1>9 DEF ChunksFromTable, ByRows
  <2>2. /\ RowRepresentation(b) \in Paragraph /\ CountP(RowRepresentation(b)) <= TableMax
        /\ SaidP(Own(b)) \ Omitted(b) \subseteq SaidP(RowRepresentation(b))
    BY <1>1, <1>9, RepresentationHolds DEF ByRows
  <2> HIDE DEF D
  <2>3. D(RowRepresentation(b)) \in FitAt(path)
        /\ Said(OwnText(D(RowRepresentation(b)))) = SaidP(RowRepresentation(b))
    BY <1>4, <2>2
  <2>4. Essential(b) \subseteq SaidP(Own(b)) \ Omitted(b)
    BY <1>9 DEF Essential, Omissible, Omitted
  <2>5. QED
    BY <2>1, <2>2, <2>3, <2>4, CoveredOne
<1>6. CASE /\ ~(TableMode = "conditional" /\ ~b.good) /\ ~ByRows(b)
           /\ (CountP(b.text) <= TableMax \/ parts = <<>>)
  <2>1. ChunksFromTable(b) = <<D(b.text)>>
    BY <1>6 DEF ChunksFromTable
  <2>2. CountP(b.text) <= TableMax \/ Len(b.text) <= 2
    <3>1. parts = <<>> => rows = <<>>
      <4> HIDE DEF rows, limit
      <4>1. QED
        BY <1>2, <1>3, PackedHolds
    <3>2. QED
      BY <1>2, <1>6, <3>1
  <2> HIDE DEF D
  <2>3. D(b.text) \in FitAt(path) /\ Said(OwnText(D(b.text))) = SaidP(b.text)
    BY <1>1, <1>4, <2>2
  <2>4. QED
    BY <1>1, <2>1, <2>3, CoveredOne, OwnSaid DEF Essential
<1>7. CASE ~(TableMode = "conditional" /\ ~b.good) /\ ~(CountP(b.text) <= TableMax \/ parts = <<>>)
  <2> DEFINE ds == [k \in DOMAIN parts |-> D(PartOfTable(header, parts[k]))]
  <2>1. ChunksFromTable(b) = ds
    BY <1>7 DEF ChunksFromTable, PartOfTable
  <2>0. limit = IF TableMax > header.n THEN TableMax - header.n ELSE 0
    OBVIOUS
  <2> HIDE DEF D, rows, limit, header
  <2>2. parts \in Seq(Part(limit)) /\ SaidP(rows) \subseteq Said(parts) /\ parts # <<>>
    BY <1>2, <1>3, <1>7, PackedHolds
  <2> HIDE DEF parts
  <2>3. ASSUME NEW k \in DOMAIN parts
        PROVE  ds[k] \in FitAt(path) /\ Said(OwnText(ds[k])) = Range(header.of) \cup SaidP(parts[k])
    <3>1. parts[k] \in Part(limit)
      BY <2>2
    <3>2. /\ PartOfTable(header, parts[k]) \in Paragraph
          /\ \/ CountP(PartOfTable(header, parts[k])) <= TableMax
             \/ Len(PartOfTable(header, parts[k])) <= 2
          /\ SaidP(PartOfTable(header, parts[k])) = Range(header.of) \cup SaidP(parts[k])
      BY <1>2, <2>0, <3>1, PartOfTableFits
    <3>3. QED
      BY <1>4, <3>2
  <2>4. ds = [k \in DOMAIN parts |-> ds[k]] /\ DOMAIN ds = DOMAIN parts
    OBVIOUS
  <2> HIDE DEF ds
  <2>5. ds \in Seq(FitAt(path))
    BY <2>2, <2>3, <2>4, SeqOfSame
  <2>6. Said(parts) \subseteq Covered(ds)
    <3>1. \A k \in DOMAIN parts : SaidP(parts[k]) \subseteq Said(OwnText(ds[k]))
      BY <2>3
    <3>2. QED
      BY <2>2, <2>4, <2>5, <3>1, PartsCovered
  <2>7. Range(header.of) \subseteq Covered(ds)
    <3>1. 1 \in DOMAIN parts
      BY <2>2
    <3>2. ds[1] \in Range(ds)
      BY <2>4, <3>1 DEF Range
    <3>3. Range(header.of) \subseteq Said(OwnText(ds[1]))
      BY <2>3, <3>1
    <3>4. QED
      BY <3>2, <3>3 DEF Covered
  <2>8. QED
    BY <1>2, <2>1, <2>2, <2>5, <2>6, <2>7 DEF Essential
<1>8. QED
  BY <1>5, <1>6, <1>7, <1>9

\* A sequence of elements of a set is one of every larger set.
LEMMA SeqWithin ==
    ASSUME NEW S, NEW T, S \subseteq T, NEW q \in Seq(S)
    PROVE  q \in Seq(T)
  OBVIOUS

\* A block that stands alone becomes drafts within their limits that say all of it.
LEMMA StandaloneHolds ==
    ASSUME NEW path, NEW b \in BlocksAt(path)
    PROVE  /\ Standalone(b) \in Seq(FitAt(path))
           /\ ~(b.type = "table" /\ TableMode = "conditional" /\ ~b.good)
                 => Essential(b) \subseteq Covered(Standalone(b))
<1>1. b \in Block /\ b.text \in Paragraph /\ Essential(b) \subseteq SaidP(b.text)
  BY BlockText, OwnSaid DEF BlocksAt, Essential
<1>2. CASE b.type = "table"
  <2>1. Standalone(b) = ChunksFromTable(b)
    BY <1>2 DEF Standalone
  <2>2. QED
    BY <1>2, <2>1, TableHolds
<1>3. CASE b.type = "list"
  <2>1. Standalone(b) = ChunksFromList(b)
    BY <1>3 DEF Standalone
  <2>2. QED
    BY <1>1, <2>1, ListHolds
<1>4. CASE b.type = "figure_caption"
  <2> DEFINE d == Draft("figure_caption", <<b.text>>, <<b>>, FALSE)
  <2>1. Standalone(b) = <<d>>
    BY <1>4 DEF Standalone
  <2>2. "figure_caption" \in {"table", "list", "figure_caption"}
    OBVIOUS
  <2>3. d \in DraftRecord /\ d.type = "figure_caption" /\ d.path = path /\
          Said(OwnText(d)) = SaidP(b.text)
    <3>1. UnitHolds("figure_caption", b.text, b, path)
      BY <1>1, <2>2, UnitDraft
    <3>2. QED
      BY <3>1 DEF UnitHolds
  <2> HIDE DEF d
  <2>4. d \in FitAt(path)
    BY <2>3 DEF FitAt, Fits, Common
  <2>5. QED
    BY <1>1, <2>1, <2>3, <2>4, CoveredOne
<1>5. CASE b.type \notin {"table", "list", "figure_caption"}
  <2>1. Standalone(b) = ChunksFromTextGroup(<<b>>)
    BY <1>5 DEF Standalone
  <2>2. <<b>> \in Seq(BlocksAt(path)) /\ <<b>> # <<>>
    OBVIOUS
  <2>3. /\ ChunksFromTextGroup(<<b>>) \in Seq(ProseAt(path))
        /\ SaidB(<<b>>) \subseteq Covered(ChunksFromTextGroup(<<b>>))
    BY <2>2, TextGroupHolds
  <2>4. SaidB(<<b>>) = SaidP(b.text)
    BY SaidBOne
  <2>5. ChunksFromTextGroup(<<b>>) \in Seq(FitAt(path))
    <3>1. ProseAt(path) \subseteq FitAt(path)
      BY ProseFits
    <3>2. QED
      BY <2>3, <3>1, SeqWithin
  <2>6. QED
    BY <1>1, <2>1, <2>3, <2>4, <2>5
<1>6. QED
  BY <1>2, <1>3, <1>4, <1>5

-----------------------------------------------------------------------------
(* The drafts of a document *)

\* The drafting: prose that is pending is of one section, and the drafts are within limits.
DraftAcc == {a \in [pending : Seq(Block), drafts : Seq(FitDraft)] :
                \A k \in DOMAIN a.pending : a.pending[k].path = a.pending[1].path}
DraftStart == [pending |-> <<>>, drafts |-> <<>>]
DraftRun(q) == FoldLeft(DraftOne, DraftStart, q)
DraftStep == [x \in DraftAcc \X Block |-> DraftOne(x[1], x[2])]

\* What the drafts of a section say of their own, and what its pending blocks say.
Told(ds, path) == UNION {Said(OwnText(d)) : d \in {e \in Range(ds) : e.path = path}}
SaidAt(q, path) == UNION {SaidP(b.text) : b \in {c \in Range(q) : c.path = path}}
ReachAt(a, path) == Told(a.drafts, path) \cup SaidAt(a.pending, path)

\* What drafts that are joined say of a section.
LEMMA ToldJoin ==
    ASSUME NEW S, NEW ds \in Seq(S), NEW es \in Seq(S), NEW path
    PROVE  Told(ds \o es, path) = Told(ds, path) \cup Told(es, path)
<1>1. Range(ds \o es) = Range(ds) \cup Range(es)
  BY RangeOfJoin
<1>2. QED
  BY <1>1 DEF Told

\* The drafts of one section say of it all that they say.
LEMMA ToldHere ==
    ASSUME NEW path, NEW es \in Seq(FitAt(path))
    PROVE  Told(es, path) = Covered(es)
<1>1. Range(es) \subseteq FitAt(path)
  BY DEF Range
<1>2. {e \in Range(es) : e.path = path} = Range(es)
  BY <1>1 DEF FitAt
<1>3. QED
  BY <1>2 DEF Told, Covered

\* The drafts of one section are drafts.
LEMMA FitsHere ==
    ASSUME NEW path, NEW es \in Seq(FitAt(path))
    PROVE  es \in Seq(FitDraft)
<1>1. FitAt(path) \subseteq FitDraft
  BY DEF FitAt, FitDraft
<1>2. QED
  BY <1>1, SeqWithin

\* Flushing leaves out nothing of what was drafted or pending, in any section.
FlushKeeps(a, ds) == \A path : ReachAt(a, path) \subseteq Told(ds, path)

\* Flushing the prose that is pending leaves out nothing of it.
LEMMA FlushHolds ==
    ASSUME NEW acc \in DraftAcc
    PROVE  Flush(acc) \in Seq(FitDraft) /\ FlushKeeps(acc, Flush(acc))
<1>1. /\ acc.pending \in Seq(Block) /\ acc.drafts \in Seq(FitDraft)
      /\ \A k \in DOMAIN acc.pending : acc.pending[k].path = acc.pending[1].path
  BY DEF DraftAcc
<1>2. CASE acc.pending = <<>>
  <2>1. Flush(acc) = acc.drafts
    BY <1>2 DEF Flush
  <2>2. Range(acc.pending) = {}
    BY <1>2, RangeOfOne
  <2>3. \A path : SaidAt(acc.pending, path) = {}
    BY <2>2 DEF SaidAt
  <2>4. QED
    BY <1>1, <2>1, <2>3 DEF ReachAt, FlushKeeps
<1>3. CASE acc.pending # <<>>
  <2> DEFINE here == acc.pending[1].path
             new == ChunksFromTextGroup(acc.pending)
  <2>1. Flush(acc) = acc.drafts \o new
    BY <1>3 DEF Flush
  <2>2. acc.pending \in Seq(BlocksAt(here))
    <3> HIDE DEF here
    <3>1. \A k \in DOMAIN acc.pending : acc.pending[k] \in BlocksAt(here)
      BY <1>1 DEF BlocksAt, here
    <3>2. acc.pending = [k \in DOMAIN acc.pending |-> acc.pending[k]]
      BY <1>1
    <3>3. QED
      BY <1>1, <3>1, <3>2, SeqOfSame
  <2> HIDE DEF here
  <2>3. new \in Seq(ProseAt(here)) /\ SaidB(acc.pending) \subseteq Covered(new)
    BY <1>3, <2>2, TextGroupHolds
  <2> HIDE DEF new
  <2>4. new \in Seq(FitAt(here))
    <3>1. ProseAt(here) \subseteq FitAt(here)
      BY ProseFits
    <3>2. QED
      BY <2>3, <3>1, SeqWithin
  <2>5. Told(new, here) = Covered(new) /\ new \in Seq(FitDraft)
    BY <2>4, ToldHere, FitsHere
  <2>6. ASSUME NEW path PROVE SaidAt(acc.pending, path) \subseteq Told(new, path)
    <3>1. CASE path = here
      <4>1. SaidAt(acc.pending, path) \subseteq SaidB(acc.pending)
        BY DEF SaidAt, SaidB
      <4>2. QED
        BY <2>3, <2>5, <3>1, <4>1
    <3>2. CASE path # here
      <4>1. {c \in Range(acc.pending) : c.path = path} = {}
        BY <1>1, <3>2 DEF Range, here
      <4>2. QED
        BY <4>1 DEF SaidAt
    <3>3. QED
      BY <3>1, <3>2
  <2>7. \A path : Told(Flush(acc), path) = Told(acc.drafts, path) \cup Told(new, path)
    BY <1>1, <2>1, <2>5, ToldJoin
  <2>8. Flush(acc) \in Seq(FitDraft)
    BY <1>1, <2>1, <2>5
  <2>9. QED
    BY <2>6, <2>7, <2>8 DEF ReachAt, FlushKeeps
<1>4. QED
  BY <1>2, <1>3

\* A step of the drafting keeps what is reached, and reaches what it keeps of the block.
Extends(a, c, b) ==
    /\ \A path : ReachAt(a, path) \subseteq ReachAt(c, path)
    /\ Kept(b) => Essential(b) \subseteq ReachAt(c, b.path)

\* After a flush, what is pending starts again, with the block or without.
LEMMA Flushed ==
    ASSUME NEW acc \in DraftAcc, NEW b \in Block
    PROVE  LET new == [pending |-> <<b>>, drafts |-> Flush(acc)] IN
           /\ new \in DraftAcc /\ Extends(acc, new, b)
           /\ [pending |-> <<>>, drafts |-> Flush(acc)] \in DraftAcc
<1> DEFINE new == [pending |-> <<b>>, drafts |-> Flush(acc)]
<1>1. Flush(acc) \in Seq(FitDraft) /\ FlushKeeps(acc, Flush(acc))
  BY FlushHolds
<1>2. <<b>> \in Seq(Block) /\ <<>> \in Seq(Block) /\
        \A k \in DOMAIN <<b>> : <<b>>[k].path = <<b>>[1].path
  OBVIOUS
<1>3. new \in DraftAcc /\ [pending |-> <<>>, drafts |-> Flush(acc)] \in DraftAcc
  BY <1>1, <1>2 DEF DraftAcc
<1>4. \A path : ReachAt(acc, path) \subseteq ReachAt(new, path)
  BY <1>1 DEF FlushKeeps, ReachAt
<1>5. Essential(b) \subseteq ReachAt(new, b.path)
  <2>1. Range(<<b>>) = {b}
    BY RangeOfOne
  <2>2. SaidP(b.text) \subseteq SaidAt(<<b>>, b.path)
    BY <2>1 DEF SaidAt
  <2>3. QED
    BY <2>2, OwnSaid DEF ReachAt, Essential
<1>6. QED
  BY <1>3, <1>4, <1>5 DEF Extends

\* A block more is drafted or is pending, in its own section.
LEMMA DraftOneHolds ==
    ASSUME NEW acc \in DraftAcc, NEW b \in Block
    PROVE  DraftOne(acc, b) \in DraftAcc /\ Extends(acc, DraftOne(acc, b), b)
<1> DEFINE new == DraftOne(acc, b)
<1>1. /\ acc.pending \in Seq(Block) /\ acc.drafts \in Seq(FitDraft)
      /\ \A k \in DOMAIN acc.pending : acc.pending[k].path = acc.pending[1].path
      /\ acc = [pending |-> acc.pending, drafts |-> acc.drafts]
  BY DEF DraftAcc
<1>2. Flush(acc) \in Seq(FitDraft) /\ FlushKeeps(acc, Flush(acc))
  BY FlushHolds
<1>3. CASE b.type = "heading"
  <2>1. new = [pending |-> <<>>, drafts |-> Flush(acc)]
    BY <1>3 DEF DraftOne
  <2>2. ~Kept(b)
    BY <1>3 DEF Kept
  <2>3. new \in DraftAcc
    BY <2>1, Flushed
  <2>4. \A path : ReachAt(acc, path) \subseteq ReachAt(new, path)
    BY <1>2, <2>1 DEF FlushKeeps, ReachAt
  <2>5. QED
    BY <2>2, <2>3, <2>4 DEF Extends
<1>4. CASE b.type # "heading" /\ Skipped(b)
  <2>1. new = acc /\ ~Kept(b)
    BY <1>4 DEF DraftOne, Kept
  <2>2. QED
    BY <2>1 DEF Extends
<1>5. CASE b.type # "heading" /\ ~Skipped(b) /\ StandsAlone(b)
  <2> DEFINE alone == Standalone(b)
  <2>1. new = [pending |-> <<>>, drafts |-> Flush(acc) \o alone]
    BY <1>5 DEF DraftOne
  <2>2. b \in BlocksAt(b.path)
    BY DEF BlocksAt
  <2>3. /\ alone \in Seq(FitAt(b.path))
        /\ ~(b.type = "table" /\ TableMode = "conditional" /\ ~b.good) => Essential(b) \subseteq
             Covered(alone)
    BY <2>2, StandaloneHolds
  <2> HIDE DEF alone
  <2>4. Told(alone, b.path) = Covered(alone) /\ alone \in Seq(FitDraft)
    BY <2>3, ToldHere, FitsHere
  <2>5. Kept(b) => Essential(b) \subseteq Told(alone, b.path)
    BY <2>3, <2>4 DEF Kept
  <2>6. Flush(acc) \o alone \in Seq(FitDraft)
    BY <1>2, <2>4
  <2>7. \A path : Told(Flush(acc) \o alone, path) = Told(Flush(acc), path) \cup Told(alone, path)
    BY <1>2, <2>4, ToldJoin
  <2>8. new \in DraftAcc
    BY <2>1, <2>6 DEF DraftAcc
  <2>9. \A path : ReachAt(acc, path) \subseteq ReachAt(new, path)
    BY <1>2, <2>1, <2>7 DEF FlushKeeps, ReachAt
  <2>10. QED
    BY <2>1, <2>5, <2>7, <2>8, <2>9 DEF Extends, ReachAt
<1>6. CASE /\ b.type # "heading" /\ ~Skipped(b) /\ ~StandsAlone(b)
           /\ acc.pending # <<>> /\ acc.pending[1].path # b.path
  <2>1. new = [pending |-> <<b>>, drafts |-> Flush(acc)]
    BY <1>6 DEF DraftOne
  <2>2. QED
    BY <2>1, Flushed
<1>7. CASE /\ b.type # "heading" /\ ~Skipped(b) /\ ~StandsAlone(b)
           /\ ~(acc.pending # <<>> /\ acc.pending[1].path # b.path)
  <2> DEFINE more == Append(acc.pending, b)
  <2>1. new = [acc EXCEPT !.pending = more]
    BY <1>7 DEF DraftOne
  <2>2. more \in Seq(Block) /\ Range(more) = Range(acc.pending) \cup {b}
    BY <1>1, RangeOfAppend
  <2>3. \A k \in DOMAIN more : more[k].path = more[1].path
    <3>1. CASE acc.pending = <<>>
      BY <3>1
    <3>2. CASE acc.pending # <<>>
      <4>1. acc.pending[1].path = b.path
        BY <1>7, <3>2
      <4>2. 1 \in DOMAIN acc.pending /\ more[1] = acc.pending[1]
        BY <1>1, <3>2
      <4>3. ASSUME NEW k \in DOMAIN more
            PROVE  more[k] = b \/ (k \in DOMAIN acc.pending /\ more[k] = acc.pending[k])
        <5>1. DOMAIN more = 1 .. Len(acc.pending) + 1 /\ DOMAIN acc.pending = 1 .. Len(acc.pending)
          BY <1>1
        <5>2. CASE k = Len(acc.pending) + 1
          BY <1>1, <5>2
        <5>3. CASE k # Len(acc.pending) + 1
          <6>1. k \in 1 .. Len(acc.pending)
            BY <1>1, <5>1, <5>3
          <6>2. QED
            BY <1>1, <6>1
        <5>4. QED
          BY <5>2, <5>3
      <4> HIDE DEF more
      <4>4. \A k \in DOMAIN more : more[k].path = b.path
        BY <1>1, <4>1, <4>3
      <4>5. more[1].path = b.path
        BY <4>1, <4>2
      <4>6. QED
        BY <4>4, <4>5
    <3>3. QED
      BY <3>1, <3>2
  <2> HIDE DEF more
  <2>4. new = [pending |-> more, drafts |-> acc.drafts]
    BY <1>1, <2>1
  <2>5. new \in DraftAcc
    BY <1>1, <2>2, <2>3, <2>4 DEF DraftAcc
  <2>6. \A path : SaidAt(acc.pending, path) \subseteq SaidAt(more, path)
    BY <2>2 DEF SaidAt
  <2>7. SaidP(b.text) \subseteq SaidAt(more, b.path)
    BY <2>2 DEF SaidAt
  <2>8. Essential(b) \subseteq SaidAt(more, b.path)
    BY <2>7, OwnSaid DEF Essential
  <2>9. QED
    BY <2>4, <2>5, <2>6, <2>8 DEF Extends, ReachAt
<1>8. QED
  BY <1>3, <1>4, <1>5, <1>6, <1>7

\* The drafting starts with nothing.
LEMMA DraftStartType == DraftStart \in DraftAcc
<1>1. <<>> \in Seq(Block) /\ <<>> \in Seq(FitDraft)
  OBVIOUS
<1>2. QED
  BY <1>1 DEF DraftStart, DraftAcc

\* The drafting of a document is a fold over its blocks.
LEMMA DraftsFoldStep ==
    /\ DraftStart \in DraftAcc
    /\ DraftStep \in [DraftAcc \X Block -> DraftAcc]
    /\ \A a \in DraftAcc, e \in Block : DraftStep[<<a, e>>] = DraftOne(a, e)
  BY DraftStartType, DraftOneHolds DEF DraftStep

\* That fold is the run of its step, and keeps its type.
LEMMA DraftsIsRun ==
    ASSUME NEW q \in Seq(Block)
    PROVE  DraftRun(q) = Run(DraftStart, DraftStep, q) /\ Run(DraftStart, DraftStep, q) \in DraftAcc
<1>1. /\ DraftStart \in DraftAcc /\ DraftStep \in [DraftAcc \X Block -> DraftAcc]
      /\ \A a \in DraftAcc, e \in Block : DraftStep[<<a, e>>] = DraftOne(a, e)
  BY DraftsFoldStep
<1>2. PICK f \in [SUBSET DOMAIN q -> DraftAcc] :
        Follows(f, DraftAcc, Block, DraftStart, DraftStep, q)
  BY <1>1, FoldSteps
<1>3. f = [s \in SUBSET DOMAIN q |-> IF s = {} THEN DraftStart
                                 ELSE DraftOne(f[s \ {Max(s)}], q[Max(s)])]
  BY <1>1, <1>2 DEF Follows
<1>4. PICK it : /\ DraftRun(q) = it[DOMAIN q]
                /\ it = [s \in SUBSET DOMAIN q |-> IF s = {} THEN DraftStart
                                 ELSE DraftOne(it[s \ {Max(s)}], q[Max(s)])]
  BY <1>3 DEF DraftRun, FoldLeft, MapThenFoldSet
<1>5. Obeys(it, DraftAcc, Block, DraftStart, DraftStep, q)
  BY <1>1, <1>4 DEF Obeys
<1>6. it[DOMAIN q] = Run(DraftStart, DraftStep, q) /\ Run(DraftStart, DraftStep, q) \in DraftAcc
  BY <1>1, <1>5, FoldIsRun
<1>7. QED
  BY <1>4, <1>6

\* Drafting leaves out no block that is kept.
LEMMA DraftsCover ==
    ASSUME NEW q \in Seq(Block)
    PROVE  \A b \in Range(q) : Kept(b) => Essential(b) \subseteq ReachAt(DraftRun(q), b.path)
<1> DEFINE P(x, a) == \A b \in Range(x) : Kept(b) => Essential(b) \subseteq ReachAt(a, b.path)
           I == {y \in Seq(Block) \X DraftAcc : P(y[1], y[2])}
<1>0. /\ DraftStart \in DraftAcc /\ DraftStep \in [DraftAcc \X Block -> DraftAcc]
      /\ \A a \in DraftAcc, e \in Block : DraftStep[<<a, e>>] = DraftOne(a, e)
  BY DraftsFoldStep
<1>1. P(<<>>, DraftStart)
  BY RangeOfOne
<1>2. ASSUME NEW x \in Seq(Block), NEW a \in DraftAcc, NEW e \in Block, P(x, a)
      PROVE  P(Append(x, e), DraftOne(a, e))
  <2>1. Extends(a, DraftOne(a, e), e)
    BY DraftOneHolds
  <2>2. Range(Append(x, e)) = Range(x) \cup {e}
    BY RangeOfAppend
  <2>3. QED
    BY <1>2, <2>1, <2>2 DEF Extends
<1> HIDE DEF P
<1>3. Keeps(I, DraftAcc, Block, DraftStart, DraftStep)
  <2>1. <<<<>>, DraftStart>> \in I
    <3>1. <<>> \in Seq(Block) /\ DraftStart \in DraftAcc
      BY <1>0
    <3>2. <<<<>>, DraftStart>> \in Seq(Block) \X DraftAcc
      BY <3>1
    <3>3. QED
      BY <1>1, <3>2
  <2>2. ASSUME NEW x \in Seq(Block), NEW a \in DraftAcc, NEW e \in Block, <<x, a>> \in I
        PROVE  <<Append(x, e), DraftStep[<<a, e>>]>> \in I
    <3>1. P(x, a)
      BY <2>2
    <3>2. P(Append(x, e), DraftStep[<<a, e>>])
      BY <1>0, <1>2, <3>1
    <3>3. Append(x, e) \in Seq(Block)
      OBVIOUS
    <3>4. DraftStep[<<a, e>>] \in DraftAcc
      BY <1>0
    <3>5. QED
      BY <3>2, <3>3, <3>4
  <2> HIDE DEF I
  <2>3. QED
    BY <2>1, <2>2 DEF Keeps
<1> HIDE DEF I
<1>4. <<q, Run(DraftStart, DraftStep, q)>> \in I
  BY <1>0, <1>3, FoldKeeps
<1>5. P(q, Run(DraftStart, DraftStep, q))
  BY <1>4 DEF I
<1>6. QED
  BY <1>5, DraftsIsRun DEF P

\* Of any blocks: every draft is within its limits, and every block that is kept is told
\* by the drafts of its own section.
LEMMA DraftsHold ==
    ASSUME NEW q \in Seq(Block)
    PROVE  /\ BuildDrafts(q) \in Seq(FitDraft)
           /\ \A b \in Range(q) : Kept(b) => Essential(b) \subseteq Told(BuildDrafts(q), b.path)
<1>1. BuildDrafts(q) = Flush(DraftRun(q))
  BY DEF BuildDrafts, DraftRun, DraftStart
<1>2. DraftRun(q) \in DraftAcc
  BY DraftsIsRun
<1>3. \A b \in Range(q) : Kept(b) => Essential(b) \subseteq ReachAt(DraftRun(q), b.path)
  BY DraftsCover
<1>4. BuildDrafts(q) \in Seq(FitDraft) /\ FlushKeeps(DraftRun(q), BuildDrafts(q))
  BY <1>1, <1>2, FlushHolds
<1>5. QED
  BY <1>3, <1>4 DEF FlushKeeps

-----------------------------------------------------------------------------
(* Open headings and paths *)

\* The entries of the headings that are open at a block, and at the end.
OpenEntries(bs, i) == {Last(bs[j].path) : j \in OpenHeadings(bs, i)}
OpenAt(bs) == OpenEntries(bs, Len(bs))
Ascending(p) == \A j, k \in DOMAIN p : j < k => p[j].level < p[k].level /\ p[j].id < p[k].id
PathIs(b, entries) ==
    /\ Ascending(b.path) /\ Range(b.path) = entries
    /\ b.type = "heading" => b.path # <<>> /\ Last(b.path).id = b.id
WellPathed(bs) == \A i \in DOMAIN bs : PathIs(bs[i], OpenEntries(bs, i))
\* What a block makes of the entries that are open before it.
Continued(entries, b) ==
    IF b.type = "heading"
    THEN {e \in entries : e.level < Last(b.path).level} \cup {Last(b.path)} ELSE entries

\* A block more does not change which headings are open at those before it.
LEMMA OpenBefore ==
    ASSUME NEW bs \in Seq(Block), NEW b \in Block, NEW i \in 1 .. Len(bs)
    PROVE  OpenEntries(Append(bs, b), i) = OpenEntries(bs, i)
<1>1. \A j \in 1 .. i : Append(bs, b)[j] = bs[j]
  OBVIOUS
<1>2. \A j \in 1 .. i : \A k \in j + 1 .. i : k \in 1 .. i
  OBVIOUS
<1>3. OpenHeadings(Append(bs, b), i) = OpenHeadings(bs, i)
  BY <1>1, <1>2 DEF OpenHeadings
<1>4. OpenHeadings(bs, i) \subseteq 1 .. i
  BY DEF OpenHeadings
<1>5. QED
  BY <1>1, <1>3, <1>4 DEF OpenEntries

\* What is open after a block more.
LEMMA OpenAfter ==
    ASSUME NEW bs \in Seq(Block), NEW b \in Block
    PROVE  OpenAt(Append(bs, b)) = Continued(OpenAt(bs), b)
<1> DEFINE n == Len(bs)
           cs == Append(bs, b)
<1>1. n \in Nat /\ Len(cs) = n + 1 /\ cs[n + 1] = b /\ \A j \in 1 .. n : cs[j] = bs[j]
  OBVIOUS
<1> HIDE DEF n, cs
<1>2. ASSUME NEW j \in 1 .. n
      PROVE  j \in OpenHeadings(cs, n + 1) <=>
                j \in OpenHeadings(bs, n) /\
                  (b.type = "heading" => Last(bs[j].path).level < Last(b.path).level)
  <2>1. j \in 1 .. n + 1 /\ cs[j] = bs[j]
    BY <1>1
  <2>2. \A k \in j + 1 .. n : k \in j + 1 .. n + 1 /\ cs[k] = bs[k]
    BY <1>1
  <2>3. n + 1 \in j + 1 .. n + 1 /\ \A k \in j + 1 .. n + 1 : k = n + 1 \/ k \in j + 1 .. n
    BY <1>1
  <2>4. ASSUME j \in OpenHeadings(cs, n + 1)
        PROVE  j \in OpenHeadings(bs, n) /\
                 (b.type = "heading" => Last(bs[j].path).level < Last(b.path).level)
    <3>1. /\ cs[j].type = "heading"
          /\ \A k \in j + 1 .. n + 1 : cs[k].type = "heading" =>
               Last(cs[k].path).level > Last(cs[j].path).level
      BY <2>4 DEF OpenHeadings
    <3>2. b.type = "heading" => Last(b.path).level > Last(bs[j].path).level
      BY <1>1, <2>1, <2>3, <3>1
    <3>3. b.type = "heading" => Last(bs[j].path).level < Last(b.path).level
      BY <3>2
    <3>4. j \in OpenHeadings(bs, n)
      BY <2>1, <2>2, <3>1 DEF OpenHeadings
    <3>5. QED
      BY <3>3, <3>4
  <2>5. ASSUME j \in OpenHeadings(bs, n),
                 b.type = "heading" => Last(bs[j].path).level < Last(b.path).level
        PROVE  j \in OpenHeadings(cs, n + 1)
    <3>1. /\ bs[j].type = "heading"
          /\ \A k \in j + 1 .. n : bs[k].type = "heading" =>
               Last(bs[k].path).level > Last(bs[j].path).level
      BY <2>5 DEF OpenHeadings
    <3>2. b.type = "heading" => Last(b.path).level > Last(bs[j].path).level
      BY <2>5
    <3>3. \A k \in j + 1 .. n + 1 : cs[k].type = "heading" =>
            Last(cs[k].path).level > Last(cs[j].path).level
      BY <1>1, <2>1, <2>2, <2>3, <3>1, <3>2
    <3>4. QED
      BY <2>1, <3>1, <3>3 DEF OpenHeadings
  <2>6. QED
    BY <2>4, <2>5
<1>3. n + 1 \in OpenHeadings(cs, n + 1) <=> b.type = "heading"
  <2>1. n + 1 \in 1 .. n + 1 /\ (n + 1) + 1 .. n + 1 = {}
    BY <1>1
  <2>2. QED
    BY <1>1, <2>1 DEF OpenHeadings
<1>4. OpenHeadings(cs, n + 1) \subseteq 1 .. n + 1 /\ OpenHeadings(bs, n) \subseteq 1 .. n
  BY DEF OpenHeadings
<1>5. \A j \in 1 .. n + 1 : j \in 1 .. n \/ j = n + 1
  BY <1>1
<1>6. OpenAt(cs) = OpenEntries(cs, n + 1) /\ OpenAt(bs) = OpenEntries(bs, n)
  BY <1>1 DEF OpenAt, n
<1>7. CASE b.type = "heading"
  <2>1. Continued(OpenAt(bs), b) = {e \in OpenEntries(bs, n) : e.level < Last(b.path).level} \cup
          {Last(b.path)}
    BY <1>6, <1>7 DEF Continued
  <2>2. ASSUME NEW j \in OpenHeadings(cs, n + 1)
        PROVE  Last(cs[j].path) \in {e \in OpenEntries(bs, n) : e.level < Last(b.path).level} \cup
                 {Last(b.path)}
    BY <1>1, <1>2, <1>4, <1>5, <1>7 DEF OpenEntries
  <2>3. ASSUME NEW j \in OpenHeadings(bs, n), Last(bs[j].path).level < Last(b.path).level
        PROVE  j \in OpenHeadings(cs, n + 1) /\ Last(cs[j].path) = Last(bs[j].path)
    BY <1>1, <1>2, <1>4, <2>3
  <2>4. n + 1 \in OpenHeadings(cs, n + 1) /\ Last(cs[n + 1].path) = Last(b.path)
    BY <1>1, <1>3, <1>7
  <2>5. OpenEntries(cs, n + 1) \subseteq
          {e \in OpenEntries(bs, n) : e.level < Last(b.path).level} \cup {Last(b.path)}
    BY <2>2 DEF OpenEntries
  <2>6. {e \in OpenEntries(bs, n) : e.level < Last(b.path).level} \cup {Last(b.path)} \subseteq
          OpenEntries(cs, n + 1)
    BY <2>3, <2>4 DEF OpenEntries
  <2>7. QED
    BY <1>6, <2>1, <2>5, <2>6 DEF cs
<1>8. CASE b.type # "heading"
  <2>1. OpenHeadings(cs, n + 1) = OpenHeadings(bs, n)
    BY <1>2, <1>3, <1>4, <1>5, <1>8
  <2>2. OpenEntries(cs, n + 1) = OpenEntries(bs, n)
    BY <1>1, <1>4, <2>1 DEF OpenEntries
  <2>3. QED
    BY <1>6, <1>8, <2>2 DEF Continued, cs
<1>9. QED
  BY <1>7, <1>8

\* The paths of a longer sequence are right if those of the shorter one are.
LEMMA PathedGrows ==
    ASSUME NEW bs \in Seq(Block), NEW b \in Block
    PROVE  WellPathed(Append(bs, b)) <=> WellPathed(bs) /\ PathIs(b, Continued(OpenAt(bs), b))
<1> DEFINE n == Len(bs)
           cs == Append(bs, b)
<1>1. /\ n \in Nat /\ DOMAIN cs = 1 .. n + 1 /\ Len(cs) = n + 1 /\ DOMAIN bs = 1 .. n
      /\ cs[n + 1] = b /\ \A j \in 1 .. n : cs[j] = bs[j]
  OBVIOUS
<1>2. \A j \in 1 .. n : OpenEntries(cs, j) = OpenEntries(bs, j)
  BY OpenBefore
<1>3. OpenEntries(cs, n + 1) = Continued(OpenAt(bs), b)
  BY <1>1, OpenAfter DEF OpenAt
<1> HIDE DEF n, cs
<1>4. \A j \in 1 .. n + 1 : j \in 1 .. n \/ j = n + 1
  BY <1>1
<1>5. n + 1 \in 1 .. n + 1 /\ 1 .. n \subseteq 1 .. n + 1
  BY <1>1
<1>6. QED
  BY <1>1, <1>2, <1>3, <1>4, <1>5 DEF WellPathed, cs

\* Without a block there is no path.
LEMMA NoPaths == WellPathed(<<>>) /\ OpenAt(<<>>) = {}
<1>1. OpenHeadings(<<>>, Len(<<>>)) = {}
  BY DEF OpenHeadings
<1>2. QED
  BY <1>1 DEF WellPathed, OpenAt, OpenEntries

-----------------------------------------------------------------------------
(* The sections of a document *)

\* The machine of the sections.
Machine == [base : {"front_matter", "body"} \cup Appendices, current : Kinds, started : BOOLEAN]

\* The machine of the sections keeps to its states, whatever heading it is fed.
LEMMA FeedHolds ==
    ASSUME NEW sm \in Machine, NEW h \in RawBlock
    PROVE  FeedHeading(sm, h) \in Machine
<1>1. /\ sm.base \in {"front_matter", "body"} \cup Appendices /\ sm.current \in Kinds /\
           sm.started \in BOOLEAN
      /\ sm = [base |-> sm.base, current |-> sm.current, started |-> sm.started]
  BY DEF Machine
<1>2. h.announces \in Announced
  BY DEF RawBlock
<1>3. {"front_matter", "body", "bibliography"} \cup Appendices \cup Navigation \subseteq Kinds
  BY DEF Kinds, FrontMatter
<1> DEFINE opens == h.depth > 0 \/ (~sm.started /\ h.announces = "body_start")
           body == IF sm.base \in Appendices THEN sm.base ELSE "body"
           context == IF sm.started THEN sm.base ELSE "front_matter"
<1>4. body \in {"front_matter", "body"} \cup Appendices /\
        context \in {"front_matter", "body"} \cup Appendices
  BY <1>1
<1>5. FeedHeading(sm, h) \in
        {[base |-> h.announces, current |-> h.announces, started |-> TRUE] :
          x \in {y \in {1} : h.announces \in Appendices}}
        \cup {[sm EXCEPT !.current = h.announces] :
          x \in {y \in {1} : h.announces \in Navigation \cup {"bibliography"}}}
        \cup {[base |-> body, current |-> body, started |-> TRUE],
          [base |-> context, current |-> context, started |-> sm.started]}
  BY DEF FeedHeading
<1> HIDE DEF opens, body, context
<1>7. [sm EXCEPT !.current = h.announces]
        = [base |-> sm.base, current |-> h.announces, started |-> sm.started]
  BY <1>1
<1>8. [base |-> context, current |-> context, started |-> sm.started] \in Machine
  BY <1>1, <1>3, <1>4 DEF Machine
<1>9. h.announces \in Navigation \cup {"bibliography"} =>
        [sm EXCEPT !.current = h.announces] \in Machine
  BY <1>1, <1>3, <1>7 DEF Machine
<1>10. [base |-> body, current |-> body, started |-> TRUE] \in Machine
  BY <1>3, <1>4 DEF Machine
<1>11. h.announces \in Appendices =>
         [base |-> h.announces, current |-> h.announces, started |-> TRUE] \in Machine
  BY <1>3 DEF Machine
<1>12. QED
  BY <1>5, <1>8, <1>9, <1>10, <1>11

\* Popping leaves the entries above the level of a heading.
LEMMA PopHolds ==
    ASSUME NEW stack \in Path, Ascending(stack), NEW level \in Nat
    PROVE  /\ Pop(stack, level) \in Path /\ Ascending(Pop(stack, level))
           /\ Range(Pop(stack, level)) = {e \in Range(stack) : e.level < level}
<1> DEFINE kept == {n \in 0 .. Len(stack) : \A i \in n + 1 .. Len(stack) : stack[i].level >= level}
           at == CHOOSE n \in kept : \A m \in kept : n <= m
<1>1. stack \in Seq(Entry) /\ Len(stack) \in Nat /\ DOMAIN stack = 1 .. Len(stack)
  BY DEF Path
<1>2. \A i \in 1 .. Len(stack) : stack[i] \in Entry /\ stack[i].level \in Nat
  <2>1. \A i \in 1 .. Len(stack) : stack[i] \in Entry
    BY <1>1
  <2>2. QED
    BY <2>1 DEF Entry
<1>3. kept \in SUBSET Nat /\ Len(stack) \in kept
  BY <1>1
<1>4. at \in kept /\ \A m \in kept : at <= m
  <2> HIDE DEF kept
  <2>1. \E n \in kept : \A m \in kept : n <= m
    BY <1>3, LeastOf
  <2>2. QED
    BY <2>1
<1>5. Pop(stack, level) = SubSeq(stack, 1, at)
  BY DEF Pop
<1> HIDE DEF at
<1>6. at \in 0 .. Len(stack) /\ at \in Nat /\
        \A i \in at + 1 .. Len(stack) : stack[i].level >= level
  BY <1>1, <1>4
<1>7. at > 0 => stack[at].level < level
  <2>1. SUFFICES ASSUME at > 0, stack[at].level >= level PROVE FALSE
    BY <1>2, <1>6
  <2>2. at - 1 \in 0 .. Len(stack)
    BY <1>1, <1>6, <2>1
  <2>3. ASSUME NEW i \in (at - 1) + 1 .. Len(stack) PROVE stack[i].level >= level
    <3>1. CASE i = at
      BY <2>1, <3>1
    <3>2. CASE i # at
      <4>1. i \in at + 1 .. Len(stack)
        BY <1>1, <1>6, <3>2
      <4>2. QED
        BY <1>6, <4>1
    <3>3. QED
      BY <3>1, <3>2
  <2>4. at - 1 \in kept
    BY <2>2, <2>3
  <2> HIDE DEF kept
  <2>5. QED
    BY <1>4, <1>6, <2>4
<1> HIDE DEF kept
<1>8. \A i \in 1 .. at : stack[i].level < level
  <2> TAKE i \in 1 .. at
  <2>1. at > 0 /\ at \in DOMAIN stack /\ i \in DOMAIN stack /\ i \in Nat
    BY <1>1, <1>6
  <2>2. CASE i = at
    BY <1>7, <2>1, <2>2
  <2>3. CASE i # at
    <3>1. i < at
      BY <1>6, <2>3
    <3>2. stack[i].level < stack[at].level
      BY <2>1, <3>1 DEF Ascending
    <3>3. stack[i].level \in Nat /\ stack[at].level \in Nat
      BY <1>1, <1>2, <2>1
    <3>4. QED
      BY <1>7, <2>1, <3>2, <3>3
  <2>4. QED
    BY <2>2, <2>3
<1> DEFINE new == SubSeq(stack, 1, at)
<1>9. new \in Seq(Entry) /\ Len(new) = at /\ \A k \in 1 .. at : new[k] = stack[k]
  BY <1>1, <1>6, FirstOf
<1>10. DOMAIN new = 1 .. at /\ 1 .. at \subseteq DOMAIN stack
  BY <1>1, <1>6, <1>9
<1> HIDE DEF new
<1>11. Ascending(new)
  BY <1>9, <1>10 DEF Ascending
<1>12. Range(new) \subseteq {e \in Range(stack) : e.level < level}
  BY <1>8, <1>9, <1>10 DEF Range
<1>13. ASSUME NEW e \in Range(stack), e.level < level PROVE e \in Range(new)
  <2>1. PICK i \in 1 .. Len(stack) : e = stack[i]
    BY <1>1 DEF Range
  <2>2. ~(i \in at + 1 .. Len(stack))
    BY <1>2, <1>6, <1>13, <2>1
  <2>3. i \in 1 .. at
    BY <1>1, <1>6, <2>1, <2>2
  <2>4. QED
    BY <1>9, <1>10, <2>1, <2>3 DEF Range
<1>14. QED
  BY <1>5, <1>9, <1>11, <1>12, <1>13 DEF Path, new

\* A heading closes an ascending stack of entries below its own.
LEMMA PushHolds ==
    ASSUME NEW stack \in Path, Ascending(stack), NEW level \in Nat, NEW id \in Nat,
           \A e \in Range(stack) : e.level < level /\ e.id < id
    PROVE  LET new == Append(stack, [level |-> level, id |-> id]) IN
           /\ new \in Path /\ Ascending(new) /\ new # <<>>
           /\ Last(new) = [level |-> level, id |-> id]
           /\ Range(new) = Range(stack) \cup {[level |-> level, id |-> id]}
<1> DEFINE entry == [level |-> level, id |-> id]
           new == Append(stack, entry)
<1>1. stack \in Seq(Entry) /\ Len(stack) \in Nat /\ DOMAIN stack = 1 .. Len(stack) /\
        entry \in Entry
  BY DEF Path, Entry
<1>e. entry.level = level /\ entry.id = id
  OBVIOUS
<1> HIDE DEF entry
<1>2. /\ new \in Seq(Entry) /\ DOMAIN new = 1 .. Len(stack) + 1 /\ Len(new) = Len(stack) + 1
      /\ new[Len(stack) + 1] = entry /\ \A k \in 1 .. Len(stack) : new[k] = stack[k]
  BY <1>1
<1>3. Range(new) = Range(stack) \cup {entry}
  BY <1>1, RangeOfAppend
<1>4. \A k \in 1 .. Len(stack) : stack[k].level < level /\ stack[k].id < id
  BY <1>1 DEF Range
<1> HIDE DEF new
<1>5. ASSUME NEW j \in DOMAIN new, NEW k \in DOMAIN new, j < k
      PROVE  new[j].level < new[k].level /\ new[j].id < new[k].id
  <2>1. j \in 1 .. Len(stack) /\ j \in Nat /\ k \in Nat
    BY <1>1, <1>2, <1>5
  <2>2. CASE k = Len(stack) + 1
    BY <1>e, <1>2, <1>4, <2>1, <2>2
  <2>3. CASE k # Len(stack) + 1
    <3>1. k \in 1 .. Len(stack)
      BY <1>1, <1>2, <2>1, <2>3
    <3>2. QED
      BY <1>1, <1>2, <1>5, <2>1, <3>1 DEF Ascending
  <2>4. QED
    BY <2>2, <2>3
<1>6. Ascending(new)
  BY <1>5 DEF Ascending
<1>7. Last(new) = entry /\ new # <<>>
  BY <1>1, <1>2 DEF Last
<1>8. QED
  BY <1>2, <1>3, <1>6, <1>7 DEF Path, new, entry

\* The block that is made of a raw one.
LEMMA MkBlockHolds ==
    ASSUME NEW id \in Nat, NEW b \in RawBlock, NEW type \in BlockTypes \cup {"reference"},
           NEW path \in Path, NEW kind \in Kinds
    PROVE  /\ MkBlock(id, b, type, path, kind) \in Block
           /\ MkBlock(id, b, type, path, kind).id = id
           /\ MkBlock(id, b, type, path, kind).type = type
           /\ MkBlock(id, b, type, path, kind).path = path
<1> DEFINE text == [s \in DOMAIN b.sentences |-> Line(id, b, s)]
<1>1. /\ b.page \in Nat /\ b.open \in BOOLEAN /\ b.cont \in BOOLEAN /\ b.chunkable \in BOOLEAN
      /\ b.good \in BOOLEAN /\ b.note \in BOOLEAN /\ b.chart \in BOOLEAN
      /\ b.sentences \in Seq(Nat \ {0}) /\ Len(b.sentences) > IF b.note THEN 1 ELSE 0
      /\ \A s \in b.stray \cap DOMAIN b.sentences : b.sentences[s] > 1
  BY DEF RawBlock
<1>2. text \in Paragraph \ {<<>>}
  <2>1. Len(b.sentences) \in Nat /\ DOMAIN b.sentences = 1 .. Len(b.sentences) /\
          Len(b.sentences) > 0
    BY <1>1
  <2>2. ASSUME NEW s \in 1 .. Len(b.sentences)
        PROVE  Line(id, b, s) \in Sentence
    <3>1. b.sentences[s] \in Nat \ {0} /\ s \in Nat /\ Len(b.sentences) + s \in Nat
      BY <1>1, <2>1
    <3>2. <<id, s>> \in Nat \X Nat /\ <<id, Len(b.sentences) + s>> \in Nat \X Nat
      BY <3>1
    <3>3. /\ <<<<id, s>>>> \in Seq(Nat \X Nat) \ {<<>>}
          /\ <<<<id, s>>, <<id, Len(b.sentences) + s>>>> \in Seq(Nat \X Nat) \ {<<>>}
      BY <3>2
    <3>4. CASE s \in b.stray
      <4>1. b.sentences[s] - 1 \in Nat \ {0}
        BY <1>1, <2>1, <3>1, <3>4
      <4>2. QED
        BY <3>1, <3>3, <3>4, <4>1 DEF Sentence, Line
    <3>5. CASE s \notin b.stray
      BY <3>1, <3>3, <3>5 DEF Sentence, Line
    <3>6. QED
      BY <3>4, <3>5
  <2>3. text \in [1 .. Len(b.sentences) -> Sentence]
    BY <2>1, <2>2
  <2>4. text \in Seq(Sentence)
    BY <2>1, <2>3
  <2>5. text # <<>>
    <3>1. 1 \in DOMAIN text
      BY <2>1
    <3> HIDE DEF text
    <3>2. QED
      BY <3>1
  <2>6. QED
    BY <2>4, <2>5 DEF Paragraph
<1>3. MkBlock(id, b, type, path, kind) =
        [id |-> id, type |-> type, path |-> path, kind |-> kind, page |-> b.page, text |-> text,
         open |-> b.open, cont |-> b.cont, chunkable |-> b.chunkable, good |-> b.good,
           note |-> b.note,
         chart |-> b.chart]
  BY DEF MkBlock
<1> HIDE DEF text
<1>4. MkBlock(id, b, type, path, kind) \in Block
  BY <1>1, <1>2, <1>3 DEF Block
<1>5. QED
  BY <1>3, <1>4

\* The sections so far: the headings on the stack are those that are open.
AssignAcc == {a \in [sm : Machine, stack : Path, blocks : Seq(Block)] :
                 /\ Ascending(a.stack) /\ Range(a.stack) = OpenAt(a.blocks)
                 /\ \A e \in Range(a.stack) : e.id <= Len(a.blocks)
                 /\ WellPathed(a.blocks)}

\* The assignment, as a fold.
AssignStart == [sm |-> Sections, stack |-> <<>>, blocks |-> <<>>]
AssignRun(q) == FoldLeft(AssignOne, AssignStart, q)
AssignStep == [x \in AssignAcc \X RawBlock |-> AssignOne(x[1], x[2])]

\* The sections start with none open.
LEMMA AssignStartType == AssignStart \in AssignAcc
<1>1. Sections \in Machine
  BY DEF Sections, Machine, Kinds, FrontMatter
<1>2. <<>> \in Path /\ <<>> \in Seq(Block) /\ Range(<<>>) = {}
  <2>1. <<>> \in Seq(Entry) /\ <<>> \in Seq(Block)
    OBVIOUS
  <2>2. Range(<<>>) = {}
    BY RangeOfOne
  <2>3. QED
    BY <2>1, <2>2 DEF Path
<1>3. Ascending(<<>>)
  BY DEF Ascending
<1>4. QED
  BY <1>1, <1>2, <1>3, NoPaths DEF AssignStart, AssignAcc

\* A heading has a level.
LEMMA LevelType ==
    ASSUME NEW h \in RawBlock
    PROVE  InferHeadingLevel(h) \in Nat
<1>1. h.depth \in Nat /\ h.level \in Nat
  BY DEF RawBlock
<1>2. QED
  BY <1>1 DEF InferHeadingLevel, Least

\* A block more has the path of the headings that are open at it, its own included.
LEMMA AssignOneHolds ==
    ASSUME NEW acc \in AssignAcc, NEW b \in RawBlock
    PROVE  AssignOne(acc, b) \in AssignAcc
<1> DEFINE id == Len(acc.blocks) + 1
           level == InferHeadingLevel(b)
           sm == FeedHeading(acc.sm, b)
           entry == [level |-> level, id |-> id]
           popped == Pop(acc.stack, level)
           stack == Append(popped, entry)
           new == AssignOne(acc, b)
<1>1. /\ acc.sm \in Machine /\ acc.stack \in Path /\ acc.blocks \in Seq(Block)
      /\ Ascending(acc.stack) /\ Range(acc.stack) = OpenAt(acc.blocks)
      /\ \A e \in Range(acc.stack) : e.id <= Len(acc.blocks)
      /\ WellPathed(acc.blocks)
      /\ acc = [sm |-> acc.sm, stack |-> acc.stack, blocks |-> acc.blocks]
  BY DEF AssignAcc
<1>2. id \in Nat /\ level \in Nat /\ Len(acc.blocks) \in Nat
  BY <1>1, LevelType
<1>3. CASE b.type = "heading"
  <2> DEFINE h == MkBlock(id, b, "heading", stack, sm.current)
             more == Append(acc.blocks, h)
  <2>1. new = [sm |-> sm, stack |-> stack, blocks |-> more]
    BY <1>3 DEF AssignOne
  <2>2. sm \in Machine /\ sm.current \in Kinds
    BY <1>1, FeedHolds DEF Machine
  <2> HIDE DEF sm, level
  <2>3. popped \in Path /\ Ascending(popped) /\
          Range(popped) = {e \in Range(acc.stack) : e.level < level}
    BY <1>1, <1>2, PopHolds
  <2> HIDE DEF popped
  <2>4. \A e \in Range(popped) : e.level < level /\ e.id < id
    <3>1. Range(acc.stack) \subseteq Entry
      BY <1>1 DEF Path, Range
    <3>2. QED
      BY <1>1, <1>2, <2>3, <3>1 DEF Entry
  <2> HIDE DEF id
  <2>5. /\ stack \in Path /\ Ascending(stack) /\ stack # <<>> /\ Last(stack) = entry
        /\ Range(stack) = Range(popped) \cup {entry}
    BY <1>2, <2>3, <2>4, PushHolds
  <2>6. entry.level = level /\ entry.id = id
    OBVIOUS
  <2> HIDE DEF stack, entry
  <2>7. "heading" \in BlockTypes \cup {"reference"}
    BY DEF BlockTypes
  <2>8. h \in Block /\ h.id = id /\ h.type = "heading" /\ h.path = stack
    BY <1>2, <2>2, <2>5, <2>7, MkBlockHolds
  <2> HIDE DEF h
  <2>9. Continued(OpenAt(acc.blocks), h) = Range(stack)
    BY <1>1, <2>3, <2>5, <2>6, <2>8 DEF Continued
  <2>10. PathIs(h, Continued(OpenAt(acc.blocks), h))
    BY <2>5, <2>6, <2>8, <2>9 DEF PathIs
  <2>11. more \in Seq(Block) /\ WellPathed(more) /\ OpenAt(more) = Range(stack)
    BY <1>1, <2>8, <2>9, <2>10, PathedGrows, OpenAfter
  <2>12. Len(more) = id
    BY <1>1, <2>8 DEF id
  <2> HIDE DEF more
  <2>13. \A e \in Range(stack) : e.id <= Len(more)
    <3>1. Range(popped) \subseteq Entry
      BY <2>3 DEF Path, Range
    <3>2. QED
      BY <1>2, <2>4, <2>5, <2>6, <2>12, <3>1 DEF Entry
  <2> HIDE DEF new
  <2>14. /\ new \in [sm : Machine, stack : Path, blocks : Seq(Block)]
         /\ new.stack = stack /\ new.blocks = more
    BY <2>1, <2>2, <2>5, <2>11
  <2>15. new \in AssignAcc
    BY <2>5, <2>11, <2>13, <2>14 DEF AssignAcc
  <2>16. QED
    BY <2>15 DEF new
<1>4. CASE b.type # "heading"
  <2> DEFINE type == EffectiveType(b, acc.sm.current)
             c == MkBlock(id, b, type, acc.stack, acc.sm.current)
             more == Append(acc.blocks, c)
  <2>1. new = [acc EXCEPT !.blocks = more]
    BY <1>4 DEF AssignOne
  <2>2. b.type \in BlockTypes
    BY DEF RawBlock
  <2>3. type \in BlockTypes \cup {"reference"} /\ type # "heading" /\ acc.sm.current \in Kinds
    BY <1>1, <1>4, <2>2 DEF EffectiveType, Machine
  <2> HIDE DEF type, id
  <2>4. c \in Block /\ c.type = type /\ c.path = acc.stack
    BY <1>1, <1>2, <2>3, MkBlockHolds
  <2> HIDE DEF c
  <2>5. Continued(OpenAt(acc.blocks), c) = Range(acc.stack)
    BY <1>1, <2>3, <2>4 DEF Continued
  <2>6. PathIs(c, Continued(OpenAt(acc.blocks), c))
    BY <1>1, <2>3, <2>4, <2>5 DEF PathIs
  <2>7. more \in Seq(Block) /\ WellPathed(more) /\ OpenAt(more) = Range(acc.stack)
    BY <1>1, <2>4, <2>5, <2>6, PathedGrows, OpenAfter
  <2>8. Len(more) = Len(acc.blocks) + 1
    BY <1>1, <2>4
  <2> HIDE DEF more
  <2>9. \A e \in Range(acc.stack) : e.id <= Len(more)
    <3>1. Range(acc.stack) \subseteq Entry
      BY <1>1 DEF Path, Range
    <3>2. QED
      BY <1>1, <1>2, <2>8, <3>1 DEF Entry
  <2>10. new = [sm |-> acc.sm, stack |-> acc.stack, blocks |-> more]
    BY <1>1, <2>1
  <2> HIDE DEF new
  <2>11. QED
    BY <1>1, <2>7, <2>9, <2>10 DEF AssignAcc, new
<1>5. QED
  BY <1>3, <1>4

\* The sections are assigned by a fold over the raw blocks.
LEMMA AssignFoldStep ==
    /\ AssignStart \in AssignAcc
    /\ AssignStep \in [AssignAcc \X RawBlock -> AssignAcc]
    /\ \A a \in AssignAcc, e \in RawBlock : AssignStep[<<a, e>>] = AssignOne(a, e)
  BY AssignStartType, AssignOneHolds DEF AssignStep

\* That fold is the run of its step, and keeps its type.
LEMMA AssignIsRun ==
    ASSUME NEW q \in Seq(RawBlock)
    PROVE  AssignRun(q) = Run(AssignStart, AssignStep, q) /\
             Run(AssignStart, AssignStep, q) \in AssignAcc
<1>1. /\ AssignStart \in AssignAcc /\ AssignStep \in [AssignAcc \X RawBlock -> AssignAcc]
      /\ \A a \in AssignAcc, e \in RawBlock : AssignStep[<<a, e>>] = AssignOne(a, e)
  BY AssignFoldStep
<1>2. PICK f \in [SUBSET DOMAIN q -> AssignAcc] :
        Follows(f, AssignAcc, RawBlock, AssignStart, AssignStep, q)
  BY <1>1, FoldSteps
<1>3. f = [s \in SUBSET DOMAIN q |-> IF s = {} THEN AssignStart
                                 ELSE AssignOne(f[s \ {Max(s)}], q[Max(s)])]
  BY <1>1, <1>2 DEF Follows
<1>4. PICK it : /\ AssignRun(q) = it[DOMAIN q]
                /\ it = [s \in SUBSET DOMAIN q |-> IF s = {} THEN AssignStart
                                 ELSE AssignOne(it[s \ {Max(s)}], q[Max(s)])]
  BY <1>3 DEF AssignRun, FoldLeft, MapThenFoldSet
<1>5. Obeys(it, AssignAcc, RawBlock, AssignStart, AssignStep, q)
  BY <1>1, <1>4 DEF Obeys
<1>6. it[DOMAIN q] = Run(AssignStart, AssignStep, q) /\
        Run(AssignStart, AssignStep, q) \in AssignAcc
  BY <1>1, <1>5, FoldIsRun
<1>7. QED
  BY <1>4, <1>6

-----------------------------------------------------------------------------
(* Page breaks, furniture and markdown *)

\* Paths depend only on which blocks are headings and on their entries.
Alike(bs, cs) == \A i \in DOMAIN bs : /\ cs[i].type = bs[i].type /\ cs[i].path = bs[i].path
                                      /\ cs[i].id = bs[i].id

\* Blocks that are alike in types and paths have right paths if one of them has.
LEMMA PathsAlike ==
    ASSUME NEW bs \in Seq(Block), NEW cs \in Seq(Block), Len(cs) = Len(bs), Alike(bs, cs),
             WellPathed(bs)
    PROVE  WellPathed(cs)
<1>1. DOMAIN bs = 1 .. Len(bs) /\ DOMAIN cs = 1 .. Len(bs) /\ Len(bs) \in Nat
  OBVIOUS
<1>2. ASSUME NEW i \in 1 .. Len(bs)
      PROVE  OpenEntries(cs, i) = OpenEntries(bs, i)
  <2>1. \A j \in 1 .. i : cs[j].type = bs[j].type /\ cs[j].path = bs[j].path
    BY <1>1 DEF Alike
  <2>2. \A j \in 1 .. i : \A k \in j + 1 .. i : k \in 1 .. i
    OBVIOUS
  <2>3. OpenHeadings(cs, i) = OpenHeadings(bs, i)
    BY <2>1, <2>2 DEF OpenHeadings
  <2>4. OpenHeadings(bs, i) \subseteq 1 .. i
    BY DEF OpenHeadings
  <2>5. QED
    BY <2>1, <2>3, <2>4 DEF OpenEntries
<1>3. QED
  BY <1>1, <1>2 DEF WellPathed, PathIs, Alike

\* Promoting the front matter of a document changes no path.
LEMMA PromoteHolds ==
    ASSUME NEW bs \in Seq(Block), WellPathed(bs)
    PROVE  PromoteFrontMatterOnly(bs) \in Seq(Block) /\ WellPathed(PromoteFrontMatterOnly(bs))
<1> DEFINE F(b) == IF b.kind \in FrontMatter THEN [b EXCEPT !.kind = "body"] ELSE b
           cs == [i \in DOMAIN bs |-> F(bs[i])]
<1>1. PromoteFrontMatterOnly(bs) \in {bs, cs}
  BY DEF PromoteFrontMatterOnly
<1>2. ASSUME NEW b \in Block
      PROVE  F(b) \in Block /\ F(b).type = b.type /\ F(b).path = b.path /\ F(b).id = b.id
  <2>1. "body" \in Kinds
    BY DEF Kinds
  <2>2. [b EXCEPT !.kind = "body"] \in Block
    BY <2>1 DEF Block
  <2>3. /\ [b EXCEPT !.kind = "body"].type = b.type /\ [b EXCEPT !.kind = "body"].path = b.path
        /\ [b EXCEPT !.kind = "body"].id = b.id
    BY DEF Block
  <2>4. QED
    BY <2>2, <2>3
<1> HIDE DEF F
<1>3. cs = [i \in DOMAIN bs |-> cs[i]] /\ DOMAIN cs = DOMAIN bs
      /\ \A i \in DOMAIN bs : cs[i] = F(bs[i]) /\ bs[i] \in Block
  OBVIOUS
<1> HIDE DEF cs
<1>4. cs \in Seq(Block)
  BY <1>2, <1>3, SeqOfSame
<1>5. Len(cs) = Len(bs)
  BY <1>3, <1>4
<1>6. Alike(bs, cs)
  BY <1>2, <1>3 DEF Alike
<1>7. WellPathed(cs)
  BY <1>4, <1>5, <1>6, PathsAlike
<1>8. QED
  BY <1>1, <1>4, <1>7

\* A paragraph that is joined across a page break keeps its place, its type and its path.
LEMMA MergeBlocksHolds ==
    ASSUME NEW a \in Block, NEW b \in Block
    PROVE  /\ MergeBlocks(a, b) \in Block
           /\ MergeBlocks(a, b).type = a.type /\ MergeBlocks(a, b).path = a.path
           /\ MergeBlocks(a, b).id = a.id
<1> DEFINE joined == [of |-> Last(a.text).of \o Head(b.text).of, piece |-> 0,
                      n |-> Last(a.text).n + Head(b.text).n,
                      paired |-> Last(a.text).paired + Head(b.text).paired]
           text == Append(Front(a.text), joined) \o Tail(b.text)
           new == MergeBlocks(a, b)
<1>1. /\ a.text \in Seq(Sentence) /\ a.text # <<>> /\ b.text \in Seq(Sentence) /\ b.text # <<>>
  BY BlockText DEF Paragraph
<1>2. Last(a.text) \in Sentence /\ Head(b.text) \in Sentence
  BY <1>1 DEF Last
<1>3. joined \in Sentence
  <2>1. PICK s, t : s = Last(a.text) /\ t = Head(b.text)
    OBVIOUS
  <2>2. s \in Sentence /\ t \in Sentence
    BY <1>2, <2>1
  <2>3. s.of \in Seq(Nat \X Nat) \ {<<>>} /\ t.of \in Seq(Nat \X Nat) \ {<<>>} /\ s.n \in Nat \ {0} /\
          t.n \in Nat \ {0} /\ s.paired \in Nat \ {0} /\ t.paired \in Nat \ {0}
    BY <2>2 DEF Sentence
  <2>4. s.of \o t.of \in Seq(Nat \X Nat) \ {<<>>} /\ s.n + t.n \in Nat \ {0} /\
          s.paired + t.paired \in Nat \ {0}
    <3>1. s.of \o t.of \in Seq(Nat \X Nat) \ {<<>>}
      BY <2>3, JoinNotEmpty
    <3>2. s.n + t.n \in Nat \ {0} /\ s.paired + t.paired \in Nat \ {0}
      <4>1. PICK i, j, k, l : i = s.n /\ j = t.n /\ k = s.paired /\ l = t.paired
        OBVIOUS
      <4>2. i \in Nat \ {0} /\ j \in Nat \ {0} /\ k \in Nat \ {0} /\ l \in Nat \ {0}
        BY <2>3, <4>1
      <4>3. i + j \in Nat \ {0} /\ k + l \in Nat \ {0}
        BY <4>2
      <4>4. QED
        BY <4>1, <4>3
    <3>3. QED
      BY <3>1, <3>2
  <2>5. QED
    BY <2>1, <2>4 DEF Sentence
<1> HIDE DEF joined
<1>4. Front(a.text) \in Seq(Sentence) /\ Tail(b.text) \in Seq(Sentence)
  <2>1. Len(a.text) - 1 \in Nat /\ Len(a.text) - 1 <= Len(a.text)
    BY <1>1
  <2>2. Front(a.text) \in Seq(Sentence)
    BY <1>1, <2>1, FirstOf DEF Front
  <2>3. QED
    BY <1>1, <2>2
<1>5. text \in Paragraph \ {<<>>}
  <2>1. Append(Front(a.text), joined) \in Seq(Sentence) /\ Len(Append(Front(a.text), joined)) >= 1
    BY <1>3, <1>4
  <2>2. text \in Seq(Sentence) /\ Len(text) >= 1
    <3>1. PICK u, v : u = Append(Front(a.text), joined) /\ v = Tail(b.text)
      OBVIOUS
    <3>2. u \in Seq(Sentence) /\ v \in Seq(Sentence) /\ Len(u) >= 1
      BY <1>4, <2>1, <3>1
    <3>3. u \o v \in Seq(Sentence) /\ Len(u \o v) >= 1
      BY <3>2
    <3>4. QED
      BY <3>1, <3>3
  <2>3. QED
    BY <2>2 DEF Paragraph
<1>6. new = [a EXCEPT !.text = text, !.open = b.open]
  BY DEF MergeBlocks, joined
<1> HIDE DEF text, new
<1>7. a =
        [id |-> a.id, type |-> a.type, path |-> a.path, kind |-> a.kind, page |-> a.page,
          text |-> a.text,
           open |-> a.open, cont |-> a.cont, chunkable |-> a.chunkable, good |-> a.good,
             note |-> a.note,
           chart |-> a.chart]
  BY DEF Block
<1>8. new =
        [id |-> a.id, type |-> a.type, path |-> a.path, kind |-> a.kind, page |-> a.page,
          text |-> text,
             open |-> b.open, cont |-> a.cont, chunkable |-> a.chunkable, good |-> a.good,
               note |-> a.note,
             chart |-> a.chart]
  BY <1>6, <1>7
<1>9. /\ a.id \in Nat /\ a.type \in BlockTypes \cup {"reference"} /\ a.path \in Path /\
           a.kind \in Kinds
      /\ a.page \in Nat /\ b.open \in BOOLEAN /\ a.cont \in BOOLEAN /\ a.chunkable \in BOOLEAN
      /\ a.good \in BOOLEAN /\ a.note \in BOOLEAN /\ a.chart \in BOOLEAN
  BY DEF Block
<1>10. new \in Block
  BY <1>5, <1>8, <1>9 DEF Block
<1>11. new.type = a.type /\ new.path = a.path /\ new.id = a.id
  BY <1>8
<1>12. QED
  BY <1>10, <1>11 DEF new

\* A block that goes on after a page break is joined to a paragraph with its path.
LEMMA ReconstructOneCases ==
    ASSUME NEW out \in Seq(Block), NEW b \in Block
    PROVE  \/ ReconstructOne(out, b) = Append(out, b)
           \/ \E front \in Seq(Block), last \in Block, joined \in Block :
                /\ out = Append(front, last) /\ ReconstructOne(out, b) = Append(front, joined)
                /\ last.type = "paragraph" /\ b.type = "paragraph"
                /\ joined.type = last.type /\ joined.path = last.path /\ joined.id = last.id
<1>1. CASE out # <<>> /\ CanMerge(Last(out), b)
  <2> DEFINE front == Front(out)
             last == Last(out)
             joined == MergeBlocks(last, b)
  <2>1. front \in Seq(Block) /\ last \in Block /\ out = Append(front, last)
    BY <1>1 DEF Front, Last
  <2>2. ReconstructOne(out, b) = Append(front, joined)
    BY <1>1 DEF ReconstructOne
  <2>3. last.type = "paragraph" /\ b.type = "paragraph"
    BY <1>1 DEF CanMerge
  <2> HIDE DEF front, last
  <2>4. joined \in Block /\ joined.type = last.type /\ joined.path = last.path /\
          joined.id = last.id
    BY <2>1, MergeBlocksHolds
  <2> HIDE DEF joined
  <2>5. QED
    BY <2>1, <2>2, <2>3, <2>4
<1>2. CASE ~(out # <<>> /\ CanMerge(Last(out), b))
  BY <1>2 DEF ReconstructOne
<1>3. QED
  BY <1>1, <1>2

\* Joining gives blocks.
LEMMA ReconstructOneType ==
    ASSUME NEW out \in Seq(Block), NEW b \in Block
    PROVE  ReconstructOne(out, b) \in Seq(Block)
  BY ReconstructOneCases

\* A block more, joined or not, leaves the paths right and the same headings open.
LEMMA ReconstructOnePaths ==
    ASSUME NEW x \in Seq(Block), NEW out \in Seq(Block), NEW b \in Block,
           WellPathed(x) => WellPathed(out) /\ OpenAt(out) = OpenAt(x),
           WellPathed(Append(x, b))
    PROVE  WellPathed(ReconstructOne(out, b)) /\
             OpenAt(ReconstructOne(out, b)) = OpenAt(Append(x, b))
<1>1. WellPathed(x) /\ PathIs(b, Continued(OpenAt(x), b))
  BY PathedGrows
<1>2. WellPathed(out) /\ OpenAt(out) = OpenAt(x)
  BY <1>1
<1>3. OpenAt(Append(x, b)) = Continued(OpenAt(x), b)
  BY OpenAfter
<1>4. CASE ReconstructOne(out, b) = Append(out, b)
  <2>1. WellPathed(Append(out, b))
    BY <1>1, <1>2, PathedGrows
  <2>2. OpenAt(Append(out, b)) = Continued(OpenAt(out), b)
    BY OpenAfter
  <2>3. QED
    BY <1>2, <1>3, <1>4, <2>1, <2>2
<1>5. ASSUME NEW front \in Seq(Block), NEW last \in Block, NEW joined \in Block,
             out = Append(front, last), ReconstructOne(out, b) = Append(front, joined),
             last.type = "paragraph", b.type = "paragraph",
             joined.type = last.type, joined.path = last.path, joined.id = last.id
      PROVE  WellPathed(ReconstructOne(out, b)) /\
               OpenAt(ReconstructOne(out, b)) = OpenAt(Append(x, b))
  <2>1. WellPathed(front) /\ PathIs(last, Continued(OpenAt(front), last))
    BY <1>2, <1>5, PathedGrows
  <2>2. OpenAt(out) = OpenAt(front)
    BY <1>5, OpenAfter DEF Continued
  <2>3. OpenAt(Append(front, joined)) = OpenAt(front)
    BY <1>5, OpenAfter DEF Continued
  <2>4. OpenAt(Append(x, b)) = OpenAt(x)
    BY <1>3, <1>5 DEF Continued
  <2>5. PathIs(joined, Continued(OpenAt(front), joined))
    BY <1>5, <2>1 DEF PathIs, Continued
  <2>6. WellPathed(Append(front, joined))
    BY <2>1, <2>5, PathedGrows
  <2>7. QED
    BY <1>2, <1>5, <2>2, <2>3, <2>4, <2>6
<1>6. CASE ReconstructOne(out, b) # Append(out, b)
  <2>1. PICK front \in Seq(Block), last \in Block, joined \in Block :
              /\ out = Append(front, last) /\ ReconstructOne(out, b) = Append(front, joined)
              /\ last.type = "paragraph" /\ b.type = "paragraph"
              /\ joined.type = last.type /\ joined.path = last.path /\ joined.id = last.id
    BY <1>6, ReconstructOneCases
  <2>2. QED
    BY <1>5, <2>1
<1>7. QED
  BY <1>4, <1>6

\* The step of joining paragraphs.
ReconstructStep == [x \in Seq(Block) \X Block |-> ReconstructOne(x[1], x[2])]

\* Joining paragraphs across pages is a fold over the blocks.
LEMMA ReconstructFoldStep ==
    /\ <<>> \in Seq(Block)
    /\ ReconstructStep \in [Seq(Block) \X Block -> Seq(Block)]
    /\ \A a \in Seq(Block), e \in Block : ReconstructStep[<<a, e>>] = ReconstructOne(a, e)
<1>1. \A a \in Seq(Block), e \in Block : ReconstructOne(a, e) \in Seq(Block)
  BY ReconstructOneType
<1>2. <<>> \in Seq(Block)
  OBVIOUS
<1>3. QED
  BY <1>1, <1>2 DEF ReconstructStep

\* That fold is the run of its step, and keeps its type.
LEMMA ReconstructIsRun ==
    ASSUME NEW q \in Seq(Block)
    PROVE  ReconstructCrossPage(q) = Run(<<>>, ReconstructStep, q) /\
             Run(<<>>, ReconstructStep, q) \in Seq(Block)
<1>1. /\ <<>> \in Seq(Block) /\ ReconstructStep \in [Seq(Block) \X Block -> Seq(Block)]
      /\ \A a \in Seq(Block), e \in Block : ReconstructStep[<<a, e>>] = ReconstructOne(a, e)
  BY ReconstructFoldStep
<1>2. PICK f \in [SUBSET DOMAIN q -> Seq(Block)] :
        Follows(f, Seq(Block), Block, <<>>, ReconstructStep, q)
  BY <1>1, FoldSteps
<1>3. f = [s \in SUBSET DOMAIN q |-> IF s = {} THEN <<>>
                                 ELSE ReconstructOne(f[s \ {Max(s)}], q[Max(s)])]
  BY <1>1, <1>2 DEF Follows
<1>4. PICK it : /\ ReconstructCrossPage(q) = it[DOMAIN q]
                /\ it = [s \in SUBSET DOMAIN q |-> IF s = {} THEN <<>>
                                 ELSE ReconstructOne(it[s \ {Max(s)}], q[Max(s)])]
  BY <1>3 DEF ReconstructCrossPage, FoldLeft, MapThenFoldSet
<1>5. Obeys(it, Seq(Block), Block, <<>>, ReconstructStep, q)
  BY <1>1, <1>4 DEF Obeys
<1>6. it[DOMAIN q] = Run(<<>>, ReconstructStep, q) /\ Run(<<>>, ReconstructStep, q) \in Seq(Block)
  BY <1>1, <1>5, FoldIsRun
<1>7. QED
  BY <1>4, <1>6

\* Joining paragraphs leaves the paths right.
LEMMA ReconstructPaths ==
    ASSUME NEW q \in Seq(Block)
    PROVE  WellPathed(q) => WellPathed(ReconstructCrossPage(q)) /\
             OpenAt(ReconstructCrossPage(q)) = OpenAt(q)
<1> DEFINE P(x, a) == WellPathed(x) => WellPathed(a) /\ OpenAt(a) = OpenAt(x)
           I == {y \in Seq(Block) \X Seq(Block) : P(y[1], y[2])}
<1>0. /\ <<>> \in Seq(Block) /\ ReconstructStep \in [Seq(Block) \X Block -> Seq(Block)]
      /\ \A a \in Seq(Block), e \in Block : ReconstructStep[<<a, e>>] = ReconstructOne(a, e)
  BY ReconstructFoldStep
<1>1. P(<<>>, <<>>)
  BY NoPaths
<1>2. ASSUME NEW x \in Seq(Block), NEW a \in Seq(Block), NEW e \in Block, P(x, a)
      PROVE  P(Append(x, e), ReconstructOne(a, e))
  <2>1. SUFFICES ASSUME WellPathed(Append(x, e))
                  PROVE  /\ WellPathed(ReconstructOne(a, e))
                         /\ OpenAt(ReconstructOne(a, e)) = OpenAt(Append(x, e))
    OBVIOUS
  <2>2. WellPathed(x) => WellPathed(a) /\ OpenAt(a) = OpenAt(x)
    BY <1>2
  <2> HIDE DEF P
  <2>3. QED
    BY <2>1, <2>2, ReconstructOnePaths
<1> HIDE DEF P
<1>3. Keeps(I, Seq(Block), Block, <<>>, ReconstructStep)
  <2>1. <<<<>>, <<>>>> \in I
    <3>1. <<>> \in Seq(Block) /\ <<>> \in Seq(Block)
      BY <1>0
    <3>2. <<<<>>, <<>>>> \in Seq(Block) \X Seq(Block)
      BY <3>1
    <3>3. QED
      BY <1>1, <3>2
  <2>2. ASSUME NEW x \in Seq(Block), NEW a \in Seq(Block), NEW e \in Block, <<x, a>> \in I
        PROVE  <<Append(x, e), ReconstructStep[<<a, e>>]>> \in I
    <3>1. P(x, a)
      BY <2>2
    <3>2. P(Append(x, e), ReconstructStep[<<a, e>>])
      BY <1>0, <1>2, <3>1
    <3>3. Append(x, e) \in Seq(Block)
      OBVIOUS
    <3>4. ReconstructStep[<<a, e>>] \in Seq(Block)
      BY <1>0
    <3>5. QED
      BY <3>2, <3>3, <3>4
  <2> HIDE DEF I
  <2>3. QED
    BY <2>1, <2>2 DEF Keeps
<1> HIDE DEF I
<1>4. <<q, Run(<<>>, ReconstructStep, q)>> \in I
  BY <1>0, <1>3, FoldKeeps
<1>5. P(q, Run(<<>>, ReconstructStep, q))
  BY <1>4 DEF I
<1>6. QED
  BY <1>5, ReconstructIsRun DEF P

\* What the furniture leaves are raw blocks.
LEMMA DropOneType ==
    ASSUME NEW raw, NEW out \in Seq(RawBlock), NEW b \in RawBlock
    PROVE  DropOne(out, b, raw) \in Seq(RawBlock)
  BY DEF DropOne

\* The step of dropping the furniture, as a fold.
DropStep(raw) == [x \in Seq(RawBlock) \X RawBlock |-> DropOne(x[1], x[2], raw)]
DropRun(q, raw) == FoldLeft(LAMBDA out, b : DropOne(out, b, raw), <<>>, q)

\* Dropping the furniture is a fold over the raw blocks.
LEMMA DropFoldStep ==
    ASSUME NEW raw
    PROVE  /\ <<>> \in Seq(RawBlock)
           /\ DropStep(raw) \in [Seq(RawBlock) \X RawBlock -> Seq(RawBlock)]
           /\ \A a \in Seq(RawBlock), e \in RawBlock : DropStep(raw)[<<a, e>>] = DropOne(a, e, raw)
  BY DropOneType DEF DropStep

\* That fold is the run of its step, and keeps its type.
LEMMA DropIsRun ==
    ASSUME NEW raw, NEW q \in Seq(RawBlock)
    PROVE  DropRun(q, raw) = Run(<<>>, DropStep(raw), q) /\
             Run(<<>>, DropStep(raw), q) \in Seq(RawBlock)
<1>1. /\ <<>> \in Seq(RawBlock) /\ DropStep(raw) \in [Seq(RawBlock) \X RawBlock -> Seq(RawBlock)]
      /\ \A a \in Seq(RawBlock), e \in RawBlock : DropStep(raw)[<<a, e>>] = DropOne(a, e, raw)
  BY DropFoldStep
<1>2. PICK f \in [SUBSET DOMAIN q -> Seq(RawBlock)] :
        Follows(f, Seq(RawBlock), RawBlock, <<>>, DropStep(raw), q)
  BY <1>1, FoldSteps
<1>3. f = [s \in SUBSET DOMAIN q |-> IF s = {} THEN <<>>
                                 ELSE DropOne(f[s \ {Max(s)}], q[Max(s)], raw)]
  BY <1>1, <1>2 DEF Follows
<1>4. PICK it : /\ DropRun(q, raw) = it[DOMAIN q]
                /\ it = [s \in SUBSET DOMAIN q |-> IF s = {} THEN <<>>
                                 ELSE DropOne(it[s \ {Max(s)}], q[Max(s)], raw)]
  BY <1>3 DEF DropRun, FoldLeft, MapThenFoldSet
<1>5. Obeys(it, Seq(RawBlock), RawBlock, <<>>, DropStep(raw), q)
  BY <1>1, <1>4 DEF Obeys
<1>6. it[DOMAIN q] = Run(<<>>, DropStep(raw), q) /\ Run(<<>>, DropStep(raw), q) \in Seq(RawBlock)
  BY <1>1, <1>5, FoldIsRun
<1>7. QED
  BY <1>4, <1>6

\* A raw block read off the markdown has the type that it is given.
LineOf(b, type, s) ==
    [Raw(type) EXCEPT !.page = 0, !.key = b.key, !.sentences = s,
                      !.stray = IF type = "table" THEN b.stray ELSE {},
                      !.announces = b.announces, !.depth = b.depth, !.level = b.level]

\* A line of the markdown is a raw block.
LEMMA LineType ==
    ASSUME NEW type \in BlockTypes, NEW b \in RawBlock, NEW s \in Seq(Nat \ {0}), Len(s) > 0,
           type = "table" => \A i \in DOMAIN s : i \in DOMAIN b.sentences /\ s[i] = b.sentences[i]
    PROVE  LineOf(b, type, s) \in RawBlock
<1> DEFINE n == LineOf(b, type, s)
           F == {"type", "page", "key", "announces", "depth", "level", "sentences", "open", "cont",
                 "references", "chunkable", "good", "note", "stray", "chart"}
<1>1. PICK r : r = Raw(type)
  OBVIOUS
<1>2. n = [r EXCEPT !.page = 0, !.key = b.key, !.sentences = s,
                    !.stray = IF type = "table" THEN b.stray ELSE {},
                    !.announces = b.announces, !.depth = b.depth, !.level = b.level]
  BY <1>1 DEF LineOf
<1>3. /\ DOMAIN r = F
      /\ r.type = type /\ r.open = FALSE /\ r.cont = FALSE /\ r.references = FALSE
      /\ r.chunkable \in BOOLEAN /\ r.good = TRUE /\ r.note = FALSE /\ r.chart = FALSE
  BY <1>1 DEF Raw
<1> HIDE DEF n, F
<1>4. n = [x \in DOMAIN n |-> n[x]]
  BY <1>2, Zenon
<1>5. DOMAIN n = F
  BY <1>2, <1>3
<1>6. n.page = 0 /\ n.key = b.key /\ n.sentences = s /\ n.announces = b.announces
      /\ n.depth = b.depth /\ n.level = b.level
      /\ n.stray = IF type = "table" THEN b.stray ELSE {}
  BY <1>2, <1>3 DEF F
<1>7. /\ n.type = type /\ n.open = FALSE /\ n.cont = FALSE /\ n.references = FALSE
      /\ n.chunkable = r.chunkable /\ n.good = TRUE /\ n.note = FALSE /\ n.chart = FALSE
  BY <1>2, <1>3 DEF F
<1>8. n = [x \in F |-> n[x]]
  BY <1>4, <1>5
<1>9. /\ b.key \in STRING /\ b.announces \in Announced /\ b.depth \in Nat /\ b.level \in Nat
      /\ b.stray \in SUBSET Nat
      /\ \A i \in b.stray \cap DOMAIN b.sentences : b.sentences[i] > 1
  BY DEF RawBlock
<1>10. /\ n.type \in BlockTypes /\ n.page \in Nat /\ n.key \in STRING /\ n.announces \in Announced
      /\ n.depth \in Nat /\ n.level \in Nat /\ n.sentences \in Seq(Nat \ {0})
      /\ n.stray \in SUBSET Nat
  BY <1>6, <1>7, <1>9
<1>11. /\ n.open \in BOOLEAN /\ n.cont \in BOOLEAN /\ n.references \in BOOLEAN
      /\ n.chunkable \in BOOLEAN /\ n.good \in BOOLEAN /\ n.note \in BOOLEAN /\ n.chart \in BOOLEAN
  BY <1>3, <1>7
<1>12. n \in [type : BlockTypes, page : Nat, key : STRING, announces : Announced, depth : Nat,
              level : Nat, sentences : Seq(Nat \ {0}), open : BOOLEAN, cont : BOOLEAN,
              references : BOOLEAN, chunkable : BOOLEAN, good : BOOLEAN, note : BOOLEAN,
              stray : SUBSET Nat, chart : BOOLEAN]
  BY <1>8, <1>10, <1>11 DEF F
<1>13. \A i \in n.stray \cap DOMAIN n.sentences : n.sentences[i] > 1
  BY <1>6, <1>9
<1>14. n \in RawBlock
  BY <1>6, <1>7, <1>12, <1>13 DEF RawBlock
<1>15. QED
  BY <1>14 DEF n

\* A raw block is read off the markdown as raw blocks.
LEMMA MarkdownOfType ==
    ASSUME NEW b \in RawBlock, NEW pipes
    PROVE  MarkdownOf(b, pipes) \in Seq(RawBlock)
<1> DEFINE s == b.sentences
           Lines(type, sentences) ==
             <<[Raw(type) EXCEPT !.page = 0, !.key = b.key, !.sentences = sentences,
                                 !.stray = IF type = "table" THEN b.stray ELSE {},
                                 !.announces = b.announces, !.depth = b.depth, !.level = b.level]>>
<1>1. \A type, sentences : Lines(type, sentences) = <<LineOf(b, type, sentences)>>
  BY DEF LineOf
<1>2. s \in Seq(Nat \ {0}) /\ Len(s) > 0 /\ (b.note => Len(s) > 1) /\ b.type \in BlockTypes
  BY DEF RawBlock
<1>3. MarkdownOf(b, pipes) \in {<<>>}
        \cup {Lines(b.type, s) : x \in {y \in {1} : b.type \in {"heading", "list"}}}
        \cup {Lines("table", Front(s)) \o Lines("paragraph", <<Last(s)>>) :
          x \in {y \in {1} : b.note}}
        \cup {Lines("table", s), Lines("paragraph", s)}
  BY DEF MarkdownOf
<1> HIDE DEF Lines, s
<1>4. ASSUME NEW type \in BlockTypes, NEW t \in Seq(Nat \ {0}), Len(t) > 0,
             type = "table" => \A i \in DOMAIN t : i \in DOMAIN s /\ t[i] = s[i]
      PROVE  Lines(type, t) \in Seq(RawBlock)
  <2>1. LineOf(b, type, t) \in RawBlock
    BY <1>4, LineType DEF s
  <2>2. Lines(type, t) = <<LineOf(b, type, t)>>
    BY <1>1
  <2>3. QED
    BY <2>1, <2>2
<1>5. {"table", "paragraph"} \subseteq BlockTypes
  BY DEF BlockTypes, Texts
<1>6. b.note => /\ Front(s) \in Seq(Nat \ {0}) /\ Len(Front(s)) > 0
                /\ <<Last(s)>> \in Seq(Nat \ {0}) /\ Len(<<Last(s)>>) > 0
                /\ \A i \in DOMAIN Front(s) : i \in DOMAIN s /\ Front(s)[i] = s[i]
  <2>1. SUFFICES ASSUME b.note
                 PROVE  /\ Front(s) \in Seq(Nat \ {0}) /\ Len(Front(s)) > 0
                        /\ <<Last(s)>> \in Seq(Nat \ {0}) /\ Len(<<Last(s)>>) > 0
                        /\ \A i \in DOMAIN Front(s) : i \in DOMAIN s /\ Front(s)[i] = s[i]
    OBVIOUS
  <2>2. Len(s) - 1 \in Nat /\ Len(s) - 1 <= Len(s) /\ Len(s) - 1 > 0
    BY <1>2, <2>1
  <2>3. /\ Front(s) \in Seq(Nat \ {0}) /\ Len(Front(s)) > 0 /\ Len(Front(s)) = Len(s) - 1
        /\ \A i \in 1 .. Len(s) - 1 : Front(s)[i] = s[i]
    BY <1>2, <2>2, FirstOf DEF Front
  <2>4. Last(s) \in Nat \ {0}
    BY <1>2, <2>2 DEF Last
  <2>5. DOMAIN Front(s) = 1 .. Len(s) - 1 /\ DOMAIN s = 1 .. Len(s)
    BY <1>2, <2>3
  <2>6. QED
    BY <2>2, <2>3, <2>4, <2>5
<1>7. Lines("table", s) \in Seq(RawBlock) /\ Lines("paragraph", s) \in Seq(RawBlock) /\
        Lines(b.type, s) \in Seq(RawBlock)
  BY <1>2, <1>4, <1>5
<1>8. b.note => Lines("table", Front(s)) \o Lines("paragraph", <<Last(s)>>) \in Seq(RawBlock)
  <2>1. b.note => Lines("table", Front(s)) \in Seq(RawBlock) /\
          Lines("paragraph", <<Last(s)>>) \in Seq(RawBlock)
    BY <1>4, <1>5, <1>6
  <2>2. QED
    BY <2>1
<1>9. <<>> \in Seq(RawBlock)
  OBVIOUS
<1>10. QED
  BY <1>3, <1>7, <1>8, <1>9

\* Lines after lines are raw blocks.
LEMMA MarkdownJoins ==
    ASSUME NEW pipes, NEW out \in Seq(RawBlock), NEW b \in RawBlock
    PROVE  out \o MarkdownOf(b, pipes) \in Seq(RawBlock)
<1>1. MarkdownOf(b, pipes) \in Seq(RawBlock)
  BY MarkdownOfType
<1>2. QED
  BY <1>1

\* The step of reading the markdown.
MarkdownStep(pipes) == [x \in Seq(RawBlock) \X RawBlock |-> x[1] \o MarkdownOf(x[2], pipes)]

\* The lines of the markdown are a fold over the raw blocks.
LEMMA MarkdownFoldStep ==
    ASSUME NEW pipes
    PROVE  /\ <<>> \in Seq(RawBlock)
           /\ MarkdownStep(pipes) \in [Seq(RawBlock) \X RawBlock -> Seq(RawBlock)]
           /\ \A a \in Seq(RawBlock),
                e \in RawBlock : MarkdownStep(pipes)[<<a, e>>] = a \o MarkdownOf(e, pipes)
<1>1. <<>> \in Seq(RawBlock)
  OBVIOUS
<1>2. \A a \in Seq(RawBlock), e \in RawBlock : a \o MarkdownOf(e, pipes) \in Seq(RawBlock)
  BY MarkdownJoins
<1>3. QED
  BY <1>1, <1>2 DEF MarkdownStep

\* That fold is the run of its step, and keeps its type.
LEMMA MarkdownIsRun ==
    ASSUME NEW pipes, NEW q \in Seq(RawBlock)
    PROVE  ParseMarkdownRaw(q, pipes) = Run(<<>>, MarkdownStep(pipes), q) /\
             Run(<<>>, MarkdownStep(pipes), q) \in Seq(RawBlock)
<1>1. /\ <<>> \in Seq(RawBlock) /\
           MarkdownStep(pipes) \in [Seq(RawBlock) \X RawBlock -> Seq(RawBlock)]
      /\ \A a \in Seq(RawBlock),
           e \in RawBlock : MarkdownStep(pipes)[<<a, e>>] = a \o MarkdownOf(e, pipes)
  BY MarkdownFoldStep
<1>2. PICK f \in [SUBSET DOMAIN q -> Seq(RawBlock)] :
        Follows(f, Seq(RawBlock), RawBlock, <<>>, MarkdownStep(pipes), q)
  BY <1>1, FoldSteps
<1>3. f = [s \in SUBSET DOMAIN q |-> IF s = {} THEN <<>>
                                 ELSE f[s \ {Max(s)}] \o MarkdownOf(q[Max(s)], pipes)]
  BY <1>1, <1>2 DEF Follows
<1>4. PICK it : /\ ParseMarkdownRaw(q, pipes) = it[DOMAIN q]
                /\ it = [s \in SUBSET DOMAIN q |-> IF s = {} THEN <<>>
                                 ELSE it[s \ {Max(s)}] \o MarkdownOf(q[Max(s)], pipes)]
  BY <1>3 DEF ParseMarkdownRaw, FoldLeft, MapThenFoldSet
<1>5. Obeys(it, Seq(RawBlock), RawBlock, <<>>, MarkdownStep(pipes), q)
  BY <1>1, <1>4 DEF Obeys
<1>6. it[DOMAIN q] = Run(<<>>, MarkdownStep(pipes), q) /\
        Run(<<>>, MarkdownStep(pipes), q) \in Seq(RawBlock)
  BY <1>1, <1>5, FoldIsRun
<1>7. QED
  BY <1>4, <1>6

\* The sections of any raw blocks: every path has the headings that are open.
LEMMA AssignHolds ==
    ASSUME NEW raw \in Seq(RawBlock)
    PROVE  AssignSections(raw) \in Seq(Block) /\ WellPathed(AssignSections(raw))
<1>1. AssignSections(raw) = PromoteFrontMatterOnly(AssignRun(raw).blocks)
  BY DEF AssignSections, AssignRun, AssignStart
<1>2. AssignRun(raw) \in AssignAcc
  BY AssignIsRun
<1>3. AssignRun(raw).blocks \in Seq(Block) /\ WellPathed(AssignRun(raw).blocks)
  BY <1>2 DEF AssignAcc
<1>4. QED
  BY <1>1, <1>3, PromoteHolds

\* Whatever is parsed, and whether paragraphs are joined or not, the paths are right.
LEMMA ParseHolds ==
    ASSUME NEW raw \in Seq(RawBlock), NEW choice
    PROVE  /\ ParseJson(raw, choice) \in Seq(Block) /\ WellPathed(ParseJson(raw, choice))
           /\ ParseMarkdown(raw, choice) \in Seq(Block) /\ WellPathed(ParseMarkdown(raw, choice))
<1>1. DropRepeatedFurniture(raw) \in Seq(RawBlock)
  <2>1. DropRepeatedFurniture(raw) = DropRun(raw, raw)
    BY DEF DropRepeatedFurniture, DropRun
  <2>2. QED
    BY <2>1, DropIsRun
<1>2. ParseMarkdownRaw(raw, choice) \in Seq(RawBlock)
  BY MarkdownIsRun
<1> DEFINE bs == AssignSections(DropRepeatedFurniture(raw))
<1>3. bs \in Seq(Block) /\ WellPathed(bs)
  BY <1>1, AssignHolds
<1>4. ParseJson(raw, choice) \in {bs, ReconstructCrossPage(bs)}
  BY DEF ParseJson
<1> HIDE DEF bs
<1>5. ReconstructCrossPage(bs) \in Seq(Block)
  BY <1>3, ReconstructIsRun
<1>6. WellPathed(ReconstructCrossPage(bs))
  BY <1>3, ReconstructPaths
<1>7. ParseMarkdown(raw, choice) \in Seq(Block) /\ WellPathed(ParseMarkdown(raw, choice))
  BY <1>2, AssignHolds DEF ParseMarkdown
<1>8. QED
  BY <1>3, <1>4, <1>5, <1>6, <1>7

-----------------------------------------------------------------------------
(* THE INDEX: what holds of the chunks of every document *)

\* The blocks are those of a document, with the paths of its headings, and the drafts that
\* are filtered are the ones of these blocks.
TextInv ==
    /\ doc \in Seq(RawBlock)
    /\ blocks \in Seq(Block) /\ WellPathed(blocks)
    /\ stage = "filter" => drafts = BuildDrafts(blocks)

\* The invariant is inductive.
LEMMA TextInvHolds == IndexingSpec => []TextInv
<1>1. IndexingInit => TextInv
  <2>1. <<>> \in Seq(Block)
    OBVIOUS
  <2>2. \A d \in Documents : d \in Seq(RawBlock)
    BY IndexingAssumption
  <2>3. QED
    BY <2>1, <2>2, NoPaths DEF IndexingInit, TextInv
<1>2. ASSUME TextInv, [IndexingNext]_indexingVars
      PROVE  TextInv'
  <2>1. CASE Parse
    <3>1. doc' = doc
      BY <2>1 DEF Parse
    <3>2. stage' # "filter"
      BY <2>1 DEF Parse
    <3>3. \/ blocks' = ParseJson(doc, Reconstruct)
          \/ \E pipes \in BOOLEAN : blocks' = ParseMarkdown(doc, pipes)
          \/ blocks' = blocks
      BY <2>1 DEF Parse
    <3>4. blocks' \in Seq(Block) /\ WellPathed(blocks')
      BY <1>2, <3>3, ParseHolds DEF TextInv
    <3>5. QED
      BY <1>2, <3>1, <3>2, <3>4 DEF TextInv, WellPathed
  <2>2. CASE Chunk
    BY <1>2, <2>2 DEF Chunk, TextInv
  <2>3. CASE Reject \/ Materialize \/ Persist
    BY <1>2, <2>3 DEF Reject, Materialize, Persist, content, TextInv
  <2>4. CASE Embed
    <3>1. UNCHANGED <<doc, blocks, drafts>>
      BY <2>4 DEF Embed, content
    <3>2. stage' # "filter"
      BY <2>4 DEF Embed, Answered, Failed
    <3>3. QED
      BY <1>2, <3>1, <3>2 DEF TextInv
  <2>5. CASE Retry
    <3>1. doc' = doc /\ blocks' = <<>> /\ stage' = "parse"
      BY <2>5 DEF Retry
    <3>2. <<>> \in Seq(Block)
      OBVIOUS
    <3>3. WellPathed(blocks')
      BY <3>1, NoPaths
    <3>4. QED
      BY <1>2, <3>1, <3>2, <3>3 DEF TextInv
  <2>6. CASE UNCHANGED indexingVars
    BY <1>2, <2>6 DEF indexingVars, TextInv
  <2>7. QED
    BY <1>2, <2>1, <2>2, <2>3, <2>4, <2>5, <2>6 DEF IndexingNext
<1>3. QED
  BY <1>1, <1>2, PTL DEF IndexingSpec

\* Whatever the document and the limits, no draft of it is over the limit of its kind, but one
\* whose only unit is (ChunksFromTextGroup, ChunksFromTable, ChunksFromList, the merge and the
\* overlap of StructuralChunker).
THEOREM TextFitsHolds == IndexingSpec => []TextFits
<1>1. TextInv => TextFits
  <2> SUFFICES ASSUME TextInv, Chunked, NEW d \in Range(drafts) PROVE Fits(d)
    BY DEF TextFits, Fits
  <2>1. drafts = BuildDrafts(blocks) /\ blocks \in Seq(Block)
    BY DEF TextInv, Chunked
  <2>2. drafts \in Seq(FitDraft)
    BY <2>1, DraftsHold
  <2>3. d \in FitDraft
    BY <2>2 DEF Range
  <2>4. QED
    BY <2>3 DEF FitDraft
<1>2. QED
  BY <1>1, TextInvHolds, PTL

\* Whatever the document, what a block that is kept says is said by the drafts of its section,
\* not counting what they repeat: cutting, packing, merging and overlapping lose nothing, and
\* a table that is represented by its rows only the rows after the limit and stray cells.
THEOREM NothingLostHolds == IndexingSpec => []NothingLost
<1>1. TextInv => NothingLost
  <2> SUFFICES ASSUME TextInv, Chunked, NEW i \in DOMAIN blocks, Kept(blocks[i])
               PROVE  Said(<<Own(blocks[i])>>) \ Omissible(blocks[i])
                        \subseteq Told(drafts, blocks[i].path)
    BY DEF NothingLost, Told
  <2>1. drafts = BuildDrafts(blocks) /\ blocks \in Seq(Block)
    BY DEF TextInv, Chunked
  <2>2. blocks[i] \in Range(blocks)
    BY DEF Range
  <2>3. Essential(blocks[i]) \subseteq Told(drafts, blocks[i].path)
    BY <2>1, <2>2, DraftsHold
  <2>4. QED
    BY <2>3, SaidOne DEF Essential
<1>2. QED
  BY <1>1, TextInvHolds, PTL

\* Whatever the document, the section path of a block is made of the headings that are open at
\* it, in the order of their levels and of the document, across page breaks and changes of
\* the sections (AssignSections, ReconstructCrossPage).
THEOREM PathsFollowHeadingsHolds == IndexingSpec => []PathsFollowHeadings
<1>1. TextInv => PathsFollowHeadings
  <2> SUFFICES ASSUME TextInv, NEW i \in DOMAIN blocks, NEW path, path = blocks[i].path
               PROVE  /\ {path[k].id : k \in DOMAIN path} =
                           {blocks[j].id : j \in OpenHeadings(blocks, i)}
                      /\ \A k \in 1 .. Len(path) - 1 :
                            path[k].level < path[k + 1].level /\ path[k].id < path[k + 1].id
    BY DEF PathsFollowHeadings
  <2>1. blocks \in Seq(Block) /\ i \in 1 .. Len(blocks) /\ Len(blocks) \in Nat
    BY DEF TextInv
  <2>2. PathIs(blocks[i], OpenEntries(blocks, i))
    BY DEF TextInv, WellPathed
  <2>3. Range(path) = OpenEntries(blocks, i) /\ Ascending(path)
    BY <2>2 DEF PathIs
  <2>4. ASSUME NEW j \in OpenHeadings(blocks, i)
        PROVE  Last(blocks[j].path).id = blocks[j].id
    <3>1. j \in 1 .. i /\ blocks[j].type = "heading"
      BY DEF OpenHeadings
    <3>2. j \in DOMAIN blocks
      BY <2>1, <3>1
    <3>3. PathIs(blocks[j], OpenEntries(blocks, j))
      BY <3>2 DEF TextInv, WellPathed
    <3>4. QED
      BY <3>1, <3>3 DEF PathIs
  <2>5. {path[k].id : k \in DOMAIN path} = {e.id : e \in Range(path)}
    BY DEF Range
  <2>6. {e.id : e \in OpenEntries(blocks, i)} = {blocks[j].id : j \in OpenHeadings(blocks, i)}
    BY <2>4 DEF OpenEntries
  <2>7. ASSUME NEW k \in 1 .. Len(path) - 1
        PROVE  path[k].level < path[k + 1].level /\ path[k].id < path[k + 1].id
    <3>1. path \in Seq(Entry)
      <4>1. blocks[i] \in Block
        BY <2>1
      <4>2. QED
        BY <4>1 DEF Block, Path
    <3>2. k \in DOMAIN path /\ k + 1 \in DOMAIN path /\ k < k + 1
      BY <3>1
    <3>3. QED
      BY <2>3, <3>2 DEF Ascending
  <2>8. QED
    BY <2>3, <2>5, <2>6, <2>7
<1>2. QED
  BY <1>1, TextInvHolds, PTL

----------------------------------------------------------------------------
(* Profiles and filters *)

\* The payload of a chunk, whatever its section and its type, is matched by the filter of
\* every profile that it lists, unless its data are doubtful and those are excluded; and
\* one that lists no profile by no filter of the general one.
LEMMA ListedMatches ==
    ASSUME NEW c, NEW f \in Filters
    PROVE  LET payload == StructuralPayload(c) IN
           /\ f.profile \in payload.retrieval_profile /\ ~(f.sure /\ payload.doubtful)
                => Matches(f, payload)
           /\ payload.retrieval_profile = {} /\ f.on /\ f.profile \in {"general", "unknown"}
                => ~Matches(f, payload)
<1> DEFINE payload == StructuralPayload(c)
<1>1. /\ payload.section_kind = c.kind /\ payload.retrieval_profile = RetrievalProfile(c)
      /\ payload.is_reference <=> IsReference(c)
      /\ payload.searchable <=> Searchable(c)
  BY DEF StructuralPayload, IsReference, Searchable
<1> HIDE DEF payload
<1>2. "bibliographic" \in RetrievalProfile(c) => IsReference(c)
  BY DEF RetrievalProfile
<1>3. \A p \in {"quantitative", "methodological"} : p \in RetrievalProfile(c)
        => ~IsReference(c) /\ ~Hidden(c) /\ c.kind # "administrative_appendix"
  BY DEF RetrievalProfile
<1>4. "general" \in RetrievalProfile(c) => Searchable(c)
  BY DEF RetrievalProfile, Searchable, IsReference
<1>5. RetrievalProfile(c) = {} => ~Searchable(c)
  BY DEF RetrievalProfile, Searchable
<1>6. RetrievalProfile(c) \subseteq Profiles
  BY DEF RetrievalProfile, Profiles
<1>7. \A p : ProfileConditions(p, payload)
        <=> /\ p = "bibliographic" => IsReference(c)
            /\ p \notin {"bibliographic", "quantitative", "methodological"} => Searchable(c)
            /\ p \in {"quantitative", "methodological"} =>
                  ~IsReference(c) /\ c.kind \notin FrontMatter \cup Navigation \cup
                                        {"administrative_appendix", "bibliography"}
  BY <1>1 DEF ProfileConditions, ProfileExclusions, FrontMatter
<1>8. f.profile \in RetrievalProfile(c) => ProfileConditions(f.profile, payload)
  BY <1>2, <1>3, <1>4, <1>6, <1>7 DEF Hidden, IsReference, Profiles
<1>9. RetrievalProfile(c) = {} /\ f.profile \in {"general", "unknown"}
        => ~ProfileConditions(f.profile, payload)
  BY <1>5, <1>7
<1>10. QED
  BY <1>1, <1>8, <1>9 DEF Matches, payload

\* Whatever a query says and whichever flags are on, a search sees the chunks that list the
\* profile it resolves to: classify_retrieval, which writes the profiles, and the filters
\* of a search, which read other fields of the payload, agree on every chunk.
THEOREM ListedIsFoundHolds == IndexingSpec => []ListedIsFound
<1>1. \A i \in DOMAIN Points : Points[i].payload = StructuralPayload(chunks[i])
  BY DEF Points
<1>2. ListedIsFound
  BY <1>1, ListedMatches DEF ListedIsFound
<1>3. QED
  BY <1>2, PTL

----------------------------------------------------------------------------
(* Vectors *)

\* The vectors of the first n chunks.
Upto(n) == [i \in 1 .. n |-> i]

\* The vectors of a batch that follow those of the chunks before it.
LEMMA UptoGrows ==
    ASSUME NEW n \in Nat \ {0}, NEW k \in Nat
    PROVE  Upto(n - 1) \o [i \in 1 .. k |-> n + i - 1] = Upto(n + k - 1)
<1> DEFINE s == Upto(n - 1)
           t == [i \in 1 .. k |-> n + i - 1]
<1>1. s \in Seq(Nat) /\ t \in Seq(Nat) /\ Len(s) = n - 1 /\ Len(t) = k
  BY DEF Upto
<1>2. /\ s \o t \in Seq(Nat) /\ Len(s \o t) = n + k - 1
      /\ \A i \in 1 .. n - 1 : (s \o t)[i] = s[i]
      /\ \A i \in n .. n + k - 1 : (s \o t)[i] = t[i - (n - 1)]
  <2> HIDE DEF s, t
  <2>1. s \o t \in Seq(Nat)
    BY <1>1
  <2>2. Len(s \o t) = n + k - 1
    BY <1>1
  <2>3. \A i \in 1 .. n - 1 : (s \o t)[i] = s[i]
    BY <1>1
  <2>4. ASSUME NEW i \in n .. n + k - 1
        PROVE  (s \o t)[i] = t[i - (n - 1)]
    <3>1. i \in 1 .. Len(s) + Len(t) /\ i > Len(s)
      BY <1>1
    <3>2. (s \o t)[i] = t[i - Len(s)]
      BY <1>1, <3>1
    <3>3. QED
      BY <1>1, <3>2
  <2>5. QED
    BY <2>1, <2>2, <2>3, <2>4
<1>3. \A i \in 1 .. n + k - 1 : (s \o t)[i] = i
  BY <1>2 DEF Upto
<1>4. Upto(n + k - 1) \in Seq(Nat) /\ Len(Upto(n + k - 1)) = n + k - 1
  BY DEF Upto
<1>5. QED
  BY <1>2, <1>3, <1>4 DEF Upto

\* What an answer to a batch adds.
LEMMA SortedIsNext ==
    ASSUME NEW S, chunks \in Seq(S), IndexingAssumption,
           next \in Nat \ {0}, next <= Len(chunks), NEW items \in Orders(Batch)
    PROVE  /\ Least(next + BatchSize - 1, Len(chunks)) \in next .. Len(chunks)
           /\ Upto(next - 1) \o Sorted(items)
                = Upto(Least(next + BatchSize - 1, Len(chunks)))
<1> DEFINE last == Least(next + BatchSize - 1, Len(chunks))
<1>1. Len(chunks) \in Nat /\ BatchSize \in Nat \ {0}
  BY DEF IndexingAssumption
<1>2. last \in next .. Len(chunks)
  BY <1>1 DEF Least
<1>3. Batch = next .. last
  BY DEF Batch
<1> HIDE DEF last
<1>4. Cardinality(Batch) = last - next + 1
  BY <1>2, <1>3, FS_Interval
<1>5. Sorted(items) = [i \in 1 .. last - next + 1 |-> next + i - 1]
  <2>1. Range(items) = next .. last /\ DOMAIN items = 1 .. last - next + 1
    BY <1>3, <1>4 DEF Orders
  <2>2. ASSUME NEW x \in next .. last
        PROVE  Cardinality({y \in next .. last : y < x}) = x - next
    <3>1. {y \in next .. last : y < x} = next .. x - 1
      BY <1>1, <1>2
    <3>2. next \in Int /\ x - 1 \in Int /\ (x - 1) - next + 1 = x - next /\ x >= next
      BY <1>1, <1>2
    <3>3. Cardinality(next .. x - 1) = IF next > x - 1 THEN 0 ELSE (x - 1) - next + 1
      BY <3>2, FS_Interval
    <3>4. Cardinality(next .. x - 1) = x - next
      BY <3>2, <3>3
    <3>5. QED
      BY <3>1, <3>4
  <2>3. ASSUME NEW i \in 1 .. last - next + 1
        PROVE  Ranked(next .. last, i) = next + i - 1
    <3>1. next + i - 1 \in next .. last
      BY <1>1, <1>2
    <3>2. \A x \in next .. last :
             Cardinality({y \in next .. last : y < x}) = i - 1 <=> x = next + i - 1
      BY <1>1, <1>2, <2>2
    <3>3. PICK n : n = next + i - 1
      OBVIOUS
    <3>4. n \in next .. last /\ \A x \in next .. last :
             Cardinality({y \in next .. last : y < x}) = i - 1 <=> x = n
      BY <3>1, <3>2, <3>3
    <3>5. Ranked(next .. last, i) = n
      <4> DEFINE it == CHOOSE x \in next .. last :
                        Cardinality({y \in next .. last : y < x}) = i - 1
      <4>1. \E x \in next .. last : Cardinality({y \in next .. last : y < x}) = i - 1
        BY <3>4
      <4>2. it \in next .. last /\ Cardinality({y \in next .. last : y < it}) = i - 1
        BY <4>1, Zenon
      <4> HIDE DEF it
      <4>3. it = n
        BY <3>4, <4>2
      <4>4. QED
        BY <4>3 DEF it, Ranked
    <3>6. QED
      BY <3>3, <3>5
  <2>4. QED
    BY <2>1, <2>3 DEF Sorted
<1>6. last - next + 1 \in Nat /\ next + (last - next + 1) - 1 = last
  BY <1>2
<1>7. Upto(next - 1) \o Sorted(items) = Upto(last)
  BY <1>5, <1>6, UptoGrows
<1>8. QED
  BY <1>2, <1>7 DEF last

Stages == {"parse", "chunk", "filter", "empty", "dense", "sparse", "indexed", "failed"}

\* Between two requests both lists hold the vectors of the chunks before the batch, and
\* between the dense and the sparse one of a batch the first list holds those of the batch
\* too.  An attempt that failed leaves what it had, until it is begun again.
VectorInv ==
    /\ stage \in Stages
    /\ \E S : chunks \in Seq(S)
    /\ stage \in {"parse", "chunk", "filter"} => dense = <<>> /\ sparse = <<>>
    /\ stage \in {"dense", "sparse"} =>
          /\ next \in Nat \ {0} /\ next <= Len(chunks)
          /\ sparse = Upto(next - 1)
          /\ dense = IF stage = "dense" THEN Upto(next - 1)
                     ELSE Upto(Least(next + BatchSize - 1, Len(chunks)))
    /\ stage = "indexed" => dense = Upto(Len(chunks)) /\ sparse = Upto(Len(chunks))

\* A list that grows by one chunk is a list.
LEMMA ChunksGrow ==
    ASSUME NEW c, \E S : chunks \in Seq(S)
    PROVE  \E S : Append(chunks, c) \in Seq(S)
<1>1. PICK S : chunks \in Seq(S)
  OBVIOUS
<1>2. chunks \in Seq(S \cup {c})
  <2>1. Len(chunks) \in Nat /\ chunks \in [1 .. Len(chunks) -> S]
    BY <1>1
  <2>2. chunks \in [1 .. Len(chunks) -> S \cup {c}]
    BY <2>1
  <2>3. QED
    BY <2>1, <2>2
<1>3. Append(chunks, c) \in Seq(S \cup {c})
  BY <1>2
<1>4. QED
  BY <1>3

\* An answer keeps it: the dense vectors of a batch, or its sparse ones.
LEMMA AnsweredKeeps ==
    ASSUME IndexingAssumption, VectorInv, stage \in {"dense", "sparse"}, Answered,
           UNCHANGED content
    PROVE  VectorInv'
<1>1. PICK S : chunks \in Seq(S)
  BY DEF VectorInv
<1>2. /\ next \in Nat \ {0} /\ next <= Len(chunks) /\ sparse = Upto(next - 1)
      /\ stage = "dense" => dense = Upto(next - 1)
      /\ stage = "sparse" => dense = Upto(Least(next + BatchSize - 1, Len(chunks)))
  BY DEF VectorInv
<1>3. Len(chunks) \in Nat /\ BatchSize \in Nat \ {0} /\ chunks' = chunks
  BY <1>1 DEF IndexingAssumption, content
<1> DEFINE last == Least(next + BatchSize - 1, Len(chunks))
<1>4. last \in next .. Len(chunks) /\ last = IF next + BatchSize - 1 < Len(chunks)
                                            THEN next + BatchSize - 1 ELSE Len(chunks)
  BY <1>1, <1>2, <1>3 DEF Least
<1>5. PICK items \in Orders(Batch) :
        IF stage = "dense"
        THEN /\ dense' = dense \o Sorted(items)
             /\ stage' = "sparse"
             /\ UNCHANGED <<next, sparse>>
        ELSE /\ sparse' = sparse \o Sorted(items)
             /\ stage' = IF Len(sparse') = Len(chunks) THEN "indexed" ELSE "dense"
             /\ next' = next + BatchSize
             /\ UNCHANGED dense
  BY DEF Answered
<1>6. Upto(next - 1) \o Sorted(items) = Upto(last)
  <2>1. \A x \in Orders(Batch) : Upto(next - 1) \o Sorted(x)
                = Upto(Least(next + BatchSize - 1, Len(chunks)))
    BY <1>1, <1>2, SortedIsNext
  <2>2. QED
    BY <2>1
<1> HIDE DEF last
<1>7. Len(Upto(last)) = last
  <2>1. last \in Nat
    BY <1>2, <1>3, <1>4
  <2>2. QED
    BY <2>1 DEF Upto
<1>8. CASE stage = "dense"
  <2>1. /\ dense' = Upto(last) /\ stage' = "sparse" /\ next' = next /\ sparse' = sparse
    BY <1>2, <1>5, <1>6, <1>8
  <2>2. QED
    BY <1>1, <1>2, <1>3, <2>1 DEF VectorInv, Stages, last
<1>9. CASE stage = "sparse"
  <2>1. /\ sparse' = Upto(last) /\ dense' = Upto(last) /\ next' = next + BatchSize
        /\ stage' = IF last = Len(chunks) THEN "indexed" ELSE "dense"
    BY <1>2, <1>5, <1>6, <1>7, <1>9 DEF last
  <2>2. CASE last = Len(chunks)
    BY <1>1, <1>3, <2>1, <2>2 DEF VectorInv, Stages
  <2>3. CASE last # Len(chunks)
    <3>1. last = next' - 1 /\ next' \in Nat \ {0} /\ next' <= Len(chunks)
      BY <1>2, <1>3, <1>4, <2>1, <2>3
    <3>2. QED
      BY <1>1, <1>3, <2>1, <2>3, <3>1 DEF VectorInv, Stages
  <2>4. QED
    BY <2>2, <2>3
<1>10. QED
  BY <1>8, <1>9

\* The index has one point for every chunk of a document and both its vectors are the
\* chunk's, in whatever order the answers to a request come, for any size of a batch and
\* however often requests are repeated and attempts fail (embedder.py: get_embeddings).
THEOREM VectorsMatchHolds == IndexingSpec => []VectorsMatch
<1> USE IndexingAssumption
<1>1. IndexingInit => VectorInv
  <2>1. <<>> \in Seq({})
    OBVIOUS
  <2>2. QED
    BY <2>1 DEF IndexingInit, VectorInv, Stages
<1>2. ASSUME VectorInv, [IndexingNext]_indexingVars
      PROVE  VectorInv'
  <2>1. CASE Parse \/ Chunk \/ Reject
    BY <1>2, <2>1 DEF Parse, Chunk, Reject, content, VectorInv, Stages
  <2>2. CASE Materialize
    <3>1. CASE chunks' = chunks /\ next' = next /\ stage' = "failed"
      BY <1>2, <2>2, <3>1 DEF Materialize, VectorInv, Stages
    <3>2. CASE \E c : chunks' = Append(chunks, c) /\ stage' = "filter"
      <4>1. \E S : chunks' \in Seq(S)
        BY <1>2, <3>2, ChunksGrow DEF VectorInv
      <4>2. QED
        BY <1>2, <2>2, <3>2, <4>1 DEF Materialize, VectorInv, Stages
    <3>3. QED
      BY <2>2, <3>1, <3>2 DEF Materialize
  <2>3. CASE Persist
    <3>1. PICK S : chunks \in Seq(S)
      BY <1>2 DEF VectorInv
    <3>2. chunks # <<>> => 1 <= Len(chunks)
      BY <3>1
    <3>3. Upto(1 - 1) = <<>>
      BY DEF Upto
    <3>4. dense' = <<>> /\ sparse' = <<>> /\ chunks' = chunks /\ next' = 1
          /\ stage' = IF chunks = <<>> THEN "empty" ELSE "dense"
      BY <1>2, <2>3 DEF Persist, content, VectorInv
    <3>5. QED
      BY <3>1, <3>2, <3>3, <3>4 DEF VectorInv, Stages
  <2>4. CASE Embed
    <3>1. CASE Answered
      BY <1>2, <2>4, <3>1, AnsweredKeeps DEF Embed
    <3>2. CASE \E retriable \in BOOLEAN : Failed(retriable)
      BY <1>2, <2>4, <3>2 DEF Embed, Failed, content, VectorInv, Stages
    <3>3. QED
      BY <2>4, <3>1, <3>2 DEF Embed
  <2>5. CASE Retry
    <3>1. <<>> \in Seq({})
      OBVIOUS
    <3>2. QED
      BY <2>5, <3>1 DEF Retry, VectorInv, Stages
  <2>6. CASE UNCHANGED indexingVars
    BY <1>2, <2>6 DEF indexingVars, VectorInv
  <2>7. QED
    BY <1>2, <2>1, <2>2, <2>3, <2>4, <2>5, <2>6 DEF IndexingNext
<1>3. VectorInv => VectorsMatch
  <2> SUFFICES ASSUME VectorInv, stage = "indexed"
               PROVE  /\ Len(Points) = Len(chunks)
                      /\ \A i \in DOMAIN Points : Points[i].dense = i /\ Points[i].sparse = i
    BY DEF VectorsMatch
  <2>1. PICK S : chunks \in Seq(S)
    BY DEF VectorInv
  <2> DEFINE n == Len(chunks)
  <2>2. n \in Nat /\ dense = Upto(n) /\ sparse = Upto(n)
    BY <2>1 DEF VectorInv
  <2>3. Len(Upto(n)) = n
    BY <2>2 DEF Upto
  <2>4. Least(n, Least(Len(dense), Len(sparse))) = n
    BY <2>2, <2>3 DEF Least
  <2>5. Points = [i \in 1 .. n |-> [dense |-> dense[i], sparse |-> sparse[i],
                                   payload |-> StructuralPayload(chunks[i])]]
    BY <2>4 DEF Points
  <2>6. DOMAIN Points = 1 .. n /\ Len(Points) = n
    BY <2>2, <2>5
  <2>7. QED
    BY <2>2, <2>5, <2>6 DEF Upto
<1>4. QED
  BY <1>1, <1>2, <1>3, PTL DEF IndexingSpec

-----------------------------------------------------------------------------
(* THE SUMMARY: an answer is as fresh as its index *)

Steps == {"none", "retrieve", "first", "second", "store", "settle"}
PCs == {"idle", "get", "miss", "waiting", "answered", "failed", "gone"}
Task == [step : Steps, version : Version]
Request == [pc : PCs, gen : Generations, version : Version]

LEMMA KeyType ==
    ASSUME TypeOK, NEW r \in Requests
    PROVE  /\ Home[r] \in Processes
           /\ Key(r) \in Keys /\ Key(r)[2] = req[r].gen
           /\ Flight(r) \in Task
BY SummaryAssumption DEF TypeOK, Key, Keys, Flight, Task, Steps

LEMMA NoTaskType == NoTask \in Task /\ Miss \in Version
BY SummaryAssumption DEF NoTask, Task, Steps, Miss, Version

-----------------------------------------------------------------------------
(* Type correctness *)

\* Every variable keeps its type, and every bump has a write of its own before it.
LEMMA TypeInit == Init => TypeOK
<1>1. Init => /\ version \in 1 .. MaxWrites + 1 /\ gen \in 0 .. MaxWrites
              /\ pending \in 0 .. MaxWrites /\ gen + pending < version
              /\ outages \in 0 .. MaxOutages
  BY SummaryAssumption DEF Init
<1>2. Init => covered \in [0 .. MaxWrites -> Version]
  BY SummaryAssumption DEF Init, Miss, Version
<1>3. Init => shared \in [Keys -> Version] /\ memory \in [Processes -> [Keys -> Version]]
  BY NoTaskType DEF Init
<1>4. Init => task \in [Processes -> [Keys -> Task]]
  BY NoTaskType DEF Init
<1>5. Local \in Generations
  BY DEF Generations
<1>6. Init => req \in [Requests -> Request]
  BY <1>5, NoTaskType DEF Init, Request, PCs
<1>7. QED
  BY <1>1, <1>2, <1>3, <1>4, <1>6 DEF TypeOK, Task, Steps, Request, PCs

LEMMA DoesType ==
    ASSUME TypeOK, NEW p \in Processes, NEW k \in Keys, NEW step \in Steps,
           NEW v \in Version, Does(p, k, step, v)
    PROVE  /\ task' \in [Processes -> [Keys -> Task]]
           /\ task'[p][k] = [step |-> step, version |-> v]
           /\ \A q \in Processes, l \in Keys : (q # p \/ l # k) => task'[q][l] = task[q][l]
BY DEF TypeOK, Does, Task, Steps

LEMMA EndsType ==
    ASSUME TypeOK, NEW p \in Processes, NEW k \in Keys, NEW pc \in {"answered", "failed"},
           NEW v \in Version, Ends(p, k, pc, v)
    PROVE  TypeOK'
<1>1. task' \in [Processes -> [Keys -> Task]]
  BY NoTaskType DEF Ends, Popped, TypeOK, Task, Steps
<1>2. req' \in [Requests -> Request]
  BY DEF Ends, TypeOK, Request, PCs
<1>3. QED
  BY <1>1, <1>2 DEF Ends, TypeOK, index, Task, Steps, Request, PCs

LEMMA AnswersType ==
    ASSUME TypeOK, NEW up \in BOOLEAN, Answers(up)
    PROVE  outages' \in 0 .. MaxOutages
BY SummaryAssumption DEF TypeOK, Answers

LEMMA TypeStep == TypeOK /\ [Next]_vars => TypeOK'
<1> SUFFICES ASSUME TypeOK, [Next]_vars
             PROVE  TypeOK'
  OBVIOUS
<1>1. ASSUME NEW bumps \in BOOLEAN, Write(bumps) PROVE TypeOK'
  BY <1>1, SummaryAssumption DEF TypeOK, Write
<1>2. ASSUME BumpIndexGeneration PROVE TypeOK'
  BY <1>2, SummaryAssumption DEF TypeOK, BumpIndexGeneration, Version
<1>3. ASSUME BumpLost PROVE TypeOK'
  BY <1>3, SummaryAssumption DEF TypeOK, BumpLost
<1>4. ASSUME NEW r \in Requests, NEW up \in BOOLEAN, ReadKey(r, up) PROVE TypeOK'
  <2>1. IndexGeneration(up) \in Generations
    BY DEF IndexGeneration, Generations, TypeOK
  <2>2. req' \in [Requests -> Request]
    BY <1>4, <2>1, NoTaskType DEF ReadKey, TypeOK, Request, PCs
  <2>3. outages' \in 0 .. MaxOutages
    BY <1>4, AnswersType DEF ReadKey
  <2>4. QED
    BY <1>4, <2>2, <2>3 DEF TypeOK, ReadKey, index, Request, PCs
<1>5. ASSUME NEW r \in Requests, NEW up \in BOOLEAN, Lookup(r, up) PROVE TypeOK'
  <2>1. Cached(r, up) \in Version
    BY KeyType DEF Cached, TypeOK
  <2>2. req' \in [Requests -> Request]
    <3>1. PICK pc \in PCs : req' = [req EXCEPT ![r].pc = pc, ![r].version = Cached(r, up)]
      BY <1>5 DEF Lookup, PCs
    <3>2. req \in [Requests -> Request]
      BY DEF TypeOK, Request, PCs
    <3>3. QED
      BY <2>1, <3>1, <3>2 DEF Request
  <2>3. QED
    BY <1>5, <2>2, AnswersType DEF Lookup, TypeOK, index, Request, PCs
<1>6. ASSUME NEW r \in Requests, JoinOrStart(r) PROVE TypeOK'
  <2>1. task' \in [Processes -> [Keys -> Task]]
    BY <1>6, KeyType, NoTaskType DEF JoinOrStart, TypeOK, Task, Steps
  <2>2. QED
    BY <1>6, <2>1 DEF JoinOrStart, Moves, TypeOK, index, Task, Steps
<1>7. ASSUME NEW r \in Requests, Disconnect(r) PROVE TypeOK'
  BY <1>7 DEF TypeOK, Disconnect, Moves, index
<1>8. ASSUME NEW p \in Processes, NEW k \in Keys, Retrieve(p, k) \/ CallLlm(p, k) PROVE TypeOK'
  <2>1. PICK step \in Steps, v \in Version : Does(p, k, step, v)
    <3>1. CASE Retrieve(p, k)
      <4>1. PICK some \in FoundSome : Does(p, k, IF some THEN "first" ELSE "settle", version)
        BY <3>1, Zenon DEF Retrieve
      <4>2. version \in Version
        BY SummaryAssumption DEF TypeOK, Version
      <4>3. QED
        BY <4>1, <4>2 DEF Steps
    <3>2. CASE CallLlm(p, k)
      <4>1. PICK usable \in AnswersUsable :
               Does(p, k, IF usable THEN "store"
                          ELSE IF task[p][k].step = "first" THEN "second" ELSE "settle",
                    task[p][k].version)
        BY <3>2, Zenon DEF CallLlm
      <4>2. task[p][k].version \in Version
        BY DEF TypeOK
      <4>3. QED
        BY <4>1, <4>2 DEF Steps
    <3>3. QED
      BY <1>8, <3>1, <3>2
  <2>2. UNCHANGED <<index, shared, memory, req, outages>>
    BY <1>8 DEF Retrieve, CallLlm
  <2>3. task' \in [Processes -> [Keys -> Task]]
    BY <2>1, DoesType
  <2>4. QED
    BY <2>2, <2>3 DEF TypeOK, index, Task, Steps
<1>9. ASSUME NEW p \in Processes, NEW k \in Keys, NEW up \in BOOLEAN, Store(p, k, up) PROVE TypeOK'
  <2>1. task[p][k].version \in Version
    BY DEF TypeOK
  <2>2. task' \in [Processes -> [Keys -> Task]]
    <3>1. Does(p, k, "settle", task[p][k].version)
      BY <1>9, Zenon DEF Store
    <3>2. QED
      BY <3>1, <2>1, DoesType DEF Steps
  <2>3. shared' \in [Keys -> Version] /\ memory' \in [Processes -> [Keys -> Version]]
    <3>1. shared \in [Keys -> Version] /\ memory \in [Processes -> [Keys -> Version]]
      BY DEF TypeOK
    <3>2. CASE up
      BY <1>9, <2>1, <3>1, <3>2 DEF Store
    <3>3. CASE ~up
      <4>1. shared' = shared /\ memory' = [memory EXCEPT ![p][k] = task[p][k].version]
        BY <1>9, <3>3 DEF Store
      <4>2. QED
        BY <2>1, <3>1, <4>1
    <3>4. QED
      BY <3>2, <3>3
  <2>4. QED
    BY <1>9, <2>2, <2>3, AnswersType DEF Store, TypeOK, index, Task, Steps
<1>10. ASSUME NEW p \in Processes, NEW k \in Keys, Settle(p, k) \/ Fails(p, k) PROVE TypeOK'
  <2>1. task[p][k].version \in Version /\ Miss \in Version
    BY NoTaskType DEF TypeOK
  <2>2. CASE Settle(p, k)
    BY <2>1, <2>2, EndsType DEF Settle
  <2>3. CASE Fails(p, k)
    BY <2>1, <2>3, EndsType DEF Fails
  <2>4. QED
    BY <1>10, <2>2, <2>3
<1>11. ASSUME NEW k \in Keys, Expire(k) PROVE TypeOK'
  <2>1. shared' \in [Keys -> Version]
    BY <1>11, NoTaskType DEF TypeOK, Expire
  <2>2. memory' \in [Processes -> [Keys -> Version]]
    <3>1. memory \in [Processes -> [Keys -> Version]]
      BY DEF TypeOK
    <3>2. CASE UNCHANGED memory
      BY <3>1, <3>2
    <3>3. ASSUME NEW p \in Processes, memory' = [memory EXCEPT ![p][k] = Miss]
          PROVE  memory' \in [Processes -> [Keys -> Version]]
      BY <3>1, <3>3, NoTaskType
    <3>4. QED
      BY <1>11, <3>2, <3>3 DEF Expire
  <2>3. QED
    BY <1>11, <2>1, <2>2 DEF TypeOK, Expire, index
<1>12. CASE UNCHANGED vars
  BY <1>12 DEF TypeOK, vars
<1>13. QED
  BY <1>1, <1>2, <1>3, <1>4, <1>5, <1>6, <1>7, <1>8, <1>9, <1>10, <1>11, <1>12
  DEF Next, Work, Proceed, IndexDocument, SetPayload

\* Type correctness of the summary service and its cache.
THEOREM TypeCorrect == Spec => []TypeOK
BY TypeInit, TypeStep, PTL DEF Spec

-----------------------------------------------------------------------------
(* Answers are fresh *)

Retrieved == {"first", "second", "store", "settle"}

\* A key is of a generation that has begun, and a summary under it was made from an
\* index that holds the writes whose bumps came before that generation.
Known(k, g) == k[2] # Local => k[2] <= g
Fresh(k, v, g, c) == k[2] # Local => k[2] <= g /\ c[k[2]] <= v

CoveredInv == \A g \in 0 .. MaxWrites : covered[g] <= version
CacheInv ==
    /\ \A k \in Keys : shared[k] # Miss => Fresh(k, shared[k], gen, covered)
    /\ \A p \in Processes, k \in Keys :
          memory[p][k] # Miss => Fresh(k, memory[p][k], gen, covered)
TaskInv ==
    \A p \in Processes, k \in Keys :
        /\ task[p][k].step # "none" => Known(k, gen)
        /\ task[p][k].step \in Retrieved => Fresh(k, task[p][k].version, gen, covered)
RequestInv ==
    \A r \in Requests :
        /\ Known(Key(r), gen)
        /\ req[r].pc = "answered" => Fresh(Key(r), req[r].version, gen, covered)
FreshInv == CoveredInv /\ CacheInv /\ TaskInv /\ RequestInv

LEMMA FreshInit == Init => FreshInv
<1> SUFFICES ASSUME Init PROVE FreshInv
  OBVIOUS
<1>1. CoveredInv
  BY SummaryAssumption DEF Init, CoveredInv, Miss
<1>2. CacheInv
  BY DEF Init, CacheInv
<1>3. TaskInv
  BY DEF Init, TaskInv, NoTask, Retrieved
<1>4. RequestInv
  BY DEF Init, RequestInv, Key, Known
<1>5. QED
  BY <1>1, <1>2, <1>3, <1>4 DEF FreshInv

\* What the index side may do: generations begin and none that has begun changes.
LEMMA FreshGrows ==
    ASSUME TypeOK, NEW k \in Keys, NEW v \in Version,
           UNCHANGED <<gen, covered>> \/ BumpIndexGeneration
    PROVE  /\ Known(k, gen) => Known(k, gen')
           /\ Fresh(k, v, gen, covered) => Fresh(k, v, gen', covered')
<1>1. k[2] # Local => k[2] \in 0 .. MaxWrites
  BY DEF Keys, Generations
<1>2. gen \in 0 .. MaxWrites /\ covered \in [0 .. MaxWrites -> Version]
  BY DEF TypeOK
<1>3. CASE UNCHANGED <<gen, covered>>
  BY <1>3
<1>4. CASE BumpIndexGeneration
  <2>1. gen' = gen + 1
    BY <1>4 DEF BumpIndexGeneration
  <2>2. \A g \in 0 .. MaxWrites : g <= gen => covered'[g] = covered[g]
    BY <1>2, <1>4, SummaryAssumption DEF BumpIndexGeneration
  <2>3. QED
    BY <1>1, <1>2, <2>1, <2>2, SummaryAssumption DEF Known, Fresh
<1>5. QED
  BY <1>3, <1>4

LEMMA FreshOfIndex ==
    ASSUME TypeOK, FreshInv,
           \/ IndexDocument \/ SetPayload \/ BumpIndexGeneration \/ BumpLost \/ UNCHANGED vars
    PROVE  FreshInv'
<1>1. UNCHANGED <<gen, covered>> \/ BumpIndexGeneration
  BY DEF IndexDocument, SetPayload, Write, BumpLost, vars
<1>2. UNCHANGED <<shared, memory, task, req>>
  BY DEF IndexDocument, SetPayload, Write, BumpLost, BumpIndexGeneration, vars
<1>3. CoveredInv'
  <2>1. CASE BumpIndexGeneration
    BY <2>1, SummaryAssumption DEF BumpIndexGeneration, FreshInv, CoveredInv, TypeOK, Version
  <2>2. CASE UNCHANGED covered /\ (version' = version + 1 \/ version' = version)
    BY <2>2, SummaryAssumption DEF FreshInv, CoveredInv, TypeOK, Version
  <2>3. QED
    BY <2>1, <2>2 DEF IndexDocument, SetPayload, Write, BumpLost, vars
<1>4. CacheInv'
  <2>1. shared \in [Keys -> Version] /\ memory \in [Processes -> [Keys -> Version]]
    BY DEF TypeOK
  <2>2. QED
    BY <1>1, <1>2, <2>1, FreshGrows DEF FreshInv, CacheInv
<1>5. TaskInv'
  <2>1. \A p \in Processes, k \in Keys : task[p][k].version \in Version
    BY DEF TypeOK
  <2>2. QED
    BY <1>1, <1>2, <2>1, FreshGrows DEF FreshInv, TaskInv
<1>6. RequestInv'
  <2>1. \A r \in Requests : req[r].version \in Version /\ Key(r) \in Keys /\ Key(r)' = Key(r)
    BY <1>2, KeyType DEF TypeOK, Key
  <2>2. QED
    BY <1>1, <1>2, <2>1, FreshGrows DEF FreshInv, RequestInv
<1>7. QED
  BY <1>3, <1>4, <1>5, <1>6 DEF FreshInv

\* A synthesis sees an index that holds the writes of every generation so far.
LEMMA FreshRetrieval ==
    ASSUME TypeOK, CoveredInv, NEW k \in Keys, Known(k, gen)
    PROVE  Fresh(k, version, gen, covered)
BY DEF CoveredInv, Known, Fresh, Keys, Generations

LEMMA FreshOfRequest ==
    ASSUME TypeOK, FreshInv, NEW r \in Requests,
           \/ \E up \in BOOLEAN : ReadKey(r, up) \/ Lookup(r, up)
           \/ JoinOrStart(r) \/ Disconnect(r)
    PROVE  FreshInv'
<1> USE DEF FreshInv
<1>1. UNCHANGED <<version, gen, covered, shared, memory>>
  BY DEF ReadKey, Lookup, JoinOrStart, Disconnect, index
<1>2. CoveredInv' /\ CacheInv'
  BY <1>1 DEF CoveredInv, CacheInv
<1>3. TaskInv'
  <2>1. CASE JoinOrStart(r)
    <3>1. \A p \in Processes, k \in Keys :
             \/ task'[p][k] = task[p][k]
             \/ k = Key(r) /\ task'[p][k] = [step |-> "retrieve", version |-> Miss]
      BY <2>1, KeyType DEF JoinOrStart, TypeOK
    <3>2. QED
      BY <1>1, <3>1 DEF TaskInv, RequestInv, Retrieved
  <2>2. CASE UNCHANGED task
    BY <1>1, <2>2 DEF TaskInv
  <2>3. QED
    BY <2>1, <2>2 DEF ReadKey, Lookup, Disconnect
<1>4. RequestInv'
  <2> DEFINE Moved == /\ \A q \in Requests : q # r => req'[q] = req[q]
                      /\ Known(Key(r)', gen)
                      /\ req'[r].pc = "answered" => Fresh(Key(r)', req'[r].version, gen, covered)
  <2>1. Moved
    <3>1. ASSUME NEW up \in BOOLEAN, ReadKey(r, up) PROVE Moved
      BY <3>1, SummaryAssumption DEF ReadKey, TypeOK, Key, Known, IndexGeneration
    <3>2. ASSUME NEW up \in BOOLEAN, Lookup(r, up) PROVE Moved
      <4>1. /\ req' = [req EXCEPT ![r].pc = IF Cached(r, up) = Miss THEN "miss" ELSE "answered",
                                  ![r].version = Cached(r, up)]
            /\ Key(r)' = Key(r)
        BY <3>2 DEF Lookup, TypeOK, Key
      <4>2. Cached(r, up) # Miss => Fresh(Key(r), Cached(r, up), gen, covered)
        BY KeyType DEF Cached, CacheInv
      <4>3. QED
        BY <4>1, <4>2 DEF TypeOK, RequestInv
    <3>3. CASE JoinOrStart(r) \/ Disconnect(r)
      BY <3>3 DEF JoinOrStart, Disconnect, Moves, TypeOK, Key, RequestInv
    <3>4. QED
      BY <3>1, <3>2, <3>3
  <2>2. \A q \in Requests : q # r => Key(q)' = Key(q)
    BY <2>1 DEF Key
  <2>3. QED
    BY <1>1, <2>1, <2>2 DEF RequestInv
<1>5. QED
  BY <1>2, <1>3, <1>4

LEMMA FreshStep ==
    ASSUME TypeOK, TaskInv, UNCHANGED <<gen, covered>>,
           NEW p \in Processes, NEW k \in Keys, NEW step \in Steps, NEW v \in Version,
           Does(p, k, step, v), Known(k, gen), Fresh(k, v, gen, covered)
    PROVE  TaskInv'
<1> SUFFICES ASSUME NEW q \in Processes, NEW l \in Keys
             PROVE  /\ task'[q][l].step # "none" => Known(l, gen)
                    /\ task'[q][l].step \in Retrieved => Fresh(l, task'[q][l].version, gen, covered)
  BY DEF TaskInv
<1>1. CASE q = p /\ l = k
  <2>1. task'[q][l] = [step |-> step, version |-> v]
    BY <1>1, DoesType
  <2>2. QED
    BY <1>1, <2>1
<1>2. CASE q # p \/ l # k
  <2>1. task'[q][l] = task[q][l]
    <3>1. \A x \in Processes, y \in Keys : (x # p \/ y # k) => task'[x][y] = task[x][y]
      BY DoesType
    <3>2. QED
      BY <1>2, <3>1
  <2>2. QED
    BY <2>1 DEF TaskInv
<1>3. QED
  BY <1>1, <1>2

LEMMA FreshOfTask ==
    ASSUME TypeOK, FreshInv, NEW p \in Processes, NEW k \in Keys, Work(p, k)
    PROVE  FreshInv'
<1> USE DEF FreshInv
<1>1. UNCHANGED <<version, gen, covered>>
  BY DEF Work, Retrieve, CallLlm, Store, Settle, Fails, Ends, index
<1>2. CoveredInv'
  BY <1>1 DEF CoveredInv
<1>3. task[p][k].version \in Version
  BY DEF TypeOK
<1>4. CASE Retrieve(p, k) \/ CallLlm(p, k)
  <2>1. PICK step \in Steps, v \in Version :
           Does(p, k, step, v) /\ Known(k, gen) /\ Fresh(k, v, gen, covered)
    <3>1. CASE Retrieve(p, k)
      <4>1. PICK some \in FoundSome : Does(p, k, IF some THEN "first" ELSE "settle", version)
        BY <3>1, Zenon DEF Retrieve
      <4>2. version \in Version /\ Known(k, gen)
        BY <3>1, SummaryAssumption DEF Retrieve, TypeOK, Version, TaskInv
      <4>3. QED
        BY <4>1, <4>2, FreshRetrieval DEF Steps
    <3>2. CASE CallLlm(p, k)
      <4>1. PICK usable \in AnswersUsable :
               Does(p, k, IF usable THEN "store"
                          ELSE IF task[p][k].step = "first" THEN "second" ELSE "settle",
                    task[p][k].version)
        BY <3>2, Zenon DEF CallLlm
      <4>2. Known(k, gen) /\ Fresh(k, task[p][k].version, gen, covered)
        BY <3>2 DEF CallLlm, TaskInv, Retrieved
      <4>3. QED
        BY <1>3, <4>1, <4>2 DEF Steps
    <3>3. QED
      BY <1>4, <3>1, <3>2
  <2>2. TaskInv'
    BY <1>1, <2>1, FreshStep
  <2>3. UNCHANGED <<shared, memory, req>>
    BY <1>4 DEF Retrieve, CallLlm
  <2>4. CacheInv' /\ RequestInv'
    BY <1>1, <2>3 DEF CacheInv, RequestInv, Key
  <2>5. QED
    BY <1>2, <2>2, <2>4
<1>5. ASSUME NEW up \in BOOLEAN, Store(p, k, up) PROVE FreshInv'
  <2>1. Known(k, gen) /\ Fresh(k, task[p][k].version, gen, covered)
    BY <1>5 DEF Store, TaskInv, Retrieved
  <2>2. Does(p, k, "settle", task[p][k].version)
    BY <1>5, Zenon DEF Store
  <2>3. TaskInv'
    BY <1>1, <1>3, <2>1, <2>2, FreshStep DEF Steps
  <2>4. /\ \A l \in Keys : shared'[l] = shared[l] \/ (l = k /\ shared'[l] = task[p][k].version)
        /\ \A q \in Processes, l \in Keys :
              memory'[q][l] = memory[q][l] \/ (l = k /\ memory'[q][l] = task[p][k].version)
    <3>1. shared \in [Keys -> Version] /\ memory \in [Processes -> [Keys -> Version]]
      BY DEF TypeOK
    <3>2. CASE up
      BY <1>5, <3>1, <3>2 DEF Store
    <3>3. CASE ~up
      <4>1. shared' = shared /\ memory' = [memory EXCEPT ![p][k] = task[p][k].version]
        BY <1>5, <3>3 DEF Store
      <4>2. QED
        BY <3>1, <4>1
    <3>4. QED
      BY <3>2, <3>3
  <2>5. CacheInv'
    BY <1>1, <2>1, <2>4 DEF CacheInv
  <2>6. RequestInv'
    BY <1>1, <1>5 DEF Store, RequestInv, Key
  <2>7. QED
    BY <1>2, <2>3, <2>5, <2>6
<1>6. CASE Settle(p, k) \/ Fails(p, k)
  <2>1. PICK pc \in {"answered", "failed"}, v \in Version :
           /\ Ends(p, k, pc, v)
           /\ pc = "answered" => Fresh(k, v, gen, covered)
    <3>1. CASE Settle(p, k)
      BY <1>3, <3>1 DEF Settle, TaskInv, Retrieved
    <3>2. CASE Fails(p, k)
      BY <3>2, NoTaskType DEF Fails
    <3>3. QED
      BY <1>6, <3>1, <3>2
  <2>2. TaskInv'
    <3>1. \A q \in Processes, l \in Keys : task'[q][l] = task[q][l] \/ task'[q][l] = NoTask
      BY <2>1 DEF Ends, Popped, TypeOK
    <3>2. QED
      BY <1>1, <3>1 DEF TaskInv, NoTask, Retrieved
  <2>3. \A r \in Requests : /\ Key(r)' = Key(r)
                            /\ \/ req'[r] = req[r]
                               \/ Key(r) = k /\ req'[r].pc = pc /\ req'[r].version = v
    BY <2>1 DEF Ends, Waits, TypeOK, Key
  <2>4. RequestInv'
    BY <1>1, <2>1, <2>3 DEF RequestInv
  <2>5. CacheInv'
    BY <1>1, <2>1 DEF Ends, CacheInv
  <2>6. QED
    BY <1>2, <2>2, <2>4, <2>5
<1>7. QED
  BY <1>4, <1>5, <1>6 DEF Work

LEMMA FreshOfExpiry ==
    ASSUME TypeOK, FreshInv, NEW k \in Keys, Expire(k)
    PROVE  FreshInv'
<1>1. UNCHANGED <<version, gen, covered, task, req>>
  BY DEF Expire, index
<1> DEFINE Dropped == /\ \A l \in Keys : shared'[l] = shared[l] \/ shared'[l] = Miss
                      /\ \A q \in Processes, l \in Keys :
                            memory'[q][l] = memory[q][l] \/ memory'[q][l] = Miss
<1>2. Dropped
  <2>1. shared \in [Keys -> Version] /\ memory \in [Processes -> [Keys -> Version]]
    BY DEF TypeOK
  <2>2. CASE UNCHANGED memory
    BY <2>1, <2>2 DEF Expire
  <2>3. ASSUME NEW p \in Processes, memory' = [memory EXCEPT ![p][k] = Miss], shared' = shared
        PROVE  Dropped
    BY <2>1, <2>3
  <2>4. QED
    BY <2>2, <2>3 DEF Expire
<1>3. CacheInv'
  BY <1>1, <1>2 DEF FreshInv, CacheInv
<1>4. QED
  BY <1>1, <1>3 DEF FreshInv, CoveredInv, TaskInv, RequestInv, Key

\* For any number of requests, processes, writes and outages: an answer under a generation
\* of Redis was made from an index that holds every write whose bump came before it.
THEOREM AnswersFresh == Spec => []AnswersAreFresh
<1>1. TypeOK /\ FreshInv /\ [Next]_vars => FreshInv'
  <2> SUFFICES ASSUME TypeOK, FreshInv, [Next]_vars
               PROVE  FreshInv'
    OBVIOUS
  <2>1. CASE IndexDocument \/ SetPayload \/ BumpIndexGeneration \/ BumpLost \/ UNCHANGED vars
    BY <2>1, FreshOfIndex
  <2>2. ASSUME NEW r \in Requests,
               (\E up \in BOOLEAN : ReadKey(r, up)) \/ Proceed(r) \/ Disconnect(r)
        PROVE  FreshInv'
    BY <2>2, FreshOfRequest DEF Proceed
  <2>3. ASSUME NEW p \in Processes, NEW k \in Keys, Work(p, k) PROVE FreshInv'
    BY <2>3, FreshOfTask
  <2>4. ASSUME NEW k \in Keys, Expire(k) PROVE FreshInv'
    BY <2>4, FreshOfExpiry
  <2>5. QED
    BY <2>1, <2>2, <2>3, <2>4 DEF Next
<1>2. FreshInv => AnswersAreFresh
  <2>1. ASSUME NEW r \in Requests, FreshInv, req[r].pc = "answered", req[r].gen # Local
        PROVE  req[r].version >= covered[req[r].gen]
    BY <2>1 DEF FreshInv, RequestInv, Fresh, Key
  <2>2. QED
    BY <2>1 DEF AnswersAreFresh
<1>3. QED
  BY <1>1, <1>2, FreshInit, TypeCorrect, PTL DEF Spec

-----------------------------------------------------------------------------
(* THE TEXT OF A SUMMARY: the words of an answer *)

\* What an answer is made of; every word of it knows its place.
Placed == [at : Nat, is : {w.is : w \in Words}, n : {w.n : w \in Words}]
Ascends(q) == \A a, b \in DOMAIN q : a < b => q[a].at < q[b].at
IsRaw(raw) == raw \in Seq(Placed) /\ \A i \in DOMAIN raw : raw[i].at = i

\* Every answer is such a sequence.
LEMMA RawHolds == \A raw \in RawAnswers : IsRaw(raw)
<1> SUFFICES ASSUME NEW raw \in RawAnswers PROVE IsRaw(raw)
  OBVIOUS
<1>1. PICK a \in Lists(Words, AnswerLength) :
        raw = [i \in DOMAIN a |-> [at |-> i, is |-> a[i].is, n |-> a[i].n]]
  BY DEF RawAnswers
<1>2. PICK k \in 0 .. AnswerLength : a \in [1 .. k -> Words]
  BY DEF Lists
<1>3. k \in Nat
  BY SummaryTextAssumption
<1>4. \A i \in 1 .. k : [at |-> i, is |-> a[i].is, n |-> a[i].n] \in Placed
  <2>1. ASSUME NEW i \in 1 .. k PROVE [at |-> i, is |-> a[i].is, n |-> a[i].n] \in Placed
    <3>1. a[i] \in Words /\ i \in Nat
      BY <1>2
    <3>2. QED
      BY <3>1 DEF Placed
  <2>2. QED
    BY <2>1
<1>5. raw \in [1 .. k -> Placed]
  BY <1>1, <1>2, <1>4
<1>6. QED
  BY <1>1, <1>2, <1>3, <1>5 DEF IsRaw

\* A place is a number.
LEMMA HasPlace == \A t \in Placed : t.at \in Nat
  BY DEF Placed

\* The end of a sequence after a place.
LEMMA EndOf ==
    ASSUME NEW S, NEW q \in Seq(S), NEW n \in 0 .. Len(q)
    PROVE  LET r == SubSeq(q, n + 1, Len(q)) IN
           /\ r \in Seq(S) /\ Len(r) = Len(q) - n
           /\ \A k \in 1 .. Len(q) - n : r[k] = q[n + k]
<1>1. Len(q) \in Nat /\ n \in Nat
  OBVIOUS
<1>2. QED
  BY <1>1

\* What is after the last of a kind, in a text whose words are in their order.
IsAfter(q, is, r) ==
    /\ Ascends(r)
    /\ Range(r) = {t \in Range(q) : \A u \in Range(q) : u.is = is => u.at < t.at}

\* What is after the last of a kind of tag.
LEMMA AfterLastHolds ==
    ASSUME NEW q \in Seq(Placed), NEW is
    PROVE  /\ AfterLast(q, is) \in Seq(Placed)
           /\ Range(AfterLast(q, is)) \subseteq Range(q)
           /\ Ascends(q) => IsAfter(q, is, AfterLast(q, is))
<1> DEFINE from == {i \in 0 .. Len(q) : \A j \in i + 1 .. Len(q) : q[j].is # is}
           n == CHOOSE i \in from : \A j \in from : i <= j
           r == SubSeq(q, n + 1, Len(q))
<1>0. Len(q) \in Nat /\ DOMAIN q = 1 .. Len(q) /\ \A k \in 1 .. Len(q) : q[k] \in Placed
  OBVIOUS
<1>1. Len(q) \in Nat /\ DOMAIN q = 1 .. Len(q) /\ \A k \in 1 .. Len(q) : q[k] \in Placed /\
        q[k].at \in Nat
  BY <1>0, HasPlace
<1>2. n \in from /\ \A j \in from : n <= j
  <2>1. from \in SUBSET Nat /\ Len(q) \in from
    BY <1>1
  <2> HIDE DEF from
  <2>2. \E i \in from : \A j \in from : i <= j
    BY <2>1, LeastOf
  <2>3. QED
    BY <2>2
<1> HIDE DEF n
<1>3. n \in 0 .. Len(q) /\ n \in Nat /\ \A j \in n + 1 .. Len(q) : q[j].is # is
  BY <1>1, <1>2
<1>4. n # 0 => q[n].is = is
  <2> SUFFICES ASSUME n # 0 PROVE q[n].is = is
    OBVIOUS
  <2>1. n - 1 \in 0 .. Len(q) /\ n - 1 \notin from
    <3> HIDE DEF from
    <3>1. n - 1 \in from => n <= n - 1
      BY <1>2
    <3>2. n - 1 \in 0 .. Len(q) /\ ~(n <= n - 1)
      BY <1>1, <1>3
    <3>3. QED
      BY <3>1, <3>2
  <2>2. PICK j \in (n - 1) + 1 .. Len(q) : q[j].is = is
    BY <2>1
  <2>3. j = n
    BY <1>1, <1>3, <2>2
  <2>4. QED
    BY <2>2, <2>3
<1>5. r \in Seq(Placed) /\ Len(r) = Len(q) - n /\ \A k \in 1 .. Len(q) - n : r[k] = q[n + k]
  BY <1>3, EndOf
<1>6. AfterLast(q, is) = r
  BY DEF AfterLast, r, n, from
<1> HIDE DEF r, from
<1>7. DOMAIN r = 1 .. Len(q) - n
  BY <1>5
<1>8. Range(r) = {q[k] : k \in n + 1 .. Len(q)}
  <2>1. ASSUME NEW k \in 1 .. Len(q) - n PROVE r[k] \in {q[j] : j \in n + 1 .. Len(q)}
    <3>1. n + k \in n + 1 .. Len(q)
      BY <1>1, <1>3
    <3>2. QED
      BY <1>5, <3>1
  <2>2. ASSUME NEW k \in n + 1 .. Len(q) PROVE q[k] \in Range(r)
    <3>1. k - n \in 1 .. Len(q) - n /\ n + (k - n) = k
      BY <1>1, <1>3
    <3>2. r[k - n] = q[k]
      BY <1>5, <3>1
    <3>3. QED
      BY <1>7, <3>1, <3>2 DEF Range
  <2>3. QED
    BY <1>7, <2>1, <2>2 DEF Range
<1>9. Range(r) \subseteq Range(q)
  BY <1>1, <1>3, <1>8 DEF Range
<1>10. ASSUME Ascends(q) PROVE IsAfter(q, is, r)
  <2>1. Ascends(r)
    <3> SUFFICES ASSUME NEW a \in 1 .. Len(q) - n, NEW b \in 1 .. Len(q) - n, a < b
                 PROVE  r[a].at < r[b].at
      BY <1>7 DEF Ascends
    <3>1. n + a \in DOMAIN q /\ n + b \in DOMAIN q /\ n + a < n + b
      BY <1>1, <1>3
    <3>2. QED
      BY <1>5, <1>10, <3>1 DEF Ascends
  <2>2. ASSUME NEW k \in n + 1 .. Len(q), NEW u \in Range(q), u.is = is PROVE u.at < q[k].at
    <3>1. PICK j \in DOMAIN q : u = q[j]
      BY DEF Range
    <3>2. j < k /\ k \in DOMAIN q
      BY <1>1, <1>3, <2>2, <3>1
    <3>3. QED
      BY <1>10, <3>1, <3>2 DEF Ascends
  <2>3. ASSUME NEW t \in Range(q), \A u \in Range(q) : u.is = is => u.at < t.at
        PROVE  t \in Range(r)
    <3>1. PICK k \in DOMAIN q : t = q[k]
      BY DEF Range
    <3>2. k > n
      <4>1. CASE n = 0
        BY <1>1, <4>1
      <4>2. CASE n # 0
        <5>1. n \in DOMAIN q /\ q[n] \in Range(q)
          BY <1>1, <1>3, <4>2 DEF Range
        <5>2. q[n].at < q[k].at
          BY <1>4, <2>3, <3>1, <4>2, <5>1
        <5>3. ~(k = n) /\ ~(k < n)
          <6>1. q[n].at \in Nat /\ q[k].at \in Nat
            BY <1>1, <3>1, <5>1
          <6>2. k < n => q[k].at < q[n].at
            BY <1>10, <3>1, <5>1 DEF Ascends
          <6>3. QED
            BY <5>2, <6>1, <6>2
        <5>4. QED
          BY <1>1, <1>3, <3>1, <5>3
      <4>3. QED
        BY <4>1, <4>2
    <3>3. k \in n + 1 .. Len(q)
      BY <1>1, <1>3, <3>1, <3>2
    <3>4. QED
      BY <1>8, <3>1, <3>3
  <2>4. Range(r) \subseteq {t \in Range(q) : \A u \in Range(q) : u.is = is => u.at < t.at}
    BY <1>8, <1>9, <2>2
  <2>5. QED
    BY <2>1, <2>3, <2>4 DEF IsAfter
<1>11. QED
  BY <1>5, <1>6, <1>9, <1>10

\* What is before the first of a kind.
LEMMA BeforeFirstHolds ==
    ASSUME NEW q \in Seq(Placed), NEW is
    PROVE  /\ BeforeFirst(q, is) \in Seq(Placed)
           /\ Range(BeforeFirst(q, is)) \subseteq Range(q)
           /\ ~Has(q, is) => BeforeFirst(q, is) = q
           /\ Ascends(q) => \A t \in Range(BeforeFirst(q, is)), u \in Range(q) :
                               u.is = is => t.at < u.at
<1> DEFINE upto == {i \in 0 .. Len(q) : \A j \in 1 .. i : q[j].is # is}
           n == CHOOSE i \in upto : \A j \in upto : j <= i
           r == SubSeq(q, 1, n)
<1>0. Len(q) \in Nat /\ DOMAIN q = 1 .. Len(q) /\ \A k \in 1 .. Len(q) : q[k] \in Placed
  OBVIOUS
<1>1. Len(q) \in Nat /\ DOMAIN q = 1 .. Len(q) /\ \A k \in 1 .. Len(q) : q[k] \in Placed /\
        q[k].at \in Nat
  BY <1>0, HasPlace
<1>2. n \in upto /\ \A j \in upto : j <= n
  <2> DEFINE left == {Len(q) - i : i \in upto}
  <2>1. 0 \in upto /\ upto \subseteq 0 .. Len(q)
    BY <1>1
  <2> HIDE DEF upto
  <2>2. left \in SUBSET Nat /\ left # {}
    <3>1. ASSUME NEW i \in upto PROVE Len(q) - i \in Nat
      BY <1>1, <2>1
    <3>2. QED
      BY <2>1, <3>1
  <2>3. PICK d \in left : \A e \in left : d <= e
    BY <2>2, LeastOf
  <2>4. PICK i \in upto : d = Len(q) - i
    BY <2>3
  <2>5. \A j \in upto : j <= i
    <3>1. ASSUME NEW j \in upto PROVE j <= i
      <4>1. d <= Len(q) - j
        BY <2>3
      <4>2. j \in Nat /\ i \in Nat
        BY <2>1
      <4>3. QED
        BY <1>1, <2>4, <4>1, <4>2
    <3>2. QED
      BY <3>1
  <2>6. QED
    BY <2>5
<1> HIDE DEF n
<1>3. n \in 0 .. Len(q) /\ n \in Nat /\ \A j \in 1 .. n : q[j].is # is
  BY <1>1, <1>2
<1>4. r \in Seq(Placed) /\ Len(r) = n /\ \A k \in 1 .. n : r[k] = q[k]
  BY <1>1, <1>3
<1>5. BeforeFirst(q, is) = r
  BY DEF BeforeFirst, r, n, upto
<1>6. Range(r) = {q[k] : k \in 1 .. n}
  <2>1. DOMAIN r = 1 .. n
    BY <1>4
  <2>2. QED
    BY <1>4, <2>1 DEF Range
<1>7. Range(r) \subseteq Range(q)
  BY <1>1, <1>3, <1>6 DEF Range
<1>8. ASSUME ~Has(q, is) PROVE r = q
  <2>1. Len(q) \in upto
    BY <1>1, <1>8 DEF Has
  <2> HIDE DEF upto
  <2>2. Len(q) <= n
    BY <1>2, <2>1
  <2>3. Len(q) \in Nat /\ n \in Nat /\ n <= Len(q)
    BY <1>0, <1>3
  <2>4. n = Len(q)
    BY <2>2, <2>3
  <2>5. QED
    BY <1>1, <1>4, <2>4
<1>9. ASSUME Ascends(q), NEW k \in 1 .. n, NEW u \in Range(q), u.is = is PROVE q[k].at < u.at
  <2>1. PICK j \in DOMAIN q : u = q[j]
    BY DEF Range
  <2>2. k < j /\ k \in DOMAIN q
    BY <1>1, <1>3, <1>9, <2>1
  <2>3. QED
    BY <1>9, <2>1, <2>2 DEF Ascends
<1> HIDE DEF r, upto
<1>10. Ascends(q) => \A t \in Range(r), u \in Range(q) : u.is = is => t.at < u.at
  BY <1>6, <1>9
<1>11. QED
  BY <1>4, <1>5, <1>7, <1>8, <1>10

-----------------------------------------------------------------------------
(* Blocks that nest *)

\* Within what an open begins and no close has ended: the expression of the code, which
\* takes the first close for the end of every block that is open.
Opened(raw, i, open, close) ==
    \E j \in 1 .. i - 1 : raw[j].is = open /\ \A k \in j + 1 .. i - 1 : raw[k].is # close
Marked(raw, i, open, close) ==
    \/ Opened(raw, i + 1, open, close)
    \/ \E j \in i .. Len(raw) : raw[j].is = close /\ ~Opened(raw, j, open, close)

\* The tags of a kind between two places.
Tags(raw, j, k, is) == {m \in j .. k : raw[m].is = is}

LEMMA TagsCounted ==
    ASSUME NEW raw, NEW j \in Nat, NEW k \in Nat, NEW is
    PROVE  /\ IsFiniteSet(Tags(raw, j, k, is))
           /\ HowMany(raw, j, k, is) = Cardinality(Tags(raw, j, k, is))
           /\ HowMany(raw, j, k, is) \in Nat
           /\ HowMany(raw, j, k, is) = 0 <=> Tags(raw, j, k, is) = {}
<1>1. IsFiniteSet(j .. k) /\ Tags(raw, j, k, is) \in SUBSET (j .. k)
  BY FS_Interval DEF Tags
<1>2. IsFiniteSet(Tags(raw, j, k, is))
  BY <1>1, FS_Subset
<1>3. HowMany(raw, j, k, is) = Cardinality(Tags(raw, j, k, is))
  BY DEF HowMany, Tags
<1>4. QED
  BY <1>2, <1>3, FS_CardinalityType, FS_EmptySet

\* The tags up to a place and those after it.
LEMMA TagsSplit ==
    ASSUME NEW raw, NEW j \in Nat, NEW i \in Nat, NEW k \in Nat, j <= i, i < k, NEW is
    PROVE  HowMany(raw, j, k, is) = HowMany(raw, j, i, is) + HowMany(raw, i + 1, k, is)
<1> DEFINE S == Tags(raw, j, i, is)
           T == Tags(raw, i + 1, k, is)
<1>1. Tags(raw, j, k, is) = S \cup T /\ S \cap T = {}
  BY DEF Tags
<1>2. IsFiniteSet(S) /\ IsFiniteSet(T) /\ Cardinality(S) \in Nat /\ Cardinality(T) \in Nat
  BY TagsCounted
<1>3. Cardinality(S \cup T) = Cardinality(S) + Cardinality(T)
  BY <1>1, <1>2, FS_Union, FS_EmptySet
<1>4. QED
  BY <1>1, <1>3, TagsCounted

LEMMA OpenedEncloses ==
    ASSUME NEW raw, NEW i \in Nat, NEW open, NEW close, open # close,
           Opened(raw, i, open, close)
    PROVE  Enclosed(raw, i, open, close)
<1>1. PICK j \in 1 .. i - 1 : raw[j].is = open /\ \A k \in j + 1 .. i - 1 : raw[k].is # close
  BY DEF Opened
<1>2. ASSUME NEW k \in j .. i - 1
      PROVE  HowMany(raw, j, k, close) < HowMany(raw, j, k, open)
  <2>1. j \in Nat /\ k \in Nat /\ j \in j .. k
    OBVIOUS
  <2>2. Tags(raw, j, k, close) = {}
    <3> SUFFICES ASSUME NEW m \in j .. k PROVE raw[m].is # close
      BY DEF Tags
    <3>1. m = j \/ m \in j + 1 .. i - 1
      OBVIOUS
    <3>2. QED
      BY <1>1, <3>1
  <2>3. j \in Tags(raw, j, k, open)
    BY <1>1, <2>1 DEF Tags
  <2>4. HowMany(raw, j, k, close) = 0
    BY <2>1, <2>2, TagsCounted
  <2>5. HowMany(raw, j, k, open) \in Nat /\ HowMany(raw, j, k, open) # 0
    BY <2>1, <2>3, TagsCounted
  <2>6. QED
    BY <2>4, <2>5
<1>3. QED
  BY <1>2 DEF Enclosed

\* A block begins with its opening.
LEMMA EnclosedBy ==
    ASSUME NEW raw, NEW j \in Nat, NEW open, NEW close,
           HowMany(raw, j, j, close) < HowMany(raw, j, j, open)
    PROVE  raw[j].is = open
<1>1. /\ HowMany(raw, j, j, close) \in Nat /\ HowMany(raw, j, j, open) \in Nat
      /\ HowMany(raw, j, j, open) = 0 <=> Tags(raw, j, j, open) = {}
  BY TagsCounted
<1>2. PICK m \in j .. j : raw[m].is = open
  BY <1>1 DEF Tags
<1>3. QED
  BY <1>2

\* Where no block begins within another, both notions are one.
LEMMA EnclosedIsOpened ==
    ASSUME NEW raw, Len(raw) \in Nat, DOMAIN raw = 1 .. Len(raw),
           NEW i \in 1 .. Len(raw) + 1, NEW open, NEW close, open # close,
           \A m \in DOMAIN raw : raw[m].is = open => ~Enclosed(raw, m, open, close),
           Enclosed(raw, i, open, close)
    PROVE  Opened(raw, i, open, close)
<1>1. PICK j \in 1 .. i - 1 :
        \A k \in j .. i - 1 : HowMany(raw, j, k, close) < HowMany(raw, j, k, open)
  BY DEF Enclosed
<1>2. j \in Nat /\ j \in j .. i - 1
  OBVIOUS
<1>3. raw[j].is = open
  BY <1>1, <1>2, EnclosedBy
<1> DEFINE Closes == {m \in j + 1 .. i - 1 : raw[m].is = close}
<1>4. CASE Closes = {}
  BY <1>3, <1>4 DEF Opened
<1>5. CASE Closes # {}
  <2>1. PICK e \in Closes : \A m \in Closes : e <= m
    <3>1. Closes \subseteq Nat
      OBVIOUS
    <3>2. QED
      BY <1>5, <3>1, LeastOf
  <2>2. e \in j + 1 .. i - 1 /\ raw[e].is = close /\ e \in Nat
    OBVIOUS
  <2>3. ASSUME NEW m \in j + 1 .. e - 1 PROVE raw[m].is # close /\ raw[m].is # open
    <3>1. m \in j + 1 .. i - 1 /\ m < e /\ m \in DOMAIN raw /\ m \in Nat
      BY <2>2
    <3>2. raw[m].is # close
      BY <2>1, <2>2, <3>1
    <3>3. \A n \in j + 1 .. m - 1 : raw[n].is # close
      <4> SUFFICES ASSUME NEW n \in j + 1 .. m - 1, raw[n].is = close PROVE FALSE
        OBVIOUS
      <4>1. n \in Closes /\ n < e
        BY <3>1
      <4>2. QED
        BY <2>1, <2>2, <4>1
    <3>4. Opened(raw, m, open, close)
      BY <1>3, <3>1, <3>3 DEF Opened
    <3>5. QED
      BY <3>1, <3>2, <3>4, OpenedEncloses
  <2>4. Tags(raw, j, e, open) = {j}
    <3>1. ASSUME NEW m \in j .. e, raw[m].is = open PROVE m = j
      <4>1. m = j \/ m = e \/ m \in j + 1 .. e - 1
        BY <2>2
      <4>2. QED
        BY <2>2, <2>3, <3>1, <4>1
    <3>2. j \in j .. e
      BY <2>2
    <3>3. QED
      BY <1>3, <3>1, <3>2 DEF Tags
  <2>5. HowMany(raw, j, e, open) = 1
    <3>1. HowMany(raw, j, e, open) = Cardinality(Tags(raw, j, e, open))
      BY <1>2, <2>2, TagsCounted
    <3>2. QED
      BY <2>4, <3>1, FS_Singleton
  <2>6. e \in Tags(raw, j, e, close)
    BY <2>2 DEF Tags
  <2>7. HowMany(raw, j, e, close) # 0 /\ HowMany(raw, j, e, close) \in Nat
    BY <1>2, <2>2, <2>6, TagsCounted
  <2>8. HowMany(raw, j, e, close) < HowMany(raw, j, e, open)
    BY <1>1, <2>2
  <2>9. QED
    BY <2>5, <2>7, <2>8
<1>6. QED
  BY <1>4, <1>5

\* After a place that is not opened, and where each later close is, an open lies between any
\* two closes: up to every place there are as many opens as closes.
LEMMA LaterCloses ==
    ASSUME NEW raw, Len(raw) \in Nat, NEW i \in Nat, NEW open, NEW close, open # close,
           ~Opened(raw, i + 1, open, close),
           \A d \in i + 1 .. Len(raw) : raw[d].is = close => Opened(raw, d, open, close),
           NEW k \in i + 1 .. Len(raw)
    PROVE  HowMany(raw, i + 1, k, close) <= HowMany(raw, i + 1, k, open)
<1> DEFINE S == Tags(raw, i + 1, k, close)
           T == Tags(raw, i + 1, k, open)
           Begins(d, m) == raw[m].is = open /\ \A n \in m + 1 .. d - 1 : raw[n].is # close
<1>1. /\ IsFiniteSet(S) /\ IsFiniteSet(T)
      /\ HowMany(raw, i + 1, k, close) = Cardinality(S) /\ Cardinality(S) \in Nat
      /\ HowMany(raw, i + 1, k, open) = Cardinality(T) /\ Cardinality(T) \in Nat
  <2>1. i + 1 \in Nat /\ k \in Nat
    OBVIOUS
  <2>2. \A is : /\ IsFiniteSet(Tags(raw, i + 1, k, is))
                /\ HowMany(raw, i + 1, k, is) = Cardinality(Tags(raw, i + 1, k, is))
                /\ HowMany(raw, i + 1, k, is) \in Nat
    BY <2>1, TagsCounted
  <2>3. QED
    BY <2>2
<1>2. ASSUME NEW d \in S PROVE \E m \in T : m < d /\ Begins(d, m)
  <2>1. d \in i + 1 .. k /\ raw[d].is = close /\ d \in Nat
    BY DEF Tags
  <2>2. Opened(raw, d, open, close)
    BY <2>1
  <2>3. PICK m \in 1 .. d - 1 : raw[m].is = open /\ \A n \in m + 1 .. d - 1 : raw[n].is # close
    BY <2>2 DEF Opened
  <2>4. CASE m <= i
    <3>1. m \in 1 .. (i + 1) - 1 /\ \A n \in m + 1 .. (i + 1) - 1 : n \in m + 1 .. d - 1
      BY <2>1, <2>4
    <3>2. Opened(raw, i + 1, open, close)
      BY <2>3, <3>1 DEF Opened
    <3>3. QED
      BY <3>2
  <2>5. CASE m > i
    <3>1. m \in T /\ m < d
      BY <2>1, <2>3, <2>5 DEF Tags
    <3>2. QED
      BY <2>3, <3>1
  <2>6. QED
    BY <2>4, <2>5
<1> DEFINE f == [d \in S |-> CHOOSE m \in T : m < d /\ Begins(d, m)]
<1>3. \A d \in S : f[d] \in T /\ f[d] < d /\ Begins(d, f[d])
  BY <1>2
<1>4. f \in [S -> T]
  BY <1>3
<1>5. ASSUME NEW x \in S, NEW y \in S, x < y, f[x] = f[y] PROVE FALSE
  <2>1. /\ x \in i + 1 .. k /\ y \in i + 1 .. k /\ f[y] \in i + 1 .. k
        /\ raw[x].is = close
    BY <1>3 DEF Tags
  <2>2. f[y] < x /\ Begins(y, f[y])
    BY <1>3, <1>5
  <2>3. x \in f[y] + 1 .. y - 1
    BY <1>5, <2>1, <2>2
  <2>4. QED
    BY <2>1, <2>2, <2>3
<1>6. \A x, y \in S : x \in Nat /\ y \in Nat
  BY DEF Tags
<1>7. ~ \E x, y \in S : x # y /\ f[x] = f[y]
  <2> HIDE DEF f, S
  <2>1. QED
    BY <1>5, <1>6
<1> HIDE DEF f, S, T
<1>8. ~(Cardinality(T) < Cardinality(S))
  BY <1>1, <1>4, <1>7, FS_PigeonHole
<1>9. QED
  BY <1>1, <1>8

\* What the expression of the code leaves is not reasoning, unless the answer is cut in a
\* block around one that was closed.
LEMMA MarkedIsAll ==
    ASSUME NEW raw, Len(raw) \in Nat, DOMAIN raw = 1 .. Len(raw), NEW i \in DOMAIN raw,
           NEW open, NEW close, open # close,
           ~Marked(raw, i, open, close), ~Unfinished(raw, open, close)
    PROVE  ~Reasoning(raw, i, open, close)
<1>1. /\ i \in Nat /\ i \in 1 .. Len(raw)
      /\ ~Opened(raw, i + 1, open, close)
      /\ \A d \in i .. Len(raw) : raw[d].is = close => Opened(raw, d, open, close)
  BY DEF Marked
<1>2. \A d \in i .. Len(raw) : raw[d].is = close => Enclosed(raw, d, open, close)
  BY <1>1, OpenedEncloses
<1>3. ~Enclosed(raw, i + 1, open, close)
  <2> SUFFICES ASSUME Enclosed(raw, i + 1, open, close) PROVE FALSE
    OBVIOUS
  <2>1. PICK j \in 1 .. i :
          \A k \in j .. i : HowMany(raw, j, k, close) < HowMany(raw, j, k, open)
    BY <1>1 DEF Enclosed
  <2>2. j \in Nat /\ j \in j .. i /\ raw[j].is = open
    BY <1>1, <2>1, EnclosedBy
  <2> DEFINE Closes == {m \in 1 .. Len(raw) : raw[m].is = close}
  <2>3. PICK c \in Closes : \A m \in c + 1 .. Len(raw) : raw[m].is # close
    <3>1. Closes # {}
      <4> SUFFICES ASSUME Closes = {} PROVE FALSE
        OBVIOUS
      <4>1. \A k \in j + 1 .. (i + 1) - 1 : raw[k].is # close
        BY <1>1
      <4>2. j \in 1 .. (i + 1) - 1
        BY <1>1
      <4>3. Opened(raw, i + 1, open, close)
        BY <2>2, <4>1, <4>2 DEF Opened
      <4>4. QED
        BY <1>1, <4>3
    <3> DEFINE Back == {Len(raw) - m : m \in Closes}
    <3>2. Back \subseteq Nat /\ Back # {}
      BY <3>1
    <3>3. PICK b \in Back : \A x \in Back : b <= x
      BY <3>2, LeastOf
    <3>4. PICK c \in Closes : b = Len(raw) - c
      OBVIOUS
    <3>5. ASSUME NEW m \in c + 1 .. Len(raw), raw[m].is = close PROVE FALSE
      <4>1. m \in Closes /\ m > c
        BY <3>4, <3>5
      <4>2. Len(raw) - m \in Back
        BY <4>1
      <4>3. Len(raw) - c <= Len(raw) - m
        BY <3>3, <3>4, <4>2
      <4>4. QED
        BY <4>1, <4>3
    <3>6. QED
      BY <3>4, <3>5
  <2>4. c \in 1 .. Len(raw) /\ c \in Nat /\ raw[c].is = close
    OBVIOUS
  <2> HIDE DEF Closes
  <2>5. ~Enclosed(raw, c + 1, open, close)
    BY <2>3, <2>4 DEF Unfinished
  <2>6. CASE c < j
    <3>1. \A k \in j + 1 .. (i + 1) - 1 : k \in c + 1 .. Len(raw)
      BY <1>1, <2>4, <2>6
    <3>2. j \in 1 .. (i + 1) - 1
      BY <1>1
    <3>3. Opened(raw, i + 1, open, close)
      BY <2>2, <2>3, <3>1, <3>2 DEF Opened
    <3>4. QED
      BY <1>1, <3>3
  <2>7. CASE j <= c /\ c <= i
    <3>1. j \in 1 .. (c + 1) - 1 /\ \A k \in j .. (c + 1) - 1 : k \in j .. i
      BY <1>1, <2>4, <2>7
    <3>2. QED
      BY <2>1, <2>5, <3>1 DEF Enclosed
  <2>8. CASE j <= c /\ i < c
    <3>1. j \in 1 .. (c + 1) - 1
      BY <1>1, <2>4, <2>8
    <3>2. PICK k \in j .. (c + 1) - 1 : ~(HowMany(raw, j, k, close) < HowMany(raw, j, k, open))
      BY <2>5, <3>1 DEF Enclosed
    <3>3. k \notin j .. i /\ k \in Nat
      BY <2>1, <3>2
    <3>4. k \in i + 1 .. Len(raw) /\ i < k
      BY <1>1, <2>4, <3>2, <3>3
    <3>5. HowMany(raw, i + 1, k, close) <= HowMany(raw, i + 1, k, open)
      <4>1. \A d \in i + 1 .. Len(raw) : d \in i .. Len(raw)
        BY <1>1
      <4>2. QED
        BY <1>1, <3>4, <4>1, LaterCloses
    <3>6. HowMany(raw, j, i, close) < HowMany(raw, j, i, open)
      BY <1>1, <2>1, <2>2
    <3>7. /\ HowMany(raw, j, k, close) = HowMany(raw, j, i, close) + HowMany(raw, i + 1, k, close)
          /\ HowMany(raw, j, k, open) = HowMany(raw, j, i, open) + HowMany(raw, i + 1, k, open)
      <4>1. j <= i
        BY <1>1
      <4>2. QED
        BY <1>1, <2>2, <3>3, <3>4, <4>1, TagsSplit
    <3>8. /\ HowMany(raw, j, i, close) \in Nat /\ HowMany(raw, i + 1, k, close) \in Nat
          /\ HowMany(raw, j, i, open) \in Nat /\ HowMany(raw, i + 1, k, open) \in Nat
      <4>1. j \in Nat /\ i \in Nat /\ i + 1 \in Nat /\ k \in Nat
        BY <1>1, <2>2, <3>3
      <4>2. QED
        BY <4>1, TagsCounted
    <3>9. QED
      BY <3>2, <3>5, <3>6, <3>7, <3>8
  <2>9. QED
    BY <1>1, <2>4, <2>6, <2>7, <2>8
<1>4. QED
  BY <1>2, <1>3 DEF Reasoning

\* Delimiters that alternate and are all closed leave no block open.
LEMMA AlternateFinished ==
    ASSUME NEW raw, Len(raw) \in Nat, DOMAIN raw = 1 .. Len(raw),
           Has(raw, "begin") /\ Has(raw, "end") =>
              /\ \A i \in DOMAIN raw : raw[i].is \in {"begin", "end"} =>
                    (raw[i].is = "end" <=> Enclosed(raw, i, "begin", "end"))
              /\ ~Enclosed(raw, Len(raw) + 1, "begin", "end")
    PROVE  /\ ~Unfinished(raw, "begin", "end")
           /\ Has(raw, "begin") /\ Has(raw, "end") =>
              /\ \A i \in DOMAIN raw : raw[i].is \in {"begin", "end"} =>
                    (raw[i].is = "end" <=> Opened(raw, i, "begin", "end"))
              /\ ~Opened(raw, Len(raw) + 1, "begin", "end")
<1>1. ASSUME Has(raw, "begin"), Has(raw, "end")
      PROVE  /\ \A i \in DOMAIN raw : raw[i].is \in {"begin", "end"} =>
                    (raw[i].is = "end" <=> Opened(raw, i, "begin", "end"))
             /\ ~Opened(raw, Len(raw) + 1, "begin", "end")
  <2>1. \A m \in DOMAIN raw : raw[m].is = "begin" => ~Enclosed(raw, m, "begin", "end")
    BY <1>1
  <2>2. ASSUME NEW i \in 1 .. Len(raw) + 1
        PROVE  Opened(raw, i, "begin", "end") <=> Enclosed(raw, i, "begin", "end")
    <3>1. i \in Nat
      OBVIOUS
    <3>2. QED
      BY <2>1, <3>1, EnclosedIsOpened, OpenedEncloses
  <2>3. Len(raw) + 1 \in 1 .. Len(raw) + 1 /\ \A i \in DOMAIN raw : i \in 1 .. Len(raw) + 1
    OBVIOUS
  <2>4. QED
    BY <1>1, <2>2, <2>3
<1>2. ASSUME Unfinished(raw, "begin", "end") PROVE FALSE
  <2>1. PICK c \in DOMAIN raw :
          /\ raw[c].is = "end" /\ Enclosed(raw, c + 1, "begin", "end")
          /\ \A k \in c + 1 .. Len(raw) : raw[k].is # "end"
    BY <1>2 DEF Unfinished
  <2>2. PICK j \in 1 .. c :
          \A k \in j .. c : HowMany(raw, j, k, "end") < HowMany(raw, j, k, "begin")
    BY <2>1 DEF Enclosed
  <2>3. j \in Nat /\ c \in Nat /\ j \in DOMAIN raw /\ j \in j .. c
    OBVIOUS
  <2>4. raw[j].is = "begin"
    BY <2>2, <2>3, EnclosedBy
  <2>5. Has(raw, "begin") /\ Has(raw, "end")
    BY <2>1, <2>3, <2>4 DEF Has
  <2>6. c + 1 \in 1 .. Len(raw) + 1
    OBVIOUS
  <2>7. Opened(raw, c + 1, "begin", "end")
    <3>1. \A m \in DOMAIN raw : raw[m].is = "begin" => ~Enclosed(raw, m, "begin", "end")
      BY <2>5
    <3>2. QED
      BY <2>1, <2>6, <3>1, EnclosedIsOpened
  <2>8. PICK o \in 1 .. c : raw[o].is = "begin" /\ \A k \in o + 1 .. c : raw[k].is # "end"
    BY <2>7 DEF Opened
  <2>9. o = c \/ c \in o + 1 .. c
    BY <2>3
  <2>10. QED
    BY <2>1, <2>8, <2>9
<1>3. QED
  BY <1>1, <1>2

-----------------------------------------------------------------------------
(* What is heard of tags *)

\* The words outside the blocks that an opening begins, and those of a block that nothing closes.
Heard(x, open,
  close) == {x[i] : i \in {j \in DOMAIN x : ~Opened(x, j, open, close) /\ x[j].is # open}}
Unclosed(x, open, close) ==
    {x[i] : i \in {i \in DOMAIN x : \E j \in 1 .. i :
                       x[j].is = open /\ \A k \in j + 1 .. Len(x) : x[k].is # close}}
EndsOpen(x, open, close) == Opened(x, Len(x) + 1, open, close)

\* What a word adds to them.
HeardMore(x, e, open, close) ==
    /\ EndsOpen(Append(x, e), open, close) <=> e.is = open \/
         (EndsOpen(x, open, close) /\ e.is # close)
    /\ Heard(Append(x, e), open, close)
         = Heard(x, open, close) \cup IF ~EndsOpen(x, open, close) /\ e.is # open THEN {e} ELSE {}
    /\ Unclosed(Append(x, e), open, close)
         = IF e.is = close THEN {}
           ELSE Unclosed(x, open, close) \cup IF EndsOpen(x, open, close) \/
             e.is = open THEN {e} ELSE {}

\* What is open, and what closes, with a word more.
LEMMA HeardGrows ==
    ASSUME NEW S, NEW x \in Seq(S), NEW e \in S, NEW open, NEW close, open # close
    PROVE  HeardMore(x, e, open, close)
<1> DEFINE y == Append(x, e)
           n == Len(x)
<1>1. /\ n \in Nat /\ DOMAIN x = 1 .. n /\ Len(y) = n + 1 /\ DOMAIN y = 1 .. n + 1
      /\ y[n + 1] = e /\ \A i \in 1 .. n : y[i] = x[i]
  OBVIOUS
<1> HIDE DEF y, n
<1>2. ASSUME NEW i \in 1 .. n + 1
      PROVE  Opened(y, i, open, close) <=> Opened(x, i, open, close)
  <2>1. \A j \in 1 .. i - 1 : j \in 1 .. n /\ \A k \in j + 1 .. i - 1 : k \in 1 .. n
    BY <1>1
  <2>2. QED
    BY <1>1, <2>1 DEF Opened
<1>3. Opened(y, n + 2, open, close) <=> e.is = open \/
        (Opened(x, n + 1, open, close) /\ e.is # close)
  <2>1. ASSUME Opened(y, n + 2, open, close)
        PROVE  e.is = open \/ (Opened(x, n + 1, open, close) /\ e.is # close)
    <3>1. PICK j \in 1 .. n + 1 : y[j].is = open /\ \A k \in j + 1 .. n + 1 : y[k].is # close
      BY <1>1, <2>1 DEF Opened
    <3>2. CASE j = n + 1
      BY <1>1, <3>1, <3>2
    <3>3. CASE j # n + 1
      <4>1. j \in 1 .. n /\ n + 1 \in j + 1 .. n + 1
        BY <1>1, <3>3
      <4>2. e.is # close
        BY <1>1, <3>1, <4>1
      <4>3. \A k \in j + 1 .. n : k \in j + 1 .. n + 1 /\ k \in 1 .. n
        BY <1>1, <4>1
      <4>4. x[j].is = open /\ \A k \in j + 1 .. n : x[k].is # close
        BY <1>1, <3>1, <4>1, <4>3
      <4>5. Opened(x, n + 1, open, close)
        BY <1>1, <4>1, <4>4 DEF Opened
      <4>6. QED
        BY <4>2, <4>5
    <3>4. QED
      BY <3>2, <3>3
  <2>2. ASSUME e.is = open PROVE Opened(y, n + 2, open, close)
    <3>1. n + 1 \in 1 .. (n + 2) - 1 /\ \A k \in (n + 1) + 1 .. (n + 2) - 1 : FALSE
      BY <1>1
    <3>2. QED
      BY <1>1, <2>2, <3>1 DEF Opened
  <2>3. ASSUME Opened(x, n + 1, open, close), e.is # close PROVE Opened(y, n + 2, open, close)
    <3>1. PICK j \in 1 .. n : x[j].is = open /\ \A k \in j + 1 .. n : x[k].is # close
      BY <1>1, <2>3 DEF Opened
    <3>2. ASSUME NEW k \in j + 1 .. n + 1 PROVE y[k].is # close
      <4>1. k = n + 1 \/ (k \in j + 1 .. n /\ k \in 1 .. n)
        BY <1>1
      <4>2. QED
        BY <1>1, <2>3, <3>1, <4>1
    <3>3. j \in 1 .. (n + 2) - 1 /\ (n + 2) - 1 = n + 1 /\ y[j].is = open
      BY <1>1, <3>1
    <3>4. QED
      BY <3>2, <3>3 DEF Opened
  <2>4. QED
    BY <2>1, <2>2, <2>3
<1>4. Heard(y, open, close)
        = Heard(x, open, close) \cup IF ~Opened(x, n + 1, open, close) /\
          e.is # open THEN {e} ELSE {}
  <2> DEFINE V(i) == ~Opened(y, i, open, close) /\ y[i].is # open
  <2>1. \A i \in 1 .. n : V(i) <=> ~Opened(x, i, open, close) /\ x[i].is # open
    <3>1. \A i \in 1 .. n : i \in 1 .. n + 1
      BY <1>1
    <3>2. QED
      BY <1>1, <1>2, <3>1
  <2>2. n + 1 \in 1 .. n + 1
    BY <1>1
  <2>3. V(n + 1) <=> ~Opened(x, n + 1, open, close) /\ e.is # open
    BY <1>1, <1>2, <2>2
  <2>4. Heard(y, open, close) = {y[i] : i \in {j \in 1 .. n + 1 : V(j)}}
    BY <1>1 DEF Heard
  <2>5. \A j : j \in 1 .. n + 1 <=> j \in 1 .. n \/ j = n + 1
    BY <1>1
  <2> HIDE DEF V
  <2>6. QED
    BY <1>1, <2>1, <2>3, <2>4, <2>5 DEF Heard
<1>5. Unclosed(y, open, close)
        = IF e.is = close THEN {}
          ELSE Unclosed(x, open, close)
                 \cup IF Opened(x, n + 1, open, close) \/ e.is = open THEN {e} ELSE {}
  <2> DEFINE U(i) == \E j \in 1 .. i : y[j].is = open /\ \A k \in j + 1 .. n + 1 : y[k].is # close
             W(i) == \E j \in 1 .. i : x[j].is = open /\ \A k \in j + 1 .. n : x[k].is # close
  <2>1. Unclosed(y, open, close) = {y[i] : i \in {j \in 1 .. n + 1 : U(j)}}
    BY <1>1 DEF Unclosed
  <2>2. Unclosed(x, open, close) = {x[i] : i \in {j \in 1 .. n : W(j)}}
    BY <1>1 DEF Unclosed
  <2>3. CASE e.is = close
    <3>1. ASSUME NEW i \in 1 .. n + 1, NEW j \in 1 .. i, y[j].is = open,
                 \A k \in j + 1 .. n + 1 : y[k].is # close
          PROVE  FALSE
      <4>1. j = n + 1 \/ n + 1 \in j + 1 .. n + 1
        BY <1>1
      <4>2. QED
        BY <1>1, <2>3, <3>1, <4>1
    <3>2. QED
      BY <2>1, <2>3, <3>1
  <2>4. CASE e.is # close
    <3>1. ASSUME NEW i \in 1 .. n PROVE U(i) <=> W(i)
      <4>1. ASSUME NEW j \in 1 .. i
            PROVE  /\ y[j] = x[j]
                   /\ (\A k \in j + 1 .. n + 1 : y[k].is # close) <=>
                        (\A k \in j + 1 .. n : x[k].is # close)
        <5>1. \A k : k \in j + 1 .. n + 1 <=> k \in j + 1 .. n \/ k = n + 1
          BY <1>1
        <5>2. \A k \in j + 1 .. n : k \in 1 .. n
          BY <1>1
        <5>3. j \in 1 .. n
          BY <1>1
        <5>4. QED
          BY <1>1, <2>4, <5>1, <5>2, <5>3
      <4>2. QED
        BY <4>1
    <3>2. U(n + 1) <=> Opened(x, n + 1, open, close) \/ e.is = open
      <4>1. U(n + 1) <=> Opened(y, n + 2, open, close)
        <5>1. (n + 2) - 1 = n + 1
          BY <1>1
        <5>2. QED
          BY <5>1 DEF Opened
      <4>2. QED
        BY <1>3, <2>4, <4>1
    <3>3. \A j : j \in 1 .. n + 1 <=> j \in 1 .. n \/ j = n + 1
      BY <1>1
    <3> HIDE DEF U, W
    <3>4. QED
      BY <1>1, <2>1, <2>2, <2>4, <3>1, <3>2, <3>3
  <2>5. QED
    BY <2>3, <2>4
<1>6. (n + 1) + 1 = n + 2
  BY <1>1
<1>7. /\ EndsOpen(y, open, close) <=> Opened(y, n + 2, open, close)
      /\ EndsOpen(x, open, close) <=> Opened(x, n + 1, open, close)
  BY <1>1, <1>6 DEF EndsOpen, n
<1>8. QED
  BY <1>3, <1>4, <1>5, <1>7 DEF HeardMore, y

\* Nothing is heard before the first word.
LEMMA NothingHeard ==
    ASSUME NEW open, NEW close
    PROVE  /\ Heard(<<>>, open, close) = {} /\ Unclosed(<<>>, open, close) = {}
           /\ ~EndsOpen(<<>>, open, close)
<1>1. DOMAIN <<>> = {} /\ Len(<<>>) = 0 /\ 1 .. (0 + 1) - 1 = {}
  OBVIOUS
<1>2. QED
  BY <1>1 DEF Heard, Unclosed, EndsOpen, Opened

-----------------------------------------------------------------------------
(* Removing what is between tags *)

\* What is removed, and what is held until its block closes.
Removal == [out : Seq(Placed), held : Seq(Placed)]
RemoveStart == [out |-> <<>>, held |-> <<>>]
RemoveRun(q, open, close) == FoldLeft(LAMBDA acc, t : RemoveOne(acc, t, open, close), RemoveStart,
  q)
RemoveStep(open, close) == [x \in Removal \X Placed |-> RemoveOne(x[1], x[2], open, close)]

\* The four things that a word does.
RemoveCases(acc, t, open, close, new) ==
    \/ /\ acc.held # <<>> /\ t.is = close /\ new.out = acc.out /\ new.held = <<>>
    \/ /\ acc.held # <<>> /\ t.is # close /\ new.out = acc.out /\ new.held = Append(acc.held, t)
    \/ /\ acc.held = <<>> /\ t.is = open /\ new.out = acc.out /\ new.held = <<t>>
    \/ /\ acc.held = <<>> /\ t.is # open /\ new.out = Append(acc.out, t) /\ new.held = <<>>

\* The cases of one word.
LEMMA RemoveOneHolds ==
    ASSUME NEW open, NEW close, NEW acc \in Removal, NEW t \in Placed
    PROVE  /\ RemoveOne(acc, t, open, close) \in Removal
           /\ RemoveCases(acc, t, open, close, RemoveOne(acc, t, open, close))
<1>0. acc.out \in Seq(Placed) /\ acc.held \in Seq(Placed) /\
        acc = [out |-> acc.out, held |-> acc.held]
  BY DEF Removal
<1>1. CASE acc.held # <<>>
  <2> DEFINE held == IF t.is = close THEN <<>> ELSE Append(acc.held, t)
             new == [out |-> acc.out, held |-> held]
  <2>1. RemoveOne(acc, t, open, close) = new
    BY <1>0, <1>1 DEF RemoveOne
  <2>2. held \in Seq(Placed)
    BY <1>0
  <2>3. new \in Removal /\ new.out = acc.out /\ new.held = held
    BY <1>0, <2>2 DEF Removal
  <2> HIDE DEF new
  <2>4. QED
    BY <1>1, <2>1, <2>3 DEF RemoveCases
<1>2. CASE acc.held = <<>> /\ t.is = open
  <2> DEFINE new == [out |-> acc.out, held |-> <<t>>]
  <2>1. RemoveOne(acc, t, open, close) = new
    BY <1>0, <1>2 DEF RemoveOne
  <2>2. new \in Removal /\ new.out = acc.out /\ new.held = <<t>>
    BY <1>0 DEF Removal
  <2> HIDE DEF new
  <2>3. QED
    BY <1>2, <2>1, <2>2 DEF RemoveCases
<1>3. CASE acc.held = <<>> /\ t.is # open
  <2> DEFINE new == [out |-> Append(acc.out, t), held |-> acc.held]
  <2>1. RemoveOne(acc, t, open, close) = new
    BY <1>0, <1>3 DEF RemoveOne
  <2>2. new \in Removal /\ new.out = Append(acc.out, t) /\ new.held = <<>>
    BY <1>0, <1>3 DEF Removal
  <2> HIDE DEF new
  <2>3. QED
    BY <1>3, <2>1, <2>2 DEF RemoveCases
<1>4. QED
  BY <1>1, <1>2, <1>3

\* The removal of blocks is a fold over the words.
LEMMA RemoveFoldStep ==
    ASSUME NEW open, NEW close, open # close
    PROVE  /\ RemoveStart \in Removal
           /\ RemoveStep(open, close) \in [Removal \X Placed -> Removal]
           /\ \A a \in Removal,
                e \in Placed : RemoveStep(open, close)[<<a, e>>] = RemoveOne(a, e, open, close)
<1>1. RemoveStart \in Removal
  BY DEF RemoveStart, Removal
<1>2. QED
  BY <1>1, RemoveOneHolds DEF RemoveStep

\* That fold is the run of its step, and keeps its type.
LEMMA RemoveIsRun ==
    ASSUME NEW open, NEW close, open # close, NEW q \in Seq(Placed)
    PROVE  RemoveRun(q, open, close) = Run(RemoveStart, RemoveStep(open, close), q) /\
             Run(RemoveStart, RemoveStep(open, close), q) \in Removal
<1>1. /\ RemoveStart \in Removal /\ RemoveStep(open, close) \in [Removal \X Placed -> Removal]
      /\ \A a \in Removal,
           e \in Placed : RemoveStep(open, close)[<<a, e>>] = RemoveOne(a, e, open, close)
  BY RemoveFoldStep
<1>2. PICK f \in [SUBSET DOMAIN q -> Removal] :
        Follows(f, Removal, Placed, RemoveStart, RemoveStep(open, close), q)
  BY <1>1, FoldSteps
<1>3. f = [s \in SUBSET DOMAIN q |-> IF s = {} THEN RemoveStart
                                 ELSE RemoveOne(f[s \ {Max(s)}], q[Max(s)], open, close)]
  BY <1>1, <1>2 DEF Follows
<1>4. PICK it : /\ RemoveRun(q, open, close) = it[DOMAIN q]
                /\ it = [s \in SUBSET DOMAIN q |-> IF s = {} THEN RemoveStart
                                 ELSE RemoveOne(it[s \ {Max(s)}], q[Max(s)], open, close)]
  BY <1>3 DEF RemoveRun, RemoveStart, FoldLeft, MapThenFoldSet
<1>5. Obeys(it, Removal, Placed, RemoveStart, RemoveStep(open, close), q)
  BY <1>1, <1>4 DEF Obeys
<1>6. it[DOMAIN q] = Run(RemoveStart, RemoveStep(open, close), q) /\
        Run(RemoveStart, RemoveStep(open, close), q) \in Removal
  BY <1>1, <1>5, FoldIsRun
<1>7. QED
  BY <1>4, <1>6

\* Words that have been seen keep their order when a later one is added.
Within(q, x) == Ascends(q) /\ Range(q) \subseteq Range(x)

\* With a word more, the words that are left are still in the order of the answer.
LEMMA AscendsGrows ==
    ASSUME NEW x \in Seq(Placed), NEW e \in Placed, IsRaw(Append(x, e)),
           NEW q \in Seq(Placed), Within(q, x)
    PROVE  /\ IsRaw(x) /\ Within(q, Append(x, e)) /\ Within(Append(q, e), Append(x, e))
           /\ Range(Append(q, e)) = Range(q) \cup {e}
           /\ \A t \in Range(x) : t.at < e.at
<1> DEFINE n == Len(x)
           m == Len(q)
<1>1. /\ n \in Nat /\ DOMAIN x = 1 .. n /\ DOMAIN Append(x, e) = 1 .. n + 1
      /\ Append(x, e)[n + 1] = e /\ \A i \in 1 .. n : Append(x, e)[i] = x[i]
  OBVIOUS
<1>2. /\ m \in Nat /\ DOMAIN q = 1 .. m /\ DOMAIN Append(q, e) = 1 .. m + 1
      /\ Append(q, e)[m + 1] = e /\ \A i \in 1 .. m : Append(q, e)[i] = q[i]
  OBVIOUS
<1> HIDE DEF n, m
<1>3. e.at = n + 1 /\ \A i \in 1 .. n : x[i].at = i
  <2>1. \A i \in 1 .. n + 1 : Append(x, e)[i].at = i
    BY <1>1 DEF IsRaw
  <2>2. n + 1 \in 1 .. n + 1 /\ \A i \in 1 .. n : i \in 1 .. n + 1
    BY <1>1
  <2>3. QED
    BY <1>1, <2>1, <2>2
<1>4. IsRaw(x)
  BY <1>1, <1>3 DEF IsRaw
<1>5. \A t \in Range(x) : t.at < e.at
  <2>1. ASSUME NEW i \in 1 .. n PROVE x[i].at < e.at
    BY <1>1, <1>3
  <2>2. QED
    BY <1>1, <2>1 DEF Range
<1>6. Range(Append(x, e)) = Range(x) \cup {e} /\ Range(Append(q, e)) = Range(q) \cup {e}
  BY RangeOfAppend
<1>7. Ascends(Append(q, e))
  <2> SUFFICES ASSUME NEW a \in 1 .. m + 1, NEW b \in 1 .. m + 1, a < b
               PROVE  Append(q, e)[a].at < Append(q, e)[b].at
    BY <1>2 DEF Ascends
  <2>1. a \in 1 .. m /\ q[a] \in Range(q)
    BY <1>2 DEF Range
  <2>2. CASE b = m + 1
    <3>1. q[a].at < e.at
      BY <1>5, <2>1 DEF Within
    <3>2. QED
      BY <1>2, <2>1, <2>2, <3>1
  <2>3. CASE b # m + 1
    <3>1. b \in 1 .. m
      BY <1>2, <2>3
    <3>2. q[a].at < q[b].at
      BY <1>2, <2>1, <3>1 DEF Within, Ascends
    <3>3. QED
      BY <1>2, <2>1, <3>1, <3>2
  <2>4. QED
    BY <2>2, <2>3
<1>8. QED
  BY <1>4, <1>5, <1>6, <1>7 DEF Within

\* What has been removed and held of the words so far.
Removed(x, a, open, close) ==
    /\ Within(a.out, x) /\ Within(a.held, x)
    /\ Range(a.out) = Heard(x, open, close) /\ Range(a.held) = Unclosed(x, open, close)
    /\ a.held = <<>> <=> ~EndsOpen(x, open, close)
    /\ \A t \in Range(a.out), u \in Range(a.held) : t.at < u.at

\* One word more leaves what is removed right.
LEMMA RemovedGrows ==
    ASSUME NEW open, NEW close, open # close, NEW x \in Seq(Placed), NEW a \in Removal,
           NEW e \in Placed, Removed(x, a, open, close), IsRaw(Append(x, e))
    PROVE  Removed(Append(x, e), RemoveOne(a, e, open, close), open, close)
<1> DEFINE new == RemoveOne(a, e, open, close)
           y == Append(x, e)
<1>1. RemoveCases(a, e, open, close, new)
  BY RemoveOneHolds
<1> HIDE DEF new
<1>2. a.out \in Seq(Placed) /\ a.held \in Seq(Placed)
  BY DEF Removal
<1>3. HeardMore(x, e, open, close)
  BY HeardGrows
<1>4. Within(a.out, x) /\ Within(a.held, x)
  BY DEF Removed
<1>5. /\ Within(a.out, y) /\ Within(Append(a.out, e), y) /\
           Range(Append(a.out, e)) = Range(a.out) \cup {e}
      /\ \A t \in Range(x) : t.at < e.at
  BY <1>2, <1>4, AscendsGrows
<1>6. /\ Within(a.held, y) /\ Within(Append(a.held, e), y)
      /\ Range(Append(a.held, e)) = Range(a.held) \cup {e}
  BY <1>2, <1>4, AscendsGrows
<1> HIDE DEF y
<1>7. Range(<<>>) = {} /\ Range(<<e>>) = {e} /\ Ascends(<<>>) /\ Ascends(<<e>>)
  BY DEF Range, Ascends
<1>8. Within(<<>>, y) /\ Within(<<e>>, y)
  BY <1>5, <1>7 DEF Within
<1>9. \A t \in Range(a.out) \cup Range(a.held) : t.at < e.at
  BY <1>4, <1>5 DEF Within
<1>10. ASSUME a.held # <<>> /\ e.is = close /\ new.out = a.out /\ new.held = <<>>
       PROVE  Removed(y, new, open, close)
  <2>1. EndsOpen(x, open, close) /\ ~EndsOpen(y, open, close)
    BY <1>3, <1>10 DEF Removed, HeardMore, y
  <2>2. Heard(y, open, close) = Heard(x, open, close) /\ Unclosed(y, open, close) = {}
    BY <1>3, <1>10, <2>1 DEF HeardMore, y
  <2>3. QED
    BY <1>5, <1>7, <1>8, <1>10, <2>1, <2>2 DEF Removed
<1>11. ASSUME a.held # <<>> /\ e.is # close /\ new.out = a.out /\ new.held = Append(a.held, e)
       PROVE  Removed(y, new, open, close)
  <2>1. EndsOpen(x, open, close) /\ EndsOpen(y, open, close)
    BY <1>3, <1>11 DEF Removed, HeardMore, y
  <2>2. /\ Heard(y, open, close) = Heard(x, open, close)
        /\ Unclosed(y, open, close) = Unclosed(x, open, close) \cup {e}
    BY <1>3, <1>11, <2>1 DEF HeardMore, y
  <2>3. Append(a.held, e) # <<>>
    BY <1>2
  <2>4. \A t \in Range(a.out), u \in Range(a.held) \cup {e} : t.at < u.at
    BY <1>9 DEF Removed
  <2>5. QED
    BY <1>5, <1>6, <1>11, <2>1, <2>2, <2>3, <2>4 DEF Removed
<1>12. ASSUME a.held = <<>> /\ e.is = open /\ new.out = a.out /\ new.held = <<e>>
       PROVE  Removed(y, new, open, close)
  <2>1. ~EndsOpen(x, open, close) /\ EndsOpen(y, open, close) /\ Unclosed(x, open, close) = {}
    BY <1>3, <1>7, <1>12 DEF Removed, HeardMore, y
  <2>2. Heard(y, open, close) = Heard(x, open, close) /\ Unclosed(y, open, close) = {e}
    BY <1>3, <1>12, <2>1 DEF HeardMore, y
  <2>3. QED
    BY <1>5, <1>7, <1>8, <1>9, <1>12, <2>1, <2>2 DEF Removed
<1>13. ASSUME a.held = <<>> /\ e.is # open /\ new.out = Append(a.out, e) /\ new.held = <<>>
       PROVE  Removed(y, new, open, close)
  <2>1. ~EndsOpen(x, open, close) /\ ~EndsOpen(y, open, close) /\ Unclosed(x, open, close) = {}
    BY <1>3, <1>7, <1>13 DEF Removed, HeardMore, y
  <2>2. Heard(y, open, close) = Heard(x, open, close) \cup {e} /\ Unclosed(y, open, close) = {}
    BY <1>3, <1>13, <2>1 DEF HeardMore, y
  <2>3. QED
    BY <1>5, <1>7, <1>8, <1>13, <2>1, <2>2 DEF Removed
<1>14. QED
  BY <1>1, <1>10, <1>11, <1>12, <1>13 DEF RemoveCases, new, y

\* The removal of blocks leaves what is heard, and holds what nothing closes.
LEMMA RemoveHears ==
    ASSUME NEW open, NEW close, open # close, NEW q \in Seq(Placed)
    PROVE  IsRaw(q) => Removed(q, RemoveRun(q, open, close), open, close)
<1> DEFINE P(x, a) == IsRaw(x) => Removed(x, a, open, close)
           I == {y \in Seq(Placed) \X Removal : P(y[1], y[2])}
<1>0. /\ RemoveStart \in Removal /\ RemoveStep(open, close) \in [Removal \X Placed -> Removal]
      /\ \A a \in Removal,
           e \in Placed : RemoveStep(open, close)[<<a, e>>] = RemoveOne(a, e, open, close)
  BY RemoveFoldStep
<1>1. P(<<>>, RemoveStart)
  <2>1. RemoveStart.out = <<>> /\ RemoveStart.held = <<>> /\ Range(<<>>) = {}
    BY DEF RemoveStart, Range
  <2>2. Within(<<>>, <<>>)
    BY <2>1 DEF Within, Ascends
  <2>3. /\ Heard(<<>>, open, close) = {} /\ Unclosed(<<>>, open, close) = {}
        /\ ~EndsOpen(<<>>, open, close)
    BY NothingHeard
  <2>4. Removed(<<>>, RemoveStart, open, close)
    BY <2>1, <2>2, <2>3 DEF Removed
  <2>5. QED
    BY <2>4
<1>2. ASSUME NEW x \in Seq(Placed), NEW a \in Removal, NEW e \in Placed, P(x, a)
      PROVE  P(Append(x, e), RemoveOne(a, e, open, close))
  <2> SUFFICES ASSUME IsRaw(Append(x, e))
               PROVE  Removed(Append(x, e), RemoveOne(a, e, open, close), open, close)
    OBVIOUS
  <2>1. Within(<<>>, x) /\ <<>> \in Seq(Placed)
    BY DEF Within, Ascends, Range
  <2>2. IsRaw(x)
    BY <2>1, AscendsGrows
  <2>3. QED
    BY <1>2, <2>2, RemovedGrows
<1> HIDE DEF P
<1>3. Keeps(I, Removal, Placed, RemoveStart, RemoveStep(open, close))
  <2>1. <<<<>>, RemoveStart>> \in I
    <3>1. <<>> \in Seq(Placed) /\ RemoveStart \in Removal
      BY <1>0
    <3>2. <<<<>>, RemoveStart>> \in Seq(Placed) \X Removal
      BY <3>1
    <3>3. QED
      BY <1>1, <3>2
  <2>2. ASSUME NEW x \in Seq(Placed), NEW a \in Removal, NEW e \in Placed, <<x, a>> \in I
        PROVE  <<Append(x, e), RemoveStep(open, close)[<<a, e>>]>> \in I
    <3>1. P(x, a)
      BY <2>2
    <3>2. P(Append(x, e), RemoveStep(open, close)[<<a, e>>])
      BY <1>0, <1>2, <3>1
    <3>3. Append(x, e) \in Seq(Placed)
      OBVIOUS
    <3>4. RemoveStep(open, close)[<<a, e>>] \in Removal
      BY <1>0
    <3>5. QED
      BY <3>2, <3>3, <3>4
  <2> HIDE DEF I
  <2>3. QED
    BY <2>1, <2>2 DEF Keeps
<1> HIDE DEF I
<1>4. <<q, Run(RemoveStart, RemoveStep(open, close), q)>> \in I
  BY <1>0, <1>3, FoldKeeps
<1>5. P(q, Run(RemoveStart, RemoveStep(open, close), q))
  BY <1>4 DEF I
<1>6. QED
  BY <1>5, RemoveIsRun DEF P

\* It adds no word.
LEMMA RemoveTakes ==
    ASSUME NEW open, NEW close, open # close, NEW q \in Seq(Placed)
    PROVE  Range(RemoveRun(q, open, close).out) \cup Range(RemoveRun(q, open, close).held) \subseteq
             Range(q)
<1> DEFINE P(x, a) == Range(a.out) \cup Range(a.held) \subseteq Range(x)
           I == {y \in Seq(Placed) \X Removal : P(y[1], y[2])}
<1>0. /\ RemoveStart \in Removal /\ RemoveStep(open, close) \in [Removal \X Placed -> Removal]
      /\ \A a \in Removal,
           e \in Placed : RemoveStep(open, close)[<<a, e>>] = RemoveOne(a, e, open, close)
  BY RemoveFoldStep
<1>1. P(<<>>, RemoveStart)
  <2>1. RemoveStart.out = <<>> /\ RemoveStart.held = <<>> /\ Range(<<>>) = {}
    BY DEF RemoveStart, Range
  <2>2. QED
    BY <2>1
<1>2. ASSUME NEW x \in Seq(Placed), NEW a \in Removal, NEW e \in Placed, P(x, a)
      PROVE  P(Append(x, e), RemoveOne(a, e, open, close))
  <2> DEFINE new == RemoveOne(a, e, open, close)
  <2>1. RemoveCases(a, e, open, close, new)
    BY RemoveOneHolds
  <2> HIDE DEF new
  <2>2. a.out \in Seq(Placed) /\ a.held \in Seq(Placed)
    BY DEF Removal
  <2>3. /\ Range(Append(a.out, e)) = Range(a.out) \cup {e}
        /\ Range(Append(a.held, e)) = Range(a.held) \cup {e}
        /\ Range(Append(x, e)) = Range(x) \cup {e}
    BY <2>2, RangeOfAppend
  <2>4. Range(<<e>>) = {e} /\ Range(<<>>) = {}
    BY RangeOfOne
  <2>5. Range(new.out) \cup Range(new.held) \subseteq Range(a.out) \cup Range(a.held) \cup {e}
    BY <2>1, <2>3, <2>4 DEF RemoveCases
  <2>6. QED
    BY <1>2, <2>3, <2>5 DEF new
<1> HIDE DEF P
<1>3. Keeps(I, Removal, Placed, RemoveStart, RemoveStep(open, close))
  <2>1. <<<<>>, RemoveStart>> \in I
    <3>1. <<>> \in Seq(Placed) /\ RemoveStart \in Removal
      BY <1>0
    <3>2. <<<<>>, RemoveStart>> \in Seq(Placed) \X Removal
      BY <3>1
    <3>3. QED
      BY <1>1, <3>2
  <2>2. ASSUME NEW x \in Seq(Placed), NEW a \in Removal, NEW e \in Placed, <<x, a>> \in I
        PROVE  <<Append(x, e), RemoveStep(open, close)[<<a, e>>]>> \in I
    <3>1. P(x, a)
      BY <2>2
    <3>2. P(Append(x, e), RemoveStep(open, close)[<<a, e>>])
      BY <1>0, <1>2, <3>1
    <3>3. Append(x, e) \in Seq(Placed)
      OBVIOUS
    <3>4. RemoveStep(open, close)[<<a, e>>] \in Removal
      BY <1>0
    <3>5. QED
      BY <3>2, <3>3, <3>4
  <2> HIDE DEF I
  <2>3. QED
    BY <2>1, <2>2 DEF Keeps
<1> HIDE DEF I
<1>4. <<q, Run(RemoveStart, RemoveStep(open, close), q)>> \in I
  BY <1>0, <1>3, FoldKeeps
<1>5. P(q, Run(RemoveStart, RemoveStep(open, close), q))
  BY <1>4 DEF I
<1>6. QED
  BY <1>5, RemoveIsRun DEF P

\* Two parts in order are in order together.
LEMMA AscendsJoin ==
    ASSUME NEW q \in Seq(Placed), NEW r \in Seq(Placed), Ascends(q), Ascends(r),
           \A t \in Range(q), u \in Range(r) : t.at < u.at
    PROVE  Ascends(q \o r)
<1>1. /\ Len(q) \in Nat /\ Len(r) \in Nat /\ DOMAIN (q \o r) = 1 .. Len(q) + Len(r)
      /\ DOMAIN q = 1 .. Len(q) /\ DOMAIN r = 1 .. Len(r)
      /\ \A i \in 1 .. Len(q) : (q \o r)[i] = q[i]
  OBVIOUS
<1>2. \A i \in Len(q) + 1 .. Len(q) + Len(r) : i - Len(q) \in 1 .. Len(r) /\
        (q \o r)[i] = r[i - Len(q)]
  BY <1>1
<1> SUFFICES ASSUME NEW a \in 1 .. Len(q) + Len(r), NEW b \in 1 .. Len(q) + Len(r), a < b
             PROVE  (q \o r)[a].at < (q \o r)[b].at
  BY <1>1 DEF Ascends
<1>3. CASE b <= Len(q)
  <2>1. a \in 1 .. Len(q) /\ b \in 1 .. Len(q)
    BY <1>1, <1>3
  <2>2. q[a].at < q[b].at
    BY <1>1, <2>1 DEF Ascends
  <2>3. QED
    BY <1>1, <2>1, <2>2
<1>4. CASE a > Len(q)
  <2>1. a \in Len(q) + 1 .. Len(q) + Len(r) /\ b \in Len(q) + 1 .. Len(q) + Len(r)
    BY <1>1, <1>4
  <2>2. a - Len(q) \in 1 .. Len(r) /\ b - Len(q) \in 1 .. Len(r) /\ a - Len(q) < b - Len(q)
    BY <1>1, <1>2, <2>1
  <2>3. r[a - Len(q)].at < r[b - Len(q)].at
    BY <1>1, <2>2 DEF Ascends
  <2>4. QED
    BY <1>2, <2>1, <2>3
<1>5. CASE a <= Len(q) /\ b > Len(q)
  <2>1. a \in 1 .. Len(q) /\ b \in Len(q) + 1 .. Len(q) + Len(r)
    BY <1>1, <1>5
  <2>2. q[a] \in Range(q) /\ r[b - Len(q)] \in Range(r)
    BY <1>1, <1>2, <2>1 DEF Range
  <2>3. q[a].at < r[b - Len(q)].at
    BY <2>2
  <2>4. QED
    BY <1>1, <1>2, <2>1, <2>3
<1>6. QED
  BY <1>1, <1>3, <1>4, <1>5

\* A text without its blocks: what is heard, and then what is never closed.
LEMMA RemoveBlocksHolds ==
    ASSUME NEW open, NEW close, open # close, NEW q \in Seq(Placed)
    PROVE  LET r == RemoveBlocks(q, open, close) IN
           /\ r \in Seq(Placed) /\ Range(r) \subseteq Range(q)
           /\ IsRaw(q) => /\ Ascends(r)
                          /\ Range(r) = Heard(q, open, close) \cup Unclosed(q, open, close)
<1> DEFINE end == RemoveRun(q, open, close)
           r == RemoveBlocks(q, open, close)
<1>1. r = end.out \o end.held
  BY DEF RemoveBlocks, RemoveRun, RemoveStart
<1>2. end \in Removal /\ Range(end.out) \cup Range(end.held) \subseteq Range(q)
  <2>1. end = Run(RemoveStart, RemoveStep(open, close), q)
          /\ Run(RemoveStart, RemoveStep(open, close), q) \in Removal
    BY RemoveIsRun
  <2>2. QED
    BY <2>1, RemoveTakes
<1>3. IsRaw(q) => Removed(q, end, open, close)
  BY RemoveHears
<1> HIDE DEF end, r
<1>4. end.out \in Seq(Placed) /\ end.held \in Seq(Placed)
  BY <1>2 DEF Removal
<1>5. r \in Seq(Placed) /\ Range(r) = Range(end.out) \cup Range(end.held)
  BY <1>1, <1>4, RangeOfJoin
<1>6. ASSUME IsRaw(q)
      PROVE  Ascends(r) /\ Range(r) = Heard(q, open, close) \cup Unclosed(q, open, close)
  <2>1. /\ Ascends(end.out) /\ Ascends(end.held)
        /\ \A t \in Range(end.out), u \in Range(end.held) : t.at < u.at
        /\ Range(end.out) = Heard(q, open, close) /\ Range(end.held) = Unclosed(q, open, close)
    BY <1>3, <1>6 DEF Removed, Within
  <2>2. Ascends(r)
    BY <1>1, <1>4, <2>1, AscendsJoin
  <2>3. QED
    BY <1>5, <2>1, <2>2
<1>7. QED
  BY <1>2, <1>5, <1>6 DEF r

-----------------------------------------------------------------------------
(* Tags that are not closed *)

\* The words of an answer are at their places.
LEMMA WordsOf ==
    ASSUME NEW raw, IsRaw(raw), NEW t \in Range(raw)
    PROVE  t.at \in DOMAIN raw /\ raw[t.at] = t /\ t.at \in Nat /\ DOMAIN raw = 1 .. Len(raw)
             /\ Len(raw) \in Nat
  BY DEF IsRaw, Range

\* Who hears a word has not begun a block before it.
LEMMA HeardIs ==
    ASSUME NEW raw, IsRaw(raw), NEW open, NEW close, NEW t \in Heard(raw, open, close)
    PROVE  ~Opened(raw, t.at, open, close) /\ t.is # open
  BY DEF IsRaw, Heard

\* An opening at or before a word that is not closed up to it.
LEMMA OpenedBy ==
    ASSUME NEW raw, IsRaw(raw), NEW open, NEW close, NEW i \in DOMAIN raw,
           Opened(raw, i + 1, open, close)
    PROVE  raw[i].is = open \/ Opened(raw, i, open, close)
<1>1. i \in Nat /\ i \in 1 .. Len(raw)
  BY DEF IsRaw
<1>2. PICK j \in 1 .. i : raw[j].is = open /\ \A k \in j + 1 .. i : raw[k].is # close
  BY <1>1 DEF Opened
<1>3. CASE j = i
  BY <1>2, <1>3
<1>4. CASE j # i
  <2>1. j \in 1 .. i - 1 /\ \A k \in j + 1 .. i - 1 : k \in j + 1 .. i
    BY <1>1, <1>4
  <2>2. QED
    BY <1>2, <2>1 DEF Opened
<1>5. QED
  BY <1>3, <1>4

\* A word that nothing closes has its opening before it, which nothing closes either.
LEMMA UnclosedIs ==
    ASSUME NEW raw, IsRaw(raw), NEW open, NEW close, open # close,
             NEW t \in Unclosed(raw, open, close)
    PROVE  \E u \in Unclosed(raw, open, close) :
              /\ u.is = open /\ u.at <= t.at
              /\ \A v \in Range(raw) : v.is = close => v.at < u.at
<1>1. /\ Len(raw) \in Nat /\ DOMAIN raw = 1 .. Len(raw) /\ \A i \in 1 .. Len(raw) : raw[i].at = i
  BY DEF IsRaw
<1>2. PICK i \in 1 .. Len(raw) :
        t = raw[i] /\ \E j \in 1 .. i : raw[j].is = open /\
          \A k \in j + 1 .. Len(raw) : raw[k].is # close
  BY <1>1 DEF Unclosed
<1>3. PICK j \in 1 .. i : raw[j].is = open /\ \A k \in j + 1 .. Len(raw) : raw[k].is # close
  BY <1>2
<1>4. j \in 1 .. Len(raw) /\ j \in 1 .. j /\ j <= i
  BY <1>1, <1>3
<1>5. raw[j] \in Unclosed(raw, open, close)
  BY <1>1, <1>3, <1>4 DEF Unclosed
<1>6. ASSUME NEW v \in Range(raw), v.is = close PROVE v.at < j
  <2>1. PICK k \in 1 .. Len(raw) : v = raw[k]
    BY <1>1 DEF Range
  <2>2. k \notin j + 1 .. Len(raw) /\ k # j
    BY <1>3, <1>6, <2>1
  <2>3. k < j
    BY <1>1, <1>4, <2>1, <2>2
  <2>4. QED
    BY <1>1, <2>1, <2>3
<1>7. raw[j].at = j /\ t.at = i
  BY <1>1, <1>2, <1>4
<1>8. QED
  BY <1>3, <1>4, <1>5, <1>6, <1>7

\* An answer that has neither of two marks has nothing between them.
LEMMA NoMarks ==
    ASSUME NEW raw, IsRaw(raw), NEW open, NEW close, ~Has(raw, open), ~Has(raw, close),
           NEW i \in DOMAIN raw
    PROVE  ~Marked(raw, i, open, close)
<1>1. Len(raw) \in Nat /\ DOMAIN raw = 1 .. Len(raw)
  BY DEF IsRaw
<1>2. \A j \in 1 .. (i + 1) - 1 : j \in DOMAIN raw
  BY <1>1
<1>3. \A j \in i .. Len(raw) : j \in DOMAIN raw
  BY <1>1
<1>4. QED
  BY <1>2, <1>3 DEF Marked, Opened, Has

\* What is marked in tags, however they nest and wherever the answer is cut, is stripped.
LEMMA TagsStripped ==
    ASSUME NEW raw, IsRaw(raw),
             NEW t \in Range(BeforeFirst(AfterLast(RemoveBlocks(raw, "open", "close"),
                                                                     "close"), "open"))
    PROVE  t \in Range(raw) /\ ~Marked(raw, t.at, "open", "close")
<1> DEFINE r == RemoveBlocks(raw, "open", "close")
           after == AfterLast(r, "close")
           before == BeforeFirst(after, "open")
<1>1. raw \in Seq(Placed)
  BY DEF IsRaw
<1>2. /\ r \in Seq(Placed) /\ Range(r) \subseteq Range(raw) /\ Ascends(r)
      /\ Range(r) = Heard(raw, "open", "close") \cup Unclosed(raw, "open", "close")
  BY <1>1, RemoveBlocksHolds
<1> HIDE DEF r
<1>3. /\ after \in Seq(Placed) /\ Ascends(after)
      /\ Range(after) = {x \in Range(r) : \A u \in Range(r) : u.is = "close" => u.at < x.at}
  BY <1>2, AfterLastHolds DEF IsAfter
<1> HIDE DEF after
<1>4. /\ Range(before) \subseteq Range(after)
      /\ \A x \in Range(before), u \in Range(after) : u.is = "open" => x.at < u.at
  BY <1>3, BeforeFirstHolds
<1>5. t \in Range(before)
  BY DEF before, after, r
<1> HIDE DEF before
<1>6. t \in Range(after) /\ t \in Range(r) /\ t \in Range(raw)
  BY <1>2, <1>3, <1>4, <1>5
<1>7. t.at \in DOMAIN raw /\ raw[t.at] = t /\ t.at \in Nat /\ DOMAIN raw = 1 .. Len(raw) /\
        Len(raw) \in Nat
  BY <1>6, WordsOf
<1>8. t.is # "open"
  BY <1>4, <1>5, <1>6, <1>7
<1>9. t \in Heard(raw, "open", "close")
  <2> SUFFICES ASSUME t \in Unclosed(raw, "open", "close") PROVE FALSE
    BY <1>2, <1>6
  <2>1. PICK u \in Unclosed(raw, "open", "close") :
          /\ u.is = "open" /\ u.at <= t.at
          /\ \A v \in Range(raw) : v.is = "close" => v.at < u.at
    BY UnclosedIs
  <2>2. u \in Range(r)
    BY <1>2
  <2>3. \A v \in Range(r) : v.is = "close" => v.at < u.at
    BY <1>2, <2>1
  <2>4. u \in Range(after)
    BY <1>3, <2>2, <2>3
  <2>5. t.at < u.at
    BY <1>4, <1>5, <2>1, <2>4
  <2>6. u.at \in Nat
    BY <1>2, <2>2, WordsOf
  <2>7. QED
    BY <1>7, <2>1, <2>5, <2>6
<1>10. ~Opened(raw, t.at + 1, "open", "close")
  <2>1. ~Opened(raw, t.at, "open", "close")
    BY <1>9, HeardIs
  <2>2. raw[t.at].is # "open"
    BY <1>7, <1>8
  <2>3. QED
    BY <1>7, <2>1, <2>2, OpenedBy
<1>11. ASSUME NEW j \in t.at .. Len(raw), raw[j].is = "close", ~Opened(raw, j, "open", "close")
       PROVE  FALSE
  <2>1. j \in DOMAIN raw /\ t.at <= j
    BY <1>7
  <2>2. raw[j] \in Heard(raw, "open", "close")
    BY <1>11, <2>1 DEF Heard
  <2>3. raw[j].at < t.at
    BY <1>2, <1>3, <1>6, <1>11, <2>2
  <2>4. raw[j].at = j
    BY <2>1 DEF IsRaw
  <2>5. QED
    BY <1>7, <2>1, <2>3, <2>4
<1>12. QED
  BY <1>6, <1>10, <1>11 DEF Marked

-----------------------------------------------------------------------------
(* Delimiters, citations, and what is left of an answer *)

\* Reasoning between delimiters that are not tags is stripped, if each that opens is closed once.
LEMMA DelimitersStripped ==
    ASSUME NEW raw, IsRaw(raw),
           Has(raw, "begin") /\ Has(raw, "end") =>
              /\ \A i \in DOMAIN raw : raw[i].is \in {"begin", "end"} =>
                    (raw[i].is = "end" <=> Opened(raw, i, "begin", "end"))
              /\ ~Opened(raw, Len(raw) + 1, "begin", "end"),
           NEW t \in Range(StripDelimiters(raw))
    PROVE  ~Marked(raw, t.at, "begin", "end")
<1>1. raw \in Seq(Placed) /\ Len(raw) \in Nat /\ DOMAIN raw = 1 .. Len(raw)
  BY DEF IsRaw
<1>2. Ascends(raw)
  BY DEF IsRaw, Ascends
<1>3. CASE Has(raw, "begin") /\ Has(raw, "end")
  <2> DEFINE r == RemoveBlocks(raw, "begin", "end")
  <2>1. StripDelimiters(raw) = r
    BY <1>3 DEF StripDelimiters
  <2>2. /\ Range(r) \subseteq Range(raw)
        /\ Range(r) = Heard(raw, "begin", "end") \cup Unclosed(raw, "begin", "end")
    BY <1>1, RemoveBlocksHolds
  <2> HIDE DEF r
  <2>3. t \in Range(raw) /\ t \in Range(r)
    BY <2>1, <2>2
  <2>4. t.at \in DOMAIN raw /\ raw[t.at] = t
    BY <2>3, WordsOf
  <2>5. t \notin Unclosed(raw, "begin", "end")
    <3> SUFFICES ASSUME t \in Unclosed(raw, "begin", "end") PROVE FALSE
      OBVIOUS
    <3>1. PICK i \in 1 .. Len(raw) : \E j \in 1 .. i :
            raw[j].is = "begin" /\ \A k \in j + 1 .. Len(raw) : raw[k].is # "end"
      BY <1>1 DEF Unclosed
    <3>2. PICK j \in 1 .. i : raw[j].is = "begin" /\ \A k \in j + 1 .. Len(raw) : raw[k].is # "end"
      BY <3>1
    <3>3. j \in 1 .. (Len(raw) + 1) - 1 /\ (Len(raw) + 1) - 1 = Len(raw)
      BY <1>1, <3>1, <3>2
    <3>4. Opened(raw, Len(raw) + 1, "begin", "end")
      BY <3>2, <3>3 DEF Opened
    <3>5. QED
      BY <1>3, <3>4
  <2>6. ~Opened(raw, t.at, "begin", "end") /\ t.is # "begin"
    BY <2>2, <2>3, <2>5, HeardIs
  <2>7. ~Opened(raw, t.at + 1, "begin", "end")
    BY <2>4, <2>6, OpenedBy
  <2>8. ASSUME NEW j \in t.at .. Len(raw), raw[j].is = "end" PROVE Opened(raw, j, "begin", "end")
    <3>1. j \in DOMAIN raw
      BY <1>1, <2>4
    <3>2. QED
      BY <1>3, <2>8, <3>1
  <2>9. QED
    BY <2>7, <2>8 DEF Marked
<1>4. CASE ~Has(raw, "begin") /\ Has(raw, "end")
  <2> DEFINE r == AfterLast(raw, "end")
  <2>1. StripDelimiters(raw) = r
    BY <1>4 DEF StripDelimiters
  <2>2. Range(r) = {x \in Range(raw) : \A u \in Range(raw) : u.is = "end" => u.at < x.at}
    BY <1>1, <1>2, AfterLastHolds DEF IsAfter
  <2> HIDE DEF r
  <2>3. t \in Range(raw) /\ \A u \in Range(raw) : u.is = "end" => u.at < t.at
    BY <2>1, <2>2
  <2>4. t.at \in DOMAIN raw /\ t.at \in Nat
    BY <2>3, WordsOf
  <2>5. ~Opened(raw, t.at + 1, "begin", "end")
    <3>1. \A j \in 1 .. (t.at + 1) - 1 : j \in DOMAIN raw
      BY <1>1, <2>4
    <3>2. QED
      BY <1>4, <3>1 DEF Opened, Has
  <2>6. ASSUME NEW j \in t.at .. Len(raw), raw[j].is = "end" PROVE FALSE
    <3>1. j \in DOMAIN raw /\ t.at <= j
      BY <1>1, <2>4
    <3>2. raw[j] \in Range(raw) /\ raw[j].at = j
      BY <3>1 DEF IsRaw, Range
    <3>3. j < t.at
      BY <2>3, <2>6, <3>2
    <3>4. QED
      BY <1>1, <2>4, <3>1, <3>3
  <2>7. QED
    BY <2>5, <2>6 DEF Marked
<1>5. CASE ~Has(raw, "end")
  <2> DEFINE r == BeforeFirst(raw, "begin")
  <2>1. StripDelimiters(raw) = r
    BY <1>5 DEF StripDelimiters
  <2>2. Range(r) \subseteq Range(raw) /\ \A x \in Range(r),
          u \in Range(raw) : u.is = "begin" => x.at < u.at
    BY <1>1, <1>2, BeforeFirstHolds
  <2> HIDE DEF r
  <2>3. t \in Range(raw) /\ \A u \in Range(raw) : u.is = "begin" => t.at < u.at
    BY <2>1, <2>2
  <2>4. t.at \in DOMAIN raw /\ t.at \in Nat
    BY <2>3, WordsOf
  <2>5. ASSUME NEW j \in 1 .. (t.at + 1) - 1, raw[j].is = "begin" PROVE FALSE
    <3>1. j \in DOMAIN raw /\ j <= t.at
      BY <1>1, <2>4
    <3>2. raw[j] \in Range(raw) /\ raw[j].at = j
      BY <3>1 DEF IsRaw, Range
    <3>3. t.at < j
      BY <2>3, <2>5, <3>2
    <3>4. QED
      BY <1>1, <2>4, <3>1, <3>3
  <2>6. ~Opened(raw, t.at + 1, "begin", "end")
    BY <2>5 DEF Opened
  <2>7. \A j \in t.at .. Len(raw) : raw[j].is # "end"
    <3>1. \A j \in t.at .. Len(raw) : j \in DOMAIN raw
      BY <1>1, <2>4
    <3>2. QED
      BY <1>5, <3>1 DEF Has
  <2>8. QED
    BY <2>6, <2>7 DEF Marked
<1>6. QED
  BY <1>3, <1>4, <1>5

\* Stripping adds no word, of whatever reasoning it strips.
LEMMA DelimitersPart ==
    ASSUME NEW raw \in Seq(Placed)
    PROVE  /\ StripDelimiters(raw) \in Seq(Placed) /\
                Range(StripDelimiters(raw)) \subseteq Range(raw)
           /\ ~Has(raw, "begin") /\ ~Has(raw, "end") => StripDelimiters(raw) = raw
<1>1. CASE Has(raw, "begin") /\ Has(raw, "end")
  BY <1>1, RemoveBlocksHolds DEF StripDelimiters
<1>2. CASE ~Has(raw, "begin") /\ Has(raw, "end")
  BY <1>2, AfterLastHolds DEF StripDelimiters
<1>3. CASE ~Has(raw, "end")
  BY <1>3, BeforeFirstHolds DEF StripDelimiters
<1>4. QED
  BY <1>1, <1>2, <1>3

\* What is left without the reasoning is part of what is left without the delimiters.
LEMMA ReasoningPart ==
    ASSUME NEW raw \in Seq(Placed)
    PROVE  /\ StripReasoning(raw) \in Seq(Placed)
           /\ Range(StripReasoning(raw)) \subseteq Range(StripDelimiters(raw))
<1> DEFINE s == StripDelimiters(raw)
           r == RemoveBlocks(s, "open", "close")
           after == AfterLast(r, "close")
           before == BeforeFirst(after, "open")
<1>1. s \in Seq(Placed)
  BY DelimitersPart
<1> HIDE DEF s
<1>2. r \in Seq(Placed) /\ Range(r) \subseteq Range(s)
  BY <1>1, RemoveBlocksHolds
<1> HIDE DEF r
<1>3. after \in Seq(Placed) /\ Range(after) \subseteq Range(r)
  BY <1>2, AfterLastHolds
<1> HIDE DEF after
<1>4. before \in Seq(Placed) /\ Range(before) \subseteq Range(after)
  BY <1>3, BeforeFirstHolds
<1> HIDE DEF before
<1>5. StripReasoning(raw) = before
  BY DEF StripReasoning, before, after, r, s
<1>6. QED
  BY <1>2, <1>3, <1>4, <1>5 DEF s

CiteRun(q, max) == FoldLeft(LAMBDA out, t : CiteOne(out, t, max), <<>>, q)
CiteStep(max) == [x \in Seq(Placed) \X Placed |-> CiteOne(x[1], x[2], max)]

\* The check of the citations is a fold over the words.
LEMMA CiteFoldStep ==
    ASSUME NEW max
    PROVE  /\ <<>> \in Seq(Placed)
           /\ CiteStep(max) \in [Seq(Placed) \X Placed -> Seq(Placed)]
           /\ \A a \in Seq(Placed), e \in Placed : CiteStep(max)[<<a, e>>] = CiteOne(a, e, max)
<1>1. \A a \in Seq(Placed), e \in Placed : CiteOne(a, e, max) \in Seq(Placed)
  BY DEF CiteOne
<1>2. <<>> \in Seq(Placed)
  OBVIOUS
<1>3. QED
  BY <1>1, <1>2 DEF CiteStep

\* That fold is the run of its step, and keeps its type.
LEMMA CiteIsRun ==
    ASSUME NEW max, NEW q \in Seq(Placed)
    PROVE  CiteRun(q, max) = Run(<<>>, CiteStep(max), q) /\
             Run(<<>>, CiteStep(max), q) \in Seq(Placed)
<1>1. /\ <<>> \in Seq(Placed) /\ CiteStep(max) \in [Seq(Placed) \X Placed -> Seq(Placed)]
      /\ \A a \in Seq(Placed), e \in Placed : CiteStep(max)[<<a, e>>] = CiteOne(a, e, max)
  BY CiteFoldStep
<1>2. PICK f \in [SUBSET DOMAIN q -> Seq(Placed)] :
        Follows(f, Seq(Placed), Placed, <<>>, CiteStep(max), q)
  BY <1>1, FoldSteps
<1>3. f = [s \in SUBSET DOMAIN q |-> IF s = {} THEN <<>>
                                 ELSE CiteOne(f[s \ {Max(s)}], q[Max(s)], max)]
  BY <1>1, <1>2 DEF Follows
<1>4. PICK it : /\ CiteRun(q, max) = it[DOMAIN q]
                /\ it = [s \in SUBSET DOMAIN q |-> IF s = {} THEN <<>>
                                 ELSE CiteOne(it[s \ {Max(s)}], q[Max(s)], max)]
  BY <1>3 DEF CiteRun, FoldLeft, MapThenFoldSet
<1>5. Obeys(it, Seq(Placed), Placed, <<>>, CiteStep(max), q)
  BY <1>1, <1>4 DEF Obeys
<1>6. it[DOMAIN q] = Run(<<>>, CiteStep(max), q) /\ Run(<<>>, CiteStep(max), q) \in Seq(Placed)
  BY <1>1, <1>5, FoldIsRun
<1>7. QED
  BY <1>4, <1>6

\* Every citation that is left has its evidence.
LEMMA CiteKeeps ==
    ASSUME NEW max, NEW q \in Seq(Placed)
    PROVE  Range(CiteRun(q, max)) \subseteq {t \in Range(q) : t.is = "cite" => t.n \in 1 .. max}
<1> DEFINE P(x, a) == Range(a) \subseteq {t \in Range(x) : t.is = "cite" => t.n \in 1 .. max}
           I == {y \in Seq(Placed) \X Seq(Placed) : P(y[1], y[2])}
<1>0. /\ <<>> \in Seq(Placed) /\ CiteStep(max) \in [Seq(Placed) \X Placed -> Seq(Placed)]
      /\ \A a \in Seq(Placed), e \in Placed : CiteStep(max)[<<a, e>>] = CiteOne(a, e, max)
  BY CiteFoldStep
<1>1. P(<<>>, <<>>)
  BY DEF Range
<1>2. ASSUME NEW x \in Seq(Placed), NEW a \in Seq(Placed), NEW e \in Placed, P(x, a)
      PROVE  P(Append(x, e), CiteOne(a, e, max))
  <2>1. Range(Append(a, e)) = Range(a) \cup {e} /\ Range(Append(x, e)) = Range(x) \cup {e}
    BY RangeOfAppend
  <2>2. CASE e.is = "cite" => e.n \in 1 .. max
    <3>1. CiteOne(a, e, max) = Append(a, e)
      BY <2>2 DEF CiteOne
    <3>2. QED
      BY <1>2, <2>1, <2>2, <3>1
  <2>3. CASE ~(e.is = "cite" => e.n \in 1 .. max)
    <3>1. CiteOne(a, e, max) = a
      BY <2>3 DEF CiteOne
    <3>2. QED
      BY <1>2, <2>1, <3>1
  <2>4. QED
    BY <2>2, <2>3
<1> HIDE DEF P
<1>3. Keeps(I, Seq(Placed), Placed, <<>>, CiteStep(max))
  <2>1. <<<<>>, <<>>>> \in I
    <3>1. <<>> \in Seq(Placed) /\ <<>> \in Seq(Placed)
      BY <1>0
    <3>2. <<<<>>, <<>>>> \in Seq(Placed) \X Seq(Placed)
      BY <3>1
    <3>3. QED
      BY <1>1, <3>2
  <2>2. ASSUME NEW x \in Seq(Placed), NEW a \in Seq(Placed), NEW e \in Placed, <<x, a>> \in I
        PROVE  <<Append(x, e), CiteStep(max)[<<a, e>>]>> \in I
    <3>1. P(x, a)
      BY <2>2
    <3>2. P(Append(x, e), CiteStep(max)[<<a, e>>])
      BY <1>0, <1>2, <3>1
    <3>3. Append(x, e) \in Seq(Placed)
      OBVIOUS
    <3>4. CiteStep(max)[<<a, e>>] \in Seq(Placed)
      BY <1>0
    <3>5. QED
      BY <3>2, <3>3, <3>4
  <2> HIDE DEF I
  <2>3. QED
    BY <2>1, <2>2 DEF Keeps
<1> HIDE DEF I
<1>4. <<q, Run(<<>>, CiteStep(max), q)>> \in I
  BY <1>0, <1>3, FoldKeeps
<1>5. P(q, Run(<<>>, CiteStep(max), q))
  BY <1>4 DEF I
<1>6. QED
  BY <1>5, CiteIsRun DEF P

\* What is stored of an answer, whatever the answer and the number of its evidences.
LEMMA CleanTextHolds == CleanText
<1> SUFFICES ASSUME NEW raw \in RawAnswers, NEW max \in Counts,
                    NEW t \in Range(Sanitize(raw, max))
             PROVE  /\ t.is = "cite" => t.n \in 1 .. max
                    /\ Consistent(raw) /\ ~Unfinished(raw, "open", "close")
                         => /\ ~Reasoning(raw, t.at, "open", "close")
                            /\ ~Reasoning(raw, t.at, "begin", "end")
  BY DEF CleanText, Leaks, Range
<1>1. IsRaw(raw) /\ Len(raw) \in Nat /\ DOMAIN raw = 1 .. Len(raw)
  BY RawHolds DEF IsRaw
<1>2. raw \in Seq(Placed)
  BY <1>1 DEF IsRaw
<1>3. /\ StripReasoning(raw) \in Seq(Placed)
      /\ Range(StripReasoning(raw)) \subseteq Range(StripDelimiters(raw))
  BY <1>2, ReasoningPart
<1>4. t \in Range(StripReasoning(raw)) /\ (t.is = "cite" => t.n \in 1 .. max)
  <2>1. Sanitize(raw, max) = CiteRun(StripReasoning(raw), max)
    BY DEF Sanitize, StripInvalidCitations, CiteRun
  <2>2. QED
    BY <1>3, <2>1, CiteKeeps
<1>5. t \in Range(StripDelimiters(raw)) /\ t \in Range(raw)
  BY <1>2, <1>3, <1>4, DelimitersPart
<1>6. t.at \in DOMAIN raw
  BY <1>1, <1>5, WordsOf
<1>7. ASSUME NEW open, NEW close, ~Has(raw, open), ~Has(raw, close), open # close
      PROVE  ~Reasoning(raw, t.at, open, close)
  <2>1. ~Marked(raw, t.at, open, close)
    BY <1>1, <1>6, <1>7, NoMarks
  <2>2. ~Unfinished(raw, open, close)
    BY <1>7 DEF Unfinished, Has
  <2>3. QED
    BY <1>1, <1>6, <1>7, <2>1, <2>2, MarkedIsAll
<1>8. CASE /\ Consistent(raw) /\ ~Unfinished(raw, "open", "close")
           /\ ~Has(raw, "begin") /\ ~Has(raw, "end")
  <2>1. StripDelimiters(raw) = raw
    BY <1>2, <1>8, DelimitersPart
  <2>2. StripReasoning(raw)
          = BeforeFirst(AfterLast(RemoveBlocks(raw, "open", "close"), "close"), "open")
    BY <2>1 DEF StripReasoning
  <2>3. ~Marked(raw, t.at, "open", "close")
    BY <1>1, <1>4, <2>2, TagsStripped
  <2>4. ~Reasoning(raw, t.at, "open", "close")
    BY <1>1, <1>6, <1>8, <2>3, MarkedIsAll
  <2>5. ~Reasoning(raw, t.at, "begin", "end")
    BY <1>7, <1>8
  <2>6. QED
    BY <1>4, <2>4, <2>5
<1>9. CASE Consistent(raw) /\ (Has(raw, "begin") \/ Has(raw, "end"))
  <2>1. ~Has(raw, "open") /\ ~Has(raw, "close")
    BY <1>9 DEF Consistent
  <2>2. ~Reasoning(raw, t.at, "open", "close")
    BY <1>7, <2>1
  <2>3. /\ ~Unfinished(raw, "begin", "end")
        /\ Has(raw, "begin") /\ Has(raw, "end") =>
              /\ \A i \in DOMAIN raw : raw[i].is \in {"begin", "end"} =>
                    (raw[i].is = "end" <=> Opened(raw, i, "begin", "end"))
              /\ ~Opened(raw, Len(raw) + 1, "begin", "end")
    BY <1>1, <1>9, AlternateFinished DEF Consistent
  <2>4. ~Marked(raw, t.at, "begin", "end")
    BY <1>1, <1>5, <2>3, DelimitersStripped
  <2>5. ~Reasoning(raw, t.at, "begin", "end")
    BY <1>1, <1>6, <2>3, <2>4, MarkedIsAll
  <2>6. QED
    BY <1>4, <2>2, <2>5
<1>10. QED
  BY <1>4, <1>8, <1>9

-----------------------------------------------------------------------------
(* The documents of a request *)

\* The lists that requests and queries bring are sequences.
LEMMA ListsAre ==
    ASSUME NEW S, NEW n \in Nat, NEW q \in Lists(S, n)
    PROVE  q \in Seq(S)
<1>1. PICK k \in 0 .. n : q \in [1 .. k -> S]
  BY DEF Lists
<1>2. k \in Nat
  OBVIOUS
<1>3. QED
  BY <1>1, <1>2

\* What the queries bring are texts.
LEMMA BroughtAre == Brought \subseteq Seq(ChunkTexts)
<1>1. ASSUME NEW q \in QueryAnswers PROVE q \in Seq(ChunkTexts)
  <2>1. \A a,
          up : SearchPoints(a, up, ListLength) \subseteq {<<>>} \cup Lists(ChunkTexts, ListLength)
    BY DEF SearchPoints, QueryPoints
  <2>2. q \in {<<>>} \cup Lists(ChunkTexts, ListLength)
    BY <2>1 DEF QueryAnswers
  <2>3. <<>> \in Seq(ChunkTexts)
    OBVIOUS
  <2>4. QED
    BY <2>2, <2>3, ListsAre, SummaryTextAssumption
<1>2. QED
  BY <1>1 DEF Brought, SearchPointsFiltered

\* A document is asked for before another: its first place is before all of the other's.
Before(x, d, c) == \E i \in DOMAIN x : x[i] = d /\ \A j \in 1 .. i : x[j] # c
AskedAt(x, d) == CHOOSE i \in DOMAIN x : x[i] = d /\ \A j \in 1 .. i - 1 : x[j] # d

\* Where a document is first asked for.
LEMMA AskedIs ==
    ASSUME NEW S, NEW x \in Seq(S), NEW d \in Range(x)
    PROVE  /\ AskedAt(x, d) \in DOMAIN x /\ AskedAt(x, d) \in Nat /\ x[AskedAt(x, d)] = d
           /\ \A j \in 1 .. AskedAt(x, d) - 1 : x[j] # d
<1> DEFINE at == {i \in DOMAIN x : x[i] = d}
<1>1. Len(x) \in Nat /\ DOMAIN x = 1 .. Len(x)
  OBVIOUS
<1>2. at \in SUBSET Nat /\ at # {}
  BY <1>1 DEF Range
<1>3. PICK i \in at : \A j \in at : i <= j
  BY <1>2, LeastOf
<1>4. i \in DOMAIN x /\ x[i] = d /\ \A j \in 1 .. i - 1 : x[j] # d
  <2>1. ASSUME NEW j \in 1 .. i - 1, x[j] = d PROVE FALSE
    <3>1. j \in DOMAIN x /\ j < i
      BY <1>1, <1>3
    <3>2. i <= j
      BY <1>3, <2>1, <3>1
    <3>3. QED
      BY <1>1, <1>3, <3>1, <3>2
  <2>2. QED
    BY <1>3, <2>1
<1>5. AskedAt(x, d) \in DOMAIN x /\ x[AskedAt(x, d)] = d /\
        \A j \in 1 .. AskedAt(x, d) - 1 : x[j] # d
  BY <1>4 DEF AskedAt
<1>6. QED
  BY <1>1, <1>5

\* A document that comes before another was asked for before it.
LEMMA AskedBefore ==
    ASSUME NEW S, NEW x \in Seq(S), NEW d \in Range(x), NEW c \in Range(x), Before(x, d, c)
    PROVE  AskedAt(x, d) <= AskedAt(x, c)
<1>1. PICK i \in DOMAIN x : x[i] = d /\ \A j \in 1 .. i : x[j] # c
  BY DEF Before
<1>2. /\ AskedAt(x, d) \in Nat /\ \A j \in 1 .. AskedAt(x, d) - 1 : x[j] # d
      /\ AskedAt(x, c) \in DOMAIN x /\ x[AskedAt(x, c)] = c
  BY AskedIs
<1>3. i \in Nat /\ i >= 1 /\ DOMAIN x = 1 .. Len(x) /\ Len(x) \in Nat
  OBVIOUS
<1>4. AskedAt(x, d) <= i
  BY <1>1, <1>2, <1>3
<1>5. AskedAt(x, c) > i
  BY <1>1, <1>2, <1>3
<1>6. QED
  BY <1>2, <1>3, <1>4, <1>5

\* The documents of a request, once each and in the order they were asked for.
InOrderOf(x, out) ==
    /\ Range(out) = Range(x) \ {Blank}
    /\ \A a, b \in DOMAIN out : a < b => Before(x, out[a], out[b])

\* The step of collecting the documents.
UniqueStep == [x \in Seq(NamedUuids) \X Uuids |-> UniqueOne(x[1], x[2])]

\* The documents of a request are collected by a fold.
LEMMA UniqueFoldStep ==
    /\ <<>> \in Seq(NamedUuids)
    /\ UniqueStep \in [Seq(NamedUuids) \X Uuids -> Seq(NamedUuids)]
    /\ \A a \in Seq(NamedUuids), e \in Uuids : UniqueStep[<<a, e>>] = UniqueOne(a, e)
<1>1. \A a \in Seq(NamedUuids), e \in Uuids : UniqueOne(a, e) \in Seq(NamedUuids)
  BY DEF UniqueOne, NamedUuids
<1>2. <<>> \in Seq(NamedUuids)
  OBVIOUS
<1>3. QED
  BY <1>1, <1>2 DEF UniqueStep

\* That fold is the run of its step, and keeps its type.
LEMMA UniqueIsRun ==
    ASSUME NEW q \in Seq(Uuids)
    PROVE  UniqueDocuments(q) = Run(<<>>, UniqueStep, q) /\
             Run(<<>>, UniqueStep, q) \in Seq(NamedUuids)
<1>1. /\ <<>> \in Seq(NamedUuids) /\ UniqueStep \in [Seq(NamedUuids) \X Uuids -> Seq(NamedUuids)]
      /\ \A a \in Seq(NamedUuids), e \in Uuids : UniqueStep[<<a, e>>] = UniqueOne(a, e)
  BY UniqueFoldStep
<1>2. PICK f \in [SUBSET DOMAIN q -> Seq(NamedUuids)] :
        Follows(f, Seq(NamedUuids), Uuids, <<>>, UniqueStep, q)
  BY <1>1, FoldSteps
<1>3. f = [s \in SUBSET DOMAIN q |-> IF s = {} THEN <<>>
                                 ELSE UniqueOne(f[s \ {Max(s)}], q[Max(s)])]
  BY <1>1, <1>2 DEF Follows
<1>4. PICK it : /\ UniqueDocuments(q) = it[DOMAIN q]
                /\ it = [s \in SUBSET DOMAIN q |-> IF s = {} THEN <<>>
                                 ELSE UniqueOne(it[s \ {Max(s)}], q[Max(s)])]
  BY <1>3 DEF UniqueDocuments, FoldLeft, MapThenFoldSet
<1>5. Obeys(it, Seq(NamedUuids), Uuids, <<>>, UniqueStep, q)
  BY <1>1, <1>4 DEF Obeys
<1>6. it[DOMAIN q] = Run(<<>>, UniqueStep, q) /\ Run(<<>>, UniqueStep, q) \in Seq(NamedUuids)
  BY <1>1, <1>5, FoldIsRun
<1>7. QED
  BY <1>4, <1>6

\* A sequence that contains an element has it in its range.
LEMMA ContainsIs ==
    ASSUME NEW S, NEW q \in Seq(S), NEW e
    PROVE  Contains(q, e) <=> e \in Range(q)
  BY DEF Contains, Range

\* What a document more does to the order of those that were asked for.
LEMMA BeforeGrows ==
    ASSUME NEW S, NEW x \in Seq(S), NEW e \in S
    PROVE  /\ \A d, c : Before(x, d, c) => Before(Append(x, e), d, c)
           /\ e \notin Range(x) => \A d \in Range(x) : Before(Append(x, e), d, e)
<1> DEFINE y == Append(x, e)
           n == Len(x)
<1>1. n \in Nat /\ DOMAIN x = 1 .. n /\ DOMAIN y = 1 .. n + 1 /\ \A i \in 1 .. n : y[i] = x[i]
  OBVIOUS
<1> HIDE DEF y, n
<1>2. \A i \in 1 .. n : i \in 1 .. n + 1 /\ \A j \in 1 .. i : j \in 1 .. n
  BY <1>1
<1>3. ASSUME NEW d, NEW c, Before(x, d, c) PROVE Before(y, d, c)
  <2>1. PICK i \in 1 .. n : x[i] = d /\ \A j \in 1 .. i : x[j] # c
    BY <1>1, <1>3 DEF Before
  <2>2. i \in DOMAIN y /\ y[i] = d /\ \A j \in 1 .. i : y[j] # c
    BY <1>1, <1>2, <2>1
  <2>3. QED
    BY <2>2 DEF Before
<1>4. ASSUME e \notin Range(x), NEW d \in Range(x) PROVE Before(y, d, e)
  <2>1. PICK i \in 1 .. n : x[i] = d
    BY <1>1 DEF Range
  <2>2. \A j \in 1 .. n : x[j] # e
    BY <1>1, <1>4 DEF Range
  <2>3. i \in DOMAIN y /\ y[i] = d /\ \A j \in 1 .. i : y[j] # e
    BY <1>1, <1>2, <2>1, <2>2
  <2>4. QED
    BY <2>3 DEF Before
<1>5. QED
  BY <1>3, <1>4 DEF y

\* Whatever a request repeats, its documents are those it names, in its order.
LEMMA UniqueKeeps ==
    ASSUME NEW q \in Seq(Uuids)
    PROVE  InOrderOf(q, UniqueDocuments(q))
<1> DEFINE P(x, a) == InOrderOf(x, a)
           I == {y \in Seq(Uuids) \X Seq(NamedUuids) : P(y[1], y[2])}
<1>0. /\ <<>> \in Seq(NamedUuids) /\ UniqueStep \in [Seq(NamedUuids) \X Uuids -> Seq(NamedUuids)]
      /\ \A a \in Seq(NamedUuids), e \in Uuids : UniqueStep[<<a, e>>] = UniqueOne(a, e)
  BY UniqueFoldStep
<1>1. P(<<>>, <<>>)
  BY DEF InOrderOf, Range
<1>2. ASSUME NEW x \in Seq(Uuids), NEW a \in Seq(NamedUuids), NEW e \in Uuids, P(x, a)
      PROVE  P(Append(x, e), UniqueOne(a, e))
  <2>1. /\ \A d, c : Before(x, d, c) => Before(Append(x, e), d, c)
        /\ e \notin Range(x) => \A d \in Range(x) : Before(Append(x, e), d, e)
    BY BeforeGrows
  <2>2. Range(Append(x, e)) = Range(x) \cup {e} /\ (Contains(a, e) <=> e \in Range(a))
    BY RangeOfAppend, ContainsIs
  <2>3. Range(a) = Range(x) \ {Blank} /\ \A i, j \in DOMAIN a : i < j => Before(x, a[i], a[j])
    BY <1>2 DEF InOrderOf
  <2>4. CASE e = Blank \/ e \in Range(a)
    <3>1. UniqueOne(a, e) = a
      BY <2>2, <2>4 DEF UniqueOne
    <3>2. Range(a) = Range(Append(x, e)) \ {Blank}
      BY <2>2, <2>3, <2>4
    <3>3. QED
      BY <2>1, <2>3, <3>1, <3>2 DEF InOrderOf
  <2>5. CASE e # Blank /\ e \notin Range(a)
    <3> DEFINE new == Append(a, e)
               m == Len(a)
    <3>1. UniqueOne(a, e) = new
      BY <2>2, <2>5 DEF UniqueOne
    <3>2. e \in NamedUuids /\ e \notin Range(x)
      BY <2>3, <2>5 DEF NamedUuids
    <3>3. /\ m \in Nat /\ DOMAIN a = 1 .. m /\ DOMAIN new = 1 .. m + 1 /\ new[m + 1] = e
          /\ \A i \in 1 .. m : new[i] = a[i]
      BY <3>2
    <3>4. Range(new) = Range(a) \cup {e}
      BY <3>2, RangeOfAppend
    <3> HIDE DEF new, m
    <3>5. ASSUME NEW i \in 1 .. m + 1, NEW j \in 1 .. m + 1, i < j
          PROVE  Before(Append(x, e), new[i], new[j])
      <4>1. i \in 1 .. m /\ a[i] \in Range(a)
        BY <3>3, <3>5 DEF Range
      <4>2. CASE j = m + 1
        BY <2>1, <2>3, <3>2, <3>3, <4>1, <4>2
      <4>3. CASE j # m + 1
        <5>1. j \in 1 .. m
          BY <3>3, <4>3
        <5>2. QED
          BY <2>1, <2>3, <3>3, <3>5, <4>1, <5>1
      <4>4. QED
        BY <4>2, <4>3
    <3>6. Range(new) = Range(Append(x, e)) \ {Blank}
      BY <2>2, <2>3, <2>5, <3>4
    <3>7. QED
      BY <3>1, <3>3, <3>5, <3>6 DEF InOrderOf
  <2>6. QED
    BY <2>4, <2>5
<1> HIDE DEF P
<1>3. Keeps(I, Seq(NamedUuids), Uuids, <<>>, UniqueStep)
  <2>1. <<<<>>, <<>>>> \in I
    <3>1. <<>> \in Seq(Uuids) /\ <<>> \in Seq(NamedUuids)
      BY <1>0
    <3>2. <<<<>>, <<>>>> \in Seq(Uuids) \X Seq(NamedUuids)
      BY <3>1
    <3>3. QED
      BY <1>1, <3>2
  <2>2. ASSUME NEW x \in Seq(Uuids), NEW a \in Seq(NamedUuids), NEW e \in Uuids, <<x, a>> \in I
        PROVE  <<Append(x, e), UniqueStep[<<a, e>>]>> \in I
    <3>1. P(x, a)
      BY <2>2
    <3>2. P(Append(x, e), UniqueStep[<<a, e>>])
      BY <1>0, <1>2, <3>1
    <3>3. Append(x, e) \in Seq(Uuids)
      OBVIOUS
    <3>4. UniqueStep[<<a, e>>] \in Seq(NamedUuids)
      BY <1>0
    <3>5. QED
      BY <3>2, <3>3, <3>4
  <2> HIDE DEF I
  <2>3. QED
    BY <2>1, <2>2 DEF Keeps
<1> HIDE DEF I
<1>4. <<q, Run(<<>>, UniqueStep, q)>> \in I
  BY <1>0, <1>3, FoldKeeps
<1>5. P(q, Run(<<>>, UniqueStep, q))
  BY <1>4 DEF I
<1>6. QED
  BY <1>5, UniqueIsRun DEF P

-----------------------------------------------------------------------------
(* The evidences of a retrieval *)

\* Of a sequence, one element is not after another.
InOrder(x, d, c) == \E i, j \in DOMAIN x : i <= j /\ x[i] = d /\ x[j] = c

\* What one element more does to the order: it comes after all of them, itself included.
LEMMA InOrderGrows ==
    ASSUME NEW S, NEW x \in Seq(S), NEW e \in S
    PROVE  /\ \A d, c : InOrder(x, d, c) => InOrder(Append(x, e), d, c)
           /\ \A d \in Range(Append(x, e)) : InOrder(Append(x, e), d, e)
<1> DEFINE y == Append(x, e)
           n == Len(x)
<1>1. /\ n \in Nat /\ DOMAIN x = 1 .. n /\ DOMAIN y = 1 .. n + 1
      /\ y[n + 1] = e /\ \A i \in 1 .. n : y[i] = x[i]
  OBVIOUS
<1> HIDE DEF y, n
<1>2. ASSUME NEW d, NEW c, InOrder(x, d, c) PROVE InOrder(y, d, c)
  <2>1. PICK i \in 1 .. n, j \in 1 .. n : i <= j /\ x[i] = d /\ x[j] = c
    BY <1>1, <1>2 DEF InOrder
  <2>2. i \in DOMAIN y /\ j \in DOMAIN y /\ y[i] = d /\ y[j] = c
    BY <1>1, <2>1
  <2>3. QED
    BY <2>1, <2>2 DEF InOrder
<1>3. ASSUME NEW d \in Range(y) PROVE InOrder(y, d, e)
  <2>1. PICK i \in 1 .. n + 1 : y[i] = d
    BY <1>1 DEF Range
  <2>2. i <= n + 1 /\ n + 1 \in DOMAIN y /\ i \in DOMAIN y
    BY <1>1
  <2>3. QED
    BY <1>1, <2>1, <2>2 DEF InOrder
<1>4. QED
  BY <1>2, <1>3 DEF y

\* What is retrieved for documents: all that their queries brought, in their order.
RetrievedFor(x, found, out) ==
    /\ \A p \in Range(out) : p.doc \in Range(x)
    /\ \A d \in Range(x) : \A t \in Range(found[d]) : [doc |-> d, text |-> t] \in Range(out)
    /\ \A a, b \in DOMAIN out : a < b => InOrder(x, out[a].doc, out[b].doc)

\* The step of the retrieval.
RetrieveStep(found) == [x \in Seq(Point) \X NamedUuids |-> x[1] \o RetrieveOne(x[2], found)]

\* The points of one document.
LEMMA RetrieveOneIs ==
    ASSUME NEW found \in [NamedUuids -> Seq(ChunkTexts)], NEW d \in NamedUuids
    PROVE  /\ RetrieveOne(d, found) \in Seq(Point)
           /\ \A p \in Range(RetrieveOne(d, found)) : p.doc = d
           /\ \A t \in Range(found[d]) : [doc |-> d, text |-> t] \in Range(RetrieveOne(d, found))
<1> DEFINE f == found[d]
           one == RetrieveOne(d, found)
<1>1. f \in Seq(ChunkTexts) /\ Len(f) \in Nat /\ DOMAIN f = 1 .. Len(f)
  OBVIOUS
<1>2. one = [j \in 1 .. Len(f) |-> [doc |-> d, text |-> f[j]]]
  BY <1>1 DEF RetrieveOne
<1> HIDE DEF one, f
<1>3. \A j \in 1 .. Len(f) : f[j] \in ChunkTexts
  BY <1>1
<1>4. \A j \in 1 .. Len(f) : [doc |-> d, text |-> f[j]] \in Point
  BY <1>3 DEF Point
<1>5. one \in Seq(Point)
  BY <1>1, <1>2, <1>4
<1>6. \A p \in Range(one) : p.doc = d
  BY <1>2 DEF Range
<1>7. ASSUME NEW t \in Range(f) PROVE [doc |-> d, text |-> t] \in Range(one)
  <2>1. PICK j \in 1 .. Len(f) : f[j] = t
    BY <1>1 DEF Range
  <2>2. j \in DOMAIN one /\ one[j] = [doc |-> d, text |-> t]
    BY <1>2, <2>1
  <2>3. QED
    BY <2>2 DEF Range
<1>8. QED
  BY <1>5, <1>6, <1>7 DEF one, f

\* The points of the documents are joined by a fold.
LEMMA RetrieveFoldStep ==
    ASSUME NEW found \in [NamedUuids -> Seq(ChunkTexts)]
    PROVE  /\ <<>> \in Seq(Point)
           /\ RetrieveStep(found) \in [Seq(Point) \X NamedUuids -> Seq(Point)]
           /\ \A a \in Seq(Point),
                e \in NamedUuids : RetrieveStep(found)[<<a, e>>] = a \o RetrieveOne(e, found)
<1>1. \A a \in Seq(Point), e \in NamedUuids : a \o RetrieveOne(e, found) \in Seq(Point)
  <2>1. \A e \in NamedUuids : RetrieveOne(e, found) \in Seq(Point)
    BY RetrieveOneIs
  <2>2. QED
    BY <2>1
<1>2. <<>> \in Seq(Point)
  OBVIOUS
<1>3. QED
  BY <1>1, <1>2 DEF RetrieveStep

\* That fold is the run of its step, and keeps its type.
LEMMA RetrieveIsRun ==
    ASSUME NEW found \in [NamedUuids -> Seq(ChunkTexts)], NEW q \in Seq(NamedUuids)
    PROVE  RetrievePerDocument(q, found) = Run(<<>>, RetrieveStep(found), q) /\
             Run(<<>>, RetrieveStep(found), q) \in Seq(Point)
<1>1. /\ <<>> \in Seq(Point) /\ RetrieveStep(found) \in [Seq(Point) \X NamedUuids -> Seq(Point)]
      /\ \A a \in Seq(Point),
           e \in NamedUuids : RetrieveStep(found)[<<a, e>>] = a \o RetrieveOne(e, found)
  BY RetrieveFoldStep
<1>2. PICK f \in [SUBSET DOMAIN q -> Seq(Point)] :
        Follows(f, Seq(Point), NamedUuids, <<>>, RetrieveStep(found), q)
  BY <1>1, FoldSteps
<1>3. f = [s \in SUBSET DOMAIN q |-> IF s = {} THEN <<>>
                                 ELSE f[s \ {Max(s)}] \o RetrieveOne(q[Max(s)], found)]
  BY <1>1, <1>2 DEF Follows
<1>4. PICK it : /\ RetrievePerDocument(q, found) = it[DOMAIN q]
                /\ it = [s \in SUBSET DOMAIN q |-> IF s = {} THEN <<>>
                                 ELSE it[s \ {Max(s)}] \o RetrieveOne(q[Max(s)], found)]
  BY <1>3 DEF RetrievePerDocument, FoldLeft, MapThenFoldSet
<1>5. Obeys(it, Seq(Point), NamedUuids, <<>>, RetrieveStep(found), q)
  BY <1>1, <1>4 DEF Obeys
<1>6. it[DOMAIN q] = Run(<<>>, RetrieveStep(found), q) /\
        Run(<<>>, RetrieveStep(found), q) \in Seq(Point)
  BY <1>1, <1>5, FoldIsRun
<1>7. QED
  BY <1>4, <1>6

\* Every document asked for is searched, and its points come after those of the ones before.
LEMMA RetrieveKeeps ==
    ASSUME NEW found \in [NamedUuids -> Seq(ChunkTexts)], NEW q \in Seq(NamedUuids)
    PROVE  RetrievedFor(q, found, RetrievePerDocument(q, found))
<1> DEFINE P(x, a) == RetrievedFor(x, found, a)
           I == {y \in Seq(NamedUuids) \X Seq(Point) : P(y[1], y[2])}
<1>0. /\ <<>> \in Seq(Point) /\ RetrieveStep(found) \in [Seq(Point) \X NamedUuids -> Seq(Point)]
      /\ \A a \in Seq(Point),
           e \in NamedUuids : RetrieveStep(found)[<<a, e>>] = a \o RetrieveOne(e, found)
  BY RetrieveFoldStep
<1>1. P(<<>>, <<>>)
  BY DEF RetrievedFor, Range
<1>2. ASSUME NEW x \in Seq(NamedUuids), NEW a \in Seq(Point), NEW e \in NamedUuids, P(x, a)
      PROVE  P(Append(x, e), a \o RetrieveOne(e, found))
  <2> DEFINE one == RetrieveOne(e, found)
             y == Append(x, e)
             new == a \o one
  <2>1. /\ one \in Seq(Point) /\ \A p \in Range(one) : p.doc = e
        /\ \A t \in Range(found[e]) : [doc |-> e, text |-> t] \in Range(one)
    BY RetrieveOneIs
  <2>2. /\ \A d, c : InOrder(x, d, c) => InOrder(y, d, c)
        /\ \A d \in Range(y) : InOrder(y, d, e)
    BY InOrderGrows
  <2>3. Range(y) = Range(x) \cup {e}
    BY RangeOfAppend
  <2> HIDE DEF one, y
  <2>4. Range(new) = Range(a) \cup Range(one)
    BY <2>1, RangeOfJoin
  <2>5. /\ DOMAIN new = 1 .. Len(a) + Len(one) /\ DOMAIN a = 1 .. Len(a) /\ Len(a) \in Nat
        /\ DOMAIN one = 1 .. Len(one) /\ Len(one) \in Nat
        /\ \A k \in 1 .. Len(a) : new[k] = a[k]
        /\ \A k \in Len(a) + 1 .. Len(a) + Len(one) : new[k] = one[k - Len(a)]
    BY <2>1
  <2> HIDE DEF new
  <2>6. /\ \A p \in Range(a) : p.doc \in Range(x)
        /\ \A d \in Range(x) : \A t \in Range(found[d]) : [doc |-> d, text |-> t] \in Range(a)
        /\ \A i, j \in DOMAIN a : i < j => InOrder(x, a[i].doc, a[j].doc)
    BY <1>2 DEF RetrievedFor
  <2>7. \A p \in Range(new) : p.doc \in Range(y)
    BY <2>1, <2>3, <2>4, <2>6
  <2>8. \A d \in Range(y) : \A t \in Range(found[d]) : [doc |-> d, text |-> t] \in Range(new)
    BY <2>1, <2>3, <2>4, <2>6
  <2>9. ASSUME NEW i \in DOMAIN new, NEW j \in DOMAIN new, i < j
        PROVE  InOrder(y, new[i].doc, new[j].doc)
    <3>1. CASE j \in 1 .. Len(a)
      <4>1. i \in 1 .. Len(a)
        BY <2>5, <2>9, <3>1
      <4>2. InOrder(x, a[i].doc, a[j].doc) /\ new[i] = a[i] /\ new[j] = a[j]
        BY <2>5, <2>6, <2>9, <3>1, <4>1
      <4>3. QED
        BY <2>2, <4>2
    <3>2. CASE j \notin 1 .. Len(a)
      <4>1. j \in Len(a) + 1 .. Len(a) + Len(one) /\ j - Len(a) \in DOMAIN one
        BY <2>5, <3>2
      <4>2. new[j] \in Range(one)
        BY <2>5, <4>1 DEF Range
      <4>3. new[i].doc \in Range(y)
        BY <2>7 DEF Range
      <4>4. QED
        BY <2>1, <2>2, <4>2, <4>3
    <3>3. QED
      BY <3>1, <3>2
  <2>10. RetrievedFor(y, found, new)
    BY <2>7, <2>8, <2>9 DEF RetrievedFor
  <2>11. QED
    BY <2>10 DEF y, new, one
<1> HIDE DEF P
<1>3. Keeps(I, Seq(Point), NamedUuids, <<>>, RetrieveStep(found))
  <2>1. <<<<>>, <<>>>> \in I
    <3>1. <<>> \in Seq(NamedUuids) /\ <<>> \in Seq(Point)
      BY <1>0
    <3>2. <<<<>>, <<>>>> \in Seq(NamedUuids) \X Seq(Point)
      BY <3>1
    <3>3. QED
      BY <1>1, <3>2
  <2>2. ASSUME NEW x \in Seq(NamedUuids), NEW a \in Seq(Point), NEW e \in NamedUuids, <<x, a>> \in I
        PROVE  <<Append(x, e), RetrieveStep(found)[<<a, e>>]>> \in I
    <3>1. P(x, a)
      BY <2>2
    <3>2. P(Append(x, e), RetrieveStep(found)[<<a, e>>])
      BY <1>0, <1>2, <3>1
    <3>3. Append(x, e) \in Seq(NamedUuids)
      OBVIOUS
    <3>4. RetrieveStep(found)[<<a, e>>] \in Seq(Point)
      BY <1>0
    <3>5. QED
      BY <3>2, <3>3, <3>4
  <2> HIDE DEF I
  <2>3. QED
    BY <2>1, <2>2 DEF Keeps
<1> HIDE DEF I
<1>4. <<q, Run(<<>>, RetrieveStep(found), q)>> \in I
  BY <1>0, <1>3, FoldKeeps
<1>5. P(q, Run(<<>>, RetrieveStep(found), q))
  BY <1>4 DEF I
<1>6. QED
  BY <1>5, RetrieveIsRun DEF P

\* What is numbered of points: each once, in their order; without the cap every one with a
\* text, with it one of every document at least.
NumberedOf(x, capped, out) ==
    /\ Range(out) \subseteq Range(x)
    /\ \A a, b \in DOMAIN out : a < b => out[a] # out[b] /\ InOrder(x, out[a], out[b])
    /\ \A p \in Range(x) : p.text # Blank =>
          /\ \E r \in Range(out) : r.doc = p.doc
          /\ ~capped => p \in Range(out)

\* The step of the numbering.
DedupStep(capped) == [x \in Seq(Point) \X Point |-> DedupOne(x[1], x[2], capped)]

\* The evidences are numbered by a fold.
LEMMA DedupFoldStep ==
    ASSUME NEW capped
    PROVE  /\ <<>> \in Seq(Point)
           /\ DedupStep(capped) \in [Seq(Point) \X Point -> Seq(Point)]
           /\ \A a \in Seq(Point),
                e \in Point : DedupStep(capped)[<<a, e>>] = DedupOne(a, e, capped)
<1>1. \A a \in Seq(Point), e \in Point : DedupOne(a, e, capped) \in Seq(Point)
  BY DEF DedupOne
<1>2. <<>> \in Seq(Point)
  OBVIOUS
<1>3. QED
  BY <1>1, <1>2 DEF DedupStep

\* That fold is the run of its step, and keeps its type.
LEMMA DedupIsRun ==
    ASSUME NEW capped, NEW q \in Seq(Point)
    PROVE  DedupAndNumber(q, capped) = Run(<<>>, DedupStep(capped), q) /\
             Run(<<>>, DedupStep(capped), q) \in Seq(Point)
<1>1. /\ <<>> \in Seq(Point) /\ DedupStep(capped) \in [Seq(Point) \X Point -> Seq(Point)]
      /\ \A a \in Seq(Point), e \in Point : DedupStep(capped)[<<a, e>>] = DedupOne(a, e, capped)
  BY DedupFoldStep
<1>2. PICK f \in [SUBSET DOMAIN q -> Seq(Point)] :
        Follows(f, Seq(Point), Point, <<>>, DedupStep(capped), q)
  BY <1>1, FoldSteps
<1>3. f = [s \in SUBSET DOMAIN q |-> IF s = {} THEN <<>>
                                 ELSE DedupOne(f[s \ {Max(s)}], q[Max(s)], capped)]
  BY <1>1, <1>2 DEF Follows
<1>4. PICK it : /\ DedupAndNumber(q, capped) = it[DOMAIN q]
                /\ it = [s \in SUBSET DOMAIN q |-> IF s = {} THEN <<>>
                                 ELSE DedupOne(it[s \ {Max(s)}], q[Max(s)], capped)]
  BY <1>3 DEF DedupAndNumber, FoldLeft, MapThenFoldSet
<1>5. Obeys(it, Seq(Point), Point, <<>>, DedupStep(capped), q)
  BY <1>1, <1>4 DEF Obeys
<1>6. it[DOMAIN q] = Run(<<>>, DedupStep(capped), q) /\
        Run(<<>>, DedupStep(capped), q) \in Seq(Point)
  BY <1>1, <1>5, FoldIsRun
<1>7. QED
  BY <1>4, <1>6

\* A document whose evidences reach the cap has one.
LEMMA CappedHasOne ==
    ASSUME NEW a \in Seq(Point), NEW d,
           Cardinality({i \in DOMAIN a : a[i].doc = d}) >= MaxPerDocument
    PROVE  \E r \in Range(a) : r.doc = d
<1> SUFFICES ASSUME \A r \in Range(a) : r.doc # d PROVE FALSE
  OBVIOUS
<1>1. {i \in DOMAIN a : a[i].doc = d} = {}
  BY DEF Range
<1>2. 0 >= MaxPerDocument
  BY <1>1, FS_EmptySet
<1>3. QED
  BY <1>2, SummaryTextAssumption

\* The numbering loses no point but the ones that are blank, repeated or over the cap.
LEMMA DedupKeeps ==
    ASSUME NEW capped, NEW q \in Seq(Point)
    PROVE  NumberedOf(q, capped, DedupAndNumber(q, capped))
<1> DEFINE P(x, a) == NumberedOf(x, capped, a)
           I == {y \in Seq(Point) \X Seq(Point) : P(y[1], y[2])}
<1>0. /\ <<>> \in Seq(Point) /\ DedupStep(capped) \in [Seq(Point) \X Point -> Seq(Point)]
      /\ \A a \in Seq(Point), e \in Point : DedupStep(capped)[<<a, e>>] = DedupOne(a, e, capped)
  BY DedupFoldStep
<1>1. P(<<>>, <<>>)
  BY DEF NumberedOf, Range
<1>2. ASSUME NEW x \in Seq(Point), NEW a \in Seq(Point), NEW e \in Point, P(x, a)
      PROVE  P(Append(x, e), DedupOne(a, e, capped))
  <2> DEFINE y == Append(x, e)
             new == DedupOne(a, e, capped)
             grown == Append(a, e)
  <2>1. /\ \A d, c : InOrder(x, d, c) => InOrder(y, d, c)
        /\ \A d \in Range(y) : InOrder(y, d, e)
    BY InOrderGrows
  <2>2. Range(y) = Range(x) \cup {e} /\ Range(grown) = Range(a) \cup {e}
    BY RangeOfAppend
  <2>3. Contains(a, e) <=> e \in Range(a)
    BY ContainsIs
  <2>4. /\ DOMAIN grown = 1 .. Len(a) + 1 /\ DOMAIN a = 1 .. Len(a) /\ Len(a) \in Nat
        /\ grown[Len(a) + 1] = e /\ \A k \in 1 .. Len(a) : grown[k] = a[k]
    OBVIOUS
  <2> HIDE DEF y, grown
  <2>5. /\ Range(a) \subseteq Range(x)
        /\ \A i, j \in DOMAIN a : i < j => a[i] # a[j] /\ InOrder(x, a[i], a[j])
        /\ \A p \in Range(x) : p.text # Blank =>
              /\ \E r \in Range(a) : r.doc = p.doc
              /\ ~capped => p \in Range(a)
    BY <1>2 DEF NumberedOf
  <2>6. ASSUME e.text = Blank \/ e \in Range(a)
               \/ (capped /\ Cardinality({i \in DOMAIN a : a[i].doc = e.doc}) >= MaxPerDocument)
        PROVE  NumberedOf(y, capped, new)
    <3>1. new = a
      BY <2>3, <2>6 DEF DedupOne
    <3>2. e.text # Blank => (\E r \in Range(a) : r.doc = e.doc) /\ (~capped => e \in Range(a))
      <4>1. CASE e.text = Blank \/ e \in Range(a)
        BY <4>1
      <4>2. CASE capped /\ Cardinality({i \in DOMAIN a : a[i].doc = e.doc}) >= MaxPerDocument
        BY <4>2, CappedHasOne
      <4>3. QED
        BY <2>6, <4>1, <4>2
    <3> HIDE DEF new
    <3>3. \A i, j \in DOMAIN a : i < j => a[i] # a[j] /\ InOrder(y, a[i], a[j])
      BY <2>1, <2>5
    <3>4. NumberedOf(y, capped, a)
      BY <2>2, <2>5, <3>2, <3>3 DEF NumberedOf
    <3>5. QED
      BY <3>1, <3>4
  <2>7. ASSUME e.text # Blank, e \notin Range(a),
               ~(capped /\ Cardinality({i \in DOMAIN a : a[i].doc = e.doc}) >= MaxPerDocument)
        PROVE  NumberedOf(y, capped, new)
    <3>1. new = grown
      BY <2>3, <2>7 DEF DedupOne, grown
    <3> HIDE DEF new
    <3>2. ASSUME NEW i \in DOMAIN grown, NEW j \in DOMAIN grown, i < j
          PROVE  grown[i] # grown[j] /\ InOrder(y, grown[i], grown[j])
      <4>1. i \in 1 .. Len(a) /\ grown[i] = a[i] /\ a[i] \in Range(a)
        BY <2>4, <3>2 DEF Range
      <4>2. CASE j \in 1 .. Len(a)
        BY <2>1, <2>4, <2>5, <3>2, <4>1, <4>2
      <4>3. CASE j \notin 1 .. Len(a)
        <5>1. grown[j] = e
          BY <2>4, <4>3
        <5>2. a[i] \in Range(y)
          BY <2>2, <2>5, <4>1
        <5>3. QED
          BY <2>1, <2>7, <4>1, <5>1, <5>2
      <4>4. QED
        BY <4>2, <4>3
    <3>3. Range(grown) \subseteq Range(y)
      BY <2>2, <2>5
    <3>4. \A p \in Range(y) : p.text # Blank =>
              /\ \E r \in Range(grown) : r.doc = p.doc
              /\ ~capped => p \in Range(grown)
      BY <2>2, <2>5
    <3>5. QED
      BY <3>1, <3>2, <3>3, <3>4 DEF NumberedOf
  <2>8. NumberedOf(y, capped, new)
    BY <2>6, <2>7
  <2>9. QED
    BY <2>8 DEF y, new
<1> HIDE DEF P
<1>3. Keeps(I, Seq(Point), Point, <<>>, DedupStep(capped))
  <2>1. <<<<>>, <<>>>> \in I
    <3>1. <<>> \in Seq(Point) /\ <<>> \in Seq(Point)
      BY <1>0
    <3>2. <<<<>>, <<>>>> \in Seq(Point) \X Seq(Point)
      BY <3>1
    <3>3. QED
      BY <1>1, <3>2
  <2>2. ASSUME NEW x \in Seq(Point), NEW a \in Seq(Point), NEW e \in Point, <<x, a>> \in I
        PROVE  <<Append(x, e), DedupStep(capped)[<<a, e>>]>> \in I
    <3>1. P(x, a)
      BY <2>2
    <3>2. P(Append(x, e), DedupStep(capped)[<<a, e>>])
      BY <1>0, <1>2, <3>1
    <3>3. Append(x, e) \in Seq(Point)
      OBVIOUS
    <3>4. DedupStep(capped)[<<a, e>>] \in Seq(Point)
      BY <1>0
    <3>5. QED
      BY <3>2, <3>3, <3>4
  <2> HIDE DEF I
  <2>3. QED
    BY <2>1, <2>2 DEF Keeps
<1> HIDE DEF I
<1>4. <<q, Run(<<>>, DedupStep(capped), q)>> \in I
  BY <1>0, <1>3, FoldKeeps
<1>5. P(q, Run(<<>>, DedupStep(capped), q))
  BY <1>4 DEF I
<1>6. QED
  BY <1>5, DedupIsRun DEF P

\* What a request retrieves is of one of two kinds.
LEMMA RetrievalsAre ==
    ASSUME NEW r \in Retrievals
    PROVE  /\ r.documents \in Seq(Uuids) /\ r.found \in [NamedUuids -> Seq(ChunkTexts)]
           /\ r.all \in Seq(Point) /\ (r.all = <<>> \/ r.documents = <<>>)
<1>1. \A S : <<>> \in Seq(S)
  OBVIOUS
<1>2. CASE r \in [documents : Lists(Uuids, ListLength), found : [NamedUuids -> Brought],
             all : {<<>>}]
  <2>1. r.documents \in Lists(Uuids, ListLength) /\ r.found \in [NamedUuids -> Brought] /\
          r.all = <<>>
    BY <1>2
  <2>2. r.documents \in Seq(Uuids)
    BY <2>1, ListsAre, SummaryTextAssumption
  <2>3. r.found \in [NamedUuids -> Seq(ChunkTexts)]
    BY <2>1, BroughtAre
  <2>4. QED
    BY <1>1, <2>1, <2>2, <2>3
<1>3. CASE r \in [documents : {<<>>}, found : {[d \in NamedUuids |-> <<>>]},
             all : Lists(Point, ListLength)]
  <2>1. r.documents = <<>> /\ r.found = [d \in NamedUuids |-> <<>>] /\
          r.all \in Lists(Point, ListLength)
    BY <1>3
  <2>2. r.all \in Seq(Point)
    BY <2>1, ListsAre, SummaryTextAssumption
  <2>3. r.found \in [NamedUuids -> Seq(ChunkTexts)]
    BY <1>1, <2>1
  <2>4. QED
    BY <1>1, <2>1, <2>2, <2>3
<1>4. QED
  BY <1>2, <1>3 DEF Retrievals

\* What is promised of the evidences of one retrieval.
DistinctIn(r, e) ==
    /\ \A i, j \in DOMAIN e : i < j => e[i] # e[j]
    /\ r.all = <<>> =>
          /\ \A i,
               j \in DOMAIN e : i < j =>
                 AskedAt(r.documents, e[i].doc) <= AskedAt(r.documents, e[j].doc)
          /\ \A d \in Range(r.documents) \ {Blank}, t \in ChunkTexts \ {Blank} :
                t \in Range(r.found[d]) => Contains(e, [doc |-> d, text |-> t])
    /\ r.all # <<>> => \A p \in Range(r.all) :
                          p.text # Blank => \E i \in DOMAIN e : e[i].doc = p.doc

\* A search of all numbers every document it brought, whatever the cap.
LEMMA DistinctInAll ==
    ASSUME NEW r \in Retrievals, r.all # <<>>
    PROVE  DistinctIn(r, EvidencesOf(r.documents, r.found, r.all))
<1> DEFINE e == EvidencesOf(r.documents, r.found, r.all)
<1>1. r.documents = <<>> /\ r.all \in Seq(Point) /\ r.documents \in Seq(Uuids)
  BY RetrievalsAre
<1>2. UniqueDocuments(r.documents) = <<>>
  <2>1. InOrderOf(r.documents, UniqueDocuments(r.documents)) /\
          UniqueDocuments(r.documents) \in Seq(NamedUuids)
    BY <1>1, UniqueKeeps, UniqueIsRun
  <2>2. Range(r.documents) = {}
    BY <1>1, RangeOfOne
  <2>3. Range(UniqueDocuments(r.documents)) = {}
    BY <2>1, <2>2 DEF InOrderOf
  <2>4. QED
    BY <2>1, <2>3 DEF Range
<1>3. e = DedupAndNumber(r.all, TRUE)
  BY <1>2 DEF EvidencesOf
<1> HIDE DEF e
<1>4. NumberedOf(r.all, TRUE, e)
  BY <1>1, <1>3, DedupKeeps
<1>5. QED
  BY <1>4 DEF NumberedOf, DistinctIn, Range, e

\* Those of documents are in the order of the request, and complete.
LEMMA DistinctInDocuments ==
    ASSUME NEW r \in Retrievals, r.all = <<>>
    PROVE  DistinctIn(r, EvidencesOf(r.documents, r.found, r.all))
<1> DEFINE e == EvidencesOf(r.documents, r.found, r.all)
           u == UniqueDocuments(r.documents)
           points == RetrievePerDocument(u, r.found)
<1>1. r.documents \in Seq(Uuids) /\ r.found \in [NamedUuids -> Seq(ChunkTexts)]
  BY RetrievalsAre
<1>2. InOrderOf(r.documents, u) /\ u \in Seq(NamedUuids)
  BY <1>1, UniqueKeeps, UniqueIsRun
<1>3. RetrievedFor(u, r.found, points) /\ points \in Seq(Point)
  BY <1>1, <1>2, RetrieveKeeps, RetrieveIsRun
<1>4. e = IF u # <<>> THEN DedupAndNumber(points, FALSE) ELSE DedupAndNumber(r.all, TRUE)
  BY DEF EvidencesOf
<1> HIDE DEF e, u, points
<1>5. ASSUME u = <<>> PROVE DistinctIn(r, e)
  <2>1. e = DedupAndNumber(<<>>, TRUE) /\ <<>> \in Seq(Point)
    BY <1>4, <1>5
  <2>2. NumberedOf(<<>>, TRUE, e) /\ e \in Seq(Point)
    BY <2>1, DedupKeeps, DedupIsRun
  <2>3. Range(e) = {} /\ Range(u) = {}
    BY <1>5, <2>2, RangeOfOne DEF NumberedOf
  <2>4. DOMAIN e = {} /\ Range(r.documents) \ {Blank} = {}
    BY <1>2, <2>3 DEF InOrderOf, Range
  <2>5. QED
    BY <2>4 DEF DistinctIn
<1>6. ASSUME u # <<>> PROVE DistinctIn(r, e)
  <2>1. NumberedOf(points, FALSE, e)
    BY <1>3, <1>4, <1>6, DedupKeeps
  <2>2. /\ Range(e) \subseteq Range(points)
        /\ \A a, b \in DOMAIN e : a < b => e[a] # e[b] /\ InOrder(points, e[a], e[b])
        /\ \A p \in Range(points) : p.text # Blank => p \in Range(e)
    BY <2>1 DEF NumberedOf
  <2>3. /\ \A p \in Range(points) : p.doc \in Range(u)
        /\ \A d \in Range(u) : \A t \in Range(r.found[d]) :
             [doc |-> d, text |-> t] \in Range(points)
        /\ \A a, b \in DOMAIN points : a < b => InOrder(u, points[a].doc, points[b].doc)
    BY <1>3 DEF RetrievedFor
  <2>4. /\ Range(u) = Range(r.documents) \ {Blank}
        /\ \A a, b \in DOMAIN u : a < b => Before(r.documents, u[a], u[b])
    BY <1>2 DEF InOrderOf
  <2>5. \A d \in Range(r.documents) : AskedAt(r.documents, d) \in Nat
    BY <1>1, AskedIs
  <2>6. ASSUME NEW d \in Range(u), NEW c \in Range(u), InOrder(u, d, c)
        PROVE  AskedAt(r.documents, d) <= AskedAt(r.documents, c)
    <3>1. PICK a \in DOMAIN u, b \in DOMAIN u : a <= b /\ u[a] = d /\ u[b] = c
      BY <2>6 DEF InOrder
    <3>2. a \in Nat /\ b \in Nat /\ d \in Range(r.documents) /\ c \in Range(r.documents)
      BY <1>2, <2>4
    <3>3. CASE a = b
      BY <2>5, <3>1, <3>2, <3>3
    <3>4. CASE a # b
      <4>1. Before(r.documents, d, c)
        BY <2>4, <3>1, <3>2, <3>4
      <4>2. QED
        BY <1>1, <3>2, <4>1, AskedBefore
    <3>5. QED
      BY <3>3, <3>4
  <2>7. ASSUME NEW i \in DOMAIN e, NEW j \in DOMAIN e, i < j
        PROVE  AskedAt(r.documents, e[i].doc) <= AskedAt(r.documents, e[j].doc)
    <3>1. e[i] \in Range(points) /\ e[j] \in Range(points)
      BY <2>2 DEF Range
    <3>2. e[i].doc \in Range(u) /\ e[j].doc \in Range(u)
      BY <2>3, <3>1
    <3>3. PICK a \in DOMAIN points, b \in DOMAIN points : a <= b /\ points[a] = e[i] /\
            points[b] = e[j]
      BY <2>2, <2>7 DEF InOrder
    <3>4. a \in Nat /\ b \in Nat
      BY <1>3
    <3>5. CASE a = b
      BY <2>4, <2>5, <3>2, <3>3, <3>5
    <3>6. CASE a # b
      <4>1. InOrder(u, e[i].doc, e[j].doc)
        BY <2>3, <3>3, <3>4, <3>6
      <4>2. QED
        BY <2>6, <3>2, <4>1
    <3>7. QED
      BY <3>5, <3>6
  <2>8. ASSUME NEW d \in Range(r.documents) \ {Blank}, NEW t \in ChunkTexts \ {Blank},
               t \in Range(r.found[d])
        PROVE  Contains(e, [doc |-> d, text |-> t])
    <3>1. [doc |-> d, text |-> t] \in Range(points)
      BY <2>3, <2>4, <2>8
    <3>2. [doc |-> d, text |-> t] \in Range(e)
      BY <2>2, <2>8, <3>1
    <3>3. QED
      BY <3>2 DEF Contains, Range
  <2>9. QED
    BY <2>2, <2>7, <2>8 DEF DistinctIn
<1>7. QED
  BY <1>5, <1>6 DEF e

\* The evidences of every retrieval.
LEMMA DistinctEvidenceHolds == DistinctEvidence
<1>1. ASSUME NEW r \in Retrievals PROVE DistinctIn(r, EvidencesOf(r.documents, r.found, r.all))
  BY DistinctInAll, DistinctInDocuments
<1>2. QED
  BY <1>1 DEF DistinctEvidence, DistinctIn, AskedAt

\* Whatever the answers of the model, the requests and what their queries bring: a summary that
\* is stored has no word of the model's reasoning, unless the answer was cut in a block around
\* one that was closed, and no citation without its evidence, and its evidences are distinct,
\* in the order of the request and complete (Sanitize, EvidencesOf).
THEOREM StoredIsCleanHolds == Spec => []StoredIsClean
<1>1. StoredIsClean
  BY CleanTextHolds, DistinctEvidenceHolds DEF StoredIsClean
<1>2. QED
  BY <1>1, PTL
=============================================================================
