------------------------ MODULE ItemIngestion_proofs ------------------------
(* Proofs about the ingestion of an item and the job store.  The invariants speak
   of the calls that an actor has still to make: each action takes the first of
   them, replaces them all by those of a task or a request, or drops them. *)
EXTENDS ItemIngestion, TLAPS

----------------------------------------------------------------------------
(* Types *)

Documents == {Pdfs[i] : i \in DOMAIN Pdfs}

Updates ==
    [status : {"na_fila", "processando", "concluido", "erro"}]
    \cup [status : {"concluido"}, index_error : {"none", "some"}]
ItemUpdates ==
    [status : {"na_fila"}, source : {"pending"}, due : {"ahead"}]
    \cup [status : {"processando"}, source : {"pending"}]
    \cup [status : {"resolvido", "erro"}, due : {"none"}]

Statements ==
    [op : {"set_status"}, job : Documents, extra : Updates]
    \cup [op : {"set_status"}, job : {Item}, extra : ItemUpdates]
    \cup [op : {"add_failed", "clear_failed"}, job : Jobs]
    \cup [op : {"list"}, job : Jobs, index : {"active", "succeeded"}]
    \cup [op : {"look"}, job : {Item}, force : Forces]
    \cup [op : {"send"}, task : {"resolve"}, job : {Item}, attempt : Nat]
    \cup [op : {"send"}, task : {"chain"}, job : Documents, attempt : Nat]
    \cup [op : {"resolve"}, job : {Item}]
    \cup [op : {"chain"}, job : Documents]

Messages ==
    [task : {"resolve"}, job : {Item}, attempt : Nat]
    \cup [task : {"chain"}, job : Documents, attempt : Nat]

Phases == {"start", "put", "active", "succeeded", "prune"}

TypeOK ==
    /\ todo \in [Actors -> Seq(Statements)]
    /\ phase \in [Actors -> Phases]
    /\ record = [j \in Jobs |-> record[j]]
    /\ copy = [a \in Actors |-> copy[a]]
    /\ active \subseteq Jobs /\ succeeded \subseteq Jobs /\ failed \subseteq Jobs
    /\ disturbed \subseteq Jobs
    /\ queue \in [DOMAIN queue -> Nat \ {0}] /\ DOMAIN queue \subseteq Messages
    /\ held \in [Workers -> Messages \cup {NoMessage}]
    /\ accepted \in BOOLEAN
    /\ chains \subseteq Documents
    /\ {outages, errors} \subseteq Nat

\* What the kinds of calls are.
LEMMA StatementFacts ==
    ASSUME ItemAssumption, NEW c \in Statements
    PROVE  /\ c.job \in Jobs
           /\ c.op = "set_status" => "status" \in DOMAIN c.extra
           /\ c.op = "set_status" /\ c.extra.status = "resolvido" => c.job = Item
           /\ c.op = "send" => [task |-> c.task, job |-> c.job, attempt |-> c.attempt] \in Messages
           /\ c.op = "send" => (c.task = "resolve" <=> c.job = Item)
           /\ c.op = "send" => (c.task = "chain" <=> c.job \in Documents)
           /\ c.op = "list" => c.index \in {"active", "succeeded"}
           /\ c.op = "resolve" => c.job = Item
           /\ c.op = "chain" => c.job \in Documents
BY DEF ItemAssumption, Statements, Messages, Documents, Updates, ItemUpdates

\* The rest of a list of calls.
LEMMA RestOf ==
    ASSUME NEW C, NEW s \in Seq(C), s # <<>>
    PROVE  /\ Tail(s) \in Seq(C)
           /\ DOMAIN Tail(s) = 1 .. (Len(s) - 1)
           /\ \A k \in DOMAIN Tail(s) : k + 1 \in DOMAIN s /\ Tail(s)[k] = s[k + 1]
           /\ \A k \in DOMAIN s : k = 1 \/ (k - 1 \in DOMAIN Tail(s) /\ Tail(s)[k - 1] = s[k])
           /\ 1 \in DOMAIN s /\ Head(s) = s[1] /\ s[1] \in C
           /\ DOMAIN s = 1 .. Len(s) /\ Len(s) \in Nat
OBVIOUS

\* The calls that enqueue the documents: three for each, the chain last.
LEMMA EnqueueFacts ==
    ASSUME ItemAssumption
    PROVE  /\ EnqueueItemPdfs \in Seq(Statements)
           /\ Len(EnqueueItemPdfs) = 3 * Len(Pdfs)
           /\ \A k \in DOMAIN EnqueueItemPdfs : EnqueueItemPdfs[k].job \in Documents
           /\ \A i \in DOMAIN Pdfs : /\ 3 * i \in DOMAIN EnqueueItemPdfs
                                     /\ EnqueueItemPdfs[3 * i] = Send("chain", Pdfs[i], 0)
<1> DEFINE n == 3 * Len(Pdfs)
<1>1. Len(Pdfs) \in Nat /\ DOMAIN Pdfs = 1 .. Len(Pdfs) /\ n \in Nat
  BY DEF ItemAssumption
<1>2. ASSUME NEW k \in 1 .. n
      PROVE  (k + 2) \div 3 \in DOMAIN Pdfs
  BY <1>1
<1>3. ASSUME NEW k \in 1 .. n
      PROVE  EnqueueItemPdfs[k] \in Statements /\ EnqueueItemPdfs[k].job \in Documents
  <2> DEFINE j == Pdfs[(k + 2) \div 3]
  <2>1. j \in Documents /\ j \in Jobs
    BY <1>2, <1>3 DEF Documents, ItemAssumption
  <2> HIDE DEF j
  <2>2. SetStatus(j, [status |-> "na_fila"]) \in Statements
    BY <2>1 DEF SetStatus, Statements, Updates
  <2>3. ClearFailed(j) \in Statements
    BY <2>1 DEF ClearFailed, Statements
  <2>4. Send("chain", j, 0) \in Statements
    BY <2>1 DEF Send, Statements
  <2>5. EnqueueItemPdfs[k] \in {SetStatus(j, [status |-> "na_fila"]), ClearFailed(j),
                                Send("chain", j, 0)}
    BY <1>3 DEF EnqueueItemPdfs, j
  <2>6. \A c \in {SetStatus(j, [status |-> "na_fila"]), ClearFailed(j), Send("chain", j, 0)} :
            c.job = j
    BY DEF SetStatus, ClearFailed, Send
  <2>7. QED
    BY <2>1, <2>2, <2>3, <2>4, <2>5, <2>6
<1>4. DOMAIN EnqueueItemPdfs = 1 .. n
  BY DEF EnqueueItemPdfs
<1>5. EnqueueItemPdfs = [k \in 1 .. n |-> EnqueueItemPdfs[k]]
  BY DEF EnqueueItemPdfs
<1>6. EnqueueItemPdfs \in Seq(Statements) /\ Len(EnqueueItemPdfs) = n
  BY <1>1, <1>3, <1>4, <1>5
<1>7. ASSUME NEW i \in DOMAIN Pdfs
      PROVE  3 * i \in 1 .. n /\ EnqueueItemPdfs[3 * i] = Send("chain", Pdfs[i], 0)
  <2>1. i \in Nat /\ 3 * i \in 1 .. n
    BY <1>1, <1>7
  <2>2. (3 * i + 2) \div 3 = i
    BY <2>1, SMT
  <2>3. (3 * i) % 3 = 0
    BY <2>1, SMT
  <2>4. 3 * i \in 1 .. 3 * Len(Pdfs)
    BY <2>1
  <2> DEFINE k == 3 * i
  <2>5. EnqueueItemPdfs[k] =
            CASE k % 3 = 1 -> SetStatus(Pdfs[(k + 2) \div 3], [status |-> "na_fila"])
              [] k % 3 = 2 -> ClearFailed(Pdfs[(k + 2) \div 3])
              [] OTHER -> Send("chain", Pdfs[(k + 2) \div 3], 0)
    BY <2>4, Zenon DEF EnqueueItemPdfs
  <2>6. k % 3 # 1 /\ k % 3 # 2 /\ (k + 2) \div 3 = i
    BY <2>2, <2>3
  <2> HIDE DEF k
  <2>7. EnqueueItemPdfs[k] = Send("chain", Pdfs[i], 0)
    BY <2>5, <2>6, Zenon
  <2>8. QED
    BY <2>1, <2>7 DEF k
<1>8. QED
  BY <1>3, <1>4, <1>6, <1>7

\* The calls of an attempt that ends, and of one that is put off.
LEMMA ItemCalls ==
    ASSUME ItemAssumption
    PROVE  /\ GivesUp \in Seq(Statements) /\ Concludes \in Seq(Statements)
           /\ \A n \in Nat : ScheduleItemResolution(n) \in Seq(Statements)
<1>1. Item \in Jobs
  BY DEF ItemAssumption
<1>2. /\ SetStatus(Item, [status |-> "erro", due |-> "none"]) \in Statements
      /\ SetStatus(Item, [status |-> "resolvido", due |-> "none"]) \in Statements
      /\ SetStatus(Item, [status |-> "na_fila", source |-> "pending", due |-> "ahead"])
            \in Statements
  BY DEF SetStatus, Statements, ItemUpdates
<1>3. AddFailed(Item) \in Statements /\ ClearFailed(Item) \in Statements
  BY <1>1 DEF AddFailed, ClearFailed, Statements
<1>4. \A n \in Nat : Send("resolve", Item, n + 1) \in Statements
  BY DEF Send, Statements
<1>5. GivesUp \in Seq(Statements)
  BY <1>2, <1>3 DEF GivesUp
<1>6. Concludes \in Seq(Statements)
  BY <1>2, <1>3 DEF Concludes
<1>7. ASSUME NEW n \in Nat
      PROVE  ScheduleItemResolution(n) \in Seq(Statements)
  BY <1>2, <1>3, <1>4, <1>7 DEF ScheduleItemResolution
<1>8. QED
  BY <1>5, <1>6, <1>7

\* The calls of a task that starts, and those by which the chain of a document ends.
LEMMA TaskCalls ==
    ASSUME ItemAssumption
    PROVE  /\ \A msg \in Messages : Starts(msg) \in Seq(Statements)
           /\ \A j \in Documents : \A calls \in ChainEnds(j) : calls \in Seq(Statements)
<1>1. ASSUME NEW msg \in Messages
      PROVE  Starts(msg) \in Seq(Statements)
  <2>1. CASE msg.task = "resolve"
    <3>1. msg.job = Item
      BY <1>1, <2>1 DEF Messages
    <3>2. SetStatus(Item, [status |-> "processando", source |-> "pending"]) \in Statements
      BY DEF SetStatus, Statements, ItemUpdates
    <3>3. [op |-> "resolve", job |-> Item] \in Statements
      BY DEF Statements
    <3>4. QED
      BY <2>1, <3>1, <3>2, <3>3 DEF Starts
  <2>2. CASE msg.task = "chain"
    <3>1. msg.job \in Documents
      BY <1>1, <2>2 DEF Messages
    <3>2. SetStatus(msg.job, [status |-> "processando"]) \in Statements
      BY <3>1 DEF SetStatus, Statements, Updates
    <3>3. [op |-> "chain", job |-> msg.job] \in Statements
      BY <3>1 DEF Statements
    <3>4. QED
      BY <2>2, <3>2, <3>3 DEF Starts
  <2>3. QED
    BY <1>1, <2>1, <2>2 DEF Messages
<1>2. ASSUME NEW j \in Documents, NEW calls \in ChainEnds(j)
      PROVE  calls \in Seq(Statements)
  <2>1. /\ SetStatus(j, [status |-> "concluido"]) \in Statements
        /\ SetStatus(j, [status |-> "erro"]) \in Statements
    BY <1>2 DEF SetStatus, Statements, Updates
  <2>2. /\ SetStatus(j, [status |-> "concluido", index_error |-> "none"]) \in Statements
        /\ SetStatus(j, [status |-> "concluido", index_error |-> "some"]) \in Statements
    BY <1>2 DEF SetStatus, Statements, Updates
  <2>3. AddFailed(j) \in Statements /\ ClearFailed(j) \in Statements
    BY <1>2 DEF AddFailed, ClearFailed, Statements, Documents, ItemAssumption
  <2>4. << SetStatus(j, [status |-> "concluido", index_error |-> "none"]), ClearFailed(j) >>
            \in Seq(Statements)
    BY <2>2, <2>3
  <2>5. << AddFailed(j), SetStatus(j, [status |-> "concluido", index_error |-> "some"]),
           SetStatus(j, [status |-> "concluido"]) >> \in Seq(Statements)
    BY <2>1, <2>2, <2>3
  <2>6. << SetStatus(j, [status |-> "erro"]), AddFailed(j) >> \in Seq(Statements)
    BY <2>1, <2>3
  <2>7. QED
    BY <1>2, <2>4, <2>5, <2>6, Zenon DEF ChainEnds
<1>3. QED
  BY <1>1, <1>2

\* The calls of an attempt that found the documents: theirs, then the item's two.
LEMMA ResolvedFacts ==
    ASSUME ItemAssumption
    PROVE  LET n == Len(EnqueueItemPdfs)
           IN  /\ Resolved \in Seq(Statements)
               /\ n \in Nat /\ DOMAIN EnqueueItemPdfs = 1 .. n /\ DOMAIN Resolved = 1 .. (n + 2)
               /\ \A k \in 1 .. n : Resolved[k] = EnqueueItemPdfs[k]
               /\ Resolved[n + 1] = SetStatus(Item, [status |-> "resolvido", due |-> "none"])
               /\ Resolved[n + 2] = ClearFailed(Item)
<1>1. EnqueueItemPdfs \in Seq(Statements) /\ Concludes \in Seq(Statements)
  BY EnqueueFacts, ItemCalls
<1>2. Len(Concludes) = 2
  BY DEF Concludes
<1>3. /\ Concludes[1] = SetStatus(Item, [status |-> "resolvido", due |-> "none"])
      /\ Concludes[2] = ClearFailed(Item)
  BY DEF Concludes
<1> DEFINE s == EnqueueItemPdfs  t == Concludes
<1> HIDE DEF s, t
<1>4. /\ s \o t \in Seq(Statements) /\ Len(s) \in Nat /\ Len(s \o t) = Len(s) + Len(t)
      /\ DOMAIN s = 1 .. Len(s) /\ DOMAIN (s \o t) = 1 .. Len(s \o t)
  BY <1>1 DEF s, t
<1>5. \A k \in 1 .. Len(s) : (s \o t)[k] = s[k]
  BY <1>1 DEF s, t
<1>6. Len(t) = 2 => (s \o t)[Len(s) + 1] = t[1] /\ (s \o t)[Len(s) + 2] = t[2]
  BY <1>1, <1>4 DEF s, t
<1>7. QED
  BY <1>2, <1>3, <1>4, <1>5, <1>6 DEF Resolved, s, t

\* A message more in the broker, and one less.
LEMMA BagAdds ==
    ASSUME NEW b, b \in [DOMAIN b -> Nat \ {0}], NEW m
    PROVE  LET c == b (+) SetToBag({m})
           IN  c \in [DOMAIN c -> Nat \ {0}] /\ DOMAIN c = DOMAIN b \cup {m}
BY DEF (+), SetToBag

LEMMA BagTakes ==
    ASSUME NEW b, b \in [DOMAIN b -> Nat \ {0}], NEW m
    PROVE  LET c == b (-) SetToBag({m})
           IN  /\ c \in [DOMAIN c -> Nat \ {0}]
               /\ DOMAIN c \subseteq DOMAIN b /\ DOMAIN b \ {m} \subseteq DOMAIN c
<1> DEFINE left == [e \in DOMAIN b |-> IF e \in {m} THEN b[e] - 1 ELSE b[e]]
           some == {e \in DOMAIN b : left[e] > 0}
<1>1. b (-) SetToBag({m}) = [e \in some |-> left[e]]
  BY DEF (-), SetToBag
<1>2. \A e \in DOMAIN b : b[e] \in Nat \ {0} /\ left[e] \in Nat /\ (e # m => left[e] = b[e])
  OBVIOUS
<1>3. /\ some \subseteq DOMAIN b /\ DOMAIN b \ {m} \subseteq some
      /\ \A e \in some : left[e] \in Nat \ {0}
  BY <1>2
<1> DEFINE c == [e \in some |-> left[e]]
<1> HIDE DEF some, left
<1>4. DOMAIN c = some /\ c \in [some -> Nat \ {0}]
  BY <1>3
<1>5. QED
  BY <1>1, <1>3, <1>4

----------------------------------------------------------------------------
(* What the steps do to the calls that are left *)

\* An actor makes its first call, or gives up the others.
Returned(a) == /\ todo[a] # <<>>
               /\ todo' = [todo EXCEPT ![a] = Tail(@)]
               /\ phase' = [phase EXCEPT ![a] = "start"]

\* No message is held by a worker that is idle; what a worker does is about the job
\* of its message.
WorkOf(msg, calls) ==
    /\ msg = NoMessage => calls = <<>>
    /\ msg.task = "chain" => \A k \in DOMAIN calls : calls[k].job # Item
    /\ msg.task = "resolve" => \A k \in DOMAIN calls : calls[k].op # "chain"
WorkInv == \A w \in Workers : WorkOf(held[w], todo[w])

\* A call in progress is one that takes several requests.
PhaseOf(p, calls) ==
    /\ p # "start" => calls # <<>>
    /\ p \in {"put", "active", "succeeded"} => Head(calls).op = "set_status"
    /\ p = "prune" => Head(calls).op = "list"
PhaseInv == \A a \in Actors : PhaseOf(phase[a], todo[a])

\* Types hold in the initial state.
LEMMA TypeInit == Init => TypeOK
<1> SUFFICES ASSUME Init PROVE TypeOK
  OBVIOUS
<1>1. todo \in [Actors -> Seq(Statements)]
  BY DEF Init, InitStore
<1>2. queue \in [DOMAIN queue -> Nat \ {0}] /\ DOMAIN queue = {}
  BY DEF Init, EmptyBag, SetToBag
<1>3. held \in [Workers -> Messages \cup {NoMessage}]
  BY DEF Init
<1>4. phase \in [Actors -> Phases]
  BY DEF Init, InitStore, Phases
<1>5. record = [j \in Jobs |-> record[j]] /\ copy = [a \in Actors |-> copy[a]]
  BY DEF Init, InitStore
<1>6. accepted \in BOOLEAN
  BY DEF Init
<1>7. /\ active \subseteq Jobs /\ succeeded \subseteq Jobs /\ failed \subseteq Jobs
      /\ disturbed \subseteq Jobs /\ chains \subseteq Documents
      /\ {outages, errors} \subseteq Nat
  BY DEF Init, InitStore
<1>8. QED
  BY <1>1, <1>2, <1>3, <1>4, <1>5, <1>6, <1>7 DEF TypeOK

\* A request gives an idle actor the calls of a program.
IsProgram(calls) ==
    \/ calls \in {EnqueueItemPdfs, Resolved, GivesUp} \/ calls = <<>>
    \/ \E n \in Nat : calls = ScheduleItemResolution(n)
    \/ \E force \in Forces : calls = <<[op |-> "look", job |-> Item, force |-> force]>>
    \/ \E j \in Jobs, index \in {"active", "succeeded"} : calls = <<ListIndex(j, index)>>
    \/ \E msg \in Messages : calls = Starts(msg)
    \/ \E j \in Documents : calls \in ChainEnds(j)

\* The calls of a program are statements.
LEMMA ProgramsTyped ==
    ASSUME ItemAssumption, NEW calls, IsProgram(calls)
    PROVE  calls \in Seq(Statements)
<1>1. ASSUME NEW force \in Forces
      PROVE  <<[op |-> "look", job |-> Item, force |-> force]>> \in Seq(Statements)
  <2>1. [op |-> "look", job |-> Item, force |-> force] \in Statements
    BY DEF Statements
  <2>2. QED
    BY <2>1
<1>2. ASSUME NEW j \in Jobs, NEW index \in {"active", "succeeded"}
      PROVE  <<ListIndex(j, index)>> \in Seq(Statements)
  <2>1. ListIndex(j, index) \in Statements
    BY DEF Statements, ListIndex
  <2>2. QED
    BY <2>1
<1>3. <<>> \in Seq(Statements)
  OBVIOUS
<1>4. EnqueueItemPdfs \in Seq(Statements) /\ Resolved \in Seq(Statements)
  BY EnqueueFacts, ResolvedFacts
<1>5. GivesUp \in Seq(Statements) /\ \A n \in Nat : ScheduleItemResolution(n) \in Seq(Statements)
  BY ItemCalls
<1>6. /\ \A msg \in Messages : Starts(msg) \in Seq(Statements)
      /\ \A j \in Documents : \A c \in ChainEnds(j) : c \in Seq(Statements)
  BY TaskCalls
<1>7. QED
  BY <1>1, <1>2, <1>3, <1>4, <1>5, <1>6, Zenon DEF IsProgram

\* What the programs are, one by one.
LEMMA ProgramKinds ==
    /\ IsProgram(EnqueueItemPdfs) /\ IsProgram(Resolved) /\ IsProgram(GivesUp)
    /\ IsProgram(<<>>)
    /\ \A n \in Nat : IsProgram(ScheduleItemResolution(n))
    /\ \A force \in Forces : IsProgram(<<[op |-> "look", job |-> Item, force |-> force]>>)
    /\ \A j \in Jobs : \A index \in {"active", "succeeded"} :
            IsProgram(<<ListIndex(j, index)>>)
    /\ \A msg \in Messages : IsProgram(Starts(msg))
    /\ \A j \in Documents : \A calls \in ChainEnds(j) : IsProgram(calls)
BY Zenon DEF IsProgram

\* A step makes one of the first calls that are left, or puts a program in the
\* place of the calls of one actor, or leaves them all.
ChainOf(c) == IF c.op = "send" /\ c.task = "chain" THEN {c.job} ELSE {}
Made(a) == /\ todo[a] # <<>>
           /\ todo' = [todo EXCEPT ![a] = Tail(@)]
           /\ chains' = chains \cup ChainOf(Call(a))
Replaced(a) == /\ \E calls : IsProgram(calls) /\ Does(a, calls)
               /\ UNCHANGED chains
Moved == \/ UNCHANGED <<todo, chains>>
         \/ \E a \in Actors : Made(a) \/ Replaced(a)

\* Requests and the look for a wait put a program in place.
LEMMA RequestMoves ==
    ASSUME ItemAssumption, TypeOK, NEW p \in Api,
           PostItem(p) \/ LookForWait(p) \/ ReprocessItem(p) \/ GetJobs(p)
    PROVE  Replaced(p)
<1> USE DEF Replaced
<1>1. \A calls : Asked(p) /\ Does(p, calls) /\ IsProgram(calls) => Replaced(p)
  BY DEF Asked
<1>2. CASE PostItem(p)
  BY <1>1, <1>2, ProgramKinds DEF PostItem
<1>3. CASE LookForWait(p)
  <2>1. UNCHANGED chains /\ (Does(p, <<>>) \/ Does(p, ScheduleItemResolution(1)))
    BY <1>3 DEF LookForWait
  <2>2. QED
    BY <2>1, ProgramKinds
<1>4. CASE ReprocessItem(p)
  BY <1>1, <1>4, ProgramKinds DEF ReprocessItem
<1>5. CASE GetJobs(p)
  <2>1. PICK index \in {"active", "succeeded"} :
            \E j \in Entries(index) : Asked(p) /\ Does(p, <<ListIndex(j, index)>>)
    BY <1>5 DEF GetJobs
  <2>2. PICK j \in Entries(index) : Asked(p) /\ Does(p, <<ListIndex(j, index)>>)
    BY <2>1
  <2>3. j \in Jobs
    BY <2>2 DEF Entries, TypeOK
  <2>4. IsProgram(<<ListIndex(j, index)>>)
    BY <2>3, ProgramKinds
  <2>5. QED
    BY <1>1, <2>2, <2>4
<1>6. QED
  BY <1>2, <1>3, <1>4, <1>5

\* So do a worker that takes a message, one that continues and one that dies.
LEMMA WorkMoves ==
    ASSUME ItemAssumption, TypeOK, NEW w \in Workers,
           Take(w) \/ Continues(w) \/ Die(w)
    PROVE  Replaced(w)
<1> USE DEF Replaced
<1>1. CASE Take(w)
  <2>1. PICK msg \in DOMAIN queue : Does(w, Starts(msg)) /\ UNCHANGED chains
    BY <1>1 DEF Take, BagToSet
  <2>2. QED
    BY <2>1, ProgramKinds DEF TypeOK
<1>2. CASE Continues(w)
  <2>1. UNCHANGED chains
    BY <1>2 DEF Continues
  <2>2. held[w].attempt \in Nat /\ IsProgram(StillWaits(held[w].attempt))
    BY ProgramKinds DEF TypeOK, Messages, NoMessage, StillWaits
  <2>3. CASE Calls(w, "resolve") /\
             \E calls \in {Resolved, StillWaits(held[w].attempt), GivesUp} : Does(w, calls)
    BY <2>1, <2>2, <2>3, ProgramKinds
  <2>4. CASE Calls(w, "chain") /\ \E calls \in ChainEnds(Call(w).job) : Does(w, calls)
    <3>1. todo[w] \in Seq(Statements)
      BY DEF TypeOK, ItemAssumption
    <3>2. Call(w) \in Statements /\ Call(w).op = "chain"
      BY <2>4, <3>1 DEF Calls, Call
    <3>3. Call(w).job \in Documents
      BY <3>2, StatementFacts
    <3>4. \A calls \in ChainEnds(Call(w).job) : IsProgram(calls)
      BY <3>3, ProgramKinds
    <3>5. QED
      BY <2>1, <2>4, <3>4
  <2>5. QED
    BY <1>2, <2>3, <2>4 DEF Continues
<1>3. CASE Die(w)
  BY <1>3, ProgramKinds DEF Die, Stop, Does
<1>4. QED
  BY <1>1, <1>2, <1>3

\* A call to the store or the broker is made, or goes on with its next request.
LEMMA CallKeeps ==
    ASSUME ItemAssumption, TypeOK, NEW a \in Actors, CallStore(a) \/ ApplyAsync(a)
    PROVE  Made(a) \/ UNCHANGED <<todo, chains>>
<1>1. CASE CallStore(a)
  <2>1. UNCHANGED chains
    BY <1>1 DEF CallStore
  <2>2. UNCHANGED todo \/ (Returned(a) /\ Call(a).op # "send")
    BY <1>1 DEF CallStore, StoreCall, ReadRecord, WriteRecord, TrackActive, TrackSucceeded,
                MarkFailed, ResolveEntry, Prune, Calls, Call, Returns, Returned
  <2>3. QED
    BY <2>1, <2>2 DEF Returned, Made, ChainOf
<1>2. CASE ApplyAsync(a)
  <2>1. Returned(a) /\ Call(a).op = "send"
    BY <1>2 DEF ApplyAsync, Calls, Call, Returns, Returned
  <2>2. chains' = chains \cup ChainOf(Call(a))
    BY <1>2, <2>1 DEF ApplyAsync, ChainOf
  <2>3. QED
    BY <2>1, <2>2 DEF Returned, Made
<1>3. QED
  BY <1>1, <1>2

\* An actor that gives up has no calls left.
LEMMA AbortMoves ==
    ASSUME NEW a \in Actors, Abort(a)
    PROVE  Replaced(a)
BY ProgramKinds DEF Abort, Stop, Does, Replaced

\* Every step is a move.
LEMMA Moves ==
    ASSUME ItemAssumption, TypeOK, [Next]_vars
    PROVE  Moved
<1>1. Api \subseteq Actors /\ Workers \subseteq Actors
  BY DEF ItemAssumption
<1>2. CASE UNCHANGED vars
  BY <1>2 DEF vars, storeVars, Moved
<1>3. CASE Overdue
  BY <1>3 DEF Overdue, Moved
<1>4. CASE \E p \in Api : PostItem(p) \/ LookForWait(p) \/ ReprocessItem(p) \/ GetJobs(p)
  BY <1>1, <1>4, RequestMoves DEF Moved
<1>5. CASE \E w \in Workers : Take(w) \/ Continues(w) \/ Acknowledge(w) \/ Die(w)
  BY <1>1, <1>5, WorkMoves DEF Acknowledge, storeVars, Moved
<1>6. CASE \E a \in Actors : CallStore(a) \/ ApplyAsync(a) \/ Abort(a)
  BY <1>6, CallKeeps, AbortMoves DEF Moved
<1>7. QED
  BY <1>2, <1>3, <1>4, <1>5, <1>6 DEF Next

\* The calls that are left after a move are statements.
LEMMA MovedTyped ==
    ASSUME ItemAssumption, TypeOK, Moved
    PROVE  todo' \in [Actors -> Seq(Statements)]
<1>1. CASE UNCHANGED <<todo, chains>>
  BY <1>1 DEF TypeOK
<1>2. ASSUME NEW a \in Actors, Made(a)
      PROVE  todo' \in [Actors -> Seq(Statements)]
  BY <1>2 DEF Made, TypeOK
<1>3. ASSUME NEW a \in Actors, Replaced(a)
      PROVE  todo' \in [Actors -> Seq(Statements)]
  <2>1. PICK calls : IsProgram(calls) /\ Does(a, calls)
    BY <1>3 DEF Replaced
  <2>2. calls \in Seq(Statements)
    BY <2>1, ProgramsTyped
  <2>3. QED
    BY <2>1, <2>2 DEF Does, TypeOK
<1>4. QED
  BY <1>1, <1>2, <1>3 DEF Moved

\* The types of everything but the calls that are left, after a step.
RestTyped ==
    /\ phase' \in [Actors -> Phases]
    /\ record' = [j \in Jobs |-> record'[j]]
    /\ copy' = [a \in Actors |-> copy'[a]]
    /\ active' \subseteq Jobs /\ succeeded' \subseteq Jobs /\ failed' \subseteq Jobs
    /\ disturbed' \subseteq Jobs
    /\ queue' \in [DOMAIN queue' -> Nat \ {0}] /\ DOMAIN queue' \subseteq Messages
    /\ held' \in [Workers -> Messages \cup {NoMessage}]
    /\ accepted' \in BOOLEAN
    /\ chains' \subseteq Documents
    /\ {outages', errors'} \subseteq Nat

\* A call to the store keeps the types.
LEMMA TypeStore ==
    ASSUME ItemAssumption, TypeOK, NEW a \in Actors, CallStore(a)
    PROVE  RestTyped
<1> USE DEF TypeOK, RestTyped
<1>0. UNCHANGED <<queue, held, accepted, chains, requests, deaths, errors>>
  BY DEF CallStore
<1>1. PICK up \in BOOLEAN :
          \/ ReadRecord(a, up) \/ WriteRecord(a, up)
          \/ TrackActive(a, up) \/ TrackSucceeded(a, up)
          \/ MarkFailed(a, up)
          \/ ResolveEntry(a, up) \/ Prune(a, up)
  BY DEF CallStore, StoreCall
<1>2. todo[a] # <<>>
  BY <1>1 DEF ReadRecord, WriteRecord, TrackActive, TrackSucceeded, MarkFailed, ResolveEntry,
              Prune, Calls
<1>3. Call(a).job \in Jobs
  <2>1. todo[a] \in Seq(Statements)
    OBVIOUS
  <2>2. Call(a) \in Statements
    BY <1>2, <2>1 DEF Call
  <2>3. QED
    BY <2>2, StatementFacts
<1>4. outages' \in Nat
  BY <1>1 DEF ReadRecord, WriteRecord, TrackActive, TrackSucceeded, MarkFailed, ResolveEntry,
              Prune, Answers
<1>5. CASE ReadRecord(a, up)
  BY <1>0, <1>3, <1>4, <1>5 DEF ReadRecord, Enters, Keeps, Goes, redis, Phases
<1>6. CASE WriteRecord(a, up)
  BY <1>0, <1>3, <1>4, <1>6 DEF WriteRecord, Stays, Keeps, Goes, Phases
<1>7. CASE TrackActive(a, up)
  BY <1>0, <1>3, <1>4, <1>7 DEF TrackActive, Stays, Goes, Phases, UpdateIndex
<1>8. CASE TrackSucceeded(a, up)
  BY <1>0, <1>3, <1>4, <1>8 DEF TrackSucceeded, Stays, Keeps, Returns, Phases, UpdateIndex
<1>9. CASE MarkFailed(a, up)
  BY <1>0, <1>3, <1>4, <1>9 DEF MarkFailed, Returns, Phases, UpdateIndex
<1>10. CASE ResolveEntry(a, up)
  <2>1. UNCHANGED <<record, active, succeeded, failed, copy>>
    BY <1>10 DEF ResolveEntry, redis
  <2>2. disturbed' \subseteq Jobs
    BY <1>3, <1>10 DEF ResolveEntry
  <2>3. phase' \in [Actors -> Phases]
    BY <1>10 DEF ResolveEntry, Goes, Returns, Phases
  <2>4. QED
    BY <1>0, <1>4, <2>1, <2>2, <2>3
<1>11. CASE Prune(a, up)
  BY <1>0, <1>3, <1>4, <1>11 DEF Prune, Stays, Returns, Phases, Entries
<1>12. QED
  BY <1>1, <1>5, <1>6, <1>7, <1>8, <1>9, <1>10, <1>11

\* Every step keeps the types.
LEMMA TypeNext ==
    ASSUME ItemAssumption, TypeOK, [Next]_vars
    PROVE  TypeOK'
<1>0. Api \subseteq Actors /\ Workers \subseteq Actors
  BY DEF ItemAssumption
<1>1. ASSUME UNCHANGED vars
      PROVE  RestTyped
  BY <1>1 DEF vars, storeVars, redis, TypeOK, RestTyped
<1>2. ASSUME Overdue
      PROVE  RestTyped
  BY <1>2 DEF Overdue, TypeOK, RestTyped
<1>3. ASSUME NEW p \in Api, PostItem(p) \/ ReprocessItem(p) \/ GetJobs(p)
      PROVE  RestTyped
  <2>1. Asked(p)
    BY <1>3 DEF PostItem, ReprocessItem, GetJobs
  <2>2. QED
    BY <2>1 DEF Asked, redis, TypeOK, RestTyped
<1>4. ASSUME NEW p \in Api, LookForWait(p)
      PROVE  RestTyped
  <2>1. outages' \in Nat
    BY <1>4 DEF LookForWait, Answers, TypeOK
  <2>2. accepted' \in BOOLEAN
    BY <1>4 DEF LookForWait, TypeOK
  <2>3. UNCHANGED <<redis, phase, copy, disturbed, queue, held, chains, errors>>
    BY <1>4 DEF LookForWait
  <2>4. QED
    BY <2>1, <2>2, <2>3 DEF redis, TypeOK, RestTyped
<1>5. ASSUME NEW w \in Workers, Take(w)
      PROVE  RestTyped
  <2>1. PICK msg \in DOMAIN queue :
            /\ queue' = queue (-) SetToBag({msg})
            /\ held' = [held EXCEPT ![w] = msg]
    BY <1>5 DEF Take, BagToSet
  <2>2. UNCHANGED <<redis, phase, copy, outages, disturbed, accepted, chains, errors>>
    BY <1>5 DEF Take
  <2>3. queue' \in [DOMAIN queue' -> Nat \ {0}] /\ DOMAIN queue' \subseteq Messages
    BY <2>1, BagTakes DEF TypeOK
  <2>4. held' \in [Workers -> Messages \cup {NoMessage}]
    BY <2>1 DEF TypeOK
  <2>5. QED
    BY <2>2, <2>3, <2>4 DEF redis, TypeOK, RestTyped
<1>6. ASSUME NEW w \in Workers, Continues(w)
      PROVE  RestTyped
  BY <1>6 DEF Continues, redis, TypeOK, RestTyped
<1>7. ASSUME NEW w \in Workers, Acknowledge(w)
      PROVE  RestTyped
  BY <1>7 DEF Acknowledge, storeVars, redis, TypeOK, RestTyped
<1>8. ASSUME NEW w \in Workers, Die(w)
      PROVE  RestTyped
  <2>1. held[w] \in Messages
    BY <1>8 DEF Die, TypeOK
  <2>2. queue' = queue (+) SetToBag({held[w]}) /\ queue \in [DOMAIN queue -> Nat \ {0}]
    BY <1>8 DEF Die, TypeOK
  <2>3. queue' \in [DOMAIN queue' -> Nat \ {0}] /\ DOMAIN queue' = DOMAIN queue \cup {held[w]}
    BY <2>2, BagAdds
  <2>4. DOMAIN queue' \subseteq Messages
    BY <2>1, <2>3 DEF TypeOK
  <2>5. QED
    BY <1>0, <1>8, <2>3, <2>4 DEF Die, Stop, redis, TypeOK, Phases, RestTyped
<1>9. ASSUME NEW a \in Actors, CallStore(a)
      PROVE  RestTyped
  BY <1>9, TypeStore
<1>10. ASSUME NEW a \in Actors, ApplyAsync(a)
       PROVE  RestTyped
  <2> DEFINE c == Call(a)
             msg == [task |-> c.task, job |-> c.job, attempt |-> c.attempt]
  <2>1. todo[a] \in Seq(Statements) /\ todo[a] # <<>> /\ c.op = "send"
    BY <1>10 DEF ApplyAsync, Calls, Call, TypeOK
  <2>2. c \in Statements
    BY <2>1 DEF Call
  <2>3. msg \in Messages /\ (c.task = "chain" => c.job \in Documents)
    BY <2>1, <2>2, StatementFacts
  <2>4. /\ queue' = queue (+) SetToBag({msg})
        /\ chains' = IF c.task = "chain" THEN chains \cup {c.job} ELSE chains
        /\ accepted' = (accepted \/ (a \in Api /\ c.task = "resolve"))
        /\ phase' = [phase EXCEPT ![a] = "start"]
        /\ UNCHANGED <<redis, copy, outages, disturbed, held, errors>>
    BY <1>10 DEF ApplyAsync, Returns
  <2> HIDE DEF msg, c
  <2>5. queue \in [DOMAIN queue -> Nat \ {0}] /\ DOMAIN queue \subseteq Messages
    BY DEF TypeOK
  <2>6. queue' \in [DOMAIN queue' -> Nat \ {0}] /\ DOMAIN queue' = DOMAIN queue \cup {msg}
    BY <2>4, <2>5, BagAdds
  <2>7. accepted' \in BOOLEAN
    BY <2>4
  <2>8. DOMAIN queue' \subseteq Messages
    BY <2>3, <2>5, <2>6
  <2>9. QED
    BY <2>3, <2>4, <2>6, <2>7, <2>8 DEF redis, TypeOK, Phases, RestTyped
<1>11. ASSUME NEW a \in Actors, Abort(a)
       PROVE  RestTyped
  <2>1. errors' \in Nat /\ Stop(a) /\ UNCHANGED <<queue, held, accepted, chains>>
    BY <1>11 DEF Abort, TypeOK
  <2>2. QED
    BY <2>1 DEF Stop, redis, TypeOK, Phases, RestTyped
<1>12. ASSUME \E p \in Api : PostItem(p) \/ LookForWait(p) \/ ReprocessItem(p) \/ GetJobs(p)
       PROVE  RestTyped
  BY <1>3, <1>4, <1>12
<1>13. ASSUME \E w \in Workers : Take(w) \/ Continues(w) \/ Acknowledge(w) \/ Die(w)
       PROVE  RestTyped
  BY <1>5, <1>6, <1>7, <1>8, <1>13
<1>14. ASSUME \E a \in Actors : CallStore(a) \/ ApplyAsync(a) \/ Abort(a)
       PROVE  RestTyped
  BY <1>9, <1>10, <1>11, <1>14
<1>15. RestTyped
  BY <1>1, <1>2, <1>12, <1>13, <1>14 DEF Next
<1>16. QED
  BY <1>15, Moves, MovedTyped DEF TypeOK, RestTyped

\* The calls that are left, the messages and the records keep their types, for any
\* documents, actors, faults and order of the steps.
THEOREM TypesHold == Spec => []TypeOK
<1>1. ItemAssumption
  BY ItemAssumption
<1>2. QED
  BY <1>1, TypeInit, TypeNext, PTL DEF Spec

----------------------------------------------------------------------------
(* What actors have in hand *)

\* What is left of a worker's calls is still about the job of its message.
LEMMA WorkMade ==
    ASSUME ItemAssumption, TypeOK, WorkInv, NEW a \in Actors, Made(a), UNCHANGED held
    PROVE  WorkInv'
<1> SUFFICES ASSUME NEW w \in Workers PROVE WorkOf(held[w], todo'[w])
  BY DEF WorkInv
<1>1. CASE w # a
  BY <1>1 DEF Made, WorkInv, TypeOK
<1>2. CASE w = a
  <2>1. todo[w] \in Seq(Statements) /\ todo[w] # <<>> /\ todo'[w] = Tail(todo[w])
    BY <1>2 DEF Made, TypeOK
  <2>2. \A k \in DOMAIN todo'[w] : k + 1 \in DOMAIN todo[w] /\ todo'[w][k] = todo[w][k + 1]
    BY <2>1, RestOf
  <2>3. WorkOf(held[w], todo[w])
    BY DEF WorkInv
  <2>4. QED
    BY <2>1, <2>2, <2>3 DEF WorkOf
<1>3. QED
  BY <1>1, <1>2

\* Nor does a program that is put in the place of the calls of an actor matter to
\* the other workers.
LEMMA WorkReplaced ==
    ASSUME ItemAssumption, TypeOK, WorkInv, NEW a \in Actors, NEW calls, Does(a, calls),
           \A w \in Workers \ {a} : held'[w] = held[w],
           a \in Workers => WorkOf(held'[a], calls)
    PROVE  WorkInv'
<1> SUFFICES ASSUME NEW w \in Workers PROVE WorkOf(held'[w], todo'[w])
  BY DEF WorkInv
<1>1. CASE w # a
  BY <1>1 DEF Does, WorkInv, TypeOK, ItemAssumption
<1>2. CASE w = a
  BY <1>2 DEF Does, TypeOK
<1>3. QED
  BY <1>1, <1>2

\* A resolution ends in calls of the item and its documents, and starts no chain.
LEMMA ResolutionCalls ==
    ASSUME ItemAssumption, NEW n \in Nat, NEW calls \in {Resolved, StillWaits(n), GivesUp}
    PROVE  \A k \in DOMAIN calls : calls[k].op # "chain"
<1>1. \A k \in DOMAIN GivesUp : GivesUp[k].op # "chain"
  BY DEF GivesUp, SetStatus, AddFailed
<1>2. \A k \in DOMAIN ScheduleItemResolution(n) : ScheduleItemResolution(n)[k].op # "chain"
  BY DEF ScheduleItemResolution, SetStatus, ClearFailed, Send
<1>3. \A k \in DOMAIN EnqueueItemPdfs : EnqueueItemPdfs[k].op # "chain"
  <2> SUFFICES ASSUME NEW k \in DOMAIN EnqueueItemPdfs
               PROVE  EnqueueItemPdfs[k].op \in {"set_status", "clear_failed", "send"}
    OBVIOUS
  <2>1. k \in 1 .. 3 * Len(Pdfs)
    BY DEF EnqueueItemPdfs
  <2>2. PICK j : EnqueueItemPdfs[k] \in {SetStatus(j, [status |-> "na_fila"]), ClearFailed(j),
                                        Send("chain", j, 0)}
    BY <2>1 DEF EnqueueItemPdfs
  <2>3. QED
    BY <2>2 DEF SetStatus, ClearFailed, Send
<1>4. \A k \in DOMAIN Resolved : Resolved[k].op # "chain"
  <2> DEFINE m == Len(EnqueueItemPdfs)
  <2>1. /\ m \in Nat /\ DOMAIN EnqueueItemPdfs = 1 .. m /\ DOMAIN Resolved = 1 .. (m + 2)
        /\ \A k \in 1 .. m : Resolved[k] = EnqueueItemPdfs[k]
        /\ Resolved[m + 1].op # "chain" /\ Resolved[m + 2].op # "chain"
    BY ResolvedFacts DEF SetStatus, ClearFailed
  <2> HIDE DEF m
  <2>2. QED
    BY <1>3, <2>1
<1>5. QED
  BY <1>1, <1>2, <1>4 DEF StillWaits

\* A chain ends in calls of its document.
LEMMA ChainCalls ==
    ASSUME NEW j, NEW calls \in ChainEnds(j)
    PROVE  \A k \in DOMAIN calls :
               /\ calls[k].job = j
               /\ calls[k].op \in {"set_status", "add_failed", "clear_failed"}
               /\ calls[k].op = "set_status" => calls[k].extra.status # "resolvido"
BY DEF ChainEnds, SetStatus, AddFailed, ClearFailed

\* A worker's calls remain about the job of its message.
LEMMA WorkNext ==
    ASSUME ItemAssumption, TypeOK, WorkInv, [Next]_vars
    PROVE  WorkInv'
<1>0. Api \subseteq Actors /\ Workers \subseteq Actors /\ Api \cap Workers = {}
  BY DEF ItemAssumption
<1>1. \A s : WorkOf(NoMessage, <<>>) /\ \A m \in Messages : WorkOf(m, <<>>)
  BY DEF WorkOf, Messages, NoMessage, None
<1>2. ASSUME UNCHANGED vars \/ Overdue
      PROVE  WorkInv'
  BY <1>2 DEF vars, storeVars, Overdue, WorkInv
<1>3. ASSUME NEW p \in Api, PostItem(p) \/ LookForWait(p) \/ ReprocessItem(p) \/ GetJobs(p)
      PROVE  WorkInv'
  <2>1. UNCHANGED held
    BY <1>3 DEF PostItem, LookForWait, ReprocessItem, GetJobs, Asked
  <2>2. PICK calls : Does(p, calls)
    BY <1>3, RequestMoves DEF Replaced
  <2>3. QED
    BY <1>0, <2>1, <2>2, WorkReplaced
<1>4. ASSUME NEW w \in Workers, Take(w)
      PROVE  WorkInv'
  <2>1. PICK msg \in DOMAIN queue : held' = [held EXCEPT ![w] = msg] /\ Does(w, Starts(msg))
    BY <1>4 DEF Take, BagToSet
  <2>2. msg \in Messages
    BY <2>1 DEF TypeOK
  <2>3. WorkOf(msg, Starts(msg))
    <3>1. msg # NoMessage
      BY <2>2 DEF Messages, NoMessage, None
    <3>2. /\ DOMAIN Starts(msg) = {1, 2}
          /\ Starts(msg)[1].job = msg.job /\ Starts(msg)[2].job = msg.job
      BY DEF Starts, SetStatus
    <3>3. Starts(msg)[1].op = "set_status" /\ Starts(msg)[2].op = msg.task
      BY DEF Starts, SetStatus
    <3>4. msg.task = "chain" => msg.job # Item
      BY <2>2 DEF Messages, Documents, ItemAssumption
    <3>5. QED
      BY <3>1, <3>2, <3>3, <3>4 DEF WorkOf
  <2>4. QED
    BY <1>0, <2>1, <2>3, WorkReplaced DEF TypeOK
<1>5. ASSUME NEW w \in Workers, Continues(w)
      PROVE  WorkInv'
  <2>1. UNCHANGED held /\ todo[w] # <<>> /\ todo[w] \in Seq(Statements)
    BY <1>0, <1>5 DEF Continues, Calls, TypeOK
  <2>2. held[w] # NoMessage /\ held[w] \in Messages /\ WorkOf(held[w], todo[w])
    BY <2>1 DEF WorkInv, WorkOf, TypeOK
  <2>3. 1 \in DOMAIN todo[w] /\ Call(w) = todo[w][1] /\ Call(w) \in Statements
    BY <2>1, RestOf DEF Call
  <2>4. held[w].task \in {"chain", "resolve"} /\ held[w].attempt \in Nat
    BY <2>2 DEF Messages
  <2>5. CASE Calls(w, "resolve") /\
             \E calls \in {Resolved, StillWaits(held[w].attempt), GivesUp} : Does(w, calls)
    <3>1. PICK calls \in {Resolved, StillWaits(held[w].attempt), GivesUp} : Does(w, calls)
      BY <2>5
    <3>2. Call(w).job = Item
      BY <2>3, <2>5, StatementFacts DEF Calls, Call
    <3>3. held[w].task = "resolve"
      BY <2>2, <2>3, <2>4, <3>2 DEF WorkOf
    <3>4. \A k \in DOMAIN calls : calls[k].op # "chain"
      BY <2>4, ResolutionCalls
    <3>5. WorkOf(held[w], calls)
      BY <2>2, <3>3, <3>4 DEF WorkOf
    <3>6. QED
      BY <1>0, <2>1, <3>1, <3>5, WorkReplaced
  <2>6. CASE Calls(w, "chain") /\ \E calls \in ChainEnds(Call(w).job) : Does(w, calls)
    <3>1. PICK calls \in ChainEnds(Call(w).job) : Does(w, calls)
      BY <2>6
    <3>2. Call(w).op = "chain"
      BY <2>6 DEF Calls, Call
    <3>3. held[w].task = "chain" /\ Call(w).job # Item
      BY <2>2, <2>3, <2>4, <3>2 DEF WorkOf
    <3>4. \A k \in DOMAIN calls : calls[k].job = Call(w).job
      BY ChainCalls
    <3>5. WorkOf(held[w], calls)
      BY <2>2, <3>3, <3>4 DEF WorkOf
    <3>6. QED
      BY <1>0, <2>1, <3>1, <3>5, WorkReplaced
  <2>7. QED
    BY <1>5, <2>5, <2>6 DEF Continues
<1>6. ASSUME NEW w \in Workers, Acknowledge(w)
      PROVE  WorkInv'
  BY <1>0, <1>1, <1>6 DEF Acknowledge, storeVars, WorkInv, TypeOK
<1>7. ASSUME NEW w \in Workers, Die(w)
      PROVE  WorkInv'
  <2>1. Does(w, <<>>) /\ held' = [held EXCEPT ![w] = NoMessage]
    BY <1>7 DEF Die, Stop, Does
  <2>2. QED
    BY <1>0, <1>1, <2>1, WorkReplaced DEF TypeOK
<1>8. ASSUME NEW a \in Actors, CallStore(a) \/ ApplyAsync(a)
      PROVE  WorkInv'
  <2>1. UNCHANGED held
    BY <1>8 DEF CallStore, ApplyAsync
  <2>2. UNCHANGED todo \/ Made(a)
    BY <1>8, CallKeeps
  <2>3. QED
    BY <2>1, <2>2, WorkMade DEF WorkInv
<1>9. ASSUME NEW a \in Actors, Abort(a)
      PROVE  WorkInv'
  <2>1. Does(a, <<>>) /\ UNCHANGED held
    BY <1>9 DEF Abort, Stop, Does
  <2>2. a \in Workers => WorkOf(held'[a], <<>>)
    BY <1>1, <2>1 DEF TypeOK
  <2>3. QED
    BY <2>1, <2>2, WorkReplaced
<1>10. ASSUME \E p \in Api : PostItem(p) \/ LookForWait(p) \/ ReprocessItem(p) \/ GetJobs(p)
       PROVE  WorkInv'
  BY <1>3, <1>10
<1>11. ASSUME \E w \in Workers : Take(w) \/ Continues(w) \/ Acknowledge(w) \/ Die(w)
       PROVE  WorkInv'
  BY <1>4, <1>5, <1>6, <1>7, <1>11
<1>12. ASSUME \E a \in Actors : CallStore(a) \/ ApplyAsync(a) \/ Abort(a)
       PROVE  WorkInv'
  BY <1>8, <1>9, <1>12
<1>13. QED
  BY <1>2, <1>10, <1>11, <1>12 DEF Next

\* Nobody has anything in hand in the initial state.
LEMMA HandsInit == Init => WorkInv /\ PhaseInv
<1> SUFFICES ASSUME Init PROVE WorkInv /\ PhaseInv
  OBVIOUS
<1>1. NoMessage.task = "none"
  BY DEF NoMessage, None
<1>2. \A w \in Workers : held[w] = NoMessage
  BY DEF Init
<1>3. \A a \in Actors : todo[a] = <<>> /\ phase[a] = "start"
  BY DEF Init, InitStore
<1>4. WorkInv
  BY <1>1, <1>2, <1>3, ItemAssumption DEF WorkInv, WorkOf, ItemAssumption
<1>5. PhaseInv
  BY <1>3 DEF PhaseInv, PhaseOf
<1>6. QED
  BY <1>4, <1>5

\* An actor that is not in the middle of a call may get other calls.
LEMMA PhaseReplaced ==
    ASSUME ItemAssumption, TypeOK, PhaseInv, NEW a \in Actors, NEW calls, Does(a, calls),
           \/ phase'[a] = "start" /\ \A b \in Actors \ {a} : phase'[b] = phase[b]
           \/ phase[a] = "start" /\ UNCHANGED phase
    PROVE  PhaseInv'
<1> SUFFICES ASSUME NEW b \in Actors PROVE PhaseOf(phase'[b], todo'[b])
  BY DEF PhaseInv
<1>1. CASE b = a
  BY <1>1 DEF PhaseOf
<1>2. CASE b # a
  BY <1>2 DEF Does, PhaseInv, TypeOK
<1>3. QED
  BY <1>1, <1>2

\* A call to the store leaves an actor between two calls, or in the middle of one
\* that takes several requests.
LEMMA PhaseStore ==
    ASSUME ItemAssumption, TypeOK, PhaseInv, NEW a \in Actors, StoreCall(a)
    PROVE  PhaseInv'
<1>1. PICK up \in BOOLEAN :
          \/ ReadRecord(a, up) \/ WriteRecord(a, up)
          \/ TrackActive(a, up) \/ TrackSucceeded(a, up)
          \/ MarkFailed(a, up)
          \/ ResolveEntry(a, up) \/ Prune(a, up)
  BY DEF StoreCall
<1>2. CASE \E q \in {"put", "active", "succeeded"} :
               /\ UNCHANGED todo /\ phase' = [phase EXCEPT ![a] = q]
               /\ todo[a] # <<>> /\ Head(todo[a]).op = "set_status"
  BY <1>2 DEF PhaseInv, PhaseOf, TypeOK
<1>3. CASE /\ UNCHANGED todo /\ phase' = [phase EXCEPT ![a] = "prune"]
           /\ todo[a] # <<>> /\ Head(todo[a]).op = "list"
  BY <1>3 DEF PhaseInv, PhaseOf, TypeOK
<1>4. CASE Returns(a)
  <2>1. Does(a, Tail(todo[a])) /\ phase'[a] = "start"
    BY <1>4 DEF Returns, Does, TypeOK
  <2>2. \A b \in Actors \ {a} : phase'[b] = phase[b]
    BY <1>4 DEF Returns, TypeOK
  <2>3. QED
    BY <2>1, <2>2, PhaseReplaced
<1>5. ReadRecord(a, up) \/ WriteRecord(a, up) \/ TrackActive(a, up) =>
          \E q \in {"put", "active", "succeeded"} :
              /\ UNCHANGED todo /\ phase' = [phase EXCEPT ![a] = q]
              /\ todo[a] # <<>> /\ Head(todo[a]).op = "set_status"
  BY DEF ReadRecord, WriteRecord, TrackActive, Calls, Goes
<1>6. TrackSucceeded(a, up) \/ MarkFailed(a, up) \/ Prune(a, up) => Returns(a)
  BY DEF TrackSucceeded, MarkFailed, Prune
<1>7. ResolveEntry(a, up) =>
          \/ Returns(a)
          \/ /\ UNCHANGED todo /\ phase' = [phase EXCEPT ![a] = "prune"]
             /\ todo[a] # <<>> /\ Head(todo[a]).op = "list"
  BY DEF ResolveEntry, Calls, Goes
<1>8. QED
  BY <1>1, <1>2, <1>3, <1>4, <1>5, <1>6, <1>7

\* A request, a message or an answer gives calls to an actor that is between two.
Assigned ==
    /\ \E b \in Actors : phase[b] = "start" /\ Replaced(b)
    /\ UNCHANGED <<record, active, succeeded, phase, copy, disturbed>>

LEMMA Assignments ==
    ASSUME ItemAssumption, TypeOK, WorkInv, PhaseInv,
           \/ \E p \in Api : PostItem(p) \/ LookForWait(p) \/ ReprocessItem(p) \/ GetJobs(p)
           \/ \E w \in Workers : Take(w) \/ Continues(w)
    PROVE  Assigned
<1>0. Api \subseteq Actors /\ Workers \subseteq Actors
  BY DEF ItemAssumption
<1>1. \A a \in Actors : todo[a] = <<>> => phase[a] = "start"
  BY DEF PhaseInv, PhaseOf
<1>2. \A a \in Actors :
          todo[a] # <<>> /\ Head(todo[a]).op \notin {"set_status", "list"} => phase[a] = "start"
  BY DEF PhaseInv, PhaseOf, TypeOK, Phases
<1>3. ASSUME NEW p \in Api, PostItem(p) \/ LookForWait(p) \/ ReprocessItem(p) \/ GetJobs(p)
      PROVE  Assigned
  <2>1. UNCHANGED <<record, active, succeeded, phase, copy, disturbed>>
    BY <1>3 DEF PostItem, LookForWait, ReprocessItem, GetJobs, Asked, redis
  <2>2. CASE LookForWait(p)
    BY <1>0, <1>2, <2>1, <2>2, RequestMoves DEF LookForWait, Calls, Assigned
  <2>3. CASE PostItem(p) \/ ReprocessItem(p) \/ GetJobs(p)
    <3>1. Asked(p)
      BY <2>3 DEF PostItem, ReprocessItem, GetJobs
    <3>2. phase[p] = "start"
      BY <1>0, <1>1, <3>1 DEF Asked
    <3>3. QED
      BY <1>0, <1>3, <2>1, <3>2, RequestMoves DEF Assigned
  <2>4. QED
    BY <1>3, <2>2, <2>3
<1>4. ASSUME NEW w \in Workers, Take(w) \/ Continues(w)
      PROVE  Assigned
  <2>1. UNCHANGED <<record, active, succeeded, phase, copy, disturbed>>
    BY <1>4 DEF Take, Continues, redis
  <2>2. phase[w] = "start"
    <3>1. CASE Take(w)
      BY <1>0, <1>1, <3>1 DEF Take, WorkInv, WorkOf
    <3>2. CASE Continues(w)
      BY <1>0, <1>2, <3>2 DEF Continues, Calls
    <3>3. QED
      BY <1>4, <3>1, <3>2
  <2>3. Replaced(w)
    BY <1>4, WorkMoves
  <2>4. QED
    BY <1>0, <2>1, <2>2, <2>3 DEF Assigned
<1>5. QED
  BY <1>3, <1>4

\* An actor is in the middle of a call only of those that take several requests.
LEMMA PhaseNext ==
    ASSUME ItemAssumption, TypeOK, WorkInv, PhaseInv, [Next]_vars
    PROVE  PhaseInv'
<1>0. Api \subseteq Actors /\ Workers \subseteq Actors
  BY DEF ItemAssumption
<1>1. ASSUME UNCHANGED vars \/ Overdue
      PROVE  PhaseInv'
  BY <1>1 DEF vars, storeVars, Overdue, PhaseInv
<1>2. ASSUME Assigned
      PROVE  PhaseInv'
  BY <1>2, PhaseReplaced DEF Assigned, Replaced
<1>3. ASSUME NEW a \in Actors, Stop(a)
      PROVE  PhaseInv'
  <2>1. Does(a, <<>>) /\ phase'[a] = "start" /\ \A b \in Actors \ {a} : phase'[b] = phase[b]
    BY <1>3 DEF Stop, Does, TypeOK
  <2>2. QED
    BY <2>1, PhaseReplaced
<1>4. ASSUME NEW w \in Workers, Acknowledge(w)
      PROVE  PhaseInv'
  BY <1>4 DEF Acknowledge, storeVars, PhaseInv
<1>5. ASSUME NEW a \in Actors, ApplyAsync(a)
      PROVE  PhaseInv'
  <2>1. /\ Does(a, Tail(todo[a])) /\ phase'[a] = "start"
        /\ \A b \in Actors \ {a} : phase'[b] = phase[b]
    BY <1>5 DEF ApplyAsync, Returns, Does, TypeOK
  <2>2. QED
    BY <2>1, PhaseReplaced
<1>6. ASSUME NEW a \in Actors, CallStore(a) \/ ApplyAsync(a) \/ Abort(a)
      PROVE  PhaseInv'
  BY <1>3, <1>5, <1>6, PhaseStore DEF CallStore, Abort
<1>7. ASSUME NEW w \in Workers, Acknowledge(w) \/ Die(w)
      PROVE  PhaseInv'
  BY <1>0, <1>3, <1>4, <1>7 DEF Die
<1>8. ASSUME \E a \in Actors : CallStore(a) \/ ApplyAsync(a) \/ Abort(a)
      PROVE  PhaseInv'
  BY <1>6, <1>8
<1>9. QED
  BY <1>1, <1>2, <1>7, <1>8, Assignments DEF Next

----------------------------------------------------------------------------
(* The indexes of the job store *)

Agree(j) == /\ j \in active <=> IsActive(record[j])
            /\ j \in succeeded <=> IsSucceeded(record[j])

\* A job that is not disturbed has at most one actor in the middle of a call; with
\* none the indexes agree with the record, and else the actor's copy is the record
\* and the index it has passed is right.
InStep(a, j) ==
    /\ phase[a] \in {"active", "succeeded"} => record[j] = copy[a]
    /\ phase[a] = "succeeded" => (j \in active <=> IsActive(record[j]))
    /\ phase[a] = "prune" => Agree(j) /\ ~IsListed(Call(a).index, record[j])
IndexOf(j) ==
    /\ \A a \in Actors : Within(a, j) => Alone(a, j) /\ InStep(a, j)
    /\ (\A a \in Actors : ~Within(a, j)) => Agree(j)
IndexInv == \A j \in Jobs \ disturbed : IndexOf(j)

\* What is said of a job depends on its record, its place in the two indexes, and
\* who is in the middle of a call about it.
SameFor(j) ==
    /\ record'[j] = record[j]
    /\ j \in active' <=> j \in active
    /\ j \in succeeded' <=> j \in succeeded
    /\ \A a \in Actors : /\ Within(a, j)' <=> Within(a, j)
                         /\ Within(a, j) => /\ phase'[a] = phase[a] /\ copy'[a] = copy[a]
                                            /\ Call(a)' = Call(a)

LEMMA IndexKept ==
    ASSUME NEW j \in Jobs, IndexOf(j), SameFor(j)
    PROVE  IndexOf(j)'
<1>1. Agree(j)' <=> Agree(j)
  BY DEF SameFor, Agree
<1>2. ASSUME NEW a \in Actors, Within(a, j)'
      PROVE  Alone(a, j)' /\ InStep(a, j)'
  <2>1. Within(a, j) /\ Alone(a, j) /\ InStep(a, j)
    BY <1>2 DEF IndexOf, SameFor
  <2>2. Alone(a, j)'
    BY <2>1 DEF Alone, SameFor
  <2>3. phase'[a] = phase[a] /\ copy'[a] = copy[a] /\ Call(a)' = Call(a)
    BY <2>1 DEF SameFor
  <2>4. InStep(a, j)'
    BY <1>1, <2>1, <2>3 DEF InStep, SameFor
  <2>5. QED
    BY <2>2, <2>4
<1>3. (\A a \in Actors : ~Within(a, j)') => Agree(j)'
  BY <1>1 DEF IndexOf, SameFor
<1>4. QED
  BY <1>2, <1>3 DEF IndexOf

\* A call about one job does not matter to another.
LEMMA Elsewhere ==
    ASSUME ItemAssumption, TypeOK, PhaseInv, NEW a \in Actors, StoreCall(a), NEW j \in Jobs,
           Call(a).job # j
    PROVE  SameFor(j) /\ (j \in disturbed <=> j \in disturbed')
<1> DEFINE i == Call(a).job
<1>1. PICK up \in BOOLEAN :
          \/ ReadRecord(a, up) \/ WriteRecord(a, up)
          \/ TrackActive(a, up) \/ TrackSucceeded(a, up)
          \/ MarkFailed(a, up)
          \/ ResolveEntry(a, up) \/ Prune(a, up)
  BY DEF StoreCall
<1>2. /\ record'[j] = record[j]
      /\ j \in active' <=> j \in active
      /\ j \in succeeded' <=> j \in succeeded
  BY <1>1 DEF ReadRecord, WriteRecord, TrackActive, TrackSucceeded, MarkFailed, ResolveEntry,
              Prune, redis, UpdateIndex, Entries, TypeOK
<1>3. j \in disturbed <=> j \in disturbed'
  BY <1>1 DEF ReadRecord, WriteRecord, TrackActive, TrackSucceeded, MarkFailed, ResolveEntry,
              Prune, Enters, Stays
<1>4. /\ \A b \in Actors \ {a} : /\ todo'[b] = todo[b] /\ phase'[b] = phase[b]
                                /\ copy'[b] = copy[b]
      /\ phase'[a] = "start" \/ todo'[a] = todo[a]
  BY <1>1 DEF ReadRecord, WriteRecord, TrackActive, TrackSucceeded, MarkFailed, ResolveEntry,
              Prune, Keeps, Goes, Returns, TypeOK
<1>5. QED
  BY <1>2, <1>3, <1>4 DEF SameFor, Within, Call

\* A request of set_status, of a listing or of a mark keeps the index of its job:
\* what it finds is what the record says, or the job is disturbed.
LEMMA IndexStore ==
    ASSUME ItemAssumption, TypeOK, PhaseInv, IndexInv, NEW a \in Actors, StoreCall(a),
           NEW j \in Jobs, Call(a).job = j, j \notin disturbed'
    PROVE  IndexOf(j)'
<1>1. PICK up \in BOOLEAN :
          \/ ReadRecord(a, up) \/ WriteRecord(a, up)
          \/ TrackActive(a, up) \/ TrackSucceeded(a, up)
          \/ MarkFailed(a, up)
          \/ ResolveEntry(a, up) \/ Prune(a, up)
  BY DEF StoreCall
<1>2. PhaseOf(phase[a], todo[a])
  BY DEF PhaseInv
<1>3. j \notin disturbed => IndexOf(j)
  BY DEF IndexInv
<1>4. \A b \in Actors \ {a} : /\ todo'[b] = todo[b] /\ phase'[b] = phase[b]
                              /\ copy'[b] = copy[b]
  BY <1>1 DEF ReadRecord, WriteRecord, TrackActive, TrackSucceeded, MarkFailed, ResolveEntry,
              Prune, Keeps, Goes, Returns, TypeOK
<1>5. \A b \in Actors \ {a} : Within(b, j)' <=> Within(b, j)
  BY <1>4 DEF Within, Call
<1>6. Alone(a, j)' <=> Alone(a, j)
  BY <1>5 DEF Alone
<1>7. ASSUME Alone(a, j), phase'[a] # "start", todo'[a] = todo[a], InStep(a, j)'
      PROVE  IndexOf(j)'
  <2>1. Within(a, j)'
    BY <1>7 DEF Within, Call
  <2>2. \A b \in Actors : Within(b, j)' => b = a
    BY <1>5, <1>7 DEF Alone
  <2>3. QED
    BY <1>6, <1>7, <2>1, <2>2 DEF IndexOf
<1>8. ASSUME Alone(a, j), phase'[a] = "start", Agree(j)'
      PROVE  IndexOf(j)'
  <2>1. \A b \in Actors : ~Within(b, j)'
    BY <1>5, <1>8 DEF Alone, Within
  <2>2. QED
    BY <1>8, <2>1 DEF IndexOf
<1>9. CASE ReadRecord(a, up)
  <2>1. up /\ Alone(a, j)
    BY <1>9 DEF ReadRecord, Enters
  <2>2. phase'[a] = "put" /\ todo'[a] = todo[a]
    BY <1>9, <2>1 DEF ReadRecord, Goes, TypeOK
  <2>3. InStep(a, j)'
    BY <2>2 DEF InStep
  <2>4. QED
    BY <1>7, <2>1, <2>2, <2>3
<1>10. CASE WriteRecord(a, up)
  <2>1. up /\ j \notin disturbed /\ Within(a, j)
    BY <1>10 DEF WriteRecord, Stays, Within
  <2>2. Alone(a, j)
    BY <1>3, <2>1 DEF IndexOf
  <2>3. phase'[a] = "active" /\ todo'[a] = todo[a] /\ record'[j] = copy[a] /\ copy' = copy
    BY <1>10, <2>1 DEF WriteRecord, Goes, TypeOK
  <2>4. InStep(a, j)'
    BY <2>3 DEF InStep
  <2>5. QED
    BY <1>7, <2>2, <2>3, <2>4
<1>11. CASE TrackActive(a, up)
  <2>1. up /\ j \notin disturbed /\ Within(a, j) /\ phase[a] = "active"
    BY <1>11 DEF TrackActive, Stays, Within
  <2>2. Alone(a, j) /\ record[j] = copy[a]
    BY <1>3, <2>1 DEF IndexOf, InStep
  <2>3. /\ phase'[a] = "succeeded" /\ todo'[a] = todo[a] /\ record' = record /\ copy' = copy
        /\ j \in active' <=> IsActive(copy[a])
    BY <1>11, <2>1 DEF TrackActive, Goes, TypeOK, UpdateIndex, Derived
  <2>4. InStep(a, j)'
    BY <2>2, <2>3 DEF InStep
  <2>5. QED
    BY <1>7, <2>2, <2>3, <2>4
<1>12. CASE TrackSucceeded(a, up)
  <2>1. up /\ j \notin disturbed /\ Within(a, j) /\ phase[a] = "succeeded"
    BY <1>12 DEF TrackSucceeded, Stays, Within
  <2>2. Alone(a, j) /\ record[j] = copy[a] /\ (j \in active <=> IsActive(record[j]))
    BY <1>3, <2>1 DEF IndexOf, InStep
  <2>3. /\ phase'[a] = "start" /\ record' = record /\ active' = active
        /\ j \in succeeded' <=> IsSucceeded(copy[a])
    BY <1>12, <2>1 DEF TrackSucceeded, Returns, TypeOK, UpdateIndex, Derived
  <2>4. Agree(j)'
    BY <2>2, <2>3 DEF Agree
  <2>5. QED
    BY <1>8, <2>2, <2>3, <2>4
<1>13. CASE MarkFailed(a, up)
  <2>1. phase[a] = "start"
    BY <1>2, <1>13 DEF MarkFailed, Calls, PhaseOf, TypeOK, Phases
  <2>2. UNCHANGED <<record, active, succeeded, disturbed>> /\ phase'[a] = "start"
    BY <1>13 DEF MarkFailed, Returns, TypeOK
  <2>3. SameFor(j)
    BY <1>4, <1>5, <2>1, <2>2 DEF SameFor, Within, Call
  <2>4. QED
    BY <1>3, <2>2, <2>3, IndexKept
<1>14. CASE ResolveEntry(a, up)
  <2>1. phase[a] = "start" /\ UNCHANGED <<record, active, succeeded, copy>>
    BY <1>14 DEF ResolveEntry, redis
  <2>2. CASE phase'[a] = "start"
    <3>1. SameFor(j)
      BY <1>4, <1>5, <2>1, <2>2 DEF SameFor, Within, Call
    <3>2. j \notin disturbed
      BY <1>14 DEF ResolveEntry
    <3>3. QED
      BY <1>3, <3>1, <3>2, IndexKept
  <2>3. CASE phase'[a] # "start"
    <3>1. /\ phase'[a] = "prune" /\ todo' = todo
          /\ ~IsListed(Call(a).index, IF up THEN record[j] ELSE <<>>)
          /\ disturbed' = IF up /\ Alone(a, j) THEN disturbed ELSE disturbed \cup {j}
      BY <1>14, <2>3 DEF ResolveEntry, Goes, Returns, TypeOK
    <3>2. up /\ Alone(a, j) /\ j \notin disturbed
      BY <3>1
    <3>3. \A b \in Actors : ~Within(b, j)
      BY <2>1, <3>2 DEF Alone, Within
    <3>4. Agree(j)
      BY <1>3, <3>2, <3>3 DEF IndexOf
    <3>5. Agree(j)' /\ ~IsListed(Call(a).index, record[j])
      BY <2>1, <3>1, <3>2, <3>4 DEF Agree
    <3>6. Call(a)' = Call(a)
      BY <3>1 DEF Call
    <3>7. InStep(a, j)'
      BY <2>1, <3>1, <3>5, <3>6 DEF InStep
    <3>8. QED
      BY <1>7, <3>1, <3>2, <3>7
  <2>4. QED
    BY <2>2, <2>3
<1>15. CASE Prune(a, up)
  <2>1. up /\ j \notin disturbed /\ Within(a, j) /\ phase[a] = "prune"
    BY <1>15 DEF Prune, Stays, Within
  <2>2. Alone(a, j) /\ Agree(j) /\ ~IsListed(Call(a).index, record[j])
    BY <1>3, <2>1 DEF IndexOf, InStep
  <2>3. phase'[a] = "start" /\ record' = record
    BY <1>15 DEF Prune, Returns, TypeOK
  <2>4. /\ active' = IF Call(a).index = "active" THEN active \ {j} ELSE active
        /\ succeeded' = IF Call(a).index = "succeeded" THEN succeeded \ {j} ELSE succeeded
    BY <1>15, <2>1 DEF Prune, Entries
  <2>5. Agree(j)'
    BY <2>2, <2>3, <2>4 DEF Agree, IsListed
  <2>6. QED
    BY <1>8, <2>2, <2>3, <2>5
<1>16. QED
  BY <1>1, <1>9, <1>10, <1>11, <1>12, <1>13, <1>14, <1>15

\* An actor that stops in the middle of a call disturbs its job.
LEMMA IndexStop ==
    ASSUME TypeOK, IndexInv, NEW a \in Actors, Stop(a), NEW j \in Jobs \ disturbed'
    PROVE  IndexOf(j)'
<1>1. ~Within(a, j) /\ j \notin disturbed /\ ~Within(a, j)'
  BY DEF Stop, Within, TypeOK
<1>2. SameFor(j)
  BY <1>1 DEF Stop, SameFor, redis, Within, Call, TypeOK
<1>3. QED
  BY <1>1, <1>2, IndexKept DEF IndexInv

\* The delay of a wait is not what the indexes are about.
LEMMA IndexOverdue ==
    ASSUME ItemAssumption, TypeOK, PhaseInv, IndexInv, Overdue, NEW j \in Jobs \ disturbed'
    PROVE  IndexOf(j)'
<1>1. UNCHANGED <<active, succeeded, todo, phase, copy, disturbed>>
  BY DEF Overdue
<1>2. CASE j # Item
  <2>1. SameFor(j)
    BY <1>1, <1>2 DEF Overdue, SameFor, Within, Call, TypeOK
  <2>2. QED
    BY <1>1, <2>1, IndexKept DEF IndexInv
<1>3. CASE j = Item
  <2>1. ASSUME NEW a \in Actors, Within(a, j) PROVE FALSE
    <3>1. todo[a] \in Seq(Statements) /\ todo[a] # <<>> /\ Call(a).job = Item
      BY <1>3, <2>1 DEF Within, PhaseInv, PhaseOf, TypeOK
    <3>2. 1 \in DOMAIN todo[a] /\ todo[a][1].job = Item
      BY <3>1, RestOf DEF Call
    <3>3. QED
      BY <3>2 DEF Overdue, InProgress, Resolving
  <2>2. \A a \in Actors : ~Within(a, j)'
    BY <1>1, <2>1 DEF Within, Call
  <2>3. Agree(j)
    BY <1>1, <2>1 DEF IndexInv, IndexOf
  <2>4. record'[Item] = [record[Item] EXCEPT !.due = "past"]
    BY <1>3 DEF Overdue, TypeOK
  <2>5. \A f \in {"status", "index_error"} : Get(record'[Item], f) = Get(record[Item], f)
    BY <2>4 DEF Get
  <2>6. Agree(j)'
    BY <1>1, <1>3, <2>3, <2>5 DEF Agree, IsActive, IsSucceeded
  <2>7. QED
    BY <2>2, <2>6 DEF IndexOf
<1>4. QED
  BY <1>2, <1>3

\* Every step keeps what is said of the indexes.
LEMMA IndexNext ==
    ASSUME ItemAssumption, TypeOK, WorkInv, PhaseInv, IndexInv, [Next]_vars
    PROVE  IndexInv'
<1> SUFFICES ASSUME NEW j \in Jobs \ disturbed' PROVE IndexOf(j)'
  BY DEF IndexInv
<1>0. Workers \subseteq Actors
  BY DEF ItemAssumption
<1>1. ASSUME SameFor(j), disturbed' = disturbed
      PROVE  IndexOf(j)'
  BY <1>1, IndexKept DEF IndexInv
<1>2. ASSUME UNCHANGED vars
      PROVE  IndexOf(j)'
  <2>1. SameFor(j) /\ disturbed' = disturbed
    BY <1>2 DEF vars, storeVars, redis, SameFor, Within, Call
  <2>2. QED
    BY <1>1, <2>1
<1>3. ASSUME Assigned
      PROVE  IndexOf(j)'
  <2>1. PICK b \in Actors : phase[b] = "start" /\ Replaced(b)
    BY <1>3 DEF Assigned
  <2>2. \A a \in Actors : phase[a] # "start" => todo'[a] = todo[a]
    BY <2>1 DEF Replaced, Does, TypeOK
  <2>3. SameFor(j) /\ disturbed' = disturbed
    BY <1>3, <2>2 DEF Assigned, SameFor, Within, Call
  <2>4. QED
    BY <1>1, <2>3
<1>4. ASSUME NEW w \in Workers, Acknowledge(w)
      PROVE  IndexOf(j)'
  <2>1. SameFor(j) /\ disturbed' = disturbed
    BY <1>4 DEF Acknowledge, storeVars, redis, SameFor, Within, Call
  <2>2. QED
    BY <1>1, <2>1
<1>5. ASSUME NEW a \in Actors, ApplyAsync(a)
      PROVE  IndexOf(j)'
  <2>1. phase[a] = "start"
    BY <1>5 DEF ApplyAsync, Calls, PhaseInv, PhaseOf, TypeOK, Phases
  <2>2. /\ \A b \in Actors \ {a} : todo'[b] = todo[b]
        /\ \A b \in Actors : phase'[b] = phase[b]
    BY <1>5, <2>1 DEF ApplyAsync, Returns, TypeOK
  <2>3. UNCHANGED <<record, active, succeeded, copy, disturbed>>
    BY <1>5 DEF ApplyAsync, redis
  <2>4. SameFor(j)
    BY <2>1, <2>2, <2>3 DEF SameFor, Within, Call
  <2>5. QED
    BY <1>1, <2>3, <2>4
<1>6. ASSUME NEW a \in Actors, StoreCall(a)
      PROVE  IndexOf(j)'
  <2>1. CASE Call(a).job = j
    BY <1>6, <2>1, IndexStore
  <2>2. CASE Call(a).job # j
    BY <1>6, <2>2, Elsewhere, IndexKept DEF IndexInv
  <2>3. QED
    BY <2>1, <2>2
<1>7. ASSUME \E a \in Actors : CallStore(a) \/ ApplyAsync(a) \/ Abort(a)
      PROVE  IndexOf(j)'
  BY <1>5, <1>6, <1>7, IndexStop DEF CallStore, Abort
<1>8. ASSUME NEW w \in Workers, Acknowledge(w) \/ Die(w)
      PROVE  IndexOf(j)'
  BY <1>0, <1>4, <1>8, IndexStop DEF Die
<1>9. QED
  BY <1>2, <1>3, <1>7, <1>8, Assignments, IndexOverdue DEF Next

\* What actors have in hand stays with its job, in every reachable state.
LEMMA HandsHold == Spec => [](TypeOK /\ WorkInv /\ PhaseInv)
<1>1. ItemAssumption
  BY ItemAssumption
<1>2. TypeOK /\ WorkInv /\ PhaseInv /\ [Next]_vars => (TypeOK /\ WorkInv /\ PhaseInv)'
  BY <1>1, TypeNext, WorkNext, PhaseNext
<1>3. QED
  BY <1>2, TypeInit, HandsInit, PTL DEF Spec

\* The indexes follow the records: for any number of jobs, actors and outages, the
\* job of writers that did not overlap and were not cut short is in the index of the
\* running jobs, and in that of the successes, when its record says so.
THEOREM IndexesFollowRecordsHolds == Spec => []IndexesFollowRecords
<1>1. ItemAssumption
  BY ItemAssumption
<1>2. Init => IndexInv
  <2> SUFFICES ASSUME Init, NEW j \in Jobs PROVE IndexOf(j)
    BY DEF IndexInv
  <2>1. record[j] = <<>> /\ active = {} /\ succeeded = {}
    BY DEF Init, InitStore
  <2>2. \A f : Get(<<>>, f) = "none"
    BY DEF Get
  <2>3. Agree(j)
    BY <2>1, <2>2 DEF Agree, IsActive, IsSucceeded
  <2>4. \A a \in Actors : ~Within(a, j)
    BY DEF Init, InitStore, Within
  <2>5. QED
    BY <2>3, <2>4 DEF IndexOf
<1>3. TypeOK /\ WorkInv /\ PhaseInv /\ IndexInv /\ [Next]_vars => IndexInv'
  BY <1>1, IndexNext
<1>4. IndexInv => IndexesFollowRecords
  BY DEF IndexInv, IndexOf, Agree, IndexesFollowRecords
<1>5. QED
  BY <1>2, <1>3, <1>4, HandsHold, PTL DEF Spec

----------------------------------------------------------------------------
(* What the calls that are left promise *)

\* A call that keeps the item's wait on its way.
Carry(c) == c.job = Item /\ c.op \notin {"list", "look"}
GoesOn(calls, k) == \E m \in DOMAIN calls : m > k /\ Carry(calls[m])
\* Each chain of the item is among those sent, or is sent before the k-th call.
SentAhead(calls, k, sent) ==
    \A i \in DOMAIN Pdfs :
        Pdfs[i] \in sent \/ \E m \in DOMAIN calls : m < k /\ Pdfs[i] \in ChainOf(calls[m])

\* An item is called resolved after the chains of its documents; a change of its
\* record, or of its mark as a failure, is not the last thing that is done for it,
\* unless its chains are sent; and nothing follows the look for a wait.
WellFormed(calls, sent) ==
    \A k \in DOMAIN calls :
        /\ calls[k].op = "set_status" /\ calls[k].extra.status = "resolvido"
              => SentAhead(calls, k, sent)
        /\ calls[k].op = "set_status" /\ calls[k].job = Item => GoesOn(calls, k)
        /\ calls[k].op = "clear_failed" /\ calls[k].job = Item
              => GoesOn(calls, k) \/ SentAhead(calls, k, sent)
        /\ calls[k].op = "look" => k = Len(calls)
ProgramInv == \A a \in Actors : WellFormed(todo[a], chains)

\* Calls that do not carry the item promise nothing.
LEMMA OthersWellFormed ==
    ASSUME ItemAssumption, NEW calls \in Seq(Statements), NEW sent,
           \A k \in DOMAIN calls : calls[k].job # Item \/ calls[k].op \in {"list", "look"},
           \A k \in DOMAIN calls : calls[k].op = "look" => k = Len(calls)
    PROVE  WellFormed(calls, sent)
<1>1. \A k \in DOMAIN calls : calls[k] \in Statements
  OBVIOUS
<1>2. \A k \in DOMAIN calls :
          calls[k].op = "set_status" /\ calls[k].extra.status = "resolvido" => calls[k].job = Item
  BY <1>1, StatementFacts
<1>3. QED
  BY <1>2 DEF WellFormed

\* What is promised is still promised when a call is made: a chain that it sends
\* counts among those sent.
LEMMA TailWellFormed ==
    ASSUME NEW s \in Seq(Statements), s # <<>>, NEW sent, WellFormed(s, sent)
    PROVE  WellFormed(Tail(s), sent \cup ChainOf(Head(s)))
<1> DEFINE t == Tail(s)  more == sent \cup ChainOf(Head(s))
<1>1. /\ DOMAIN t = 1 .. (Len(s) - 1) /\ DOMAIN s = 1 .. Len(s) /\ Len(s) \in Nat
      /\ Len(t) = Len(s) - 1
      /\ \A k \in DOMAIN t : k + 1 \in DOMAIN s /\ t[k] = s[k + 1]
      /\ \A k \in DOMAIN s : k = 1 \/ (k - 1 \in DOMAIN t /\ t[k - 1] = s[k])
      /\ Head(s) = s[1]
  BY RestOf
<1> HIDE DEF t
<1>2. ASSUME NEW k \in DOMAIN t, GoesOn(s, k + 1) PROVE GoesOn(t, k)
  <2>1. PICK m \in DOMAIN s : m > k + 1 /\ Carry(s[m])
    BY <1>2 DEF GoesOn
  <2>2. m - 1 \in DOMAIN t /\ m - 1 > k /\ t[m - 1] = s[m]
    BY <1>1, <2>1
  <2>3. QED
    BY <2>1, <2>2 DEF GoesOn
<1>3. ASSUME NEW k \in DOMAIN t, SentAhead(s, k + 1, sent) PROVE SentAhead(t, k, more)
  <2> SUFFICES ASSUME NEW i \in DOMAIN Pdfs, Pdfs[i] \notin more
               PROVE  \E m \in DOMAIN t : m < k /\ Pdfs[i] \in ChainOf(t[m])
    BY DEF SentAhead
  <2>1. PICK m \in DOMAIN s : m < k + 1 /\ Pdfs[i] \in ChainOf(s[m])
    BY <1>3 DEF SentAhead
  <2>2. m # 1
    BY <1>1, <2>1
  <2>3. m - 1 \in DOMAIN t /\ m - 1 < k /\ t[m - 1] = s[m]
    BY <1>1, <2>1, <2>2
  <2>4. QED
    BY <2>1, <2>3
<1>4. ASSUME NEW k \in DOMAIN t
      PROVE  /\ t[k].op = "set_status" /\ t[k].extra.status = "resolvido" => SentAhead(t, k, more)
             /\ t[k].op = "set_status" /\ t[k].job = Item => GoesOn(t, k)
             /\ t[k].op = "clear_failed" /\ t[k].job = Item
                   => GoesOn(t, k) \/ SentAhead(t, k, more)
             /\ t[k].op = "look" => k = Len(t)
  <2>1. k \in Nat /\ k + 1 \in DOMAIN s /\ t[k] = s[k + 1]
    BY <1>1
  <2>2. t[k].op = "look" => k = Len(t)
    BY <1>1, <2>1 DEF WellFormed
  <2>3. QED
    BY <1>2, <1>3, <2>1, <2>2 DEF WellFormed
<1> HIDE DEF more
<1>5. QED
  BY <1>4 DEF WellFormed, t, more

\* It is still promised when more chains are sent.
LEMMA MoreSent ==
    ASSUME NEW calls, NEW sent, NEW more, sent \subseteq more, WellFormed(calls, sent)
    PROVE  WellFormed(calls, more)
<1>1. \A k : SentAhead(calls, k, sent) => SentAhead(calls, k, more)
  BY DEF SentAhead
<1>2. QED
  BY <1>1 DEF WellFormed

\* Every program keeps its promises from the start.
LEMMA ProgramsWellFormed ==
    ASSUME ItemAssumption, NEW calls, IsProgram(calls), NEW sent
    PROVE  WellFormed(calls, sent)
<1>1. \A j \in Documents : j # Item
  BY DEF Documents, ItemAssumption
<1>2. calls \in Seq(Statements)
  BY ProgramsTyped
<1>3. CASE calls = EnqueueItemPdfs
  <2>1. \A k \in DOMAIN calls : calls[k] \in Statements /\ calls[k].job \in Documents
    BY <1>2, <1>3, EnqueueFacts
  <2>2. \A c \in Statements : c.op = "look" => c.job = Item
    BY DEF Statements
  <2>3. QED
    BY <1>1, <1>2, <2>1, <2>2, OthersWellFormed
<1>4. CASE calls = Resolved
  <2> DEFINE n == Len(EnqueueItemPdfs)  s == EnqueueItemPdfs
  <2>1. /\ n \in Nat /\ DOMAIN s = 1 .. n /\ DOMAIN calls = 1 .. (n + 2)
        /\ \A k \in 1 .. n : calls[k] = s[k]
        /\ calls[n + 1] = SetStatus(Item, [status |-> "resolvido", due |-> "none"])
        /\ calls[n + 2] = ClearFailed(Item)
    BY <1>4, ResolvedFacts
  <2>2. /\ \A k \in DOMAIN s : s[k] \in Statements /\ s[k].job \in Documents
        /\ \A i \in DOMAIN Pdfs : 3 * i \in DOMAIN s /\ s[3 * i] = Send("chain", Pdfs[i], 0)
    BY EnqueueFacts
  <2>3. \A i \in DOMAIN Pdfs : i \in Nat
    BY DEF ItemAssumption
  <2> HIDE DEF n, s
  <2>4. \A k \in 1 .. n : calls[k].job # Item /\ calls[k].op # "look"
    <3>1. \A c \in Statements : c.op = "look" => c.job = Item
      BY DEF Statements
    <3>2. QED
      BY <1>1, <2>1, <2>2, <3>1
  <2>5. \A k \in 1 .. n : ~(calls[k].op = "set_status" /\ calls[k].extra.status = "resolvido")
    <3>1. \A c \in Statements :
              c.op = "set_status" /\ c.extra.status = "resolvido" => c.job = Item
      BY StatementFacts
    <3>2. QED
      BY <1>1, <2>1, <2>2, <3>1
  <2>6. \A k \in {n + 1, n + 2} : SentAhead(calls, k, sent)
    <3> SUFFICES ASSUME NEW k \in {n + 1, n + 2}, NEW i \in DOMAIN Pdfs
                 PROVE  \E m \in DOMAIN calls : m < k /\ Pdfs[i] \in ChainOf(calls[m])
      BY DEF SentAhead
    <3>1. 3 * i \in 1 .. n
      BY <2>1, <2>2
    <3>2. 3 * i < k /\ 3 * i \in DOMAIN calls
      BY <2>1, <2>3, <3>1
    <3>3. calls[3 * i] = Send("chain", Pdfs[i], 0)
      BY <2>1, <2>2, <3>1
    <3>4. Pdfs[i] \in ChainOf(calls[3 * i])
      BY <3>3 DEF ChainOf, Send
    <3>5. QED
      BY <3>2, <3>4
  <2>7. GoesOn(calls, n + 1)
    <3>1. Carry(calls[n + 2])
      BY <2>1 DEF Carry, ClearFailed
    <3>2. n + 2 \in DOMAIN calls /\ n + 2 > n + 1
      BY <2>1
    <3>3. QED
      BY <3>1, <3>2 DEF GoesOn
  <2>8. calls[n + 1].op = "set_status" /\ calls[n + 2].op = "clear_failed"
    BY <2>1 DEF SetStatus, ClearFailed
  <2>9. \A k \in DOMAIN calls : k \in 1 .. n \/ k = n + 1 \/ k = n + 2
    BY <2>1
  <2>10. QED
    BY <2>4, <2>5, <2>6, <2>7, <2>8, <2>9 DEF WellFormed
<1>5. CASE calls = GivesUp
  <2>1. Carry(AddFailed(Item))
    BY DEF Carry, AddFailed
  <2>2. /\ DOMAIN calls = {1, 2} /\ calls[2] = AddFailed(Item)
        /\ calls[1] = SetStatus(Item, [status |-> "erro", due |-> "none"])
    BY <1>5 DEF GivesUp
  <2>3. GoesOn(calls, 1)
    BY <2>1, <2>2 DEF GoesOn
  <2>4. QED
    BY <2>2, <2>3 DEF WellFormed, AddFailed, SetStatus
<1>6. ASSUME NEW m \in Nat, calls = ScheduleItemResolution(m)
      PROVE  WellFormed(calls, sent)
  <2>1. Carry(Send("resolve", Item, m + 1))
    BY DEF Carry, Send
  <2>2. /\ DOMAIN calls = {1, 2, 3} /\ calls[3] = Send("resolve", Item, m + 1)
        /\ calls[2] = ClearFailed(Item)
        /\ calls[1] = SetStatus(Item, [status |-> "na_fila", source |-> "pending", due |-> "ahead"])
    BY <1>6 DEF ScheduleItemResolution
  <2>3. GoesOn(calls, 1) /\ GoesOn(calls, 2)
    BY <2>1, <2>2 DEF GoesOn
  <2>4. QED
    BY <2>2, <2>3 DEF WellFormed, ClearFailed, SetStatus, Send
<1>7. ASSUME NEW msg \in Messages, calls = Starts(msg)
      PROVE  WellFormed(calls, sent)
  <2>1. /\ DOMAIN calls = {1, 2} /\ calls[2] = [op |-> msg.task, job |-> msg.job]
        /\ calls[1].op = "set_status" /\ calls[1].job = msg.job
        /\ calls[1].extra.status = "processando"
    BY <1>7 DEF Starts, SetStatus
  <2>2. msg.task \in {"chain", "resolve"}
    BY DEF Messages
  <2>3. msg.job = Item => GoesOn(calls, 1)
    BY <2>1, <2>2 DEF GoesOn, Carry
  <2>4. QED
    BY <2>1, <2>2, <2>3 DEF WellFormed
<1>8. ASSUME NEW j \in Documents, calls \in ChainEnds(j)
      PROVE  WellFormed(calls, sent)
  <2>1. \A k \in DOMAIN calls : calls[k].job # Item /\ calls[k].op # "look"
    BY <1>1, <1>8, ChainCalls
  <2>2. QED
    BY <1>2, <2>1, OthersWellFormed
<1>9. ASSUME NEW force, calls = <<[op |-> "look", job |-> Item, force |-> force]>>
      PROVE  WellFormed(calls, sent)
  <2>1. DOMAIN calls = {1} /\ Len(calls) = 1 /\ calls[1].op = "look"
    BY <1>9
  <2>2. QED
    BY <1>2, <2>1, OthersWellFormed
<1>10. ASSUME NEW j, NEW index, calls = <<ListIndex(j, index)>>
       PROVE  WellFormed(calls, sent)
  <2>1. DOMAIN calls = {1} /\ calls[1].op = "list"
    BY <1>10 DEF ListIndex
  <2>2. QED
    BY <1>2, <2>1, OthersWellFormed
<1>11. CASE calls = <<>>
  BY <1>11 DEF WellFormed
<1>12. QED
  BY <1>3, <1>4, <1>5, <1>6, <1>7, <1>8, <1>9, <1>10, <1>11 DEF IsProgram

\* Every step keeps what the calls that are left promise.
LEMMA ProgramNext ==
    ASSUME ItemAssumption, TypeOK, ProgramInv, [Next]_vars
    PROVE  ProgramInv' /\ chains \subseteq chains'
<1>1. Moved
  BY Moves
<1>2. CASE UNCHANGED <<todo, chains>>
  BY <1>2 DEF ProgramInv
<1>3. ASSUME NEW a \in Actors, Made(a)
      PROVE  ProgramInv' /\ chains \subseteq chains'
  <2>1. chains' = chains \cup ChainOf(Call(a)) /\ todo[a] # <<>> /\ todo[a] \in Seq(Statements)
    BY <1>3 DEF Made, TypeOK
  <2>2. WellFormed(Tail(todo[a]), chains')
    BY <2>1, TailWellFormed DEF ProgramInv, Call
  <2>3. ASSUME NEW b \in Actors PROVE WellFormed(todo'[b], chains')
    <3>1. CASE b = a
      BY <1>3, <2>2, <3>1 DEF Made, TypeOK
    <3>2. CASE b # a
      <4>1. todo'[b] = todo[b] /\ WellFormed(todo[b], chains)
        BY <1>3, <3>2 DEF Made, TypeOK, ProgramInv
      <4>2. QED
        BY <2>1, <4>1, MoreSent
    <3>3. QED
      BY <3>1, <3>2
  <2>4. QED
    BY <2>1, <2>3 DEF ProgramInv
<1>4. ASSUME NEW a \in Actors, Replaced(a)
      PROVE  ProgramInv' /\ chains \subseteq chains'
  <2>1. PICK calls : IsProgram(calls) /\ Does(a, calls)
    BY <1>4 DEF Replaced
  <2>2. UNCHANGED chains /\ WellFormed(calls, chains)
    BY <1>4, <2>1, ProgramsWellFormed DEF Replaced
  <2>3. QED
    BY <2>1, <2>2 DEF Does, ProgramInv, TypeOK
<1>5. QED
  BY <1>1, <1>2, <1>3, <1>4 DEF Moved

\* The first call is promised nothing by others before it.
LEMMA FirstSent ==
    ASSUME NEW s \in Seq(Statements), s # <<>>, SentAhead(s, 1, chains)
    PROVE  AllSent
BY RestOf DEF SentAhead, AllSent

----------------------------------------------------------------------------
(* An item that is resolved has its chains *)

\* What is about to be written says of the item what the call that writes it says.
CopyInv == \A a \in Actors :
    phase[a] = "put" => Get(copy[a], "status") = Call(a).extra.status
SentInv == ResolvedMeansSent /\ CopyInv

\* A merged record says what the update says, and else what the record said.
LEMMA GetMerged ==
    ASSUME NEW old, NEW extra, NEW f
    PROVE  Get(Merged(old, extra), f) = IF f \in DOMAIN extra THEN extra[f] ELSE Get(old, f)
BY DEF Get, Merged

\* A request of set_status keeps the copy of its record, and writes that the item is
\* resolved with its chains sent.
LEMMA SentStore ==
    ASSUME ItemAssumption, TypeOK, PhaseInv, ProgramInv, SentInv, NEW a \in Actors, StoreCall(a),
           UNCHANGED chains
    PROVE  SentInv'
<1>1. PICK up \in BOOLEAN :
          \/ ReadRecord(a, up) \/ WriteRecord(a, up)
          \/ TrackActive(a, up) \/ TrackSucceeded(a, up)
          \/ MarkFailed(a, up)
          \/ ResolveEntry(a, up) \/ Prune(a, up)
  BY DEF StoreCall
<1>2. \A b \in Actors \ {a} : /\ todo'[b] = todo[b] /\ phase'[b] = phase[b]
                              /\ copy'[b] = copy[b]
  BY <1>1 DEF ReadRecord, WriteRecord, TrackActive, TrackSucceeded, MarkFailed, ResolveEntry,
              Prune, Keeps, Goes, Returns, TypeOK
<1>3. todo[a] \in Seq(Statements) /\ todo[a] # <<>>
  BY <1>1 DEF ReadRecord, WriteRecord, TrackActive, TrackSucceeded, MarkFailed, ResolveEntry,
              Prune, Calls, TypeOK
<1>4. Call(a) \in Statements /\ 1 \in DOMAIN todo[a] /\ Call(a) = todo[a][1]
  BY <1>3, RestOf DEF Call
<1>5. ASSUME phase'[a] = "put" => Get(copy'[a], "status") = Call(a)'.extra.status
      PROVE  CopyInv'
  BY <1>2, <1>5 DEF SentInv, CopyInv, Call
<1>6. CASE ReadRecord(a, up)
  <2>1. "status" \in DOMAIN Call(a).extra
    BY <1>4, <1>6, StatementFacts DEF ReadRecord, Calls, Call
  <2>2. /\ Call(a)' = Call(a) /\ record' = record
        /\ copy'[a] = Merged(IF up THEN record[Call(a).job] ELSE <<>>, Call(a).extra)
    BY <1>6 DEF ReadRecord, Keeps, Call, TypeOK, redis
  <2>3. Get(copy'[a], "status") = Call(a)'.extra.status
    BY <2>1, <2>2, GetMerged
  <2>4. QED
    BY <1>5, <2>2, <2>3 DEF SentInv, ResolvedMeansSent, AllSent
<1>7. CASE WriteRecord(a, up)
  <2>1. Call(a).op = "set_status" /\ phase[a] = "put" /\ phase'[a] = "active"
    BY <1>7 DEF WriteRecord, Calls, Call, Goes, TypeOK
  <2>2. CopyInv'
    BY <1>5, <2>1
  <2>3. ASSUME Get(record'[Item], "status") = "resolvido" PROVE AllSent
    <3>1. CASE up /\ Call(a).job = Item
      <4>1. record'[Item] = copy[a]
        BY <1>7, <3>1 DEF WriteRecord, TypeOK, ItemAssumption
      <4>2. Call(a).extra.status = "resolvido"
        BY <2>1, <2>3, <4>1 DEF SentInv, CopyInv
      <4>3. SentAhead(todo[a], 1, chains)
        BY <1>4, <2>1, <4>2 DEF ProgramInv, WellFormed
      <4>4. QED
        BY <1>3, <4>3, FirstSent
    <3>2. CASE ~(up /\ Call(a).job = Item)
      <4>1. record'[Item] = record[Item]
        BY <1>7, <3>2 DEF WriteRecord, TypeOK
      <4>2. QED
        BY <2>3, <4>1 DEF SentInv, ResolvedMeansSent
    <3>3. QED
      BY <3>1, <3>2
  <2>4. QED
    BY <2>2, <2>3 DEF SentInv, ResolvedMeansSent, AllSent
<1>8. CASE \/ TrackActive(a, up) \/ TrackSucceeded(a, up) \/ MarkFailed(a, up)
           \/ ResolveEntry(a, up) \/ Prune(a, up)
  <2>1. record' = record
    BY <1>8 DEF TrackActive, TrackSucceeded, MarkFailed, ResolveEntry, Prune, redis
  <2>2. phase'[a] # "put"
    BY <1>8 DEF TrackActive, TrackSucceeded, MarkFailed, ResolveEntry, Prune, Goes, Returns, TypeOK
  <2>3. QED
    BY <1>5, <2>1, <2>2 DEF SentInv, ResolvedMeansSent, AllSent
<1>9. QED
  BY <1>1, <1>6, <1>7, <1>8

\* So does every step.
LEMMA SentNext ==
    ASSUME ItemAssumption, TypeOK, WorkInv, PhaseInv, ProgramInv, SentInv, [Next]_vars
    PROVE  SentInv'
<1>0. Workers \subseteq Actors /\ chains \subseteq chains'
  BY ProgramNext DEF ItemAssumption
<1>1. AllSent => AllSent'
  BY <1>0 DEF AllSent
<1>2. ASSUME record' = record,
             \A a \in Actors : phase'[a] = "put" => /\ phase[a] = "put" /\ copy'[a] = copy[a]
                                                    /\ todo'[a] = todo[a]
      PROVE  SentInv'
  BY <1>1, <1>2 DEF SentInv, ResolvedMeansSent, CopyInv, Call
<1>3. ASSUME UNCHANGED vars
      PROVE  SentInv'
  BY <1>2, <1>3 DEF vars, storeVars, redis
<1>4. ASSUME Assigned
      PROVE  SentInv'
  <2>1. PICK b \in Actors : phase[b] = "start" /\ Replaced(b)
    BY <1>4 DEF Assigned
  <2>2. \A a \in Actors : phase[a] # "start" => todo'[a] = todo[a]
    BY <2>1 DEF Replaced, Does, TypeOK
  <2>3. QED
    BY <1>2, <1>4, <2>2 DEF Assigned
<1>5. ASSUME NEW w \in Workers, Acknowledge(w)
      PROVE  SentInv'
  BY <1>2, <1>5 DEF Acknowledge, storeVars, redis
<1>6. ASSUME NEW a \in Actors, ApplyAsync(a)
      PROVE  SentInv'
  BY <1>2, <1>6 DEF ApplyAsync, Returns, redis, TypeOK
<1>7. ASSUME NEW a \in Actors, Stop(a)
      PROVE  SentInv'
  BY <1>2, <1>7 DEF Stop, redis, TypeOK
<1>8. ASSUME Overdue
      PROVE  SentInv'
  <2>1. Get(record'[Item], "status") = Get(record[Item], "status")
    BY <1>8 DEF Overdue, Get, TypeOK, ItemAssumption
  <2>2. QED
    BY <1>8, <2>1 DEF Overdue, SentInv, ResolvedMeansSent, AllSent, CopyInv, Call
<1>9. ASSUME \E a \in Actors : CallStore(a) \/ ApplyAsync(a) \/ Abort(a)
      PROVE  SentInv'
  BY <1>6, <1>7, <1>9, SentStore DEF CallStore, Abort
<1>10. ASSUME NEW w \in Workers, Acknowledge(w) \/ Die(w)
       PROVE  SentInv'
  BY <1>0, <1>5, <1>7, <1>10 DEF Die
<1>11. QED
  BY <1>3, <1>4, <1>8, <1>9, <1>10, Assignments DEF Next

\* The promises hold in every reachable state.
LEMMA ProgramsHold == Spec => []ProgramInv
<1>1. ItemAssumption
  BY ItemAssumption
<1>2. Init => ProgramInv
  BY DEF Init, InitStore, ProgramInv, WellFormed
<1>3. TypeOK /\ ProgramInv /\ [Next]_vars => ProgramInv'
  BY <1>1, ProgramNext
<1>4. QED
  BY <1>2, <1>3, TypesHold, PTL DEF Spec

\* An item is resolved only with its chains sent, for any number of documents,
\* requests, workers that die and messages that are delivered again.
THEOREM ResolvedMeansSentHolds == Spec => []ResolvedMeansSent
<1>1. ItemAssumption
  BY ItemAssumption
<1>2. Init => SentInv
  <2> SUFFICES ASSUME Init PROVE SentInv
    OBVIOUS
  <2>1. Get(record[Item], "status") = "none"
    BY <1>1 DEF Init, InitStore, Get, ItemAssumption
  <2>2. QED
    BY <2>1 DEF Init, InitStore, SentInv, ResolvedMeansSent, CopyInv
<1>3. TypeOK /\ WorkInv /\ PhaseInv /\ ProgramInv /\ SentInv /\ [Next]_vars => SentInv'
  BY <1>1, SentNext
<1>4. SentInv => ResolvedMeansSent
  BY DEF SentInv
<1>5. QED
  BY <1>2, <1>3, <1>4, HandsHold, ProgramsHold, PTL DEF Spec

----------------------------------------------------------------------------
(* A wait is not forgotten *)

Carries(a) == \E k \in DOMAIN todo[a] : Carry(todo[a][k])
Safe == AllSent \/ Asking \/ (\E a \in Actors : Carries(a)) \/ Item \in failed

\* An item that a client was told is waiting, or whose record would tell the next
\* client so, has its chains, or a message, or an actor at work, or is a failure
\* that is listed.
KeptInv ==
    errors = 0 /\ outages = 0 /\ (accepted \/ ItemWaitIsAlive(record[Item])) => Safe

\* Calls that are not the first are left when it is made.
LEMMA CarriesOn ==
    ASSUME TypeOK, NEW a \in Actors, Made(a),
           \/ ~Carry(Call(a)) /\ Carries(a)
           \/ GoesOn(todo[a], 1)
    PROVE  Carries(a)'
<1>1. /\ todo[a] \in Seq(Statements) /\ todo[a] # <<>> /\ Call(a) = todo[a][1]
      /\ todo'[a] = Tail(todo[a])
  BY RestOf DEF Made, TypeOK, Call
<1>2. PICK k \in DOMAIN todo[a] : k # 1 /\ Carry(todo[a][k])
  BY <1>1 DEF GoesOn, Carries
<1>3. k - 1 \in DOMAIN Tail(todo[a]) /\ Tail(todo[a])[k - 1] = todo[a][k]
  BY <1>1, <1>2, RestOf
<1>4. QED
  BY <1>1, <1>2, <1>3 DEF Carries

\* A wait that somebody else keeps on its way is not touched.
LEMMA OtherSafe ==
    ASSUME Safe, chains \subseteq chains',
           Asking => Asking',
           \A a \in Actors : Carries(a) => Carries(a)' \/ Asking',
           Item \in failed => Item \in failed'
    PROVE  Safe'
<1>1. AllSent => AllSent'
  BY DEF AllSent
<1>2. QED
  BY <1>1 DEF Safe

\* A call to the store, while Redis answers, leaves the item safe.
LEMMA SafeStore ==
    ASSUME ItemAssumption, TypeOK, PhaseInv, ProgramInv, Safe, NEW a \in Actors, CallStore(a),
           outages' = 0
    PROVE  Safe'
<1>0. UNCHANGED <<queue, chains>> /\ StoreCall(a)
  BY DEF CallStore
<1>1. PICK up \in BOOLEAN :
          \/ ReadRecord(a, up) \/ WriteRecord(a, up)
          \/ TrackActive(a, up) \/ TrackSucceeded(a, up)
          \/ MarkFailed(a, up)
          \/ ResolveEntry(a, up) \/ Prune(a, up)
  BY <1>0 DEF StoreCall
<1>2. up
  <2>1. Answers(up)
    BY <1>1 DEF ReadRecord, WriteRecord, TrackActive, TrackSucceeded, MarkFailed, ResolveEntry,
                Prune
  <2>2. outages \in Nat
    BY DEF TypeOK
  <2>3. QED
    BY <2>1, <2>2 DEF Answers
<1>3. todo[a] \in Seq(Statements) /\ todo[a] # <<>> /\ Call(a) = Head(todo[a])
  BY <1>1 DEF ReadRecord, WriteRecord, TrackActive, TrackSucceeded, MarkFailed, ResolveEntry,
              Prune, Calls, Call, TypeOK
<1>4. 1 \in DOMAIN todo[a] /\ Call(a) = todo[a][1]
  BY <1>3, RestOf
<1>5. Asking => Asking'
  BY <1>0 DEF Asking
<1>6. \A b \in Actors \ {a} : Carries(b) => Carries(b)'
  <2>1. \A b \in Actors \ {a} : todo'[b] = todo[b]
    BY <1>1 DEF ReadRecord, WriteRecord, TrackActive, TrackSucceeded, MarkFailed, ResolveEntry,
                Prune, Goes, Returns, TypeOK
  <2>2. QED
    BY <2>1 DEF Carries
<1>7. ASSUME Carries(a) => Carries(a)', Item \in failed => Item \in failed'
      PROVE  Safe'
  BY <1>0, <1>5, <1>6, <1>7, OtherSafe
<1>8. WellFormed(todo[a], chains)
  BY DEF ProgramInv
<1>9. ASSUME Carries(a)' PROVE Safe'
  BY <1>9 DEF Safe
<1>10. CASE UNCHANGED todo /\ failed' = failed
  BY <1>7, <1>10 DEF Carries
<1>11. CASE Returns(a) /\ failed' = failed /\ Call(a).op = "list"
  <2>1. Made(a)
    BY <1>0, <1>3, <1>11 DEF Made, Returns, ChainOf
  <2>2. QED
    BY <1>7, <1>11, <2>1, CarriesOn DEF Carry
<1>12. CASE TrackSucceeded(a, up)
  <2>1. Returns(a) /\ failed' = failed /\ Call(a).op = "set_status"
    BY <1>12 DEF TrackSucceeded, Calls, Call
  <2>2. Made(a)
    BY <1>0, <1>3, <2>1 DEF Made, Returns, ChainOf
  <2>3. Call(a).job = Item => GoesOn(todo[a], 1)
    BY <1>4, <1>8, <2>1 DEF WellFormed
  <2>4. QED
    BY <1>7, <2>1, <2>2, <2>3, CarriesOn DEF Carry
<1>13. CASE MarkFailed(a, up)
  <2>1. /\ Returns(a) /\ Call(a).op \in {"add_failed", "clear_failed"}
        /\ failed' = UpdateIndex(failed, Call(a).job, Call(a).op = "add_failed")
    BY <1>2, <1>13 DEF MarkFailed, Calls, Call
  <2>2. Made(a)
    BY <1>0, <1>3, <2>1 DEF Made, Returns, ChainOf
  <2>3. CASE Call(a).job # Item
    BY <1>7, <2>1, <2>2, <2>3, CarriesOn DEF Carry, UpdateIndex
  <2>4. CASE Call(a).job = Item /\ Call(a).op = "add_failed"
    BY <2>1, <2>4 DEF UpdateIndex, Safe
  <2>5. CASE Call(a).job = Item /\ Call(a).op = "clear_failed"
    <3>1. GoesOn(todo[a], 1) \/ SentAhead(todo[a], 1, chains)
      BY <1>4, <1>8, <2>5 DEF WellFormed
    <3>2. CASE GoesOn(todo[a], 1)
      BY <1>9, <2>2, <3>2, CarriesOn
    <3>3. CASE SentAhead(todo[a], 1, chains)
      BY <1>0, <1>3, <3>3, FirstSent DEF Safe, AllSent
    <3>4. QED
      BY <3>1, <3>2, <3>3
  <2>6. QED
    BY <2>1, <2>3, <2>4, <2>5
<1>14. ReadRecord(a, up) \/ WriteRecord(a, up) \/ TrackActive(a, up)
          => UNCHANGED todo /\ failed' = failed
  BY DEF ReadRecord, WriteRecord, TrackActive, redis
<1>15. ResolveEntry(a, up) \/ Prune(a, up)
          => \/ UNCHANGED todo /\ failed' = failed
             \/ Returns(a) /\ failed' = failed /\ Call(a).op = "list"
  BY DEF ResolveEntry, Prune, Calls, Call, redis
<1>16. QED
  BY <1>1, <1>10, <1>11, <1>12, <1>13, <1>14, <1>15

\* A message that is sent for the item asks for its resolution.
LEMMA SendAsks ==
    ASSUME ItemAssumption, TypeOK, NEW a \in Actors, ApplyAsync(a)
    PROVE  /\ Call(a).task = "resolve" => Asking'
           /\ Asking => Asking'
           /\ Carry(Call(a)) => Call(a).task = "resolve"
<1> DEFINE c == Call(a)
           msg == [task |-> c.task, job |-> c.job, attempt |-> c.attempt]
<1>1. todo[a] \in Seq(Statements) /\ todo[a] # <<>> /\ c.op = "send"
  BY DEF ApplyAsync, Calls, Call, TypeOK
<1>2. c \in Statements
  BY <1>1 DEF Call
<1>3. Carry(c) => c.task = "resolve"
  BY <1>1, <1>2, StatementFacts DEF Carry
<1>4. queue' = queue (+) SetToBag({msg}) /\ msg.task = c.task
  BY DEF ApplyAsync
<1> HIDE DEF msg
<1>5. queue \in [DOMAIN queue -> Nat \ {0}]
  BY DEF TypeOK
<1>6. DOMAIN queue' = DOMAIN queue \cup {msg}
  BY <1>4, <1>5, BagAdds
<1>7. (c.task = "resolve" => Asking') /\ (Asking => Asking')
  BY <1>4, <1>6 DEF Asking, BagToSet
<1>8. QED
  BY <1>3, <1>7

\* A message that is sent leaves the item safe.
LEMMA SafeSend ==
    ASSUME ItemAssumption, TypeOK, Safe, NEW a \in Actors, ApplyAsync(a)
    PROVE  Safe'
<1>1. /\ UNCHANGED failed
      /\ \A b \in Actors \ {a} : todo'[b] = todo[b]
  BY DEF ApplyAsync, Returns, redis, TypeOK
<1>2. Made(a) \/ UNCHANGED <<todo, chains>>
  BY CallKeeps
<1>3. CASE Call(a).task = "resolve"
  BY <1>3, SendAsks DEF Safe
<1>4. CASE Call(a).task # "resolve"
  <2>1. Carries(a) => Carries(a)'
    BY <1>2, <1>4, SendAsks, CarriesOn DEF Carries
  <2>2. \A b \in Actors : Carries(b) => Carries(b)'
    BY <1>1, <2>1 DEF Carries
  <2>3. chains \subseteq chains'
    BY <1>2 DEF Made
  <2>4. QED
    BY <1>1, <2>2, <2>3, SendAsks, OtherSafe
<1>5. QED
  BY <1>3, <1>4

\* A program that is given to an actor leaves the item safe when the calls that it
\* takes the place of did not carry the item, or when it carries the item itself.
LEMMA SafeReplaced ==
    ASSUME ItemAssumption, TypeOK, Safe, NEW a \in Actors, NEW calls, Does(a, calls),
           Carries(a) => \E k \in DOMAIN calls : Carry(calls[k]),
           UNCHANGED chains, Asking => Asking', failed' = failed
    PROVE  Safe'
<1>1. \A b \in Actors \ {a} : todo'[b] = todo[b]
  BY DEF Does, TypeOK
<1>2. todo'[a] = calls
  BY DEF Does, TypeOK
<1>3. \A b \in Actors : Carries(b) => Carries(b)'
  BY <1>1, <1>2 DEF Carries
<1>4. QED
  BY <1>3, OtherSafe

\* The calls by which an attempt at a resolution ends carry the item.
LEMMA ResolutionCarries ==
    ASSUME ItemAssumption, NEW n \in Nat, NEW calls \in {Resolved, StillWaits(n), GivesUp}
    PROVE  \E k \in DOMAIN calls : Carry(calls[k])
<1>1. 2 \in DOMAIN GivesUp /\ Carry(GivesUp[2])
  BY DEF GivesUp, AddFailed, Carry
<1>2. 2 \in DOMAIN ScheduleItemResolution(n) /\ Carry(ScheduleItemResolution(n)[2])
  BY DEF ScheduleItemResolution, ClearFailed, Carry
<1>3. \E k \in DOMAIN Resolved : Carry(Resolved[k])
  <2> DEFINE m == Len(EnqueueItemPdfs)
  <2>1. m \in Nat /\ DOMAIN Resolved = 1 .. (m + 2) /\ Resolved[m + 2] = ClearFailed(Item)
    BY ResolvedFacts
  <2> HIDE DEF m
  <2>2. m + 2 \in DOMAIN Resolved
    BY <2>1
  <2>3. QED
    BY <2>1, <2>2 DEF Carry, ClearFailed
<1>4. QED
  BY <1>1, <1>2, <1>3 DEF StillWaits

\* Requests do not take an item away from who carries it.
LEMMA SafeRequest ==
    ASSUME ItemAssumption, TypeOK, ProgramInv, Safe, NEW p \in Api,
           PostItem(p) \/ LookForWait(p) \/ ReprocessItem(p) \/ GetJobs(p)
    PROVE  Safe'
<1>1. p \in Actors
  BY DEF ItemAssumption
<1>2. PICK calls : Does(p, calls) /\ UNCHANGED chains
  BY RequestMoves DEF Replaced
<1>3. failed' = failed /\ queue' = queue
  BY DEF PostItem, LookForWait, ReprocessItem, GetJobs, Asked, redis
<1>4. Asking => Asking'
  BY <1>3 DEF Asking
<1>5. ~Carries(p)
  <2>1. CASE Asked(p)
    BY <2>1 DEF Asked, Carries
  <2>2. CASE LookForWait(p)
    <3>1. todo[p] \in Seq(Statements) /\ todo[p] # <<>> /\ Head(todo[p]).op = "look"
      BY <1>1, <2>2 DEF LookForWait, Calls, TypeOK
    <3>2. /\ 1 \in DOMAIN todo[p] /\ todo[p][1].op = "look"
          /\ DOMAIN todo[p] = 1 .. Len(todo[p])
      BY <3>1, RestOf
    <3>3. Len(todo[p]) = 1
      BY <1>1, <3>2 DEF ProgramInv, WellFormed
    <3>4. QED
      BY <3>2, <3>3 DEF Carries, Carry
  <2>3. QED
    BY <2>1, <2>2 DEF PostItem, ReprocessItem, GetJobs
<1>6. QED
  BY <1>1, <1>2, <1>3, <1>4, <1>5, SafeReplaced

\* A worker that takes the message of the item carries it.
LEMMA SafeTake ==
    ASSUME ItemAssumption, TypeOK, WorkInv, Safe, NEW w \in Workers, Take(w)
    PROVE  Safe'
<1>1. w \in Actors
  BY DEF ItemAssumption
<1>2. PICK msg \in DOMAIN queue :
          /\ held[w] = NoMessage
          /\ queue' = queue (-) SetToBag({msg})
          /\ Does(w, Starts(msg))
  BY DEF Take, BagToSet
<1>3. UNCHANGED <<chains, failed>>
  BY DEF Take, redis
<1>4. msg \in Messages /\ queue \in [DOMAIN queue -> Nat \ {0}]
  BY <1>2 DEF TypeOK
<1>5. DOMAIN queue \ {msg} \subseteq DOMAIN queue'
  BY <1>2, <1>4, BagTakes
<1>6. CASE msg.task = "resolve"
  <2>1. todo'[w] = Starts(msg) /\ msg.job = Item
    BY <1>1, <1>2, <1>4, <1>6 DEF Does, TypeOK, Messages
  <2>2. 2 \in DOMAIN Starts(msg) /\ Starts(msg)[2] = [op |-> msg.task, job |-> msg.job]
    BY DEF Starts
  <2>3. Carry(Starts(msg)[2])
    BY <1>6, <2>1, <2>2 DEF Carry
  <2>4. Carries(w)'
    BY <2>1, <2>2, <2>3 DEF Carries
  <2>5. QED
    BY <1>1, <2>4 DEF Safe
<1>7. CASE msg.task # "resolve"
  <2>1. Asking => Asking'
    BY <1>5, <1>7 DEF Asking, BagToSet
  <2>2. ~Carries(w)
    BY <1>2 DEF WorkInv, WorkOf, Carries
  <2>3. QED
    BY <1>1, <1>2, <1>3, <2>1, <2>2, SafeReplaced
<1>8. QED
  BY <1>6, <1>7

\* A worker goes on with the item, or is busy with a document.
LEMMA SafeContinues ==
    ASSUME ItemAssumption, TypeOK, WorkInv, Safe, NEW w \in Workers, Continues(w)
    PROVE  Safe'
<1>1. w \in Actors
  BY DEF ItemAssumption
<1>2. UNCHANGED <<chains, failed, queue>>
  BY DEF Continues, redis
<1>3. Asking => Asking'
  BY <1>2 DEF Asking
<1>4. CASE Calls(w, "resolve") /\
           \E calls \in {Resolved, StillWaits(held[w].attempt), GivesUp} : Does(w, calls)
  <2>1. PICK calls \in {Resolved, StillWaits(held[w].attempt), GivesUp} : Does(w, calls)
    BY <1>4
  <2>2. held[w].attempt \in Nat
    BY DEF TypeOK, Messages, NoMessage
  <2>3. \E k \in DOMAIN calls : Carry(calls[k])
    BY <2>2, ResolutionCarries
  <2>4. QED
    BY <1>1, <1>2, <1>3, <2>1, <2>3, SafeReplaced
<1>5. CASE Calls(w, "chain") /\ \E calls \in ChainEnds(Call(w).job) : Does(w, calls)
  <2>1. todo[w] \in Seq(Statements) /\ todo[w] # <<>> /\ Call(w).op = "chain"
    BY <1>1, <1>5 DEF Calls, Call, TypeOK
  <2>2. 1 \in DOMAIN todo[w] /\ todo[w][1].op = "chain"
    BY <2>1, RestOf DEF Call
  <2>3. held[w] \in Messages /\ WorkOf(held[w], todo[w])
    BY <2>1 DEF WorkInv, WorkOf, TypeOK
  <2>4. held[w].task = "chain"
    BY <2>2, <2>3 DEF WorkOf, Messages
  <2>5. ~Carries(w)
    BY <2>3, <2>4 DEF WorkOf, Carries, Carry
  <2>6. PICK calls \in ChainEnds(Call(w).job) : Does(w, calls)
    BY <1>5
  <2>7. QED
    BY <1>1, <1>2, <1>3, <2>5, <2>6, SafeReplaced
<1>6. QED
  BY <1>4, <1>5 DEF Continues

\* When a worker that carries the item dies, its message is delivered again.
LEMMA SafeDie ==
    ASSUME ItemAssumption, TypeOK, WorkInv, Safe, NEW w \in Workers, Die(w)
    PROVE  Safe'
<1>1. w \in Actors
  BY DEF ItemAssumption
<1>2. /\ held[w] \in Messages /\ Does(w, <<>>) /\ UNCHANGED <<chains, failed>>
      /\ queue' = queue (+) SetToBag({held[w]})
  BY DEF Die, Stop, Does, TypeOK, redis
<1>3. queue \in [DOMAIN queue -> Nat \ {0}]
  BY DEF TypeOK
<1>4. DOMAIN queue' = DOMAIN queue \cup {held[w]}
  BY <1>2, <1>3, BagAdds
<1>5. Asking => Asking'
  BY <1>4 DEF Asking, BagToSet
<1>6. CASE held[w].task = "resolve"
  <2>1. Asking'
    BY <1>4, <1>6 DEF Asking, BagToSet
  <2>2. QED
    BY <2>1 DEF Safe
<1>7. CASE held[w].task = "chain"
  <2>1. ~Carries(w)
    BY <1>7 DEF WorkInv, WorkOf, Carries, Carry
  <2>2. QED
    BY <1>1, <1>2, <1>5, <2>1, SafeReplaced
<1>8. QED
  BY <1>2, <1>6, <1>7 DEF Messages

\* Faults are counted.
LEMMA FaultsGrow ==
    ASSUME TypeOK, [Next]_vars
    PROVE  errors' >= errors /\ outages' >= outages
<1>1. {errors, outages} \subseteq Nat
  BY DEF TypeOK
<1>2. \A up : Answers(up) => outages' >= outages
  BY <1>1 DEF Answers
<1>3. ASSUME UNCHANGED vars \/ Overdue
      PROVE  errors' >= errors /\ outages' >= outages
  BY <1>1, <1>3 DEF vars, storeVars, Overdue
<1>4. ASSUME NEW p \in Api, PostItem(p) \/ LookForWait(p) \/ ReprocessItem(p) \/ GetJobs(p)
      PROVE  errors' >= errors /\ outages' >= outages
  <2>1. errors' = errors
    BY <1>4 DEF PostItem, LookForWait, ReprocessItem, GetJobs, Asked
  <2>2. outages' = outages \/ \E up : Answers(up)
    BY <1>4 DEF PostItem, LookForWait, ReprocessItem, GetJobs, Asked
  <2>3. QED
    BY <1>1, <1>2, <2>1, <2>2
<1>5. ASSUME NEW w \in Workers, Take(w) \/ Continues(w) \/ Acknowledge(w) \/ Die(w)
      PROVE  errors' >= errors /\ outages' >= outages
  <2>1. errors' = errors /\ outages' = outages
    BY <1>5 DEF Take, Continues, Acknowledge, storeVars, Die, Stop
  <2>2. QED
    BY <1>1, <2>1
<1>6. ASSUME NEW a \in Actors, CallStore(a)
      PROVE  errors' >= errors /\ outages' >= outages
  BY <1>1, <1>2, <1>6 DEF CallStore, StoreCall, ReadRecord, WriteRecord, TrackActive,
                          TrackSucceeded, MarkFailed, ResolveEntry, Prune
<1>7. ASSUME NEW a \in Actors, ApplyAsync(a) \/ Abort(a)
      PROVE  errors' >= errors /\ outages' >= outages
  BY <1>1, <1>7 DEF ApplyAsync, Abort, Stop
<1>8. QED
  BY <1>3, <1>4, <1>5, <1>6, <1>7 DEF Next

\* A client may be told that the item is waiting, or was told so.
Told == accepted \/ ItemWaitIsAlive(record[Item])

\* The record of the item is written by who carries it, and a message is sent before
\* the client is told.
LEMMA ToldStore ==
    ASSUME ItemAssumption, TypeOK, NEW a \in Actors, CallStore(a), Told'
    PROVE  Told \/ Safe'
<1>1. accepted' = accepted /\ StoreCall(a)
  BY DEF CallStore
<1>2. PICK up \in BOOLEAN :
          \/ ReadRecord(a, up) \/ WriteRecord(a, up)
          \/ TrackActive(a, up) \/ TrackSucceeded(a, up)
          \/ MarkFailed(a, up)
          \/ ResolveEntry(a, up) \/ Prune(a, up)
  BY <1>1 DEF StoreCall
<1>3. CASE record'[Item] = record[Item]
  BY <1>1, <1>3 DEF Told, ItemWaitIsAlive
<1>4. CASE record'[Item] # record[Item]
  <2>1. WriteRecord(a, up)
    BY <1>2, <1>4 DEF ReadRecord, TrackActive, TrackSucceeded, MarkFailed, ResolveEntry, Prune,
                      redis
  <2>2. Call(a).job = Item /\ Call(a).op = "set_status" /\ UNCHANGED todo
    BY <1>4, <2>1 DEF WriteRecord, Calls, Call, TypeOK
  <2>3. todo[a] \in Seq(Statements) /\ todo[a] # <<>>
    BY <2>1 DEF WriteRecord, Calls, TypeOK
  <2>4. 1 \in DOMAIN todo'[a] /\ Carry(todo'[a][1])
    BY <2>2, <2>3, RestOf DEF Carry, Call
  <2>5. QED
    BY <2>4 DEF Safe, Carries
<1>5. QED
  BY <1>3, <1>4

\* While nothing failed, every step leaves a wait that was announced safe.
LEMMA KeptNext ==
    ASSUME ItemAssumption, TypeOK, WorkInv, PhaseInv, ProgramInv, KeptInv, [Next]_vars
    PROVE  KeptInv'
<1> SUFFICES ASSUME errors' = 0, outages' = 0, Told' PROVE Safe'
  BY DEF KeptInv, Told
<1>0. Workers \subseteq Actors
  BY DEF ItemAssumption
<1>1. errors = 0 /\ outages = 0
  BY FaultsGrow DEF TypeOK
<1>2. Told => Safe
  BY <1>1 DEF KeptInv, Told
<1>3. ASSUME UNCHANGED vars
      PROVE  Safe'
  BY <1>2, <1>3 DEF vars, storeVars, redis, Told, ItemWaitIsAlive, Safe, AllSent, Asking, Carries
<1>4. ASSUME Overdue
      PROVE  Safe'
  <2>1. /\ record'[Item] = [record[Item] EXCEPT !.due = "past"]
        /\ UNCHANGED <<accepted, chains, queue, todo, failed>>
    BY <1>4 DEF Overdue, TypeOK, ItemAssumption
  <2>2. Get(record'[Item], "due") # "ahead"
    BY <2>1 DEF Get
  <2>3. Told
    BY <2>1, <2>2 DEF Told, ItemWaitIsAlive
  <2>4. QED
    BY <1>2, <2>1, <2>3 DEF Safe, AllSent, Asking, Carries
<1>5. ASSUME NEW p \in Api, PostItem(p) \/ LookForWait(p) \/ ReprocessItem(p) \/ GetJobs(p)
      PROVE  Safe'
  <2>1. record' = record /\ (accepted' = accepted \/ ItemWaitIsAlive(record[Item]))
    BY <1>5 DEF PostItem, LookForWait, ReprocessItem, GetJobs, Asked, redis
  <2>2. Told
    BY <2>1 DEF Told, ItemWaitIsAlive
  <2>3. QED
    BY <1>2, <1>5, <2>2, SafeRequest
<1>6. ASSUME NEW w \in Workers, Take(w) \/ Continues(w) \/ Acknowledge(w) \/ Die(w)
      PROVE  Safe'
  <2>1. record' = record /\ accepted' = accepted
    BY <1>6 DEF Take, Continues, Acknowledge, storeVars, Die, Stop, redis
  <2>2. Safe
    BY <1>2, <2>1 DEF Told, ItemWaitIsAlive
  <2>3. CASE Acknowledge(w)
    BY <2>2, <2>3 DEF Acknowledge, storeVars, redis, Safe, AllSent, Asking, Carries
  <2>4. QED
    BY <1>6, <2>2, <2>3, SafeTake, SafeContinues, SafeDie
<1>7. ASSUME NEW a \in Actors, CallStore(a)
      PROVE  Safe'
  BY <1>2, <1>7, ToldStore, SafeStore
<1>8. ASSUME NEW a \in Actors, ApplyAsync(a)
      PROVE  Safe'
  <2>1. /\ record' = record
        /\ accepted' = (accepted \/ (a \in Api /\ Call(a).task = "resolve"))
    BY <1>8 DEF ApplyAsync, redis
  <2>2. CASE Told
    BY <1>2, <1>8, <2>2, SafeSend
  <2>3. CASE ~Told
    <3>1. Call(a).task = "resolve"
      BY <2>1, <2>3 DEF Told, ItemWaitIsAlive
    <3>2. Asking'
      BY <1>8, <3>1, SendAsks
    <3>3. QED
      BY <3>2 DEF Safe
  <2>4. QED
    BY <2>2, <2>3
<1>9. ASSUME NEW a \in Actors, Abort(a)
      PROVE  Safe'
  BY <1>1, <1>9 DEF Abort
<1>10. ASSUME \E p \in Api : PostItem(p) \/ LookForWait(p) \/ ReprocessItem(p) \/ GetJobs(p)
       PROVE  Safe'
  BY <1>5, <1>10
<1>11. ASSUME \E w \in Workers : Take(w) \/ Continues(w) \/ Acknowledge(w) \/ Die(w)
       PROVE  Safe'
  BY <1>6, <1>11
<1>12. ASSUME \E a \in Actors : CallStore(a) \/ ApplyAsync(a) \/ Abort(a)
       PROVE  Safe'
  BY <1>7, <1>8, <1>9, <1>12
<1>13. QED
  BY <1>3, <1>4, <1>10, <1>11, <1>12 DEF Next

\* A wait is not forgotten: for any requests, workers that die, attempts and orders
\* of the steps, while the broker, the API and Redis answer, an item that a client
\* was told is waiting has its chains, or is on its way, or is a failure that is
\* listed.
THEOREM WaitNotForgottenHolds == Spec => []WaitNotForgotten
<1>1. ItemAssumption
  BY ItemAssumption
<1>2. Init => KeptInv
  <2> SUFFICES ASSUME Init PROVE KeptInv
    OBVIOUS
  <2>1. Get(record[Item], "source") = "none"
    BY <1>1 DEF Init, InitStore, Get, ItemAssumption
  <2>2. QED
    BY <2>1 DEF Init, KeptInv, ItemWaitIsAlive
<1>3. TypeOK /\ WorkInv /\ PhaseInv /\ ProgramInv /\ KeptInv /\ [Next]_vars => KeptInv'
  BY <1>1, KeptNext
<1>4. KeptInv => WaitNotForgotten
  <2>1. ASSUME NEW a \in Actors, Carries(a) PROVE Resolving(a)
    BY <2>1 DEF Carries, Carry, Resolving
  <2>2. Safe => AllSent \/ Asking \/ InProgress \/ Item \in failed
    BY <2>1 DEF Safe, InProgress
  <2>3. QED
    BY <2>2 DEF KeptInv, WaitNotForgotten
<1>5. QED
  BY <1>2, <1>3, <1>4, HandsHold, ProgramsHold, PTL DEF Spec
=============================================================================
