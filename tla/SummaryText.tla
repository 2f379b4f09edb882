----------------------------- MODULE SummaryText -----------------------------
(* What a summary is made of (backend/services/summary_service.py): the evidence that is
   retrieved and numbered, and the sanitising of what the model answers.  A chunk is the
   document it is of and its text (with its page); an answer is a sequence of words,
   citations, tags and delimiters of reasoning, each at its place. *)
EXTENDS Naturals, Sequences, FiniteSets, SequencesExt

CONSTANTS
    Uuids,           \* the uuids a request may name, a blank one among them
    ChunkTexts,      \* the texts of chunks, a blank one among them
    Words,           \* what an answer is made of: [is, n]
    MaxPerDocument,  \* MAX_CHUNKS_PER_DOCUMENT
    AnswerLength, ListLength   \* bounds: of an answer, of every other list

ASSUME SummaryTextAssumption == MaxPerDocument \in Nat \ {0} /\ ListLength \in Nat /\ AnswerLength \in Nat

Blank == ""
Lists(S, n) == UNION {[1 .. k -> S] : k \in 0 .. n}

(* -------------------------------- evidence --------------------------------- *)
UniqueOne(out, d) == IF d = Blank \/ Contains(out, d) THEN out ELSE Append(out, d)
UniqueDocuments(documents) == FoldLeft(UniqueOne, <<>>, documents)

(* SemanticSearch looks whether the embedder, Qdrant and the collection are there until they
   once are, and not after. *)
EnsureConnected(available, up) == available \/ (up.embedder /\ up.qdrant /\ up.collection)

(* The payloads of the points that rank first, at most `limit`. *)
QueryPoints(limit) == Lists(ChunkTexts, limit)

(* Without a connection, and after a query that fails (it embeds, then asks Qdrant), there is
   no point and no error. *)
SearchPoints(available, up, limit) ==
    IF EnsureConnected(available, up) /\ up.embedder /\ up.qdrant
    THEN {<<>>} \cup QueryPoints(limit) ELSE {<<>>}

(* The chunks with the role that is asked for or, when there are none, all. *)
SearchPointsFiltered(withRole, all) == IF withRole # <<>> THEN withRole ELSE all

(* A query of its own for every document, in the order of the request. *)
RetrieveOne(d, found) == [j \in DOMAIN found[d] |-> [doc |-> d, text |-> found[d][j]]]
RetrievePerDocument(docs, found) == FoldLeft(LAMBDA out, d : out \o RetrieveOne(d, found), <<>>, docs)

(* The number of an evidence is its place. *)
DedupOne(out, p, capped) ==
    IF \/ p.text = Blank \/ Contains(out, p)
       \/ capped /\ Cardinality({i \in DOMAIN out : out[i].doc = p.doc}) >= MaxPerDocument
    THEN out ELSE Append(out, p)
DedupAndNumber(points, capped) == FoldLeft(LAMBDA out, p : DedupOne(out, p, capped), <<>>, points)

(* The documents of the client bring their own limit; a search of all is capped. *)
EvidencesOf(documents, found, all) ==
    LET docs == UniqueDocuments(documents) IN
    IF docs # <<>> THEN DedupAndNumber(RetrievePerDocument(docs, found), FALSE)
                   ELSE DedupAndNumber(all, TRUE)

(* -------------------------------- sanitising ------------------------------- *)
Has(text, is) == \E i \in DOMAIN text : text[i].is = is

(* re.sub of open .*? close: from the left, up to the first close; what is never closed
   stays. *)
RemoveOne(acc, t, open, close) ==
    IF acc.held # <<>> THEN [acc EXCEPT !.held = IF t.is = close THEN <<>> ELSE Append(@, t)]
    ELSE IF t.is = open THEN [acc EXCEPT !.held = <<t>>]
    ELSE [acc EXCEPT !.out = Append(@, t)]
RemoveBlocks(text, open, close) ==
    LET end == FoldLeft(LAMBDA acc, t : RemoveOne(acc, t, open, close),
                        [out |-> <<>>, held |-> <<>>], text)
    IN end.out \o end.held
AfterLast(text, is) ==
    LET from == {i \in 0 .. Len(text) : \A j \in i + 1 .. Len(text) : text[j].is # is}
    IN SubSeq(text, (CHOOSE i \in from : \A j \in from : i <= j) + 1, Len(text))
BeforeFirst(text, is) ==
    LET upto == {i \in 0 .. Len(text) : \A j \in 1 .. i : text[j].is # is}
    IN SubSeq(text, 1, CHOOSE i \in upto : \A j \in upto : j <= i)

StripDelimiters(text) ==
    IF Has(text, "begin") /\ Has(text, "end") THEN RemoveBlocks(text, "begin", "end")
    ELSE IF Has(text, "end") THEN AfterLast(text, "end")
    ELSE BeforeFirst(text, "begin")
StripBlocksOnly(text) == RemoveBlocks(StripDelimiters(text), "open", "close")
(* Closed blocks; all before a close without its open; all after an open without close. *)
StripReasoning(text) ==
    BeforeFirst(AfterLast(RemoveBlocks(StripDelimiters(text), "open", "close"), "close"), "open")

CiteOne(out, t, max) == IF t.is = "cite" => t.n \in 1 .. max THEN Append(out, t) ELSE out
StripInvalidCitations(text, max) == FoldLeft(LAMBDA out, t : CiteOne(out, t, max), <<>>, text)
Sanitize(raw, max) == StripInvalidCitations(StripReasoning(raw), max)

(* A tag is left, or too much of the text is in a script that was not asked for.  (The
   white space around a citation goes with it here; the code keeps it.) *)
Contaminated(text) == Has(text, "open") \/ Has(text, "close") \/ Has(text, "cjk")
Usable(text) == text # <<>> /\ ~Contaminated(text)

(* ------------------- every retrieval, every answer within the bounds ------- *)
NamedUuids == {d \in Uuids : d # Blank}
Point == [doc : NamedUuids, text : ChunkTexts]
QueryAnswers ==
    UNION {SearchPoints(available, up, ListLength) :
              available \in BOOLEAN, up \in [{"embedder", "qdrant", "collection"} -> BOOLEAN]}
Brought == {SearchPointsFiltered(w, a) : w, a \in QueryAnswers}
Retrievals ==
    [documents : Lists(Uuids, ListLength), found : [NamedUuids -> Brought], all : {<<>>}]
      \cup [documents : {<<>>}, found : {[d \in NamedUuids |-> <<>>]},
            all : Lists(Point, ListLength)]
Evidences == {EvidencesOf(r.documents, r.found, r.all) : r \in Retrievals}
RawAnswers == {[i \in DOMAIN a |-> [at |-> i, is |-> a[i].is, n |-> a[i].n]] : a \in Lists(Words, AnswerLength)}

Counts == {Len(e) : e \in Evidences}
FoundSome == {n > 0 : n \in Counts}
AnswersUsable == {Usable(Sanitize(raw, max)) : raw \in RawAnswers, max \in Counts \ {0}}

(* ------------------------------ what is promised --------------------------- *)
(* Place i is within a block: one that is open before it, and has not had as many closes
   as opens since. *)
HowMany(raw, j, k, is) == Cardinality({m \in j .. k : raw[m].is = is})
Enclosed(raw, i, open, close) ==
    \E j \in 1 .. i - 1 : \A k \in j .. i - 1 : HowMany(raw, j, k, close) < HowMany(raw, j, k, open)
(* Reasoning (the docstring of _strip_reasoning): what a block encloses, also one that is
   never closed, and all that is before a close without an open of its own. *)
Reasoning(raw, i, open, close) ==
    \/ Enclosed(raw, i + 1, open, close)
    \/ \E j \in i .. Len(raw) : raw[j].is = close /\ ~Enclosed(raw, j, open, close)
(* The answer is cut within a block in which another one was closed: its last close leaves
   a block open. *)
Unfinished(raw, open, close) ==
    \E j \in DOMAIN raw : /\ raw[j].is = close /\ Enclosed(raw, j + 1, open, close)
                          /\ \A k \in j + 1 .. Len(raw) : raw[k].is # close

(* The answers of a model that marks its reasoning in one way and, with delimiters that
   are not tags, closes once every one it opens. *)
Consistent(raw) ==
    /\ ~((Has(raw, "open") \/ Has(raw, "close")) /\ (Has(raw, "begin") \/ Has(raw, "end")))
    /\ Has(raw, "begin") /\ Has(raw, "end") =>
          /\ \A i \in DOMAIN raw : raw[i].is \in {"begin", "end"} =>
                (raw[i].is = "end" <=> Enclosed(raw, i, "begin", "end"))
          /\ ~Enclosed(raw, Len(raw) + 1, "begin", "end")

(* Some of the reasoning is in what is made of the answer. *)
Leaks(raw, max) ==
    LET text == Sanitize(raw, max) IN
    \E i \in DOMAIN text : \/ Reasoning(raw, text[i].at, "open", "close")
                           \/ Reasoning(raw, text[i].at, "begin", "end")

(* No word of the model's reasoning is left, however its tags nest and wherever the answer
   is cut but in a block around one that was closed, and every citation left has its
   evidence. *)
CleanText ==
    \A raw \in RawAnswers, max \in Counts :
        LET text == Sanitize(raw, max) IN
        /\ \A i \in DOMAIN text : text[i].is = "cite" => text[i].n \in 1 .. max
        /\ Consistent(raw) /\ ~Unfinished(raw, "open", "close") => ~Leaks(raw, max)

(* No evidence is numbered twice; those of the documents of a request are together, in its
   order, and none that a query brought is missing. *)
DistinctEvidence ==
    \A r \in Retrievals :
        LET e == EvidencesOf(r.documents, r.found, r.all)
            Asked(d) == CHOOSE i \in DOMAIN r.documents :
                           r.documents[i] = d /\ \A j \in 1 .. i - 1 : r.documents[j] # d
        IN /\ \A i, j \in DOMAIN e : i < j => e[i] # e[j]
           /\ r.all = <<>> => /\ \A i, j \in DOMAIN e : i < j => Asked(e[i].doc) <= Asked(e[j].doc)
                              /\ \A d \in Range(r.documents) \ {Blank}, t \in ChunkTexts \ {Blank} :
                                    t \in Range(r.found[d]) => Contains(e, [doc |-> d, text |-> t])
           /\ r.all # <<>> => \A p \in Range(r.all) :
                                 p.text # Blank => \E i \in DOMAIN e : e[i].doc = p.doc
=============================================================================
