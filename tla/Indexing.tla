------------------------------ MODULE Indexing ------------------------------
(* The indexing of one document (index_chunks.py: _index_structural_document;
   embedder.py; retrieval_profile.py; chunk_quality_filters.py): parse, chunk, filter,
   ask the API for a dense and a sparse vector of every chunk, build the points. *)
EXTENDS StructuralChunker

CONSTANTS
    Documents,      \* sequences of raw blocks: the documents a run takes
    Reconstruct,    \* MINERU_RECONSTRUCT_CROSS_PAGE_PARAGRAPHS
    BatchSize, MaxRetries

ASSUME IndexingAssumption ==
    /\ Documents \subseteq Seq(RawBlock)
    /\ Reconstruct \in BOOLEAN /\ BatchSize \in Nat \ {0} /\ MaxRetries \in Nat

VARIABLES
    doc,            \* the blocks of the document
    stage,
    blocks, drafts,
    next,           \* the draft that is filtered, or the first chunk of the batch
    chunks,
    tries,          \* attempts at the request under way
    dense, sparse   \* the vectors so far: of which chunk each is

indexingVars == <<doc, stage, blocks, drafts, next, chunks, tries, dense, sparse>>
content == <<doc, blocks, drafts, chunks>>

IndexingInit ==
    /\ doc \in Documents
    /\ stage = "parse" /\ blocks = <<>> /\ drafts = <<>> /\ next = 1 /\ chunks = <<>>
    /\ tries = 0 /\ dense = <<>> /\ sparse = <<>>

(* A content list that cannot be read, or has no block, is replaced by the markdown;
   one that cannot be read and has no markdown beside it fails the attempt. *)
Parse ==
    /\ stage = "parse"
    /\ \/ blocks' = ParseJson(doc, Reconstruct) /\ stage' = "chunk"
       \/ \E pipes \in BOOLEAN : blocks' = ParseMarkdown(doc, pipes) /\ stage' = "chunk"
       \/ stage' = "failed" /\ UNCHANGED blocks
    /\ UNCHANGED <<doc, drafts, next, chunks, tries, dense, sparse>>

Chunk ==
    /\ stage = "chunk"
    /\ drafts' = BuildDrafts(blocks)
    /\ stage' = "filter"
    /\ UNCHANGED <<doc, blocks, next, chunks, tries, dense, sparse>>

(* -------------------- filters: evaluate_structural_chunk ------------------- *)
Common == {"paragraph", "references"}              \* types that OCR noise can reject
Rejectable(d) == d.type \in Common

(* What the text itself decides (noise, no body, not a complete sentence) is open. *)
Reject ==
    /\ stage = "filter" /\ next <= Len(drafts)
    /\ Rejectable(drafts[next])
    /\ next' = next + 1
    /\ UNCHANGED <<content, stage, tries, dense, sparse>>

(* _materialize: the chunk names the approved one before it as that of its overlap. *)
Materialize ==
    LET d == drafts[next] IN
    /\ stage = "filter" /\ next <= Len(drafts)
    /\ IF d.type # "table" /\ Count(d.text) > ForceSplit
       THEN stage' = "failed" /\ UNCHANGED <<chunks, next>>    \* ChunkSizeValidationError
       ELSE /\ chunks' = Append(chunks, [draft |-> next, kind |-> d.blocks[1].kind,
                                         type |-> d.type, chart |-> d.blocks[1].chart,
                                         doubtful |-> /\ d.type = "figure_caption"
                                                      /\ d.blocks[1].chart /\ ~d.blocks[1].good,
                                         source |-> IF d.overlap > 0 THEN Len(chunks) ELSE 0])
            /\ next' = next + 1
            /\ UNCHANGED stage
    /\ UNCHANGED <<doc, blocks, drafts, tries, dense, sparse>>

(* chunks.jsonl and the report are written; a document without chunks ends here. *)
Persist ==
    /\ stage = "filter" /\ next > Len(drafts)
    /\ stage' = IF chunks = <<>> THEN "empty" ELSE "dense"
    /\ next' = 1
    /\ UNCHANGED <<content, tries, dense, sparse>>

(* ------------------------------- embeddings -------------------------------- *)
Batch == next .. Least(next + BatchSize - 1, Len(chunks))
Orders(S) == {q \in [1 .. Cardinality(S) -> S] : Range(q) = S}
Shuffled(items) == items
(* The answer names the entry of every vector; they are sorted by it. *)
Ranked(S, i) == CHOOSE x \in S : Cardinality({y \in S : y < x}) = i - 1
Sorted(items) == [i \in DOMAIN items |-> Ranked(Range(items), i)]

(* An answer, in any order, to the request for the vectors of a batch. *)
Answered ==
    \E items \in Orders(Batch) :
        /\ tries' = 0
        /\ IF stage = "dense"
           THEN /\ dense' = dense \o Sorted(items)
                /\ stage' = "sparse"
                /\ UNCHANGED <<next, sparse>>
           ELSE /\ sparse' = sparse \o Sorted(items)
                /\ stage' = IF Len(sparse') = Len(chunks) THEN "indexed" ELSE "dense"
                /\ next' = next + BatchSize
                /\ UNCHANGED dense

(* No answer, or a 5xx: asked again, up to the limit; a 4xx, or an answer with a
   vector too few, is not. *)
Failed(retriable) ==
    /\ IF retriable /\ tries < MaxRetries
       THEN tries' = tries + 1 /\ UNCHANGED stage
       ELSE tries' = 0 /\ stage' = "failed"
    /\ UNCHANGED <<next, dense, sparse>>

Embed ==
    /\ stage \in {"dense", "sparse"}
    /\ Answered \/ (\E retriable \in BOOLEAN : Failed(retriable))
    /\ UNCHANGED content

(* The document is indexed again, from the parse: by a new chain, or because the message
   of the task was delivered again. *)
Retry ==
    /\ stage = "failed"
    /\ stage' = "parse" /\ next' = 1 /\ blocks' = <<>> /\ drafts' = <<>> /\ chunks' = <<>>
    /\ dense' = <<>> /\ sparse' = <<>>
    /\ UNCHANGED <<doc, tries>>

IndexingNext == Parse \/ Chunk \/ Reject \/ Materialize \/ Persist \/ Embed \/ Retry
IndexingSpec == IndexingInit /\ [][IndexingNext]_indexingVars

(* --------------------------- classify_retrieval ---------------------------- *)
IsReference(c) == c.type = "references" \/ c.kind = "bibliography"
Hidden(c) == c.kind \in FrontMatter \cup Navigation
SearchableAnnex(c) ==
    ~Hidden(c) /\ c.kind # "bibliography" /\ ~IsReference(c) /\ c.type # "table" /\ ~c.chart
Searchable(c) ==
    /\ ~Hidden(c) /\ c.kind \notin {"bibliography", "administrative_appendix"}
    /\ ~IsReference(c) /\ c.type # "table" /\ ~c.chart

RetrievalProfile(c) ==
    CASE IsReference(c) -> {"bibliographic"}
      [] ~IsReference(c) /\ (Hidden(c) \/ c.kind = "administrative_appendix") -> {}
      [] OTHER ->
           CASE c.type = "table" -> {"quantitative", "methodological"}
             [] c.type # "table" /\ c.chart -> {}            \* its data are never confirmed
             [] c.type # "table" /\ ~c.chart /\ c.kind = "analytical_appendix" ->
                  {"general", "methodological"}
             [] c.type = "paragraph" /\ ~c.chart /\ c.kind # "analytical_appendix" ->
                  {"general", "quantitative", "methodological"}
             [] OTHER -> IF Searchable(c) THEN {"general"} ELSE {}

(* ---------------------------- points and searches -------------------------- *)
(* doubtful: the payload has a confidence in the data of a chart, below the minimum. *)
StructuralPayload(c) ==
    [section_kind |-> c.kind, is_reference |-> IsReference(c), searchable |-> Searchable(c),
     retrieval_profile |-> RetrievalProfile(c), doubtful |-> c.doubtful]

(* zip(chunks, dense_vecs, lexical_list): as many points as the shortest has. *)
Points == [i \in 1 .. Least(Len(chunks), Least(Len(dense), Len(sparse))) |->
              [dense |-> dense[i], sparse |-> sparse[i], payload |-> StructuralPayload(chunks[i])]]

(* What the words of a query look like; a query about authors that only frames a
   question of content ("segundo os autores") is not a bibliographic one. *)
Cues == {"authorship", "framing", "method", "number"}
DetectQueryProfile(cues) ==
    CASE "authorship" \in cues /\ "framing" \notin cues -> "bibliographic"
      [] "authorship" \notin cues \/ "framing" \in cues ->
           IF "method" \in cues THEN "methodological"
           ELSE IF "number" \in cues THEN "quantitative" ELSE "general"

(* The rules of a profile; one that is not known has those of the general one. *)
ProfileExclusions(profile) ==
    [must |-> CASE profile = "bibliographic" -> "is_reference"
                [] profile \in {"quantitative", "methodological"} -> "nothing"
                [] OTHER -> "searchable",
     must_not |-> IF profile \in {"quantitative", "methodological"}
                  THEN FrontMatter \cup Navigation \cup {"administrative_appendix", "bibliography"}
                  ELSE {}]
ProfileConditions(profile, payload) ==
    LET ex == ProfileExclusions(profile) IN
    /\ ex.must = "is_reference" => payload.is_reference
    /\ ex.must = "searchable" => payload.searchable
    /\ ex.must_not # {} => ~payload.is_reference /\ payload.section_kind \notin ex.must_not

(* The filter of a search is on when it names a profile, or a flag SEARCH_EXCLUDE_* is. *)
Flags == {"front_matter", "references", "navigation_lists", "low_confidence_visual_data"}
BuildQueryFilter(explicit, cues, flags) ==
    [on |-> explicit # "" \/ flags # {},
     profile |-> IF explicit = "" THEN DetectQueryProfile(cues) ELSE explicit,
     sure |-> "low_confidence_visual_data" \in flags]
Matches(filter, payload) ==
    filter.on => /\ ProfileConditions(filter.profile, payload)
                 /\ filter.sure => ~payload.doubtful

(* ------------------------------- properties -------------------------------- *)
(* The path of a block names exactly the headings that are open where it stands: the
   ones before it that no heading of their level or above has closed since. *)
PathsFollowHeadings ==
    stage = "chunk" => \A i \in DOMAIN blocks :
        LET path == blocks[i].path IN
        /\ {path[k].id : k \in DOMAIN path} = {blocks[j].id : j \in OpenHeadings(blocks, i)}
        /\ \A k \in 1 .. Len(path) - 1 :
              path[k].level < path[k + 1].level /\ path[k].id < path[k + 1].id

Said(text) == UNION {UNION {Range(text[p][s].of) : s \in DOMAIN text[p]} : p \in DOMAIN text}
Kept(b) == b.type # "heading" /\ ~Skipped(b) /\ ~(b.type = "table" /\ TableMode = "conditional" /\ ~b.good)
OwnText(d) == IF d.overlap > 0 THEN Tail(d.text) ELSE d.text
Chunked == stage = "filter" /\ next = 1             \* the drafts do not change after it

(* What chunking may leave out of a table: its source note; and, of one that is represented
   by its rows, the rows after the first RowLimit and the stray cells. *)
Own(b) == IF b.note THEN Front(b.text) ELSE b.text
Omissible(b) ==
    IF b.type # "table" \/ ~ByRows(b) THEN {}
    ELSE UNION {LET line == Own(b)[s] IN
                IF s > RowLimit + 1 THEN Range(line.of) ELSE Range(Tail(line.of)) :
                    s \in DOMAIN Own(b)}

(* Chunking loses no other text: whatever else a block that is kept says is in a draft of
   its own section, whatever is closed, split, merged or overlapped around it. *)
NothingLost ==
    Chunked =>
        \A i \in DOMAIN blocks :
            LET b == blocks[i] IN
            Kept(b) => Said(<<Own(b)>>) \ Omissible(b) \subseteq
                          UNION {Said(OwnText(d)) : d \in {e \in Range(drafts) : e.path = b.path}}

(* A chunk of running text never exceeds the maximum, with its overlap, the merged
   chunks and the pieces of an endless sentence; nor does a part of a list or a table
   that has more than one item or row. *)
TextFits ==
    Chunked => \A d \in Range(drafts) :
        CASE d.type \in Common -> Count(d.text) <= MaxTokens
          [] d.type = "list" -> Count(d.text) <= ListMax \/ Len(d.text[1]) = 1
          [] d.type = "table" -> \/ Count(d.text) <= TableMax \/ Len(d.text[1]) <= 2
          [] OTHER -> TRUE

(* The index has one point for every chunk, and both its vectors are the chunk's, whatever
   the order of the answers, the requests that were repeated and the attempts that failed
   half way. *)
VectorsMatch ==
    stage = "indexed" =>
        /\ Len(Points) = Len(chunks)
        /\ \A i \in DOMAIN Points : Points[i].dense = i /\ Points[i].sparse = i

Profiles == {"general", "quantitative", "methodological", "bibliographic"}
Filters == {BuildQueryFilter(explicit, cues, flags) :
               explicit \in Profiles \cup {"", "unknown"}, cues \in SUBSET Cues, flags \in SUBSET Flags}

(* Whatever a query says and whichever flags are on, a search sees every chunk that lists
   the profile it resolves to, but a chart whose data are doubtful while those are
   excluded; and a filtered general search sees no chunk that lists no profile. *)
ListedIsFound ==
    stage = "indexed" =>
        \A i \in DOMAIN Points, f \in Filters :
            LET payload == Points[i].payload IN
            /\ f.profile \in payload.retrieval_profile /\ ~(f.sure /\ payload.doubtful)
                  => Matches(f, payload)
            /\ payload.retrieval_profile = {} /\ f.on /\ f.profile \in {"general", "unknown"}
                  => ~Matches(f, payload)
=============================================================================
