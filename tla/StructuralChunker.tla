------------------------- MODULE StructuralChunker --------------------------
(* Chunking by tokens (backend/indexing/structural_token_chunker.py): the blocks of a
   section are grouped up to a target, a block beyond the maximum is split by
   sentences and, as a last resort, by tokens; tables and lists are units that are
   split by rows and items; a chunk starts with the end of the one before it.  A text
   is a sequence of paragraphs, a paragraph a sequence of sentences. *)
EXTENDS DocumentStructure

CONSTANTS
    Target, MaxTokens, MinTokens, Overlap, MaxOverlap, TableMax, ListMax, ForceSplit,
    FrontMatterMode, ReferencesMode, EquationMode, TableMode,
    RowLimit        \* max_rows: the rows of a table that its representation by rows has

ASSUME ChunkingAssumption ==                    \* validate_chunking_config
    /\ {Target, MaxTokens, MinTokens, Overlap, MaxOverlap, TableMax, ListMax, ForceSplit} \subseteq Nat
    /\ MinTokens < Target /\ Target <= MaxTokens /\ Overlap < Target /\ MaxOverlap < MaxTokens
    /\ ForceSplit >= MaxTokens
    /\ FrontMatterMode \in {"include", "metadata_only"}
    /\ ReferencesMode \in {"include", "separate", "exclude", "metadata_only"}
    /\ EquationMode \in {"raw", "merge_with_context"} /\ TableMode \in {"always", "conditional"}
    /\ RowLimit \in Nat \ {0}

CountP(paragraph) == FoldLeft(LAMBDA n, s : n + s.n, 0, paragraph)
Count(text) == FoldLeft(LAMBDA n, p : n + CountP(p), 0, text)

(* ------------------------------ _skip_reason ------------------------------- *)
Skipped(b) ==
    \/ ~b.chunkable
    \/ FrontMatterMode = "metadata_only" /\ b.kind \in FrontMatter \cup Navigation
    \/ b.type = "reference" /\ ReferencesMode \in {"exclude", "metadata_only"}
    \/ b.type = "formula" /\ EquationMode = "merge_with_context" /\ ~b.good

Draft(type, text, blocks, allow) ==
    [type |-> type, text |-> text, blocks |-> blocks, path |-> blocks[1].path,
     allow |-> allow, overlap |-> 0]

(* ---------------------- _apply_structural_overlap -------------------------- *)
(* _tail_overlap: the last paragraph, or as many of its last sentences as fit. *)
TailOverlap(text) ==
    LET last == Last(text)
        Fits(k) == CountP(SubSeq(last, k, Len(last))) <= Overlap
        Enough(k) == CountP(SubSeq(last, k, Len(last))) >= Overlap
        from == {k \in DOMAIN last : k = Len(last) \/ (Fits(k) /\ ~Enough(k + 1))}
    IN IF CountP(last) <= MaxOverlap /\ CountP(last) <= 2 * Overlap THEN last
       ELSE SubSeq(last, CHOOSE k \in from : \A j \in from : k <= j, Len(last))

OverlapAnyway(prev, cur) ==
    LET tail == TailOverlap(prev.text) IN
    IF cur.allow /\ prev.allow /\ cur.path = prev.path
    THEN [cur EXCEPT !.text = <<tail>> \o @, !.overlap = CountP(tail)]
    ELSE cur
Overlapping(prev, cur) ==
    LET tail == TailOverlap(prev.text) IN
    IF cur.allow /\ prev.allow /\ cur.path = prev.path /\ CountP(tail) + Count(cur.text) <= MaxTokens
    THEN [cur EXCEPT !.text = <<tail>> \o @, !.overlap = CountP(tail)]
    ELSE cur

OverlapOne(out, d) == Append(out, IF out = <<>> THEN d ELSE Overlapping(Last(out), d))
ApplyStructuralOverlap(drafts) ==
    IF Overlap = 0 THEN drafts ELSE FoldLeft(OverlapOne, <<>>, drafts)

(* --------------------- _split_oversized_block ------------------------------ *)
(* TokenCounter.split: a piece that is counted again is taken to have as many tokens (the
   text is cut between tokens; the fallback for tokenizers without offsets is left out). *)
Pieces(s) ==
    [k \in 1 .. (s.n + MaxTokens - 1) \div MaxTokens |->
        [s EXCEPT !.piece = k, !.n = Least(MaxTokens, s.n - (k - 1) * MaxTokens)]]

Closed(acc, b, type) ==
    IF acc.cur = <<>> THEN acc.drafts ELSE Append(acc.drafts, Draft(type, <<acc.cur>>, <<b>>, TRUE))

SplitAbruptly(acc, s, b, type) ==
    IF s.n > MaxTokens
    THEN [cur |-> <<>>,
          drafts |-> acc.drafts \o
                     [k \in DOMAIN Pieces(s) |-> Draft(type, <<<<Pieces(s)[k]>>>>, <<b>>, TRUE)]]
    ELSE IF acc.cur # <<>> /\ CountP(acc.cur) + s.n > Target
         THEN [cur |-> <<s>>, drafts |-> Closed(acc, b, type)]
         ELSE [acc EXCEPT !.cur = Append(@, s)]
SplitOne(acc, s, b, type) ==
    IF s.n > MaxTokens
    THEN [cur |-> <<>>,
          drafts |-> Closed(acc, b, type) \o
                     [k \in DOMAIN Pieces(s) |-> Draft(type, <<<<Pieces(s)[k]>>>>, <<b>>, TRUE)]]
    ELSE IF acc.cur # <<>> /\ CountP(acc.cur) + s.n > Target
         THEN [cur |-> <<s>>, drafts |-> Closed(acc, b, type)]
         ELSE [acc EXCEPT !.cur = Append(@, s)]

SplitOversizedBlock(b, type) ==
    LET acc == FoldLeft(LAMBDA a, s : SplitOne(a, s, b, type), [cur |-> <<>>, drafts |-> <<>>], b.text)
    IN ApplyStructuralOverlap(Closed(acc, b, type))

(* --------------------- _chunks_from_text_group ----------------------------- *)
(* cur: the blocks of the chunk that is being filled. *)
CloseGroup(acc, type) ==
    IF acc.cur = <<>> THEN acc.drafts
    ELSE Append(acc.drafts, Draft(type, [i \in DOMAIN acc.cur |-> acc.cur[i].text], acc.cur,
                                  type # "references"))
Tokens(blocks) == FoldLeft(LAMBDA n, b : n + CountP(b.text), 0, blocks)

GroupOne(acc, b, type) ==
    LET full == acc.cur # <<>> /\ Tokens(acc.cur) + CountP(b.text) > MaxTokens
        before == IF full THEN [cur |-> <<>>, drafts |-> CloseGroup(acc, type)] ELSE acc
        after == [before EXCEPT !.cur = Append(@, b)]
    IN IF CountP(b.text) > MaxTokens
       THEN [cur |-> <<>>, drafts |-> CloseGroup(acc, type) \o SplitOversizedBlock(b, type)]
       ELSE IF Tokens(after.cur) >= Target
            THEN [cur |-> <<>>, drafts |-> CloseGroup(after, type)]
            ELSE after

MergeOne(out, d) ==
    IF /\ out # <<>> /\ Count(d.text) < MinTokens
       /\ Count(Last(out).text) + Count(d.text) <= MaxTokens
    THEN Append(Front(out), [Last(out) EXCEPT !.text = @ \o d.text, !.blocks = @ \o d.blocks])
    ELSE Append(out, d)
MergeSmall(drafts) == FoldLeft(MergeOne, <<>>, drafts)

ChunksFromTextGroup(group) ==
    LET type == IF group[1].type = "reference" THEN "references" ELSE "paragraph"
        acc == FoldLeft(LAMBDA a, b : GroupOne(a, b, type), [cur |-> <<>>, drafts |-> <<>>], group)
    IN ApplyStructuralOverlap(MergeSmall(CloseGroup(acc, type)))

(* ----------------------- tables, lists, figures ---------------------------- *)
(* Groups of consecutive units that fit; a unit beyond the limit is a group. *)
PackOne(acc, u, limit) ==
    IF acc.cur # <<>> /\ CountP(acc.cur) + u.n > limit
    THEN [out |-> Append(acc.out, acc.cur), cur |-> <<u>>]
    ELSE [acc EXCEPT !.cur = Append(@, u)]
Packed(units, limit) ==
    LET pack == FoldLeft(LAMBDA acc, u : PackOne(acc, u, limit), [out |-> <<>>, cur |-> <<>>], units)
    IN IF pack.cur = <<>> THEN pack.out ELSE Append(pack.out, pack.cur)

(* The first line of a table is its header, the last may be a note with its source. *)
RowsOf(b) == IF b.note THEN Front(Tail(b.text)) ELSE Tail(b.text)

(* table_row_representation: "header: value" for the cells of each of the first rows that
   have a counterpart in the header; without the note. *)
RowWithHeader(header, row) ==
    [of |-> SubSeq(header.of, 1, 1) \o SubSeq(row.of, 1, 1), piece |-> 0,
     n |-> header.paired + row.paired, paired |-> header.paired + row.paired]
FirstRows(b) == SubSeq(RowsOf(b), 1, Least(RowLimit, Len(RowsOf(b))))
RowRepresentation(b) == [k \in DOMAIN FirstRows(b) |-> RowWithHeader(b.text[1], FirstRows(b)[k])]

(* A table that fits is represented by its rows, if that fits too. *)
ByRows(b) ==
    /\ TableMode = "conditional" /\ CountP(b.text) <= TableMax /\ RowsOf(b) # <<>>
    /\ CountP(RowRepresentation(b)) <= TableMax

(* Every part of a table that does not fit repeats its header; no part has the note. *)
ChunksFromTable(b) ==
    LET header == b.text[1]
        limit == IF TableMax > header.n THEN TableMax - header.n ELSE 0
        parts == Packed(RowsOf(b), limit)
        Unit(text) == Draft("table", <<text>>, <<b>>, FALSE)
    IN IF TableMode = "conditional" /\ ~b.good THEN <<>>
       ELSE IF CountP(b.text) <= TableMax \/ parts = <<>>
            THEN <<Unit(IF ByRows(b) THEN RowRepresentation(b) ELSE b.text)>>
            ELSE [k \in DOMAIN parts |-> Unit(<<header>> \o parts[k])]

ChunksFromList(b) ==
    IF CountP(b.text) <= ListMax THEN <<Draft("list", <<b.text>>, <<b>>, FALSE)>>
    ELSE LET parts == Packed(b.text, ListMax)
         IN [k \in DOMAIN parts |-> Draft("list", <<parts[k]>>, <<b>>, FALSE)]

Standalone(b) ==
    CASE b.type = "table" -> ChunksFromTable(b)
      [] b.type = "list" -> ChunksFromList(b)
      [] b.type = "figure_caption" -> <<Draft("figure_caption", <<b.text>>, <<b>>, FALSE)>>
      [] OTHER -> ChunksFromTextGroup(<<b>>)              \* _chunks_from_references
StandsAlone(b) ==
    \/ b.type \in {"table", "list", "figure_caption"}
    \/ b.type = "reference" /\ ReferencesMode = "separate"

(* ------------------------------ _build_drafts ------------------------------ *)
Flush(acc) == IF acc.pending = <<>> THEN acc.drafts
              ELSE acc.drafts \o ChunksFromTextGroup(acc.pending)

DraftOne(acc, b) ==
    IF b.type = "heading" THEN [pending |-> <<>>, drafts |-> Flush(acc)]
    ELSE IF Skipped(b) THEN acc
    ELSE IF StandsAlone(b) THEN [pending |-> <<>>, drafts |-> Flush(acc) \o Standalone(b)]
    ELSE IF acc.pending # <<>> /\ acc.pending[1].path # b.path
    THEN [pending |-> <<b>>, drafts |-> Flush(acc)]
    ELSE [acc EXCEPT !.pending = Append(@, b)]

BuildDrafts(blocks) ==
    Flush(FoldLeft(DraftOne, [pending |-> <<>>, drafts |-> <<>>], blocks))
=============================================================================
