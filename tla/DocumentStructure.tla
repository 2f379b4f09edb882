------------------------- MODULE DocumentStructure --------------------------
(* From MinerU's blocks to the structure of a document (backend/indexing/
   document_blocks.py, section_classifier.py, cross_page_reconstruction.py): page
   furniture is dropped, every block gets the path and the kind of its section, and
   paragraphs that a page break has cut are joined.  A text is the sequence of the
   tokens of its sentences; what the parser reads off the text with a regular
   expression is a field of the block. *)
EXTENDS Naturals, Sequences, FiniteSets, SequencesExt

Texts == {"paragraph", "list", "footnote"}
Furniture == {"header", "footer", "page_number"}
Navigation == {"table_of_contents", "acronym_list"}      \* and the lists of figures, ...
FrontMatter == {"front_matter"}
Appendices == {"analytical_appendix", "administrative_appendix"}

(* A raw block: a heading has the kind that its words announce ("none" for a common
   title, "body_start" for one that opens the body), the depth of its numbering (0
   without one) and MinerU's level; open: the text ends without conclusive
   punctuation; cont: it starts like a continuation; good: the confidence or quality
   that decides whether an equation or a table is kept; note: a table ends with its
   source; stray: the lines of a table that have a token in a cell without counterpart,
   of a row beyond the header or of the header above no value; chart: MinerU took it for
   a chart. *)
Raw(type) == [type |-> type, page |-> 1, key |-> "text", announces |-> "none", depth |-> 0,
              level |-> 1, sentences |-> <<2>>, open |-> FALSE, cont |-> FALSE,
              references |-> FALSE, chunkable |-> type \notin Furniture, good |-> TRUE,
              note |-> FALSE, stray |-> {}, chart |-> FALSE]

BlockTypes == {"heading", "table", "figure_caption", "formula", "unknown"} \cup Texts \cup Furniture
Announced == {"none", "body_start", "bibliography"} \cup Navigation \cup Appendices

(* A block has text, and every sentence of it a token; a note has a table before it, and
   a line with a stray token others. *)
RawBlock ==
    {b \in [type : BlockTypes, page : Nat, key : STRING, announces : Announced, depth : Nat,
            level : Nat, sentences : Seq(Nat \ {0}), open : BOOLEAN, cont : BOOLEAN,
            references : BOOLEAN, chunkable : BOOLEAN, good : BOOLEAN, note : BOOLEAN,
            stray : SUBSET Nat, chart : BOOLEAN] :
        /\ Len(b.sentences) > IF b.note THEN 1 ELSE 0
        /\ \A s \in b.stray \cap DOMAIN b.sentences : b.sentences[s] > 1}

(* A chart is a table when its data are tabular and trusted, a caption otherwise, and
   nothing without one. *)
ParseChart(tabular, trusted, captioned) ==
    LET type == IF tabular /\ trusted THEN {"table"} ELSE IF captioned THEN {"figure_caption"} ELSE {}
    IN {[Raw(t) EXCEPT !.chart = TRUE, !.good = trusted] : t \in type}
(* A decorative image is kept, and is not chunked. *)
ParseImage(useful) == [Raw("figure_caption") EXCEPT !.chunkable = useful]
ParseEquation(confident) == [Raw("formula") EXCEPT !.good = confident]
ParseList(sentences, references) ==
    [Raw("list") EXCEPT !.sentences = sentences, !.references = references]
(* A table of good or bad quality: its header, its rows and the note with its source. *)
ParseTable(lines, good, note, stray) ==
    [Raw("table") EXCEPT !.sentences = lines, !.good = good, !.note = note, !.stray = stray]

(* --------------------- _drop_repeated_furniture ---------------------------- *)
Least(a, b) == IF a < b THEN a ELSE b
Greatest(a, b) == IF a > b THEN a ELSE b
Pages(raw) == {raw[i].page : i \in DOMAIN raw}
PagesWith(raw, b) ==
    {raw[i].page : i \in {j \in DOMAIN raw : raw[j].type = b.type /\ raw[j].key = b.key}}
Recurrent(raw, b) ==
    Cardinality(PagesWith(raw, b)) >= Least(3, Greatest(2, Cardinality(Pages(raw)) \div 2))

DropOne(out, b, raw) ==
    IF b.type = "page_number" \/ (b.type \in {"header", "footer"} /\ Recurrent(raw, b))
    THEN out ELSE Append(out, b)
DropRepeatedFurniture(raw) == FoldLeft(LAMBDA out, b : DropOne(out, b, raw), <<>>, raw)

(* ------------------------ SectionStateMachine ------------------------------ *)
InferHeadingLevel(h) == IF h.depth > 0 THEN Least(h.depth, 6) ELSE h.level

Sections == [base |-> "front_matter", current |-> "front_matter", started |-> FALSE]

(* An appendix is a context that stays; a bibliography and navigation last until the
   next heading, which goes back to the context, or opens the body. *)
FeedHeading(sm, h) ==
    LET opens == h.depth > 0 \/ (~sm.started /\ h.announces = "body_start")
        body == IF sm.base \in Appendices THEN sm.base ELSE "body"
        context == IF sm.started THEN sm.base ELSE "front_matter"
    IN CASE h.announces \in Appendices ->
              [base |-> h.announces, current |-> h.announces, started |-> TRUE]
         [] h.announces \in Navigation \cup {"bibliography"} ->
              [sm EXCEPT !.current = h.announces]
         [] OTHER ->
              IF opens THEN [base |-> body, current |-> body, started |-> TRUE]
                       ELSE [base |-> context, current |-> context, started |-> sm.started]

(* --------------------------- _assign_sections ------------------------------ *)
PopAnyway(stack, level) == IF stack = <<>> THEN <<>> ELSE Front(stack)
(* while stack and stack[-1][0] >= level: stack.pop() *)
Pop(stack, level) ==
    LET kept == {n \in 0 .. Len(stack) : \A i \in n + 1 .. Len(stack) : stack[i].level >= level}
    IN SubSeq(stack, 1, CHOOSE n \in kept : \A m \in kept : n <= m)

EffectiveType(b, kind) ==
    IF (kind = "bibliography" /\ b.type \in Texts) \/ (b.type = "list" /\ b.references)
    THEN "reference" ELSE b.type

(* of: where the tokens of a sentence come from; paired: how many of them are not in a
   stray cell, which has a name of its own. *)
Line(id, b, s) ==
    IF s \in b.stray
    THEN [of |-> <<<<id, s>>, <<id, Len(b.sentences) + s>>>>, piece |-> 0,
          n |-> b.sentences[s], paired |-> b.sentences[s] - 1]
    ELSE [of |-> <<<<id, s>>>>, piece |-> 0, n |-> b.sentences[s], paired |-> b.sentences[s]]

MkBlock(id, b, type, path, kind) ==
    [id |-> id, type |-> type, path |-> path, kind |-> kind, page |-> b.page,
     text |-> [s \in DOMAIN b.sentences |-> Line(id, b, s)],
     open |-> b.open, cont |-> b.cont, chunkable |-> b.chunkable, good |-> b.good, note |-> b.note,
     chart |-> b.chart]

AssignOne(acc, b) ==
    LET id == Len(acc.blocks) + 1
        level == InferHeadingLevel(b)
        sm == FeedHeading(acc.sm, b)
        stack == Append(Pop(acc.stack, level), [level |-> level, id |-> id])
    IN IF b.type = "heading"
       THEN [sm |-> sm, stack |-> stack,
             blocks |-> Append(acc.blocks, MkBlock(id, b, "heading", stack, sm.current))]
       ELSE [acc EXCEPT !.blocks =
               Append(@, MkBlock(id, b, EffectiveType(b, acc.sm.current), acc.stack, acc.sm.current))]

(* A document of which no block left the front matter and navigation has its front
   matter promoted to body. *)
PromoteFrontMatterOnly(blocks) ==
    IF \A i \in DOMAIN blocks : blocks[i].kind \in FrontMatter \cup Navigation
    THEN [i \in DOMAIN blocks |->
            IF blocks[i].kind \in FrontMatter THEN [blocks[i] EXCEPT !.kind = "body"] ELSE blocks[i]]
    ELSE blocks

AssignSections(raw) ==
    PromoteFrontMatterOnly(
        FoldLeft(AssignOne, [sm |-> Sections, stack |-> <<>>, blocks |-> <<>>], raw).blocks)

(* ------------------------- reconstruct_cross_page -------------------------- *)
CanMerge(a, b) ==
    /\ a.type = "paragraph" /\ b.type = "paragraph"
    /\ a.path = b.path /\ a.kind = b.kind
    /\ b.page > a.page
    /\ a.open /\ b.cont

(* The last sentence of the one goes on in the first of the other. *)
MergeBlocks(a, b) ==
    LET joined == [of |-> Last(a.text).of \o Head(b.text).of, piece |-> 0,
                   n |-> Last(a.text).n + Head(b.text).n,
                   paired |-> Last(a.text).paired + Head(b.text).paired]
    IN [a EXCEPT !.text = Append(Front(@), joined) \o Tail(b.text), !.open = b.open]

ReconstructOne(out, b) ==
    IF out # <<>> /\ CanMerge(Last(out), b)
    THEN Append(Front(out), MergeBlocks(Last(out), b)) ELSE Append(out, b)
ReconstructCrossPage(blocks) == FoldLeft(ReconstructOne, <<>>, blocks)

ParseJson(raw, reconstruct) ==
    LET blocks == AssignSections(DropRepeatedFurniture(raw))
    IN IF reconstruct THEN ReconstructCrossPage(blocks) ELSE blocks

(* ------------------------------ parse_markdown ----------------------------- *)
(* What the markdown of a document has of a block: no furniture and no page; a list
   without MinerU's label; a table only when it is written in pipes, and its source is
   then a paragraph; any other lines are a paragraph. *)
MarkdownOf(b, pipes) ==
    LET Lines(type, sentences) ==
            <<[Raw(type) EXCEPT !.page = 0, !.key = b.key, !.sentences = sentences,
                                !.stray = IF type = "table" THEN b.stray ELSE {},
                                !.announces = b.announces, !.depth = b.depth, !.level = b.level]>>
    IN CASE b.type \in Furniture -> <<>>
         [] b.type \in {"heading", "list"} -> Lines(b.type, b.sentences)
         [] b.type = "table" /\ pipes ->
              IF b.note THEN Lines("table", Front(b.sentences)) \o Lines("paragraph", <<Last(b.sentences)>>)
              ELSE Lines("table", b.sentences)
         [] OTHER -> Lines("paragraph", b.sentences)

ParseMarkdownRaw(raw, pipes) == FoldLeft(LAMBDA out, b : out \o MarkdownOf(b, pipes), <<>>, raw)
ParseMarkdown(raw, pipes) == AssignSections(ParseMarkdownRaw(raw, pipes))

(* The reference that a path is compared with: the headings before a block that no
   later heading of their level or of one above has closed. *)
OpenHeadings(blocks, i) ==
    {j \in 1 .. i : /\ blocks[j].type = "heading"
                    /\ \A k \in j + 1 .. i :
                          blocks[k].type = "heading" => Last(blocks[k].path).level > Last(blocks[j].path).level}
=============================================================================
