---------------------------- MODULE MCIndexing -----------------------------
EXTENDS Indexing

Title(announces, depth, level) ==
    [Raw("heading") EXCEPT !.announces = announces, !.depth = depth, !.level = level]
Par(sentences) == [Raw("paragraph") EXCEPT !.sentences = sentences]
SeqsUpTo(S, n) == UNION {[1 .. k -> S] : k \in 1 .. n}

(* Every outline of up to four headings and blocks. *)
Outlines == SeqsUpTo(
    {Title("none", 0, 1), Title("none", 0, 2), Title("none", 1, 2), Title("none", 2, 1),
     Title("body_start", 0, 1), Title("bibliography", 0, 1), Title("table_of_contents", 0, 2),
     Title("administrative_appendix", 0, 1), Raw("paragraph"), ParseList(<<2>>, TRUE)}, 4)

(* Every section of up to three texts, tables and lists of the sizes that matter. *)
Bodies == {<<Title("none", 1, 1)>> \o s : s \in SeqsUpTo(
    {Par(<<1>>), Par(<<2>>), Par(<<4>>), Par(<<2, 3>>), Par(<<3, 3, 3>>), Par(<<5, 5, 1>>), Par(<<1, 11>>),
     ParseEquation(FALSE), ParseList(<<3, 3, 3>>, FALSE), ParseList(<<2, 11>>, FALSE),
     ParseList(<<4, 4, 4>>, TRUE), ParseTable(<<1, 3, 3, 3>>, TRUE, TRUE, {}),
     ParseTable(<<2, 2>>, FALSE, FALSE, {}), ParseImage(TRUE)}, 3)}

(* Tables that fit: of more rows than their representation has, with stray cells in the
   header and in a row, with a note, and of which the representation does not fit. *)
Tables == {<<Title("none", 1, 1)>> \o s : s \in SeqsUpTo(
    {ParseTable(<<1, 1, 1, 1, 1>>, TRUE, FALSE, {}), ParseTable(<<2, 2>>, TRUE, FALSE, {1}),
     ParseTable(<<1, 2, 2>>, TRUE, TRUE, {2}), ParseTable(<<3, 1, 1>>, TRUE, TRUE, {1}),
     ParseTable(<<2, 1, 1, 2>>, TRUE, FALSE, {4}), Par(<<2>>)}, 3)}

(* Every type of block in an annex that carries data, and every chart and image. *)
Annexes == {<<Title("analytical_appendix", 0, 1), b>> :
               b \in {Raw(t) : t \in {"paragraph", "list", "table", "figure_caption", "formula"}}}
Figures == {<<Title("none", 1, 1), b>> :
               b \in UNION {ParseChart(t, r, c) : t, r, c \in BOOLEAN} \cup {ParseImage(u) : u \in BOOLEAN}}

(* Three pages with a header or a number each, and a paragraph that a page
   break may cut. *)
PagesOf(p) ==
    {SelectSeq(<<[h EXCEPT !.page = p], [t EXCEPT !.page = p]>>, LAMBDA b : b.type # "none") :
        h \in {Raw("none"), Raw("page_number"), [Raw("header") EXCEPT !.key = "a"],
               [Raw("header") EXCEPT !.key = "b"]},
        t \in {Raw("none"), [Raw("paragraph") EXCEPT !.open = TRUE],
               [Raw("paragraph") EXCEPT !.cont = TRUE, !.open = TRUE],
               [Raw("paragraph") EXCEPT !.cont = TRUE, !.sentences = <<3, 3, 3>>]}}
Paged == {a \o b \o c : a \in PagesOf(1), b \in PagesOf(2), c \in PagesOf(3)} \ {<<>>}

MCDocuments == Outlines \cup Bodies \cup Tables \cup Annexes \cup Figures \cup Paged
=============================================================================
