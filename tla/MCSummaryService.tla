-------------------------- MODULE MCSummaryService --------------------------
EXTENDS SummaryService, TLC
CONSTANTS r1, r2, p1, q
MCHome == [r \in Requests |-> p1]
MCAsks == [r \in Requests |-> q]
MCWords == [is : {"word", "cjk", "open", "close", "begin", "end"}, n : {0}]
             \cup [is : {"cite"}, n : {1, 3}]
=============================================================================
