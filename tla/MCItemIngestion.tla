--------------------------- MODULE MCItemIngestion ---------------------------
EXTENDS ItemIngestion, TLC
MCActors == Api \cup Workers
MCPdfs == <<"d1">>
Symmetric == Permutations(Workers)
=============================================================================
