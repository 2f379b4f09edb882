---------------------------- MODULE MCExtraction ----------------------------
(* Extraction, with the relations of the default timeouts. *)
EXTENDS Extraction
=============================================================================
