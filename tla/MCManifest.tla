----------------------------- MODULE MCManifest -----------------------------
(* Instances of ManifestRepository for TLC. *)
EXTENDS ManifestRepository

CONSTANTS w1, w2, w3
=============================================================================
