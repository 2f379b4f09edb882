--------------------------- MODULE MCSyncWatermark ---------------------------
(* Two items, each with a handle. *)
EXTENDS SyncWatermark
MCUuidOf == [h \in Handles |-> h]
=============================================================================
