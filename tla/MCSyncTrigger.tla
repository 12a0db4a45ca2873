--------------------------- MODULE MCSyncTrigger ---------------------------
(***************************************************************************)
(* Instances of SyncTrigger for TLC: one query's item list and a piece of  *)
(* background work.                                                        *)
(***************************************************************************)
EXTENDS SyncTrigger

MCWork == {"query", "scan"}
MCQueryWork == {"query"}
=============================================================================
