--------------------------- MODULE MCRemoteTrigger ---------------------------
(***************************************************************************)
(* Instance of RemoteTrigger for TLC: an app and its file provider, with a *)
(* record each on one lane, the extension's first.                         *)
(***************************************************************************)
EXTENDS RemoteTrigger

MCOwner  == [r \in Record |-> IF r = "r1" THEN "ext" ELSE "app"]
MCBefore == [r \in Record |-> IF r = "r2" THEN {"r1"} ELSE {}]
=============================================================================
