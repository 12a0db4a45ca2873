---------------------------- MODULE MCSyncEvents ----------------------------
(***************************************************************************)
(* Instances of SyncEvents for TLC: an upload of the share extension with  *)
(* a failure that leaves the record waiting and a success after a retry,   *)
(* and an update of the app.                                               *)
(***************************************************************************)
EXTENDS SyncEvents

MCEventRecord ==
  [e \in Event |-> IF e \in {"failed", "uploaded"} THEN "upload" ELSE "update"]

MCOwner ==
  [r \in Record |->
     IF r = "upload" /\ "ext" \in Process THEN "ext" ELSE "app"]
=============================================================================
