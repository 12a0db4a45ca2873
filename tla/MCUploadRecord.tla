--------------------------- MODULE MCUploadRecord ---------------------------
(***************************************************************************)
(* Instances of UploadRecord for TLC: an upload of the app, next to an     *)
(* extension that starts later.                                            *)
(***************************************************************************)
EXTENDS UploadRecord
=============================================================================
