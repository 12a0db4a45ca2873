---------------------------- MODULE MCSyncEngine ----------------------------
(***************************************************************************)
(* Instances of SyncEngine for TLC: a folder /p/ with an item x in it, a   *)
(* second folder /q/ and a new file y in it.                               *)
(***************************************************************************)
EXTENDS SyncEngine

MCTag == {"/", "id_p", "/p/", "id_x", "/p/x", "/q/x", "id_y", "/q/y"}

MCRelated == {<<"/p/", "/p/x">>, <<"/p/x", "/p/">>}

\* The actions' -laneTags: Update and Delete act on the folder /p/, Move takes
\* /p/x to /q/x, Upload replaces x, UploadNew imports y, LocalCopyDelete drops
\* the local copy of x.
MCLaneTags ==
  [a \in Action |->
     CASE a \in {"Update", "Delete"}          -> {"id_p", "/p/"}
       [] a = "Move"                          -> {"id_x", "/p/x", "/q/x"}
       [] a \in {"Upload", "LocalCopyDelete"} -> {"id_x", "/p/x"}
       [] a = "UploadNew"                     -> {"id_y", "/q/y"}]

MCCategories ==
  [a \in Action |->
     IF a \in {"Upload", "UploadNew"} THEN {"all", "upload"} ELSE {"all", "actions"}]

\* The budgets of OCCore's default settings, scaled down: no limit on "all".
MCBudget ==
  [c \in Category |-> CASE c = "all" -> 0 [] c = "upload" -> 1 [] c = "actions" -> 2]
=============================================================================
