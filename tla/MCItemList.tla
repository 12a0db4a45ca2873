----------------------------- MODULE MCItemList -----------------------------
(***************************************************************************)
(* An instance of ItemList for TLC: two processes that scan, both of which *)
(* can show the folder.                                                    *)
(***************************************************************************)
EXTENDS ItemList

MCTask == Process \X Location
MCOpened == Process \X {"folder"}
=============================================================================
