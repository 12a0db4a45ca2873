---------------------------- MODULE MCLockManager ----------------------------
(***************************************************************************)
(* Instances of LockManager for TLC: an app that asks once, and an         *)
(* extension with a request that waits and one that does not.              *)
(***************************************************************************)
EXTENDS LockManager

MCOwner == [r \in Request |-> IF r = "a1" THEN "app" ELSE "ext"]
=============================================================================
