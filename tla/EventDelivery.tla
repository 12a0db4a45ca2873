--------------------------- MODULE EventDelivery ---------------------------
(***************************************************************************)
(* What the sync engine promises about the answers of the server           *)
(* (OCCore+SyncEngine.m, -queueSyncEvent:sender:, "goal: avoid dropping    *)
(* events and processing events multiple time even when process is         *)
(* terminated mid-transaction"): an answer is kept until it was handled,   *)
(* and handled once, as long as its sync record exists.                    *)
(***************************************************************************)
EXTENDS Integers

CONSTANTS
  Event,        \* answers of the server
  Record,       \* sync records
  EventRecord,  \* the record an event is for
  Final         \* events whose handling removes their record

VARIABLES
  pending,  \* events received and not handled
  count,    \* how many times an event was handled
  open      \* records of the journal

vars == <<pending, count, open>>

Init == pending = {} /\ count = [e \in Event |-> 0] /\ open = Record

Receive(e) ==
  /\ e \notin pending /\ count[e] = 0
  /\ pending' = pending \cup {e}
  /\ UNCHANGED <<count, open>>

\* One pass handles some of the pending events whose records exist.
Deliver(S) ==
  /\ S # {} /\ S \subseteq pending
  /\ \A e \in S : EventRecord[e] \in open
  /\ pending' = pending \ S
  /\ count' = [e \in Event |-> IF e \in S THEN count[e] + 1 ELSE count[e]]
  /\ open' = open \ {EventRecord[e] : e \in S \cap Final}

\* A record leaves the journal for another reason.
Close(r) == open' = open \ {r} /\ UNCHANGED <<pending, count>>

Next == \/ \E e \in Event : Receive(e)
        \/ \E S \in SUBSET Event : Deliver(S)
        \/ \E r \in Record : Close(r)

Spec == Init /\ [][Next]_vars
=============================================================================
