----------------------------- MODULE LockManager -----------------------------
(***************************************************************************)
(* OCLockManager: locks that processes share through one value of a key    *)
(* value store.  A lock expires unless its owner prolongs it; a manager    *)
(* brings the store and its requests and locks together in -_updateLocks,  *)
(* on a serial queue of its own, while clients request and release on      *)
(* theirs.  One resource is modelled: its lock is identified by the        *)
(* request it was made for, as an OCLock is by its UUID.                   *)
(*                                                                         *)
(* Time passes in ticks.  An awake process does what is due before the     *)
(* next tick; one that does not is asleep (suspended by the system, or     *)
(* not scheduled), and may be so at any moment, also within an update.     *)
(* Notifications of changes of other processes may be lost.                *)
(***************************************************************************)
EXTENDS Integers

CONSTANTS
  Process,      \* processes with a manager
  Request,      \* lock requests, each made at most once
  Owner,        \* the process of each request
  TryRequest,   \* those with returnAfterFirstAttempt
  Interval,     \* OCLockExpirationInterval, in ticks
  Suspendable,  \* bound: the processes that may fall asleep ...
  MaxSleeps,    \* ... so many times in all
  Killable,     \* bound: the processes that may be terminated ...
  MaxCrashes    \* ... so many times in all

ASSUME LockAssumption ==
  /\ Owner \in [Request -> Process] /\ TryRequest \subseteq Request
  /\ Interval \in Nat /\ Interval >= 2 /\ Interval % 2 = 0
  /\ MaxSleeps \in Nat /\ MaxCrashes \in Nat

VARIABLES
  db,         \* the store: at most one lock, with the time it has left
  mode,       \* "awake", "asleep" or "dead"
  pending,    \* _requests of all managers
  tracked,    \* _locks and _lockIdentifiers
  released,   \* _releasedLockIdentifiers
  step,       \* what the lock queue is at
  needs,      \* _needsUpdate: an update is queued
  keepAlive,  \* time until the keep-alive timer fires: none or one
  expiry,     \* times until the expiration timers fire
  stale,      \* invalidatedLockIdentifiers of the update under way
  given,      \* its requests that got a lock
  denied,     \* its requests that were invalidated
  client,     \* where a request's client stands
  \* history
  doubtful,   \* held locks whose process was suspended since they were made
  sleeps, crashes

manager == <<pending, tracked, released, step, needs, keepAlive, expiry, stale,
             given, denied>>
vars == <<db, mode, manager, client, doubtful, sleeps, crashes>>

Lock == [id : Request, left : 0..Interval]
Half == Interval \div 2
Mine(p) == {r \in Request : Owner[r] = p}

Init ==
  /\ db = {} /\ mode = [p \in Process |-> "awake"]
  /\ pending = {} /\ tracked = {} /\ released = {}
  /\ step = [p \in Process |-> "idle"] /\ needs = [p \in Process |-> FALSE]
  /\ keepAlive = [p \in Process |-> {}] /\ expiry = [p \in Process |-> {}]
  /\ stale = [p \in Process |-> {}] /\ given = {} /\ denied = {}
  /\ client = [r \in Request |-> "new"] /\ doubtful = {}
  /\ sleeps = 0 /\ crashes = 0

Awake(p) == mode[p] = "awake"

-----------------------------------------------------------------------------
(* Clients *)

RequestLock(r) ==
  /\ Awake(Owner[r]) /\ client[r] = "new"
  /\ pending' = pending \cup {r}
  /\ client' = [client EXCEPT ![r] = "waiting"]
  /\ needs' = [needs EXCEPT ![Owner[r]] = TRUE]
  /\ UNCHANGED <<db, mode, tracked, released, step, keepAlive, expiry, stale,
                 given, denied, doubtful, sleeps, crashes>>

\* Faulty: leaves the removal from the store to the lock's expiration.
ForgetLock(r) ==
  /\ Awake(Owner[r]) /\ client[r] = "holding"
  /\ tracked' = tracked \ {r}
  /\ client' = [client EXCEPT ![r] = "done"]
  /\ needs' = [needs EXCEPT ![Owner[r]] = TRUE]
  /\ doubtful' = doubtful \ {r}
  /\ UNCHANGED <<db, mode, pending, released, step, keepAlive, expiry, stale,
                 given, denied, sleeps, crashes>>

\* For a lock that is no longer tracked: nothing.
ReleaseLock(r) ==
  /\ Awake(Owner[r]) /\ client[r] = "holding"
  /\ tracked' = tracked \ {r}
  /\ released' = released \cup {r}
  /\ client' = [client EXCEPT ![r] = "done"]
  /\ needs' = [needs EXCEPT ![Owner[r]] = TRUE]
  /\ doubtful' = doubtful \ {r}
  /\ UNCHANGED <<db, mode, pending, step, keepAlive, expiry, stale, given,
                 denied, sleeps, crashes>>

-----------------------------------------------------------------------------
(* The lock queue *)

\* A queued update starts; so does one of the keep-alive timer, unless another
\* is queued.
Begin(p) ==
  /\ Awake(p) /\ step[p] = "idle"
  /\ \/ /\ needs[p]
        /\ needs' = [needs EXCEPT ![p] = FALSE]
        /\ step' = [step EXCEPT ![p] = "modify"]
        /\ stale' = [stale EXCEPT ![p] = tracked \cap Mine(p)]
        /\ UNCHANGED keepAlive
     \/ /\ keepAlive[p] = {0}
        /\ keepAlive' = [keepAlive EXCEPT ![p] = {}]
        /\ IF needs[p] THEN UNCHANGED <<step, stale>>
           ELSE /\ step' = [step EXCEPT ![p] = "modify"]
                /\ stale' = [stale EXCEPT ![p] = tracked \cap Mine(p)]
        /\ UNCHANGED needs
  /\ UNCHANGED <<db, mode, pending, tracked, released, expiry, given, denied,
                 client, doubtful, sleeps, crashes>>

ExpirationTimer(p) ==
  /\ Awake(p) /\ step[p] = "idle" /\ 0 \in expiry[p]
  /\ expiry' = [expiry EXCEPT ![p] = @ \ {0}]
  /\ needs' = [needs EXCEPT ![p] = TRUE]
  /\ UNCHANGED <<db, mode, pending, tracked, released, step, keepAlive, stale,
                 given, denied, client, doubtful, sleeps, crashes>>

\* A lock that ran out is purged unless it is an own one; one that was released
\* is purged in any case.
Purges(p, l) == \/ l.left = 0 /\ l.id \notin tracked \cap Mine(p)
                \/ l.id \in released \cap Mine(p)

\* Faulty: waits for less than half of the time.
KeptAliveLate(l) == IF 2 * l.left < Interval THEN [l EXCEPT !.left = Interval] ELSE l
\* -keepAlive: renews what has less than 80% left.
KeptAlive(l) == IF 5 * l.left < 4 * Interval THEN [l EXCEPT !.left = Interval] ELSE l

\* Faulty: does not look at locks of others.
ServedAlways(asking, kept) == {{r} : r \in asking}
\* The request a free lock goes to: one at most.
Served(asking, kept) ==
  IF kept = {} /\ asking # {} THEN {{r} : r \in asking} ELSE {{}}

\* Faulty: relies on notifications.
NoWatch(left, after) == {}
\* Requests that are left over look again when the lock runs out.
Watch(left, after) == IF left = {} THEN {} ELSE {l.left : l \in after}

\* The modifier, atomic across processes.  Observers of the value are those of
\* the own manager and, if their notification arrives, those of others.
Modify(p) ==
  /\ Awake(p) /\ step[p] = "modify"
  /\ LET purged == {l \in db : Purges(p, l)}
         mine   == {l \in db \ purged : l.id \in stale[p]}
         kept   == ((db \ purged) \ mine) \cup {KeptAlive(l) : l \in mine}
         asking == pending \cap Mine(p)
     IN  \E served \in Served(asking, kept) :
           LET after   == kept \cup {[id |-> r, left |-> Interval] : r \in served}
               refused == (asking \ served) \cap TryRequest
           IN  /\ db' = after
               /\ given' = given \cup served
               /\ denied' = denied \cup refused
               /\ expiry' = [expiry EXCEPT ![p] = @ \cup Watch(asking \ served, after)]
               /\ stale' = [stale EXCEPT ![p] =
                              (@ \cup {l.id : l \in purged}) \ {l.id : l \in mine}]
               /\ \E informed \in SUBSET {q \in Process : mode[q] # "dead"} :
                    needs' = [q \in Process |->
                                needs[q] \/ (after # db /\ q \in {p} \cup informed)]
  /\ released' = released \ Mine(p)
  /\ step' = [step EXCEPT ![p] = "notify"]
  /\ UNCHANGED <<mode, pending, tracked, keepAlive, client, doubtful, sleeps, crashes>>

\* One timer, while there are locks.
NextKeepAlive(p, holds) == IF holds /\ keepAlive[p] = {} THEN {Half} ELSE keepAlive[p]

\* Answers to requests, expiration handlers of locks that are gone, and the next
\* keep-alive.
Notify(p) ==
  /\ Awake(p) /\ step[p] = "notify"
  /\ LET got  == given \cap Mine(p)
         no   == denied \cap Mine(p)
         lost == ((tracked \cap Mine(p)) \cup got) \cap stale[p]
     IN  /\ pending' = pending \ (got \cup no)
         /\ tracked' = (tracked \cup got) \ lost
         /\ client' = [r \in Request |-> CASE r \in lost \cup no -> "done"
                                           [] r \in got \ lost -> "holding"
                                           [] OTHER -> client[r]]
         /\ doubtful' = doubtful \ lost
         /\ keepAlive' = [keepAlive EXCEPT ![p] =
                            NextKeepAlive(p, tracked' \cap Mine(p) # {})]
  /\ given' = given \ Mine(p) /\ denied' = denied \ Mine(p)
  /\ stale' = [stale EXCEPT ![p] = {}]
  /\ step' = [step EXCEPT ![p] = "idle"]
  /\ UNCHANGED <<db, mode, released, needs, expiry, sleeps, crashes>>

Update(p) == Begin(p) \/ ExpirationTimer(p) \/ Modify(p) \/ Notify(p)

-----------------------------------------------------------------------------
(* Time, suspension, termination *)

Due(p) == step[p] # "idle" \/ needs[p] \/ keepAlive[p] = {0} \/ 0 \in expiry[p]

Less(n) == IF n = 0 THEN 0 ELSE n - 1

Tick ==
  /\ \A p \in Process : Awake(p) => ~ Due(p)
  /\ db' = {[l EXCEPT !.left = Less(@)] : l \in db}
  /\ keepAlive' = [p \in Process |-> {Less(n) : n \in keepAlive[p]}]
  /\ expiry' = [p \in Process |-> {Less(n) : n \in expiry[p]}]
  /\ UNCHANGED <<mode, pending, tracked, released, step, needs, stale, given, denied,
                 client, doubtful, sleeps, crashes>>

Sleep(p) ==
  /\ Awake(p) /\ p \in Suspendable /\ sleeps < MaxSleeps
  /\ mode' = [mode EXCEPT ![p] = "asleep"]
  /\ doubtful' = doubtful \cup ((tracked \cup given) \cap Mine(p))
  /\ sleeps' = sleeps + 1
  /\ UNCHANGED <<db, manager, client, crashes>>

Wake(p) ==
  /\ mode[p] = "asleep"
  /\ mode' = [mode EXCEPT ![p] = "awake"]
  /\ UNCHANGED <<db, manager, client, doubtful, sleeps, crashes>>

\* The lock stays in the store.
Crash(p) ==
  /\ mode[p] # "dead" /\ p \in Killable /\ crashes < MaxCrashes
  /\ mode' = [mode EXCEPT ![p] = "dead"]
  /\ pending' = pending \ Mine(p)
  /\ tracked' = tracked \ Mine(p)
  /\ released' = released \ Mine(p)
  /\ given' = given \ Mine(p) /\ denied' = denied \ Mine(p)
  /\ step' = [step EXCEPT ![p] = "idle"]
  /\ needs' = [needs EXCEPT ![p] = FALSE]
  /\ keepAlive' = [keepAlive EXCEPT ![p] = {}]
  /\ expiry' = [expiry EXCEPT ![p] = {}]
  /\ stale' = [stale EXCEPT ![p] = {}]
  /\ client' = [r \in Request |->
                  IF Owner[r] = p /\ client[r] # "new" THEN "gone" ELSE client[r]]
  /\ doubtful' = doubtful \ Mine(p)
  /\ crashes' = crashes + 1
  /\ UNCHANGED <<db, sleeps>>

Launch(p) ==
  /\ mode[p] = "dead"
  /\ mode' = [mode EXCEPT ![p] = "awake"]
  /\ UNCHANGED <<db, manager, client, doubtful, sleeps, crashes>>

Next ==
  \/ \E r \in Request : RequestLock(r) \/ ReleaseLock(r)
  \/ \E p \in Process : Update(p) \/ Sleep(p) \/ Wake(p) \/ Crash(p) \/ Launch(p)
  \/ Tick

Spec == Init /\ [][Next]_vars

\* The queue of an awake process runs, time passes, and clients release their
\* locks (the scan's and the token refresh's completion do).  Nothing makes a
\* suspended process go on or a terminated one start again.
Fairness ==
  /\ WF_vars(Tick)
  /\ \A p \in Process : /\ WF_vars(Begin(p)) /\ WF_vars(ExpirationTimer(p))
                        /\ WF_vars(Modify(p) \/ Notify(p))
  /\ \A r \in Request : WF_vars(ReleaseLock(r))

FairSpec == Spec /\ Fairness

-----------------------------------------------------------------------------
(* Properties *)

\* Every variable holds a value of its type, and the store holds one lock of the
\* resource at most.
TypeOK ==
  /\ db \subseteq Lock /\ \A k, l \in db : k = l
  /\ mode \in [Process -> {"awake", "asleep", "dead"}]
  /\ pending \subseteq Request /\ tracked \subseteq Request
  /\ released \subseteq Request
  /\ step \in [Process -> {"idle", "modify", "notify"}]
  /\ needs \in [Process -> BOOLEAN]
  /\ keepAlive \in [Process -> {{}} \cup {{n} : n \in 0..Half}]
  /\ expiry \in [Process -> SUBSET (0..Interval)]
  /\ stale \in [Process -> SUBSET Request]
  /\ given \subseteq Request /\ denied \subseteq Request
  /\ client \in [Request -> {"new", "waiting", "holding", "done", "gone"}]
  /\ doubtful \subseteq Request
  /\ sleeps \in 0..MaxSleeps /\ crashes \in 0..MaxCrashes

\* Whoever was given a lock has it in the store until it releases it, however the
\* timers, updates and notifications of the processes fall, unless its process
\* was suspended since: so of two clients that both think they hold the lock, one
\* was suspended.
HeldUnlessSuspended ==
  \A r \in tracked \ doubtful : \E l \in db : l.id = r

\* Only the lock of a process that was terminated is left to its expiration:
\* every other one has a client, or is about to get one, or is about to be removed
\* by an update that is queued or under way.
NoAbandonedLock ==
  \A l \in db :
    \/ client[l.id] = "gone"
    \/ l.id \in tracked \cup given
    \/ /\ l.id \in released
       /\ LET p == Owner[l.id] IN needs[p] \/ step[p] = "modify"

\* While its process runs, every request is answered, and the client of a lock
\* that another process purged is told, though holders may be suspended or
\* terminated for good and notifications may be lost.  (Requests, suspensions
\* and terminations are finitely many.)
ClientsAreTold ==
  <>[](\A r \in Request :
         Awake(Owner[r]) => /\ client[r] # "waiting"
                            /\ r \in tracked => \E l \in db : l.id = r)
=============================================================================
