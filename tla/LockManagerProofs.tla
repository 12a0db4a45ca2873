------------------------- MODULE LockManagerProofs -------------------------
(***************************************************************************)
(* Whoever holds a lock has it in the store unless its process was         *)
(* suspended, and no lock is left behind by a running process: for any     *)
(* number of processes and requests, and any expiration interval.          *)
(***************************************************************************)
EXTENDS LockManager, TLAPS

\* The parts of TypeOK, by what they range over.
Store   == db \subseteq Lock
Single  == \A k, l \in db : k = l
Clocks  == /\ keepAlive \in [Process -> {{}} \cup {{n} : n \in 0..Half}]
           /\ expiry \in [Process -> SUBSET (0..Interval)]
Steps   == /\ mode \in [Process -> {"awake", "asleep", "dead"}]
           /\ step \in [Process -> {"idle", "modify", "notify"}]
           /\ client \in [Request -> {"new", "waiting", "holding", "done", "gone"}]
Needs   == needs \in [Process -> BOOLEAN]
Held    == /\ pending \subseteq Request /\ tracked \subseteq Request
           /\ released \subseteq Request /\ doubtful \subseteq Request
           /\ given \subseteq Request /\ denied \subseteq Request
           /\ stale \in [Process -> SUBSET Request]
Counted == sleeps \in 0..MaxSleeps /\ crashes \in 0..MaxCrashes

LEMMA TypeParts ==
  TypeOK <=> Store /\ Single /\ Clocks /\ Steps /\ Needs /\ Held /\ Counted
BY Zenon DEF TypeOK, Store, Single, Clocks, Steps, Needs, Held, Counted

-----------------------------------------------------------------------------
(* The inductive invariant *)

\* Requests that a lock may name: given one in this update, or answered.
Known(r) == client[r] # "new" /\ (client[r] = "waiting" => r \in given)

Clients ==
  /\ \A r \in tracked : client[r] = "holding"
  /\ \A r \in pending : client[r] = "waiting"
  /\ given \subseteq pending /\ denied \subseteq pending \ given
  /\ \A r \in released : client[r] = "done"
  /\ \A r \in given \cup denied : step[Owner[r]] = "notify"

\* No lock bears the identifier of a request that is still to be served.
IDs ==
  /\ \A l \in db : Known(l.id)
  /\ \A p \in Process : \A r \in stale[p] : Known(r)

\* An update judges the locks its process holds, and calls none stale that it
\* found.
Stale ==
  \A p \in Process :
    /\ step[p] = "modify" => (tracked \cap Mine(p) \subseteq stale[p] /\ stale[p] \subseteq Mine(p))
    /\ step[p] = "notify" => (\A l \in db : Owner[l.id] = p => l.id \notin stale[p])

Suspended == \A r \in tracked \cup given : Awake(Owner[r]) \/ r \in doubtful

\* A process with a lock has a keep-alive coming.
Running ==
  \A r \in tracked :
    (step[Owner[r]] = "idle" /\ ~ needs[Owner[r]]) => keepAlive[Owner[r]] # {}

\* That keep-alive comes before the lock runs out.
InTime ==
  \A r \in (tracked \cup given) \ doubtful :
    \E l \in db :
      /\ l.id = r /\ l.left > 0
      /\ \A k \in keepAlive[Owner[r]] : l.left > k
      /\ step[Owner[r]] = "notify" => l.left > Half

Inductive == /\ TypeOK /\ Clients /\ IDs /\ Stale /\ Suspended /\ Running /\ InTime
             /\ NoAbandonedLock

-----------------------------------------------------------------------------
(* Times *)

LEMMA HalfOfInterval == Half \in Nat /\ Half >= 1 /\ 2 * Half = Interval
BY LockAssumption, SMT DEF LockAssumption, Half

LEMMA LessOf == \A n \in Nat : Less(n) \in Nat /\ Less(n) <= n /\ (n > 0 => Less(n) = n - 1)
BY SMT DEF Less

\* An owner's update leaves its lock more time than the keep-alive timer takes.
LEMMA KeptAliveLock ==
  ASSUME NEW l \in Lock
  PROVE  KeptAlive(l) \in Lock /\ KeptAlive(l).id = l.id /\ KeptAlive(l).left > Half
<1>1. Interval \in Nat /\ 2 * Half = Interval /\ Half >= 1 /\ Half \in Nat
  BY HalfOfInterval, LockAssumption, Zenon DEF LockAssumption
<1>2. l.id \in Request /\ l.left \in 0..Interval /\ l = [id |-> l.id, left |-> l.left]
  BY SMT DEF Lock
<1>3. CASE 5 * l.left < 4 * Interval
  <2>1. KeptAlive(l) = [l EXCEPT !.left = Interval]
    BY <1>3, Zenon DEF KeptAlive
  <2>2. [l EXCEPT !.left = Interval] = [id |-> l.id, left |-> Interval]
    BY <1>2, SMT
  <2> QED
    BY <1>1, <1>2, <2>1, <2>2, SMT DEF Lock
<1>4. CASE ~ (5 * l.left < 4 * Interval)
  <2>1. KeptAlive(l) = l
    BY <1>4, Zenon DEF KeptAlive
  <2> QED
    BY <1>1, <1>2, <1>4, <2>1, SMT
<1> QED
  BY <1>3, <1>4, Zenon

-----------------------------------------------------------------------------
(* What a modification does to the store *)

New(r) == [id |-> r, left |-> Interval]
Asking(p) == pending \cap Mine(p)

\* What it does with one lock that it does not purge, and in all.
Left(p, k) == IF k.id \in stale[p] THEN KeptAlive(k) ELSE k
Modified(p, served) ==
  /\ \A l \in db' : \/ \E r \in served : l = New(r)
                    \/ \E k \in db : ~ Purges(p, k) /\ l = Left(p, k)
  /\ \A k \in db : ~ Purges(p, k) => Left(p, k) \in db'
  /\ \A r \in served : New(r) \in db'
  /\ \A k, l \in db' : k = l
  /\ given' = given \cup served
  /\ denied' \subseteq denied \cup (Asking(p) \ served)
  /\ stale' = [stale EXCEPT ![p] =
                 (@ \cup {k.id : k \in {l \in db : Purges(p, l)}})
                   \ {k.id : k \in {l \in db : ~ Purges(p, l) /\ l.id \in stale[p]}}]
  /\ expiry' = [expiry EXCEPT ![p] = @ \cup Watch(Asking(p) \ served, db')]

LEMMA ModifyEffect ==
  ASSUME Store, Single, Held, NEW p \in Process, Modify(p)
  PROVE  \E served \in SUBSET Asking(p) : Modified(p, served)
<1> DEFINE purged == {l \in db : Purges(p, l)}
           mine   == {l \in db \ purged : l.id \in stale[p]}
           kept   == ((db \ purged) \ mine) \cup {KeptAlive(l) : l \in mine}
<1>1. PICK served \in Served(Asking(p), kept) :
        /\ db' = kept \cup {New(r) : r \in served}
        /\ given' = given \cup served
        /\ denied' = denied \cup ((Asking(p) \ served) \cap TryRequest)
        /\ expiry' = [expiry EXCEPT ![p] = @ \cup Watch(Asking(p) \ served, db')]
        /\ stale' = [stale EXCEPT ![p] =
                       (@ \cup {l.id : l \in purged}) \ {l.id : l \in mine}]
  BY Zenon DEF Modify, New, Asking
<1>2. served \subseteq Asking(p) /\ (served = {} \/ (kept = {} /\ \E r \in Asking(p) : served = {r}))
  BY SMT DEF Served
<1>3. mine = {l \in db : ~ Purges(p, l) /\ l.id \in stale[p]}
  BY Zenon
<1>4. \A l \in kept : \E k \in db : ~ Purges(p, k) /\ l = Left(p, k)
  BY Zenon DEF Left
<1>5. \A k \in db : ~ Purges(p, k) => Left(p, k) \in kept
  <2> SUFFICES ASSUME NEW k \in db, ~ Purges(p, k)
               PROVE  Left(p, k) \in kept
    BY Zenon
  <2>1. CASE k.id \in stale[p]
    BY <2>1, SMT DEF Left
  <2>2. CASE k.id \notin stale[p]
    BY <2>2, SMT DEF Left
  <2> QED BY <2>1, <2>2, Zenon
<1>6. \A k, l \in kept : k = l
  <2> HIDE DEF kept
  <2> QED BY <1>4, Zenon DEF Single
<1>7. \A k, l \in db' : k = l
  <2> HIDE DEF kept
  <2>1. CASE served = {}
    BY <1>1, <1>6, <2>1, Zenon
  <2>2. CASE kept = {} /\ \E r \in Asking(p) : served = {r}
    BY <1>1, <2>2, Zenon
  <2> QED BY <1>2, <2>1, <2>2, Zenon
<1>8. \A l \in db' : (\E r \in served : l = New(r)) \/ l \in kept
  BY <1>1, Zenon
<1>9. \A r \in served : New(r) \in db'
  BY <1>1, Zenon
<1>10. \A k \in kept : k \in db'
  BY <1>1, Zenon
<1>11. denied' \subseteq denied \cup (Asking(p) \ served)
  BY <1>1, Zenon
<1>12. stale' = [stale EXCEPT ![p] =
                   (@ \cup {k.id : k \in {l \in db : Purges(p, l)}})
                     \ {k.id : k \in {l \in db : ~ Purges(p, l) /\ l.id \in stale[p]}}]
  BY <1>1, <1>3, Zenon
<1> HIDE DEF kept, mine, purged
<1>13. \A l \in db' : \/ \E r \in served : l = New(r)
                      \/ \E k \in db : ~ Purges(p, k) /\ l = Left(p, k)
  BY <1>4, <1>8, Zenon
<1>14. \A k \in db : ~ Purges(p, k) => Left(p, k) \in db'
  BY <1>5, <1>10, Zenon
<1>15. Modified(p, served)
  BY <1>1, <1>7, <1>9, <1>11, <1>12, <1>13, <1>14, Zenon DEF Modified
<1> QED BY <1>2, <1>15, Zenon

-----------------------------------------------------------------------------
(* Type correctness *)

LEMMA StorePreserved ==
  ASSUME Store, Single, Held, [Next]_vars
  PROVE  Store' /\ Single'
<1>1. CASE \E r \in Request : RequestLock(r) \/ ReleaseLock(r)
  BY <1>1, Zenon DEF Store, Single, RequestLock, ReleaseLock
<1>2. ASSUME NEW p \in Process, Modify(p)
      PROVE  Store' /\ Single'
  <2>1. PICK served \in SUBSET Asking(p) :
          /\ \A l \in db' : \/ \E r \in served : l = New(r)
                            \/ \E k \in db : /\ ~ Purges(p, k)
                                             /\ l = IF k.id \in stale[p] THEN KeptAlive(k) ELSE k
          /\ \A k, l \in db' : k = l
    BY <1>2, ModifyEffect, Zenon DEF Modified, Left
  <2>2. \A r \in Request : New(r) \in Lock
    BY HalfOfInterval, SMT DEF New, Lock
  <2>3. \A k \in db : KeptAlive(k) \in Lock /\ k \in Lock
    BY KeptAliveLock, Zenon DEF Store
  <2>4. \A r \in served : r \in Request
    BY Zenon DEF Asking, Mine
  <2>5. \A l \in db' : l \in Lock
    <3> SUFFICES ASSUME NEW l \in db' PROVE l \in Lock
      OBVIOUS
    <3>1. CASE \E r \in served : l = New(r)
      BY <2>2, <2>4, <3>1, Zenon
    <3>2. CASE \E k \in db : l = IF k.id \in stale[p] THEN KeptAlive(k) ELSE k
      BY <2>3, <3>2, Zenon
    <3> QED BY <2>1, <3>1, <3>2, Zenon
  <2> QED BY <2>1, <2>5, Zenon DEF Store, Single
<1>3. CASE \E p \in Process : \/ Begin(p) \/ ExpirationTimer(p) \/ Notify(p)
                              \/ Sleep(p) \/ Wake(p) \/ Crash(p) \/ Launch(p)
  BY <1>3, Zenon DEF Store, Single, Begin, ExpirationTimer, Notify, Sleep, Wake, Crash, Launch
<1>4. CASE Tick
  <2>1. \A l \in Lock : [l EXCEPT !.left = Less(@)] \in Lock
    BY LessOf, HalfOfInterval, SMT DEF Lock
  <2>2. db' = {[l EXCEPT !.left = Less(@)] : l \in db}
    BY <1>4, Zenon DEF Tick
  <2> QED BY <2>1, <2>2, Zenon DEF Store, Single
<1>5. CASE UNCHANGED vars
  BY <1>5, Zenon DEF Store, Single, vars
<1> QED BY <1>1, <1>2, <1>3, <1>4, <1>5, Zenon DEF Next, Update

LEMMA ClocksPreserved ==
  ASSUME Clocks, Store, Single, Held, [Next]_vars
  PROVE  Clocks'
<1>1. CASE \E r \in Request : RequestLock(r) \/ ReleaseLock(r)
  BY <1>1, Zenon DEF Clocks, RequestLock, ReleaseLock
<1>2. ASSUME NEW p \in Process, Modify(p)
      PROVE  Clocks'
  <2>1. PICK served \in SUBSET Asking(p) :
          expiry' = [expiry EXCEPT ![p] = @ \cup Watch(Asking(p) \ served, db')]
    BY <1>2, ModifyEffect, Zenon DEF Modified, Left
  <2>2. db' \subseteq Lock
    BY <1>2, StorePreserved, Zenon DEF Next, Update, Store
  <2>3. \A l \in db' : l.left \in 0..Interval
    BY <2>2, SMT DEF Lock
  <2>4. Watch(Asking(p) \ served, db') \subseteq 0..Interval
    BY <2>3, Zenon DEF Watch
  <2>5. keepAlive' = keepAlive
    BY <1>2, Zenon DEF Modify
  <2> QED BY <2>1, <2>4, <2>5, Zenon DEF Clocks
<1>3. ASSUME NEW p \in Process, Notify(p)
      PROVE  Clocks'
  <2>1. \E n \in {keepAlive[p], {Half}} : keepAlive' = [keepAlive EXCEPT ![p] = n]
    <3>1. PICK holds : keepAlive' = [keepAlive EXCEPT ![p] = NextKeepAlive(p, holds)]
      BY <1>3, Zenon DEF Notify
    <3>2. NextKeepAlive(p, holds) \in {keepAlive[p], {Half}}
      BY Zenon DEF NextKeepAlive
    <3> QED BY <3>1, <3>2, Zenon
  <2>2. {Half} \in {{}} \cup {{n1} : n1 \in 0..Half}
    BY HalfOfInterval, SMT
  <2>3. expiry' = expiry
    BY <1>3, Zenon DEF Notify
  <2> QED BY <2>1, <2>2, <2>3, SMT DEF Clocks
<1>4. CASE \E p \in Process : \/ Begin(p) \/ ExpirationTimer(p)
                              \/ Sleep(p) \/ Wake(p) \/ Crash(p) \/ Launch(p)
  BY <1>4, Zenon DEF Clocks, Begin, ExpirationTimer, Sleep, Wake, Crash, Launch, manager
<1>5. CASE Tick
  <2>1. \A i \in Nat : \A m \in 0..i : Less(m) \in 0..i
    BY LessOf, SMT
  <2>2. \A p \in Process : {Less(n) : n \in expiry[p]} \in SUBSET (0..Interval)
    BY <2>1, LockAssumption, Zenon DEF Clocks, LockAssumption
  <2>3. ASSUME NEW p \in Process
        PROVE  {Less(n) : n \in keepAlive[p]} \in {{}} \cup {{n} : n \in 0..Half}
    <3>1. CASE keepAlive[p] = {}
      <4>1. {Less(n) : n \in keepAlive[p]} = {}
        BY <3>1, Zenon
      <4> QED BY <4>1, Zenon
    <3>2. ASSUME NEW m \in 0..Half, keepAlive[p] = {m}
          PROVE  {Less(n) : n \in keepAlive[p]} \in {{n} : n \in 0..Half}
      <4>1. {Less(n) : n \in keepAlive[p]} = {Less(m)}
        BY <3>2, Zenon
      <4>2. Less(m) \in 0..Half
        BY <2>1, HalfOfInterval, Zenon
      <4> QED BY <4>1, <4>2, Zenon
    <3> QED BY <3>1, <3>2, Zenon DEF Clocks
  <2> QED BY <1>5, <2>2, <2>3, Zenon DEF Tick, Clocks
<1>6. CASE UNCHANGED vars
  BY <1>6, Zenon DEF Clocks, vars, manager
<1> QED BY <1>1, <1>2, <1>3, <1>4, <1>5, <1>6, Zenon DEF Next, Update

LEMMA StepsPreserved ==
  ASSUME Steps, [Next]_vars
  PROVE  Steps'
<1>1. CASE \E r \in Request : RequestLock(r)
  BY <1>1, SMT DEF Steps, RequestLock
<1>2. CASE \E r \in Request : ReleaseLock(r)
  BY <1>2, SMT DEF Steps, ReleaseLock
<1>3. CASE \E p \in Process : Begin(p)
  BY <1>3, SMT DEF Steps, Begin
<1>4. CASE \E p \in Process : ExpirationTimer(p)
  BY <1>4, SMT DEF Steps, ExpirationTimer
<1>5. CASE \E p \in Process : Modify(p)
  BY <1>5, Zenon DEF Steps, Modify
<1>6. CASE \E p \in Process : Notify(p)
  BY <1>6, SMT DEF Steps, Notify
<1>7. CASE \E p \in Process : Sleep(p)
  BY <1>7, SMT DEF Steps, Sleep, manager
<1>8. CASE \E p \in Process : Wake(p) \/ Launch(p)
  BY <1>8, SMT DEF Steps, Wake, Launch, manager
<1>9. CASE \E p \in Process : Crash(p)
  BY <1>9, SMT DEF Steps, Crash
<1>10. CASE Tick
  BY <1>10, Zenon DEF Steps, Tick
<1>11. CASE UNCHANGED vars
  BY <1>11, Zenon DEF Steps, vars, manager
<1> QED
  BY <1>1, <1>2, <1>3, <1>4, <1>5, <1>6, <1>7, <1>8, <1>9, <1>10, <1>11, Zenon DEF Next, Update

LEMMA NeedsPreserved ==
  ASSUME Needs, [Next]_vars
  PROVE  Needs'
<1>1. CASE \E r \in Request : RequestLock(r) \/ ReleaseLock(r)
  BY <1>1, Zenon DEF Needs, RequestLock, ReleaseLock
<1>2. ASSUME NEW p \in Process, Modify(p)
      PROVE  Needs'
  <2>1. \E set \in [Process -> BOOLEAN] : needs' = set
    BY <1>2, Zenon DEF Needs, Modify
  <2> QED BY <2>1, Zenon DEF Needs
<1>3. CASE \E p \in Process : \/ Begin(p) \/ ExpirationTimer(p) \/ Notify(p)
                              \/ Sleep(p) \/ Wake(p) \/ Crash(p) \/ Launch(p)
  BY <1>3, Zenon DEF Needs, Begin, ExpirationTimer, Notify, Sleep, Wake, Crash, Launch, manager
<1>4. CASE Tick
  BY <1>4, Zenon DEF Needs, Tick
<1>5. CASE UNCHANGED vars
  BY <1>5, Zenon DEF Needs, vars, manager
<1> QED BY <1>1, <1>2, <1>3, <1>4, <1>5, Zenon DEF Next, Update

LEMMA HeldPreserved ==
  ASSUME Store, Single, Held, [Next]_vars
  PROVE  Held'
<1>1. CASE \E r \in Request : RequestLock(r)
  BY <1>1, SMT DEF Held, RequestLock
<1>2. CASE \E r \in Request : ReleaseLock(r)
  BY <1>2, SMT DEF Held, ReleaseLock
<1>3. CASE \E p \in Process : Begin(p)
  BY <1>3, SMT DEF Held, Begin
<1>4. CASE \E p \in Process : ExpirationTimer(p)
  BY <1>4, SMT DEF Held, ExpirationTimer
<1>5. ASSUME NEW p \in Process, Modify(p)
      PROVE  Held'
  <2>1. PICK served \in SUBSET Asking(p) :
          /\ given' = given \cup served
          /\ denied' \subseteq denied \cup (Asking(p) \ served)
          /\ stale' = [stale EXCEPT ![p] =
                         (@ \cup {k.id : k \in {l \in db : Purges(p, l)}})
                           \ {k.id : k \in {l \in db : ~ Purges(p, l) /\ l.id \in stale[p]}}]
    BY <1>5, ModifyEffect, Zenon DEF Modified, Left
  <2>2. \A k \in db : k.id \in Request
    BY SMT DEF Store, Lock
  <2>3. {k.id : k \in {l \in db : Purges(p, l)}} \subseteq Request
    BY <2>2, Zenon
  <2>4. Asking(p) \subseteq Request
    BY Zenon DEF Asking, Mine
  <2>5. pending' \subseteq Request /\ tracked' \subseteq Request /\ released' \subseteq Request
        /\ doubtful' \subseteq Request
    BY <1>5, Zenon DEF Modify, Held
  <2>6. given' \subseteq Request /\ denied' \subseteq Request
    BY <2>1, <2>4, SMT DEF Held
  <2> DEFINE purged == {k.id : k \in {l \in db : Purges(p, l)}}
             mine   == {k.id : k \in {l \in db : ~ Purges(p, l) /\ l.id \in stale[p]}}
  <2>7. stale' = [stale EXCEPT ![p] = (@ \cup purged) \ mine]
    BY <2>1, Zenon
  <2>8. purged \subseteq Request
    BY <2>3, Zenon
  <2> HIDE DEF purged, mine
  <2>9. stale' \in [Process -> SUBSET Request]
    BY <2>7, <2>8, SMT DEF Held
  <2> QED BY <2>5, <2>6, <2>9, Zenon DEF Held
<1>6. CASE \E p \in Process : Notify(p)
  BY <1>6, SMT DEF Held, Notify, Mine
<1>7. CASE \E p \in Process : Sleep(p)
  BY <1>7, SMT DEF Held, Sleep, manager, Mine
<1>8. CASE \E p \in Process : Wake(p) \/ Launch(p)
  BY <1>8, SMT DEF Held, Wake, Launch, manager
<1>9. CASE \E p \in Process : Crash(p)
  BY <1>9, SMT DEF Held, Crash
<1>10. CASE Tick
  BY <1>10, Zenon DEF Held, Tick
<1>11. CASE UNCHANGED vars
  BY <1>11, Zenon DEF Held, vars, manager
<1> QED
  BY <1>1, <1>2, <1>3, <1>4, <1>5, <1>6, <1>7, <1>8, <1>9, <1>10, <1>11, Zenon DEF Next, Update

LEMMA CountedPreserved ==
  ASSUME Counted, [Next]_vars
  PROVE  Counted'
<1> USE LockAssumption DEF LockAssumption
<1>1. CASE \E p \in Process : Sleep(p)
  BY <1>1, SMT DEF Counted, Sleep
<1>2. CASE \E p \in Process : Crash(p)
  BY <1>2, SMT DEF Counted, Crash
<1>3. CASE \E p \in Process : Update(p) \/ Wake(p) \/ Launch(p)
  BY <1>3, Zenon DEF Counted, Update, Begin, ExpirationTimer, Modify, Notify, Wake, Launch
<1>4. CASE \E r \in Request : RequestLock(r) \/ ReleaseLock(r)
  BY <1>4, Zenon DEF Counted, RequestLock, ReleaseLock
<1>5. CASE Tick
  BY <1>5, Zenon DEF Counted, Tick
<1>6. CASE UNCHANGED vars
  BY <1>6, Zenon DEF Counted, vars
<1> QED BY <1>1, <1>2, <1>3, <1>4, <1>5, <1>6, Zenon DEF Next

LEMMA TypePreserved ==
  ASSUME TypeOK, [Next]_vars
  PROVE  TypeOK'
<1>1. Store /\ Single /\ Clocks /\ Steps /\ Needs /\ Held /\ Counted
  BY TypeParts, Zenon
<1>2. Store' /\ Single' /\ Clocks' /\ Steps' /\ Needs' /\ Held' /\ Counted'
  BY <1>1, StorePreserved, ClocksPreserved, StepsPreserved, NeedsPreserved, HeldPreserved,
     CountedPreserved, Zenon
<1> QED
  BY <1>2, Zenon DEF TypeOK, Store, Single, Clocks, Steps, Needs, Held, Counted

LEMMA TypeOfParts == ASSUME TypeOK PROVE Store /\ Single /\ Clocks /\ Steps /\ Needs /\ Held
BY TypeParts, Zenon

-----------------------------------------------------------------------------
(* What an update tells its clients *)

Got(p)  == given \cap Mine(p)
No(p)   == denied \cap Mine(p)
Lost(p) == ((tracked \cap Mine(p)) \cup Got(p)) \cap stale[p]

LEMMA NotifyEffect ==
  ASSUME Held, Steps, Clients, NEW p \in Process, Notify(p)
  PROVE  /\ pending' = pending \ (Got(p) \cup No(p))
         /\ tracked' = (tracked \cup Got(p)) \ Lost(p)
         /\ doubtful' = doubtful \ Lost(p)
         /\ given' = given \ Mine(p) /\ denied' = denied \ Mine(p)
         /\ \A r \in Lost(p) \cup No(p) : client'[r] = "done"
         /\ \A r \in Got(p) \ Lost(p) : client'[r] = "holding"
         /\ \A r \in Request \ (Lost(p) \cup No(p) \cup Got(p)) : client'[r] = client[r]
<1>1. /\ pending' = pending \ (Got(p) \cup No(p))
      /\ tracked' = (tracked \cup Got(p)) \ Lost(p)
      /\ doubtful' = doubtful \ Lost(p)
      /\ given' = given \ Mine(p) /\ denied' = denied \ Mine(p)
      /\ client' = [r \in Request |-> CASE r \in Lost(p) \cup No(p) -> "done"
                                        [] r \in Got(p) \ Lost(p) -> "holding"
                                        [] OTHER -> client[r]]
  BY Zenon DEF Notify, Got, No, Lost
<1>2. Got(p) \cup No(p) \cup Lost(p) \subseteq Request /\ Got(p) \cap No(p) = {}
  BY SMT DEF Held, Clients, Got, No, Lost, Mine
<1>3. \A r \in Request :
        /\ r \in Lost(p) \cup No(p) => client'[r] = "done"
        /\ r \in Got(p) \ Lost(p) => client'[r] = "holding"
        /\ r \notin Lost(p) \cup No(p) \cup Got(p) => client'[r] = client[r]
  BY <1>1, <1>2, SMT
<1> QED BY <1>1, <1>2, <1>3, SMT

-----------------------------------------------------------------------------
(* Clients *)

LEMMA ClientsPreserved ==
  ASSUME TypeOK, Clients, [Next]_vars
  PROVE  Clients'
<1>0. Store /\ Single /\ Clocks /\ Steps /\ Needs /\ Held
  BY TypeOfParts, Zenon
<1>1. CASE \E r \in Request : RequestLock(r)
  BY <1>0, <1>1, SMT DEF Clients, Held, Steps, RequestLock
<1>2. CASE \E r \in Request : ReleaseLock(r)
  BY <1>0, <1>2, SMT DEF Clients, Held, Steps, ReleaseLock
<1>3. ASSUME NEW p \in Process, Begin(p)
      PROVE  Clients'
  <2>1. /\ step[p] = "idle" /\ step' \in {step, [step EXCEPT ![p] = "modify"]}
        /\ UNCHANGED <<tracked, client, pending, given, denied, released>>
    BY <1>3, Zenon DEF Begin
  <2>2. \A r \in given \cup denied : step'[Owner[r]] = "notify"
    <3>1. \A r \in given \cup denied : Owner[r] \in Process /\ step[Owner[r]] = "notify"
      BY <1>0, LockAssumption, SMT DEF Clients, Held, LockAssumption
    <3> QED BY <1>0, <2>1, <3>1, SMT DEF Steps
  <2> QED BY <2>1, <2>2, Zenon DEF Clients
<1>4. CASE \E p \in Process : ExpirationTimer(p)
  BY <1>4, Zenon DEF Clients, ExpirationTimer
<1>5. ASSUME NEW p \in Process, Modify(p)
      PROVE  Clients'
  <2>1. PICK served \in SUBSET Asking(p) :
          /\ given' = given \cup served
          /\ denied' \subseteq denied \cup (Asking(p) \ served)
    BY <1>0, <1>5, ModifyEffect, Zenon DEF Modified, Left
  <2>2. /\ step[p] = "modify" /\ step' = [step EXCEPT ![p] = "notify"]
        /\ released' = released \ Mine(p)
        /\ pending' = pending /\ tracked' = tracked /\ client' = client
    BY <1>5, Zenon DEF Modify
  <2>3. \A r \in given \cup denied : Owner[r] # p
    BY <2>2, SMT DEF Clients
  <2>4. \A r \in Asking(p) : r \in pending /\ Owner[r] = p
    BY Zenon DEF Asking, Mine
  <2>5. given' \subseteq pending' /\ denied' \subseteq pending' \ given'
    BY <2>1, <2>2, <2>3, <2>4, SMT DEF Clients
  <2>6. \A r \in given' \cup denied' : step'[Owner[r]] = "notify"
    <3>1. \A r \in given' \cup denied' : r \in given \cup denied \/ Owner[r] = p
      BY <2>1, <2>4, Zenon
    <3> QED BY <1>0, <2>2, <3>1, SMT DEF Clients, Steps
  <2> QED BY <2>2, <2>5, <2>6, Zenon DEF Clients
<1>6. ASSUME NEW p \in Process, Notify(p)
      PROVE  Clients'
  <2>1. /\ pending' = pending \ (Got(p) \cup No(p))
        /\ tracked' = (tracked \cup Got(p)) \ Lost(p)
        /\ given' = given \ Mine(p) /\ denied' = denied \ Mine(p)
        /\ \A r \in Lost(p) \cup No(p) : client'[r] = "done"
        /\ \A r \in Got(p) \ Lost(p) : client'[r] = "holding"
        /\ \A r \in Request \ (Lost(p) \cup No(p) \cup Got(p)) : client'[r] = client[r]
    BY <1>0, <1>6, NotifyEffect, Zenon
  <2>2. released' = released /\ step' = [step EXCEPT ![p] = "idle"]
    BY <1>6, Zenon DEF Notify
  <2>3. /\ \A r \in Got(p) : r \in given /\ r \in pending /\ r \notin denied
        /\ \A r \in No(p) : r \in denied /\ r \in pending /\ r \notin given
        /\ \A r \in Lost(p) : r \in Got(p) \/ r \in tracked
        /\ \A r \in tracked : r \notin pending /\ r \notin released
        /\ \A r \in released : r \notin pending
        /\ \A r \in Got(p) \cup No(p) \cup Lost(p) : r \in Mine(p)
    BY SMT DEF Clients, Got, No, Lost
  <2>4. \A r \in tracked' : client'[r] = "holding"
    BY <1>0, <2>1, <2>3, SMT DEF Clients, Held
  <2>5. \A r \in pending' : client'[r] = "waiting"
    BY <1>0, <2>1, <2>3, SMT DEF Clients, Held
  <2>6. given' \subseteq pending' /\ denied' \subseteq pending' \ given'
    BY <2>1, <2>3, SMT DEF Clients
  <2>7. \A r \in released' : client'[r] = "done"
    BY <1>0, <2>1, <2>2, <2>3, SMT DEF Clients, Held
  <2>8. \A r \in given' \cup denied' : step'[Owner[r]] = "notify"
    <3>1. \A r \in given' \cup denied' : r \in given \cup denied /\ Owner[r] # p
      BY <1>0, <2>1, SMT DEF Held, Mine
    <3> QED BY <1>0, <2>2, <3>1, SMT DEF Clients, Steps
  <2> QED BY <2>4, <2>5, <2>6, <2>7, <2>8, Zenon DEF Clients
<1>7. CASE \E p \in Process : Sleep(p) \/ Wake(p) \/ Launch(p)
  BY <1>7, Zenon DEF Clients, Sleep, Wake, Launch, manager
<1>8. ASSUME NEW p \in Process, Crash(p)
      PROVE  Clients'
  <2>1. /\ pending' = pending \ Mine(p) /\ tracked' = tracked \ Mine(p)
        /\ released' = released \ Mine(p)
        /\ given' = given \ Mine(p) /\ denied' = denied \ Mine(p)
        /\ step' = [step EXCEPT ![p] = "idle"]
        /\ client' = [r \in Request |->
                        IF Owner[r] = p /\ client[r] # "new" THEN "gone" ELSE client[r]]
    BY <1>8, Zenon DEF Crash
  <2>2. \A r \in Request : r \notin Mine(p) =>
          Owner[r] # p /\ client'[r] = client[r] /\ step'[Owner[r]] = step[Owner[r]]
    BY <1>0, <2>1, LockAssumption, SMT DEF Mine, LockAssumption, Steps
  <2> QED BY <1>0, <2>1, <2>2, SMT DEF Clients, Held
<1>9. CASE Tick
  BY <1>9, Zenon DEF Clients, Tick
<1>10. CASE UNCHANGED vars
  BY <1>10, Zenon DEF Clients, vars, manager
<1> QED
  BY <1>1, <1>2, <1>3, <1>4, <1>5, <1>6, <1>7, <1>8, <1>9, <1>10, Zenon DEF Next, Update

\* A request that a lock may name stays one.
LEMMA KnownStays ==
  ASSUME TypeOK, Clients, [Next]_vars, NEW r \in Request, Known(r)
  PROVE  Known(r)'
<1>0. Store /\ Single /\ Clocks /\ Steps /\ Needs /\ Held
  BY TypeOfParts, Zenon
<1>1. CASE \E q \in Request : RequestLock(q) \/ ReleaseLock(q)
  BY <1>0, <1>1, SMT DEF Known, RequestLock, ReleaseLock, Steps
<1>2. ASSUME NEW p \in Process, Modify(p)
      PROVE  Known(r)'
  BY <1>0, <1>2, Zenon DEF Known, Modify
<1>3. ASSUME NEW p \in Process, Notify(p)
      PROVE  Known(r)'
  <2>1. /\ given' = given \ Mine(p)
        /\ \A q \in Lost(p) \cup No(p) : client'[q] = "done"
        /\ \A q \in Got(p) \ Lost(p) : client'[q] = "holding"
        /\ \A q \in Request \ (Lost(p) \cup No(p) \cup Got(p)) : client'[q] = client[q]
    BY <1>0, <1>3, NotifyEffect, Zenon
  <2>2. CASE r \in Lost(p) \cup No(p) \cup Got(p)
    BY <2>1, <2>2, SMT DEF Known
  <2>3. CASE r \notin Lost(p) \cup No(p) \cup Got(p)
    BY <2>1, <2>3, SMT DEF Known, Got
  <2> QED BY <2>2, <2>3, Zenon
<1>4. CASE \E p \in Process : \/ Begin(p) \/ ExpirationTimer(p)
                              \/ Sleep(p) \/ Wake(p) \/ Launch(p)
  BY <1>4, Zenon DEF Known, Begin, ExpirationTimer, Sleep, Wake, Launch, manager
<1>5. ASSUME NEW p \in Process, Crash(p)
      PROVE  Known(r)'
  BY <1>0, <1>5, SMT DEF Known, Crash, Mine
<1>6. CASE Tick
  BY <1>6, Zenon DEF Known, Tick
<1>7. CASE UNCHANGED vars
  BY <1>7, Zenon DEF Known, vars, manager
<1> QED BY <1>1, <1>2, <1>3, <1>4, <1>5, <1>6, <1>7, Zenon DEF Next, Update

-----------------------------------------------------------------------------
(* Identifiers *)

\* Where the locks of the store after a modification come from.
LEMMA ModifiedLocks ==
  ASSUME TypeOK, Clients, NEW p \in Process, Modify(p)
  PROVE  \A l \in db' : \/ l.id \in Asking(p) /\ l.id \in given' /\ l.id \notin given
                        \/ \E k \in db : k.id = l.id /\ ~ Purges(p, k)
<1>0. Store /\ Single /\ Clocks /\ Steps /\ Needs /\ Held
  BY TypeOfParts, Zenon
<1>1. PICK served \in SUBSET Asking(p) :
        /\ \A l \in db' : \/ \E r \in served : l = New(r)
                          \/ \E k \in db : /\ ~ Purges(p, k)
                                           /\ l = IF k.id \in stale[p] THEN KeptAlive(k) ELSE k
        /\ given' = given \cup served
  BY <1>0, ModifyEffect, Zenon DEF Modified, Left
<1>2. \A k \in db : KeptAlive(k).id = k.id
  BY <1>0, KeptAliveLock, Zenon DEF Store
<1>3. \A r : New(r).id = r
  BY SMT DEF New
<1>4. \A r \in given : Owner[r] # p
  BY SMT DEF Clients, Modify
<1>5. \A r \in Asking(p) : Owner[r] = p
  BY Zenon DEF Asking, Mine
<1> SUFFICES ASSUME NEW l \in db'
             PROVE  \/ l.id \in Asking(p) /\ l.id \in given' /\ l.id \notin given
                    \/ \E k \in db : k.id = l.id /\ ~ Purges(p, k)
  OBVIOUS
<1>6. CASE \E r \in served : l = New(r)
  BY <1>1, <1>3, <1>4, <1>5, <1>6, Zenon
<1>7. ASSUME NEW k \in db, ~ Purges(p, k), l = IF k.id \in stale[p] THEN KeptAlive(k) ELSE k
      PROVE  k.id = l.id
  BY <1>2, <1>7, Zenon
<1> QED BY <1>1, <1>6, <1>7, Zenon

LEMMA IDsPreserved ==
  ASSUME TypeOK, Clients, IDs, [Next]_vars
  PROVE  IDs'
<1>0. Store /\ Single /\ Clocks /\ Steps /\ Needs /\ Held
  BY TypeOfParts, Zenon
<1>a. \A l \in db : l.id \in Request
  BY <1>0, SMT DEF Store, Lock
<1>b. \A r \in Request : Known(r) => Known(r)'
  BY KnownStays, Zenon
<1>c. \A l \in db : Known(l.id)'
  BY <1>a, <1>b, Zenon DEF IDs
<1>d. \A q \in Process : \A r \in stale[q] : Known(r)'
  BY <1>0, <1>b, Zenon DEF IDs, Held
<1>1. CASE \E r \in Request : RequestLock(r) \/ ReleaseLock(r)
  <2>1. db' = db /\ stale' = stale
    BY <1>1, Zenon DEF RequestLock, ReleaseLock
  <2> QED BY <1>c, <1>d, <2>1, Zenon DEF IDs
<1>2. ASSUME NEW p \in Process, Begin(p)
      PROVE  IDs'
  <2>1. db' = db /\ stale' \in {stale, [stale EXCEPT ![p] = tracked \cap Mine(p)]}
    BY <1>2, Zenon DEF Begin
  <2>2. \A r \in tracked : Known(r)'
    BY <1>0, <1>b, SMT DEF Known, Clients, Held
  <2>3. \A q \in Process : \A r \in stale'[q] : r \in stale[q] \/ r \in tracked
    BY <1>0, <2>1, SMT DEF Held
  <2> QED BY <1>c, <1>d, <2>1, <2>2, <2>3, Zenon DEF IDs
<1>3. ASSUME NEW p \in Process, Modify(p)
      PROVE  IDs'
  <2>1. PICK served \in SUBSET Asking(p) :
          /\ stale' = [stale EXCEPT ![p] =
                         (@ \cup {k.id : k \in {l \in db : Purges(p, l)}})
                           \ {k.id : k \in {l \in db : ~ Purges(p, l) /\ l.id \in stale[p]}}]
    BY <1>0, <1>3, ModifyEffect, Zenon DEF Modified, Left
  <2>2. \A q \in Process : \A r \in stale'[q] : r \in stale[q] \/ \E k \in db : r = k.id
    <3> DEFINE purged == {k.id : k \in {l \in db : Purges(p, l)}}
               mine   == {k.id : k \in {l \in db : ~ Purges(p, l) /\ l.id \in stale[p]}}
    <3>1. stale' = [stale EXCEPT ![p] = (@ \cup purged) \ mine]
      BY <2>1, Zenon
    <3>2. \A r \in purged : \E k \in db : r = k.id
      BY Zenon
    <3> HIDE DEF purged, mine
    <3> QED BY <1>0, <3>1, <3>2, SMT DEF Held
  <2>3. \A l \in db' : Known(l.id)'
    <3> SUFFICES ASSUME NEW l \in db' PROVE Known(l.id)'
      OBVIOUS
    <3>1. CASE l.id \in Asking(p) /\ l.id \in given'
      <4>1. l.id \in pending /\ client' = client
        BY <1>3, <3>1, Zenon DEF Asking, Modify
      <4> QED BY <3>1, <4>1, SMT DEF Clients, Known
    <3>2. CASE \E k \in db : k.id = l.id
      BY <1>c, <3>2, Zenon
    <3> QED BY <1>3, <3>1, <3>2, ModifiedLocks, Zenon
  <2> QED BY <1>c, <1>d, <2>2, <2>3, Zenon DEF IDs
<1>4. ASSUME NEW p \in Process, Notify(p) \/ Crash(p)
      PROVE  IDs'
  <2>1. db' = db /\ stale' = [stale EXCEPT ![p] = {}]
    BY <1>4, Zenon DEF Notify, Crash
  <2>2. \A q \in Process : \A r \in stale'[q] : r \in stale[q]
    BY <1>0, <2>1, SMT DEF Held
  <2> QED BY <1>c, <1>d, <2>1, <2>2, Zenon DEF IDs
<1>5. CASE \E p \in Process : ExpirationTimer(p) \/ Sleep(p) \/ Wake(p) \/ Launch(p)
  <2>1. db' = db /\ stale' = stale
    BY <1>5, Zenon DEF ExpirationTimer, Sleep, Wake, Launch, manager
  <2> QED BY <1>c, <1>d, <2>1, Zenon DEF IDs
<1>6. CASE Tick
  <2>1. stale' = stale
    BY <1>6, Zenon DEF Tick
  <2>2. \A l \in db' : \E k \in db : l.id = k.id
    <3>1. \A k \in Lock : [k EXCEPT !.left = Less(@)].id = k.id
      BY SMT DEF Lock
    <3> QED BY <1>0, <1>6, <3>1, Zenon DEF Tick, Store
  <2> QED BY <1>c, <1>d, <2>1, <2>2, Zenon DEF IDs
<1>7. CASE UNCHANGED vars
  <2>1. db' = db /\ stale' = stale
    BY <1>7, Zenon DEF vars, manager
  <2> QED BY <1>c, <1>d, <2>1, Zenon DEF IDs
<1> QED BY <1>1, <1>2, <1>3, <1>4, <1>5, <1>6, <1>7, Zenon DEF Next, Update

-----------------------------------------------------------------------------
(* What an update calls stale *)

\* A modification calls no lock stale that it leaves in the store as its own.
LEMMA ModifiedStale ==
  ASSUME TypeOK, Clients, IDs, Stale, NEW p \in Process, Modify(p)
  PROVE  \A l \in db' : Owner[l.id] = p => l.id \notin stale'[p]
<1>0. Store /\ Single /\ Clocks /\ Steps /\ Needs /\ Held
  BY TypeOfParts, Zenon
<1>1. PICK served \in SUBSET Asking(p) :
        /\ stale' = [stale EXCEPT ![p] =
                       (@ \cup {k.id : k \in {l \in db : Purges(p, l)}})
                         \ {k.id : k \in {l \in db : ~ Purges(p, l) /\ l.id \in stale[p]}}]
  BY <1>0, ModifyEffect, Zenon DEF Modified, Left
<1> DEFINE purged == {k.id : k \in {l \in db : Purges(p, l)}}
           mine   == {k.id : k \in {l \in db : ~ Purges(p, l) /\ l.id \in stale[p]}}
<1>2. stale'[p] = (stale[p] \cup purged) \ mine
  BY <1>0, <1>1, Zenon DEF Held
<1>3. \A r \in purged : \E k \in db : r = k.id /\ Purges(p, k)
  BY Zenon
<1>4. \A k \in db : ~ Purges(p, k) /\ k.id \in stale[p] => k.id \in mine
  BY Zenon
<1> HIDE DEF purged, mine
<1> SUFFICES ASSUME NEW l \in db', Owner[l.id] = p
             PROVE  l.id \notin stale'[p]
  OBVIOUS
<1>5. CASE l.id \in Asking(p) /\ l.id \notin given
  <2>1. ~ Known(l.id)
    BY <1>5, SMT DEF Asking, Clients, Known
  <2>2. l.id \notin stale[p] /\ \A k \in db : k.id # l.id
    BY <2>1, Zenon DEF IDs
  <2> QED BY <1>2, <1>3, <2>2, Zenon
<1>6. ASSUME NEW k \in db, k.id = l.id, ~ Purges(p, k)
      PROVE  l.id \notin stale'[p]
  <2>1. l.id \notin purged
    BY <1>0, <1>3, <1>6, Zenon DEF Single
  <2> QED BY <1>2, <1>4, <1>6, <2>1, Zenon
<1> QED BY <1>5, <1>6, ModifiedLocks, Zenon

LEMMA StalePreserved ==
  ASSUME TypeOK, Clients, IDs, Stale, [Next]_vars
  PROVE  Stale'
<1>0. Store /\ Single /\ Clocks /\ Steps /\ Needs /\ Held
  BY TypeOfParts, Zenon
<1>1. CASE \E r \in Request : RequestLock(r) \/ ReleaseLock(r)
  <2>1. db' = db /\ stale' = stale /\ step' = step /\ tracked' \subseteq tracked
    BY <1>1, SMT DEF RequestLock, ReleaseLock
  <2> QED BY <2>1, Zenon DEF Stale
<1>2. ASSUME NEW p \in Process, Begin(p)
      PROVE  Stale'
  <2>1. /\ db' = db /\ tracked' = tracked
        /\ \/ step' = step /\ stale' = stale
           \/ /\ step' = [step EXCEPT ![p] = "modify"]
              /\ stale' = [stale EXCEPT ![p] = tracked \cap Mine(p)]
    BY <1>2, Zenon DEF Begin
  <2>2. ASSUME NEW q \in Process
        PROVE  /\ step'[q] = "modify" => (tracked' \cap Mine(q) \subseteq stale'[q] /\ stale'[q] \subseteq Mine(q))
               /\ step'[q] = "notify" => (step[q] = "notify" /\ stale'[q] = stale[q])
    <3>1. CASE step' = step /\ stale' = stale
      BY <2>1, <3>1, Zenon DEF Stale
    <3>2. CASE /\ step' = [step EXCEPT ![p] = "modify"]
               /\ stale' = [stale EXCEPT ![p] = tracked \cap Mine(p)]
      <4>1. CASE q = p
        BY <1>0, <2>1, <3>2, <4>1, SMT DEF Steps, Held
      <4>2. CASE q # p
        <5>1. step'[q] = step[q] /\ stale'[q] = stale[q]
          BY <1>0, <3>2, <4>2, Zenon DEF Steps, Held
        <5> QED BY <2>1, <5>1, Zenon DEF Stale
      <4> QED BY <4>1, <4>2, Zenon
    <3> QED BY <2>1, <3>1, <3>2, Zenon
  <2> QED BY <2>1, <2>2, Zenon DEF Stale
<1>3. ASSUME NEW p \in Process, Modify(p)
      PROVE  Stale'
  <2>1. step' = [step EXCEPT ![p] = "notify"] /\ tracked' = tracked
    BY <1>3, Zenon DEF Modify
  <2>2. \A q \in Process : q # p => stale'[q] = stale[q] /\ step'[q] = step[q]
    <3>1. PICK new : stale' = [stale EXCEPT ![p] = new]
      BY <1>3, Zenon DEF Modify
    <3> QED BY <1>0, <2>1, <3>1, Zenon DEF Held, Steps
  <2>3. ASSUME NEW q \in Process, q # p, step[q] = "notify", NEW l \in db', Owner[l.id] = q
        PROVE  l.id \notin stale'[q]
    <3>1. PICK k \in db : k.id = l.id
      BY <1>3, <2>3, ModifiedLocks, Zenon DEF Asking, Mine
    <3> QED BY <2>2, <2>3, <3>1, Zenon DEF Stale
  <2>4. ASSUME NEW q \in Process
        PROVE  /\ step'[q] = "modify" => (tracked' \cap Mine(q) \subseteq stale'[q] /\ stale'[q] \subseteq Mine(q))
               /\ step'[q] = "notify" => (\A l \in db' : Owner[l.id] = q => l.id \notin stale'[q])
    <3>1. CASE q = p
      <4>1. step'[q] = "notify"
        BY <1>0, <2>1, <3>1, Zenon DEF Steps
      <4> QED BY <1>3, <3>1, <4>1, ModifiedStale, SMT
    <3>2. CASE q # p
      <4>1. step'[q] = "modify" => (tracked' \cap Mine(q) \subseteq stale'[q] /\ stale'[q] \subseteq Mine(q))
        BY <2>1, <2>2, <3>2, Zenon DEF Stale
      <4>2. step'[q] = "notify" => (\A l \in db' : Owner[l.id] = q => l.id \notin stale'[q])
        BY <2>2, <2>3, <3>2, Zenon
      <4> QED BY <4>1, <4>2, Zenon
    <3> QED BY <3>1, <3>2, Zenon
  <2> QED BY <2>4, Zenon DEF Stale
<1>4. ASSUME NEW p \in Process, Notify(p) \/ Crash(p)
      PROVE  Stale'
  <2>1. db' = db /\ stale' = [stale EXCEPT ![p] = {}] /\ step' = [step EXCEPT ![p] = "idle"]
    BY <1>4, Zenon DEF Notify, Crash
  <2>2. tracked' \subseteq tracked \cup Mine(p)
    BY <1>4, SMT DEF Notify, Crash
  <2>3. \A q \in Process : q # p => stale'[q] = stale[q] /\ step'[q] = step[q]
                                    /\ Mine(q) \cap Mine(p) = {}
    BY <1>0, <2>1, SMT DEF Held, Steps, Mine
  <2>4. step'[p] = "idle"
    BY <1>0, <2>1, Zenon DEF Steps
  <2>5. ASSUME NEW q \in Process
        PROVE  /\ step'[q] = "modify" => (tracked' \cap Mine(q) \subseteq stale'[q] /\ stale'[q] \subseteq Mine(q))
               /\ step'[q] = "notify" => (\A l \in db' : Owner[l.id] = q => l.id \notin stale'[q])
    <3>1. CASE q = p
      BY <2>4, <3>1, SMT
    <3>2. CASE q # p
      <4>1. tracked' \cap Mine(q) \subseteq tracked \cap Mine(q)
        BY <2>2, <2>3, <3>2, SMT
      <4> QED BY <2>1, <2>3, <3>2, <4>1, SMT DEF Stale
    <3> QED BY <3>1, <3>2, Zenon
  <2> QED BY <2>5, Zenon DEF Stale
<1>5. CASE \E p \in Process : ExpirationTimer(p) \/ Sleep(p) \/ Wake(p) \/ Launch(p)
  <2>1. db' = db /\ stale' = stale /\ step' = step /\ tracked' = tracked
    BY <1>5, Zenon DEF ExpirationTimer, Sleep, Wake, Launch, manager
  <2> QED BY <2>1, Zenon DEF Stale
<1>6. CASE Tick
  <2>1. stale' = stale /\ step' = step /\ tracked' = tracked
    BY <1>6, Zenon DEF Tick
  <2>2. \A l \in db' : \E k \in db : l.id = k.id
    <3>1. \A k \in Lock : [k EXCEPT !.left = Less(@)].id = k.id
      BY SMT DEF Lock
    <3> QED BY <1>0, <1>6, <3>1, Zenon DEF Tick, Store
  <2> QED BY <2>1, <2>2, Zenon DEF Stale
<1>7. CASE UNCHANGED vars
  <2>1. db' = db /\ stale' = stale /\ step' = step /\ tracked' = tracked
    BY <1>7, Zenon DEF vars, manager
  <2> QED BY <2>1, Zenon DEF Stale
<1> QED BY <1>1, <1>2, <1>3, <1>4, <1>5, <1>6, <1>7, Zenon DEF Next, Update

-----------------------------------------------------------------------------
(* Suspended and running owners *)

LEMMA SuspendedPreserved ==
  ASSUME TypeOK, Clients, Suspended, [Next]_vars
  PROVE  Suspended'
<1>0. Store /\ Single /\ Clocks /\ Steps /\ Needs /\ Held
  BY TypeOfParts, Zenon
<1>a. \A r \in tracked \cup given : r \in Request /\ Owner[r] \in Process
  BY <1>0, LockAssumption, SMT DEF Held, LockAssumption
<1>1. CASE \E r \in Request : RequestLock(r)
  BY <1>1, Zenon DEF Suspended, Awake, RequestLock
<1>2. ASSUME NEW r \in Request, ReleaseLock(r)
      PROVE  Suspended'
  <2>1. /\ tracked' = tracked \ {r} /\ doubtful' = doubtful \ {r}
        /\ given' = given /\ mode' = mode /\ client[r] = "holding"
    BY <1>2, Zenon DEF ReleaseLock
  <2>2. r \notin given
    BY <2>1, SMT DEF Clients
  <2> QED BY <2>1, <2>2, SMT DEF Suspended, Awake
<1>3. ASSUME NEW p \in Process, Modify(p)
      PROVE  Suspended'
  <2>1. PICK served \in SUBSET Asking(p) : given' = given \cup served
    BY <1>0, <1>3, ModifyEffect, Zenon DEF Modified, Left
  <2>2. /\ Awake(p) /\ mode' = mode /\ tracked' = tracked /\ doubtful' = doubtful
        /\ \A r \in served : Owner[r] = p
    BY <1>3, Zenon DEF Modify, Asking, Mine
  <2> QED BY <2>1, <2>2, SMT DEF Suspended, Awake
<1>4. ASSUME NEW p \in Process, Notify(p)
      PROVE  Suspended'
  <2>1. /\ tracked' = (tracked \cup Got(p)) \ Lost(p)
        /\ doubtful' = doubtful \ Lost(p) /\ given' = given \ Mine(p)
    BY <1>0, <1>4, NotifyEffect, Zenon
  <2>2. mode' = mode /\ Got(p) \subseteq given /\ Lost(p) \subseteq Mine(p)
    BY <1>4, SMT DEF Notify, Got, Lost
  <2> QED BY <2>1, <2>2, SMT DEF Suspended, Awake
<1>5. ASSUME NEW p \in Process, Sleep(p)
      PROVE  Suspended'
  <2>1. /\ doubtful' = doubtful \cup ((tracked \cup given) \cap Mine(p))
        /\ mode' = [mode EXCEPT ![p] = "asleep"] /\ tracked' = tracked /\ given' = given
    BY <1>5, Zenon DEF Sleep, manager
  <2>2. \A r \in tracked \cup given : r \in Mine(p) \/ mode'[Owner[r]] = mode[Owner[r]]
    BY <1>0, <1>a, <2>1, SMT DEF Steps, Mine
  <2> QED BY <2>1, <2>2, SMT DEF Suspended, Awake
<1>6. ASSUME NEW p \in Process, Wake(p) \/ Launch(p)
      PROVE  Suspended'
  <2>1. /\ mode' = [mode EXCEPT ![p] = "awake"]
        /\ doubtful' = doubtful /\ tracked' = tracked /\ given' = given
    BY <1>6, Zenon DEF Wake, Launch, manager
  <2>2. \A q \in Process : Awake(q) => Awake(q)'
    BY <1>0, <2>1, SMT DEF Steps, Awake
  <2> QED BY <1>a, <2>1, <2>2, Zenon DEF Suspended
<1>7. ASSUME NEW p \in Process, Crash(p)
      PROVE  Suspended'
  <2>1. /\ mode' = [mode EXCEPT ![p] = "dead"] /\ doubtful' = doubtful \ Mine(p)
        /\ tracked' = tracked \ Mine(p) /\ given' = given \ Mine(p)
    BY <1>7, Zenon DEF Crash
  <2>2. \A r \in tracked \cup given : r \in Mine(p) \/ mode'[Owner[r]] = mode[Owner[r]]
    BY <1>0, <1>a, <2>1, SMT DEF Steps, Mine
  <2> QED BY <2>1, <2>2, SMT DEF Suspended, Awake
<1>8. CASE \E p \in Process : Begin(p) \/ ExpirationTimer(p)
  BY <1>8, Zenon DEF Suspended, Awake, Begin, ExpirationTimer
<1>9. CASE Tick
  BY <1>9, Zenon DEF Suspended, Awake, Tick
<1>10. CASE UNCHANGED vars
  BY <1>10, Zenon DEF Suspended, Awake, vars, manager
<1> QED
  BY <1>1, <1>2, <1>3, <1>4, <1>5, <1>6, <1>7, <1>8, <1>9, <1>10, Zenon DEF Next, Update

LEMMA RunningPreserved ==
  ASSUME TypeOK, Clients, Running, [Next]_vars
  PROVE  Running'
<1>0. Store /\ Single /\ Clocks /\ Steps /\ Needs /\ Held
  BY TypeOfParts, Zenon
<1>a. \A r \in tracked \cup given : r \in Request /\ Owner[r] \in Process
  BY <1>0, LockAssumption, SMT DEF Held, LockAssumption
<1>1. ASSUME NEW r \in Request, RequestLock(r) \/ ReleaseLock(r)
      PROVE  Running'
  <2>1. /\ needs' = [needs EXCEPT ![Owner[r]] = TRUE] /\ tracked' \subseteq tracked
        /\ step' = step /\ keepAlive' = keepAlive
    BY <1>1, SMT DEF RequestLock, ReleaseLock
  <2>2. \A q \in Process : needs[q] => needs'[q]
    BY <1>0, <2>1, Zenon DEF Needs
  <2> QED BY <1>a, <2>1, <2>2, Zenon DEF Running
<1>2. ASSUME NEW p \in Process, Begin(p)
      PROVE  Running'
  <2>1. /\ tracked' = tracked
        /\ \/ step' = [step EXCEPT ![p] = "modify"]
           \/ needs[p] /\ needs' = needs /\ step' = step
        /\ \A q \in Process : q # p =>
             needs'[q] = needs[q] /\ keepAlive'[q] = keepAlive[q]
    BY <1>0, <1>2, Zenon DEF Begin, Needs, Clocks
  <2>2. step'[p] # "idle" \/ needs'[p]
    BY <1>0, <2>1, SMT DEF Steps
  <2>3. \A q \in Process : q # p => step'[q] = step[q]
    BY <1>0, <2>1, Zenon DEF Steps
  <2> QED BY <1>a, <2>1, <2>2, <2>3, Zenon DEF Running
<1>3. ASSUME NEW p \in Process, ExpirationTimer(p)
      PROVE  Running'
  <2>1. /\ needs' = [needs EXCEPT ![p] = TRUE] /\ tracked' = tracked
        /\ step' = step /\ keepAlive' = keepAlive
    BY <1>3, Zenon DEF ExpirationTimer
  <2>2. \A q \in Process : needs[q] => needs'[q]
    BY <1>0, <2>1, Zenon DEF Needs
  <2> QED BY <1>a, <2>1, <2>2, Zenon DEF Running
<1>4. ASSUME NEW p \in Process, Modify(p)
      PROVE  Running'
  <2>1. /\ tracked' = tracked /\ keepAlive' = keepAlive
        /\ step' = [step EXCEPT ![p] = "notify"]
        /\ \A q \in Process : needs[q] => needs'[q]
    BY <1>4, Zenon DEF Modify
  <2>2. \A q \in Process : step'[q] = "idle" => step[q] = "idle"
    BY <1>0, <2>1, SMT DEF Steps
  <2> QED BY <1>a, <2>1, <2>2, Zenon DEF Running
<1>5. ASSUME NEW p \in Process, Notify(p)
      PROVE  Running'
  <2>1. /\ tracked' = (tracked \cup Got(p)) \ Lost(p)
    BY <1>0, <1>5, NotifyEffect, Zenon
  <2>2. /\ needs' = needs /\ step' = [step EXCEPT ![p] = "idle"]
        /\ keepAlive' = [keepAlive EXCEPT ![p] = NextKeepAlive(p, tracked' \cap Mine(p) # {})]
    BY <1>5, Zenon DEF Notify
  <2>3. tracked' \cap Mine(p) # {} => keepAlive'[p] # {}
    <3>1. keepAlive'[p] = NextKeepAlive(p, tracked' \cap Mine(p) # {})
      BY <1>0, <2>2, Zenon DEF Clocks
    <3>2. ASSUME tracked' \cap Mine(p) # {}
          PROVE  NextKeepAlive(p, tracked' \cap Mine(p) # {}) # {}
      BY <3>2, Zenon DEF NextKeepAlive
    <3> QED BY <3>1, <3>2, Zenon
  <2>4. \A q \in Process : q # p => step'[q] = step[q] /\ keepAlive'[q] = keepAlive[q]
    BY <1>0, <2>2, Zenon DEF Steps, Clocks
  <2>5. \A r \in tracked' : r \in tracked \/ (r \in given /\ Owner[r] = p)
    BY <2>1, SMT DEF Got, Mine
  <2>6. \A r \in tracked' : Owner[r] = p => tracked' \cap Mine(p) # {}
    BY <1>a, <2>5, SMT DEF Mine
  <2> QED BY <1>a, <2>2, <2>3, <2>4, <2>5, <2>6, Zenon DEF Running
<1>6. CASE \E p \in Process : Sleep(p) \/ Wake(p) \/ Launch(p)
  BY <1>6, Zenon DEF Running, Sleep, Wake, Launch, manager
<1>7. ASSUME NEW p \in Process, Crash(p)
      PROVE  Running'
  <2>1. /\ tracked' = tracked \ Mine(p) /\ step' = [step EXCEPT ![p] = "idle"]
        /\ needs' = [needs EXCEPT ![p] = FALSE] /\ keepAlive' = [keepAlive EXCEPT ![p] = {}]
    BY <1>7, Zenon DEF Crash
  <2>2. \A q \in Process : q # p =>
          step'[q] = step[q] /\ needs'[q] = needs[q] /\ keepAlive'[q] = keepAlive[q]
    BY <1>0, <2>1, Zenon DEF Steps, Needs, Clocks
  <2>3. \A r \in tracked' : r \in tracked /\ Owner[r] # p
    BY <1>a, <2>1, SMT DEF Mine
  <2> QED BY <1>a, <2>2, <2>3, Zenon DEF Running
<1>8. CASE Tick
  <2>1. /\ tracked' = tracked /\ step' = step /\ needs' = needs
        /\ keepAlive' = [p \in Process |-> {Less(n) : n \in keepAlive[p]}]
    BY <1>8, Zenon DEF Tick
  <2>2. \A p \in Process : keepAlive[p] # {} => keepAlive'[p] # {}
    BY <2>1, Zenon
  <2> QED BY <1>a, <2>1, <2>2, Zenon DEF Running
<1>9. CASE UNCHANGED vars
  BY <1>9, Zenon DEF Running, vars, manager
<1> QED
  BY <1>1, <1>2, <1>3, <1>4, <1>5, <1>6, <1>7, <1>8, <1>9, Zenon DEF Next, Update

-----------------------------------------------------------------------------
(* No lock is left behind *)

LEMMA NoAbandonedLockPreserved ==
  ASSUME TypeOK, Clients, IDs, Stale, NoAbandonedLock, [Next]_vars
  PROVE  NoAbandonedLock'
<1>0. Store /\ Single /\ Clocks /\ Steps /\ Needs /\ Held
  BY TypeOfParts, Zenon
<1>a. \A l \in db : l.id \in Request /\ Owner[l.id] \in Process
  BY <1>0, LockAssumption, SMT DEF Store, Lock, LockAssumption
<1> DEFINE Removing(p) == needs[p] \/ step[p] = "modify"
<1>b. \A l \in db : \/ client[l.id] = "gone" \/ l.id \in tracked \cup given
                    \/ l.id \in released /\ Removing(Owner[l.id])
  BY Zenon DEF NoAbandonedLock
<1>c. \A r \in Request : client[r] = "gone" => r \notin tracked \cup given \cup pending \cup denied
  BY SMT DEF Clients
<1>1. ASSUME NEW r \in Request, RequestLock(r)
      PROVE  NoAbandonedLock'
  <2>1. /\ needs' = [needs EXCEPT ![Owner[r]] = TRUE] /\ client[r] = "new"
        /\ client' = [client EXCEPT ![r] = "waiting"]
        /\ UNCHANGED <<db, tracked, given, released, step>>
    BY <1>1, Zenon DEF RequestLock
  <2>2. \A q \in Process : needs[q] => needs'[q]
    BY <1>0, <2>1, Zenon DEF Needs
  <2>3. \A q \in Request : client[q] = "gone" => client'[q] = "gone"
    BY <1>0, <2>1, SMT DEF Steps
  <2> QED BY <1>a, <1>b, <2>1, <2>2, <2>3, Zenon DEF NoAbandonedLock
<1>2. ASSUME NEW r \in Request, ReleaseLock(r)
      PROVE  NoAbandonedLock'
  <2>1. /\ needs' = [needs EXCEPT ![Owner[r]] = TRUE] /\ client[r] = "holding"
        /\ client' = [client EXCEPT ![r] = "done"]
        /\ tracked' = tracked \ {r} /\ released' = released \cup {r}
        /\ UNCHANGED <<db, given, step>>
    BY <1>2, Zenon DEF ReleaseLock
  <2>2. /\ \A q \in Process : needs[q] => needs'[q]
        /\ Owner[r] \in Process => needs'[Owner[r]]
    BY <1>0, <2>1, Zenon DEF Needs
  <2>3. \A q \in Request : client[q] = "gone" => client'[q] = "gone"
    BY <1>0, <2>1, SMT DEF Steps
  <2>4. \A q \in tracked : q \in tracked' \/ q = r
    BY <2>1, Zenon
  <2> QED BY <1>a, <1>b, <2>1, <2>2, <2>3, <2>4, Zenon DEF NoAbandonedLock
<1>3. ASSUME NEW p \in Process, Begin(p)
      PROVE  NoAbandonedLock'
  <2>1. UNCHANGED <<db, tracked, given, released, client>>
    BY <1>3, Zenon DEF Begin
  <2>2. step[p] = "idle" /\ (\/ needs' = needs /\ needs[p] /\ step' = step
                             \/ step' = [step EXCEPT ![p] = "modify"])
    BY <1>3, Zenon DEF Begin
  <2>3. \A q \in Process : q # p => needs'[q] = needs[q] /\ step'[q] = step[q]
    BY <1>0, <1>3, Zenon DEF Begin, Needs, Steps
  <2>4. needs'[p] \/ step'[p] = "modify"
    BY <1>0, <2>2, Zenon DEF Steps
  <2> QED BY <1>a, <1>b, <2>1, <2>3, <2>4, Zenon DEF NoAbandonedLock
<1>4. ASSUME NEW p \in Process, ExpirationTimer(p)
      PROVE  NoAbandonedLock'
  <2>1. /\ needs' = [needs EXCEPT ![p] = TRUE]
        /\ UNCHANGED <<db, tracked, given, released, client, step>>
    BY <1>4, Zenon DEF ExpirationTimer
  <2>2. \A q \in Process : needs[q] => needs'[q]
    BY <1>0, <2>1, Zenon DEF Needs
  <2> QED BY <1>a, <1>b, <2>1, <2>2, Zenon DEF NoAbandonedLock
<1>5. ASSUME NEW p \in Process, Modify(p)
      PROVE  NoAbandonedLock'
  <2>1. /\ released' = released \ Mine(p) /\ step' = [step EXCEPT ![p] = "notify"]
        /\ client' = client /\ tracked' = tracked
        /\ \A q \in Process : needs[q] => needs'[q]
    BY <1>5, Zenon DEF Modify
  <2>2. given \subseteq given'
    BY <1>5, SMT DEF Modify
  <2>3. \A q \in Process : q # p => step'[q] = step[q]
    BY <1>0, <2>1, Zenon DEF Steps
  <2> SUFFICES ASSUME NEW l \in db'
               PROVE  \/ client'[l.id] = "gone" \/ l.id \in tracked' \cup given'
                      \/ l.id \in released' /\ (needs'[Owner[l.id]] \/ step'[Owner[l.id]] = "modify")
    BY Zenon DEF NoAbandonedLock
  <2>4. CASE l.id \in given'
    BY <2>4, Zenon
  <2>5. ASSUME NEW k \in db, k.id = l.id, ~ Purges(p, k)
        PROVE  \/ client'[l.id] = "gone" \/ l.id \in tracked' \cup given'
               \/ l.id \in released' /\ (needs'[Owner[l.id]] \/ step'[Owner[l.id]] = "modify")
    <3>1. CASE client[k.id] = "gone" \/ k.id \in tracked \cup given
      BY <2>1, <2>2, <2>5, <3>1, SMT
    <3>2. CASE k.id \in released /\ Removing(Owner[k.id])
      <4>1. k.id \notin Mine(p)
        BY <2>5, <3>2, SMT DEF Purges
      <4>2. Owner[k.id] \in Process /\ Owner[k.id] # p
        BY <1>a, <4>1, Zenon DEF Mine
      <4>3. k.id \in released'
        BY <2>1, <3>2, <4>1, SMT
      <4> QED BY <2>1, <2>3, <2>5, <3>2, <4>2, <4>3, Zenon
    <3> QED BY <1>b, <3>1, <3>2, Zenon
  <2> QED BY <1>5, <2>4, <2>5, ModifiedLocks, Zenon
<1>6. ASSUME NEW p \in Process, Notify(p)
      PROVE  NoAbandonedLock'
  <2>1. /\ tracked' = (tracked \cup Got(p)) \ Lost(p)
        /\ given' = given \ Mine(p)
        /\ \A r \in Request \ (Lost(p) \cup No(p) \cup Got(p)) : client'[r] = client[r]
    BY <1>0, <1>6, NotifyEffect, Zenon
  <2>2. /\ step[p] = "notify" /\ step' = [step EXCEPT ![p] = "idle"]
        /\ UNCHANGED <<db, released, needs>>
    BY <1>6, Zenon DEF Notify
  <2>3. \A q \in Process : step[q] = "modify" => step'[q] = "modify"
    BY <1>0, <2>2, SMT DEF Steps
  <2>4. \A l \in db : l.id \notin Lost(p)
    <3>1. \A l \in db : Owner[l.id] = p => l.id \notin stale[p]
      BY <2>2, Zenon DEF Stale
    <3> QED BY <3>1, SMT DEF Lost, Got, Mine
  <2>5. \A r \in Lost(p) \cup No(p) \cup Got(p) : r \in tracked \cup given \cup denied
    BY SMT DEF Lost, No, Got
  <2>6. \A r \in Request : client[r] = "gone" => client'[r] = "gone"
    BY <1>c, <2>1, <2>5, SMT
  <2>7. \A l \in db : l.id \in tracked \cup given => l.id \in tracked' \cup given'
    BY <2>1, <2>4, SMT DEF Got
  <2> QED BY <1>a, <1>b, <2>2, <2>3, <2>6, <2>7, Zenon DEF NoAbandonedLock
<1>7. CASE \E p \in Process : Sleep(p) \/ Wake(p) \/ Launch(p)
  BY <1>7, Zenon DEF NoAbandonedLock, Sleep, Wake, Launch, manager
<1>8. ASSUME NEW p \in Process, Crash(p)
      PROVE  NoAbandonedLock'
  <2>1. /\ tracked' = tracked \ Mine(p) /\ given' = given \ Mine(p)
        /\ released' = released \ Mine(p) /\ db' = db
        /\ step' = [step EXCEPT ![p] = "idle"] /\ needs' = [needs EXCEPT ![p] = FALSE]
        /\ client' = [r \in Request |->
                        IF Owner[r] = p /\ client[r] # "new" THEN "gone" ELSE client[r]]
    BY <1>8, Zenon DEF Crash
  <2>2. \A q \in Process : q # p => step'[q] = step[q] /\ needs'[q] = needs[q]
    BY <1>0, <2>1, Zenon DEF Steps, Needs
  <2>3. \A l \in db : client[l.id] # "new"
    BY Zenon DEF IDs, Known
  <2>4. \A l \in db : Owner[l.id] = p => client'[l.id] = "gone"
    BY <1>a, <2>1, <2>3, SMT
  <2>5. \A l \in db : Owner[l.id] # p => client'[l.id] = client[l.id] /\ l.id \notin Mine(p)
    BY <1>a, <2>1, SMT DEF Mine
  <2> QED BY <1>a, <1>b, <2>1, <2>2, <2>4, <2>5, SMT DEF NoAbandonedLock
<1>9. CASE Tick
  <2>1. UNCHANGED <<client, tracked, given, released, needs, step>>
    BY <1>9, Zenon DEF Tick
  <2>2. \A l \in db' : \E k \in db : l.id = k.id
    <3>1. \A k \in Lock : [k EXCEPT !.left = Less(@)].id = k.id
      BY SMT DEF Lock
    <3> QED BY <1>0, <1>9, <3>1, Zenon DEF Tick, Store
  <2> QED BY <1>b, <2>1, <2>2, Zenon DEF NoAbandonedLock
<1>10. CASE UNCHANGED vars
  BY <1>10, Zenon DEF NoAbandonedLock, vars, manager
<1> QED
  BY <1>1, <1>2, <1>3, <1>4, <1>5, <1>6, <1>7, <1>8, <1>9, <1>10, Zenon DEF Next, Update

-----------------------------------------------------------------------------
(* A held lock does not run out *)

\* What InTime says of one lock.
Lasts(l, r) ==
  /\ l.id = r /\ l.left > 0
  /\ \A k \in keepAlive[Owner[r]] : l.left > k
  /\ step[Owner[r]] = "notify" => l.left > Half

\* A keep-alive timer runs for half of the interval at most.
LEMMA TimerRange ==
  ASSUME Clocks, NEW p \in Process, NEW k \in keepAlive[p]
  PROVE  k \in Nat /\ k <= Half /\ keepAlive[p] = {k}
<1>1. keepAlive[p] \in {{}} \cup {{n} : n \in 0..Half}
  BY Zenon DEF Clocks
<1>2. PICK n \in 0..Half : keepAlive[p] = {n}
  BY <1>1, Zenon
<1> QED BY <1>2, HalfOfInterval, SMT

\* A modification renews the own locks, and leaves alone what another process
\* holds in time.
LEMMA ModifyInTime ==
  ASSUME TypeOK, Clients, Stale, InTime, NEW p \in Process, Modify(p),
         NEW r \in (tracked \cup given') \ doubtful
  PROVE  \E l \in db' : Lasts(l, r)'
<1>0. Store /\ Single /\ Clocks /\ Steps /\ Needs /\ Held
  BY TypeOfParts, Zenon
<1>1. PICK served \in SUBSET Asking(p) :
        /\ \A k \in db : ~ Purges(p, k) =>
                           (IF k.id \in stale[p] THEN KeptAlive(k) ELSE k) \in db'
        /\ \A q \in served : New(q) \in db'
        /\ given' = given \cup served
  BY <1>0, ModifyEffect, Zenon DEF Modified, Left
<1>2. /\ step[p] = "modify" /\ step' = [step EXCEPT ![p] = "notify"]
      /\ keepAlive' = keepAlive
  BY Zenon DEF Modify
<1>3. /\ tracked \cap Mine(p) \subseteq stale[p] /\ stale[p] \subseteq Mine(p)
  BY <1>2, Zenon DEF Stale
<1>4. \A q \in Asking(p) : q \in Request /\ Owner[q] = p
  BY Zenon DEF Asking, Mine
<1>5. r \in Request /\ Owner[r] \in Process
  BY <1>0, <1>1, <1>4, LockAssumption, SMT DEF Held, LockAssumption
<1>6. ASSUME NEW l \in Lock, l \in db', l.id = r, l.left > Half, Owner[r] = p
      PROVE  Lasts(l, r)'
  <2>1. \A k \in keepAlive[p] : l.left > k
    BY <1>0, <1>6, TimerRange, HalfOfInterval, SMT DEF Lock
  <2>2. l.left > 0
    BY <1>6, HalfOfInterval, SMT DEF Lock
  <2> QED BY <1>2, <1>6, <2>1, <2>2, Zenon DEF Lasts
<1>7. CASE r \in served
  <2>1. New(r) \in Lock /\ New(r).id = r /\ New(r).left > Half
    BY <1>5, HalfOfInterval, SMT DEF New, Lock
  <2> QED BY <1>1, <1>4, <1>6, <1>7, <2>1, Zenon
<1>8. CASE r \notin served
  <2>1. r \in (tracked \cup given) \ doubtful
    BY <1>1, <1>8, SMT
  <2>2. PICK l \in db : Lasts(l, r)
    BY <2>1, Zenon DEF InTime, Lasts
  <2>3. l \in Lock /\ l.id = r /\ l.left > 0
    BY <1>0, <2>2, Zenon DEF Store, Lasts
  <2>4. l.left # 0
    BY <2>3, SMT DEF Lock
  <2>5. CASE Owner[r] = p
    <3>1. r \in tracked /\ r \notin released
      BY <1>2, <2>1, <2>5, SMT DEF Clients
    <3>2. ~ Purges(p, l) /\ l.id \in stale[p]
      BY <1>3, <1>5, <2>3, <2>4, <2>5, <3>1, SMT DEF Purges, Mine
    <3>3. KeptAlive(l) \in db'
      BY <1>1, <3>2, Zenon
    <3>4. KeptAlive(l) \in Lock /\ KeptAlive(l).id = r /\ KeptAlive(l).left > Half
      BY <2>3, KeptAliveLock, Zenon
    <3> QED BY <1>6, <2>5, <3>3, <3>4, Zenon
  <2>6. CASE Owner[r] # p
    <3>1. ~ Purges(p, l) /\ l.id \notin stale[p]
      BY <1>3, <2>3, <2>4, <2>6, SMT DEF Purges, Mine
    <3>2. l \in db'
      BY <1>1, <3>1, Zenon
    <3>3. step'[Owner[r]] = step[Owner[r]] /\ keepAlive'[Owner[r]] = keepAlive[Owner[r]]
      BY <1>0, <1>2, <1>5, <2>6, Zenon DEF Steps
    <3> QED BY <2>2, <3>2, <3>3, Zenon DEF Lasts
  <2> QED BY <2>5, <2>6, Zenon
<1> QED BY <1>7, <1>8, Zenon

\* Time passes only when no awake process is due: not for a lock whose
\* keep-alive has fired.
LEMMA TickInTime ==
  ASSUME TypeOK, Clients, Suspended, Running, InTime, Tick,
         NEW r \in (tracked \cup given) \ doubtful
  PROVE  \E l \in db' : Lasts(l, r)'
<1>0. Store /\ Single /\ Clocks /\ Steps /\ Needs /\ Held
  BY TypeOfParts, Zenon
<1> DEFINE p == Owner[r]
<1>1. r \in Request /\ p \in Process
  BY <1>0, LockAssumption, SMT DEF Held, LockAssumption
<1>2. ~ Due(p)
  BY <1>1, Zenon DEF Suspended, Tick
<1>3. step[p] = "idle" /\ ~ needs[p] /\ keepAlive[p] # {0}
  BY <1>2, Zenon DEF Due
<1>4. r \in tracked
  BY <1>3, SMT DEF Clients
<1>5. PICK k \in keepAlive[p] : TRUE
  BY <1>3, <1>4, Zenon DEF Running
<1>6. k \in Nat /\ k > 0 /\ keepAlive[p] = {k}
  BY <1>0, <1>1, <1>3, <1>5, TimerRange, SMT
<1>7. PICK l \in db : Lasts(l, r)
  BY Zenon DEF InTime, Lasts
<1>8. l \in Lock /\ l.id = r /\ l.left > k
  BY <1>0, <1>5, <1>7, Zenon DEF Store, Lasts
<1> DEFINE later == [l EXCEPT !.left = Less(@)]
<1>9. later \in db' /\ keepAlive'[p] = {Less(k)} /\ step' = step
  <2>1. /\ db' = {[m EXCEPT !.left = Less(@)] : m \in db} /\ step' = step
        /\ keepAlive' = [q \in Process |-> {Less(n) : n \in keepAlive[q]}]
    BY Zenon DEF Tick
  <2>2. later \in db'
    BY <2>1, Zenon
  <2>3. keepAlive'[p] = {Less(n) : n \in keepAlive[p]}
    BY <1>1, <2>1, Zenon
  <2>4. keepAlive'[p] = {Less(k)}
    BY <1>6, <2>3, Zenon
  <2> QED BY <2>1, <2>2, <2>4, Zenon
<1>10. later.id = r /\ later.left = Less(l.left)
  BY <1>8, SMT DEF Lock
<1>11. Less(l.left) > 0 /\ Less(l.left) > Less(k)
  <2>1. l.left \in Nat /\ l.left > k
    BY <1>8, LockAssumption, SMT DEF Lock, LockAssumption
  <2> QED BY <1>6, <2>1, SMT DEF Less
<1> HIDE DEF later
<1>12. /\ \A n \in keepAlive'[p] : later.left > n
       /\ step'[p] # "notify"
  BY <1>3, <1>9, <1>10, <1>11, SMT
<1> QED BY <1>9, <1>10, <1>11, <1>12, Zenon DEF Lasts

LEMMA InTimePreserved ==
  ASSUME TypeOK, Clients, Stale, Suspended, Running, InTime, [Next]_vars
  PROVE  InTime'
<1>0. Store /\ Single /\ Clocks /\ Steps /\ Needs /\ Held
  BY TypeOfParts, Zenon
<1>a. \A r \in tracked \cup given : r \in Request /\ Owner[r] \in Process
  BY <1>0, LockAssumption, SMT DEF Held, LockAssumption
<1>b. \A r \in (tracked \cup given) \ doubtful : \E l \in db : Lasts(l, r)
  BY Zenon DEF InTime, Lasts
<1> SUFFICES \A r \in (tracked' \cup given') \ doubtful' : \E l \in db' : Lasts(l, r)'
  BY Zenon DEF InTime, Lasts
<1>1. ASSUME NEW q \in Request, RequestLock(q)
      PROVE  \A r \in (tracked' \cup given') \ doubtful' : \E l \in db' : Lasts(l, r)'
  <2>1. UNCHANGED <<tracked, given, doubtful, db, keepAlive, step>>
    BY <1>1, Zenon DEF RequestLock
  <2> QED BY <1>b, <2>1, Zenon DEF Lasts
<1>2. ASSUME NEW q \in Request, ReleaseLock(q)
      PROVE  \A r \in (tracked' \cup given') \ doubtful' : \E l \in db' : Lasts(l, r)'
  <2>1. /\ UNCHANGED <<given, db, keepAlive, step>>
        /\ tracked' = tracked \ {q} /\ doubtful' = doubtful \ {q} /\ client[q] = "holding"
    BY <1>2, Zenon DEF ReleaseLock
  <2>2. q \notin given
    BY <2>1, SMT DEF Clients
  <2>3. (tracked' \cup given') \ doubtful' \subseteq (tracked \cup given) \ doubtful
    BY <2>1, <2>2, SMT
  <2> QED BY <1>b, <2>1, <2>3, Zenon DEF Lasts
<1>3. ASSUME NEW p \in Process, Begin(p)
      PROVE  \A r \in (tracked' \cup given') \ doubtful' : \E l \in db' : Lasts(l, r)'
  <2>1. /\ UNCHANGED <<tracked, given, doubtful, db>>
        /\ step' \in {step, [step EXCEPT ![p] = "modify"]}
        /\ keepAlive' \in {keepAlive, [keepAlive EXCEPT ![p] = {}]}
    BY <1>3, Zenon DEF Begin
  <2>2. \A q \in Process : step'[q] = "notify" => step[q] = "notify"
    BY <1>0, <2>1, SMT DEF Steps
  <2>3. \A q \in Process : keepAlive'[q] = keepAlive[q] \/ keepAlive'[q] = {}
    BY <1>0, <2>1, Zenon DEF Clocks
  <2> QED BY <1>a, <1>b, <2>1, <2>2, <2>3, Zenon DEF Lasts
<1>4. ASSUME NEW p \in Process, ExpirationTimer(p) \/ Wake(p) \/ Launch(p)
      PROVE  \A r \in (tracked' \cup given') \ doubtful' : \E l \in db' : Lasts(l, r)'
  <2>1. UNCHANGED <<tracked, given, doubtful, db, keepAlive, step>>
    BY <1>4, Zenon DEF ExpirationTimer, Wake, Launch, manager
  <2> QED BY <1>b, <2>1, Zenon DEF Lasts
<1>5. ASSUME NEW p \in Process, Modify(p)
      PROVE  \A r \in (tracked' \cup given') \ doubtful' : \E l \in db' : Lasts(l, r)'
  <2>1. tracked' = tracked /\ doubtful' = doubtful
    BY <1>5, Zenon DEF Modify
  <2> QED BY <1>5, <2>1, ModifyInTime, Zenon
<1>6. ASSUME NEW p \in Process, Notify(p)
      PROVE  \A r \in (tracked' \cup given') \ doubtful' : \E l \in db' : Lasts(l, r)'
  <2>1. /\ tracked' = (tracked \cup Got(p)) \ Lost(p)
        /\ doubtful' = doubtful \ Lost(p) /\ given' = given \ Mine(p)
    BY <1>0, <1>6, NotifyEffect, Zenon
  <2>2. /\ db' = db /\ step[p] = "notify" /\ step' = [step EXCEPT ![p] = "idle"]
        /\ \E holds : keepAlive' = [keepAlive EXCEPT ![p] = NextKeepAlive(p, holds)]
    BY <1>6, Zenon DEF Notify
  <2>3. (tracked' \cup given') \ doubtful' \subseteq (tracked \cup given) \ doubtful
    BY <2>1, SMT DEF Got, Lost
  <2>4. \A q \in Process : q # p => keepAlive'[q] = keepAlive[q] /\ step'[q] = step[q]
    BY <1>0, <2>2, Zenon DEF Clocks, Steps
  <2>5. step'[p] = "idle" /\ keepAlive'[p] \subseteq keepAlive[p] \cup {Half}
    BY <1>0, <2>2, SMT DEF Clocks, Steps, NextKeepAlive
  <2> SUFFICES ASSUME NEW r \in (tracked \cup given) \ doubtful
               PROVE  \E l \in db' : Lasts(l, r)'
    BY <2>3, Zenon
  <2>6. PICK l \in db : Lasts(l, r)
    BY <1>b, Zenon
  <2>7. CASE Owner[r] = p
    <3>1. \A k \in keepAlive'[p] : l.left > k
      BY <2>2, <2>5, <2>6, <2>7, SMT DEF Lasts
    <3> QED BY <2>2, <2>5, <2>6, <2>7, <3>1, SMT DEF Lasts
  <2>8. CASE Owner[r] # p
    BY <1>a, <2>2, <2>4, <2>6, <2>8, Zenon DEF Lasts
  <2> QED BY <2>7, <2>8, Zenon
<1>7. ASSUME NEW p \in Process, Sleep(p)
      PROVE  \A r \in (tracked' \cup given') \ doubtful' : \E l \in db' : Lasts(l, r)'
  <2>1. UNCHANGED <<tracked, given, db, keepAlive, step>> /\ doubtful \subseteq doubtful'
    BY <1>7, SMT DEF Sleep, manager
  <2> QED BY <1>b, <2>1, Zenon DEF Lasts
<1>8. ASSUME NEW p \in Process, Crash(p)
      PROVE  \A r \in (tracked' \cup given') \ doubtful' : \E l \in db' : Lasts(l, r)'
  <2>1. /\ tracked' = tracked \ Mine(p) /\ given' = given \ Mine(p)
        /\ doubtful' = doubtful \ Mine(p) /\ db' = db
        /\ step' = [step EXCEPT ![p] = "idle"] /\ keepAlive' = [keepAlive EXCEPT ![p] = {}]
    BY <1>8, Zenon DEF Crash
  <2>2. \A r \in (tracked' \cup given') \ doubtful' :
          r \in (tracked \cup given) \ doubtful /\ Owner[r] # p
    BY <1>a, <2>1, SMT DEF Mine
  <2>3. \A q \in Process : q # p => keepAlive'[q] = keepAlive[q] /\ step'[q] = step[q]
    BY <1>0, <2>1, Zenon DEF Clocks, Steps
  <2> SUFFICES ASSUME NEW r \in (tracked' \cup given') \ doubtful'
               PROVE  \E l \in db' : Lasts(l, r)'
    BY Zenon
  <2>4. Owner[r] \in Process /\ Owner[r] # p /\ r \in (tracked \cup given) \ doubtful
    BY <1>a, <2>2, SMT
  <2>5. keepAlive'[Owner[r]] = keepAlive[Owner[r]] /\ step'[Owner[r]] = step[Owner[r]]
    BY <2>3, <2>4, Zenon
  <2> QED BY <1>b, <2>1, <2>4, <2>5, Zenon DEF Lasts
<1>9. CASE Tick
  <2>1. UNCHANGED <<tracked, given, doubtful>>
    BY <1>9, Zenon DEF Tick
  <2> QED BY <1>9, <2>1, TickInTime, Zenon
<1>10. CASE UNCHANGED vars
  BY <1>b, <1>10, Zenon DEF Lasts, vars, manager
<1> QED
  BY <1>1, <1>2, <1>3, <1>4, <1>5, <1>6, <1>7, <1>8, <1>9, <1>10, Zenon DEF Next, Update

-----------------------------------------------------------------------------
(* The theorems *)

LEMMA InitInductive == ASSUME Init PROVE Inductive
<1>1. Store /\ Single /\ Steps /\ Needs /\ Held
  BY SMT DEF Init, Store, Single, Steps, Needs, Held
<1>2. Clocks
  BY SMT DEF Init, Clocks
<1>3. Counted
  BY LockAssumption, SMT DEF Init, Counted, LockAssumption
<1>4. Clients /\ Suspended /\ Running /\ InTime
  BY SMT DEF Init, Clients, Suspended, Running, InTime
<1>5. IDs /\ NoAbandonedLock
  BY SMT DEF Init, IDs, NoAbandonedLock
<1>6. Stale
  <2>1. \A p \in Process : step[p] = "idle"
    BY Zenon DEF Init
  <2>2. \A p \in Process : step[p] # "modify" /\ step[p] # "notify"
    BY <2>1, Zenon
  <2> QED BY <2>2, Zenon DEF Stale
<1>7. TypeOK
  BY <1>1, <1>2, <1>3, TypeParts, Zenon
<1> QED BY <1>4, <1>5, <1>6, <1>7, Zenon DEF Inductive

\* The inductive invariant holds in every behaviour of the lock managers.
THEOREM InductiveHolds == Spec => []Inductive
<1>1. Init => Inductive
  BY InitInductive, Zenon
<1>2. ASSUME Inductive, [Next]_vars
      PROVE  Inductive'
  <2>1. TypeOK /\ Clients /\ IDs /\ Stale /\ Suspended /\ Running /\ InTime /\ NoAbandonedLock
    BY <1>2, Zenon DEF Inductive
  <2>2. TypeOK' /\ Clients'
    BY <1>2, <2>1, TypePreserved, ClientsPreserved, Zenon
  <2>3. IDs' /\ Stale'
    BY <1>2, <2>1, IDsPreserved, StalePreserved, Zenon
  <2>4. Suspended' /\ Running' /\ InTime'
    BY <1>2, <2>1, SuspendedPreserved, RunningPreserved, InTimePreserved, Zenon
  <2>5. NoAbandonedLock'
    BY <1>2, <2>1, NoAbandonedLockPreserved, Zenon
  <2> QED BY <2>2, <2>3, <2>4, <2>5, Zenon DEF Inductive
<1> QED BY <1>1, <1>2, PTL DEF Spec

\* Every variable keeps its type, and the store holds one lock of the resource at
\* most, for any number of processes and requests.
THEOREM TypeCorrect == Spec => []TypeOK
<1>1. Inductive => TypeOK
  BY Zenon DEF Inductive
<1> QED BY <1>1, InductiveHolds, PTL

\* A client that was given a lock has it in the store until it releases it,
\* unless its process was suspended since.
THEOREM LocksHeld == Spec => []HeldUnlessSuspended
<1>1. Inductive => HeldUnlessSuspended
  BY Zenon DEF Inductive, InTime, HeldUnlessSuspended
<1> QED BY <1>1, InductiveHolds, PTL

\* Only the lock of a terminated process is left in the store without a client or
\* an update that removes it.
THEOREM NothingAbandoned == Spec => []NoAbandonedLock
<1>1. Inductive => NoAbandonedLock
  BY Zenon DEF Inductive
<1> QED BY <1>1, InductiveHolds, PTL
=============================================================================
