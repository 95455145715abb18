-------------------------- MODULE AttrCacheProofs --------------------------
(***************************************************************************)
(* Proofs about the attribute cache of sshfs, for any number of threads    *)
(* and paths, any timeouts and any sequence of changes.                    *)
(***************************************************************************)
EXTENDS AttrCache, TLAPS

Entry == [version : Nat, valid : Nat]

\* What the proofs need of the types.
Shape ==
  /\ now \in Nat /\ last_cleaned \in Nat /\ last_added \in Nat
  /\ table \in [Path -> Entry \cup {None}] /\ server \in [Path -> Nat]
  /\ pc \in [Thread -> {"idle", "sent", "opened", "answered"}]
  /\ call \in [Thread -> Call \cup {NoCall}]
  /\ failed \in [Thread -> BOOLEAN] /\ got \in [Thread -> Nat \cup {None}]
  /\ mine \in [Thread -> [Path -> Nat]] /\ floor \in [Path -> Nat]

\* A cleaning is never overdue after a store, and leaves nothing it should
\* have removed.
Clean ==
  /\ last_cleaned <= now /\ last_added <= last_cleaned + clean_interval_secs
  /\ \A p \in Path : table[p] # None => table[p].valid >= last_cleaned

\* Nobody can have made a version the server does not have.
Bounded ==
  \A p \in Path :
    /\ floor[p] <= server[p]
    /\ \A t \in Thread : mine[t][p] <= server[p]

\* Where a call is tells what it holds and what it has changed.
Progress ==
  \A t \in Thread :
    /\ pc[t] # "idle" => call[t] \in Call
    /\ pc[t] # "answered" => got[t] = None
    /\ pc[t] = "answered" /\ ~failed[t] /\ call[t].op \in {"getattr", "open"} => got[t] # None
    /\ pc[t] \in {"idle", "sent"} => mine[t] = Unmade /\ ~failed[t]
    /\ pc[t] = "opened" => call[t].op = "open"
    /\ call[t].op \in {"truncate", "unlink"} /\ failed[t] => mine[t] = Unmade
    /\ \A q \in Path : mine[t][q] # 0 =>
         \/ q = call[t].path /\ call[t].op # "getattr"
         \/ q = Parent[call[t].path] /\ call[t].op = "unlink"

\* Replies under way for a path that did not race are no older than the last
\* change a returned call made to it.
UnderWay ==
  \A p \in Path \ raced : \A t \in Thread : Holds(t, p) => got[t] >= floor[p]

\* The inductive invariant.
CacheInv == Shape /\ Clean /\ Bounded /\ Progress /\ UnderWay /\ OwnChangesSeen

\* The invariant holds before the first call.
LEMMA InitHolds == Init => CacheInv
<1> SUFFICES ASSUME Init PROVE CacheInv
  BY Zenon
<1>1. Shape  BY CacheAssumption DEF Init, Shape, Unmade
<1>2. Clean  BY CacheAssumption DEF Init, Clean
<1>3. Bounded  BY DEF Init, Bounded, Unmade
<1>4. Progress  BY Zenon DEF Init, Progress, Unmade, NoCall
<1>5. UnderWay  BY Zenon DEF Init, UnderWay, Holds
<1>6. OwnChangesSeen  BY Zenon DEF Init, OwnChangesSeen
<1> QED  BY <1>1, <1>2, <1>3, <1>4, <1>5, <1>6, Zenon DEF CacheInv

\* A step that leaves the cache alone and tells nobody anything keeps what the
\* invariant says of the cache.
LEMMA CacheKept ==
  ASSUME CacheInv, cache_unchanged, now' \in Nat, now' >= now
  PROVE  Clean'
BY CacheAssumption DEF CacheInv, Shape, Clean, cache_unchanged

\* Every call names a path.
LEMMA CallHasPath == \A c \in Call : c.path \in Path
BY Zenon DEF Call, File

\* A hit tells the attributes the cache holds.
LEMMA HitHolds ==
  ASSUME CacheInv, NEW t \in Thread, NEW p \in Path, getattr_hit(t, p)
  PROVE  CacheInv'
<1> USE DEF getattr_hit, locals, cache_unchanged
<1>1. Shape'  BY Zenon DEF CacheInv, Shape
<1>2. Clean'  BY Zenon DEF CacheInv, Clean
<1>3. Bounded'  BY Zenon DEF CacheInv, Bounded
<1>4. Progress'  BY Zenon DEF CacheInv, Progress
<1>5. UnderWay'  BY Zenon DEF CacheInv, UnderWay, Holds
<1>6. OwnChangesSeen'  BY Zenon DEF CacheInv, OwnChangesSeen, cache_get_attr
<1> QED  BY <1>1, <1>2, <1>3, <1>4, <1>5, <1>6, Zenon DEF CacheInv

\* A call that sends its requests holds no reply yet.
LEMMA SendHolds ==
  ASSUME CacheInv, NEW t \in Thread, NEW c \in Call, send(t, c)
  PROVE  CacheInv'
<1> USE DEF send, cache_unchanged
<1>1. Shape'  BY Zenon DEF CacheInv, Shape
<1>2. Clean'  BY Zenon DEF CacheInv, Clean
<1>3. Bounded'  BY Zenon DEF CacheInv, Bounded
<1>4. Progress'  BY DEF CacheInv, Shape, Progress, Unmade
<1>5. UnderWay'  BY Zenon DEF CacheInv, Shape, UnderWay, Holds
<1>6. OwnChangesSeen'  BY Zenon DEF CacheInv, OwnChangesSeen
<1> QED  BY <1>1, <1>2, <1>3, <1>4, <1>5, <1>6, Zenon DEF CacheInv

\* A refused request changes nothing on the server.
LEMMA RefuseHolds ==
  ASSUME CacheInv, NEW t \in Thread, refuse(t)
  PROVE  CacheInv'
<1> USE DEF refuse, Serve, cache_unchanged
<1>1. Shape'  BY Zenon DEF CacheInv, Shape
<1>2. Clean'  BY Zenon DEF CacheInv, Clean
<1>3. Bounded'  BY Zenon DEF CacheInv, Bounded
<1>4. Progress'  BY DEF CacheInv, Shape, Progress, Unmade
<1>5. UnderWay'  BY Zenon DEF CacheInv, Shape, Progress, UnderWay, Holds
<1>6. OwnChangesSeen'  BY Zenon DEF CacheInv, OwnChangesSeen
<1> QED  BY <1>1, <1>2, <1>3, <1>4, <1>5, <1>6, Zenon DEF CacheInv

\* Attributes are the newest when the server sends them.
LEMMA AttrsHolds ==
  ASSUME CacheInv, NEW t \in Thread, attrs(t)
  PROVE  CacheInv'
<1> USE DEF attrs, Serve, cache_unchanged
<1>1. call[t].path \in Path  BY CallHasPath, Zenon DEF CacheInv, Progress
<1>2. Shape'  BY <1>1, Zenon DEF CacheInv, Shape
<1>3. Clean'  BY Zenon DEF CacheInv, Clean
<1>4. Bounded'  BY Zenon DEF CacheInv, Bounded
<1>5. Progress'  BY <1>1, CacheAssumption DEF CacheInv, Shape, Progress
<1>6. UnderWay'  BY <1>1, Zenon DEF CacheInv, Shape, Bounded, UnderWay, Holds
<1>7. OwnChangesSeen'  BY Zenon DEF CacheInv, OwnChangesSeen
<1> QED  BY <1>2, <1>3, <1>4, <1>5, <1>6, <1>7, Zenon DEF CacheInv

\* A change makes newer versions than any thread has made or seen.
LEMMA ModifyHolds ==
  ASSUME CacheInv, NEW t \in Thread, modify(t)
  PROVE  CacheInv'
<1>1. call[t].path \in Path /\ Parent[call[t].path] \in Path
  BY CallHasPath, CacheAssumption, Zenon DEF CacheInv, Progress, modify, Serve
<1>2. PICK P \in SUBSET Path, Q \in SUBSET Path :
        /\ Change(t, P, Q)
        /\ Q \subseteq P
        /\ \A q \in Q : \/ q = call[t].path /\ call[t].op # "getattr"
                        \/ q = Parent[call[t].path] /\ call[t].op = "unlink"
  BY <1>1 DEF modify
<1>3. call[t].op # "getattr"  BY Zenon DEF modify
<1> USE <1>1, <1>2, <1>3 DEF Serve, cache_unchanged
<1>4. Serve(t, "sent", IF call[t].op = "open" THEN "opened" ELSE "answered")  BY Zenon DEF modify
<1> USE <1>4
<1>5. Shape'  BY DEF CacheInv, Shape, Change
<1>6. Clean'  BY Zenon DEF CacheInv, Clean
<1>7. \A p \in Path : server'[p] \in Nat /\ server'[p] >= server[p] /\ mine'[t][p] <= server'[p]
  BY DEF CacheInv, Shape, Change
<1>8. Bounded'  BY <1>7 DEF CacheInv, Shape, Bounded, Change
<1>9. Progress'  BY DEF CacheInv, Shape, Progress, Change
<1>10. UnderWay'  BY Zenon DEF CacheInv, Shape, Progress, UnderWay, Holds, Change
<1>11. OwnChangesSeen'  BY Zenon DEF CacheInv, OwnChangesSeen
<1> QED  BY <1>5, <1>6, <1>8, <1>9, <1>10, <1>11, Zenon DEF CacheInv

\* Changes by other clients only make the server's version newer.
LEMMA RemoteHolds ==
  ASSUME CacheInv, NEW p \in Path, remote(p)
  PROVE  CacheInv'
<1> USE DEF remote, locals, cache_unchanged
<1>1. Shape'  BY DEF CacheInv, Shape
<1>2. Clean'  BY Zenon DEF CacheInv, Clean
<1>3. Bounded'  BY DEF CacheInv, Shape, Bounded
<1>4. Progress'  BY Zenon DEF CacheInv, Progress
<1>5. UnderWay'  BY Zenon DEF CacheInv, UnderWay, Holds
<1>6. OwnChangesSeen'  BY Zenon DEF CacheInv, OwnChangesSeen
<1> QED  BY <1>1, <1>2, <1>3, <1>4, <1>5, <1>6, Zenon DEF CacheInv

\* A store leaves each entry as it was, drops it, or writes the new one, and
\* cleans when a cleaning is due.
LEMMA Stored ==
  ASSUME CacheInv, NEW t \in Thread, call[t].path \in Path, got[t] \in Nat, now' = now,
         cache_add_attr(call[t].path, got[t])
  PROVE  /\ table' \in [Path -> Entry \cup {None}] /\ last_cleaned' \in Nat /\ last_added' \in Nat
         /\ \A p \in Path :
              \/ table'[p] \in {None, table[p]} /\ p # call[t].path
              \/ p = call[t].path /\ table'[p] \in {None, [version |-> got[t], valid |-> now + stat_timeout_secs]}
         /\ Clean'
<1> DEFINE new == [version |-> got[t], valid |-> now + stat_timeout_secs]
           tab == [table EXCEPT ![call[t].path] = new]
<1>1. tab \in [Path -> Entry \cup {None}] /\ new \in Entry
  BY CacheAssumption DEF CacheInv, Shape, Entry
<1>2. cache_clean(tab) /\ last_added' = now  BY Zenon DEF cache_add_attr
<1>3. \A p \in Path : tab[p] # None => tab[p].valid >= last_cleaned
  BY CacheAssumption DEF CacheInv, Shape, Clean
<1>4. CASE clean_due(tab)
  <2>1. /\ table' = [p \in Path |-> IF Expired(p, tab) THEN None ELSE tab[p]]
        /\ last_cleaned' = now
    BY <1>2, <1>4, Zenon DEF cache_clean
  <2>2. \A p \in Path : tab[p] # None => tab[p].valid \in Nat  BY <1>1, Zenon DEF Entry
  <2>3. \A p \in Path : table'[p] # None => table'[p].valid >= now
    BY <2>1, <2>2 DEF Expired, CacheInv, Shape
  <2>4. now \in Nat /\ clean_interval_secs \in Nat  BY CacheAssumption, Zenon DEF CacheInv, Shape
  <2>5. last_cleaned' = now /\ last_added' = now  BY <1>2, <2>1, Zenon
  <2>6. Clean'  BY <2>3, <2>4, <2>5 DEF Clean
  <2> QED  BY <1>1, <1>2, <2>1, <2>6, Zenon DEF CacheInv, Shape
<1>5. CASE ~clean_due(tab)
  <2>1. table' = tab /\ last_cleaned' = last_cleaned  BY <1>2, <1>5, Zenon DEF cache_clean
  <2>2. now <= last_cleaned + clean_interval_secs
    BY <1>5, CacheAssumption DEF clean_due, CacheInv, Shape
  <2>3. Clean'  BY <1>2, <1>3, <2>1, <2>2, Zenon DEF CacheInv, Clean
  <2> QED  BY <1>1, <1>2, <2>1, <2>3, Zenon DEF CacheInv, Shape
<1> QED  BY <1>4, <1>5, Zenon

\* cache_invalidate drops the entry of the path and changes no other.
LEMMA PurgedOne ==
  ASSUME CacheInv, NEW t \in Thread, now' = now, cache_invalidate(call[t].path)
  PROVE  /\ table' \in [Path -> Entry \cup {None}] /\ last_cleaned' \in Nat /\ last_added' \in Nat
         /\ \A p \in Path : table'[p] = IF p = call[t].path THEN None ELSE table[p]
         /\ Clean'
BY Zenon DEF CacheInv, Shape, Clean, cache_purge, cache_invalidate

\* cache_invalidate_dir drops the entries of the path and of its directory.
LEMMA PurgedDir ==
  ASSUME CacheInv, NEW t \in Thread, now' = now, cache_invalidate_dir(call[t].path)
  PROVE  /\ table' \in [Path -> Entry \cup {None}] /\ last_cleaned' \in Nat /\ last_added' \in Nat
         /\ \A p \in Path : table'[p] = IF p \in {call[t].path, Parent[call[t].path]} THEN None ELSE table[p]
         /\ Clean'
BY Zenon DEF CacheInv, Shape, Clean, cache_purge, cache_invalidate_dir

\* A return that stores or purges what its outcome calls for keeps the
\* invariant: what it promises from now on, the cache and every reply under
\* way keep, or the path raced.
LEMMA ReturnHolds ==
  ASSUME CacheInv, NEW t \in Thread, Return(t),
         table' \in [Path -> Entry \cup {None}], last_cleaned' \in Nat, last_added' \in Nat,
         Clean',
         \A p \in Path : \/ table'[p] = None
                         \/ table'[p] = table[p] /\ mine[t][p] = 0
                         \/ Holds(t, p) /\ table'[p].version = got[t],
         rv' = None \/ /\ rv'.path = call[t].path /\ rv'.version = got[t]
                       /\ Holds(t, call[t].path) /\ mine[t] = Unmade
  PROVE  CacheInv'
<1>1. Shape'  BY CacheAssumption DEF CacheInv, Shape, Return, Unmade, Larger
<1>2. Bounded'
  BY DEF CacheInv, Shape, Bounded, Return, Unmade, Larger
<1>3. Progress'  BY DEF CacheInv, Shape, Progress, Return, Unmade, NoCall
<1>4. ASSUME NEW p \in Path, p \notin raced', NEW u \in Thread, Holds(u, p)
      PROVE  got[u] >= floor'[p] /\ got[u] \in Nat
  <2>1. got[u] \in Nat  BY <1>4, Zenon DEF CacheInv, Shape, Holds
  <2>2. floor'[p] \in Nat  BY <1>1, Zenon DEF Shape
  <2>3. CASE mine[t][p] = 0
    <3>1. p \notin raced /\ floor'[p] = floor[p]
      BY <1>4, <2>3 DEF Return, Larger, CacheInv, Shape
    <3> QED  BY <1>4, <2>1, <3>1, Zenon DEF CacheInv, UnderWay
  <2>4. CASE mine[t][p] # 0
    BY <1>4, <2>1, <2>2, <2>4 DEF Return
  <2> QED  BY <2>3, <2>4, Zenon
<1>5. UnderWay'
  <2>1. \A u \in Thread, p \in Path : Holds(u, p)' => Holds(u, p) /\ got'[u] = got[u]
    BY Zenon DEF CacheInv, Shape, Return, Holds
  <2> QED  BY <1>4, <2>1, Zenon DEF UnderWay
<1>6. OwnChangesSeen'
  <2> SUFFICES ASSUME NEW p \in Path, p \notin raced'
               PROVE  /\ table'[p] # None => table'[p].version >= floor'[p]
                      /\ rv' # None /\ rv'.path = p => rv'.version >= floor'[p]
    BY Zenon DEF OwnChangesSeen
  <2>1. CASE table'[p] = table[p] /\ mine[t][p] = 0
    <3>1. p \notin raced /\ floor'[p] = floor[p]
      BY <2>1 DEF Return, Larger, CacheInv, Shape
    <3> QED  BY <1>4, <2>1, <3>1, Zenon DEF CacheInv, OwnChangesSeen
  <2>2. CASE table'[p] = None  BY <1>4, <2>2, Zenon
  <2>3. CASE Holds(t, p) /\ table'[p].version = got[t]  BY <1>4, <2>3, Zenon
  <2> QED  BY <2>1, <2>2, <2>3, Zenon
<1> QED  BY <1>1, <1>2, <1>3, <1>5, <1>6, Zenon DEF CacheInv

\* The four calls return so, each with its own treatment of the cache.
LEMMA CallsHold ==
  ASSUME CacheInv, NEW t \in Thread,
         cache_getattr(t) \/ cache_truncate(t) \/ cache_unlink(t) \/ sshfs_open_common(t)
  PROVE  CacheInv'
<1>1. Return(t) /\ pc[t] = "answered" /\ now' = now
  BY Zenon DEF cache_getattr, cache_truncate, cache_unlink, sshfs_open_common, Return
<1>2. call[t] \in Call /\ call[t].path \in Path
  BY <1>1, CallHasPath, Zenon DEF CacheInv, Progress
<1>3. mine[t] \in [Path -> Nat]  BY Zenon DEF CacheInv, Shape
<1>4. call[t].op \in {"getattr", "open"} /\ ~failed[t] =>
        got[t] \in Nat /\ \A p \in Path : Holds(t, p) <=> p = call[t].path
  BY <1>1, <1>2, Zenon DEF CacheInv, Shape, Progress, Holds
<1>5. CASE cache_getattr(t)
  <2>1. mine[t] = Unmade
    BY <1>3, <1>5, Zenon DEF CacheInv, Progress, cache_getattr, Unmade
  <2>2. CASE failed[t]
    <3>1. cache_unchanged /\ rv' = None  BY <1>5, <2>2, Zenon DEF cache_getattr
    <3>2. Clean'  BY <1>1, <3>1, CacheKept DEF CacheInv, Shape
    <3> QED
      BY <1>1, <2>1, <3>1, <3>2, ReturnHolds, Zenon DEF CacheInv, Shape, cache_unchanged, Unmade
  <2>3. CASE ~failed[t]
    <3>1. cache_add_attr(call[t].path, got[t]) /\ rv' = [path |-> call[t].path, version |-> got[t]]
      BY <1>5, <2>3, Zenon DEF cache_getattr
    <3>2. got[t] \in Nat /\ \A p \in Path : Holds(t, p) <=> p = call[t].path
      BY <1>4, <1>5, <2>3, Zenon DEF cache_getattr
    <3> QED
      BY <1>1, <1>2, <2>1, <3>1, <3>2, Stored, ReturnHolds DEF Unmade
  <2> QED  BY <2>2, <2>3, Zenon
<1>6. CASE cache_truncate(t)
  <2>1. \A q \in Path : mine[t][q] # 0 => q = call[t].path
    BY <1>6, Zenon DEF CacheInv, Progress, cache_truncate
  <2>2. CASE failed[t]
    <3>1. cache_unchanged /\ rv' = None  BY <1>6, <2>2, Zenon DEF cache_truncate
    <3>2. Clean'  BY <1>1, <3>1, CacheKept DEF CacheInv, Shape
    <3>3. mine[t] = Unmade  BY <1>6, <2>2, Zenon DEF CacheInv, Progress, cache_truncate
    <3> QED
      BY <1>1, <3>1, <3>2, <3>3, ReturnHolds, Zenon DEF CacheInv, Shape, cache_unchanged, Unmade
  <2>3. CASE ~failed[t]
    <3>1. cache_invalidate(call[t].path) /\ rv' = None  BY <1>6, <2>3, Zenon DEF cache_truncate
    <3> QED  BY <1>1, <1>2, <2>1, <3>1, PurgedOne, ReturnHolds, Zenon
  <2> QED  BY <2>2, <2>3, Zenon
<1>7. CASE cache_unlink(t)
  <2>1. \A q \in Path : mine[t][q] # 0 => q \in {call[t].path, Parent[call[t].path]}
    BY <1>7, Zenon DEF CacheInv, Progress, cache_unlink
  <2>2. CASE failed[t]
    <3>1. cache_unchanged /\ rv' = None  BY <1>7, <2>2, Zenon DEF cache_unlink
    <3>2. Clean'  BY <1>1, <3>1, CacheKept DEF CacheInv, Shape
    <3>3. mine[t] = Unmade  BY <1>7, <2>2, Zenon DEF CacheInv, Progress, cache_unlink
    <3> QED
      BY <1>1, <3>1, <3>2, <3>3, ReturnHolds, Zenon DEF CacheInv, Shape, cache_unchanged, Unmade
  <2>3. CASE ~failed[t]
    <3>1. cache_invalidate_dir(call[t].path) /\ rv' = None  BY <1>7, <2>3, Zenon DEF cache_unlink
    <3> QED  BY <1>1, <1>2, <2>1, <3>1, PurgedDir, ReturnHolds, Zenon
  <2> QED  BY <2>2, <2>3, Zenon
<1>8. CASE sshfs_open_common(t)
  <2>1. \A q \in Path : mine[t][q] # 0 => q = call[t].path
    BY <1>8, Zenon DEF CacheInv, Progress, sshfs_open_common
  <2>2. CASE failed[t]
    <3>1. cache_invalidate(call[t].path) /\ rv' = None  BY <1>8, <2>2, Zenon DEF sshfs_open_common
    <3> QED  BY <1>1, <1>2, <2>1, <3>1, PurgedOne, ReturnHolds, Zenon
  <2>3. CASE ~failed[t]
    <3>1. cache_add_attr(call[t].path, got[t]) /\ rv' = None
      BY <1>8, <2>3, Zenon DEF sshfs_open_common
    <3>2. got[t] \in Nat /\ \A p \in Path : Holds(t, p) <=> p = call[t].path
      BY <1>4, <1>8, <2>3, Zenon DEF sshfs_open_common
    <3> QED
      BY <1>1, <1>2, <2>1, <3>1, <3>2, Stored, ReturnHolds
  <2> QED  BY <2>2, <2>3, Zenon
<1> QED  BY <1>5, <1>6, <1>7, <1>8, Zenon

\* The passing of time leaves every entry where it is.
LEMMA TickHolds ==
  ASSUME CacheInv, tick
  PROVE  CacheInv'
<1> USE DEF tick, locals, cache_unchanged
<1>1. Shape'  BY DEF CacheInv, Shape
<1>2. Clean'  BY CacheKept DEF CacheInv, Shape
<1>3. Bounded'  BY Zenon DEF CacheInv, Bounded
<1>4. Progress'  BY Zenon DEF CacheInv, Progress
<1>5. UnderWay'  BY Zenon DEF CacheInv, UnderWay, Holds
<1>6. OwnChangesSeen'  BY Zenon DEF CacheInv, OwnChangesSeen
<1> QED  BY <1>1, <1>2, <1>3, <1>4, <1>5, <1>6, Zenon DEF CacheInv

\* Every step keeps the invariant.
LEMMA NextHolds == CacheInv /\ [Next]_vars => CacheInv'
<1> SUFFICES ASSUME CacheInv, [Next]_vars PROVE CacheInv'
  BY Zenon
<1>1. CASE Next
  BY <1>1, TickHolds, RemoteHolds, HitHolds, SendHolds, RefuseHolds, AttrsHolds, ModifyHolds, CallsHold
 , Zenon DEF Next, Step
<1>2. CASE UNCHANGED vars
  BY <1>2, Zenon DEF vars, locals, ghosts, CacheInv, Shape, Clean, Bounded, Progress, UnderWay, Holds, OwnChangesSeen
<1> QED  BY <1>1, <1>2, Zenon

\* The invariant always holds.
LEMMA AlwaysHolds == Spec => []CacheInv
BY InitHolds, NextHolds, PTL DEF Spec

\* Whatever the threads, paths and timeouts: after a truncate, an unlink or a
\* changing open of cache.c and sshfs_open_common has returned, nobody is told
\* older attributes unless an older reply was under way at that return.
THEOREM ChangesAreSeen == Spec => []OwnChangesSeen
BY AlwaysHolds, PTL DEF CacheInv

\* Whatever the timeouts and the size limit: cache_clean lets no entry outlive
\* its validity by more than clean_interval_secs while attributes are stored.
THEOREM ExpiredGo == Spec => []ExpiredAreCollected
<1>1. CacheInv => ExpiredAreCollected
  BY CacheAssumption DEF CacheInv, Shape, Entry, Clean, ExpiredAreCollected
<1> QED  BY <1>1, AlwaysHolds, PTL


----------------------------------------------------------------------------
\* The bounds TypeOK puts on versions and on times, beside what Shape says.
Version == 1 .. MaxVersion
Fresh(e, n) == e.version \in Version /\ e.valid <= n + stat_timeout_secs

Bounds ==
  /\ last_added <= now
  /\ \A p \in Path : table[p] # None => Fresh(table[p], now)
  /\ server \in [Path -> Version] /\ got \in [Thread -> Version \cup {None}]
  /\ rv \in [path : Path, version : Version] \cup {None}

\* A step that leaves the cache alone and tells nobody anything keeps what
\* Bounds says of them; what was stored before stays fresh when time passes.
LEMMA CacheBounds ==
  ASSUME CacheInv, Bounds, cache_unchanged, now' \in Nat, now' >= now, rv' = None,
         server' \in [Path -> Version], got' \in [Thread -> Version \cup {None}]
  PROVE  Bounds'
<1>1. last_added' <= now'  BY DEF Bounds, cache_unchanged, CacheInv, Shape
<1>2. ASSUME NEW p \in Path, table'[p] # None  PROVE Fresh(table'[p], now')
  <2>1. table'[p] = table[p] /\ Fresh(table[p], now)  BY <1>2, Zenon DEF Bounds, cache_unchanged
  <2>2. table[p] \in Entry  BY <1>2, <2>1, Zenon DEF CacheInv, Shape
  <2> QED  BY <2>1, <2>2, CacheAssumption DEF Fresh, Entry, CacheInv, Shape
<1> QED  BY <1>1, <1>2, Zenon DEF Bounds

\* So does a return that stores what the server sent, or drops entries.
LEMMA ReturnBounds ==
  ASSUME CacheInv, Bounds, NEW t \in Thread, Return(t),
         last_added' \in {last_added, now},
         \A p \in Path : \/ table'[p] \in {None, table[p]}
                         \/ /\ got[t] # None
                            /\ table'[p] = [version |-> got[t], valid |-> now + stat_timeout_secs],
         rv' = None \/ (rv' = [path |-> call[t].path, version |-> got[t]] /\ got[t] # None),
         call[t].path \in Path
  PROVE  Bounds'
<1>1. UNCHANGED <<now, server>> /\ got' = [got EXCEPT ![t] = None] /\ got[t] \in Version \cup {None}
  BY Zenon DEF Return, Bounds
<1>2. last_added' <= now'  BY <1>1 DEF Bounds, CacheInv, Shape
<1>3. now \in Nat /\ stat_timeout_secs \in Nat  BY CacheAssumption, Zenon DEF CacheInv, Shape
<1>4. ASSUME NEW p \in Path, table'[p] # None  PROVE Fresh(table'[p], now)
  <2>1. CASE table'[p] = table[p]  BY <1>4, <2>1, Zenon DEF Bounds
  <2>2. CASE got[t] # None /\ table'[p] = [version |-> got[t], valid |-> now + stat_timeout_secs]
    BY <1>1, <1>3, <2>2 DEF Fresh
  <2> QED  BY <1>4, <2>1, <2>2, Zenon
<1>5. rv' \in [path : Path, version : Version] \cup {None}  BY <1>1
<1>6. got' \in [Thread -> Version \cup {None}]  BY <1>1, Zenon DEF Bounds
<1> QED  BY <1>1, <1>2, <1>4, <1>5, <1>6, Zenon DEF Bounds

\* The four calls return so.
LEMMA CallsBounds ==
  ASSUME CacheInv, Bounds, NEW t \in Thread,
         cache_getattr(t) \/ cache_truncate(t) \/ cache_unlink(t) \/ sshfs_open_common(t)
  PROVE  Bounds'
<1>1. Return(t) /\ pc[t] = "answered"
  BY Zenon DEF cache_getattr, cache_truncate, cache_unlink, sshfs_open_common, Return
<1>2. call[t].path \in Path
  BY <1>1, CallHasPath, Zenon DEF CacheInv, Progress
<1>3. ASSUME cache_unchanged \/ cache_invalidate(call[t].path) \/ cache_invalidate_dir(call[t].path)
      PROVE  last_added' = last_added /\ \A p \in Path : table'[p] \in {None, table[p]}
  BY <1>3, Zenon DEF cache_unchanged, cache_invalidate, cache_invalidate_dir, cache_purge
<1>4. ASSUME ~failed[t], call[t].op \in {"getattr", "open"}, cache_add_attr(call[t].path, got[t])
      PROVE  /\ last_added' = now /\ got[t] # None
             /\ \A p \in Path :
                  \/ table'[p] \in {None, table[p]}
                  \/ table'[p] = [version |-> got[t], valid |-> now + stat_timeout_secs]
  <2>1. got[t] # None /\ got[t] \in Nat  BY <1>1, <1>4, Zenon DEF CacheInv, Shape, Progress
  <2>2. now' = now  BY <1>1, Zenon DEF Return
  <2> QED  BY <1>2, <1>4, <2>1, <2>2, Stored, Zenon DEF cache_add_attr
<1>5. CASE cache_getattr(t)
  <2>1. CASE failed[t]
    <3>1. cache_unchanged /\ rv' = None  BY <1>5, <2>1, Zenon DEF cache_getattr
    <3> QED  BY <1>1, <1>2, <1>3, <3>1, ReturnBounds, Zenon
  <2>2. CASE ~failed[t]
    <3>1. cache_add_attr(call[t].path, got[t]) /\ rv' = [path |-> call[t].path, version |-> got[t]]
          /\ call[t].op = "getattr"
      BY <1>5, <2>2, Zenon DEF cache_getattr
    <3> QED  BY <1>1, <1>2, <1>4, <2>2, <3>1, ReturnBounds, Zenon
  <2> QED  BY <2>1, <2>2, Zenon
<1>6. CASE cache_truncate(t) \/ cache_unlink(t)
  <2>1. /\ rv' = None
        /\ cache_unchanged \/ cache_invalidate(call[t].path) \/ cache_invalidate_dir(call[t].path)
    BY <1>6, Zenon DEF cache_truncate, cache_unlink
  <2> QED  BY <1>1, <1>2, <1>3, <2>1, ReturnBounds, Zenon
<1>7. CASE sshfs_open_common(t)
  <2>1. rv' = None /\ call[t].op = "open"  BY <1>7, Zenon DEF sshfs_open_common
  <2>2. CASE failed[t]
    <3>1. cache_invalidate(call[t].path)  BY <1>7, <2>2, Zenon DEF sshfs_open_common
    <3> QED  BY <1>1, <1>2, <1>3, <2>1, <3>1, ReturnBounds, Zenon
  <2>3. CASE ~failed[t]
    <3>1. cache_add_attr(call[t].path, got[t])  BY <1>7, <2>3, Zenon DEF sshfs_open_common
    <3> QED  BY <1>1, <1>2, <1>4, <2>1, <2>3, <3>1, ReturnBounds, Zenon
  <2> QED  BY <2>2, <2>3, Zenon
<1> QED  BY <1>5, <1>6, <1>7, Zenon

\* Every step keeps the bounds.
LEMMA NextBounds == CacheInv /\ Bounds /\ [Next]_vars => Bounds'
<1> SUFFICES ASSUME CacheInv, Bounds, [Next]_vars  PROVE Bounds'
  BY Zenon
<1>0. /\ now \in Nat /\ MaxVersion \in Nat
      /\ server \in [Path -> Version] /\ got \in [Thread -> Version \cup {None}]
  BY CacheAssumption, Zenon DEF CacheInv, Shape, Bounds
<1>1. CASE tick
  BY <1>0, <1>1, CacheBounds DEF tick, locals
<1>2. ASSUME NEW p \in Path, remote(p)  PROVE Bounds'
  <2>1. server' = [server EXCEPT ![p] = @ + 1] /\ server[p] < MaxVersion  BY <1>2, Zenon DEF remote
  <2>2. server' \in [Path -> Version]  BY <1>0, <2>1 DEF Version
  <2> QED  BY <1>0, <1>2, <2>2, CacheBounds DEF remote, locals
<1>3. ASSUME NEW t \in Thread, NEW p \in Path, getattr_hit(t, p)  PROVE Bounds'
  <2>1. rv' = [path |-> p, version |-> table[p].version] /\ table[p] # None
        /\ UNCHANGED <<now, table, last_added, server, got>>
    BY <1>3, Zenon DEF getattr_hit, cache_get_attr, cache_unchanged, locals
  <2>2. table[p].version \in Version  BY <2>1, Zenon DEF Bounds, Fresh
  <2>3. rv' \in [path : Path, version : Version] \cup {None}  BY <2>1, <2>2, Zenon
  <2> QED  BY <2>1, <2>3, Zenon DEF Bounds
<1>4. ASSUME NEW t \in Thread, NEW c \in Call, send(t, c)  PROVE Bounds'
  BY <1>0, <1>4, CacheBounds DEF send
<1>5. ASSUME NEW t \in Thread, refuse(t)  PROVE Bounds'
  BY <1>0, <1>5, CacheBounds DEF refuse, Serve
<1>6. ASSUME NEW t \in Thread, attrs(t)  PROVE Bounds'
  <2>1. call[t].path \in Path  BY <1>6, CallHasPath, Zenon DEF CacheInv, Progress, attrs, Serve
  <2>2. got' \in [Thread -> Version \cup {None}]  BY <1>0, <1>6, <2>1, Zenon DEF attrs
  <2> QED  BY <1>0, <1>6, <2>2, CacheBounds DEF attrs, Serve
<1>7. ASSUME NEW t \in Thread, modify(t)  PROVE Bounds'
  <2>1. PICK P, Q : Change(t, P, Q) /\ P \subseteq Path
    <3>1. call[t].path \in Path /\ Parent[call[t].path] \in Path
      BY <1>7, CallHasPath, CacheAssumption, Zenon DEF CacheInv, Progress, modify, Serve
    <3> QED  BY <1>7, <3>1 DEF modify
  <2>2. server' \in [Path -> Version]  BY <1>0, <2>1 DEF Change, Version
  <2>3. cache_unchanged /\ now' = now /\ rv' = None /\ got' = got
    BY <1>7, <2>1, Zenon DEF modify, Serve, Change
  <2> QED  BY <1>0, <2>2, <2>3, CacheBounds
<1>8. ASSUME NEW t \in Thread,
             cache_getattr(t) \/ cache_truncate(t) \/ cache_unlink(t) \/ sshfs_open_common(t)
      PROVE  Bounds'
  BY <1>8, CallsBounds, Zenon
<1>9. CASE UNCHANGED vars
  BY <1>9, Zenon DEF vars, locals, ghosts, Bounds
<1> QED  BY <1>1, <1>2, <1>3, <1>4, <1>5, <1>6, <1>7, <1>8, <1>9, Zenon DEF Next, Step

\* The types, with the life of an entry: cache_add_attr dates it from
\* time(NULL), so it is never valid for longer than the timeout.
THEOREM CacheTypes == Spec => []TypeOK
<1>1. Init => Bounds
  <2> SUFFICES ASSUME Init  PROVE Bounds
    BY Zenon
  <2>1. last_added <= now  BY CacheAssumption DEF Init
  <2>2. server \in [Path -> Version]  BY CacheAssumption DEF Init, Version
  <2> QED  BY <2>1, <2>2, Zenon DEF Init, Bounds
<1>2. CacheInv /\ Bounds => TypeOK
  <2> SUFFICES ASSUME CacheInv, Bounds  PROVE TypeOK
    BY Zenon
  <2>1. now \in Nat /\ last_cleaned \in 0 .. now /\ last_added \in 0 .. now
    BY DEF CacheInv, Shape, Clean, Bounds
  <2>2. ASSUME NEW p \in Path, table[p] # None
        PROVE  table[p] \in [version : 1 .. MaxVersion, valid : 0 .. now + stat_timeout_secs]
    <3>1. table[p] \in Entry /\ Fresh(table[p], now)  BY <2>2, Zenon DEF CacheInv, Shape, Bounds
    <3>2. table[p].valid \in 0 .. now + stat_timeout_secs
      BY <2>1, <3>1, CacheAssumption DEF Entry, Fresh
    <3> QED  BY <3>1, <3>2, Zenon DEF Entry, Fresh, Version
  <2>3. table \in [Path -> [version : 1 .. MaxVersion, valid : 0 .. now + stat_timeout_secs] \cup {None}]
    BY <2>2 DEF CacheInv, Shape
  <2> QED  BY <2>1, <2>3 DEF CacheInv, Shape, Bounds, Version, TypeOK
<1> QED  BY <1>1, <1>2, NextBounds, AlwaysHolds, InitHolds, PTL DEF Spec
============================================================================
