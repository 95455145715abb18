----------------------------- MODULE AttrCache -----------------------------
(***************************************************************************)
(* The attribute cache of the sshfs file system (usfs_wrap/sshfs/cache.c)  *)
(* and the calls that fill and purge it: getattr, truncate, unlink, open.  *)
(* A call looks at the cache, lets go of cache.lock for the round trip to  *)
(* the server, and takes the lock again to store or to purge, so a reply   *)
(* may be stored after the file it describes has changed.                  *)
(* The attributes of a path are abstracted to a version that grows with    *)
(* every change.  write_ctr is left out: only cache_write changes it, and  *)
(* the write below it works on the wrong pointer (README, "Not modelled"). *)
(***************************************************************************)
EXTENDS Naturals, FiniteSets

CONSTANTS
  Thread,         \* threads of the program
  Path,           \* paths in use
  Parent,         \* path -> the directory it is in; "/" is its own
  stat_timeout_secs,
  clean_interval_secs,
  min_clean_interval_secs,
  max_size,
  MaxVersion,     \* bound on the changes of a path
  MaxNow,         \* bound on the clock
  None

ASSUME CacheAssumption ==
  /\ Parent \in [Path -> Path] /\ IsFiniteSet(Path)
  /\ {stat_timeout_secs, clean_interval_secs, min_clean_interval_secs,
      max_size, MaxVersion, MaxNow} \subseteq Nat
  /\ min_clean_interval_secs <= clean_interval_secs /\ MaxVersion >= 1
  /\ None \notin Nat /\ None \notin [path : Path, version : Nat]
                    /\ None \notin [version : Nat, valid : Nat]

VARIABLES
  now,            \* time(NULL)
  table,          \* path -> the attributes in its node and until when they are valid
  last_cleaned,
  server,         \* path -> version of its attributes on the server
  pc,             \* thread -> where its call is
  call,           \* thread -> the call: operation and path
  failed,         \* thread -> some request of the call failed
  got,            \* thread -> the attributes it was sent, if any
  rv,             \* what the call that returned last told about a path
  mine,           \* thread -> path -> the version its call made, 0 if none
  floor,          \* path -> newest version made by a call that has returned
  raced,          \* paths an older reply was under way for at that return
  last_added      \* when attributes were last stored

locals == <<pc, call, failed, got>>
ghosts == <<mine, floor, raced, last_added>>
vars == <<now, table, last_cleaned, server, locals, rv, ghosts>>

Larger(a, b) == IF a >= b THEN a ELSE b

File == {p \in Path : \A q \in Path : Parent[q] # p}
NoCall == [op |-> "none"]
Call == [op : {"getattr"}, path : Path] \cup [op : {"truncate", "unlink", "open"}, path : File]
Unmade == [q \in Path |-> 0]

Init ==
  /\ now = clean_interval_secs + 1 /\ last_cleaned = 0
  /\ table = [p \in Path |-> None]
  /\ server = [p \in Path |-> 1]
  /\ pc = [t \in Thread |-> "idle"] /\ call = [t \in Thread |-> NoCall]
  /\ failed = [t \in Thread |-> FALSE] /\ got = [t \in Thread |-> None]
  /\ rv = None
  /\ mine = [t \in Thread |-> Unmade]
  /\ floor = [p \in Path |-> 0] /\ raced = {} /\ last_added = 0

Size(tab) == Cardinality({p \in Path : tab[p] # None})

\* Nodes are looked through now and then, more often when there are many, and
\* those whose validity is over are removed.  A slip: those still valid are.
clean_due(tab) ==
  /\ now > last_cleaned + min_clean_interval_secs
  /\ \/ Size(tab) > max_size
     \/ now > last_cleaned + clean_interval_secs

ExpiredSwapped(p, tab) == tab[p] # None /\ tab[p].valid > now

Expired(p, tab) == tab[p] # None /\ now > tab[p].valid

cache_clean(tab) ==
  IF clean_due(tab)
    THEN /\ table' = [p \in Path |-> IF Expired(p, tab) THEN None ELSE tab[p]]
         /\ last_cleaned' = now
    ELSE table' = tab /\ UNCHANGED last_cleaned

cache_add_attr(p, v) ==
  /\ cache_clean([table EXCEPT ![p] = [version |-> v, valid |-> now + stat_timeout_secs]])
  /\ last_added' = now

cache_purge(P) ==
  /\ table' = [p \in Path |-> IF p \in P THEN None ELSE table[p]]
  /\ UNCHANGED <<last_cleaned, last_added>>

cache_invalidate(p) == cache_purge({p})

\* The path and its directory.  A slip: cache_purge_parent is forgotten.
cache_invalidate_dir_only_path(p) == cache_purge({p})

cache_invalidate_dir(p) == cache_purge({p, Parent[p]})

cache_unchanged == UNCHANGED <<table, last_cleaned, last_added>>

cache_get_attr(p) == IF table[p] = None THEN FALSE ELSE table[p].valid >= now

\* cache_getattr when cache_get_attr finds attributes that are still valid.
getattr_hit(t, p) ==
  /\ pc[t] = "idle" /\ cache_get_attr(p)
  /\ rv' = [path |-> p, version |-> table[p].version]
  /\ cache_unchanged
  /\ UNCHANGED <<now, server, locals, mine, floor, raced>>

\* A call that needs the server: its requests are sent.
send(t, c) ==
  /\ pc[t] = "idle"
  /\ c.op = "getattr" => ~cache_get_attr(c.path)
  /\ pc' = [pc EXCEPT ![t] = "sent"] /\ call' = [call EXCEPT ![t] = c]
  /\ rv' = None
  /\ cache_unchanged
  /\ UNCHANGED <<now, server, failed, got, mine, floor, raced>>

\* The SFTP server carries out a request, in the order they were sent.
Serve(t, from, to) ==
  /\ pc[t] = from /\ pc' = [pc EXCEPT ![t] = to]
  /\ rv' = None
  /\ cache_unchanged
  /\ UNCHANGED <<now, call, floor, raced>>

refuse(t) ==
  /\ \/ Serve(t, "sent", IF call[t].op = "open" THEN "opened" ELSE "answered")
     \/ Serve(t, "opened", "answered")
  /\ failed' = [failed EXCEPT ![t] = TRUE]
  /\ UNCHANGED <<server, got, mine>>

attrs(t) ==
  /\ \/ Serve(t, "sent", "answered") /\ call[t].op = "getattr"
     \/ Serve(t, "opened", "answered")
  /\ got' = [got EXCEPT ![t] = server[call[t].path]]
  /\ UNCHANGED <<server, failed, mine>>

\* The paths in P change; the call that asked for it answers for those in Q.
Change(t, P, Q) ==
  /\ \A p \in P : server[p] < MaxVersion
  /\ server' = [p \in Path |-> server[p] + IF p \in P THEN 1 ELSE 0]
  /\ mine' = [mine EXCEPT ![t] = [q \in Path |-> IF q \in Q THEN server'[q] ELSE 0]]
  /\ UNCHANGED <<failed, got>>

modify(t) ==
  /\ Serve(t, "sent", IF call[t].op = "open" THEN "opened" ELSE "answered")
  /\ LET p == call[t].path IN
     \/ call[t].op = "truncate" /\ Change(t, {p}, {p})
     \/ call[t].op = "unlink" /\ Change(t, {p, Parent[p]}, {p, Parent[p]})
     \/ call[t].op = "open" /\ Change(t, {}, {})
     \/ call[t].op = "open" /\ Change(t, {p}, {p})
     \/ call[t].op = "open" /\ Change(t, {p, Parent[p]}, {p})

\* Another client of the server changes a path.
remote(p) ==
  /\ server[p] < MaxVersion
  /\ server' = [server EXCEPT ![p] = @ + 1]
  /\ rv' = None
  /\ cache_unchanged
  /\ UNCHANGED <<now, locals, mine, floor, raced>>

\* Thread t was sent attributes of p and has not stored them yet.
Holds(t, p) == pc[t] = "answered" /\ call[t].path = p /\ got[t] # None

Return(t) ==
  /\ pc[t] = "answered" /\ pc' = [pc EXCEPT ![t] = "idle"]
  /\ call' = [call EXCEPT ![t] = NoCall]
  /\ failed' = [failed EXCEPT ![t] = FALSE] /\ got' = [got EXCEPT ![t] = None]
  /\ mine' = [mine EXCEPT ![t] = Unmade]
  /\ floor' = [p \in Path |-> Larger(floor[p], mine[t][p])]
  /\ raced' = {p \in Path :
                 IF mine[t][p] = 0 THEN p \in raced
                 ELSE \E u \in Thread : Holds(u, p) /\ got[u] < floor'[p]}
  /\ UNCHANGED <<now, server>>

\* The call has its replies: what it does with the cache before it returns.
cache_getattr(t) ==
  /\ call[t].op = "getattr" /\ Return(t)
  /\ IF failed[t] THEN rv' = None /\ cache_unchanged
     ELSE /\ rv' = [path |-> call[t].path, version |-> got[t]]
          /\ cache_add_attr(call[t].path, got[t])

cache_truncate(t) ==
  /\ call[t].op = "truncate" /\ Return(t) /\ rv' = None
  /\ IF failed[t] THEN cache_unchanged ELSE cache_invalidate(call[t].path)

cache_unlink(t) ==
  /\ call[t].op = "unlink" /\ Return(t) /\ rv' = None
  /\ IF failed[t] THEN cache_unchanged ELSE cache_invalidate_dir(call[t].path)

\* A slip: the attributes are stored whether or not LSTAT brought any.
open_stores_always(t) ==
  /\ call[t].op = "open" /\ Return(t) /\ rv' = None
  /\ cache_add_attr(call[t].path, got[t])

sshfs_open_common(t) ==
  /\ call[t].op = "open" /\ Return(t) /\ rv' = None
  /\ IF failed[t] THEN cache_invalidate(call[t].path) ELSE cache_add_attr(call[t].path, got[t])

tick ==
  /\ now < MaxNow /\ now' = now + 1
  /\ rv' = None
  /\ cache_unchanged
  /\ UNCHANGED <<server, locals, mine, floor, raced>>

Step(t) ==
  \/ \E p \in Path : getattr_hit(t, p)
  \/ \E c \in Call : send(t, c)
  \/ refuse(t) \/ attrs(t) \/ modify(t)
  \/ cache_getattr(t) \/ cache_truncate(t) \/ cache_unlink(t) \/ sshfs_open_common(t)

Next == tick \/ (\E p \in Path : remote(p)) \/ \E t \in Thread : Step(t)

Spec == Init /\ [][Next]_vars

---------------------------------------------------------------------------

\* Nodes, clocks and calls have their types, and an entry's remaining life
\* never exceeds the timeout (cache_add_attr dates it from time(NULL)).
TypeOK ==
  /\ now \in Nat /\ last_cleaned \in 0 .. now /\ last_added \in 0 .. now
  /\ table \in [Path -> [version : 1 .. MaxVersion, valid : 0 .. now + stat_timeout_secs] \cup {None}]
  /\ server \in [Path -> 1 .. MaxVersion]
  /\ pc \in [Thread -> {"idle", "sent", "opened", "answered"}]
  /\ call \in [Thread -> Call \cup {NoCall}]
  /\ failed \in [Thread -> BOOLEAN] /\ got \in [Thread -> 1 .. MaxVersion \cup {None}]
  /\ rv \in [path : Path, version : 1 .. MaxVersion] \cup {None}

\* Once a truncate, an unlink or an open that changed a file has returned,
\* nobody is told older attributes of it (nor, after an unlink, of its
\* directory), from the cache or from the server, unless a reply with older
\* attributes was under way to some thread at that return.
OwnChangesSeen ==
  \A p \in Path \ raced :
    /\ table[p] # None => table[p].version >= floor[p]
    /\ rv # None /\ rv.path = p => rv.version >= floor[p]

\* While attributes keep being stored, cache_clean lets no entry outlive its
\* validity by more than the cleaning interval.
ExpiredAreCollected ==
  \A p \in Path : table[p] # None => last_added <= table[p].valid + clean_interval_secs

============================================================================
