------------------------------- MODULE Paths -------------------------------
(***************************************************************************)
(* Which paths lddefuse serves: resolve_path (libdefuse/util.c) makes the  *)
(* caller's path absolute and removes "/./", "//" and "/../" from it, each *)
(* in a loop of its own, and find_mount_and_strip_path (mount_points.c)    *)
(* compares the result with the mount points.  Both work on character      *)
(* strings in place, and so does this module: a path is a sequence of      *)
(* characters, a step is one turn of a loop.                               *)
(***************************************************************************)
EXTENDS Integers, Sequences

CONSTANTS
  Char,       \* characters of paths, among them "/" and "."
  Mounts,     \* the mount paths in the order of /proc/mounts
  Cwd,        \* the current working directory
  MaxLen      \* bound on the length of a caller's path

VARIABLES
  given,      \* the path the caller passes
  path,       \* the string that is worked on
  pc,         \* the loop that is running, then "lookup", "done" or "null"
  mount       \* the mount that serves the path, 0 if the kernel does

pathVars == <<given, path, pc, mount>>

Slash == <<"/">>
SlashSlash == <<"/", "/">>
SlashDot == <<"/", ".", "/">>
SlashDotDot == <<"/", ".", ".", "/">>

----------------------------------------------------------------------------
\* Reference: a walker that reads a path character by character.  It stands in
\* directory dir (a sequence of names) and has read cur of the next name; past
\* says that it was asked to climb past the root, where it stays.
Here == <<".">>
Up == <<".", ".">>
Start == [dir |-> <<>>, cur |-> <<>>, past |-> FALSE]

Enter(w) ==
  IF w.cur \in {<<>>, Here} THEN [dir |-> w.dir, cur |-> <<>>, past |-> w.past]
  ELSE IF w.cur # Up THEN [dir |-> Append(w.dir, w.cur), cur |-> <<>>, past |-> w.past]
  ELSE IF w.dir = <<>> THEN [dir |-> <<>>, cur |-> <<>>, past |-> TRUE]
  ELSE [dir |-> SubSeq(w.dir, 1, Len(w.dir) - 1), cur |-> <<>>, past |-> w.past]

Read(w, c) ==
  IF c = "/" THEN Enter(w)
  ELSE [dir |-> w.dir, cur |-> Append(w.cur, c), past |-> w.past]

\* The walker after it has read p, and where p leads once its last name is
\* entered too.
Walked(w, p) ==
  LET after[k \in 0 .. Len(p)] == IF k = 0 THEN w ELSE Read(after[k - 1], p[k])
  IN  after[Len(p)]

Walk(p) == Enter(Walked(Start, p))

\* The one way to write a directory as a path: a slash before every name.
Below(p, name) == p \o Slash \o name

Spell(d) ==
  LET upto[k \in 0 .. Len(d)] == IF k = 0 THEN <<>> ELSE Below(upto[k - 1], d[k])
  IN  upto[Len(d)]

\* str stands in p at i.
Occurs(p, str, i) ==
  /\ i + Len(str) - 1 <= Len(p)
  /\ \A k \in 1 .. Len(str) : p[i + k - 1] = str[k]

Under(d, top) == Occurs(d, top, 1)

\* The mount paths are the kernel's, in the one way to write them; a mount at
\* the root is left out.
ASSUME PathsAssumption ==
  /\ {"/", "."} \subseteq Char /\ MaxLen \in Nat
  /\ Cwd \in Seq(Char) /\ Cwd # <<>> /\ Cwd[1] = "/"
  /\ Mounts \in Seq(Seq(Char))
  /\ \A i \in DOMAIN Mounts : Mounts[i] # <<>> /\ Mounts[i] = Spell(Walk(Mounts[i]).dir)

----------------------------------------------------------------------------
\* The first place of str in p, or 0.
strstr(p, str) ==
  LET places == {i \in 1 .. Len(p) : Occurs(p, str, i)}
  IN  IF places = {} THEN 0 ELSE CHOOSE i \in places : \A j \in places : i <= j

\* p without what stands from i to before j (memmove and the new zero byte).
Cut(p, i, j) == SubSeq(p, 1, i - 1) \o SubSeq(p, j, Len(p))

\* The slash before i that the inner loop of remove_dot_dot stops at.
p_start(p, i) ==
  CHOOSE k \in 1 .. i - 1 : p[k] = "/" /\ \A l \in k + 1 .. i - 1 : p[l] # "/"

absolute(p) == IF p[1] = "/" THEN p ELSE Cwd \o Slash \o p

\* A slip: the slash after the mount path is stripped as well.
StripDropsSlash(p, m) ==
  IF Len(p) <= Len(m) + 1 THEN Slash ELSE SubSeq(p, Len(m) + 2, Len(p))

strip(p, m) == IF Len(p) = Len(m) THEN Slash ELSE SubSeq(p, Len(m) + 1, Len(p))

PathInit ==
  /\ \E n \in 0 .. MaxLen : given \in [1 .. n -> Char]
  /\ path = <<>> /\ pc = "call" /\ mount = 0

\* An empty path has no resolution (NULL); any other is made absolute.
make_absolute ==
  /\ pc = "call"
  /\ \/ given = <<>> /\ pc' = "null" /\ path' = path
     \/ given # <<>> /\ pc' = "dot" /\ path' = absolute(given)
  /\ UNCHANGED <<given, mount>>

\* A slip: one pass instead of a loop.
RemoveOnce(str, loop, next) ==
  /\ pc = loop /\ pc' = next
  /\ LET i == strstr(path, str) IN
       path' = IF i = 0 THEN path ELSE Cut(path, i, i + Len(str) - 1)
  /\ UNCHANGED <<given, mount>>

\* All but the last character of str go; the last may begin another str.
remove_path_string(str, loop, next) ==
  /\ pc = loop
  /\ LET i == strstr(path, str) IN
       \/ i = 0 /\ pc' = next /\ path' = path
       \/ i # 0 /\ pc' = pc /\ path' = Cut(path, i, i + Len(str) - 1)
  /\ UNCHANGED <<given, mount>>

\* A slip: the slash that ends the component before "/../" goes, the component
\* itself stays.
DropDotsOnly(loop, next) ==
  /\ pc = loop
  /\ LET i == strstr(path, SlashDotDot) IN
       \/ i \in {0, 1} /\ pc' = next /\ path' = path
       \/ i > 1 /\ pc' = pc /\ path' = Cut(path, i, i + 3)
  /\ UNCHANGED <<given, mount>>

\* A slip: where "/../" begins the path nothing is removed, and the loop goes on.
LoopAtRoot(loop, next) ==
  /\ pc = loop
  /\ LET i == strstr(path, SlashDotDot) IN
       \/ i = 0 /\ pc' = next /\ path' = path
       \/ i > 0 /\ pc' = pc
          /\ path' = IF i = 1 THEN path ELSE Cut(path, p_start(path, i), i + 3)
  /\ UNCHANGED <<given, mount>>

\* The component before "/../" goes with it, up to the slash that begins it; a
\* path that begins with "/../" is left as it is from there on.
remove_dot_dot(loop, next) ==
  /\ pc = loop
  /\ LET i == strstr(path, SlashDotDot) IN
       \/ i \in {0, 1} /\ pc' = next /\ path' = path
       \/ i > 1 /\ pc' = pc /\ path' = Cut(path, p_start(path, i), i + 3)
  /\ UNCHANGED <<given, mount>>

\* A slip: ".." is removed while double slashes still stand.
DotsBeforeSlashes ==
  \/ make_absolute
  \/ remove_path_string(SlashDot, "dot", "dotdot")
  \/ remove_dot_dot("dotdot", "slash")
  \/ remove_path_string(SlashSlash, "slash", "lookup")

resolve_path ==
  \/ make_absolute
  \/ remove_path_string(SlashDot, "dot", "slash")
  \/ remove_path_string(SlashSlash, "slash", "dotdot")
  \/ remove_dot_dot("dotdot", "lookup")

\* A slip: the mount point itself is left to the kernel.
MatchingBelow(p) == {i \in DOMAIN Mounts : strstr(p, Mounts[i]) = 1 /\ Len(p) > Len(Mounts[i])}

\* The mounts whose path begins p.
Matching(p) == {i \in DOMAIN Mounts : strstr(p, Mounts[i]) = 1 /\ Len(p) > 1}

\* The first of them serves the path, which is cut to what follows.
find_mount_and_strip_path ==
  /\ pc = "lookup" /\ pc' = "done"
  /\ \/ Matching(path) = {} /\ UNCHANGED <<path, mount>>
     \/ \E i \in Matching(path) :
          /\ \A j \in Matching(path) : i <= j
          /\ mount' = i /\ path' = strip(path, Mounts[i])
  /\ UNCHANGED given

PathNext == resolve_path \/ find_mount_and_strip_path
PathSpec == PathInit /\ [][PathNext]_pathVars

\* The calling thread runs on.
PathFairSpec == PathSpec /\ WF_pathVars(PathNext)
----------------------------------------------------------------------------
\* No pass finds anything more to do in p.
Final(p) ==
  /\ strstr(p, SlashDot) = 0 /\ strstr(p, SlashSlash) = 0
  /\ strstr(p, SlashDotDot) \in {0, 1}

\* Resolving is final: what resolve_path returns begins with a slash, and
\* resolving it again would not change it, also where "/../" was left in it.
\* So no later pass brings back what an earlier one has removed.
Idempotent == pc = "lookup" => path[1] = "/" /\ Final(path)

\* At every turn of every loop the string leads, from the root on, where the
\* caller's path leads, and climbs past the root exactly if that does.
SameWalk ==
  pc \in {"dot", "slash", "dotdot", "lookup"} =>
    Walked(Start, path) = Walked(Start, absolute(given))

\* Unless the caller's path climbs past the root, resolve_path returns the one
\* way to write the directory it walks to, and then its last name as it is
\* (also a "." or ".." there, which util.c leaves in place).
ResolvesAsWalked ==
  pc = "lookup" =>
    LET w == Walked(Start, absolute(given)) IN
      ~w.past => path = Below(Spell(w.dir), w.cur)

\* Whatever the mounts are: the path that a mount is given leads, from that
\* mount on, where the caller's path leads.
ServedWalk ==
  pc = "done" /\ mount # 0 => Walk(Mounts[mount] \o path) = Walk(absolute(given))

\* No mount path begins another one as a string.
MountsApart ==
  \A i, j \in DOMAIN Mounts : Occurs(Mounts[j], Mounts[i], 1) => Mounts[i] = Mounts[j]

\* A path that walks to or under a mount point, without climbing past the root,
\* is served by a mount it lies under, and as a path that begins with a slash.
\* Without MountsApart the string comparison of find_mount_and_strip_path may
\* take the mount of "/a" for a file of "/ab".
UnderMountServed ==
  pc = "done" /\ MountsApart =>
    LET w == Walk(absolute(given)) IN
      ~w.past /\ (\E i \in DOMAIN Mounts : Under(w.dir, Walk(Mounts[i]).dir)) =>
        mount # 0 /\ Under(w.dir, Walk(Mounts[mount]).dir) /\ path[1] = "/"

\* Every loop ends: a call of resolve_path comes back.
ResolveEnds == <>(pc \in {"done", "null"})
=============================================================================
