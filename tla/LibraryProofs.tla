--------------------------- MODULE LibraryProofs ---------------------------
(***************************************************************************)
(* Proofs about libdefuse: of the shared space (SpaceLayout), for every    *)
(* number of mounts up to the table's, every length of their paths, every  *)
(* size of a page and every number of entries, with descriptors below      *)
(* 1024; and of the paths (Paths), for every alphabet, every path of every *)
(* length, every working directory and every list of mounts.               *)
(***************************************************************************)
EXTENDS SpaceLayout, Paths, WellFoundedInduction, TLAPS

----------------------------------------------------------------------------
(* The shared space                                                        *)

\* The table does not change, and a saved space has the size save computes.
Kept ==
  /\ mounts \in 1 .. MAX_MOUNTS /\ paths \in Nat /\ size \in Nat /\ cleared \in BOOLEAN
  /\ entries \in Seq(Entry(mounts))
  /\ at = "saved" => size = shared_space_size

\* The inductive invariant.
LayoutInv == Kept /\ FewMountsExact /\ OthersExact

\* Where entry i lies in the space.
Offset(i) == FirstEntry + (i - 1) * FileRecord

\* The arithmetic of the layout: entry i of n begins at o, and the space that
\* was sized for m mounts and paths of length p ends at s.
LEMMA Fits ==
  ASSUME NEW m \in Nat, m >= 1, m <= 16, NEW n \in Nat, NEW i \in 1 .. n, NEW p \in Nat,
         NEW s, s = 16 + 16 * m + p + 24 * n, NEW o, o = 16 + 17 * m + p + 24 * (i - 1)
  PROVE  /\ o \in Nat /\ s \in Nat /\ o + 8 <= s
         /\ i < n => o + 24 <= s
         /\ s >= o + 24 - m
  OBVIOUS

\* What a restore reads of entry i, by how far the entry lies from the end: only
\* the last entry reaches past the size, by as many bytes as there are mounts.
LEMMA ReadBack ==
  ASSUME LayoutInv, at = "saved", NEW i \in DOMAIN entries
  PROVE  /\ Offset(i) \in Nat /\ size \in Nat /\ Intact(Offset(i)) = Word
         /\ i < Len(entries) => Intact(Offset(i) + Word) = Word /\ Intact(Offset(i) + 2 * Word) = Word
         /\ mounts <= 2 * Word - 2 => Intact(Offset(i) + Word) >= 2
         /\ mounts < Word => Intact(Offset(i) + Word) = Word /\ Intact(Offset(i) + 2 * Word) >= 1
<1>1. mounts \in Nat /\ mounts >= 1 /\ mounts <= 16
  BY LayoutAssumption DEF LayoutInv, Kept, Word
<1>2. Len(entries) \in Nat /\ i \in 1 .. Len(entries) /\ paths \in Nat
  BY DEF LayoutInv, Kept
<1>3. size = 16 + 16 * mounts + paths + 24 * Len(entries)
  BY <1>1, <1>2 DEF LayoutInv, Kept, shared_space_size, Word, MountRecord, FileRecord
<1>4. Offset(i) = 16 + 17 * mounts + paths + 24 * (i - 1)
  BY <1>1, <1>2 DEF Offset, FirstEntry, Word, MountRecord, FileRecord
<1>5. Offset(i) \in Nat /\ size \in Nat /\ Offset(i) + 8 <= size
  BY <1>1, <1>2, <1>3, <1>4, Fits, ZenonT(40)
<1>6. i < Len(entries) => Offset(i) + 24 <= size
  BY <1>1, <1>2, <1>3, <1>4, Fits, ZenonT(40)
<1>7. size >= Offset(i) + 24 - mounts
  BY <1>1, <1>2, <1>3, <1>4, Fits, ZenonT(40)
<1>8. Intact(Offset(i)) = Word  BY <1>5, Zenon DEF Intact, Word
<1>9. i < Len(entries) => Intact(Offset(i) + Word) = Word /\ Intact(Offset(i) + 2 * Word) = Word
  BY <1>5, <1>6 DEF Intact, Word
<1>10. mounts <= 2 * Word - 2 => Intact(Offset(i) + Word) >= 2
  BY <1>1, <1>5, <1>7 DEF Intact, Word
<1>11. mounts < Word => Intact(Offset(i) + Word) = Word
  BY <1>1, <1>5, <1>7 DEF Intact, Word
<1>12. mounts < Word => Intact(Offset(i) + 2 * Word) >= 1
  BY <1>1, <1>5, <1>7 DEF Intact, Word
<1> QED  BY <1>5, <1>8, <1>9, <1>10, <1>11, <1>12, Zenon

\* A restore finds what the two properties say.
LEMMA RestoreHolds ==
  ASSUME LayoutInv, restore_file_handles_from_shared_space
  PROVE  FewMountsExact' /\ OthersExact'
<1>1. /\ at = "saved" /\ mounts' = mounts /\ entries' = entries
      /\ DOMAIN found' = DOMAIN entries
      /\ \A i \in DOMAIN entries :
           found'[i] = [handle |-> Long(entries[i].handle, Offset(i)),
                        fd |-> Short(entries[i].fd, Offset(i) + Word),
                        mount |-> Short(entries[i].mount, Offset(i) + 2 * Word)]
  BY Zenon DEF restore_file_handles_from_shared_space, Offset
<1>2. entries \in Seq(Entry(mounts)) /\ mounts \in Nat /\ mounts >= 1 /\ mounts <= 16
  BY LayoutAssumption DEF LayoutInv, Kept, Word
<1>3. ASSUME NEW i \in DOMAIN entries
      PROVE  /\ entries[i] \in [handle : Handle, fd : Fds, mount : {0, mounts - 1}]
             /\ entries[i].mount \in 0 .. 15
  <2>1. entries[i] \in Entry(mounts)  BY <1>2, <1>3
  <2>2. entries[i].fd \in Fds /\ entries[i].mount \in {0, mounts - 1}
    BY <2>1, Zenon DEF Entry
  <2>3. \A m \in {0, mounts - 1} : m \in 0 .. 15
    <3>1. mounts \in 1 .. 16  BY <1>2
    <3>2. mounts - 1 \in 0 .. 15  BY <3>1
    <3> QED  BY <3>2
  <2> QED  BY <2>1, <2>2, <2>3, Zenon DEF Entry
<1>4. ASSUME NEW i \in DOMAIN entries
      PROVE  /\ found'[i].handle = entries[i].handle
             /\ i < Len(entries) => found'[i] = entries[i]
             /\ mounts <= 2 * Word - 2 => found'[i].fd = entries[i].fd
             /\ found'[i].mount \in {entries[i].mount, 0}
             /\ mounts < Word => found'[i] = entries[i]
  <2>1. /\ Offset(i) \in Nat /\ size \in Nat /\ Intact(Offset(i)) = Word
        /\ i < Len(entries) => Intact(Offset(i) + Word) = Word /\ Intact(Offset(i) + 2 * Word) = Word
        /\ mounts <= 2 * Word - 2 => Intact(Offset(i) + Word) >= 2
        /\ mounts < Word => Intact(Offset(i) + Word) = Word /\ Intact(Offset(i) + 2 * Word) >= 1
    BY <1>1, <1>4, ReadBack, Zenon
  <2>2. \A v \in 0 .. 15 : v % 256 = v  OBVIOUS
  <2>3. found'[i].handle = entries[i].handle
    BY <1>1, <1>4, <2>1 DEF Long
  <2>4. mounts <= 2 * Word - 2 => found'[i].fd = entries[i].fd
    BY <1>1, <1>4, <2>1 DEF Short
  <2>5. found'[i].mount \in {entries[i].mount, 0}
    <3>1. entries[i].mount % 256 = entries[i].mount
      <4>1. entries[i].mount \in 0 .. 15  BY <1>3, <1>4, Zenon
      <4> QED  BY <2>2, <4>1
    <3>2. found'[i].mount = Short(entries[i].mount, Offset(i) + 2 * Word)  BY <1>1, <1>4
    <3> QED  BY <3>1, <3>2, Zenon DEF Short
  <2>6. i < Len(entries) => found'[i].fd = entries[i].fd /\ found'[i].mount = entries[i].mount
    BY <1>1, <1>4, <2>1 DEF Short, Word
  <2>7. mounts < Word => found'[i].fd = entries[i].fd /\ found'[i].mount = entries[i].mount
    <3> SUFFICES ASSUME mounts < Word
                 PROVE  found'[i].fd = entries[i].fd /\ found'[i].mount = entries[i].mount
      BY Zenon
    <3>1. found'[i].fd = entries[i].fd  BY <1>1, <1>4, <2>1 DEF Short, Word
    <3>2. Intact(Offset(i) + 2 * Word) >= 1  BY <2>1, Zenon
    <3>3. Intact(Offset(i) + 2 * Word) >= 2 \/ Intact(Offset(i) + 2 * Word) = 1
      <4>1. Intact(Offset(i) + 2 * Word) \in Nat  BY <2>1 DEF Intact, Word
      <4> QED  BY <3>2, <4>1
    <3> QED  BY <1>1, <1>3, <1>4, <2>2, <3>1, <3>3 DEF Short
  <2>8. found'[i] = [handle |-> found'[i].handle, fd |-> found'[i].fd, mount |-> found'[i].mount]
    BY <1>1, <1>4
  <2>9. entries[i] = [handle |-> entries[i].handle, fd |-> entries[i].fd, mount |-> entries[i].mount]
    BY <1>3, <1>4
  <2>10. /\ i < Len(entries) => found'[i] = entries[i]
         /\ mounts < Word => found'[i] = entries[i]
    BY <2>3, <2>6, <2>7, <2>8, <2>9, Zenon
  <2> QED  BY <2>3, <2>4, <2>5, <2>10, Zenon
<1>5. FewMountsExact'
  <2> SUFFICES ASSUME mounts < Word PROVE found' = entries
    BY <1>1, Zenon DEF FewMountsExact
  <2>1. found' = [i \in DOMAIN entries |-> found'[i]]
    BY Zenon DEF restore_file_handles_from_shared_space
  <2>2. entries = [i \in DOMAIN entries |-> entries[i]]  BY <1>2
  <2> QED  BY <1>4, <2>1, <2>2, Zenon
<1>6. OthersExact'  BY <1>1, <1>4, Zenon DEF OthersExact
<1> QED  BY <1>5, <1>6, Zenon

\* Every step keeps the invariant.
LEMMA NextHolds == LayoutInv /\ [Next]_vars => LayoutInv'
<1> SUFFICES ASSUME LayoutInv, [Next]_vars PROVE LayoutInv'
  BY Zenon
<1>1. CASE save_file_handles_to_shared_space
  <2>1. at' # "restored" /\ mounts' = mounts /\ paths' = paths /\ entries' = entries
        /\ cleared' = cleared /\ size' = shared_space_size
    BY <1>1, Zenon DEF save_file_handles_to_shared_space
  <2>2. shared_space_size \in Nat /\ shared_space_size' = shared_space_size
    BY <2>1 DEF LayoutInv, Kept, shared_space_size, Word, MountRecord, FileRecord
  <2>3. Kept'  BY <2>1, <2>2, Zenon DEF LayoutInv, Kept
  <2> QED  BY <2>1, <2>3, Zenon DEF LayoutInv, FewMountsExact, OthersExact
<1>2. CASE write_back
  BY <1>2, Zenon DEF write_back, LayoutInv, Kept, shared_space_size, FewMountsExact, OthersExact
<1>3. CASE restore_file_handles_from_shared_space
  <2>1. Kept'  BY <1>3, Zenon DEF restore_file_handles_from_shared_space, LayoutInv, Kept
  <2> QED  BY <1>3, <2>1, RestoreHolds, Zenon DEF LayoutInv
<1>4. CASE UNCHANGED vars
  BY <1>4, Zenon DEF vars, LayoutInv, Kept, shared_space_size, FewMountsExact, OthersExact
<1> QED  BY <1>1, <1>2, <1>3, <1>4, Zenon DEF Next

\* The invariant holds of every behaviour.
LEMMA AlwaysHolds == Spec => []LayoutInv
<1>1. Init => LayoutInv
  <2> SUFFICES ASSUME Init PROVE LayoutInv  BY Zenon
  <2>1. PICK n \in 1 .. MaxEntries : entries \in [1 .. n -> Entry(mounts)]  BY Zenon DEF Init
  <2>2. n \in Nat  BY LayoutAssumption
  <2>3. entries \in Seq(Entry(mounts))  BY <2>1, <2>2
  <2>4. MAX_MOUNTS \in Nat /\ MaxPaths \in Nat  BY LayoutAssumption DEF Word
  <2>5. mounts \in 1 .. MAX_MOUNTS /\ paths \in Nat  BY <2>4 DEF Init
  <2>6. at = "running" /\ size = 0 /\ cleared = FALSE  BY DEF Init
  <2> QED  BY <2>3, <2>5, <2>6, ZenonT(30) DEF LayoutInv, Kept, FewMountsExact, OthersExact
<1> QED  BY <1>1, NextHolds, PTL DEF Spec

\* Whatever the mounts' paths and the table: with at most seven mounts an image
\* restores exactly what save_file_handles_to_shared_space was given, unless
\* the writer ran past the last page.
THEOREM FewMountsRestored == Spec => []FewMountsExact
<1>1. LayoutInv => FewMountsExact  BY DEF LayoutInv
<1> QED  BY <1>1, AlwaysHolds, PTL

\* With more mounts, up to the sixteen of the mount table, no entry but the last
\* is touched, and of the last only the descriptor and the mount.
THEOREM OthersRestored == Spec => []OthersExact
<1>1. LayoutInv => OthersExact  BY DEF LayoutInv
<1> QED  BY <1>1, AlwaysHolds, PTL

----------------------------------------------------------------------------
(* The paths.  First induction, which the library has in a form without    *)
(* operator parameters: a relation that is well-founded has minimal        *)
(* elements.                                                               *)

\* Every set of numbers that is not empty has a least one.
LEMMA Least ==
  ASSUME NEW S, S \subseteq Nat, S # {}
  PROVE  \E n \in S : \A m \in S : n <= m
<1>1. PICK n \in S : \A m \in S : <<m, n>> \notin OpToRel(<, Nat)
  BY NatLessThanWellFounded, WFMin, Zenon
<1>2. ASSUME NEW m \in S PROVE n <= m
  <2>1. <<m, n>> \notin OpToRel(<, Nat)  BY <1>1, Zenon
  <2>2. ~(m < n)  BY <2>1 DEF OpToRel
  <2> QED  BY <2>2
<1> QED  BY <1>2, Zenon

\* Induction over the numbers, with the set of those that have the property.
LEMMA Induction ==
  ASSUME NEW S, 0 \in S, \A n \in Nat : n \in S => n + 1 \in S
  PROVE  Nat \subseteq S
<1> SUFFICES ASSUME NEW x \in Nat, x \notin S PROVE FALSE  BY Zenon
<1> DEFINE C == {n \in Nat : n \notin S}
<1>1. PICK n \in C : \A m \in C : n <= m
  <2>1. C \subseteq Nat /\ C # {}  BY Zenon
  <2> HIDE DEF C
  <2> QED  BY <2>1, Least, Zenon
<1>2. n \in Nat /\ n # 0  BY Zenon
<1>3. n - 1 \in Nat /\ n - 1 < n /\ n - 1 + 1 = n  BY <1>2
<1>4. n - 1 \in S  BY <1>1, <1>3
<1> QED  BY <1>3, <1>4

\* Induction over sequences, one more element at the end.
LEMMA SeqInduction ==
  ASSUME NEW T, NEW S, <<>> \in S, \A p \in Seq(T), c \in T : p \in S => Append(p, c) \in S
  PROVE  Seq(T) \subseteq S
<1> DEFINE N == {n \in Nat : \A p \in Seq(T) : Len(p) = n => p \in S}
<1>1. 0 \in N
  <2>1. \A p \in Seq(T) : Len(p) = 0 => p = <<>>  OBVIOUS
  <2> QED  BY <2>1
<1>2. ASSUME NEW n \in Nat, n \in N PROVE n + 1 \in N
  <2>1. ASSUME NEW p \in Seq(T), Len(p) = n + 1 PROVE p \in S
    <3> DEFINE q == SubSeq(p, 1, n)
    <3>1. q \in Seq(T) /\ Len(q) = n  BY <2>1
    <3>2. p[n + 1] \in T /\ p = Append(q, p[n + 1])  BY <2>1
    <3>3. q \in S  BY <1>2, <3>1, Zenon
    <3> HIDE DEF q
    <3> QED  BY <3>1, <3>2, <3>3, Zenon
  <2> QED  BY <2>1
<1>3. Nat \subseteq N
  <2> HIDE DEF N
  <2> QED  BY <1>1, <1>2, Induction, Zenon
<1>4. ASSUME NEW p \in Seq(T) PROVE p \in S
  <2>1. Len(p) \in N  BY <1>3
  <2> QED  BY <2>1
<1> QED  BY <1>4, Zenon

\* f is the recursive function of Walked, read up to n.
IsTrail(f, w, p, n) == f = [k \in 0 .. n |-> IF k = 0 THEN w ELSE Read(f[k - 1], p[k])]

\* f has the walker at every place of p.
Follows(f, w, p) ==
  /\ f[0] = w /\ Walked(w, p) = f[Len(p)]
  /\ \A k \in 1 .. Len(p) : f[k] = Read(f[k - 1], p[k])

\* The recursive function of Walked exists.
LEMMA TrailExists ==
  ASSUME NEW w, NEW p, NEW m \in Nat
  PROVE  \E f : IsTrail(f, w, p, m)
<1> DEFINE N == {n \in Nat : \E f : IsTrail(f, w, p, n)}
<1>1. 0 \in N
  <2>1. IsTrail([k \in 0 .. 0 |-> w], w, p, 0)  BY DEF IsTrail
  <2> QED  BY <2>1
<1>2. ASSUME NEW n \in Nat, n \in N PROVE n + 1 \in N
  <2>1. PICK f : IsTrail(f, w, p, n)  BY <1>2
  <2> DEFINE g == [k \in 0 .. n + 1 |-> IF k <= n THEN f[k] ELSE Read(f[n], p[n + 1])]
  <2>2. ASSUME NEW k \in 0 .. n + 1
        PROVE  g[k] = IF k = 0 THEN w ELSE Read(g[k - 1], p[k])
    BY <2>1 DEF IsTrail
  <2>3. IsTrail(g, w, p, n + 1)  BY <2>2 DEF IsTrail
  <2> HIDE DEF g
  <2> QED  BY <2>3
<1> HIDE DEF N
<1>3. m \in N  BY <1>1, <1>2, Induction, Zenon
<1> QED  BY <1>3 DEF N

\* What Walked is, without its recursive function.
LEMMA Trail ==
  ASSUME NEW w, NEW p, Len(p) \in Nat
  PROVE  \E f : Follows(f, w, p)
<1> DEFINE f == CHOOSE f : f = [k \in 0 .. Len(p) |-> IF k = 0 THEN w ELSE Read(f[k - 1], p[k])]
<1>1. Walked(w, p) = f[Len(p)]  BY Zenon DEF Walked
<1>2. f = [k \in 0 .. Len(p) |-> IF k = 0 THEN w ELSE Read(f[k - 1], p[k])]
  <2>1. \E g : IsTrail(g, w, p, Len(p))
    BY TrailExists, Zenon
  <2> QED  BY <2>1, Zenon DEF IsTrail
<1> HIDE DEF f
<1>3. f[0] = w /\ \A k \in 1 .. Len(p) : f[k] = Read(f[k - 1], p[k])  BY <1>2
<1> QED  BY <1>1, <1>3, Zenon DEF Follows

\* A walker that reads nothing stays where it is.
LEMMA WalkedEmpty == \A w : Walked(w, <<>>) = w
<1> SUFFICES ASSUME NEW w PROVE Walked(w, <<>>) = w  BY Zenon
<1>1. Len(<<>>) = 0 /\ Len(<<>>) \in Nat  OBVIOUS
<1>2. PICK f : Follows(f, w, <<>>)  BY <1>1, Trail, Zenon
<1>3. Walked(w, <<>>) = f[Len(<<>>)] /\ f[0] = w  BY <1>2, Zenon DEF Follows
<1> QED  BY <1>1, <1>3, Zenon

\* A walker reads a path one character after the other.
LEMMA WalkedAppend ==
  ASSUME NEW w, NEW p \in Seq(Char), NEW c \in Char
  PROVE  Walked(w, Append(p, c)) = Read(Walked(w, p), c)
<1> DEFINE q == Append(p, c)
           n == Len(p)
<1>1. n \in Nat /\ Len(q) = n + 1 /\ q[n + 1] = c /\ \A k \in 1 .. n : q[k] = p[k]
  OBVIOUS
<1>2. Len(p) \in Nat /\ Len(q) \in Nat  BY <1>1
<1> HIDE DEF q
<1>3. PICK f : Follows(f, w, p)  BY <1>2, Trail, Zenon
<1>4. PICK g : Follows(g, w, q)  BY <1>2, Trail, Zenon
<1> HIDE DEF n
<1>5. /\ f[0] = w /\ Walked(w, p) = f[n] /\ \A k \in 1 .. n : f[k] = Read(f[k - 1], p[k])
      /\ g[0] = w /\ Walked(w, q) = g[n + 1]
      /\ \A k \in 1 .. n + 1 : g[k] = Read(g[k - 1], q[k])
  BY <1>1, <1>3, <1>4 DEF Follows, n
<1> DEFINE N == {k \in Nat : k <= n => f[k] = g[k]}
<1>6. 0 \in N  BY <1>5
<1>7. ASSUME NEW k \in Nat, k \in N PROVE k + 1 \in N
  BY <1>1, <1>5, <1>7
<1>8. n \in N
  <2> HIDE DEF N
  <2> QED  BY <1>1, <1>6, <1>7, Induction, Zenon
<1>9. f[n] = g[n]  BY <1>1, <1>8
<1>10. g[n + 1] = Read(g[n], c)  BY <1>1, <1>5
<1> QED  BY <1>5, <1>9, <1>10 DEF q
----------------------------------------------------------------------------
\* The walker and what it reads.
Walker == [dir : Seq(Seq(Char)), cur : Seq(Char), past : BOOLEAN]

\* The characters that util.c names, and the working directory.
LEMMA Chars == "/" \in Char /\ "." \in Char /\ Cwd \in Seq(Char) /\ Cwd # <<>> /\ Cwd[1] = "/"
  BY PathsAssumption

\* Entering a name gives a walker, and who was past the root stays so.
LEMMA EnterType ==
  ASSUME NEW w \in Walker
  PROVE  /\ Enter(w) \in Walker /\ Enter(w).cur = <<>>
         /\ w.past => Enter(w).past
<1>1. w.dir \in Seq(Seq(Char)) /\ w.cur \in Seq(Char) /\ w.past \in BOOLEAN  BY DEF Walker
<1>2. Append(w.dir, w.cur) \in Seq(Seq(Char))  BY <1>1
<1>3. w.dir # <<>> => SubSeq(w.dir, 1, Len(w.dir) - 1) \in Seq(Seq(Char))  BY <1>1
<1>4. <<>> \in Seq(Char) /\ <<>> \in Seq(Seq(Char))  OBVIOUS
<1> QED  BY <1>1, <1>2, <1>3, <1>4 DEF Enter, Walker

\* The same of reading a character.
LEMMA ReadType ==
  ASSUME NEW w \in Walker, NEW c \in Char
  PROVE  Read(w, c) \in Walker /\ (w.past => Read(w, c).past)
<1>1. w.dir \in Seq(Seq(Char)) /\ w.cur \in Seq(Char) /\ w.past \in BOOLEAN  BY DEF Walker
<1>2. Append(w.cur, c) \in Seq(Char)  BY <1>1
<1> QED  BY <1>1, <1>2, EnterType DEF Read, Walker

\* What is once past the root stays so.
LEMMA WalkedType ==
  ASSUME NEW w \in Walker, NEW p \in Seq(Char)
  PROVE  Walked(w, p) \in Walker /\ (w.past => Walked(w, p).past)
<1> DEFINE S == {q \in Seq(Char) : Walked(w, q) \in Walker /\ (w.past => Walked(w, q).past)}
<1>1. <<>> \in S  BY WalkedEmpty
<1>2. ASSUME NEW q \in Seq(Char), NEW c \in Char, q \in S PROVE Append(q, c) \in S
  <2>1. Walked(w, Append(q, c)) = Read(Walked(w, q), c)  BY WalkedAppend, Zenon
  <2>2. Walked(w, q) \in Walker /\ (w.past => Walked(w, q).past)  BY <1>2
  <2>3. Append(q, c) \in Seq(Char)  OBVIOUS
  <2> QED  BY <2>1, <2>2, <2>3, ReadType, Zenon
<1>3. Seq(Char) \subseteq S
  <2> HIDE DEF S
  <2> QED  BY <1>1, <1>2, SeqInduction, Zenon
<1> QED  BY <1>3, Zenon

\* A walk begins as a walker.
LEMMA StartType == Start \in Walker
<1>1. <<>> \in Seq(Char) /\ <<>> \in Seq(Seq(Char))  OBVIOUS
<1> QED  BY <1>1 DEF Start, Walker

\* How concatenation and Append go together.
LEMMA ConcatAppend ==
  ASSUME NEW p \in Seq(Char), NEW q \in Seq(Char), NEW c \in Char
  PROVE  p \o Append(q, c) = Append(p \o q, c) /\ p \o q \in Seq(Char) /\ Append(q, c) \in Seq(Char)
  OBVIOUS

\* Reading p and then q is reading both.
LEMMA WalkedConcat ==
  ASSUME NEW w, NEW p \in Seq(Char), NEW q \in Seq(Char)
  PROVE  Walked(w, p \o q) = Walked(Walked(w, p), q)
<1> DEFINE S == {r \in Seq(Char) : Walked(w, p \o r) = Walked(Walked(w, p), r)}
<1>1. <<>> \in S
  <2>1. p \o <<>> = p /\ <<>> \in Seq(Char)  OBVIOUS
  <2> QED  BY <2>1, WalkedEmpty, Zenon
<1>2. ASSUME NEW r \in Seq(Char), NEW c \in Char, r \in S PROVE Append(r, c) \in S
  <2>1. p \o Append(r, c) = Append(p \o r, c) /\ p \o r \in Seq(Char) /\ Append(r, c) \in Seq(Char)
    BY ConcatAppend, Zenon
  <2>2. Walked(w, Append(p \o r, c)) = Read(Walked(w, p \o r), c)  BY <2>1, WalkedAppend, Zenon
  <2>3. Walked(Walked(w, p), Append(r, c)) = Read(Walked(Walked(w, p), r), c)
    BY WalkedAppend, Zenon
  <2>4. Walked(w, p \o r) = Walked(Walked(w, p), r)  BY <1>2, Zenon
  <2> QED  BY <2>1, <2>2, <2>3, <2>4, Zenon
<1>3. Seq(Char) \subseteq S
  <2> HIDE DEF S
  <2> QED  BY <1>1, <1>2, SeqInduction, Zenon
<1> QED  BY <1>3, Zenon

\* A word has no slash.
IsWord(q) == \A k \in 1 .. Len(q) : q[k] # "/"

\* Reading a word only adds to the name.
LEMMA WalkedWord ==
  ASSUME NEW w \in Walker, NEW q \in Seq(Char), IsWord(q)
  PROVE  Walked(w, q) = [dir |-> w.dir, cur |-> w.cur \o q, past |-> w.past]
<1> DEFINE To(r) == [dir |-> w.dir, cur |-> w.cur \o r, past |-> w.past]
           S == {r \in Seq(Char) : IsWord(r) => Walked(w, r) = To(r)}
<1>1. w.dir \in Seq(Seq(Char)) /\ w.cur \in Seq(Char) /\ w.past \in BOOLEAN
      /\ w = [dir |-> w.dir, cur |-> w.cur, past |-> w.past]
  BY DEF Walker
<1>2. <<>> \in S
  <2>1. w.cur \o <<>> = w.cur /\ <<>> \in Seq(Char)  BY <1>1
  <2>2. To(<<>>) = w  BY <1>1, <2>1
  <2> QED  BY <2>1, <2>2, WalkedEmpty, Zenon
<1>3. ASSUME NEW r \in Seq(Char), NEW c \in Char, r \in S PROVE Append(r, c) \in S
  <2>1. Append(r, c) \in Seq(Char)  OBVIOUS
  <2>2. ASSUME IsWord(Append(r, c)) PROVE Walked(w, Append(r, c)) = To(Append(r, c))
    <3>1. IsWord(r) /\ c # "/"  BY <2>2 DEF IsWord
    <3>2. Walked(w, r) = To(r)  BY <1>3, <3>1, Zenon
    <3>3. Walked(w, Append(r, c)) = Read(To(r), c)  BY <3>2, WalkedAppend, Zenon
    <3>4. Append(w.cur \o r, c) = w.cur \o Append(r, c)  BY <1>1, ConcatAppend, Zenon
    <3>5. Read(To(r), c) = To(Append(r, c))  BY <3>1, <3>4, Zenon DEF Read
    <3> QED  BY <3>3, <3>5, Zenon
  <2> QED  BY <2>1, <2>2, Zenon
<1>4. Seq(Char) \subseteq S
  <2> HIDE DEF S
  <2> QED  BY <1>2, <1>3, SeqInduction, Zenon
<1> QED  BY <1>4, Zenon

----------------------------------------------------------------------------
\* Spell, as Walked above.
IsSpelling(f, d, n) == f = [k \in 0 .. n |-> IF k = 0 THEN <<>> ELSE Below(f[k - 1], d[k])]

SpelledBy(f, d) ==
  /\ f[0] = <<>> /\ Spell(d) = f[Len(d)]
  /\ \A k \in 1 .. Len(d) : f[k] = Below(f[k - 1], d[k])

\* The recursive function of Spell exists for every length.
LEMMA SpellingExists ==
  ASSUME NEW d, NEW m \in Nat
  PROVE  \E f : IsSpelling(f, d, m)
<1> DEFINE N == {n \in Nat : \E f : IsSpelling(f, d, n)}
<1>1. 0 \in N
  <2>1. IsSpelling([k \in 0 .. 0 |-> <<>>], d, 0)  BY DEF IsSpelling
  <2> QED  BY <2>1
<1>2. ASSUME NEW n \in Nat, n \in N PROVE n + 1 \in N
  <2>1. PICK f : IsSpelling(f, d, n)  BY <1>2
  <2> DEFINE g == [k \in 0 .. n + 1 |-> IF k <= n THEN f[k] ELSE Below(f[n], d[n + 1])]
  <2>2. ASSUME NEW k \in 0 .. n + 1
        PROVE  g[k] = IF k = 0 THEN <<>> ELSE Below(g[k - 1], d[k])
    BY <2>1 DEF IsSpelling
  <2>3. IsSpelling(g, d, n + 1)  BY <2>2 DEF IsSpelling
  <2> HIDE DEF g
  <2> QED  BY <2>3
<1> HIDE DEF N
<1>3. m \in N  BY <1>1, <1>2, Induction, Zenon
<1> QED  BY <1>3 DEF N

\* Spell is computed by such a function.
LEMMA Spelling ==
  ASSUME NEW d, Len(d) \in Nat
  PROVE  \E f : SpelledBy(f, d)
<1> DEFINE f == CHOOSE f : f = [k \in 0 .. Len(d) |-> IF k = 0 THEN <<>> ELSE Below(f[k - 1], d[k])]
<1>1. Spell(d) = f[Len(d)]  BY Zenon DEF Spell
<1>2. f = [k \in 0 .. Len(d) |-> IF k = 0 THEN <<>> ELSE Below(f[k - 1], d[k])]
  <2>1. \E g : IsSpelling(g, d, Len(d))  BY SpellingExists, Zenon
  <2> QED  BY <2>1, Zenon DEF IsSpelling
<1> HIDE DEF f
<1>3. f[0] = <<>> /\ \A k \in 1 .. Len(d) : f[k] = Below(f[k - 1], d[k])  BY <1>2
<1> QED  BY <1>1, <1>3, Zenon DEF SpelledBy

\* The root is spelled by nothing.
LEMMA SpellEmpty == Spell(<<>>) = <<>>
<1>1. Len(<<>>) = 0 /\ Len(<<>>) \in Nat  OBVIOUS
<1> QED  BY <1>1, Spelling, Zenon DEF SpelledBy

\* A directory is spelled below the one that it is in.
LEMMA SpellAppend ==
  ASSUME NEW d \in Seq(Seq(Char)), NEW c \in Seq(Char)
  PROVE  Spell(Append(d, c)) = Below(Spell(d), c)
<1> DEFINE e == Append(d, c)
           n == Len(d)
<1>1. n \in Nat /\ Len(e) = n + 1 /\ e[n + 1] = c /\ \A k \in 1 .. n : e[k] = d[k]
  OBVIOUS
<1>2. Len(d) \in Nat /\ Len(e) \in Nat  BY <1>1
<1> HIDE DEF e
<1>3. PICK f : SpelledBy(f, d)  BY <1>2, Spelling, Zenon
<1>4. PICK g : SpelledBy(g, e)  BY <1>2, Spelling, Zenon
<1> HIDE DEF n
<1>5. /\ f[0] = <<>> /\ Spell(d) = f[n] /\ \A k \in 1 .. n : f[k] = Below(f[k - 1], d[k])
      /\ g[0] = <<>> /\ Spell(e) = g[n + 1]
      /\ \A k \in 1 .. n + 1 : g[k] = Below(g[k - 1], e[k])
  BY <1>1, <1>3, <1>4 DEF SpelledBy, n
<1> DEFINE N == {k \in Nat : k <= n => f[k] = g[k]}
<1>6. 0 \in N  BY <1>5
<1>7. ASSUME NEW k \in Nat, k \in N PROVE k + 1 \in N
  BY <1>1, <1>5, <1>7
<1>8. n \in N
  <2> HIDE DEF N
  <2> QED  BY <1>1, <1>6, <1>7, Induction, Zenon
<1>9. f[n] = g[n]  BY <1>1, <1>8
<1>10. g[n + 1] = Below(g[n], c)  BY <1>1, <1>5
<1> QED  BY <1>5, <1>9, <1>10 DEF e

\* A spelling is a path.
LEMMA SpellType ==
  ASSUME NEW d \in Seq(Seq(Char))
  PROVE  Spell(d) \in Seq(Char)
<1> DEFINE S == {e \in Seq(Seq(Char)) : Spell(e) \in Seq(Char)}
<1>1. <<>> \in S
  <2>1. <<>> \in Seq(Seq(Char)) /\ <<>> \in Seq(Char)  OBVIOUS
  <2> QED  BY <2>1, SpellEmpty, Zenon
<1>2. ASSUME NEW e \in Seq(Seq(Char)), NEW c \in Seq(Char), e \in S PROVE Append(e, c) \in S
  <2>1. Append(e, c) \in Seq(Seq(Char)) /\ Spell(e) \in Seq(Char)  BY <1>2
  <2>2. Below(Spell(e), c) \in Seq(Char)  BY <2>1, Chars DEF Slash, Below
  <2> QED  BY <2>1, <2>2, SpellAppend, Zenon
<1>3. Seq(Seq(Char)) \subseteq S
  <2> HIDE DEF S
  <2> QED  BY <1>1, <1>2, SeqInduction, Zenon
<1> QED  BY <1>3, Zenon
----------------------------------------------------------------------------
\* The functions on strings that util.c uses.
LEMMA Strstr ==
  ASSUME NEW p \in Seq(Char), NEW str
  PROVE  \/ strstr(p, str) = 0 /\ \A i \in 1 .. Len(p) : ~Occurs(p, str, i)
         \/ /\ strstr(p, str) \in 1 .. Len(p) /\ Occurs(p, str, strstr(p, str))
            /\ \A j \in 1 .. Len(p) : Occurs(p, str, j) => strstr(p, str) <= j
<1> DEFINE places == {i \in 1 .. Len(p) : Occurs(p, str, i)}
<1>1. CASE places = {}
  <2>1. strstr(p, str) = 0  BY <1>1, Zenon DEF strstr
  <2> QED  BY <1>1, <2>1, Zenon
<1>2. CASE places # {}
  <2>1. places \subseteq Nat  OBVIOUS
  <2>2. strstr(p, str) = CHOOSE i \in places : \A j \in places : i <= j  BY <1>2, Zenon DEF strstr
  <2>3. \E i \in places : \A j \in places : i <= j
    <3> HIDE DEF places
    <3> QED  BY <1>2, <2>1, Least, Zenon
  <2>4. strstr(p, str) \in places /\ \A j \in places : strstr(p, str) <= j
    <3> HIDE DEF places
    <3> QED  BY <2>2, <2>3, Zenon
  <2> QED  BY <2>4, Zenon
<1> QED  BY <1>1, <1>2, Zenon

\* Where "//" stands, character by character.
LEMMA OccursSlashSlash ==
  ASSUME NEW p, NEW i \in Int
  PROVE  Occurs(p, SlashSlash, i) <=> i + 1 <= Len(p) /\ p[i] = "/" /\ p[i + 1] = "/"
<1>1. Len(SlashSlash) = 2 /\ SlashSlash[1] = "/" /\ SlashSlash[2] = "/"  BY DEF SlashSlash
<1>2. Occurs(p, SlashSlash, i) <=>
        i + 2 - 1 <= Len(p) /\ \A k \in 1 .. 2 : p[i + k - 1] = SlashSlash[k]
  BY <1>1, Zenon DEF Occurs
<1>3. i + 2 - 1 = i + 1 /\ i + 1 - 1 = i /\ 1 .. 2 = {1, 2}  OBVIOUS
<1> QED  BY <1>1, <1>2, <1>3

\* Where "/./" stands.
LEMMA OccursSlashDot ==
  ASSUME NEW p, NEW i \in Int
  PROVE  Occurs(p, SlashDot, i) <=>
           i + 2 <= Len(p) /\ p[i] = "/" /\ p[i + 1] = "." /\ p[i + 2] = "/"
<1>1. Len(SlashDot) = 3 /\ SlashDot[1] = "/" /\ SlashDot[2] = "." /\ SlashDot[3] = "/"
  BY DEF SlashDot
<1>2. Occurs(p, SlashDot, i) <=>
        i + 3 - 1 <= Len(p) /\ \A k \in 1 .. 3 : p[i + k - 1] = SlashDot[k]
  BY <1>1, Zenon DEF Occurs
<1>3. i + 3 - 1 = i + 2 /\ i + 2 - 1 = i + 1 /\ i + 1 - 1 = i /\ 1 .. 3 = {1, 2, 3}  OBVIOUS
<1> QED  BY <1>1, <1>2, <1>3

\* Where "/../" stands.
LEMMA OccursSlashDotDot ==
  ASSUME NEW p, NEW i \in Int
  PROVE  Occurs(p, SlashDotDot, i) <=>
           /\ i + 3 <= Len(p) /\ p[i] = "/" /\ p[i + 1] = "."
           /\ p[i + 2] = "." /\ p[i + 3] = "/"
<1>1. /\ Len(SlashDotDot) = 4 /\ SlashDotDot[1] = "/" /\ SlashDotDot[2] = "."
      /\ SlashDotDot[3] = "." /\ SlashDotDot[4] = "/"
  BY DEF SlashDotDot
<1>2. Occurs(p, SlashDotDot, i) <=>
        i + 4 - 1 <= Len(p) /\ \A k \in 1 .. 4 : p[i + k - 1] = SlashDotDot[k]
  BY <1>1, Zenon DEF Occurs
<1>3. i + 4 - 1 = i + 3 /\ i + 3 - 1 = i + 2 /\ i + 2 - 1 = i + 1 /\ i + 1 - 1 = i /\ 1 .. 4 = {1, 2, 3, 4}
  OBVIOUS
<1> QED  BY <1>1, <1>2, <1>3

\* A concatenation, character by character.
LEMMA ConcatIs ==
  ASSUME NEW a \in Seq(Char), NEW b \in Seq(Char)
  PROVE  /\ a \o b \in Seq(Char) /\ Len(a \o b) = Len(a) + Len(b)
         /\ \A k \in 1 .. Len(a) : (a \o b)[k] = a[k]
         /\ \A k \in 1 .. Len(b) : (a \o b)[Len(a) + k] = b[k]
  OBVIOUS

\* And what is one, read off its characters.
LEMMA ConcatOf ==
  ASSUME NEW T, NEW a \in Seq(T), NEW b \in Seq(T), NEW c \in Seq(T), Len(c) = Len(a) + Len(b),
         \A k \in 1 .. Len(a) : a[k] = c[k],
         \A k \in 1 .. Len(b) : b[k] = c[Len(a) + k]
  PROVE  c = a \o b
  OBVIOUS

\* Paths of the same characters are the same.
LEMMA SeqEq ==
  ASSUME NEW a \in Seq(Char), NEW b \in Seq(Char), Len(a) = Len(b),
         \A k \in 1 .. Len(a) : a[k] = b[k]
  PROVE  a = b
  OBVIOUS

\* A part of a string is the part up to j and the part behind it.
LEMMA Split ==
  ASSUME NEW p \in Seq(Char), NEW i \in 1 .. Len(p) + 1, NEW j \in i - 1 .. Len(p)
  PROVE  SubSeq(p, i, Len(p)) = SubSeq(p, i, j) \o SubSeq(p, j + 1, Len(p))
<1> DEFINE s == SubSeq(p, i, Len(p))
           a == SubSeq(p, i, j)
           b == SubSeq(p, j + 1, Len(p))
           n == Len(p)
<1>1. s \in Seq(Char) /\ Len(s) = n - i + 1 /\ \A k \in 1 .. n - i + 1 : s[k] = p[i + k - 1]  OBVIOUS
<1>2. a \in Seq(Char) /\ Len(a) = j - i + 1 /\ \A k \in 1 .. j - i + 1 : a[k] = p[i + k - 1]  OBVIOUS
<1>3. b \in Seq(Char) /\ Len(b) = n - j /\ \A k \in 1 .. n - j : b[k] = p[j + k]  OBVIOUS
<1>4. n \in Nat /\ i \in 1 .. n + 1 /\ j \in i - 1 .. n  OBVIOUS
<1> HIDE DEF s, a, b, n
<1>5. Len(s) = Len(a) + Len(b)  BY <1>1, <1>2, <1>3, <1>4
<1>6. ASSUME NEW k \in 1 .. Len(a) PROVE a[k] = s[k]
  <2>1. k \in 1 .. j - i + 1 /\ k \in 1 .. n - i + 1  BY <1>2, <1>4
  <2> QED  BY <1>1, <1>2, <2>1, Zenon
<1>7. ASSUME NEW k \in 1 .. Len(b) PROVE b[k] = s[Len(a) + k]
  <2> DEFINE l == j - i + 1 + k
  <2>1. k \in 1 .. n - j /\ l \in 1 .. n - i + 1 /\ i + l - 1 = j + k  BY <1>3, <1>4
  <2> HIDE DEF l
  <2>2. s[l] = p[j + k]  BY <1>1, <2>1, Zenon
  <2> QED  BY <1>2, <1>3, <2>1, <2>2, Zenon DEF l
<1> QED  BY <1>1, <1>2, <1>3, <1>5, <1>6, <1>7, ConcatOf, Zenon DEF s, a, b

\* A path is what stands before a place and what stands from there on.
LEMMA SplitAll ==
  ASSUME NEW p \in Seq(Char), NEW j \in 0 .. Len(p)
  PROVE  p = SubSeq(p, 1, j) \o SubSeq(p, j + 1, Len(p))
<1>1. SubSeq(p, 1, Len(p)) = p  OBVIOUS
<1>2. Len(p) \in Nat  OBVIOUS
<1>3. 1 \in 1 .. Len(p) + 1 /\ j \in 1 - 1 .. Len(p)  BY <1>2
<1>4. SubSeq(p, 1, Len(p)) = SubSeq(p, 1, j) \o SubSeq(p, j + 1, Len(p))  BY <1>3, Split, Zenon
<1> QED  BY <1>1, <1>4, Zenon

\* The rest of a path, split after its first character.
LEMMA SplitFirst ==
  ASSUME NEW p \in Seq(Char), NEW j \in 1 .. Len(p)
  PROVE  SubSeq(p, j, Len(p)) = <<p[j]>> \o SubSeq(p, j + 1, Len(p))
  OBVIOUS

\* A cut path, character by character.
LEMMA CutIs ==
  ASSUME NEW p \in Seq(Char), NEW i \in 1 .. Len(p), NEW j \in i + 1 .. Len(p)
  PROVE  /\ Cut(p, i, j) \in Seq(Char) /\ Len(Cut(p, i, j)) = Len(p) - (j - i)
         /\ \A k \in 1 .. i - 1 : Cut(p, i, j)[k] = p[k]
         /\ \A k \in i .. Len(p) - (j - i) : Cut(p, i, j)[k] = p[k + (j - i)]
<1> DEFINE a == SubSeq(p, 1, i - 1)
           b == SubSeq(p, j, Len(p))
<1>1. a \in Seq(Char) /\ Len(a) = i - 1 /\ \A k \in 1 .. i - 1 : a[k] = p[k]  OBVIOUS
<1>2. /\ b \in Seq(Char) /\ Len(b) = Len(p) - j + 1
      /\ \A k \in 1 .. Len(p) - j + 1 : b[k] = p[j + k - 1]
  OBVIOUS
<1>3. Cut(p, i, j) = a \o b  BY Zenon DEF Cut
<1> HIDE DEF a, b
<1>4. /\ a \o b \in Seq(Char) /\ Len(a \o b) = Len(a) + Len(b)
      /\ \A k \in 1 .. Len(a) : (a \o b)[k] = a[k]
      /\ \A k \in 1 .. Len(b) : (a \o b)[Len(a) + k] = b[k]
  BY <1>1, <1>2, ConcatIs, Zenon
<1>5. \A k \in 1 .. i - 1 : (a \o b)[k] = p[k]  BY <1>1, <1>4, Zenon
<1>6. ASSUME NEW k \in i .. Len(p) - (j - i) PROVE (a \o b)[k] = p[k + (j - i)]
  <2> DEFINE l == k - (i - 1)
  <2>1. l \in 1 .. Len(p) - j + 1 /\ j + l - 1 = k + (j - i) /\ (i - 1) + l = k  OBVIOUS
  <2> HIDE DEF l
  <2>2. (a \o b)[(i - 1) + l] = b[l]  BY <1>1, <1>2, <1>4, <2>1, Zenon
  <2>3. b[l] = p[j + l - 1]  BY <1>2, <2>1, Zenon
  <2> QED  BY <2>1, <2>2, <2>3, Zenon
<1>7. Len(a \o b) = Len(p) - (j - i)  BY <1>1, <1>2, <1>4
<1> QED  BY <1>3, <1>4, <1>5, <1>6, <1>7, Zenon

\* Two slashes d apart become one: c is p without what stands between them.
\* A place of c is one of p, on the left of the slash or on its right.
LEMMA Junction ==
  ASSUME NEW p, NEW c, NEW n \in Nat, NEW d \in Nat, NEW i \in 1 .. n, i + d <= n,
         p[i] = "/", p[i + d] = "/",
         \A k \in 1 .. i - 1 : c[k] = p[k],
         \A k \in i .. n - d : c[k] = p[k + d]
  PROVE  /\ c[i] = "/"
         /\ \A k \in 1 .. i : c[k] = p[k]
         /\ \A k \in i .. n - d : c[k] = p[k + d] /\ k + d \in 1 .. n
<1>1. i \in i .. n - d  OBVIOUS
<1>2. c[i] = "/"  BY <1>1, Zenon
<1>3. ASSUME NEW k \in 1 .. i PROVE c[k] = p[k]
  <2>1. k = i \/ k \in 1 .. i - 1  OBVIOUS
  <2> QED  BY <1>2, <2>1, Zenon
<1>4. \A k \in i .. n - d : k + d \in 1 .. n  OBVIOUS
<1> QED  BY <1>2, <1>3, <1>4, Zenon

\* Where a cut goes from a slash to a slash, it neither makes a "//" nor a "/./"
\* that was not there.
LEMMA CutKeeps ==
  ASSUME NEW p \in Seq(Char), NEW i \in 1 .. Len(p), NEW j \in i + 1 .. Len(p),
         p[i] = "/", p[j] = "/"
  PROVE  /\ p[1] = "/" => Cut(p, i, j)[1] = "/"
         /\ strstr(p, SlashSlash) = 0 => strstr(Cut(p, i, j), SlashSlash) = 0
         /\ strstr(p, SlashDot) = 0 => strstr(Cut(p, i, j), SlashDot) = 0
<1> DEFINE c == Cut(p, i, j)
           n == Len(p)
           d == j - i
<1>1. /\ c \in Seq(Char) /\ Len(c) = n - d
      /\ \A k \in 1 .. i - 1 : c[k] = p[k]
      /\ \A k \in i .. n - d : c[k] = p[k + d]
  BY CutIs, Zenon
<1>2. n \in Nat /\ i \in 1 .. n /\ d \in Nat /\ i + d <= n /\ i + d = j /\ n - d \in Nat  OBVIOUS
<1> HIDE DEF c, n, d
<1>3. /\ c[i] = "/" /\ \A k \in 1 .. i : c[k] = p[k]
      /\ \A k \in i .. n - d : c[k] = p[k + d] /\ k + d \in 1 .. n
  <2>1. p[i + d] = "/"  BY <1>2, Zenon
  <2> QED  BY <1>1, <1>2, <2>1, Junction
<1>4. p[1] = "/" => c[1] = "/"
  <2>1. 1 \in 1 .. i  BY <1>2
  <2> QED  BY <1>3, <2>1, Zenon
<1>5. ASSUME strstr(p, SlashSlash) = 0 PROVE strstr(c, SlashSlash) = 0
  <2>1. \A k \in 1 .. n : ~Occurs(p, SlashSlash, k)
    BY <1>2, <1>5, Strstr DEF n
  <2>2. ASSUME NEW k \in 1 .. n - d, Occurs(c, SlashSlash, k) PROVE FALSE
    <3>1. k + 1 <= n - d /\ c[k] = "/" /\ c[k + 1] = "/" /\ k \in Int
      BY <1>1, <1>2, <2>2, OccursSlashSlash
    <3>2. CASE k >= i
      <4>1. k \in i .. n - d /\ k + 1 \in i .. n - d /\ (k + 1) + d = (k + d) + 1 /\ k + d + 1 <= n /\ k + d \in Int
        BY <1>2, <3>1, <3>2
      <4>2. Occurs(p, SlashSlash, k + d)  BY <1>3, <3>1, <4>1, OccursSlashSlash, Zenon DEF n
      <4> QED  BY <1>3, <2>1, <4>1, <4>2, Zenon
    <3>3. CASE k < i
      <4>1. k \in 1 .. i /\ k + 1 \in 1 .. i /\ k + 1 <= n /\ k \in 1 .. n  BY <1>2, <3>1, <3>3
      <4>2. Occurs(p, SlashSlash, k)  BY <1>3, <3>1, <4>1, OccursSlashSlash, Zenon DEF n
      <4> QED  BY <2>1, <4>1, <4>2, Zenon
    <3> QED  BY <1>2, <3>2, <3>3
  <2> QED  BY <1>1, <1>2, <2>2, Strstr, Zenon
<1>6. ASSUME strstr(p, SlashDot) = 0 PROVE strstr(c, SlashDot) = 0
  <2>1. \A k \in 1 .. n : ~Occurs(p, SlashDot, k)
    BY <1>2, <1>6, Strstr DEF n
  <2>2. ASSUME NEW k \in 1 .. n - d, Occurs(c, SlashDot, k) PROVE FALSE
    <3>1. k + 2 <= n - d /\ c[k] = "/" /\ c[k + 1] = "." /\ c[k + 2] = "/" /\ k \in Int
      BY <1>1, <1>2, <2>2, OccursSlashDot
    <3>2. CASE k >= i
      <4>1. /\ k \in i .. n - d /\ k + 1 \in i .. n - d /\ (k + 1) + d = (k + d) + 1
            /\ k + 2 \in i .. n - d /\ (k + 2) + d = (k + d) + 2
            /\ k + d + 2 <= n /\ k + d \in Int
        BY <1>2, <3>1, <3>2
      <4>2. p[k + d] = "/" /\ p[k + d + 1] = "." /\ p[k + d + 2] = "/"  BY <1>3, <3>1, <4>1, Zenon
      <4>3. Occurs(p, SlashDot, k + d)  BY <4>1, <4>2, OccursSlashDot, Zenon DEF n
      <4> QED  BY <1>3, <2>1, <4>1, <4>3, Zenon
    <3>3. CASE k + 1 = i  BY <1>3, <3>1, <3>3
    <3>4. CASE k + 1 < i
      <4>1. k \in 1 .. i /\ k + 1 \in 1 .. i /\ k + 2 \in 1 .. i /\ k + 2 <= n /\ k \in 1 .. n
        BY <1>2, <3>1, <3>4
      <4>2. Occurs(p, SlashDot, k)  BY <1>3, <3>1, <4>1, OccursSlashDot, Zenon DEF n
      <4> QED  BY <2>1, <4>1, <4>2, Zenon
    <3> QED  BY <1>2, <3>2, <3>3, <3>4
  <2> QED  BY <1>1, <1>2, <2>2, Strstr, Zenon
<1> QED  BY <1>4, <1>5, <1>6, Zenon DEF c

\* The inner loop of remove_dot_dot finds a slash.
LEMMA PStart ==
  ASSUME NEW p \in Seq(Char), p[1] = "/", NEW i \in 2 .. Len(p)
  PROVE  /\ p_start(p, i) \in 1 .. i - 1 /\ p[p_start(p, i)] = "/"
         /\ \A l \in p_start(p, i) + 1 .. i - 1 : p[l] # "/"
<1> DEFINE S == {n \in Nat : n \in 1 .. i - 1 /\ p[i - n] = "/"}
<1>1. S \subseteq Nat /\ i - 1 \in S  OBVIOUS
<1>2. PICK n \in S : \A m \in S : n <= m
  <2> HIDE DEF S
  <2> QED  BY <1>1, Least, Zenon
<1> DEFINE k == i - n
<1>3. k \in 1 .. i - 1 /\ p[k] = "/"  OBVIOUS
<1>4. ASSUME NEW l \in k + 1 .. i - 1 PROVE p[l] # "/"
  <2>1. i - l \in Nat /\ i - l \in 1 .. i - 1 /\ ~(n <= i - l) /\ i - (i - l) = l  OBVIOUS
  <2>2. i - l \notin S  BY <1>2, <2>1, Zenon
  <2> QED  BY <2>1, <2>2, Zenon
<1> HIDE DEF k
<1>5. \E x \in 1 .. i - 1 : p[x] = "/" /\ \A l \in x + 1 .. i - 1 : p[l] # "/"  BY <1>3, <1>4, Zenon
<1> QED  BY <1>5, Zenon DEF p_start
----------------------------------------------------------------------------
\* What the walker makes of the pieces that the passes remove: it reads each of
\* them like one slash.
LEMMA EnterTwice ==
  ASSUME NEW w \in Walker, w.cur = <<>> \/ w.cur = Here
  PROVE  Enter(w) = [dir |-> w.dir, cur |-> <<>>, past |-> w.past]
  BY DEF Enter

\* "." and ".." as they are read.
LEMMA DotsAppend ==
  /\ Append(<<>>, ".") = Here /\ Append(Here, ".") = Up /\ Here \in Seq(Char) /\ Up \in Seq(Char)
  /\ Up # <<>> /\ Up # Here /\ Here # <<>>
<1>1. Here \in Seq(Char) /\ Up \in Seq(Char)  BY Chars DEF Here, Up
<1>2. Append(<<>>, ".") = Here  BY DEF Here
<1>3. Append(Here, ".") \in Seq(Char) /\ Len(Append(Here, ".")) = 2 /\ Len(Up) = 2 /\ Len(Here) = 1
  BY <1>1, Chars DEF Here, Up
<1>4. /\ Append(Here, ".")[1] = "." /\ Append(Here, ".")[2] = "."
      /\ Up[1] = "." /\ Up[2] = "."
  BY <1>1, Chars DEF Here, Up
<1>5. \A k \in 1 .. 2 : k = 1 \/ k = 2  OBVIOUS
<1>6. Append(Here, ".") = Up
  <2>1. \A k \in 1 .. Len(Up) : Up[k] = Append(Here, ".")[k]  BY <1>3, <1>4, <1>5, Zenon
  <2> QED  BY <1>1, <1>3, <2>1, SeqEq
<1>7. Len(<<>>) = 0  OBVIOUS
<1> QED  BY <1>1, <1>2, <1>3, <1>6, <1>7

\* Reading a slash enters the name before it.
LEMMA WalkedSlash == \A w : Walked(w, Slash) = Enter(w)
<1>1. Slash = Append(<<>>, "/") /\ <<>> \in Seq(Char)  BY DEF Slash
<1>2. ASSUME NEW w PROVE Walked(w, Slash) = Enter(w)
  <2>1. Walked(w, Append(<<>>, "/")) = Read(Walked(w, <<>>), "/")  BY <1>1, WalkedAppend, Chars, Zenon
  <2>2. Read(w, "/") = Enter(w)  BY Zenon DEF Read
  <2> QED  BY <1>1, <2>1, <2>2, WalkedEmpty, Zenon
<1> QED  BY <1>2, Zenon

\* An empty name leads nowhere.
LEMMA EnterEnter ==
  ASSUME NEW w \in Walker
  PROVE  Enter(Enter(w)) = Enter(w)
<1> DEFINE e == Enter(w)
<1>1. e \in Walker /\ e.cur = <<>>  BY EnterType, Zenon
<1> HIDE DEF e
<1>2. Enter(e) = [dir |-> e.dir, cur |-> <<>>, past |-> e.past]  BY <1>1, EnterTwice, Zenon
<1>3. e = [dir |-> e.dir, cur |-> e.cur, past |-> e.past]  BY <1>1 DEF Walker
<1> QED  BY <1>1, <1>2, <1>3, Zenon DEF e

\* "//" leads where "/" leads.
LEMMA WalkedSlashSlash ==
  ASSUME NEW w \in Walker
  PROVE  Walked(w, SlashSlash) = Enter(w)
<1>1. SlashSlash = Append(Slash, "/") /\ Slash \in Seq(Char)  BY Chars DEF SlashSlash, Slash
<1>2. Walked(w, SlashSlash) = Read(Walked(w, Slash), "/")  BY <1>1, WalkedAppend, Chars, Zenon
<1>3. Read(Enter(w), "/") = Enter(Enter(w))  BY Zenon DEF Read
<1> QED  BY <1>2, <1>3, WalkedSlash, EnterEnter, Zenon

\* And so does "/./".
LEMMA WalkedSlashDot ==
  ASSUME NEW w \in Walker
  PROVE  Walked(w, SlashDot) = Enter(w)
<1> DEFINE e == Enter(w)
           u == <<"/", ".">>
           x == [dir |-> e.dir, cur |-> Here, past |-> e.past]
<1>1. /\ SlashDot = Append(u, "/") /\ u = Append(Slash, ".")
      /\ Slash \in Seq(Char) /\ u \in Seq(Char)
  BY Chars DEF SlashDot, Slash
<1> HIDE DEF u
<1>2. Walked(w, SlashDot) = Read(Read(e, "."), "/")
  <2>1. Walked(w, u) = Read(Walked(w, Slash), ".")  BY <1>1, WalkedAppend, Chars, Zenon
  <2>2. Walked(w, SlashDot) = Read(Walked(w, u), "/")  BY <1>1, WalkedAppend, Chars, Zenon
  <2>3. Walked(w, Slash) = e  BY WalkedSlash, Zenon
  <2> QED  BY <2>1, <2>2, <2>3, Zenon
<1>3. e \in Walker /\ e.cur = <<>>  BY EnterType, Zenon
<1> HIDE DEF e
<1>4. Append(e.cur, ".") = Here  BY <1>3, DotsAppend, Zenon
<1>5. Read(e, ".") = x  BY <1>4, Zenon DEF Read
<1>6. Enter(x) = [dir |-> e.dir, cur |-> <<>>, past |-> e.past]  BY DEF Enter
<1>7. e = [dir |-> e.dir, cur |-> e.cur, past |-> e.past]  BY <1>3 DEF Walker
<1>8. Read(x, "/") = Enter(x)  BY Zenon DEF Read
<1> HIDE DEF x
<1> QED  BY <1>2, <1>3, <1>5, <1>6, <1>7, <1>8, Zenon DEF e

\* What "/../" reads.
LEMMA WalkedSlashDotDot ==
  ASSUME NEW w
  PROVE  Walked(w, SlashDotDot) = Read(Read(Read(Enter(w), "."), "."), "/")
<1> DEFINE u == <<"/", ".">>
           v == <<"/", ".", ".">>
<1>1. /\ SlashDotDot = Append(v, "/") /\ v = Append(u, ".") /\ u = Append(Slash, ".")
      /\ Slash \in Seq(Char) /\ u \in Seq(Char) /\ v \in Seq(Char)
  BY Chars DEF SlashDotDot, Slash
<1> HIDE DEF u, v
<1>2. Walked(w, u) = Read(Walked(w, Slash), ".")  BY <1>1, WalkedAppend, Chars, Zenon
<1>3. Walked(w, v) = Read(Walked(w, u), ".")  BY <1>1, WalkedAppend, Chars, Zenon
<1>4. Walked(w, SlashDotDot) = Read(Walked(w, v), "/")  BY <1>1, WalkedAppend, Chars, Zenon
<1>5. Walked(w, Slash) = Enter(w)  BY WalkedSlash, Zenon
<1> QED  BY <1>2, <1>3, <1>4, <1>5, Zenon

\* A sequence is its front and its last element.
LEMMA FrontLast ==
  ASSUME NEW T, NEW d \in Seq(T), d # <<>>
  PROVE  d = Append(SubSeq(d, 1, Len(d) - 1), d[Len(d)]) /\ d[Len(d)] \in T
  OBVIOUS

\* Climbing from a directory that was just entered leads back.
LEMMA AppendFront ==
  ASSUME NEW T, NEW d \in Seq(T), NEW c \in T
  PROVE  Append(d, c) # <<>> /\ SubSeq(Append(d, c), 1, Len(Append(d, c)) - 1) = d
  OBVIOUS

\* A name and the "/../" behind it.
LEMMA WalkedNameUp ==
  ASSUME NEW w \in Walker, NEW name \in Seq(Char), IsWord(name), name \notin {<<>>, Here, Up}
  PROVE  Walked(w, (Slash \o name) \o SlashDotDot) = Enter(w)
<1> DEFINE e == Enter(w)
           x == [dir |-> e.dir, cur |-> name, past |-> e.past]
           y == [dir |-> Append(e.dir, name), cur |-> <<>>, past |-> e.past]
           z == [dir |-> Append(e.dir, name), cur |-> Up, past |-> e.past]
<1>1. e \in Walker /\ e.cur = <<>>  BY EnterType, Zenon
<1>2. Walked(w, (Slash \o name) \o SlashDotDot) = Walked(Walked(e, name), SlashDotDot)
  <2>1. Slash \in Seq(Char) /\ SlashDotDot \in Seq(Char)  BY Chars DEF Slash, SlashDotDot
  <2>2. Slash \o name \in Seq(Char)  BY <2>1
  <2>3. Walked(w, (Slash \o name) \o SlashDotDot) = Walked(Walked(w, Slash \o name), SlashDotDot)
    BY <2>1, <2>2, WalkedConcat, Zenon
  <2>4. Walked(w, Slash \o name) = Walked(Walked(w, Slash), name)
    BY <2>1, WalkedConcat, Zenon
  <2> QED  BY <2>3, <2>4, WalkedSlash, Zenon
<1> HIDE DEF e
<1>3. Walked(e, name) = x
  <2>1. Walked(e, name) = [dir |-> e.dir, cur |-> e.cur \o name, past |-> e.past]
    BY <1>1, WalkedWord, Zenon
  <2>2. e.cur \o name = name  BY <1>1
  <2> QED  BY <2>1, <2>2, Zenon
<1>4. Enter(x) = y  BY DEF Enter
<1>5. Read(y, ".") = [dir |-> Append(e.dir, name), cur |-> Here, past |-> e.past]
  <2>1. Append(<<>>, ".") = Here  BY DotsAppend, Zenon
  <2> QED  BY <2>1, Zenon DEF Read
<1>6. Read(Read(y, "."), ".") = z
  <2>1. Append(Here, ".") = Up  BY DotsAppend, Zenon
  <2> QED  BY <1>5, <2>1, Zenon DEF Read
<1>7. Enter(z) = e
  <2>1. e.dir \in Seq(Seq(Char)) /\ name \in Seq(Char) /\ e = [dir |-> e.dir, cur |-> <<>>, past |-> e.past]
    BY <1>1 DEF Walker
  <2> DEFINE f == Append(e.dir, name)
  <2>2. f # <<>> /\ SubSeq(f, 1, Len(f) - 1) = e.dir  BY <2>1, AppendFront, Zenon
  <2>3. Up # <<>> /\ Up # Here  BY DotsAppend, Zenon
  <2> HIDE DEF f
  <2>4. Enter([dir |-> f, cur |-> Up, past |-> e.past])
          = [dir |-> SubSeq(f, 1, Len(f) - 1), cur |-> <<>>, past |-> e.past]
    BY <2>2, <2>3 DEF Enter
  <2> QED  BY <2>1, <2>2, <2>4, Zenon DEF f
<1>8. Read(z, "/") = Enter(z)  BY Zenon DEF Read
<1>9. Walked(x, SlashDotDot) = Read(Read(Read(Enter(x), "."), "."), "/")
  BY WalkedSlashDotDot, Zenon
<1> HIDE DEF x, y, z
<1> QED  BY <1>2, <1>3, <1>4, <1>6, <1>7, <1>8, <1>9, Zenon DEF e

\* A cut leaves the walk as it is if the walker reads what goes, with the slash
\* that stays, like that slash.
LEMMA CutWalk ==
  ASSUME NEW p \in Seq(Char), NEW i \in 1 .. Len(p), NEW j \in i + 1 .. Len(p), p[j] = "/",
         NEW w \in Walker,
         \A x \in Walker : Walked(x, SubSeq(p, i, j)) = Enter(x)
  PROVE  Walked(w, Cut(p, i, j)) = Walked(w, p)
<1> DEFINE a == SubSeq(p, 1, i - 1)
           m == SubSeq(p, i, j)
           b == SubSeq(p, j + 1, Len(p))
<1>1. a \in Seq(Char) /\ m \in Seq(Char) /\ b \in Seq(Char) /\ Slash \in Seq(Char)
  BY Chars DEF Slash
<1>2. p = a \o (m \o b)
  <2>1. i - 1 \in 0 .. Len(p) /\ i - 1 + 1 = i /\ i \in 1 .. Len(p) + 1 /\ j \in i - 1 .. Len(p)  OBVIOUS
  <2>2. p = a \o SubSeq(p, i, Len(p))  BY <2>1, SplitAll
  <2>3. SubSeq(p, i, Len(p)) = m \o b  BY <2>1, Split, Zenon
  <2> QED  BY <2>2, <2>3, Zenon
<1>3. Cut(p, i, j) = a \o (Slash \o b)
  <2>1. j \in 1 .. Len(p)  OBVIOUS
  <2>2. SubSeq(p, j, Len(p)) = Slash \o b  BY <2>1, SplitFirst, Zenon DEF Slash
  <2> QED  BY <2>2, Zenon DEF Cut
<1> DEFINE v == Walked(w, a)
<1> HIDE DEF a, m, b
<1>4. Walked(w, p) = Walked(Walked(v, m), b)
  <2>1. m \o b \in Seq(Char)  BY <1>1
  <2>2. Walked(w, a \o (m \o b)) = Walked(v, m \o b)  BY <1>1, <2>1, WalkedConcat, Zenon
  <2>3. Walked(v, m \o b) = Walked(Walked(v, m), b)
    <3> HIDE DEF v
    <3> QED  BY <1>1, WalkedConcat, Zenon
  <2> QED  BY <1>2, <2>2, <2>3, Zenon
<1>5. Walked(w, Cut(p, i, j)) = Walked(Walked(v, Slash), b)
  <2>1. Slash \o b \in Seq(Char)  BY <1>1
  <2>2. Walked(w, a \o (Slash \o b)) = Walked(v, Slash \o b)  BY <1>1, <2>1, WalkedConcat, Zenon
  <2>3. Walked(v, Slash \o b) = Walked(Walked(v, Slash), b)
    <3> HIDE DEF v
    <3> QED  BY <1>1, WalkedConcat, Zenon
  <2> QED  BY <1>3, <2>2, <2>3, Zenon
<1>6. v \in Walker  BY <1>1, WalkedType, Zenon
<1>7. Walked(v, m) = Walked(v, Slash)  BY <1>6, WalkedSlash, Zenon DEF m
<1> QED  BY <1>4, <1>5, <1>7, Zenon
----------------------------------------------------------------------------
\* Where the passes have nothing more to do, a path is the spelling of what it
\* walks to.
LEMMA BelowIs ==
  ASSUME NEW s \in Seq(Char), NEW name \in Seq(Char)
  PROVE  /\ Below(s, name) \in Seq(Char) /\ Len(Below(s, name)) = Len(s) + 1 + Len(name)
         /\ \A k \in 1 .. Len(s) : Below(s, name)[k] = s[k]
         /\ Below(s, name)[Len(s) + 1] = "/"
         /\ \A k \in 1 .. Len(name) : Below(s, name)[Len(s) + 1 + k] = name[k]
<1> DEFINE a == s \o Slash
<1>1. Slash \in Seq(Char) /\ Len(Slash) = 1 /\ Slash[1] = "/" /\ 1 \in 1 .. 1  BY Chars DEF Slash
<1>2. /\ a \in Seq(Char) /\ Len(a) = Len(s) + 1 /\ a[Len(s) + 1] = "/"
      /\ \A k \in 1 .. Len(s) : a[k] = s[k]
  <2>1. /\ a \in Seq(Char) /\ Len(a) = Len(s) + Len(Slash)
        /\ \A k \in 1 .. Len(s) : a[k] = s[k]
        /\ \A k \in 1 .. Len(Slash) : a[Len(s) + k] = Slash[k]
    BY <1>1, ConcatIs, Zenon
  <2> QED  BY <1>1, <2>1
<1> HIDE DEF a
<1>3. Below(s, name) = a \o name  BY Zenon DEF Below, a
<1>4. /\ a \o name \in Seq(Char) /\ Len(a \o name) = Len(a) + Len(name)
      /\ \A k \in 1 .. Len(a) : (a \o name)[k] = a[k]
      /\ \A k \in 1 .. Len(name) : (a \o name)[Len(a) + k] = name[k]
  BY <1>2, ConcatIs, Zenon
<1>5. Len(s) \in Nat  OBVIOUS
<1>6. Len(s) + 1 \in 1 .. Len(s) + 1 /\ \A k \in 1 .. Len(s) : k \in 1 .. Len(s) + 1  BY <1>5
<1> QED  BY <1>2, <1>3, <1>4, <1>6, Zenon

\* A name below a path grows at its end.
LEMMA BelowAppend ==
  ASSUME NEW s \in Seq(Char), NEW name \in Seq(Char), NEW c \in Char
  PROVE  Below(s, Append(name, c)) = Append(Below(s, name), c)
<1>1. s \o Slash \in Seq(Char)  BY Chars DEF Slash
<1> QED  BY <1>1, ConcatAppend, Zenon DEF Below

\* An empty name leaves the slash.
LEMMA BelowEmpty ==
  ASSUME NEW s \in Seq(Char)
  PROVE  Below(s, <<>>) = Append(s, "/")
<1>1. s \o Slash = Append(s, "/")  BY Chars DEF Slash
<1>2. Append(s, "/") \o <<>> = Append(s, "/")  BY Chars
<1> QED  BY <1>1, <1>2, Zenon DEF Below

\* r is a beginning of p.
IsHead(r, p) == Len(r) <= Len(p) /\ \A k \in 1 .. Len(r) : r[k] = p[k]

\* A path is its head and what follows.
LEMMA HeadSplit ==
  ASSUME NEW r \in Seq(Char), NEW p \in Seq(Char), IsHead(r, p)
  PROVE  p = r \o SubSeq(p, Len(r) + 1, Len(p)) /\ SubSeq(p, Len(r) + 1, Len(p)) \in Seq(Char)
<1> DEFINE a == SubSeq(p, 1, Len(r))
<1>1. Len(r) \in 0 .. Len(p)  BY DEF IsHead
<1>2. a \in Seq(Char) /\ Len(a) = Len(r) /\ \A k \in 1 .. Len(r) : a[k] = p[k]  BY <1>1
<1>3. SubSeq(p, Len(r) + 1, Len(p)) \in Seq(Char)  BY <1>1
<1>4. p = a \o SubSeq(p, Len(r) + 1, Len(p))  BY <1>1, SplitAll, Zenon
<1> HIDE DEF a
<1>5. \A k \in 1 .. Len(a) : a[k] = r[k]  BY <1>2, Zenon DEF IsHead
<1>6. a = r  BY <1>2, <1>5, SeqEq, Zenon
<1> QED  BY <1>3, <1>4, <1>6, Zenon

\* Only a path that climbs past the root is left with a "/../".
LEMMA NoDotDotLeft ==
  ASSUME NEW p \in Seq(Char), Final(p), ~Walked(Start, p).past, NEW i \in 1 .. Len(p)
  PROVE  ~Occurs(p, SlashDotDot, i)
<1> SUFFICES ASSUME Occurs(p, SlashDotDot, i) PROVE FALSE  OBVIOUS
<1>1. strstr(p, SlashDotDot) # 0
  <2>1. Len(p) \in Nat /\ 0 \notin 1 .. Len(p)  OBVIOUS
  <2> QED  BY <2>1, Strstr, Zenon
<1>2. strstr(p, SlashDotDot) = 1  BY <1>1 DEF Final
<1>3. Occurs(p, SlashDotDot, 1)  BY <1>1, <1>2, Strstr, Zenon
<1>4. IsHead(SlashDotDot, p) /\ SlashDotDot \in Seq(Char)
  <2>1. \A k \in 1 .. 4 : 1 + k - 1 = k  OBVIOUS
  <2>2. Len(SlashDotDot) = 4 /\ 1 + 4 - 1 = 4 /\ SlashDotDot \in Seq(Char)  BY Chars DEF SlashDotDot
  <2> QED  BY <1>3, <2>1, <2>2 DEF Occurs, IsHead
<1> DEFINE b == SubSeq(p, Len(SlashDotDot) + 1, Len(p))
<1>5. p = SlashDotDot \o b /\ b \in Seq(Char)  BY <1>4, HeadSplit, Zenon
<1> HIDE DEF b
<1> DEFINE x == [dir |-> <<>>, cur |-> Here, past |-> FALSE]
           y == [dir |-> <<>>, cur |-> Up, past |-> FALSE]
           z == [dir |-> <<>>, cur |-> <<>>, past |-> TRUE]
<1>6. Enter(Start) = Start  BY DEF Enter, Start
<1>7. Read(Start, ".") = x  BY DotsAppend, Zenon DEF Read, Start
<1>8. Read(x, ".") = y  BY DotsAppend, Zenon DEF Read
<1>9. Enter(y) = z  BY DotsAppend DEF Enter
<1>10. Read(y, "/") = Enter(y)  BY Zenon DEF Read
<1>11. z \in Walker /\ z.past
  <2>1. <<>> \in Seq(Char) /\ <<>> \in Seq(Seq(Char))  OBVIOUS
  <2> QED  BY <2>1 DEF Walker
<1> HIDE DEF x, y, z
<1>12. Walked(Start, SlashDotDot) = z
  <2>1. Walked(Start, SlashDotDot) = Read(Read(Read(Enter(Start), "."), "."), "/")
    BY WalkedSlashDotDot, Zenon
  <2> QED  BY <1>6, <1>7, <1>8, <1>9, <1>10, <2>1, Zenon
<1>13. Walked(Start, p) = Walked(Walked(Start, SlashDotDot), b)
  BY <1>4, <1>5, WalkedConcat, Zenon
<1>14. Walked(z, b).past  BY <1>5, <1>11, WalkedType, Zenon
<1> QED  BY <1>12, <1>13, <1>14, Zenon

\* The spelling of a walker that has read at least a slash.
Spelled(w) == Below(Spell(w.dir), w.cur)

\* One character more, in a path in which the passes have nothing to do.
LEMMA SpelledRead ==
  ASSUME NEW p \in Seq(Char), Final(p), ~Walked(Start, p).past,
         NEW r \in Seq(Char), NEW c \in Char, IsHead(Append(r, c), p),
         NEW w \in Walker, r = Spelled(w)
  PROVE  Append(r, c) = Spelled(Read(w, c))
<1> DEFINE d == w.dir
           cur == w.cur
           s == Spell(d)
           n == Len(s)
<1>1. d \in Seq(Seq(Char)) /\ cur \in Seq(Char)  BY DEF Walker
<1>2. s \in Seq(Char) /\ n \in Nat  
  <2>1. s \in Seq(Char)  BY <1>1, SpellType, Zenon
  <2> QED  BY <2>1
<1>3. r = Below(s, cur)  BY Zenon DEF Spelled
<1> HIDE DEF d, cur, s
<1>4. CASE c # "/"
  <2>1. Read(w, c) = [dir |-> d, cur |-> Append(cur, c), past |-> w.past]  BY <1>4, Zenon DEF Read, d, cur
  <2>2. Spelled(Read(w, c)) = Below(s, Append(cur, c))  BY <2>1 DEF Spelled, s
  <2>3. Below(s, Append(cur, c)) = Append(Below(s, cur), c)  BY <1>1, <1>2, BelowAppend, Zenon
  <2> QED  BY <1>3, <2>2, <2>3, Zenon
<1>5. CASE c = "/"
  <2>1. /\ Len(r) = n + 1 + Len(cur) /\ r[n + 1] = "/"
        /\ \A k \in 1 .. Len(cur) : r[n + 1 + k] = cur[k]
    <3>1. /\ Len(Below(s, cur)) = Len(s) + 1 + Len(cur) /\ Below(s, cur)[Len(s) + 1] = "/"
          /\ \A k \in 1 .. Len(cur) : Below(s, cur)[Len(s) + 1 + k] = cur[k]
      BY <1>1, <1>2, BelowIs, Zenon
    <3> QED  BY <1>3, <3>1, Zenon
  <2>2. /\ Len(r) + 1 <= Len(p) /\ p[Len(r) + 1] = "/"
        /\ \A k \in 1 .. Len(r) : p[k] = r[k]
    BY <1>5 DEF IsHead
  <2>3. Len(p) \in Nat  OBVIOUS
  <2>4. cur # <<>>
    <3> SUFFICES ASSUME cur = <<>> PROVE FALSE  OBVIOUS
    <3>1. Len(cur) = 0  OBVIOUS
    <3>2. /\ n + 1 \in 1 .. Len(r) /\ n + 1 \in 1 .. Len(p) /\ n + 1 \in Int
          /\ n + 1 + 1 <= Len(p) /\ Len(r) + 1 = n + 1 + 1
      BY <1>2, <2>1, <2>2, <2>3, <3>1
    <3>3. p[n + 1] = "/" /\ p[n + 1 + 1] = "/"  BY <2>1, <2>2, <3>2, Zenon
    <3>4. Occurs(p, SlashSlash, n + 1)  BY <3>2, <3>3, OccursSlashSlash, Zenon
    <3>5. strstr(p, SlashSlash) = 0  BY DEF Final
    <3> QED  BY <2>3, <3>2, <3>4, <3>5, Strstr
  <2>5. cur # Here
    <3> SUFFICES ASSUME cur = Here PROVE FALSE  OBVIOUS
    <3>1. Len(cur) = 1 /\ cur[1] = "." /\ 1 \in 1 .. 1  BY DEF Here
    <3>2. /\ n + 1 \in 1 .. Len(r) /\ n + 1 \in 1 .. Len(p) /\ n + 1 \in Int
          /\ n + 1 + 1 \in 1 .. Len(r)
          /\ n + 1 + 2 <= Len(p) /\ Len(r) + 1 = n + 1 + 2
      BY <1>2, <2>1, <2>2, <2>3, <3>1
    <3>3. p[n + 1] = "/" /\ p[n + 1 + 1] = "." /\ p[n + 1 + 2] = "/"
      BY <2>1, <2>2, <3>1, <3>2, Zenon
    <3>4. Occurs(p, SlashDot, n + 1)  BY <3>2, <3>3, OccursSlashDot, Zenon
    <3>5. strstr(p, SlashDot) = 0  BY DEF Final
    <3> QED  BY <2>3, <3>2, <3>4, <3>5, Strstr
  <2>6. cur # Up
    <3> SUFFICES ASSUME cur = Up PROVE FALSE  OBVIOUS
    <3>1. Len(cur) = 2 /\ cur[1] = "." /\ cur[2] = "." /\ 1 \in 1 .. 2 /\ 2 \in 1 .. 2  BY DEF Up
    <3>2. /\ n + 1 \in 1 .. Len(r) /\ n + 1 \in 1 .. Len(p) /\ n + 1 \in Int
          /\ n + 1 + 1 \in 1 .. Len(r) /\ n + 1 + 2 \in 1 .. Len(r)
          /\ n + 1 + 3 <= Len(p) /\ Len(r) + 1 = n + 1 + 3
      BY <1>2, <2>1, <2>2, <2>3, <3>1
    <3>3. p[n + 1] = "/" /\ p[n + 1 + 1] = "." /\ p[n + 1 + 2] = "." /\ p[n + 1 + 3] = "/"
      BY <2>1, <2>2, <3>1, <3>2, Zenon
    <3>4. Occurs(p, SlashDotDot, n + 1)  BY <3>2, <3>3, OccursSlashDotDot, Zenon
    <3> QED  BY <3>2, <3>4, NoDotDotLeft, Zenon
  <2>7. Read(w, c) = [dir |-> Append(d, cur), cur |-> <<>>, past |-> w.past]
    <3>1. Read(w, c) = Enter(w)  BY <1>5, Zenon DEF Read
    <3>2. w.cur \notin {<<>>, Here} /\ w.cur # Up  BY <2>4, <2>5, <2>6, Zenon DEF cur
    <3> QED  BY <3>1, <3>2, Zenon DEF Enter, d, cur
  <2>8. Spelled(Read(w, c)) = Below(Spell(Append(d, cur)), <<>>)  BY <2>7 DEF Spelled
  <2>9. Spell(Append(d, cur)) = r  BY <1>1, <1>3, SpellAppend, Zenon DEF s
  <2> QED  BY <1>5, <2>8, <2>9, BelowEmpty, Zenon
<1> QED  BY <1>4, <1>5, Zenon

\* A path that no pass finds anything in is the spelling of what it has walked
\* to, unless it climbs past the root: by induction over its heads.
LEMMA SpelledFinal ==
  ASSUME NEW p \in Seq(Char), p # <<>>, p[1] = "/", Final(p), ~Walked(Start, p).past
  PROVE  p = Spelled(Walked(Start, p))
<1> DEFINE S == {r \in Seq(Char) : r # <<>> /\ IsHead(r, p) => r = Spelled(Walked(Start, r))}
<1>1. <<>> \in S
  <2>1. <<>> \in Seq(Char)  OBVIOUS
  <2> QED  BY <2>1, Zenon
<1>2. ASSUME NEW r \in Seq(Char), NEW c \in Char, r \in S PROVE Append(r, c) \in S
  <2>1. Append(r, c) \in Seq(Char)  OBVIOUS
  <2>2. ASSUME IsHead(Append(r, c), p)
        PROVE  Append(r, c) = Spelled(Walked(Start, Append(r, c)))
    <3>1. Walked(Start, Append(r, c)) = Read(Walked(Start, r), c)  BY WalkedAppend, Zenon
    <3>2. CASE r = <<>>
      <4>1. c = "/"  BY <2>2, <3>2 DEF IsHead
      <4>2. Enter(Start) = Start  BY DEF Enter, Start
      <4>3. Read(Start, "/") = Start  BY <4>2, Zenon DEF Read
      <4>4. Spelled(Start) = Below(<<>>, <<>>)  BY SpellEmpty DEF Spelled, Start
      <4>5. Below(<<>>, <<>>) = Append(<<>>, "/")
        <5>1. <<>> \in Seq(Char)  OBVIOUS
        <5> QED  BY <5>1, BelowEmpty, Zenon
      <4> QED  BY <3>1, <3>2, <4>1, <4>3, <4>4, <4>5, WalkedEmpty, Zenon
    <3>3. CASE r # <<>>
      <4>1. IsHead(r, p)  BY <2>2 DEF IsHead
      <4>2. r = Spelled(Walked(Start, r))  BY <1>2, <3>3, <4>1, Zenon
      <4>3. Walked(Start, r) \in Walker  BY StartType, WalkedType, Zenon
      <4>4. Append(r, c) = Spelled(Read(Walked(Start, r), c))
        <5> DEFINE w == Walked(Start, r)
        <5>1. w \in Walker /\ r = Spelled(w)  BY <4>2, <4>3, Zenon
        <5> HIDE DEF w
        <5>2. Append(r, c) = Spelled(Read(w, c))  BY <2>2, <5>1, SpelledRead, Zenon
        <5> QED  BY <5>2, Zenon DEF w
      <4> QED  BY <3>1, <4>4, Zenon
    <3> QED  BY <3>2, <3>3, Zenon
  <2> QED  BY <2>1, <2>2, Zenon
<1>3. Seq(Char) \subseteq S
  <2> HIDE DEF S
  <2> QED  BY <1>1, <1>2, SeqInduction, Zenon
<1>4. IsHead(p, p)  BY DEF IsHead
<1> QED  BY <1>3, <1>4, Zenon
----------------------------------------------------------------------------
\* One turn of a loop.  What goes reaches from a slash to before a slash, and the
\* walker reads it, with that slash, like a slash.
Removable(p, i, j) ==
  /\ i \in 1 .. Len(p) /\ j \in i + 1 .. Len(p) /\ p[i] = "/" /\ p[j] = "/"
  /\ \A x \in Walker : Walked(x, SubSeq(p, i, j)) = Enter(x)

\* A turn that removes such a stretch keeps the first slash, the walk, and what
\* the earlier passes have reached, and shortens the path.
LEMMA Turn ==
  ASSUME NEW p \in Seq(Char), p[1] = "/", NEW i, NEW j, Removable(p, i, j)
  PROVE  /\ Cut(p, i, j) \in Seq(Char) /\ Cut(p, i, j) # <<>> /\ Cut(p, i, j)[1] = "/"
         /\ Len(Cut(p, i, j)) < Len(p)
         /\ Walked(Start, Cut(p, i, j)) = Walked(Start, p)
         /\ strstr(p, SlashSlash) = 0 => strstr(Cut(p, i, j), SlashSlash) = 0
         /\ strstr(p, SlashDot) = 0 => strstr(Cut(p, i, j), SlashDot) = 0
<1>1. /\ i \in 1 .. Len(p) /\ j \in i + 1 .. Len(p) /\ p[i] = "/" /\ p[j] = "/"
      /\ \A x \in Walker : Walked(x, SubSeq(p, i, j)) = Enter(x)
  BY Zenon DEF Removable
<1>2. Cut(p, i, j) \in Seq(Char) /\ Len(Cut(p, i, j)) = Len(p) - (j - i)  BY <1>1, CutIs, Zenon
<1>3. Len(p) - (j - i) < Len(p) /\ Len(p) - (j - i) # 0  BY <1>1
<1>4. Cut(p, i, j) # <<>>  BY <1>2, <1>3
<1>5. Walked(Start, Cut(p, i, j)) = Walked(Start, p)  BY <1>1, StartType, CutWalk, Zenon
<1>6. /\ Cut(p, i, j)[1] = "/"
      /\ strstr(p, SlashSlash) = 0 => strstr(Cut(p, i, j), SlashSlash) = 0
      /\ strstr(p, SlashDot) = 0 => strstr(Cut(p, i, j), SlashDot) = 0
  BY <1>1, CutKeeps, Zenon
<1> QED  BY <1>2, <1>3, <1>4, <1>5, <1>6, Zenon

\* A string that stands at i is the part of p there.
LEMMA OccursPart ==
  ASSUME NEW p \in Seq(Char), NEW str \in Seq(Char), NEW i \in 1 .. Len(p), Occurs(p, str, i)
  PROVE  SubSeq(p, i, i + Len(str) - 1) = str
<1> DEFINE m == SubSeq(p, i, i + Len(str) - 1)
<1>1. i + Len(str) - 1 <= Len(p) /\ \A k \in 1 .. Len(str) : p[i + k - 1] = str[k]
  BY Zenon DEF Occurs
<1>2. Len(str) \in Nat /\ Len(p) \in Nat  OBVIOUS
<1>3. /\ m \in Seq(Char) /\ Len(m) = Len(str)
      /\ \A k \in 1 .. Len(str) : m[k] = p[i + k - 1]
  BY <1>1, <1>2
<1> HIDE DEF m
<1>4. \A k \in 1 .. Len(m) : m[k] = str[k]  BY <1>1, <1>3, Zenon
<1> QED  BY <1>3, <1>4, SeqEq, Zenon DEF m

\* The pass for "/./" removes such a stretch,
LEMMA TurnDot ==
  ASSUME NEW p \in Seq(Char), strstr(p, SlashDot) # 0
  PROVE  Removable(p, strstr(p, SlashDot), strstr(p, SlashDot) + Len(SlashDot) - 1)
<1> DEFINE i == strstr(p, SlashDot)
<1>1. i \in 1 .. Len(p) /\ Occurs(p, SlashDot, i)  BY Strstr, Zenon
<1> HIDE DEF i
<1>2. SlashDot \in Seq(Char) /\ Len(SlashDot) = 3  BY Chars DEF SlashDot
<1>3. i \in Int /\ i + 3 - 1 = i + 2 /\ Len(p) \in Nat  BY <1>1
<1>4. i + 2 <= Len(p) /\ p[i] = "/" /\ p[i + 2] = "/"  BY <1>1, <1>3, OccursSlashDot, Zenon
<1>5. i + 2 \in i + 1 .. Len(p)  BY <1>3, <1>4
<1>6. SubSeq(p, i, i + Len(SlashDot) - 1) = SlashDot  BY <1>1, <1>2, OccursPart, Zenon
<1>7. SubSeq(p, i, i + 2) = SlashDot  BY <1>2, <1>3, <1>6, Zenon
<1>8. Removable(p, i, i + 2)  BY <1>1, <1>4, <1>5, <1>7, WalkedSlashDot, Zenon DEF Removable
<1> QED  BY <1>2, <1>3, <1>8, Zenon DEF i

\* the pass for "//" too,
LEMMA TurnSlash ==
  ASSUME NEW p \in Seq(Char), strstr(p, SlashSlash) # 0
  PROVE  Removable(p, strstr(p, SlashSlash), strstr(p, SlashSlash) + Len(SlashSlash) - 1)
<1> DEFINE i == strstr(p, SlashSlash)
<1>1. i \in 1 .. Len(p) /\ Occurs(p, SlashSlash, i)  BY Strstr, Zenon
<1> HIDE DEF i
<1>2. SlashSlash \in Seq(Char) /\ Len(SlashSlash) = 2  BY Chars DEF SlashSlash
<1>3. i \in Int /\ i + 2 - 1 = i + 1 /\ Len(p) \in Nat  BY <1>1
<1>4. i + 1 <= Len(p) /\ p[i] = "/" /\ p[i + 1] = "/"  BY <1>1, <1>3, OccursSlashSlash, Zenon
<1>5. i + 1 \in i + 1 .. Len(p)  BY <1>3, <1>4
<1>6. SubSeq(p, i, i + Len(SlashSlash) - 1) = SlashSlash  BY <1>1, <1>2, OccursPart, Zenon
<1>7. SubSeq(p, i, i + 1) = SlashSlash  BY <1>2, <1>3, <1>6, Zenon
<1>8. Removable(p, i, i + 1)  BY <1>1, <1>4, <1>5, <1>7, WalkedSlashSlash, Zenon DEF Removable
<1> QED  BY <1>2, <1>3, <1>8, Zenon DEF i

\* The component before "/../" is a name: the passes before have removed "//" and
\* "/./", and there is no "/../" further to the left.
LEMMA TurnUp ==
  ASSUME NEW p \in Seq(Char), p[1] = "/", strstr(p, SlashDot) = 0, strstr(p, SlashSlash) = 0,
         strstr(p, SlashDotDot) \notin {0, 1}
  PROVE  Removable(p, p_start(p, strstr(p, SlashDotDot)), strstr(p, SlashDotDot) + 3)
<1> DEFINE i == strstr(p, SlashDotDot)
           k == p_start(p, i)
           n == Len(p)
           name == SubSeq(p, k + 1, i - 1)
<1>1. /\ i \in 1 .. n /\ Occurs(p, SlashDotDot, i)
      /\ \A j \in 1 .. n : Occurs(p, SlashDotDot, j) => i <= j
  BY Strstr, Zenon
<1>2. i # 1  OBVIOUS
<1> HIDE DEF i
<1>3. i \in 2 .. n /\ i \in Int /\ n \in Nat  BY <1>1, <1>2
<1>4. /\ i + 3 <= n /\ p[i] = "/" /\ p[i + 1] = "." /\ p[i + 2] = "." /\ p[i + 3] = "/"
  BY <1>1, <1>3, OccursSlashDotDot, Zenon
<1>5. k \in 1 .. i - 1 /\ p[k] = "/" /\ \A l \in k + 1 .. i - 1 : p[l] # "/"
  BY <1>3, PStart, Zenon
<1> HIDE DEF k, n
<1>6. /\ k \in Int /\ k \in 1 .. n /\ i + 3 \in k + 1 .. n /\ k < i /\ i <= n
  BY <1>3, <1>4, <1>5
<1>7. /\ name \in Seq(Char) /\ Len(name) = i - 1 - k
      /\ \A l \in 1 .. i - 1 - k : name[l] = p[k + l]
  BY <1>3, <1>5, <1>6 DEF n
<1> HIDE DEF name
<1>8. IsWord(name)
  <2>1. ASSUME NEW l \in 1 .. i - 1 - k PROVE k + l \in k + 1 .. i - 1  BY <1>3, <1>6
  <2> QED  BY <1>5, <1>7, <2>1, Zenon DEF IsWord
<1>9. name # <<>>
  <2> SUFFICES ASSUME name = <<>> PROVE FALSE  OBVIOUS
  <2>1. Len(name) = 0  OBVIOUS
  <2>2. k + 1 = i /\ k + 1 <= n  BY <1>3, <1>6, <1>7, <2>1
  <2>3. Occurs(p, SlashSlash, k)  BY <1>4, <1>5, <1>6, <2>2, OccursSlashSlash, Zenon DEF n
  <2> QED  BY <1>6, <2>3, Strstr DEF n
<1>10. name # Here
  <2> SUFFICES ASSUME name = Here PROVE FALSE  OBVIOUS
  <2>1. Len(name) = 1 /\ name[1] = "."  BY DEF Here
  <2>2. i - 1 - k = 1  BY <1>7, <2>1, Zenon
  <2>3. k + 2 = i /\ k + 2 <= n /\ 1 \in 1 .. i - 1 - k  BY <1>3, <1>6, <2>2
  <2>4. p[k + 1] = "."  BY <1>7, <2>1, <2>3, Zenon
  <2>5. Occurs(p, SlashDot, k)  BY <1>4, <1>5, <1>6, <2>3, <2>4, OccursSlashDot, Zenon DEF n
  <2> QED  BY <1>6, <2>5, Strstr DEF n
<1>11. name # Up
  <2> SUFFICES ASSUME name = Up PROVE FALSE  OBVIOUS
  <2>1. Len(name) = 2 /\ name[1] = "." /\ name[2] = "."  BY DEF Up
  <2>2. i - 1 - k = 2  BY <1>7, <2>1, Zenon
  <2>3. k + 3 = i /\ k + 3 <= n /\ 1 \in 1 .. i - 1 - k /\ 2 \in 1 .. i - 1 - k
    BY <1>3, <1>6, <2>2
  <2>4. p[k + 1] = "." /\ p[k + 2] = "."  BY <1>7, <2>1, <2>3, Zenon
  <2>5. Occurs(p, SlashDotDot, k)
    BY <1>4, <1>5, <1>6, <2>3, <2>4, OccursSlashDotDot, Zenon DEF n
  <2>6. i <= k  BY <1>1, <1>6, <2>5, Zenon DEF n
  <2> QED  BY <1>3, <1>6, <2>6
<1>12. SubSeq(p, k, i + 3) = (Slash \o name) \o SlashDotDot
  <2> DEFINE m == SubSeq(p, k, i + 3)
             a == Slash \o name
             b == a \o SlashDotDot
  <2>1. Slash \in Seq(Char) /\ Len(Slash) = 1 /\ Slash[1] = "/"  BY Chars DEF Slash
  <2>2. /\ SlashDotDot \in Seq(Char) /\ Len(SlashDotDot) = 4
        /\ SlashDotDot[1] = "/" /\ SlashDotDot[2] = "." /\ SlashDotDot[3] = "." /\ SlashDotDot[4] = "/"
    BY Chars DEF SlashDotDot
  <2>3. /\ m \in Seq(Char) /\ Len(m) = i - k + 4
        /\ \A l \in 1 .. i - k + 4 : m[l] = p[k + l - 1]
    BY <1>3, <1>6 DEF n
  <2>4. /\ a \in Seq(Char) /\ Len(a) = Len(Slash) + Len(name)
        /\ \A l \in 1 .. Len(Slash) : a[l] = Slash[l]
        /\ \A l \in 1 .. Len(name) : a[Len(Slash) + l] = name[l]
    BY <1>7, <2>1, ConcatIs, Zenon
  <2>5. /\ b \in Seq(Char) /\ Len(b) = Len(a) + Len(SlashDotDot)
        /\ \A l \in 1 .. Len(a) : b[l] = a[l]
        /\ \A l \in 1 .. Len(SlashDotDot) : b[Len(a) + l] = SlashDotDot[l]
    <3> HIDE DEF a
    <3> QED  BY <2>2, <2>4, ConcatIs, Zenon
  <2> HIDE DEF m, a, b
  <2>6. Len(a) = i - k /\ Len(b) = i - k + 4 /\ i - k \in Nat /\ i - k >= 1
    BY <1>3, <1>6, <1>7, <2>1, <2>2, <2>4, <2>5
  <2>7. ASSUME NEW l \in 1 .. Len(m) PROVE m[l] = b[l]
    <3>1. m[l] = p[k + l - 1]  BY <2>3, Zenon
    <3>2. l \in Int /\ 1 <= l /\ l <= i - k + 4  BY <2>3, <2>6
    <3>3. CASE l = 1
      <4>1. k + 1 - 1 = k /\ 1 \in 1 .. Len(a) /\ 1 \in 1 .. Len(Slash)  BY <1>6, <2>1, <2>6
      <4> QED  BY <1>5, <2>1, <2>4, <2>5, <3>1, <3>3, <4>1, Zenon
    <3>4. CASE 1 < l /\ l <= i - k
      <4> DEFINE h == l - 1
      <4>1. /\ h \in 1 .. i - 1 - k /\ k + l - 1 = k + h /\ 1 + h = l /\ l \in 1 .. Len(a)
        BY <1>3, <1>6, <2>6, <3>2, <3>4
      <4> HIDE DEF h
      <4>2. b[l] = a[l]  BY <2>5, <4>1, Zenon
      <4>3. a[1 + h] = name[h]  BY <1>7, <2>1, <2>4, <4>1, Zenon
      <4>4. name[h] = p[k + h]  BY <1>7, <4>1, Zenon
      <4> QED  BY <3>1, <4>1, <4>2, <4>3, <4>4, Zenon
    <3>5. CASE l > i - k
      <4> DEFINE h == l - (i - k)
      <4>1. /\ h = 1 \/ h = 2 \/ h = 3 \/ h = 4
            /\ h \in 1 .. 4 /\ (i - k) + h = l /\ k + l - 1 = i + (h - 1)
        BY <1>3, <1>6, <2>6, <3>2, <3>5
      <4> HIDE DEF h
      <4>2. b[(i - k) + h] = SlashDotDot[h]  BY <2>2, <2>5, <2>6, <4>1, Zenon
      <4>3. p[i + (h - 1)] = SlashDotDot[h]
        <5>1. 1 - 1 = 0 /\ 2 - 1 = 1 /\ 3 - 1 = 2 /\ 4 - 1 = 3 /\ i + 0 = i  BY <1>3
        <5> QED  BY <1>4, <2>2, <4>1, <5>1
      <4> QED  BY <3>1, <4>1, <4>2, <4>3, Zenon
    <3>6. l = 1 \/ (1 < l /\ l <= i - k) \/ l > i - k  BY <2>6, <3>2
    <3> QED  BY <3>3, <3>4, <3>5, <3>6, Zenon
  <2>8. m = b  BY <2>3, <2>5, <2>6, <2>7, SeqEq, Zenon
  <2> QED  BY <2>8, Zenon DEF m, a, b
<1>13. \A x \in Walker : Walked(x, SubSeq(p, k, i + 3)) = Enter(x)
  BY <1>7, <1>8, <1>9, <1>10, <1>11, <1>12, WalkedNameUp, Zenon
<1> QED  BY <1>4, <1>5, <1>6, <1>13, Zenon DEF Removable, i, k, n
----------------------------------------------------------------------------
\* The mount lookup.
LEMMA MountType ==
  ASSUME NEW i \in DOMAIN Mounts
  PROVE  /\ Mounts[i] \in Seq(Char) /\ Mounts[i] # <<>>
         /\ Walk(Mounts[i]).dir \in Seq(Seq(Char)) /\ Mounts[i] = Spell(Walk(Mounts[i]).dir)
<1>1. Mounts[i] \in Seq(Char)  BY PathsAssumption
<1>2. Mounts[i] # <<>> /\ Mounts[i] = Spell(Walk(Mounts[i]).dir)  BY PathsAssumption, Zenon
<1>3. Walk(Mounts[i]) \in Walker  BY <1>1, StartType, WalkedType, EnterType, Zenon DEF Walk
<1>4. Walk(Mounts[i]).dir \in Seq(Seq(Char))  BY <1>3 DEF Walker
<1> QED  BY <1>1, <1>2, <1>4, Zenon

\* To stand at the first place is to begin the path.
LEMMA OccursHead ==
  ASSUME NEW T, NEW p \in Seq(T), NEW m \in Seq(T)
  PROVE  Occurs(p, m, 1) <=> IsHead(m, p)
<1>1. Len(m) \in Nat /\ Len(p) \in Nat  OBVIOUS
<1>2. 1 + Len(m) - 1 = Len(m)  BY <1>1
<1>3. \A k \in 1 .. Len(m) : 1 + k - 1 = k  BY <1>1
<1> QED  BY <1>2, <1>3, Zenon DEF Occurs, IsHead

\* strstr finds a string at the very beginning exactly if it begins p.
LEMMA StrstrHead ==
  ASSUME NEW p \in Seq(Char), NEW m \in Seq(Char), p # <<>>
  PROVE  strstr(p, m) = 1 <=> IsHead(m, p)
<1>1. 1 \in 1 .. Len(p) /\ 0 \notin 1 .. Len(p)  OBVIOUS
<1>2. ASSUME strstr(p, m) = 1 PROVE Occurs(p, m, 1)  BY <1>2, Strstr
<1>3. ASSUME Occurs(p, m, 1) PROVE strstr(p, m) = 1
  <2>1. strstr(p, m) \in 1 .. Len(p) /\ strstr(p, m) <= 1  BY <1>1, <1>3, Strstr, Zenon
  <2> QED  BY <2>1
<1> QED  BY <1>2, <1>3, OccursHead, Zenon

\* What a mount is given leads, from that mount on, where p leads.
LEMMA StripWalk ==
  ASSUME NEW p \in Seq(Char), NEW m \in Seq(Char), IsHead(m, p)
  PROVE  strip(p, m) \in Seq(Char) /\ Walk(m \o strip(p, m)) = Walk(p)
<1> DEFINE b == SubSeq(p, Len(m) + 1, Len(p))
<1>1. p = m \o b /\ b \in Seq(Char)  BY HeadSplit, Zenon
<1>2. CASE Len(p) = Len(m)
  <2>1. strip(p, m) = Slash /\ Slash \in Seq(Char)  BY <1>2, Chars DEF strip, Slash
  <2>2. p = m
    <3>1. \A k \in 1 .. Len(m) : m[k] = p[k]  BY Zenon DEF IsHead
    <3> QED  BY <1>2, <3>1, SeqEq, Zenon
  <2>3. Walked(Start, m \o Slash) = Enter(Walked(Start, m))
    <3>1. Walked(Start, m \o Slash) = Walked(Walked(Start, m), Slash)
      BY <2>1, WalkedConcat, Zenon
    <3> QED  BY <3>1, WalkedSlash, Zenon
  <2>4. Walked(Start, m) \in Walker  BY StartType, WalkedType, Zenon
  <2> QED  BY <2>1, <2>2, <2>3, <2>4, EnterEnter, Zenon DEF Walk
<1>3. CASE Len(p) # Len(m)
  <2>1. strip(p, m) = b  BY <1>3, Zenon DEF strip
  <2> QED  BY <1>1, <2>1, Zenon
<1> QED  BY <1>2, <1>3, Zenon

\* m begins p, and what follows begins with a slash.
Bounds(m, p) == IsHead(m, p) /\ (Len(m) < Len(p) => p[Len(m) + 1] = "/")

\* What begins a path up to a slash begins every longer one so.
LEMMA BoundsBelow ==
  ASSUME NEW m \in Seq(Char), NEW s \in Seq(Char), NEW name \in Seq(Char), Bounds(m, s)
  PROVE  Bounds(m, Below(s, name))
<1> DEFINE p == Below(s, name)
<1>1. /\ p \in Seq(Char) /\ Len(p) = Len(s) + 1 + Len(name) /\ p[Len(s) + 1] = "/"
      /\ \A k \in 1 .. Len(s) : p[k] = s[k]
  BY BelowIs, Zenon
<1> HIDE DEF p
<1>2. Len(m) \in Nat /\ Len(s) \in Nat /\ Len(name) \in Nat  OBVIOUS
<1>3. /\ Len(m) <= Len(s) /\ \A k \in 1 .. Len(m) : m[k] = s[k]
      /\ Len(m) < Len(s) => s[Len(m) + 1] = "/"
  BY Zenon DEF Bounds, IsHead
<1>4. Len(m) <= Len(p)  BY <1>1, <1>2, <1>3
<1>5. \A k \in 1 .. Len(m) : k \in 1 .. Len(s)  BY <1>2, <1>3
<1>6. IsHead(m, p)  BY <1>1, <1>3, <1>4, <1>5, Zenon DEF IsHead
<1>7. p[Len(m) + 1] = "/"
  <2>1. Len(m) = Len(s) \/ (Len(m) < Len(s) /\ Len(m) + 1 \in 1 .. Len(s))  BY <1>2, <1>3
  <2> QED  BY <1>1, <1>3, <2>1, Zenon
<1> QED  BY <1>6, <1>7, Zenon DEF Bounds, p

\* The spelling of a directory begins with those of the directories above it.
LEMMA SpellUnder ==
  ASSUME NEW d \in Seq(Seq(Char)), NEW top \in Seq(Seq(Char)), Under(d, top)
  PROVE  Bounds(Spell(top), Spell(d))
<1> DEFINE S == {r \in Seq(Seq(Char)) : Bounds(Spell(top), Spell(top \o r))}
<1>1. Spell(top) \in Seq(Char)  BY SpellType, Zenon
<1>2. <<>> \in S
  <2>1. top \o <<>> = top /\ <<>> \in Seq(Seq(Char))  OBVIOUS
  <2> DEFINE t == Spell(top)
  <2>2. t \in Seq(Char)  BY <1>1, Zenon
  <2> HIDE DEF t
  <2>3. Bounds(t, t)  BY <2>2 DEF Bounds, IsHead
  <2> QED  BY <2>1, <2>3, Zenon DEF t
<1>3. ASSUME NEW r \in Seq(Seq(Char)), NEW c \in Seq(Char), r \in S PROVE Append(r, c) \in S
  <2>1. /\ Append(r, c) \in Seq(Seq(Char)) /\ top \o r \in Seq(Seq(Char))
        /\ top \o Append(r, c) = Append(top \o r, c)
    OBVIOUS
  <2>2. Spell(top \o Append(r, c)) = Below(Spell(top \o r), c)  BY <2>1, SpellAppend, Zenon
  <2>3. Spell(top \o r) \in Seq(Char) /\ Bounds(Spell(top), Spell(top \o r))
    BY <1>3, <2>1, SpellType, Zenon
  <2>4. Bounds(Spell(top), Below(Spell(top \o r), c))  BY <1>1, <2>3, BoundsBelow, Zenon
  <2> QED  BY <2>1, <2>2, <2>4, Zenon
<1>4. Seq(Seq(Char)) \subseteq S
  <2> HIDE DEF S
  <2> QED  BY <1>2, <1>3, SeqInduction, Zenon
<1>5. IsHead(top, d)  BY OccursHead, Zenon DEF Under
<1>6. \E r \in Seq(Seq(Char)) : d = top \o r
  <2> DEFINE r == SubSeq(d, Len(top) + 1, Len(d))
  <2>1. Len(top) <= Len(d) /\ \A k \in 1 .. Len(top) : top[k] = d[k]  BY <1>5, Zenon DEF IsHead
  <2>2. /\ r \in Seq(Seq(Char)) /\ Len(r) = Len(d) - Len(top)
        /\ \A k \in 1 .. Len(d) - Len(top) : r[k] = d[Len(top) + k]
    BY <2>1
  <2> HIDE DEF r
  <2>3. Len(d) = Len(top) + Len(r)  BY <2>1, <2>2
  <2>4. d = top \o r  BY <2>1, <2>2, <2>3, ConcatOf, Zenon
  <2> QED  BY <2>2, <2>4, Zenon
<1> QED  BY <1>4, <1>6, Zenon

\* The same for the spelling of a walker and the directory it leads to.
LEMMA SpelledUnder ==
  ASSUME NEW w \in Walker, ~Enter(w).past, NEW top \in Seq(Seq(Char)), Under(Enter(w).dir, top)
  PROVE  Bounds(Spell(top), Spelled(w))
<1> DEFINE d == w.dir
           cur == w.cur
           e == Enter(w).dir
<1>1. d \in Seq(Seq(Char)) /\ cur \in Seq(Char)  BY DEF Walker
<1>2. e \in Seq(Seq(Char))
  <2>1. Enter(w) \in Walker  BY EnterType, Zenon
  <2> QED  BY <2>1 DEF Walker
<1>3. Bounds(Spell(top), Spell(e))  BY <1>2, SpellUnder, Zenon
<1>4. Spell(e) \in Seq(Char) /\ Spell(top) \in Seq(Char) /\ Spell(d) \in Seq(Char)
  BY <1>1, <1>2, SpellType, Zenon
<1>5. Spelled(w) = Below(Spell(d), cur)  BY Zenon DEF Spelled
<1>6. CASE cur \in {<<>>, Here}
  <2>1. e = d  BY <1>6 DEF Enter
  <2> QED  BY <1>1, <1>3, <1>4, <1>5, <2>1, BoundsBelow, Zenon
<1>7. CASE cur \notin {<<>>, Here, Up}
  <2>1. e = Append(d, cur)  BY <1>7 DEF Enter
  <2>2. Spell(e) = Spelled(w)  BY <1>1, <1>5, <2>1, SpellAppend, Zenon
  <2> QED  BY <1>3, <2>2, Zenon
<1>8. CASE cur = Up
  <2>1. cur \notin {<<>>, Here}  BY <1>8, DotsAppend, Zenon
  <2>2. d # <<>>
    <3> SUFFICES ASSUME d = <<>> PROVE FALSE  OBVIOUS
    <3>1. Enter(w) = [dir |-> <<>>, cur |-> <<>>, past |-> TRUE]  BY <1>8, <2>1, Zenon DEF Enter
    <3> QED  BY <3>1
  <2>3. e = SubSeq(d, 1, Len(d) - 1)  BY <1>8, <2>1, <2>2 DEF Enter
  <2>4. d = Append(SubSeq(d, 1, Len(d) - 1), d[Len(d)]) /\ d[Len(d)] \in Seq(Char)
    BY <1>1, <2>2, FrontLast, Zenon
  <2>5. d = Append(e, d[Len(d)])  BY <2>3, <2>4, Zenon
  <2>6. Spell(d) = Below(Spell(e), d[Len(d)])  BY <1>2, <2>4, <2>5, SpellAppend, Zenon
  <2>7. Bounds(Spell(top), Spell(d))  BY <1>3, <1>4, <2>4, <2>6, BoundsBelow, Zenon
  <2> QED  BY <1>1, <1>4, <1>5, <2>7, BoundsBelow, Zenon
<1> QED  BY <1>6, <1>7, <1>8, Zenon

\* A mount path has more than one character.
LEMMA SpellSlash ==
  ASSUME NEW d \in Seq(Seq(Char)), Spell(d) # <<>>
  PROVE  Spell(d)[1] = "/"
<1> DEFINE S == {e \in Seq(Seq(Char)) : Spell(e) # <<>> => Spell(e)[1] = "/"}
<1>1. <<>> \in S
  <2>1. <<>> \in Seq(Seq(Char))  OBVIOUS
  <2> QED  BY <2>1, SpellEmpty, Zenon
<1>2. ASSUME NEW e \in Seq(Seq(Char)), NEW c \in Seq(Char), e \in S PROVE Append(e, c) \in S
  <2>1. Append(e, c) \in Seq(Seq(Char))  OBVIOUS
  <2> DEFINE s == Spell(e)
  <2>2. s \in Seq(Char) /\ (s # <<>> => s[1] = "/")  BY <1>2, SpellType, Zenon
  <2>3. Spell(Append(e, c)) = Below(s, c)  BY SpellAppend, Zenon
  <2> HIDE DEF s
  <2>4. Below(s, c)[1] = "/"
    <3>1. Below(s, c)[Len(s) + 1] = "/" /\ \A k \in 1 .. Len(s) : Below(s, c)[k] = s[k]
      BY <2>2, BelowIs, Zenon
    <3>2. (s = <<>> /\ Len(s) + 1 = 1) \/ (s # <<>> /\ 1 \in 1 .. Len(s))  BY <2>2
    <3> QED  BY <2>2, <3>1, <3>2, Zenon
  <2> QED  BY <2>1, <2>3, <2>4, Zenon
<1>3. Seq(Seq(Char)) \subseteq S
  <2> HIDE DEF S
  <2> QED  BY <1>1, <1>2, SeqInduction, Zenon
<1> QED  BY <1>3, Zenon

\* No mount path is as short as a slash.
LEMMA MountLong ==
  ASSUME NEW i \in DOMAIN Mounts
  PROVE  Len(Mounts[i]) > 1
<1> DEFINE m == Mounts[i]
           d == Walk(m).dir
<1>1. m \in Seq(Char) /\ m # <<>> /\ d \in Seq(Seq(Char)) /\ m = Spell(d)  BY MountType, Zenon
<1> HIDE DEF m
<1>2. m[1] = "/"  BY <1>1, SpellSlash, Zenon
<1> SUFFICES ASSUME Len(m) <= 1 PROVE FALSE  BY <1>1 DEF m
<1>3. Len(m) = 1
  <2> HIDE DEF d
  <2>1. Len(m) \in Nat /\ Len(m) # 0  BY <1>1
  <2> QED  BY <2>1
<1>4. m = Slash
  <2>1. Slash \in Seq(Char) /\ Len(Slash) = 1 /\ Slash[1] = "/"  BY Chars DEF Slash
  <2>2. \A k \in 1 .. 1 : k = 1  OBVIOUS
  <2>3. \A k \in 1 .. Len(m) : m[k] = Slash[k]  BY <1>2, <1>3, <2>1, <2>2, Zenon
  <2> QED  BY <1>1, <1>3, <2>1, <2>3, SeqEq, Zenon
<1>5. Walk(Slash) = Enter(Enter(Start))  BY WalkedSlash, Zenon DEF Walk
<1>6. Enter(Start) = Start  BY DEF Enter, Start
<1>7. d = <<>>  BY <1>4, <1>5, <1>6 DEF Start
<1> QED  BY <1>1, <1>7, SpellEmpty, Zenon

\* Two beginnings of one string: the shorter begins the longer.
LEMMA HeadsNest ==
  ASSUME NEW p \in Seq(Char), NEW m \in Seq(Char), NEW q \in Seq(Char), IsHead(m, p), IsHead(q, p)
  PROVE  IsHead(m, q) \/ IsHead(q, m)
<1>1. Len(m) \in Nat /\ Len(q) \in Nat  OBVIOUS
<1>2. CASE Len(m) <= Len(q)
  <2>1. \A k \in 1 .. Len(m) : k \in 1 .. Len(q)  BY <1>1, <1>2
  <2> QED  BY <1>2, <2>1, Zenon DEF IsHead
<1>3. CASE Len(q) <= Len(m)
  <2>1. \A k \in 1 .. Len(q) : k \in 1 .. Len(m)  BY <1>1, <1>3
  <2> QED  BY <1>3, <2>1, Zenon DEF IsHead
<1> QED  BY <1>1, <1>2, <1>3
----------------------------------------------------------------------------
\* The inductive invariant: what the loops that are done have left, and that
\* the string still leads where the caller's path leads.
Working == {"dot", "slash", "dotdot", "lookup"}

PathType ==
  /\ given \in Seq(Char) /\ path \in Seq(Char)
  /\ pc \in Working \cup {"call", "null", "done"}
  /\ pc # "done" => mount = 0
  /\ pc \in Working => given # <<>> /\ path # <<>> /\ path[1] = "/"

PassesDone ==
  /\ pc \in {"slash", "dotdot", "lookup"} => strstr(path, SlashDot) = 0
  /\ pc \in {"dotdot", "lookup"} => strstr(path, SlashSlash) = 0
  /\ pc = "lookup" => strstr(path, SlashDotDot) \in {0, 1}

PathsInv == PathType /\ PassesDone /\ SameWalk /\ ServedWalk /\ UnderMountServed

\* The invariant holds when the call begins.
LEMMA PathsInvInit == PathInit => PathsInv
<1> SUFFICES ASSUME PathInit PROVE PathsInv  OBVIOUS
<1>1. PICK n \in 0 .. MaxLen : given \in [1 .. n -> Char]  BY Zenon DEF PathInit
<1>2. given \in Seq(Char)
  <2>1. n \in Nat  BY PathsAssumption
  <2> QED  BY <1>1, <2>1
<1>3. path = <<>> /\ pc = "call" /\ mount = 0  BY Zenon DEF PathInit
<1>4. path \in Seq(Char)  BY <1>3
<1> QED
  BY <1>2, <1>3, <1>4 DEF PathsInv, PathType, PassesDone, SameWalk, ServedWalk, UnderMountServed, Working

\* The path that resolve_path works on is absolute.
LEMMA AbsoluteType ==
  ASSUME NEW p \in Seq(Char), p # <<>>
  PROVE  absolute(p) \in Seq(Char) /\ absolute(p) # <<>> /\ absolute(p)[1] = "/"
<1>1. CASE p[1] = "/"  BY <1>1, Zenon DEF absolute
<1>2. CASE p[1] # "/"
  <2> DEFINE c == Cwd \o Slash
  <2>1. Slash \in Seq(Char) /\ Cwd \in Seq(Char) /\ Cwd # <<>> /\ Cwd[1] = "/"  BY Chars DEF Slash
  <2>2. 1 \in 1 .. Len(Cwd) /\ Len(Cwd) \in Nat  BY <2>1
  <2>3. c \in Seq(Char) /\ c[1] = "/" /\ Len(c) = Len(Cwd) + Len(Slash)  BY <2>1, <2>2, ConcatIs, Zenon
  <2>4. 1 \in 1 .. Len(c)  BY <2>1, <2>2, <2>3 DEF Slash
  <2> HIDE DEF c
  <2>5. c \o p \in Seq(Char) /\ (c \o p)[1] = "/" /\ Len(c \o p) = Len(c) + Len(p)
    BY <2>3, <2>4, ConcatIs, Zenon
  <2>6. c \o p # <<>>  BY <2>3, <2>4, <2>5
  <2>7. absolute(p) = c \o p  BY <1>2, Zenon DEF absolute, c
  <2> QED  BY <2>5, <2>6, <2>7, Zenon
<1> QED  BY <1>1, <1>2, Zenon

\* A turn of any of the loops, and its end.
LEMMA TurnStep ==
  ASSUME PathsInv, pc \in Working, pc' = pc, UNCHANGED <<given, mount>>,
         pc \in {"dot", "slash", "dotdot"},
         NEW i, NEW j, Removable(path, i, j), path' = Cut(path, i, j)
  PROVE  PathsInv' /\ Len(path') < Len(path)
<1>1. path \in Seq(Char) /\ path[1] = "/" /\ given # <<>>  BY Zenon DEF PathsInv, PathType
<1>2. /\ path' \in Seq(Char) /\ path' # <<>> /\ path'[1] = "/"
      /\ Len(path') < Len(path)
      /\ Walked(Start, path') = Walked(Start, path)
      /\ strstr(path, SlashSlash) = 0 => strstr(path', SlashSlash) = 0
      /\ strstr(path, SlashDot) = 0 => strstr(path', SlashDot) = 0
  BY <1>1, Turn, Zenon
<1>3. PathType'  BY <1>1, <1>2 DEF PathsInv, PathType
<1>4. PassesDone'  BY <1>2 DEF PathsInv, PassesDone
<1>5. SameWalk'
  <2>1. Walked(Start, path) = Walked(Start, absolute(given))  BY Zenon DEF PathsInv, SameWalk, Working
  <2>2. given' = given  OBVIOUS
  <2> QED  BY <1>2, <2>1, <2>2 DEF SameWalk
<1>6. ServedWalk' /\ UnderMountServed'  BY DEF ServedWalk, UnderMountServed
<1> QED  BY <1>2, <1>3, <1>4, <1>5, <1>6, Zenon DEF PathsInv

\* The last turn of a loop leaves the string as it is.
LEMMA EndStep ==
  ASSUME PathsInv, UNCHANGED <<given, path, mount>>, pc \in {"dot", "slash", "dotdot"},
         pc' \in {"slash", "dotdot", "lookup"}, PassesDone'
  PROVE  PathsInv'
<1>1. PathType'  BY DEF PathsInv, PathType, Working
<1>2. SameWalk'  BY DEF PathsInv, SameWalk
<1>3. ServedWalk' /\ UnderMountServed'  BY DEF ServedWalk, UnderMountServed
<1> QED  BY <1>1, <1>2, <1>3, Zenon DEF PathsInv

\* make_absolute keeps the invariant,
LEMMA MakeAbsoluteStep ==
  ASSUME PathsInv, make_absolute
  PROVE  PathsInv'
<1>1. /\ given \in Seq(Char) /\ path \in Seq(Char) /\ mount = 0 /\ given' = given /\ mount' = mount
      /\ pc = "call"
  BY DEF PathsInv, PathType, make_absolute
<1>2. CASE given = <<>> /\ pc' = "null" /\ path' = path
  BY <1>1, <1>2
    DEF PathsInv, PathType, PassesDone, SameWalk, ServedWalk, UnderMountServed, Working
<1>3. CASE given # <<>> /\ pc' = "dot" /\ path' = absolute(given)
  <2>1. path' \in Seq(Char) /\ path' # <<>> /\ path'[1] = "/"  BY <1>1, <1>3, AbsoluteType, Zenon
  <2>2. PathType'  BY <1>1, <1>3, <2>1 DEF PathType, Working
  <2>3. PassesDone' /\ ServedWalk' /\ UnderMountServed'
    BY <1>3 DEF PassesDone, ServedWalk, UnderMountServed
  <2>4. SameWalk'  BY <1>1, <1>3 DEF SameWalk
  <2> QED  BY <2>2, <2>3, <2>4, Zenon DEF PathsInv
<1> QED  BY <1>2, <1>3, Zenon DEF make_absolute

\* the pass for "/./" keeps it and shortens the string,
LEMMA DotStep ==
  ASSUME PathsInv, remove_path_string(SlashDot, "dot", "slash")
  PROVE  PathsInv' /\ (pc' = pc => Len(path') < Len(path))
<1> DEFINE i == strstr(path, SlashDot)
<1>1. pc = "dot" /\ UNCHANGED <<given, mount>> /\ path \in Seq(Char)
  BY DEF remove_path_string, PathsInv, PathType
<1>2. \/ i = 0 /\ pc' = "slash" /\ path' = path
      \/ i # 0 /\ pc' = pc /\ path' = Cut(path, i, i + Len(SlashDot) - 1)
  BY Zenon DEF remove_path_string
<1>3. CASE i = 0 /\ pc' = "slash" /\ path' = path
  <2>1. PassesDone'  BY <1>3 DEF PassesDone
  <2>2. pc' # pc  BY <1>1, <1>3
  <2> QED  BY <1>1, <1>3, <2>1, <2>2, EndStep
<1>4. CASE i # 0 /\ pc' = pc /\ path' = Cut(path, i, i + Len(SlashDot) - 1)
  <2>1. Removable(path, i, i + Len(SlashDot) - 1)  BY <1>1, <1>4, TurnDot, Zenon
  <2> HIDE DEF i
  <2>2. pc \in Working /\ pc \in {"dot", "slash", "dotdot"}  BY <1>1 DEF Working
  <2> QED  BY <1>1, <1>4, <2>1, <2>2, TurnStep, Zenon
<1> QED  BY <1>2, <1>3, <1>4, Zenon

\* the pass for "//" too,
LEMMA SlashStep ==
  ASSUME PathsInv, remove_path_string(SlashSlash, "slash", "dotdot")
  PROVE  PathsInv' /\ (pc' = pc => Len(path') < Len(path))
<1> DEFINE i == strstr(path, SlashSlash)
<1>1. pc = "slash" /\ UNCHANGED <<given, mount>> /\ path \in Seq(Char)
  BY DEF remove_path_string, PathsInv, PathType
<1>2. \/ i = 0 /\ pc' = "dotdot" /\ path' = path
      \/ i # 0 /\ pc' = pc /\ path' = Cut(path, i, i + Len(SlashSlash) - 1)
  BY Zenon DEF remove_path_string
<1>3. CASE i = 0 /\ pc' = "dotdot" /\ path' = path
  <2>1. PassesDone'  BY <1>1, <1>3 DEF PathsInv, PassesDone
  <2>2. pc' # pc  BY <1>1, <1>3
  <2> QED  BY <1>1, <1>3, <2>1, <2>2, EndStep
<1>4. CASE i # 0 /\ pc' = pc /\ path' = Cut(path, i, i + Len(SlashSlash) - 1)
  <2>1. Removable(path, i, i + Len(SlashSlash) - 1)  BY <1>1, <1>4, TurnSlash, Zenon
  <2> HIDE DEF i
  <2>2. pc \in Working /\ pc \in {"dot", "slash", "dotdot"}  BY <1>1 DEF Working
  <2> QED  BY <1>1, <1>4, <2>1, <2>2, TurnStep, Zenon
<1> QED  BY <1>2, <1>3, <1>4, Zenon

\* and remove_dot_dot,
LEMMA UpStep ==
  ASSUME PathsInv, remove_dot_dot("dotdot", "lookup")
  PROVE  PathsInv' /\ (pc' = pc => Len(path') < Len(path))
<1> DEFINE i == strstr(path, SlashDotDot)
<1>1. /\ pc = "dotdot" /\ UNCHANGED <<given, mount>> /\ path \in Seq(Char) /\ path[1] = "/"
      /\ strstr(path, SlashDot) = 0 /\ strstr(path, SlashSlash) = 0
  BY DEF remove_dot_dot, PathsInv, PathType, PassesDone, Working
<1>2. \/ i \in {0, 1} /\ pc' = "lookup" /\ path' = path
      \/ i > 1 /\ pc' = pc /\ path' = Cut(path, p_start(path, i), i + 3)
  BY Zenon DEF remove_dot_dot
<1>3. CASE i \in {0, 1} /\ pc' = "lookup" /\ path' = path
  <2>1. PassesDone'  BY <1>1, <1>3 DEF PassesDone
  <2>2. pc' # pc  BY <1>1, <1>3
  <2> QED  BY <1>1, <1>3, <2>1, <2>2, EndStep
<1>4. CASE i > 1 /\ pc' = pc /\ path' = Cut(path, p_start(path, i), i + 3)
  <2>1. i \notin {0, 1}  BY <1>4
  <2>2. Removable(path, p_start(path, i), i + 3)  BY <1>1, <2>1, TurnUp, Zenon
  <2> HIDE DEF i
  <2>3. pc \in Working /\ pc \in {"dot", "slash", "dotdot"}  BY <1>1 DEF Working
  <2> QED  BY <1>1, <1>4, <2>2, <2>3, TurnStep, Zenon
<1> QED  BY <1>2, <1>3, <1>4, Zenon
\* What resolve_path returns.
LEMMA Resolved ==
  ASSUME PathsInv, pc = "lookup"
  PROVE  /\ path \in Seq(Char) /\ path # <<>> /\ path[1] = "/" /\ Final(path)
         /\ given \in Seq(Char) /\ mount = 0
         /\ Walked(Start, path) = Walked(Start, absolute(given))
         /\ Walked(Start, path) \in Walker
         /\ ~Walked(Start, path).past => path = Spelled(Walked(Start, path))
<1>1. /\ path \in Seq(Char) /\ path # <<>> /\ path[1] = "/" /\ given \in Seq(Char) /\ mount = 0
  BY DEF PathsInv, PathType, Working
<1>2. Final(path)  BY DEF PathsInv, PassesDone, Final
<1>3. Walked(Start, path) = Walked(Start, absolute(given))  BY DEF PathsInv, SameWalk
<1>4. Walked(Start, path) \in Walker  BY <1>1, StartType, WalkedType, Zenon
<1>5. ~Walked(Start, path).past => path = Spelled(Walked(Start, path))
  BY <1>1, <1>2, SpelledFinal, Zenon
<1> QED  BY <1>1, <1>2, <1>3, <1>4, <1>5, Zenon

\* A mount that the caller's path lies under begins the resolved path, up to a
\* slash or to the end.
LEMMA Covered ==
  ASSUME PathsInv, pc = "lookup", NEW i \in DOMAIN Mounts,
         ~Walk(absolute(given)).past, Under(Walk(absolute(given)).dir, Walk(Mounts[i]).dir)
  PROVE  Bounds(Mounts[i], path) /\ i \in Matching(path)
<1> DEFINE w == Walked(Start, path)
           m == Mounts[i]
           top == Walk(m).dir
<1>1. /\ path \in Seq(Char) /\ path # <<>> /\ w \in Walker /\ w = Walked(Start, absolute(given))
      /\ ~w.past => path = Spelled(w)
  BY Resolved, Zenon
<1>2. m \in Seq(Char) /\ top \in Seq(Seq(Char)) /\ m = Spell(top)  BY MountType, Zenon
<1>3. Len(m) > 1  BY MountLong, Zenon
<1>4. Walk(absolute(given)) = Enter(w)  BY <1>1, Zenon DEF Walk
<1>5. ~Enter(w).past /\ Under(Enter(w).dir, top)  BY <1>4, Zenon
<1> HIDE DEF w, top, m
<1>6. ~w.past  BY <1>1, <1>5, EnterType, Zenon
<1>7. Bounds(m, path)
  <2>1. Bounds(Spell(top), Spelled(w))  BY <1>1, <1>2, <1>5, SpelledUnder, Zenon
  <2> QED  BY <1>1, <1>2, <1>6, <2>1, Zenon
<1>8. IsHead(m, path)  BY <1>7, Zenon DEF Bounds
<1>9. strstr(path, m) = 1  BY <1>1, <1>2, <1>8, StrstrHead, Zenon
<1>10. Len(path) > 1
  <2>1. Len(m) <= Len(path) /\ Len(m) \in Nat /\ Len(path) \in Nat  BY <1>1, <1>2, <1>8 DEF IsHead
  <2> QED  BY <1>3, <2>1
<1> QED  BY <1>7, <1>9, <1>10, Zenon DEF Matching, m

\* and so does find_mount_and_strip_path.
LEMMA LookupStep ==
  ASSUME PathsInv, find_mount_and_strip_path
  PROVE  PathsInv'
<1>1. pc = "lookup" /\ pc' = "done" /\ given' = given
  BY DEF find_mount_and_strip_path
<1>2. path \in Seq(Char) /\ path # <<>> /\ given \in Seq(Char) /\ mount = 0
  BY <1>1, Resolved, Zenon
<1>3. Walk(path) = Walk(absolute(given))  BY <1>1, Resolved, Zenon DEF Walk
<1>4. PassesDone' /\ SameWalk'  BY <1>1 DEF PassesDone, SameWalk
<1>5. CASE Matching(path) = {} /\ UNCHANGED <<path, mount>>
  <2>1. PathType'  BY <1>1, <1>2, <1>5 DEF PathType, Working
  <2>2. ServedWalk'  BY <1>2, <1>5 DEF ServedWalk
  <2>3. ASSUME ~Walk(absolute(given)).past, NEW i \in DOMAIN Mounts,
               Under(Walk(absolute(given)).dir, Walk(Mounts[i]).dir)
        PROVE  FALSE
    BY <1>1, <1>5, <2>3, Covered, Zenon
  <2>4. UnderMountServed'  BY <1>1, <2>3, Zenon DEF UnderMountServed
  <2> QED  BY <1>4, <2>1, <2>2, <2>4, Zenon DEF PathsInv
<1>6. ASSUME NEW i \in Matching(path), mount' = i, path' = strip(path, Mounts[i])
      PROVE  PathsInv'
  <2> DEFINE m == Mounts[i]
  <2>1. i \in DOMAIN Mounts /\ strstr(path, m) = 1  BY Zenon DEF Matching
  <2>2. m \in Seq(Char)  BY <2>1, MountType, Zenon
  <2>3. IsHead(m, path)  BY <1>2, <2>1, <2>2, StrstrHead, Zenon
  <2>4. path' \in Seq(Char) /\ Walk(m \o path') = Walk(path)
    BY <1>2, <1>6, <2>2, <2>3, StripWalk, Zenon
  <2>5. PathType'  BY <1>1, <1>2, <2>4 DEF PathType, Working
  <2>6. ServedWalk'  BY <1>1, <1>3, <1>6, <2>4, Zenon DEF ServedWalk
  <2>7. ASSUME MountsApart, ~Walk(absolute(given)).past, NEW k \in DOMAIN Mounts,
               Under(Walk(absolute(given)).dir, Walk(Mounts[k]).dir)
        PROVE  mount' # 0 /\ Under(Walk(absolute(given)).dir, Walk(m).dir) /\ path'[1] = "/"
    <3>1. Bounds(Mounts[k], path)  BY <1>1, <2>7, Covered, Zenon
    <3>2. Mounts[k] \in Seq(Char)  BY MountType, Zenon
    <3>3. IsHead(Mounts[k], path)  BY <3>1, Zenon DEF Bounds
    <3>4. IsHead(m, Mounts[k]) \/ IsHead(Mounts[k], m)
      BY <1>2, <2>2, <2>3, <3>2, <3>3, HeadsNest, Zenon
    <3>5. m = Mounts[k]
      <4>1. Occurs(Mounts[k], m, 1) \/ Occurs(m, Mounts[k], 1)
        BY <2>2, <3>2, <3>4, OccursHead, Zenon
      <4> QED  BY <2>1, <2>7, <4>1, Zenon DEF MountsApart
    <3>6. mount' # 0  BY <1>6, <2>1, PathsAssumption
    <3>7. path'[1] = "/"
      <4>1. CASE Len(path) = Len(m)  BY <1>6, <4>1 DEF strip, Slash
      <4>2. CASE Len(path) # Len(m)
        <5>1. path' = SubSeq(path, Len(m) + 1, Len(path))  BY <1>6, <4>2, Zenon DEF strip
        <5>2. Len(m) < Len(path) /\ Len(m) \in Nat  BY <1>2, <2>2, <2>3, <4>2 DEF IsHead
        <5>3. path[Len(m) + 1] = "/"  BY <3>1, <3>5, <5>2, Zenon DEF Bounds
        <5> HIDE DEF m
        <5>4. SubSeq(path, Len(m) + 1, Len(path))[1] = path[Len(m) + 1]  BY <1>2, <5>2
        <5> QED  BY <5>1, <5>3, <5>4, Zenon
      <4> QED  BY <4>1, <4>2, Zenon
    <3> QED  BY <2>7, <3>5, <3>6, <3>7, Zenon
  <2>8. UnderMountServed'  BY <1>1, <1>6, <2>7, Zenon DEF UnderMountServed
  <2> QED  BY <1>4, <2>5, <2>6, <2>8, Zenon DEF PathsInv
<1> QED  BY <1>5, <1>6, Zenon DEF find_mount_and_strip_path

\* Every step keeps the invariant.
LEMMA PathsInvNext == PathsInv /\ [PathNext]_pathVars => PathsInv'
<1> SUFFICES ASSUME PathsInv, [PathNext]_pathVars PROVE PathsInv'  OBVIOUS
<1>1. CASE make_absolute  BY <1>1, MakeAbsoluteStep, Zenon
<1>2. CASE remove_path_string(SlashDot, "dot", "slash")  BY <1>2, DotStep, Zenon
<1>3. CASE remove_path_string(SlashSlash, "slash", "dotdot")  BY <1>3, SlashStep, Zenon
<1>4. CASE remove_dot_dot("dotdot", "lookup")  BY <1>4, UpStep, Zenon
<1>5. CASE find_mount_and_strip_path  BY <1>5, LookupStep, Zenon
<1>6. CASE UNCHANGED pathVars
  BY <1>6 DEF pathVars, PathsInv, PathType, PassesDone, SameWalk, ServedWalk, UnderMountServed
<1> QED  BY <1>1, <1>2, <1>3, <1>4, <1>5, <1>6, Zenon DEF PathNext, resolve_path

\* The invariant holds of every call.
LEMMA PathsInvariant == PathSpec => []PathsInv
  BY PathsInvInit, PathsInvNext, PTL DEF PathSpec

\* The string that resolve_path and its helpers work on leads where the caller's
\* path leads, at every turn of their loops and for every path and directory.
THEOREM WorkKeepsWalk == PathSpec => []SameWalk
<1>1. PathsInv => SameWalk  BY Zenon DEF PathsInv
<1> QED  BY <1>1, PathsInvariant, PTL

\* What resolve_path returns has nothing left to resolve: the passes of util.c
\* are in an order in which none undoes an earlier one.
THEOREM ResolvingIsFinal == PathSpec => []Idempotent
<1>1. PathsInv => Idempotent  BY Resolved, Zenon DEF Idempotent
<1> QED  BY <1>1, PathsInvariant, PTL

\* resolve_path returns the spelling of the directory that the caller's path
\* walks to and its last name, unless that path climbs past the root.
THEOREM ResolvesToSpelling == PathSpec => []ResolvesAsWalked
<1>1. ASSUME PathsInv, pc = "lookup", ~Walked(Start, absolute(given)).past
      PROVE  path = Below(Spell(Walked(Start, absolute(given)).dir), Walked(Start, absolute(given)).cur)
  BY <1>1, Resolved, Zenon DEF Spelled
<1>2. PathsInv => ResolvesAsWalked  BY <1>1, Zenon DEF ResolvesAsWalked
<1> QED  BY <1>2, PathsInvariant, PTL

\* The path that find_mount_and_strip_path leaves for a mount leads, from there,
\* where the caller's path leads, for every list of mounts.
THEOREM MountPathLeadsThere == PathSpec => []ServedWalk
<1>1. PathsInv => ServedWalk  BY Zenon DEF PathsInv
<1> QED  BY <1>1, PathsInvariant, PTL

\* A path that leads under a mount is served by a mount it lies under, if no
\* mount path begins another as a string.
THEOREM PathsUnderMountServed == PathSpec => []UnderMountServed
<1>1. PathsInv => UnderMountServed  BY Zenon DEF PathsInv
<1> QED  BY <1>1, PathsInvariant, PTL

\* Every turn of a loop that is not its last shortens the string, so the loops
\* of remove_path_string and remove_dot_dot end.
THEOREM TurnsShorten ==
  ASSUME PathsInv, PathNext, pc' = pc
  PROVE  Len(path') < Len(path) /\ Len(path') \in Nat
<1>1. ~make_absolute  BY DEF make_absolute
<1>2. ~find_mount_and_strip_path  BY DEF find_mount_and_strip_path
<1>3. Len(path') < Len(path)
  BY <1>1, <1>2, DotStep, SlashStep, UpStep, Zenon DEF PathNext, resolve_path
<1>4. path' \in Seq(Char)
  <2>1. PathsInv'  BY PathsInvNext, Zenon
  <2> QED  BY <2>1, Zenon DEF PathsInv, PathType
<1> QED  BY <1>3, <1>4
============================================================================
