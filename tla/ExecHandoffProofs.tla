------------------------- MODULE ExecHandoffProofs -------------------------
(***************************************************************************)
(* Programs that close in the reverse order of opening keep their          *)
(* descriptors across fork and exec: for any number of processes, slots    *)
(* and files, and whatever shared spaces earlier processes left.           *)
(*                                                                         *)
(* The invariant is about one process image at a time: its descriptors in  *)
(* the kernel (kern), its table (tab) and list (l), what the program has   *)
(* opened (o), and what its constructor has still to restore (d).          *)
(***************************************************************************)
EXTENDS MCExecHandoff, TLAPS

Files == [Fd -> File \cup {NULL}]
Lists == [use_position : [Fd -> Fd], used : [Fd -> Fd], pos : 0 .. MAX_FILES]
Saves == Seq(Fd \X File)

\* The entries of an image: those in its table, by the list, and after them
\* those to restore.
Total(l, d) == l.pos + Len(d)
FdAt(l, d, k) == IF k < l.pos THEN l.used[k] ELSE d[k - l.pos + 1][1]
FileAt(tab, l, d, k) == IF k < l.pos THEN tab[l.used[k]] ELSE d[k - l.pos + 1][2]

\* No descriptor has two entries.
Distinct(l, d) ==
  \A j, k \in 0 .. Total(l, d) - 1 : FdAt(l, d, j) = FdAt(l, d, k) => j = k

\* The list is the occupied slots.  unlink_file_descriptor leaves use_position
\* wrong, but never so that it leads before the descriptor's own position.
Listed(tab, l) ==
  /\ \A k \in 0 .. l.pos - 1 : tab[l.used[k]] # NULL /\ l.use_position[l.used[k]] >= k
  /\ \A fd \in Fd : tab[fd] # NULL => \E k \in 0 .. l.pos - 1 : l.used[k] = fd

\* The list is the beginning of an arrangement of all slots, so that it is full
\* only when every slot is in it.
Arranged(l) ==
  \E s \in [Fd -> Fd] : /\ \A fd \in Fd : \E k \in Fd : s[k] = fd
                        /\ \A k \in 0 .. l.pos - 1 : s[k] = l.used[k]

\* The last entries are the descriptors the program opened, in that order, and
\* have the kernel's files; what comes before them was left by other processes.
Behind(kern, tab, l, o, d) ==
  /\ Len(o) <= Total(l, d)
  /\ \A i \in 1 .. Len(o) :
       /\ FdAt(l, d, Total(l, d) - Len(o) + i - 1) = o[i]
       /\ FileAt(tab, l, d, Total(l, d) - Len(o) + i - 1) = kern[o[i]]

Image(kern, tab, l, o, d) ==
  /\ kern \in Files /\ tab \in Files /\ l \in Lists /\ o \in Seq(Fd) /\ d \in Saves
  /\ Distinct(l, d) /\ Listed(tab, l) /\ Arranged(l) /\ Behind(kern, tab, l, o, d)

\* An image that found nothing left by others has no other entries, and its
\* program holds all that the kernel has open.
Orderly(kern, l, o, d) ==
  /\ Total(l, d) = Len(o)
  /\ \A fd \in Fd : kern[fd] # NULL => \E i \in 1 .. Len(o) : o[i] = fd

\* No descriptor is saved twice.
OncePerFd(s) == \A i, j \in 1 .. Len(s) : s[i][1] = s[j][1] => i = j

\* Process p: what its shared space holds can be restored by whoever gets the
\* pid next, and nothing is left of it elsewhere when it is gone.
ProcInv(p) ==
  /\ Image(kernel_fds[p], table[p], list[p], opened[p], todo[p])
  /\ ~reuse => Orderly(kernel_fds[p], list[p], opened[p], todo[p])
  /\ space[p] \in Saves /\ OncePerFd(space[p])
  /\ p \notin live => /\ kernel_fds[p] = NoFiles /\ table[p] = NoFiles
                      /\ list[p] = EmptyList /\ opened[p] = <<>>

HandoffInv ==
  /\ live \subseteq Pid /\ crashed = {}
  /\ kernel_fds = [p \in Pid |-> kernel_fds[p]] /\ table = [p \in Pid |-> table[p]]
  /\ list = [p \in Pid |-> list[p]] /\ opened = [p \in Pid |-> opened[p]]
  /\ todo = [p \in Pid |-> todo[p]] /\ space = [p \in Pid |-> space[p]]
  /\ \A p \in Pid : ProcInv(p)

----------------------------------------------------------------------------
\* Slot 0 exists.
LEMMA Slots == 0 \in Fd /\ Fd \subseteq Nat /\ \A i \in Nat : i < MAX_FILES <=> i \in Fd
  BY MaxFilesAssumption DEF Fd

\* While a slot is not in the list, the list has room.
LEMMA Room ==
  ASSUME NEW l \in Lists, Arranged(l), NEW fd \in Fd, \A k \in 0 .. l.pos - 1 : l.used[k] # fd
  PROVE  l.pos < MAX_FILES
<1>1. PICK s \in [Fd -> Fd] : /\ \A g \in Fd : \E k \in Fd : s[k] = g
                             /\ \A k \in 0 .. l.pos - 1 : s[k] = l.used[k]
  BY Zenon DEF Arranged
<1>2. PICK k \in Fd : s[k] = fd
  BY <1>1, Zenon
<1>3. k \notin 0 .. l.pos - 1
  BY <1>1, <1>2, Zenon
<1>4. l.pos \in Nat  BY DEF Lists
<1> QED  BY <1>3, <1>4, MaxFilesAssumption, SMTT(30) DEF Fd

\* Storing a slot that is not in the list at its end keeps it arranged: the
\* slot changes places with the one that was to come next.
LEMMA StoreArranged ==
  ASSUME NEW l \in Lists, Arranged(l), NEW fd \in Fd, \A k \in 0 .. l.pos - 1 : l.used[k] # fd,
         NEW m, m.pos = l.pos + 1, m.used[l.pos] = fd,
         \A k \in 0 .. l.pos - 1 : m.used[k] = l.used[k]
  PROVE  Arranged(m)
<1>1. PICK s \in [Fd -> Fd] : /\ \A g \in Fd : \E k \in Fd : s[k] = g
                             /\ \A k \in 0 .. l.pos - 1 : s[k] = l.used[k]
  BY Zenon DEF Arranged
<1>2. PICK at \in Fd : s[at] = fd
  BY <1>1, Zenon
<1>3. at \notin 0 .. l.pos - 1
  BY <1>1, <1>2, Zenon
<1>4. l.pos \in Fd /\ l.pos \in Nat
  <2>1. l.pos < MAX_FILES  BY Room, Zenon
  <2>2. l.pos \in Nat  BY DEF Lists
  <2> QED  BY <2>1, <2>2, Slots, Zenon
<1> DEFINE n == l.pos
           t == [k \in Fd |-> IF k = n THEN fd ELSE IF k = at THEN s[n] ELSE s[k]]
<1>5. t \in [Fd -> Fd] /\ t[n] = fd /\ (at # n => t[at] = s[n])
      /\ \A k \in Fd : k # n /\ k # at => t[k] = s[k]
  BY <1>4, Zenon
<1> HIDE DEF t
<1>6. ASSUME NEW g \in Fd  PROVE \E k \in Fd : t[k] = g
  <2>1. PICK k \in Fd : s[k] = g  BY <1>1, Zenon
  <2>2. CASE k = at  BY <1>2, <1>4, <1>5, <2>1, <2>2, Zenon
  <2>3. CASE k = n /\ k # at  BY <1>5, <2>1, <2>3, Zenon
  <2>4. CASE k # n /\ k # at  BY <1>5, <2>1, <2>4, Zenon
  <2> QED  BY <2>2, <2>3, <2>4, Zenon
<1>7. \A k \in 0 .. n - 1 : k \in Fd /\ k # n /\ k # at
  <2>1. n \in Fd /\ n \in Nat /\ at \notin 0 .. n - 1  BY <1>3, <1>4, Zenon
  <2> HIDE DEF n
  <2>2. \A k \in 0 .. n - 1 : k \in Nat /\ k < n  BY <2>1
  <2>3. n < MAX_FILES  BY <2>1, MaxFilesAssumption DEF Fd
  <2>4. \A k \in 0 .. n - 1 : k \in Fd /\ k # n  BY <2>1, <2>2, <2>3, MaxFilesAssumption DEF Fd
  <2> QED  BY <2>1, <2>4, Zenon
<1>8. \A k \in 0 .. n - 1 : t[k] = m.used[k]
  BY <1>1, <1>5, <1>7, Zenon
<1>9. \A k \in 0 .. m.pos - 1 : k \in 0 .. n - 1 \/ k = n
  BY <1>4
<1>10. \A k \in 0 .. m.pos - 1 : t[k] = m.used[k]
  BY <1>5, <1>8, <1>9, Zenon
<1> QED  BY <1>5, <1>6, <1>10, Zenon DEF Arranged

\* link_file_descriptor stores the descriptor at the end of the list.
LEMMA Linked ==
  ASSUME NEW l \in Lists, NEW fd \in Fd, l.pos < MAX_FILES,
         NEW m, m = link_file_descriptor(l, fd)
  PROVE  /\ m \in Lists /\ m.pos = l.pos + 1 /\ l.pos \in Fd
         /\ m.used[l.pos] = fd /\ \A k \in Fd : k # l.pos => m.used[k] = l.used[k]
         /\ m.use_position[fd] = l.pos
         /\ \A g \in Fd : g # fd => m.use_position[g] = l.use_position[g]
<1>1. l.use_position \in [Fd -> Fd] /\ l.used \in [Fd -> Fd] /\ l.pos \in Nat
  BY DEF Lists
<1>2. l.pos \in Fd /\ l.pos + 1 \in 0 .. MAX_FILES
  <2> DEFINE n == l.pos
  <2>1. n \in Nat /\ n < MAX_FILES  BY <1>1, Zenon
  <2> HIDE DEF n
  <2>2. n \in Fd /\ n + 1 \in 0 .. MAX_FILES  BY <2>1, MaxFilesAssumption DEF Fd
  <2> QED  BY <2>2, Zenon DEF n
<1> QED  BY <1>1, <1>2, Zenon DEF link_file_descriptor, Lists

\* unlink_file_descriptor writes no position before the last one if that is
\* where the descriptor's use_position leads, or behind it.
LEMMA Unlinked ==
  ASSUME NEW l \in Lists, NEW fd \in Fd, l.pos > 0, l.use_position[fd] >= l.pos - 1,
         NEW m, m = unlink_file_descriptor(l, fd)
  PROVE  /\ m \in Lists /\ m.pos = l.pos - 1
         /\ \A k \in 0 .. l.pos - 2 : m.used[k] = l.used[k]
         /\ \A g \in Fd : m.use_position[g] = l.use_position[g] \/ m.use_position[g] >= l.pos - 1
<1>1. l.use_position \in [Fd -> Fd] /\ l.used \in [Fd -> Fd] /\ l.pos \in 0 .. MAX_FILES
  BY Zenon DEF Lists
<1>2. l.pos - 1 \in Fd /\ l.pos - 1 \in 0 .. MAX_FILES /\ Fd \subseteq Nat
      /\ \A k \in 0 .. l.pos - 2 : k \in Fd
  <2> DEFINE n == l.pos
  <2>1. n \in 0 .. MAX_FILES /\ n > 0 /\ MAX_FILES \in Nat  BY <1>1, MaxFilesAssumption, Zenon
  <2> HIDE DEF n
  <2>2. n - 1 \in Fd /\ n - 1 \in 0 .. MAX_FILES /\ Fd \subseteq Nat /\ \A k \in 0 .. n - 2 : k \in Fd
    BY <2>1 DEF Fd
  <2> QED  BY <2>2, Zenon DEF n
<1>3. CASE l.pos - 1 > 0
  <2>1. m = [use_position |-> [l.use_position EXCEPT ![l.pos - 1] = l.use_position[fd]],
             used |-> [l.used EXCEPT ![l.use_position[fd]] = l.pos - 1],
             pos |-> l.pos - 1]
    BY <1>3, Zenon DEF unlink_file_descriptor
  <2>2. /\ m.use_position = [l.use_position EXCEPT ![l.pos - 1] = l.use_position[fd]]
        /\ m.used = [l.used EXCEPT ![l.use_position[fd]] = l.pos - 1] /\ m.pos = l.pos - 1
    BY <2>1
  <2>3. m.use_position \in [Fd -> Fd] /\ m.used \in [Fd -> Fd]  BY <1>1, <1>2, <2>2
  <2>4. m \in Lists  BY <1>2, <2>1, <2>2, <2>3, Zenon DEF Lists
  <2>5. \A k \in 0 .. l.pos - 2 : m.used[k] = l.used[k]
    <3>1. \A k \in 0 .. l.pos - 2 : k # l.use_position[fd]  BY <1>1, <1>2
    <3> QED  BY <1>1, <1>2, <2>2, <3>1, Zenon
  <2>6. \A g \in Fd : m.use_position[g] = l.use_position[g] \/ m.use_position[g] >= l.pos - 1
    BY <1>1, <1>2, <2>2, Zenon
  <2> QED  BY <2>2, <2>4, <2>5, <2>6, Zenon
<1>4. CASE ~(l.pos - 1 > 0)
  <2>1. m = [l EXCEPT !.pos = l.pos - 1]
    BY <1>4, Zenon DEF unlink_file_descriptor
  <2> QED  BY <1>1, <1>2, <2>1, Zenon DEF Lists
<1> QED  BY <1>3, <1>4, Zenon

\* Without its last element a sequence is as before up to there.
LEMMA WithoutLast ==
  ASSUME NEW S, NEW s \in Seq(S), s # <<>>
  PROVE  /\ Without(s, Len(s)) \in Seq(S) /\ Len(Without(s, Len(s))) = Len(s) - 1
         /\ \A i \in 1 .. Len(s) - 1 : Without(s, Len(s))[i] = s[i]
         /\ Len(s) \in Nat \ {0} /\ s[Len(s)] \in S
<1> DEFINE n == Len(s)
<1>1. n \in Nat \ {0} /\ \A i \in 1 .. n : s[i] \in S
  OBVIOUS
<1>2. Without(s, n) = [j \in 1 .. n - 1 |-> IF j < n THEN s[j] ELSE s[j + 1]]
  BY Zenon DEF Without
<1> HIDE DEF n
<1>3. Without(s, n) \in [1 .. n - 1 -> S] /\ \A i \in 1 .. n - 1 : Without(s, n)[i] = s[i]
  BY <1>1, <1>2
<1>4. n - 1 \in Nat /\ s[n] \in S
  BY <1>1
<1>5. Without(s, n) \in Seq(S) /\ Len(Without(s, n)) = n - 1
  BY <1>3, <1>4
<1> QED  BY <1>1, <1>3, <1>4, <1>5, Zenon DEF n

----------------------------------------------------------------------------
\* A new image has an empty table; what it restores are all its entries.
LEMMA NewImage ==
  ASSUME NEW kern \in Files, NEW d \in Saves, OncePerFd(d)
  PROVE  Image(kern, NoFiles, EmptyList, <<>>, d)
<1>1. NoFiles \in Files /\ EmptyList \in Lists
  BY Slots, MaxFilesAssumption DEF NoFiles, EmptyList, Files, Lists
<1>2. EmptyList.pos = 0 /\ Total(EmptyList, d) = Len(d) /\ Len(d) \in Nat
  BY DEF EmptyList, Total, Saves
<1>3. Distinct(EmptyList, d)
  BY <1>2 DEF Distinct, FdAt, OncePerFd
<1>4. Listed(NoFiles, EmptyList)
  BY <1>2 DEF Listed, NoFiles
<1>5. Behind(kern, NoFiles, EmptyList, <<>>, d)
  BY <1>2 DEF Behind
<1>6. Arranged(EmptyList)
  <2> DEFINE s == [k \in Fd |-> k]
  <2>1. s \in [Fd -> Fd] /\ \A fd \in Fd : s[fd] = fd  BY Zenon
  <2> HIDE DEF s
  <2>2. \A k \in 0 .. EmptyList.pos - 1 : FALSE  BY <1>2
  <2> QED  BY <2>1, <2>2, Zenon DEF Arranged
<1> QED  BY <1>1, <1>3, <1>4, <1>5, <1>6 DEF Image

\* What holds of the numbers in an image.
LEMMA Numbers ==
  ASSUME NEW l \in Lists, NEW o \in Seq(Fd), NEW d \in Saves
  PROVE  /\ l.pos \in Nat /\ l.pos <= MAX_FILES /\ Len(d) \in Nat /\ Len(o) \in Nat
         /\ Total(l, d) = l.pos + Len(d) /\ MAX_FILES \in Nat
         /\ \A k \in 0 .. l.pos - 1 : k \in Fd /\ l.used[k] \in Fd
  BY Slots, MaxFilesAssumption DEF Lists, Saves, Total

\* defuse_open adds an entry at the end, of the list and of what was opened.
LEMMA OpenImage ==
  ASSUME NEW kern, NEW tab, NEW l, NEW o, Image(kern, tab, l, o, <<>>),
         NEW fd \in Fd, NEW f \in File, tab[fd] = NULL
  PROVE  /\ Image([kern EXCEPT ![fd] = f], [tab EXCEPT ![fd] = f], link_file_descriptor(l, fd),
                  Append(o, fd), <<>>)
         /\ Orderly(kern, l, o, <<>>) =>
              Orderly([kern EXCEPT ![fd] = f], link_file_descriptor(l, fd), Append(o, fd), <<>>)
<1> DEFINE m == link_file_descriptor(l, fd)
           kern2 == [kern EXCEPT ![fd] = f]
           tab2 == [tab EXCEPT ![fd] = f]
           o2 == Append(o, fd)
<1>1. /\ kern \in Files /\ tab \in Files /\ l \in Lists /\ o \in Seq(Fd) /\ <<>> \in Saves
      /\ l.pos \in Nat /\ l.pos <= MAX_FILES /\ Len(o) \in Nat /\ Len(o) <= l.pos
      /\ \A k \in 0 .. l.pos - 1 : k \in Fd /\ l.used[k] \in Fd
      /\ Total(l, <<>>) = l.pos
  BY Numbers DEF Image, Behind, Total
<1>2. \A j, k \in 0 .. l.pos - 1 : l.used[j] = l.used[k] => j = k
  BY <1>1 DEF Image, Distinct, FdAt
<1>3. \A k \in 0 .. l.pos - 1 : l.used[k] # fd
  BY Zenon DEF Image, Listed
<1>4. l.pos < MAX_FILES /\ l.pos \in Fd
  BY <1>1, <1>3, Room, Slots, Zenon DEF Image
<1>5. /\ m \in Lists /\ m.pos = l.pos + 1 /\ m.used[l.pos] = fd /\ m.use_position[fd] = l.pos
      /\ \A k \in 0 .. l.pos - 1 : m.used[k] = l.used[k]
      /\ \A g \in Fd : g # fd => m.use_position[g] = l.use_position[g]
  <2>1. /\ m \in Lists /\ m.pos = l.pos + 1 /\ m.used[l.pos] = fd /\ m.use_position[fd] = l.pos
        /\ \A k \in Fd : k # l.pos => m.used[k] = l.used[k]
        /\ \A g \in Fd : g # fd => m.use_position[g] = l.use_position[g]
    BY <1>1, <1>4, Linked
  <2> QED  BY <1>1, <2>1
<1> HIDE DEF m
<1>6. kern2 \in Files /\ tab2 \in Files
  BY <1>1, HandoffAssumption, Zenon DEF Files
<1>7. Total(m, <<>>) = l.pos + 1
  BY <1>1, <1>5 DEF Total
<1>8. Distinct(m, <<>>)
  BY <1>1, <1>2, <1>5, <1>3, <1>7 DEF Distinct, FdAt
<1>9. Listed(tab2, m)
  <2>1. ASSUME NEW k \in 0 .. l.pos
        PROVE  tab2[m.used[k]] # NULL /\ m.use_position[m.used[k]] >= k
    <3>1. CASE k = l.pos  BY <1>1, <1>5, <3>1, HandoffAssumption DEF Files
    <3>2. CASE k \in 0 .. l.pos - 1
      <4>1. tab[l.used[k]] # NULL /\ l.use_position[l.used[k]] >= k  BY <3>2, Zenon DEF Image, Listed
      <4>2. m.used[k] = l.used[k] /\ l.used[k] \in Fd /\ l.used[k] # fd  BY <1>1, <1>5, <1>3, <3>2, Zenon
      <4> QED  BY <1>1, <1>5, <4>1, <4>2, Zenon DEF Files
    <3> QED  BY <1>1, <3>1, <3>2
  <2>2. ASSUME NEW g \in Fd, tab2[g] # NULL  PROVE \E k \in 0 .. l.pos : m.used[k] = g
    <3>1. CASE g = fd  BY <1>1, <1>5, <3>1
    <3>2. CASE g # fd
      <4>1. tab[g] # NULL  BY <1>1, <2>2, <3>2, Zenon DEF Files
      <4>2. PICK k \in 0 .. l.pos - 1 : l.used[k] = g  BY <4>1, Zenon DEF Image, Listed
      <4> QED  BY <1>1, <1>5, <4>2
    <3> QED  BY <3>1, <3>2, Zenon
  <2> QED  BY <1>1, <1>5, <2>1, <2>2 DEF Listed
<1>10. Behind(kern2, tab2, m, o2, <<>>)
  <2>1. o2 \in Seq(Fd) /\ Len(o2) = Len(o) + 1 /\ o2[Len(o) + 1] = fd
        /\ \A i \in 1 .. Len(o) : o2[i] = o[i] /\ o[i] \in Fd
    BY <1>1
  <2>2. ASSUME NEW i \in 1 .. Len(o2)
        PROVE  /\ FdAt(m, <<>>, l.pos - Len(o) + i - 1) = o2[i]
               /\ FileAt(tab2, m, <<>>, l.pos - Len(o) + i - 1) = kern2[o2[i]]
    <3>1. CASE i = Len(o) + 1
      BY <1>1, <1>5, <2>1, <3>1 DEF FdAt, FileAt, Files
    <3>2. CASE i \in 1 .. Len(o)
      <4> DEFINE q == l.pos - Len(o) + i - 1
      <4>1. q \in 0 .. l.pos - 1 /\ q < l.pos /\ q < m.pos  BY <1>1, <1>5, <3>2
      <4>2. FdAt(l, <<>>, q) = o[i] /\ FileAt(tab, l, <<>>, q) = kern[o[i]]
        BY <1>1, <3>2, Zenon DEF Image, Behind
      <4> HIDE DEF q
      <4>3. l.used[q] = o[i] /\ tab[l.used[q]] = kern[o[i]]
        BY <4>1, <4>2, Zenon DEF FdAt, FileAt
      <4>4. o[i] # fd  BY <1>3, <4>1, <4>3, Zenon
      <4>5. FdAt(m, <<>>, q) = o2[i] /\ FileAt(tab2, m, <<>>, q) = tab2[o[i]]
        BY <1>5, <2>1, <3>2, <4>1, <4>3, Zenon DEF FdAt, FileAt
      <4>6. tab2[o[i]] = tab[o[i]] /\ kern2[o2[i]] = kern[o[i]]
        BY <1>1, <2>1, <3>2, <4>4, Zenon DEF Files
      <4> QED  BY <4>3, <4>5, <4>6, Zenon DEF q
    <3> QED  BY <1>1, <2>1, <2>2, <3>1, <3>2
  <2>3. \A i \in 1 .. Len(o2) : Total(m, <<>>) - Len(o2) + i - 1 = l.pos - Len(o) + i - 1
    BY <1>1, <1>7, <2>1
  <2>4. Len(o2) <= Total(m, <<>>)
    BY <1>1, <1>7, <2>1
  <2> HIDE DEF o2, kern2, tab2
  <2> QED  BY <2>2, <2>3, <2>4, Zenon DEF Behind
<1>11. o2 \in Seq(Fd)  BY <1>1
<1>12. Arranged(m)
  <2>1. Arranged(l)  BY Zenon DEF Image
  <2> QED  BY <1>1, <1>5, <1>3, <2>1, StoreArranged, Zenon
<1>13. ASSUME Orderly(kern, l, o, <<>>)  PROVE Orderly(kern2, m, o2, <<>>)
  <2>1. /\ Len(o2) = Len(o) + 1 /\ o2[Len(o) + 1] = fd /\ \A i \in 1 .. Len(o) : o2[i] = o[i]
        /\ \A i \in 1 .. Len(o) : i \in 1 .. Len(o2)
        /\ Len(o) + 1 \in 1 .. Len(o2)
    BY <1>1
  <2>2. Total(m, <<>>) = Len(o2)  BY <1>1, <1>7, <1>13, <2>1, Zenon DEF Orderly
  <2>3. ASSUME NEW g \in Fd, kern2[g] # NULL  PROVE \E i \in 1 .. Len(o2) : o2[i] = g
    <3>1. CASE g = fd  BY <2>1, <3>1, Zenon
    <3>2. CASE g # fd
      <4>1. kern[g] # NULL  BY <1>1, <2>3, <3>2, Zenon DEF Files
      <4> QED  BY <1>13, <2>1, <4>1, Zenon DEF Orderly
    <3> QED  BY <3>1, <3>2, Zenon
  <2> QED  BY <2>2, <2>3, Zenon DEF Orderly
<1> QED  BY <1>1, <1>5, <1>6, <1>8, <1>9, <1>10, <1>11, <1>12, <1>13, Zenon DEF Image, m

\* A failed defuse_open leaves a kernel descriptor nobody opened.
LEMMA ForgottenFd ==
  ASSUME NEW kern, NEW tab, NEW l, NEW o, NEW d, Image(kern, tab, l, o, d),
         NEW fd \in Fd, NEW f \in File, kern[fd] = NULL,
         d = <<>>
  PROVE  Image([kern EXCEPT ![fd] = f], tab, l, o, d)
<1> DEFINE kern2 == [kern EXCEPT ![fd] = f]
<1>1. kern \in Files /\ kern2 \in Files  BY Zenon DEF Image, Files
<1>2. /\ l \in Lists /\ o \in Seq(Fd) /\ d \in Saves /\ tab \in Files
      /\ l.pos \in Nat /\ Len(o) \in Nat /\ Total(l, d) = l.pos /\ Len(o) <= l.pos
  BY Numbers DEF Image, Behind, Total
<1>3. ASSUME NEW i \in 1 .. Len(o)  PROVE kern2[o[i]] = kern[o[i]]
  <2>1. l.pos - Len(o) + i - 1 \in 0 .. l.pos - 1  BY <1>2
  <2>2. FileAt(tab, l, d, l.pos - Len(o) + i - 1) = kern[o[i]]  BY <1>2, Zenon DEF Image, Behind
  <2>3. tab[l.used[l.pos - Len(o) + i - 1]] # NULL  BY <2>1, Zenon DEF Image, Listed
  <2>4. kern[o[i]] # NULL  BY <1>2, <2>1, <2>2, <2>3 DEF FileAt
  <2>5. o[i] \in Fd  BY <1>2
  <2> QED  BY <1>1, <2>4, <2>5, Zenon DEF Files
<1>4. Behind(kern2, tab, l, o, d)
  BY <1>3, Zenon DEF Image, Behind
<1> QED  BY <1>1, <1>4, Zenon DEF Image

\* Closing what was opened last takes the last entry away.
LEMMA CloseImage ==
  ASSUME NEW kern, NEW tab, NEW l, NEW o, Image(kern, tab, l, o, <<>>),
         o # <<>>, NEW fd, fd = o[Len(o)]
  PROVE  /\ Image([kern EXCEPT ![fd] = NULL], [tab EXCEPT ![fd] = NULL],
                  unlink_file_descriptor(l, fd), Without(o, Len(o)), <<>>)
         /\ Orderly(kern, l, o, <<>>) =>
              Orderly([kern EXCEPT ![fd] = NULL], unlink_file_descriptor(l, fd),
                      Without(o, Len(o)), <<>>)
<1> DEFINE m == unlink_file_descriptor(l, fd)
           kern2 == [kern EXCEPT ![fd] = NULL]
           tab2 == [tab EXCEPT ![fd] = NULL]
           o2 == Without(o, Len(o))
<1>1. /\ kern \in Files /\ tab \in Files /\ l \in Lists /\ o \in Seq(Fd) /\ <<>> \in Saves
      /\ l.pos \in Nat /\ l.pos <= MAX_FILES /\ Len(o) \in Nat /\ Len(o) <= l.pos
      /\ \A k \in 0 .. l.pos - 1 : k \in Fd /\ l.used[k] \in Fd
      /\ Total(l, <<>>) = l.pos
  BY Numbers DEF Image, Behind, Total
<1>2. \A j, k \in 0 .. l.pos - 1 : l.used[j] = l.used[k] => j = k
  BY <1>1 DEF Image, Distinct, FdAt
<1>3. /\ o2 \in Seq(Fd) /\ Len(o2) = Len(o) - 1 /\ \A i \in 1 .. Len(o) - 1 : o2[i] = o[i] /\ o[i] \in Fd
      /\ Len(o) > 0 /\ fd \in Fd
  <2>1. /\ o2 \in Seq(Fd) /\ Len(o2) = Len(o) - 1 /\ \A i \in 1 .. Len(o) - 1 : o2[i] = o[i]
        /\ Len(o) \in Nat \ {0} /\ o[Len(o)] \in Fd
    BY <1>1, WithoutLast, Zenon
  <2>2. \A i \in 1 .. Len(o) - 1 : o[i] \in Fd  BY <1>1
  <2> QED  BY <2>1, <2>2
<1> HIDE DEF o2
<1>4. l.pos > 0 /\ l.used[l.pos - 1] = fd
  <2>1. Len(o) \in 1 .. Len(o) /\ l.pos - Len(o) + Len(o) - 1 = l.pos - 1  BY <1>1, <1>3
  <2>2. FdAt(l, <<>>, l.pos - 1) = fd  BY <1>1, <2>1, Zenon DEF Image, Behind
  <2> QED  BY <1>1, <1>3, <2>2 DEF FdAt
<1>5. l.use_position[fd] >= l.pos - 1
  <2>1. l.pos - 1 \in 0 .. l.pos - 1  BY <1>1, <1>4
  <2> QED  BY <1>4, <2>1, Zenon DEF Image, Listed
<1>6. /\ m \in Lists /\ m.pos = l.pos - 1
      /\ \A k \in 0 .. l.pos - 2 : m.used[k] = l.used[k]
      /\ \A g \in Fd : m.use_position[g] = l.use_position[g] \/ m.use_position[g] >= l.pos - 1
  BY <1>1, <1>3, <1>4, <1>5, Unlinked, Zenon
<1> HIDE DEF m
<1>7. kern2 \in Files /\ tab2 \in Files
  BY <1>1, <1>3, Zenon DEF Files
<1>8. Total(m, <<>>) = l.pos - 1
  BY <1>1, <1>6 DEF Total
<1>9. \A k \in 0 .. l.pos - 2 : k \in 0 .. l.pos - 1 /\ l.used[k] \in Fd /\ l.used[k] # fd
  BY <1>1, <1>2, <1>4
<1>10. Distinct(m, <<>>)
  <2>1. \A k \in 0 .. l.pos - 2 : k < l.pos /\ k < m.pos  BY <1>1, <1>6
  <2>2. \A k \in 0 .. l.pos - 2 : FdAt(m, <<>>, k) = FdAt(l, <<>>, k)
    BY <1>6, <1>9, <2>1, Zenon DEF FdAt
  <2>3. Total(m, <<>>) - 1 = l.pos - 2  BY <1>1, <1>8
  <2> QED  BY <1>1, <1>9, <2>2, <2>3, Zenon DEF Image, Distinct
<1>11. Listed(tab2, m)
  <2>1. ASSUME NEW k \in 0 .. l.pos - 2
        PROVE  tab2[m.used[k]] # NULL /\ m.use_position[m.used[k]] >= k
    <3>1. tab[l.used[k]] # NULL /\ l.use_position[l.used[k]] >= k  BY <1>9, Zenon DEF Image, Listed
    <3>2. m.used[k] = l.used[k] /\ l.used[k] \in Fd /\ l.used[k] # fd  BY <1>6, <1>9, Zenon
    <3>3. /\ l.use_position[l.used[k]] \in Nat /\ m.use_position[l.used[k]] \in Nat
          /\ k \in Nat /\ l.pos - 1 >= k
      <4>1. l.use_position[l.used[k]] \in Fd /\ m.use_position[l.used[k]] \in Fd
        BY <1>1, <1>6, <3>2, Zenon DEF Lists
      <4>2. k \in Nat /\ l.pos - 1 >= k  BY <1>1
      <4> QED  BY <4>1, <4>2, Slots, Zenon
    <3>4. tab2[l.used[k]] # NULL  BY <1>1, <3>1, <3>2, Zenon DEF Files
    <3>5. \/ m.use_position[l.used[k]] = l.use_position[l.used[k]]
          \/ m.use_position[l.used[k]] >= l.pos - 1
      BY <1>6, <3>2, Zenon
    <3>6. m.use_position[l.used[k]] >= k  BY <1>1, <3>1, <3>3, <3>5
    <3> QED  BY <3>2, <3>4, <3>6, Zenon
  <2>2. ASSUME NEW g \in Fd, tab2[g] # NULL  PROVE \E k \in 0 .. l.pos - 2 : m.used[k] = g
    <3>1. g # fd /\ tab[g] # NULL  BY <1>1, <1>3, <2>2, Zenon DEF Files
    <3>2. PICK k \in 0 .. l.pos - 1 : l.used[k] = g  BY <3>1, Zenon DEF Image, Listed
    <3>3. k # l.pos - 1  BY <1>4, <3>1, <3>2, Zenon
    <3>4. k \in 0 .. l.pos - 2  BY <1>1, <3>3
    <3> QED  BY <1>6, <3>2, <3>4, Zenon
  <2>3. m.pos - 1 = l.pos - 2  BY <1>1, <1>6
  <2> QED  BY <2>1, <2>2, <2>3, Zenon DEF Listed
<1>12. Behind(kern2, tab2, m, o2, <<>>)
  <2>1. ASSUME NEW i \in 1 .. Len(o2)
        PROVE  /\ FdAt(m, <<>>, l.pos - Len(o) + i - 1) = o2[i]
               /\ FileAt(tab2, m, <<>>, l.pos - Len(o) + i - 1) = kern2[o2[i]]
    <3>1. i \in 1 .. Len(o) - 1 /\ i \in 1 .. Len(o) /\ l.pos - Len(o) + i - 1 \in 0 .. l.pos - 2
      <4> DEFINE T == l.pos
                 n == Len(o)
      <4>1. T \in Nat /\ n \in Nat /\ n <= T /\ i \in 1 .. n - 1  BY <1>1, <1>3, Zenon
      <4> HIDE DEF T, n
      <4>2. i \in 1 .. n - 1 /\ i \in 1 .. n /\ T - n + i - 1 \in 0 .. T - 2  BY <4>1
      <4> QED  BY <4>2, Zenon DEF T, n
    <3> DEFINE q == l.pos - Len(o) + i - 1
    <3>2. FdAt(l, <<>>, q) = o[i] /\ FileAt(tab, l, <<>>, q) = kern[o[i]]
      BY <1>1, <3>1, Zenon DEF Image, Behind
    <3>3. q < l.pos /\ q < m.pos /\ q \in 0 .. l.pos - 2  BY <1>1, <1>6, <3>1, SMTT(30)
    <3> HIDE DEF q
    <3>4. l.used[q] = o[i] /\ tab[l.used[q]] = kern[o[i]]  BY <3>2, <3>3, Zenon DEF FdAt, FileAt
    <3>5. o[i] # fd /\ o[i] \in Fd /\ m.used[q] = o[i] /\ o2[i] = o[i]  BY <1>3, <1>6, <1>9, <3>1, <3>3, <3>4, Zenon
    <3>6. kern2[o[i]] = kern[o[i]] /\ tab2[o[i]] = tab[o[i]]  BY <1>1, <3>5, Zenon DEF Files
    <3> HIDE DEF kern2, tab2
    <3>7. FdAt(m, <<>>, q) = o2[i] /\ FileAt(tab2, m, <<>>, q) = kern2[o2[i]]
      BY <3>3, <3>4, <3>5, <3>6, Zenon DEF FdAt, FileAt
    <3> QED  BY <3>7, Zenon DEF q
  <2>2. \A i \in 1 .. Len(o2) : Total(m, <<>>) - Len(o2) + i - 1 = l.pos - Len(o) + i - 1
    BY <1>1, <1>3, <1>8
  <2>3. Len(o2) <= Total(m, <<>>)
    BY <1>1, <1>3, <1>8
  <2> HIDE DEF kern2, tab2
  <2> QED  BY <2>1, <2>2, <2>3, Zenon DEF Behind
<1>13. Arranged(m)
  <2>1. \A k \in 0 .. m.pos - 1 : k \in 0 .. l.pos - 1 /\ m.used[k] = l.used[k]  BY <1>1, <1>6
  <2> QED  BY <2>1 DEF Image, Arranged
<1>14. ASSUME Orderly(kern, l, o, <<>>)  PROVE Orderly(kern2, m, o2, <<>>)
  <2>1. Total(m, <<>>) = Len(o2)  BY <1>1, <1>3, <1>8, <1>14, Zenon DEF Orderly
  <2>2. ASSUME NEW g \in Fd, kern2[g] # NULL  PROVE \E i \in 1 .. Len(o2) : o2[i] = g
    <3>1. g # fd /\ kern[g] # NULL  BY <1>1, <1>3, <2>2, Zenon DEF Files
    <3>2. PICK i \in 1 .. Len(o) : o[i] = g  BY <1>14, <3>1, Zenon DEF Orderly
    <3>3. i # Len(o)  BY <3>1, <3>2, Zenon
    <3>4. i \in 1 .. Len(o) - 1 /\ i \in 1 .. Len(o2)  BY <1>1, <1>3, <3>3
    <3> QED  BY <1>3, <3>2, <3>4, Zenon
  <2> QED  BY <2>1, <2>2, Zenon DEF Orderly
<1> QED  BY <1>1, <1>3, <1>6, <1>7, <1>10, <1>11, <1>12, <1>13, <1>14, Zenon DEF Image, m, o2

----------------------------------------------------------------------------
\* An entry still to restore is for a slot that is empty.
LEMMA NextIsFree ==
  ASSUME NEW kern, NEW tab, NEW l, NEW o, NEW d, Image(kern, tab, l, o, d), d # <<>>
  PROVE  /\ Head(d)[1] \in Fd /\ Head(d)[2] \in File /\ tab[Head(d)[1]] = NULL
         /\ \A k \in 0 .. l.pos - 1 : l.used[k] # Head(d)[1]
         /\ l.pos < MAX_FILES /\ l.pos \in Fd
<1>1. /\ l \in Lists /\ o \in Seq(Fd) /\ d \in Saves /\ tab \in Files /\ l.pos \in Nat /\ Len(d) \in Nat \ {0}
      /\ Total(l, d) = l.pos + Len(d)
      /\ \A k \in 0 .. l.pos - 1 : k \in Fd /\ l.used[k] \in Fd
  <2>1. l \in Lists /\ o \in Seq(Fd) /\ d \in Saves /\ tab \in Files  BY Zenon DEF Image
  <2>2. Len(d) # 0  BY <2>1 DEF Saves
  <2> QED  BY <2>1, <2>2, Numbers, Zenon
<1>2. d[1] = Head(d) /\ d[1] \in Fd \X File
  BY <1>1 DEF Saves
<1>3. Head(d)[1] \in Fd /\ Head(d)[2] \in File
  BY <1>2, Zenon
<1>4. FdAt(l, d, l.pos) = Head(d)[1]
  <2>1. l.pos - l.pos + 1 = 1 /\ ~(l.pos < l.pos)  BY <1>1
  <2> QED  BY <1>2, <2>1, Zenon DEF FdAt
<1>5. \A k \in 0 .. l.pos - 1 : k < l.pos /\ k # l.pos /\ k \in 0 .. Total(l, d) - 1 /\ l.pos \in 0 .. Total(l, d) - 1
  BY <1>1
<1>6. \A k \in 0 .. l.pos - 1 : l.used[k] # Head(d)[1]
  BY <1>4, <1>5, Zenon DEF Image, Distinct, FdAt
<1>7. tab[Head(d)[1]] = NULL
  BY <1>3, <1>6, Zenon DEF Image, Listed
<1>8. Arranged(l)
  BY Zenon DEF Image
<1>9. l.pos < MAX_FILES /\ l.pos \in Fd
  BY <1>1, <1>3, <1>6, <1>8, Room, Slots, Zenon
<1> QED  BY <1>3, <1>6, <1>7, <1>9, Zenon

\* The tail of a sequence.
LEMMA TailFacts ==
  ASSUME NEW S, NEW s \in Seq(S), s # <<>>
  PROVE  /\ Tail(s) \in Seq(S) /\ Len(Tail(s)) = Len(s) - 1 /\ Len(s) \in Nat \ {0}
         /\ \A i \in 1 .. Len(s) - 1 : Tail(s)[i] = s[i + 1]
  BY SMTT(30)

\* Restoring an entry moves it from what is to restore to the list: it stays
\* the same entry at the same place.
LEMMA RestoreImage ==
  ASSUME NEW kern, NEW tab, NEW l, NEW o, NEW d, Image(kern, tab, l, o, d), d # <<>>,
         NEW fd, fd = Head(d)[1], NEW f, f = Head(d)[2]
  PROVE  /\ Image(kern, [tab EXCEPT ![fd] = f], link_file_descriptor(l, fd), o, Tail(d))
         /\ Orderly(kern, l, o, d) => Orderly(kern, link_file_descriptor(l, fd), o, Tail(d))
<1> DEFINE m == link_file_descriptor(l, fd)
           tab2 == [tab EXCEPT ![fd] = f]
           e == Tail(d)
<1>1. /\ kern \in Files /\ tab \in Files /\ l \in Lists /\ o \in Seq(Fd) /\ d \in Saves
      /\ l.pos \in Nat /\ Len(o) \in Nat /\ Total(l, d) = l.pos + Len(d)
      /\ \A k \in 0 .. l.pos - 1 : k \in Fd /\ l.used[k] \in Fd
  BY Numbers, Zenon DEF Image
<1>2. /\ e \in Saves /\ Len(e) = Len(d) - 1 /\ Len(d) \in Nat \ {0}
      /\ \A i \in 1 .. Len(d) - 1 : e[i] = d[i + 1]
  BY <1>1, TailFacts, Zenon DEF Saves
<1>3. /\ fd \in Fd /\ f \in File /\ tab[fd] = NULL /\ l.pos < MAX_FILES /\ l.pos \in Fd
      /\ \A k \in 0 .. l.pos - 1 : l.used[k] # fd
  BY NextIsFree, Zenon
<1>4. d[1][1] = fd /\ d[1][2] = f
  BY <1>1, <1>2 DEF Saves
<1>5. /\ m \in Lists /\ m.pos = l.pos + 1 /\ m.used[l.pos] = fd /\ m.use_position[fd] = l.pos
      /\ \A k \in 0 .. l.pos - 1 : m.used[k] = l.used[k]
      /\ \A g \in Fd : g # fd => m.use_position[g] = l.use_position[g]
  <2>1. /\ m \in Lists /\ m.pos = l.pos + 1 /\ m.used[l.pos] = fd /\ m.use_position[fd] = l.pos
        /\ \A k \in Fd : k # l.pos => m.used[k] = l.used[k]
        /\ \A g \in Fd : g # fd => m.use_position[g] = l.use_position[g]
    BY <1>1, <1>3, Linked
  <2> QED  BY <1>1, <2>1
<1> HIDE DEF m, e
<1>6. tab2 \in Files /\ tab2[fd] = f /\ \A g \in Fd : g # fd => tab2[g] = tab[g]
  BY <1>1, <1>3, HandoffAssumption, Zenon DEF Files
<1> HIDE DEF tab2
<1>7. Total(m, e) = Total(l, d) /\ Total(l, d) \in Nat
  <2> DEFINE n == l.pos
             c == Len(d)
  <2>1. n \in Nat /\ c \in Nat \ {0}  BY <1>1, <1>2, Zenon
  <2>2. Total(m, e) = n + 1 + (c - 1) /\ Total(l, d) = n + c  BY <1>2, <1>5, Zenon DEF Total
  <2> HIDE DEF n, c
  <2> QED  BY <2>1, <2>2
<1>8. ASSUME NEW k \in 0 .. Total(l, d) - 1
      PROVE  FdAt(m, e, k) = FdAt(l, d, k) /\ FileAt(tab2, m, e, k) = FileAt(tab, l, d, k)
  <2>1. CASE k \in 0 .. l.pos - 1
    <3>1. k < l.pos /\ k < m.pos  BY <1>1, <1>5, <2>1
    <3>2. m.used[k] = l.used[k] /\ l.used[k] # fd /\ l.used[k] \in Fd  BY <1>1, <1>3, <1>5, <2>1, Zenon
    <3> QED  BY <1>6, <3>1, <3>2, Zenon DEF FdAt, FileAt
  <2>2. CASE k = l.pos
    <3>1. ~(k < l.pos) /\ k < m.pos /\ k - l.pos + 1 = 1  BY <1>1, <1>5, <2>2
    <3> QED  BY <1>4, <1>5, <1>6, <2>2, <3>1, Zenon DEF FdAt, FileAt
  <2>3. CASE k \in l.pos + 1 .. Total(l, d) - 1
    <3>1. /\ ~(k < l.pos) /\ ~(k < m.pos) /\ k - m.pos + 1 = k - l.pos
          /\ k - l.pos \in 1 .. Len(d) - 1
      <4> DEFINE a == l.pos
                 n == Len(d)
                 b == m.pos
                 T == Total(l, d)
      <4>1. a \in Nat /\ n \in Nat /\ b = a + 1 /\ T = a + n /\ k \in a + 1 .. T - 1
        BY <1>1, <1>2, <1>5, <2>3, Zenon
      <4> HIDE DEF a, n, b, T
      <4>2. ~(k < a) /\ ~(k < b) /\ k - b + 1 = k - a /\ k - a \in 1 .. n - 1
        BY <4>1
      <4> QED  BY <4>2, Zenon DEF a, n, b
    <3>2. e[k - m.pos + 1] = d[k - l.pos + 1]  BY <1>2, <3>1
    <3> QED  BY <3>1, <3>2, Zenon DEF FdAt, FileAt
  <2> QED  BY <1>1, <1>7, <2>1, <2>2, <2>3
<1>9. Distinct(m, e)
  BY <1>7, <1>8, Zenon DEF Image, Distinct
<1>10. Listed(tab2, m)
  <2>1. ASSUME NEW k \in 0 .. l.pos
        PROVE  tab2[m.used[k]] # NULL /\ m.use_position[m.used[k]] >= k
    <3>1. CASE k = l.pos  BY <1>1, <1>3, <1>5, <1>6, <3>1, HandoffAssumption
    <3>2. CASE k \in 0 .. l.pos - 1
      <4>1. tab[l.used[k]] # NULL /\ l.use_position[l.used[k]] >= k  BY <3>2, Zenon DEF Image, Listed
      <4>2. m.used[k] = l.used[k] /\ l.used[k] \in Fd /\ l.used[k] # fd  BY <1>1, <1>3, <1>5, <3>2, Zenon
      <4> QED  BY <1>5, <1>6, <4>1, <4>2, Zenon
    <3> QED  BY <1>1, <3>1, <3>2
  <2>2. ASSUME NEW g \in Fd, tab2[g] # NULL  PROVE \E k \in 0 .. l.pos : m.used[k] = g
    <3>1. CASE g = fd  BY <1>1, <1>5, <3>1
    <3>2. CASE g # fd
      <4>1. PICK k \in 0 .. l.pos - 1 : l.used[k] = g  BY <1>6, <2>2, <3>2, Zenon DEF Image, Listed
      <4>2. k \in 0 .. l.pos  BY <1>1
      <4> QED  BY <1>5, <4>1, <4>2, Zenon
    <3> QED  BY <3>1, <3>2, Zenon
  <2>3. m.pos - 1 = l.pos  BY <1>1, <1>5
  <2> QED  BY <2>1, <2>2, <2>3, Zenon DEF Listed
<1>11. Behind(kern, tab2, m, o, e)
  <2>1. Len(o) <= Total(l, d)  BY Zenon DEF Image, Behind
  <2>2. \A i \in 1 .. Len(o) : Total(l, d) - Len(o) + i - 1 \in 0 .. Total(l, d) - 1
    <3> DEFINE T == Total(l, d)
               n == Len(o)
    <3>1. T \in Nat /\ n \in Nat /\ n <= T  BY <1>1, <1>7, <2>1, Zenon
    <3> HIDE DEF T, n
    <3>2. \A i \in 1 .. n : T - n + i - 1 \in 0 .. T - 1  BY <3>1
    <3> QED  BY <3>2, Zenon DEF T, n
  <2> QED  BY <1>7, <1>8, <2>1, <2>2, Zenon DEF Image, Behind
<1>12. Orderly(kern, l, o, d) => Orderly(kern, m, o, e)
  BY <1>7, Zenon DEF Orderly
<1>13. Arranged(m)
  <2>1. Arranged(l)  BY Zenon DEF Image
  <2> QED  BY <1>1, <1>3, <1>5, <2>1, StoreArranged, Zenon
<1> QED  BY <1>1, <1>2, <1>5, <1>6, <1>9, <1>10, <1>11, <1>12, <1>13, Zenon DEF Image, m, e, tab2

----------------------------------------------------------------------------
\* What save_file_handles_to_shared_space writes for a table and its list.
Snapshot(tab, l) == [i \in 1 .. l.pos |-> <<l.used[i - 1], tab[l.used[i - 1]]>>]

\* No entry of the list is of an empty slot, and a save has each slot once.
LEMMA SnapshotFacts ==
  ASSUME NEW kern, NEW tab, NEW l, NEW o, Image(kern, tab, l, o, <<>>)
  PROVE  /\ l.pos \in Nat
         /\ \A i \in 1 .. l.pos : i - 1 \in 0 .. l.pos - 1 /\ l.used[i - 1] \in Fd /\ tab[l.used[i - 1]] \in File
         /\ Snapshot(tab, l) \in Saves /\ Len(Snapshot(tab, l)) = l.pos
         /\ OncePerFd(Snapshot(tab, l))
<1>1. /\ tab \in Files /\ l \in Lists /\ o \in Seq(Fd) /\ <<>> \in Saves /\ l.pos \in Nat
      /\ \A k \in 0 .. l.pos - 1 : k \in Fd /\ l.used[k] \in Fd
      /\ Total(l, <<>>) = l.pos
  BY Numbers DEF Image, Total
<1>2. \A i \in 1 .. l.pos : i - 1 \in 0 .. l.pos - 1
  BY <1>1
<1>3. ASSUME NEW i \in 1 .. l.pos  PROVE l.used[i - 1] \in Fd /\ tab[l.used[i - 1]] \in File
  <2>1. l.used[i - 1] \in Fd  BY <1>1, <1>2, Zenon
  <2>2. tab[l.used[i - 1]] # NULL  BY <1>2, Zenon DEF Image, Listed
  <2> QED  BY <1>1, <2>1, <2>2, Zenon DEF Files
<1>4. Snapshot(tab, l) \in Saves /\ Len(Snapshot(tab, l)) = l.pos
  <2>1. \A i \in 1 .. l.pos : <<l.used[i - 1], tab[l.used[i - 1]]>> \in Fd \X File  BY <1>3, Zenon
  <2> DEFINE n == l.pos
             s == Snapshot(tab, l)
  <2>2. n \in Nat /\ s \in [1 .. n -> Fd \X File]  BY <1>1, <2>1, Zenon DEF Snapshot
  <2> HIDE DEF n, s
  <2>3. s \in Seq(Fd \X File) /\ Len(s) = n  BY <2>2
  <2> QED  BY <2>3, Zenon DEF n, s, Saves
<1>5. ASSUME NEW i \in 1 .. l.pos, NEW j \in 1 .. l.pos, Snapshot(tab, l)[i][1] = Snapshot(tab, l)[j][1]
      PROVE  i = j
  <2>1. l.used[i - 1] = l.used[j - 1]  BY <1>5, Zenon DEF Snapshot
  <2>2. i - 1 < l.pos /\ j - 1 < l.pos /\ i - 1 \in 0 .. l.pos - 1 /\ j - 1 \in 0 .. l.pos - 1  BY <1>1
  <2>3. i - 1 = j - 1  BY <1>1, <2>1, <2>2, Zenon DEF Image, Distinct, FdAt
  <2> QED  BY <2>3
<1> QED  BY <1>1, <1>2, <1>3, <1>4, <1>5, Zenon DEF OncePerFd

\* Across exec the entries stay the same at the same places, to be restored;
\* a program without entries restores what was there before.
LEMMA ExecImage ==
  ASSUME NEW kern, NEW tab, NEW l, NEW o, Image(kern, tab, l, o, <<>>),
         NEW old \in Saves, OncePerFd(old),
         NEW s, s = IF l.pos = 0 THEN old ELSE Snapshot(tab, l)
  PROVE  /\ Image(kern, NoFiles, EmptyList, o, s) /\ s \in Saves /\ OncePerFd(s)
         /\ (l.pos > 0 \/ old = <<>>) /\ Orderly(kern, l, o, <<>>) => Orderly(kern, EmptyList, o, s)
<1>1. /\ kern \in Files /\ tab \in Files /\ l \in Lists /\ o \in Seq(Fd) /\ <<>> \in Saves
      /\ l.pos \in Nat /\ Len(o) \in Nat /\ Len(o) <= l.pos /\ Total(l, <<>>) = l.pos
  BY Numbers DEF Image, Behind, Total
<1>2. s \in Saves /\ OncePerFd(s)
  BY SnapshotFacts, Zenon
<1>3. Image(kern, NoFiles, EmptyList, <<>>, s)
  BY <1>1, <1>2, NewImage, Zenon
<1>4. EmptyList.pos = 0 /\ Len(s) \in Nat /\ Total(EmptyList, s) = Len(s)
  BY <1>2 DEF EmptyList, Total, Saves
<1>5. CASE l.pos = 0
  <2>1. o = <<>>
    <3>1. Len(o) = 0  BY <1>1, <1>5
    <3> QED  BY <1>1, <3>1
  <2>2. Total(l, <<>>) = 0 /\ (old = <<>> => Total(EmptyList, s) = 0)  BY <1>1, <1>4, <1>5, Zenon
  <2>3. ~(l.pos > 0)  BY <1>5
  <2> QED  BY <1>2, <1>3, <2>1, <2>2, <2>3, Zenon DEF Orderly
<1>6. CASE l.pos # 0
  <2>1. s = Snapshot(tab, l) /\ Len(s) = l.pos  BY <1>6, SnapshotFacts, Zenon
  <2>2. ASSUME NEW k \in 0 .. l.pos - 1
        PROVE  FdAt(EmptyList, s, k) = FdAt(l, <<>>, k) /\ FileAt(NoFiles, EmptyList, s, k) = FileAt(tab, l, <<>>, k)
    <3>1. k < l.pos /\ ~(k < 0) /\ k - 0 + 1 \in 1 .. l.pos /\ (k - 0 + 1) - 1 = k  BY <1>1
    <3>2. s[k - 0 + 1] = <<l.used[k], tab[l.used[k]]>>  BY <2>1, <3>1, Zenon DEF Snapshot
    <3> QED  BY <1>4, <3>1, <3>2 DEF FdAt, FileAt
  <2>3. Behind(kern, NoFiles, EmptyList, o, s)
    <3>1. \A i \in 1 .. Len(o) : l.pos - Len(o) + i - 1 \in 0 .. l.pos - 1
      <4> DEFINE T == l.pos
                 n == Len(o)
      <4>1. T \in Nat /\ n \in Nat /\ n <= T  BY <1>1, Zenon
      <4> HIDE DEF T, n
      <4>2. \A i \in 1 .. n : T - n + i - 1 \in 0 .. T - 1  BY <4>1
      <4> QED  BY <4>2, Zenon DEF T, n
    <3>2. Total(EmptyList, s) = l.pos  BY <1>4, <2>1, Zenon
    <3> QED  BY <1>1, <2>2, <3>1, <3>2, Zenon DEF Image, Behind
  <2>4. Image(kern, NoFiles, EmptyList, o, s)  BY <1>1, <1>3, <2>3, Zenon DEF Image
  <2>5. Total(EmptyList, s) = Total(l, <<>>)  BY <1>1, <1>4, <2>1, Zenon
  <2> QED  BY <1>2, <2>4, <2>5, Zenon DEF Orderly
<1> QED  BY <1>5, <1>6, Zenon

\* What the program has opened is served.
LEMMA ImageServes ==
  ASSUME NEW kern, NEW tab, NEW l, NEW o, Image(kern, tab, l, o, <<>>)
  PROVE  \A i \in DOMAIN o : kern[o[i]] # NULL /\ tab[o[i]] = kern[o[i]]
<1>1. /\ l \in Lists /\ o \in Seq(Fd) /\ <<>> \in Saves
      /\ l.pos \in Nat /\ Len(o) \in Nat /\ Len(o) <= l.pos /\ Total(l, <<>>) = l.pos
      /\ DOMAIN o = 1 .. Len(o)
  BY Numbers DEF Image, Behind, Total
<1> SUFFICES ASSUME NEW i \in 1 .. Len(o)  PROVE kern[o[i]] # NULL /\ tab[o[i]] = kern[o[i]]
  BY <1>1, Zenon
<1> DEFINE q == l.pos - Len(o) + i - 1
<1>2. q \in 0 .. l.pos - 1 /\ q < l.pos  BY <1>1
<1>3. FdAt(l, <<>>, q) = o[i] /\ FileAt(tab, l, <<>>, q) = kern[o[i]]
  BY <1>1, Zenon DEF Image, Behind
<1> HIDE DEF q
<1>4. l.used[q] = o[i] /\ tab[l.used[q]] = kern[o[i]] /\ tab[l.used[q]] # NULL
  BY <1>2, <1>3, Zenon DEF FdAt, FileAt, Image, Listed
<1> QED  BY <1>4, Zenon

\* The table of an image that found nothing left by others is the kernel's, and
\* its list is what was opened.
LEMMA OrderlyServes ==
  ASSUME NEW kern, NEW tab, NEW l, NEW o, Image(kern, tab, l, o, <<>>), Orderly(kern, l, o, <<>>)
  PROVE  tab = kern /\ [i \in 1 .. l.pos |-> l.used[i - 1]] = o
<1>1. /\ kern \in Files /\ tab \in Files /\ l \in Lists /\ o \in Seq(Fd) /\ <<>> \in Saves
      /\ l.pos \in Nat /\ Len(o) = l.pos /\ Total(l, <<>>) = l.pos
      /\ DOMAIN o = 1 .. l.pos
  BY Numbers DEF Image, Orderly, Total
<1>2. ASSUME NEW i \in 1 .. l.pos  PROVE l.used[i - 1] = o[i]
  <2>1. l.pos - l.pos + i - 1 = i - 1 /\ i - 1 < l.pos  BY <1>1
  <2>2. FdAt(l, <<>>, i - 1) = o[i]  BY <1>1, <2>1, Zenon DEF Image, Behind
  <2> QED  BY <2>1, <2>2, Zenon DEF FdAt
<1>3. [i \in 1 .. l.pos |-> l.used[i - 1]] = o
  <2>1. o = [i \in 1 .. l.pos |-> o[i]]  BY <1>1
  <2> QED  BY <1>2, <2>1, Zenon
<1>4. \A i \in 1 .. l.pos : tab[o[i]] = kern[o[i]]
  BY <1>1, ImageServes
<1>5. ASSUME NEW fd \in Fd  PROVE tab[fd] = kern[fd]
  <2>1. CASE kern[fd] # NULL  BY <1>1, <1>4, <2>1, Zenon DEF Orderly
  <2>2. CASE tab[fd] # NULL
    <3>1. PICK k \in 0 .. l.pos - 1 : l.used[k] = fd  BY <2>2, Zenon DEF Image, Listed
    <3>2. k + 1 \in 1 .. l.pos /\ (k + 1) - 1 = k  BY <1>1
    <3>3. o[k + 1] = fd  BY <1>2, <3>1, <3>2, Zenon
    <3> QED  BY <1>4, <3>2, <3>3, Zenon
  <2> QED  BY <2>1, <2>2, Zenon
<1> QED  BY <1>1, <1>3, <1>5 DEF Files
----------------------------------------------------------------------------
\* Process p alone takes a step.
OnlyAt(p) ==
  /\ kernel_fds' = [kernel_fds EXCEPT ![p] = kernel_fds'[p]]
  /\ table' = [table EXCEPT ![p] = table'[p]]
  /\ list' = [list EXCEPT ![p] = list'[p]]
  /\ opened' = [opened EXCEPT ![p] = opened'[p]]
  /\ todo' = [todo EXCEPT ![p] = todo'[p]]
  /\ space' = [space EXCEPT ![p] = space'[p]]
  /\ live' \subseteq Pid /\ \A q \in Pid : q # p => (q \in live' <=> q \in live)
  /\ crashed' = crashed /\ reuse' = reuse

\* The images are separate: a step of process p has to be examined for p only.
LEMMA Elsewhere ==
  ASSUME HandoffInv, NEW p \in Pid, OnlyAt(p), ProcInv(p)'
  PROVE  HandoffInv'
<1>1. /\ kernel_fds' = [q \in Pid |-> kernel_fds'[q]] /\ table' = [q \in Pid |-> table'[q]]
      /\ list' = [q \in Pid |-> list'[q]] /\ opened' = [q \in Pid |-> opened'[q]]
  BY Zenon DEF HandoffInv, OnlyAt
<1>2. todo' = [q \in Pid |-> todo'[q]] /\ space' = [q \in Pid |-> space'[q]]
  BY Zenon DEF HandoffInv, OnlyAt
<1>3. ASSUME NEW q \in Pid, q # p  PROVE ProcInv(q)'
  <2>1. /\ kernel_fds'[q] = kernel_fds[q] /\ table'[q] = table[q] /\ list'[q] = list[q]
        /\ opened'[q] = opened[q] /\ todo'[q] = todo[q] /\ space'[q] = space[q]
        /\ (q \in live' <=> q \in live) /\ reuse' = reuse
    BY <1>3, Zenon DEF HandoffInv, OnlyAt
  <2>2. ProcInv(q)  BY Zenon DEF HandoffInv
  <2> QED  BY <2>1, <2>2, Zenon DEF ProcInv
<1>4. live' \subseteq Pid /\ crashed' = {}
  BY Zenon DEF HandoffInv, OnlyAt
<1> QED  BY <1>1, <1>2, <1>3, <1>4, Zenon DEF HandoffInv

\* The first states.
LEMMA InitHolds == MCInit => HandoffInv
<1> SUFFICES ASSUME MCInit  PROVE HandoffInv
  BY Zenon
<1>1. live \subseteq Pid /\ crashed = {}
  BY Zenon DEF MCInit, Init
<1>2. /\ kernel_fds = [p \in Pid |-> kernel_fds[p]] /\ table = [p \in Pid |-> table[p]]
      /\ list = [p \in Pid |-> list[p]] /\ opened = [p \in Pid |-> opened[p]]
      /\ todo = [p \in Pid |-> todo[p]] /\ space = [p \in Pid |-> space[p]]
  BY Zenon DEF MCInit, Init
<1>3. <<>> \in Saves /\ OncePerFd(<<>>) /\ NoFiles \in Files
  BY DEF Saves, OncePerFd, NoFiles, Files
<1>4. Image(NoFiles, NoFiles, EmptyList, <<>>, <<>>)
  BY <1>3, NewImage, Zenon
<1>5. Orderly(NoFiles, EmptyList, <<>>, <<>>)
  BY DEF Orderly, Total, EmptyList, NoFiles
<1>6. ASSUME NEW p \in Pid  PROVE ProcInv(p)
  <2>1. /\ kernel_fds[p] = NoFiles /\ table[p] = NoFiles /\ list[p] = EmptyList
        /\ opened[p] = <<>> /\ todo[p] = <<>> /\ space[p] = <<>>
    BY Zenon DEF MCInit, Init
  <2> QED  BY <1>3, <1>4, <1>5, <2>1, Zenon DEF ProcInv
<1> QED  BY <1>1, <1>2, <1>6, Zenon DEF HandoffInv

\* What is left to show when one process took a step and still runs.
LEMMA Runs ==
  ASSUME NEW p \in Pid, p \in live', reuse' = reuse, space'[p] \in Saves, OncePerFd(space'[p]),
         Image(kernel_fds'[p], table'[p], list'[p], opened'[p], todo'[p]),
         ~reuse => Orderly(kernel_fds'[p], list'[p], opened'[p], todo'[p])
  PROVE  ProcInv(p)'
  BY Zenon DEF ProcInv

\* What ProcInv says of a process that runs.
LEMMA Ran ==
  ASSUME NEW p \in Pid, ProcInv(p)
  PROVE  /\ Image(kernel_fds[p], table[p], list[p], opened[p], todo[p])
         /\ ~reuse => Orderly(kernel_fds[p], list[p], opened[p], todo[p])
         /\ space[p] \in Saves /\ OncePerFd(space[p])
  BY Zenon DEF ProcInv

\* open in the slot the kernel's number leads to.
LEMMA OpenStep ==
  ASSUME HandoffInv, NEW p \in Pid, open(p), UNCHANGED reuse
  PROVE  HandoffInv'
<1>1. PICK fd \in Reserved .. MAX_FILES - 1, f \in File :
        /\ table[p][fd] = NULL
        /\ kernel_fds' = [kernel_fds EXCEPT ![p][fd] = f]
        /\ table' = [table EXCEPT ![p][fd] = f]
        /\ list' = [list EXCEPT ![p] = link_file_descriptor(@, fd)]
        /\ opened' = [opened EXCEPT ![p] = Append(@, fd)]
  BY Zenon DEF open
<1>2. fd \in Fd
  BY HandoffAssumption, MaxFilesAssumption DEF Fd
<1>3. ProcInv(p) /\ todo[p] = <<>> /\ p \in live /\ UNCHANGED <<live, todo, space, reuse>>
  BY Zenon DEF HandoffInv, open, Running
<1>4. /\ kernel_fds'[p] = [kernel_fds[p] EXCEPT ![fd] = f] /\ table'[p] = [table[p] EXCEPT ![fd] = f]
      /\ list'[p] = link_file_descriptor(list[p], fd) /\ opened'[p] = Append(opened[p], fd)
  BY <1>1, Zenon DEF HandoffInv
<1>5. /\ Image([kernel_fds[p] EXCEPT ![fd] = f], [table[p] EXCEPT ![fd] = f],
               link_file_descriptor(list[p], fd), Append(opened[p], fd), <<>>)
      /\ ~reuse => Orderly([kernel_fds[p] EXCEPT ![fd] = f], link_file_descriptor(list[p], fd),
                           Append(opened[p], fd), <<>>)
  <2>1. /\ Image(kernel_fds[p], table[p], list[p], opened[p], <<>>)
        /\ ~reuse => Orderly(kernel_fds[p], list[p], opened[p], <<>>)
    BY <1>3, Ran, Zenon
  <2>2. table[p][fd] = NULL  BY <1>1, Zenon
  <2> QED  BY <1>2, <2>1, <2>2, OpenImage, Zenon
<1>6. /\ Image(kernel_fds'[p], table'[p], list'[p], opened'[p], todo'[p])
      /\ ~reuse => Orderly(kernel_fds'[p], list'[p], opened'[p], todo'[p])
  BY <1>3, <1>4, <1>5, Zenon
<1>7. ProcInv(p)'
  BY <1>3, <1>6, Ran, Runs, Zenon
<1>8. OnlyAt(p)
  BY <1>1, Zenon DEF HandoffInv, OnlyAt, open
<1> QED  BY <1>7, <1>8, Elsewhere, Zenon

\* An open that finds the slot occupied.
LEMMA OpenExistsStep ==
  ASSUME HandoffInv, NEW p \in Pid, open_exists(p), reuse, UNCHANGED reuse
  PROVE  HandoffInv'
<1>1. PICK fd \in Reserved .. MAX_FILES - 1, f \in File :
        kernel_fds[p][fd] = NULL /\ kernel_fds' = [kernel_fds EXCEPT ![p][fd] = f]
  BY Zenon DEF open_exists
<1>2. fd \in Fd
  BY HandoffAssumption, MaxFilesAssumption DEF Fd
<1>3. ProcInv(p) /\ todo[p] = <<>> /\ p \in live
      /\ UNCHANGED <<live, table, list, opened, todo, space, reuse>>
  BY Zenon DEF HandoffInv, open_exists, Running
<1>4. kernel_fds'[p] = [kernel_fds[p] EXCEPT ![fd] = f]
  BY <1>1, Zenon DEF HandoffInv
<1>5. Image([kernel_fds[p] EXCEPT ![fd] = f], table[p], list[p], opened[p], <<>>)
  <2>1. Image(kernel_fds[p], table[p], list[p], opened[p], <<>>)  BY <1>3, Ran, Zenon
  <2>2. kernel_fds[p][fd] = NULL  BY <1>1, Zenon
  <2> QED  BY <1>2, <2>1, <2>2, ForgottenFd, Zenon
<1>6. Image(kernel_fds'[p], table'[p], list'[p], opened'[p], todo'[p])
  BY <1>3, <1>4, <1>5, Zenon
<1>7. ProcInv(p)'
  BY <1>3, <1>6, Ran, Runs, Zenon
<1>8. OnlyAt(p)
  BY <1>1, Zenon DEF HandoffInv, OnlyAt, open_exists
<1> QED  BY <1>7, <1>8, Elsewhere, Zenon

\* Closing what was opened last.
LEMMA CloseStep ==
  ASSUME HandoffInv, NEW p \in Pid, closes_last(p), UNCHANGED reuse
  PROVE  HandoffInv'
<1> DEFINE fd == opened[p][Len(opened[p])]
<1>1. ProcInv(p) /\ todo[p] = <<>> /\ p \in live /\ opened[p] # <<>>
      /\ UNCHANGED <<live, todo, space, reuse>>
  BY Zenon DEF HandoffInv, closes_last, close, Running
<1>2. /\ kernel_fds'[p] = [kernel_fds[p] EXCEPT ![fd] = NULL] /\ table'[p] = [table[p] EXCEPT ![fd] = NULL]
      /\ list'[p] = unlink_file_descriptor(list[p], fd)
      /\ opened'[p] = Without(opened[p], Len(opened[p]))
  BY Zenon DEF HandoffInv, closes_last, close
<1>3. /\ Image([kernel_fds[p] EXCEPT ![fd] = NULL], [table[p] EXCEPT ![fd] = NULL],
               unlink_file_descriptor(list[p], fd), Without(opened[p], Len(opened[p])), <<>>)
      /\ ~reuse => Orderly([kernel_fds[p] EXCEPT ![fd] = NULL], unlink_file_descriptor(list[p], fd),
                           Without(opened[p], Len(opened[p])), <<>>)
  <2>1. /\ Image(kernel_fds[p], table[p], list[p], opened[p], <<>>)
        /\ ~reuse => Orderly(kernel_fds[p], list[p], opened[p], <<>>)
    BY <1>1, Ran, Zenon
  <2>2. opened[p] # <<>>  BY <1>1, Zenon
  <2> QED  BY <2>1, <2>2, CloseImage, Zenon
<1>4. /\ Image(kernel_fds'[p], table'[p], list'[p], opened'[p], todo'[p])
      /\ ~reuse => Orderly(kernel_fds'[p], list'[p], opened'[p], todo'[p])
  BY <1>1, <1>2, <1>3, Zenon
<1>5. ProcInv(p)'
  BY <1>1, <1>4, Ran, Runs, Zenon
<1>6. OnlyAt(p)
  BY Zenon DEF HandoffInv, OnlyAt, closes_last, close
<1> QED  BY <1>5, <1>6, Elsewhere, Zenon

\* An iteration of the constructor's loop.
LEMMA RestoreStep ==
  ASSUME HandoffInv, NEW p \in Pid, restore(p), UNCHANGED reuse
  PROVE  HandoffInv'
<1> DEFINE fd == Head(todo[p])[1]
           f == Head(todo[p])[2]
<1>1. ProcInv(p) /\ todo[p] # <<>> /\ p \in live
  BY Zenon DEF HandoffInv, restore
<1>2. /\ Image(kernel_fds[p], table[p], list[p], opened[p], todo[p])
      /\ ~reuse => Orderly(kernel_fds[p], list[p], opened[p], todo[p])
  BY <1>1, Ran, Zenon
<1>3. table[p][fd] = NULL
  BY <1>1, <1>2, NextIsFree
<1>4. /\ table' = [table EXCEPT ![p][fd] = f]
      /\ list' = [list EXCEPT ![p] = link_file_descriptor(@, fd)]
      /\ todo' = [todo EXCEPT ![p] = Tail(@)]
      /\ UNCHANGED <<live, kernel_fds, opened, space, crashed>>
  BY <1>3, Zenon DEF restore
<1>5. /\ table'[p] = [table[p] EXCEPT ![fd] = f] /\ list'[p] = link_file_descriptor(list[p], fd)
      /\ todo'[p] = Tail(todo[p])
  BY <1>4, Zenon DEF HandoffInv
<1>6. /\ Image(kernel_fds[p], [table[p] EXCEPT ![fd] = f], link_file_descriptor(list[p], fd),
               opened[p], Tail(todo[p]))
      /\ ~reuse => Orderly(kernel_fds[p], link_file_descriptor(list[p], fd), opened[p], Tail(todo[p]))
  BY <1>1, <1>2, RestoreImage, Zenon
<1>7. /\ Image(kernel_fds'[p], table'[p], list'[p], opened'[p], todo'[p])
      /\ ~reuse => Orderly(kernel_fds'[p], list'[p], opened'[p], todo'[p])
  BY <1>4, <1>5, <1>6, Zenon
<1>8. p \in live' /\ space' = space  BY <1>1, <1>4, Zenon
<1>9. ProcInv(p)'
  BY <1>1, <1>7, <1>8, Ran, Runs, Zenon
<1>10. OnlyAt(p)
  BY <1>4, Zenon DEF HandoffInv, OnlyAt
<1> QED  BY <1>9, <1>10, Elsewhere, Zenon

\* What p saves follows no NULL pointer and is the entries of its image.
LEMMA SaveFacts ==
  ASSUME HandoffInv, NEW p \in Pid, todo[p] = <<>>
  PROVE  /\ ~SaveFaults(p)
         /\ Saved(p) = IF list[p].pos = 0 THEN space[p] ELSE Snapshot(table[p], list[p])
<1>1. Image(kernel_fds[p], table[p], list[p], opened[p], <<>>)
  BY Zenon DEF HandoffInv, ProcInv
<1>2. \A i \in 1 .. list[p].pos :
        table[p][list[p].used[i - 1]] \in File /\ Walked(p)[i] = list[p].used[i - 1]
  BY <1>1, SnapshotFacts, Zenon DEF Walked
<1>3. ~SaveFaults(p)
  BY <1>2, HandoffAssumption, Zenon DEF SaveFaults
<1>4. Saved(p) = IF list[p].pos = 0 THEN space[p] ELSE Snapshot(table[p], list[p])
  BY <1>2, Zenon DEF Saved, Snapshot
<1> QED  BY <1>3, <1>4, Zenon

\* exec, by programs that reuse pids or replace what is saved there.
LEMMA ExecStep ==
  ASSUME HandoffInv, NEW p \in Pid, exec(p), reuse \/ Replaces(p), UNCHANGED reuse
  PROVE  HandoffInv'
<1>1. ProcInv(p) /\ todo[p] = <<>> /\ p \in live
  BY Zenon DEF HandoffInv, exec, Running
<1>2. /\ space'[p] = Saved(p) /\ table'[p] = NoFiles /\ list'[p] = EmptyList
      /\ todo'[p] = Saved(p) /\ kernel_fds'[p] = kernel_fds[p] /\ opened'[p] = opened[p]
      /\ p \in live' /\ reuse' = reuse
  BY <1>1, Zenon DEF HandoffInv, exec, init_shared_space, get_shared_space
<1>3. Saved(p) = IF list[p].pos = 0 THEN space[p] ELSE Snapshot(table[p], list[p])
  BY <1>1, SaveFacts, Zenon
<1>4. /\ Image(kernel_fds[p], NoFiles, EmptyList, opened[p], Saved(p))
      /\ Saved(p) \in Saves /\ OncePerFd(Saved(p))
      /\ (list[p].pos > 0 \/ space[p] = <<>>) /\ Orderly(kernel_fds[p], list[p], opened[p], <<>>) =>
           Orderly(kernel_fds[p], EmptyList, opened[p], Saved(p))
  <2>1. /\ Image(kernel_fds[p], table[p], list[p], opened[p], <<>>)
        /\ space[p] \in Saves /\ OncePerFd(space[p])
    BY <1>1, Ran, Zenon
  <2> QED  BY <1>3, <2>1, ExecImage, Zenon
<1>5. ProcInv(p)'
  <2>1. Image(kernel_fds'[p], table'[p], list'[p], opened'[p], todo'[p])
    BY <1>2, <1>4, Zenon
  <2>2. ~reuse => Orderly(kernel_fds[p], list[p], opened[p], <<>>) /\ (list[p].pos > 0 \/ space[p] = <<>>)
    BY <1>1, Ran, Zenon DEF Replaces
  <2>3. ~reuse => Orderly(kernel_fds'[p], list'[p], opened'[p], todo'[p])
    BY <1>2, <1>4, <2>2, Zenon
  <2>4. space'[p] \in Saves /\ OncePerFd(space'[p])  BY <1>2, <1>4, Zenon
  <2> QED  BY <1>2, <2>1, <2>3, <2>4, Runs, Zenon
<1>6. OnlyAt(p)
  BY Zenon DEF HandoffInv, OnlyAt, exec, init_shared_space, get_shared_space
<1> QED  BY <1>5, <1>6, Elsewhere, Zenon

\* A failed exec leaves the saved table behind.
LEMMA ExecFailsStep ==
  ASSUME HandoffInv, NEW p \in Pid, exec_fails(p), UNCHANGED reuse
  PROVE  HandoffInv'
<1>1. ProcInv(p) /\ todo[p] = <<>> /\ p \in live
  BY Zenon DEF HandoffInv, exec_fails, Running
<1>2. /\ space'[p] = Saved(p) /\ table'[p] = table[p] /\ list'[p] = list[p]
      /\ todo'[p] = todo[p] /\ kernel_fds'[p] = kernel_fds[p] /\ opened'[p] = opened[p]
      /\ p \in live' /\ reuse' = reuse
  BY <1>1, Zenon DEF HandoffInv, exec_fails, init_shared_space
<1>3. Saved(p) = IF list[p].pos = 0 THEN space[p] ELSE Snapshot(table[p], list[p])
  BY <1>1, SaveFacts, Zenon
<1>4. Saved(p) \in Saves /\ OncePerFd(Saved(p))
  <2>1. /\ Image(kernel_fds[p], table[p], list[p], opened[p], <<>>)
        /\ space[p] \in Saves /\ OncePerFd(space[p])
    BY <1>1, Ran, Zenon
  <2> QED  BY <1>3, <2>1, ExecImage, Zenon
<1>5. ProcInv(p)'
  <2>1. /\ Image(kernel_fds'[p], table'[p], list'[p], opened'[p], todo'[p])
        /\ ~reuse => Orderly(kernel_fds'[p], list'[p], opened'[p], todo'[p])
    BY <1>1, <1>2, Ran, Zenon
  <2>2. space'[p] \in Saves /\ OncePerFd(space'[p])  BY <1>2, <1>4, Zenon
  <2> QED  BY <1>2, <2>1, <2>2, Runs, Zenon
<1>6. OnlyAt(p)
  BY Zenon DEF HandoffInv, OnlyAt, exec_fails, init_shared_space
<1> QED  BY <1>5, <1>6, Elsewhere, Zenon

\* A process that is gone, or starts: an image with nothing in its table.
LEMMA FreshImage ==
  ASSUME NEW d \in Saves, OncePerFd(d)
  PROVE  /\ Image(NoFiles, NoFiles, EmptyList, <<>>, d)
         /\ d = <<>> => Orderly(NoFiles, EmptyList, <<>>, d)
<1>1. NoFiles \in Files
  BY Zenon DEF NoFiles, Files
<1>2. d = <<>> => Orderly(NoFiles, EmptyList, <<>>, d)
  BY DEF Orderly, Total, EmptyList, NoFiles
<1> QED  BY <1>1, <1>2, NewImage, Zenon

\* exit.
LEMMA ExitStep ==
  ASSUME HandoffInv, NEW p \in Pid, exit(p), UNCHANGED reuse
  PROVE  HandoffInv'
<1>1. /\ kernel_fds'[p] = NoFiles /\ table'[p] = NoFiles /\ list'[p] = EmptyList
      /\ opened'[p] = <<>> /\ todo'[p] = <<>> /\ space'[p] = space[p]
  BY Zenon DEF HandoffInv, exit, End
<1>2. <<>> \in Saves /\ OncePerFd(<<>>)
  BY DEF Saves, OncePerFd
<1>3. Image(NoFiles, NoFiles, EmptyList, <<>>, <<>>) /\ Orderly(NoFiles, EmptyList, <<>>, <<>>)
  BY <1>2, FreshImage, Zenon
<1>4. ProcInv(p)
  BY Zenon DEF HandoffInv
<1>5. ProcInv(p)'
  BY <1>1, <1>3, <1>4, Zenon DEF ProcInv
<1>6. OnlyAt(p)
  BY Zenon DEF HandoffInv, OnlyAt, exit, End
<1> QED  BY <1>5, <1>6, Elsewhere, Zenon

\* A start under a pid that may have a shared space.
LEMMA StartStep ==
  ASSUME HandoffInv, NEW p \in Pid, start(p), reuse \/ space[p] = <<>>, UNCHANGED reuse
  PROVE  HandoffInv'
<1>1. ProcInv(p) /\ p \notin live
  BY Zenon DEF HandoffInv, start
<1>2. /\ kernel_fds'[p] = NoFiles /\ table'[p] = NoFiles /\ list'[p] = EmptyList
      /\ opened'[p] = <<>> /\ todo'[p] = space[p] /\ space'[p] = space[p] /\ p \in live' /\ reuse' = reuse
  BY <1>1, Zenon DEF HandoffInv, ProcInv, start, get_shared_space
<1>3. /\ Image(NoFiles, NoFiles, EmptyList, <<>>, space[p])
      /\ space[p] = <<>> => Orderly(NoFiles, EmptyList, <<>>, space[p])
  BY <1>1, Ran, FreshImage, Zenon
<1>4. ProcInv(p)'
  <2>1. /\ Image(kernel_fds'[p], table'[p], list'[p], opened'[p], todo'[p])
        /\ ~reuse => Orderly(kernel_fds'[p], list'[p], opened'[p], todo'[p])
    BY <1>2, <1>3, Zenon
  <2>2. space'[p] \in Saves /\ OncePerFd(space'[p])  BY <1>1, <1>2, Ran, Zenon
  <2> QED  BY <1>2, <2>1, <2>2, Runs, Zenon
<1>5. OnlyAt(p)
  BY Zenon DEF HandoffInv, OnlyAt, start
<1> QED  BY <1>4, <1>5, Elsewhere, Zenon

\* A child is an image like its parent, beside its own shared space.
LEMMA ForkStep ==
  ASSUME HandoffInv, NEW p \in Pid, NEW c \in Pid, fork(p, c), UNCHANGED reuse
  PROVE  HandoffInv'
<1>1. ProcInv(p) /\ ProcInv(c)
  BY Zenon DEF HandoffInv
<1>2. /\ kernel_fds'[c] = kernel_fds[p] /\ table'[c] = table[p] /\ list'[c] = list[p]
      /\ opened'[c] = opened[p] /\ todo'[c] = todo[p] /\ space'[c] = space[c]
      /\ c \in live' /\ reuse' = reuse
  BY Zenon DEF HandoffInv, fork
<1>3. ProcInv(c)'
  <2>1. /\ Image(kernel_fds[p], table[p], list[p], opened[p], todo[p])
        /\ ~reuse => Orderly(kernel_fds[p], list[p], opened[p], todo[p])
    BY <1>1, Ran, Zenon
  <2>2. /\ Image(kernel_fds'[c], table'[c], list'[c], opened'[c], todo'[c])
        /\ ~reuse => Orderly(kernel_fds'[c], list'[c], opened'[c], todo'[c])
    BY <1>2, <2>1, Zenon
  <2>3. space'[c] \in Saves /\ OncePerFd(space'[c])  BY <1>1, <1>2, Ran, Zenon
  <2> QED  BY <1>2, <2>2, <2>3, Runs, Zenon
<1>4. OnlyAt(c)
  BY Zenon DEF HandoffInv, OnlyAt, fork
<1> QED  BY <1>3, <1>4, Elsewhere, Zenon

----------------------------------------------------------------------------
\* Every step keeps the invariant.
LEMMA StepHolds == HandoffInv /\ [MCNext]_<<vars, reuse>> => HandoffInv'
<1> SUFFICES ASSUME HandoffInv, [MCNext]_<<vars, reuse>>  PROVE HandoffInv'
  BY Zenon
<1>1. ASSUME NEW p \in Pid, Common(p), UNCHANGED reuse  PROVE HandoffInv'
  BY <1>1, RestoreStep, OpenStep, ExitStep, ForkStep, Zenon DEF Common
<1>2. CASE ~reuse /\ OrderlyNext /\ UNCHANGED reuse
  <2>1. PICK p \in Pid : \/ Common(p) \/ closes_last(p)
                         \/ Replaces(p) /\ (exec(p) \/ exec_fails(p))
                         \/ space[p] = <<>> /\ start(p)
    BY <1>2, Zenon DEF OrderlyNext
  <2>2. CASE Common(p)  BY <1>1, <1>2, <2>2, Zenon
  <2>3. CASE closes_last(p)  BY <1>2, <2>3, CloseStep, Zenon
  <2>4. CASE Replaces(p) /\ exec(p)  BY <1>2, <2>4, ExecStep, Zenon
  <2>5. CASE exec_fails(p)  BY <1>2, <2>5, ExecFailsStep, Zenon
  <2>6. CASE space[p] = <<>> /\ start(p)  BY <1>2, <2>6, StartStep, Zenon
  <2> QED  BY <2>1, <2>2, <2>3, <2>4, <2>5, <2>6, Zenon
<1>3. CASE reuse /\ NestedNext /\ UNCHANGED reuse
  <2>1. PICK p \in Pid : \/ Common(p) \/ open_exists(p) \/ closes_last(p)
                         \/ exec(p) \/ exec_fails(p) \/ start(p)
    BY <1>3, Zenon DEF NestedNext
  <2>2. CASE Common(p)  BY <1>1, <1>3, <2>2, Zenon
  <2>3. CASE open_exists(p)  BY <1>3, <2>3, OpenExistsStep, Zenon
  <2>4. CASE closes_last(p)  BY <1>3, <2>4, CloseStep, Zenon
  <2>5. CASE exec(p)  BY <1>3, <2>5, ExecStep, Zenon
  <2>6. CASE exec_fails(p)  BY <1>3, <2>6, ExecFailsStep, Zenon
  <2>7. CASE start(p)  BY <1>3, <2>7, StartStep, Zenon
  <2> QED  BY <2>1, <2>2, <2>3, <2>4, <2>5, <2>6, <2>7, Zenon
<1>4. CASE UNCHANGED <<vars, reuse>>
  <2>1. \A p \in Pid : ProcInv(p)' <=> ProcInv(p)  BY <1>4, Zenon DEF ProcInv, vars
  <2> QED  BY <1>4, <2>1, Zenon DEF HandoffInv, vars
<1> QED  BY <1>2, <1>3, <1>4, Zenon DEF MCNext

\* The invariant holds throughout.
LEMMA AlwaysHolds == MCSpec => []HandoffInv
  BY InitHolds, StepHolds, PTL DEF MCSpec

\* The constructor, fork, exec and every close keep the list within its arrays,
\* and the shared spaces hold nothing but descriptors with a file.
THEOREM HandoffTypes == MCSpec => []TypeOK
<1>1. HandoffInv => TypeOK
  <2> SUFFICES ASSUME HandoffInv  PROVE TypeOK
    BY Zenon
  <2>1. \A p \in Pid : /\ kernel_fds[p] \in Files /\ table[p] \in Files /\ list[p] \in Lists
                       /\ opened[p] \in Seq(Fd) /\ todo[p] \in Saves /\ space[p] \in Saves
    BY Zenon DEF HandoffInv, ProcInv, Image
  <2>2. /\ kernel_fds \in [Pid -> Files] /\ table \in [Pid -> Files] /\ list \in [Pid -> Lists]
        /\ opened \in [Pid -> Seq(Fd)] /\ todo \in [Pid -> Saves] /\ space \in [Pid -> Saves]
    BY <2>1, Zenon DEF HandoffInv
  <2>3. live \subseteq Pid /\ crashed \subseteq Pid
    BY Zenon DEF HandoffInv
  <2> QED  BY <2>2, <2>3, Zenon, Zenon DEF TypeOK, Files, Lists, Saves
<1> QED  BY <1>1, AlwaysHolds, PTL

\* A program that closes in reverse order of opening, and whose saves replace
\* what is in its shared space, has after any number of forks and execs exactly
\* the table its kernel descriptors call for.
THEOREM ServedAcrossExec == MCSpec => []OrderlyServedExactly
<1>1. HandoffInv => OrderlyServedExactly
  BY OrderlyServes DEF HandoffInv, ProcInv, OrderlyServedExactly, ServedExactly, Running
<1> QED  BY <1>1, AlwaysHolds, PTL

\* And its list is its descriptors in the order of opening.
THEOREM ListAcrossExec == MCSpec => []OrderlyListIsOpened
<1>1. HandoffInv => OrderlyListIsOpened
  BY OrderlyServes DEF HandoffInv, ProcInv, OrderlyListIsOpened, ListIsOpened, Running, Walked
<1> QED  BY <1>1, AlwaysHolds, PTL

\* Also when the shared spaces of earlier processes are restored, what a program
\* that closes in reverse order holds open is served by the file it opened.
THEOREM OpenedAcrossExec == MCSpec => []OpenedServed
<1>1. HandoffInv => OpenedServed
  BY ImageServes DEF HandoffInv, ProcInv, OpenedServed, Running
<1> QED  BY <1>1, AlwaysHolds, PTL

\* Nor does its next exec follow a NULL pointer while it saves the table.
THEOREM SavesAcrossExec == MCSpec => []NextSaveSurvives
<1>1. HandoffInv => NextSaveSurvives
  BY SaveFacts, Zenon DEF NextSaveSurvives, Running
<1> QED  BY <1>1, AlwaysHolds, PTL
=============================================================================
