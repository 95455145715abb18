------------------------- MODULE FileHandlesProofs -------------------------
(***************************************************************************)
(* Proofs that the descriptor table keeps its invariants, and implements   *)
(* DescriptorMap, for tables of any size and any set of addresses.         *)
(***************************************************************************)
EXTENDS MCFileHandles, FiniteSetTheorems, TLAPS

\* The slots are MAX_FILES many, and a set of slots is finite and no larger.
LEMMA SlotsFinite ==
  /\ IsFiniteSet(Fd)
  /\ Cardinality(Fd) = MAX_FILES
  /\ \A S \in SUBSET Fd : /\ IsFiniteSet(S)
                          /\ Cardinality(S) \in 0 .. MAX_FILES
                          /\ S # Fd => Cardinality(S) < MAX_FILES
<1>1. IsFiniteSet(Fd) /\ Cardinality(Fd) = MAX_FILES
  BY FS_Interval, MaxFilesAssumption DEF Fd
<1>2. ASSUME NEW S \in SUBSET Fd
      PROVE  /\ IsFiniteSet(S)
             /\ Cardinality(S) \in 0 .. MAX_FILES
             /\ S # Fd => Cardinality(S) < MAX_FILES
  <2>1. IsFiniteSet(S) /\ Cardinality(S) <= Cardinality(Fd)
        /\ (Cardinality(S) = Cardinality(Fd) => S = Fd)
    BY <1>1, FS_Subset, Zenon
  <2>2. Cardinality(S) \in Nat
    BY <2>1, FS_CardinalityType, Zenon
  <2>. QED  BY <1>1, <2>1, <2>2, MaxFilesAssumption
<1>. QED  BY <1>1, <1>2, Zenon

\* How the size of a set of slots changes with one slot.
LEMMA OneSlot ==
  ASSUME NEW S \in SUBSET Fd, NEW fd \in Fd
  PROVE  /\ Cardinality(S \cup {fd}) =
              IF fd \in S THEN Cardinality(S) ELSE Cardinality(S) + 1
         /\ Cardinality(S \ {fd}) =
              IF fd \in S THEN Cardinality(S) - 1 ELSE Cardinality(S)
<1>1. IsFiniteSet(S)
  BY SlotsFinite, Zenon
<1>2. Cardinality(S \cup {fd}) = IF fd \in S THEN Cardinality(S) ELSE Cardinality(S) + 1
  BY <1>1, FS_AddElement, Zenon
<1>3. Cardinality(S \ {fd}) = IF fd \in S THEN Cardinality(S) - 1 ELSE Cardinality(S)
  BY <1>1, FS_RemoveElement, Zenon
<1>. QED  BY <1>2, <1>3, Zenon

\* What storing v into one slot does to the numbers the invariants are about.
LEMMA StoreSlot ==
  ASSUME NEW fd \in Fd, NEW v \in Addr \cup {NULL},
         file_handles \in [Fd -> Addr \cup {NULL}],
         file_handles' = [file_handles EXCEPT ![fd] = v]
  PROVE  /\ file_handles' \in [Fd -> Addr \cup {NULL}]
         /\ Cardinality(Used') = Cardinality(Used)
              + (IF v = NULL THEN 0 ELSE 1) - (IF file_handles[fd] = NULL THEN 0 ELSE 1)
         /\ \A a \in Addr : Cardinality(Refs(a)') = Cardinality(Refs(a))
              + (IF v = a THEN 1 ELSE 0) - (IF file_handles[fd] = a THEN 1 ELSE 0)
<1>1. file_handles' \in [Fd -> Addr \cup {NULL}]
  BY Zenon
<1>2. Cardinality(Used') = Cardinality(Used)
        + (IF v = NULL THEN 0 ELSE 1) - (IF file_handles[fd] = NULL THEN 0 ELSE 1)
  <2>1. Used \in SUBSET Fd /\ (fd \in Used <=> file_handles[fd] # NULL)
    BY Zenon DEF Used
  <2>2. Used' = IF v = NULL THEN Used \ {fd} ELSE Used \cup {fd}
    BY Zenon DEF Used
  <2>3. /\ Cardinality(Used) \in Nat
        /\ Cardinality(Used \cup {fd}) =
             IF fd \in Used THEN Cardinality(Used) ELSE Cardinality(Used) + 1
        /\ Cardinality(Used \ {fd}) =
             IF fd \in Used THEN Cardinality(Used) - 1 ELSE Cardinality(Used)
    BY <2>1, SlotsFinite, OneSlot
  <2>. QED  BY <2>1, <2>2, <2>3
<1>3. ASSUME NEW a \in Addr
      PROVE  Cardinality(Refs(a)') = Cardinality(Refs(a))
               + (IF v = a THEN 1 ELSE 0) - (IF file_handles[fd] = a THEN 1 ELSE 0)
  <2>1. Refs(a) \in SUBSET Fd /\ (fd \in Refs(a) <=> file_handles[fd] = a)
    BY Zenon DEF Refs
  <2>2. Refs(a)' = IF v = a THEN Refs(a) \cup {fd} ELSE Refs(a) \ {fd}
    BY Zenon DEF Refs
  <2>3. Cardinality(Refs(a)) \in Nat
    BY <2>1, SlotsFinite
  <2>. QED  BY <2>1, <2>2, <2>3, OneSlot
<1>. QED  BY <1>1, <1>2, <1>3, Zenon

ListType == [use_position : [Fd -> Fd], used : [Fd -> Fd], pos : 0 .. MAX_FILES]

\* Positions of the list that are indices of its arrays.
LEMMA Positions ==
  \A p \in 0 .. MAX_FILES :
    /\ p < MAX_FILES => p \in Fd /\ p + 1 \in 0 .. MAX_FILES
    /\ p > 0 => p - 1 \in Fd /\ p - 1 \in 0 .. MAX_FILES
BY MaxFilesAssumption DEF Fd

\* link_file_descriptor stays inside its arrays while the list is not full.
LEMMA LinkType ==
  ASSUME NEW l \in ListType, NEW fd \in Fd, l.pos < MAX_FILES
  PROVE  /\ link_file_descriptor(l, fd) \in ListType
         /\ link_file_descriptor(l, fd).pos = l.pos + 1
<1>1. l.use_position \in [Fd -> Fd] /\ l.used \in [Fd -> Fd] /\ l.pos \in 0 .. MAX_FILES
  BY Zenon DEF ListType
<1>2. l.pos \in Fd /\ l.pos + 1 \in 0 .. MAX_FILES
  BY <1>1, Positions, Zenon
<1>. QED  BY <1>1, <1>2, Zenon DEF link_file_descriptor, ListType

\* unlink_file_descriptor stays inside its arrays while the list is not empty.
LEMMA UnlinkType ==
  ASSUME NEW l \in ListType, NEW fd \in Fd, l.pos > 0
  PROVE  /\ unlink_file_descriptor(l, fd) \in ListType
         /\ unlink_file_descriptor(l, fd).pos = l.pos - 1
<1>1. l.use_position \in [Fd -> Fd] /\ l.used \in [Fd -> Fd] /\ l.pos \in 0 .. MAX_FILES
  BY Zenon DEF ListType
<1>2. l.pos - 1 \in Fd /\ l.pos - 1 \in 0 .. MAX_FILES
  BY <1>1, Positions, Zenon
<1>. QED  BY <1>1, <1>2, Zenon DEF unlink_file_descriptor, ListType

----------------------------------------------------------------------------
\* The inductive invariant of both libraries.  PosCountsEntries bounds the
\* list (TypeOK), and needs NoDanglingEntry: remove_file_handle decides by the
\* use count, the list follows the pointers, and the two must agree.
Inv == TypeOK /\ NoDanglingEntry /\ PosCountsEntries

\* A slot is occupied exactly when file_handle_exists says so.
LEMMA ExistsUsed ==
  ASSUME Inv, NEW fd \in Fd
  PROVE  /\ file_handle_exists(fd) <=> fd \in Used
         /\ fd \in Used => /\ file_handles[fd] \in allocated
                           /\ file_handles[fd] \in Addr
                           /\ use_count[file_handles[fd]] \in Nat \ {0}
<1>1. fd < MAX_FILES /\ file_handles[fd] \in Addr \cup {NULL}
  BY MaxFilesAssumption DEF Fd, Inv, TypeOK
<1>2. ASSUME fd \in Used
      PROVE  /\ file_handles[fd] \in allocated
             /\ file_handles[fd] \in Addr
             /\ use_count[file_handles[fd]] \in Nat \ {0}
  BY <1>2 DEF Inv, TypeOK, NoDanglingEntry
<1>3. ASSUME fd \in Used PROVE file_handle_exists(fd)
  BY <1>1, <1>2, <1>3 DEF file_handle_exists, file_handle_use_count_internal, Used
<1>4. ASSUME fd \notin Used PROVE ~file_handle_exists(fd)
  BY <1>4 DEF file_handle_exists, file_handle_use_count_internal, Used
<1>. QED  BY <1>2, <1>3, <1>4, Zenon

\* The list is not full while a slot is empty, nor empty while one is occupied.
LEMMA ListRoom ==
  ASSUME Inv, NEW fd \in Fd
  PROVE  /\ list \in ListType
         /\ fd \notin Used => list.pos < MAX_FILES
         /\ fd \in Used => list.pos > 0
<1>1. list \in ListType
  BY Zenon DEF Inv, TypeOK, ListType
<1>2. Used \in SUBSET Fd /\ list.pos = Cardinality(Used)
  BY Zenon DEF Used, Inv, PosCountsEntries
<1>3. fd \notin Used => list.pos < MAX_FILES
  BY <1>2, SlotsFinite, Zenon
<1>4. fd \in Used => list.pos > 0
  <2>. SUFFICES ASSUME fd \in Used PROVE list.pos > 0
    BY Zenon
  <2>1. Cardinality(Used \ {fd}) = Cardinality(Used) - 1
    BY <1>2, OneSlot, Zenon
  <2>2. Cardinality(Used \ {fd}) \in Nat /\ Cardinality(Used) \in Nat
    BY <1>2, SlotsFinite
  <2>. QED  BY <1>2, <2>1, <2>2
<1>. QED  BY <1>1, <1>3, <1>4, Zenon

\* The counts of slots are naturals.
LEMMA RefsCount ==
  \A a : /\ Refs(a) \in SUBSET Fd
         /\ Cardinality(Refs(a)) \in Nat
         /\ Cardinality(Refs(a)) = 0 <=> Refs(a) = {}
<1>. TAKE a
<1>1. Refs(a) \in SUBSET Fd
  BY Zenon DEF Refs
<1>2. IsFiniteSet(Refs(a)) /\ Cardinality(Refs(a)) \in Nat
  BY <1>1, SlotsFinite
<1>. QED  BY <1>1, <1>2, FS_EmptySet, Zenon

\* No other slot points to an object with one user.
LEMMA LastUser ==
  ASSUME Inv, NEW fd \in Used, use_count[file_handles[fd]] = 1
  PROVE  \A g \in Fd : file_handles[g] = file_handles[fd] => g = fd
<1>. DEFINE R == Refs(file_handles[fd])
<1>1. fd \in R /\ R \in SUBSET Fd /\ R \ {fd} \in SUBSET Fd /\ fd \in Fd
  BY Zenon DEF Refs, Used
<1>2. Cardinality(R) <= 1
  BY Zenon DEF Inv, NoDanglingEntry
<1>3. Cardinality(R \ {fd}) = Cardinality(R) - 1
  BY <1>1, OneSlot, Zenon
<1>4. IsFiniteSet(R \ {fd}) /\ Cardinality(R \ {fd}) \in Nat /\ Cardinality(R) \in Nat
  BY <1>1, SlotsFinite
<1>5. Cardinality(R \ {fd}) = 0
  BY <1>2, <1>3, <1>4
<1>6. R \ {fd} = {}
  BY <1>4, <1>5, FS_EmptySet, Zenon
<1>. QED  BY <1>6, Zenon DEF Refs

\* A step that changes nothing preserves everything.
LEMMA StutterStep ==
  ASSUME Inv, UNCHANGED tableVars
  PROVE  Inv' /\ (UseCountExact => UseCountExact')
BY Zenon DEF Inv, TypeOK, NoDanglingEntry, PosCountsEntries, UseCountExact, Used, Refs, tableVars

\* A successful operation was given a slot of the table.
LEMMA Accepted ==
  ASSUME NEW fd \in AnyFd
  PROVE  /\ insert_rv(fd) = 0 => fd \in Fd /\ ~file_handle_exists(fd)
         /\ remove_rv(fd) = 0 => fd \in Fd /\ file_handle_exists(fd)
         /\ \A fd2 \in AnyFd : duplicate_rv(fd, fd2) = 0 => fd \in Fd /\ fd2 \in Fd
BY MaxFilesAssumption DEF AnyFd, Fd, insert_rv, remove_rv, duplicate_rv, EBADF, EEXIST, ENOENT

\* insert_file_handle: the new object is fresh, so no slot pointed to it.
LEMMA InsertStep ==
  ASSUME Inv, NEW fd \in AnyFd, NEW fhd \in Data, insert_file_handle(fd, fhd)
  PROVE  Inv' /\ (UseCountExact => UseCountExact')
<1>. SUFFICES ASSUME insert_rv(fd) = 0 PROVE Inv' /\ (UseCountExact => UseCountExact')
  BY StutterStep, Zenon DEF insert_file_handle
<1>1. fd \in Fd /\ fd \notin Used
  BY Accepted, ExistsUsed, Zenon
<1>2. PICK a \in Addr \ allocated :
        /\ allocated' = allocated \cup {a}
        /\ f_data' = [f_data EXCEPT ![a] = fhd]
        /\ use_count' = [use_count EXCEPT ![a] = 1]
        /\ file_handles' = [file_handles EXCEPT ![fd] = a]
        /\ list' = link_file_descriptor(list, fd)
  BY Zenon DEF insert_file_handle, tableVars
<1>0. file_handles[fd] = NULL /\ a # NULL
  BY <1>1, <1>2, NullAssumption, Zenon DEF Used
<1>3. /\ file_handles' \in [Fd -> Addr \cup {NULL}]
      /\ Cardinality(Used') = Cardinality(Used)
           + (IF a = NULL THEN 0 ELSE 1) - (IF file_handles[fd] = NULL THEN 0 ELSE 1)
      /\ \A b \in Addr : Cardinality(Refs(b)') = Cardinality(Refs(b))
           + (IF a = b THEN 1 ELSE 0) - (IF file_handles[fd] = b THEN 1 ELSE 0)
  BY <1>1, <1>2, StoreSlot, Zenon DEF Inv, TypeOK
<1>4. Cardinality(Refs(a)) = 0
  <2>1. Refs(a) = {}
    BY <1>0, <1>2, Zenon DEF Inv, TypeOK, NoDanglingEntry, Refs, Used
  <2>. QED  BY <2>1, FS_EmptySet, Zenon
<1>6. TypeOK'
  <2>1. list' \in ListType
    BY <1>1, <1>2, ListRoom, LinkType, Zenon
  <2>2. allocated' \subseteq Addr /\ f_data' \in [Addr -> Data \cup {NULL}]
        /\ use_count' \in [Addr -> Nat]
    BY <1>2, Zenon DEF Inv, TypeOK
  <2>. QED  BY <1>3, <2>1, <2>2, Zenon DEF TypeOK, ListType
<1>7. \A b \in Used' : file_handles'[b] \in allocated'
  BY <1>1, <1>2, <1>3, Zenon DEF Inv, TypeOK, NoDanglingEntry, Used
<1>8. \A b \in allocated' :
        /\ use_count'[b] = IF b = a THEN 1 ELSE use_count[b]
        /\ Cardinality(Refs(b)') = IF b = a THEN 1 ELSE Cardinality(Refs(b))
  BY <1>0, <1>2, <1>3, <1>4, RefsCount, NullAssumption DEF Inv, TypeOK
<1>9. NoDanglingEntry'
  BY <1>2, <1>7, <1>8 DEF Inv, NoDanglingEntry
<1>10. UseCountExact => UseCountExact'
  BY <1>2, <1>7, <1>8 DEF UseCountExact
<1>11. PosCountsEntries'
  <2>1. Used \in SUBSET Fd /\ list.pos = Cardinality(Used)
    BY Zenon DEF Used, Inv, PosCountsEntries
  <2>2. list'.pos = list.pos + 1
    BY <1>1, <1>2, ListRoom, LinkType, Zenon
  <2>3. Cardinality(Used) \in Nat
    BY <2>1, SlotsFinite
  <2>. QED  BY <1>0, <1>3, <2>1, <2>2, <2>3 DEF PosCountsEntries
<1>. QED  BY <1>6, <1>9, <1>10, <1>11, Zenon DEF Inv

\* remove_file_handle: an object is freed when its last user goes, and then
\* the slot that is cleared was the only one that pointed to it.
LEMMA RemoveStep ==
  ASSUME Inv, NEW fd \in AnyFd, remove_file_handle(fd)
  PROVE  Inv' /\ (UseCountExact => UseCountExact')
<1>. DEFINE a == file_handles[fd]
<1>. SUFFICES ASSUME remove_rv(fd) = 0 PROVE Inv' /\ (UseCountExact => UseCountExact')
  BY StutterStep, Zenon DEF remove_file_handle
<1>1. /\ fd \in Fd /\ fd \in Used
      /\ a \in allocated /\ a \in Addr /\ use_count[a] \in Nat \ {0}
  BY Accepted, ExistsUsed, Zenon
<1>2. /\ use_count' = [use_count EXCEPT ![a] = @ - 1]
      /\ allocated' = IF use_count[a] = 1 THEN allocated \ {a} ELSE allocated
      /\ file_handles' = [file_handles EXCEPT ![fd] = NULL]
      /\ list' = unlink_file_descriptor(list, fd)
      /\ f_data' = f_data
  BY Zenon DEF remove_file_handle, DropUser, tableVars
<1>3. /\ file_handles' \in [Fd -> Addr \cup {NULL}]
      /\ Cardinality(Used') = Cardinality(Used) + 0 - 1
      /\ \A b \in Addr : Cardinality(Refs(b)') = Cardinality(Refs(b)) + 0 - (IF a = b THEN 1 ELSE 0)
  <2>1. /\ file_handles' \in [Fd -> Addr \cup {NULL}]
        /\ Cardinality(Used') = Cardinality(Used)
             + (IF NULL = NULL THEN 0 ELSE 1) - (IF file_handles[fd] = NULL THEN 0 ELSE 1)
        /\ \A b \in Addr : Cardinality(Refs(b)') = Cardinality(Refs(b))
             + (IF NULL = b THEN 1 ELSE 0) - (IF file_handles[fd] = b THEN 1 ELSE 0)
    BY <1>1, <1>2, StoreSlot, Zenon DEF Inv, TypeOK
  <2>2. a # NULL /\ \A b \in Addr : NULL # b
    BY <1>1, NullAssumption, Zenon
  <2>. QED  BY <2>1, <2>2, Zenon
<1>6. TypeOK'
  <2>1. list' \in ListType
    BY <1>1, <1>2, ListRoom, UnlinkType, Zenon
  <2>2. allocated' \subseteq Addr /\ f_data' \in [Addr -> Data \cup {NULL}]
        /\ use_count' \in [Addr -> Nat]
    BY <1>1, <1>2 DEF Inv, TypeOK
  <2>. QED  BY <1>3, <2>1, <2>2, Zenon DEF TypeOK, ListType
<1>7. \A b \in Used' : file_handles'[b] \in allocated'
  <2>1. use_count[a] = 1 => \A g \in Fd : file_handles[g] = a => g = fd
    BY <1>1, LastUser, Zenon
  <2>2. ASSUME NEW b \in Used' PROVE file_handles'[b] \in allocated'
    <3>1. b \in Used /\ b # fd /\ b \in Fd /\ file_handles'[b] = file_handles[b]
      BY <1>1, <1>2, <1>3, Zenon DEF Inv, TypeOK, Used
    <3>2. file_handles[b] \in allocated
      BY <3>1, Zenon DEF Inv, NoDanglingEntry
    <3>3. use_count[a] = 1 => file_handles[b] # a
      BY <2>1, <3>1, Zenon
    <3>. QED  BY <1>2, <3>1, <3>2, <3>3
  <2>. QED  BY <2>2, Zenon
<1>8. \A b \in allocated' :
        /\ b \in allocated
        /\ use_count'[b] = IF b = a THEN use_count[b] - 1 ELSE use_count[b]
        /\ Cardinality(Refs(b)') =
             IF b = a THEN Cardinality(Refs(b)) - 1 ELSE Cardinality(Refs(b))
        /\ b = a => use_count[a] # 1
  BY <1>1, <1>2, <1>3, RefsCount DEF Inv, TypeOK
<1>9. \A b \in allocated : use_count[b] \in Nat /\ Cardinality(Refs(b)) \in Nat
  BY RefsCount, Zenon DEF Inv, TypeOK
<1>10. NoDanglingEntry'
  BY <1>7, <1>8, <1>9 DEF Inv, NoDanglingEntry
<1>11. UseCountExact => UseCountExact'
  BY <1>7, <1>8, <1>9 DEF UseCountExact
<1>12. PosCountsEntries'
  <2>1. Used \in SUBSET Fd /\ list.pos = Cardinality(Used)
    BY Zenon DEF Used, Inv, PosCountsEntries
  <2>2. list'.pos = list.pos - 1
    BY <1>1, <1>2, ListRoom, UnlinkType, Zenon
  <2>3. Cardinality(Used) \in Nat
    BY <2>1, SlotsFinite
  <2>. QED  BY <1>3, <2>1, <2>2, <2>3 DEF PosCountsEntries
<1>. QED  BY <1>6, <1>10, <1>11, <1>12, Zenon DEF Inv

\* libdefuse's duplicate_file_handle: what fd2 had keeps its count, so counts
\* stay large enough (and may become too large).
LEMMA DuplicateStep ==
  ASSUME Inv, NEW fd1 \in AnyFd, NEW fd2 \in AnyFd, duplicate_file_handle(fd1, fd2)
  PROVE  Inv'
<1>. DEFINE a == file_handles[fd1]
<1>. SUFFICES ASSUME duplicate_rv(fd1, fd2) = 0, file_handle_exists(fd1) PROVE Inv'
  BY StutterStep, Zenon DEF duplicate_file_handle
<1>1. /\ fd1 \in Fd /\ fd2 \in Fd
      /\ a \in allocated /\ a \in Addr /\ use_count[a] \in Nat \ {0}
  BY Accepted, ExistsUsed, Zenon
<1>2. /\ file_handles' = [file_handles EXCEPT ![fd2] = a]
      /\ use_count' = [use_count EXCEPT ![a] = @ + 1]
      /\ list' = IF file_handles[fd2] = NULL THEN link_file_descriptor(list, fd2) ELSE list
      /\ allocated' = allocated /\ f_data' = f_data
  BY Zenon DEF duplicate_file_handle
<1>3. /\ file_handles' \in [Fd -> Addr \cup {NULL}]
      /\ Cardinality(Used') = Cardinality(Used)
           + (IF a = NULL THEN 0 ELSE 1) - (IF file_handles[fd2] = NULL THEN 0 ELSE 1)
      /\ \A b \in Addr : Cardinality(Refs(b)') = Cardinality(Refs(b))
           + (IF a = b THEN 1 ELSE 0) - (IF file_handles[fd2] = b THEN 1 ELSE 0)
  BY <1>1, <1>2, StoreSlot, Zenon DEF Inv, TypeOK
<1>4. /\ list' \in ListType
      /\ list'.pos = IF file_handles[fd2] = NULL THEN list.pos + 1 ELSE list.pos
  <2>1. file_handles[fd2] = NULL <=> fd2 \notin Used
    BY <1>1, Zenon DEF Used
  <2>. QED  BY <1>1, <1>2, <2>1, ListRoom, LinkType, Zenon
<1>5. TypeOK'
  <2>1. use_count' \in [Addr -> Nat]
    BY <1>1, <1>2 DEF Inv, TypeOK
  <2>. QED  BY <1>2, <1>3, <1>4, <2>1, Zenon DEF Inv, TypeOK, ListType
<1>6. NoDanglingEntry'
  <2>1. \A b \in Used' : file_handles'[b] \in allocated'
    BY <1>1, <1>2, Zenon DEF Inv, TypeOK, NoDanglingEntry, Used
  <2>2. \A b \in allocated' :
          /\ b \in allocated
          /\ use_count'[b] = IF a = b THEN use_count[b] + 1 ELSE use_count[b]
          /\ Cardinality(Refs(b)') <= Cardinality(Refs(b)) + (IF a = b THEN 1 ELSE 0)
          /\ Cardinality(Refs(b)') \in Int
    BY <1>1, <1>2, <1>3, RefsCount DEF Inv, TypeOK
  <2>3. \A b \in allocated : use_count[b] \in Nat /\ Cardinality(Refs(b)) \in Nat
    BY RefsCount, Zenon DEF Inv, TypeOK
  <2>. QED  BY <2>1, <2>2, <2>3 DEF Inv, NoDanglingEntry
<1>7. PosCountsEntries'
  <2>1. Used \in SUBSET Fd /\ list.pos = Cardinality(Used) /\ a # NULL
    BY <1>1, NullAssumption, Zenon DEF Used, Inv, PosCountsEntries
  <2>2. Cardinality(Used) \in Nat
    BY <2>1, SlotsFinite
  <2>. QED  BY <1>3, <1>4, <2>1, <2>2 DEF PosCountsEntries
<1>. QED  BY <1>5, <1>6, <1>7, Zenon DEF Inv

\* musl's duplicate_file_handle, the case where fd2 held something: the old
\* object loses a user (and is freed with its last), fd1's gains one.
LEMMA MuslReplaceStep ==
  ASSUME Inv, NEW fd1 \in Used, NEW fd2 \in Used, fd1 # fd2,
         use_count' = [[use_count EXCEPT ![file_handles[fd2]] = @ - 1]
                         EXCEPT ![file_handles[fd1]] = @ + 1],
         allocated' = IF use_count[file_handles[fd2]] = 1
                      THEN allocated \ {file_handles[fd2]} ELSE allocated,
         Share(fd1, fd2, unlink_file_descriptor(list, fd2))
  PROVE  Inv' /\ (UseCountExact => UseCountExact')
<1>. DEFINE a == file_handles[fd1]
            b == file_handles[fd2]
<1>1. /\ fd1 \in Fd /\ fd2 \in Fd
      /\ a \in allocated /\ a \in Addr /\ use_count[a] \in Nat \ {0}
      /\ b \in allocated /\ b \in Addr /\ use_count[b] \in Nat \ {0}
  BY ExistsUsed, Zenon DEF Used
<1>2. use_count[b] = 1 => \A g \in Fd : file_handles[g] = b => g = fd2
  BY LastUser, Zenon
<1>3. /\ file_handles' = [file_handles EXCEPT ![fd2] = a]
      /\ list' = link_file_descriptor(unlink_file_descriptor(list, fd2), fd2)
      /\ f_data' = f_data
  BY Zenon DEF Share
<1>4. /\ file_handles' \in [Fd -> Addr \cup {NULL}]
      /\ Cardinality(Used') = Cardinality(Used)
           + (IF a = NULL THEN 0 ELSE 1) - (IF file_handles[fd2] = NULL THEN 0 ELSE 1)
      /\ \A c \in Addr : Cardinality(Refs(c)') = Cardinality(Refs(c))
           + (IF a = c THEN 1 ELSE 0) - (IF file_handles[fd2] = c THEN 1 ELSE 0)
  BY <1>1, <1>3, StoreSlot, Zenon DEF Inv, TypeOK
<1>5. list' \in ListType /\ list'.pos = list.pos
  <2>. DEFINE l == unlink_file_descriptor(list, fd2)
  <2>1. list \in ListType /\ list.pos > 0 /\ list.pos \in 0 .. MAX_FILES
    BY <1>1, ListRoom, Zenon DEF ListType
  <2>2. l \in ListType /\ l.pos = list.pos - 1
    BY <1>1, <2>1, UnlinkType, Zenon
  <2>. HIDE DEF l
  <2>3. l.pos < MAX_FILES
    BY <2>1, <2>2, MaxFilesAssumption
  <2>4. link_file_descriptor(l, fd2) \in ListType /\ link_file_descriptor(l, fd2).pos = l.pos + 1
    BY <1>1, <2>2, <2>3, LinkType, Zenon
  <2>5. list' = link_file_descriptor(l, fd2)
    BY <1>3, Zenon DEF l
  <2>. QED  BY <2>1, <2>2, <2>4, <2>5
<1>6. \A c \in Addr : use_count'[c] = use_count[c]
        + (IF a = c THEN 1 ELSE 0) - (IF b = c THEN 1 ELSE 0)
  BY <1>1 DEF Inv, TypeOK
<1>7. TypeOK'
  <2>1. use_count' \in [Addr -> Nat]
    BY <1>1 DEF Inv, TypeOK
  <2>2. allocated' \subseteq Addr
    BY Zenon DEF Inv, TypeOK
  <2>. QED  BY <1>3, <1>4, <1>5, <2>1, <2>2, Zenon DEF Inv, TypeOK, ListType
<1>8. \A g \in Used' : file_handles'[g] \in allocated'
  <2>1. ASSUME NEW g \in Used' PROVE file_handles'[g] \in allocated'
    <3>1. g \in Fd /\ file_handles'[g] = IF g = fd2 THEN a ELSE file_handles[g]
      BY <1>1, <1>3, Zenon DEF Inv, TypeOK, Used
    <3>2. file_handles'[g] \in allocated
      BY <1>1, <3>1, Zenon DEF Inv, TypeOK, NoDanglingEntry, Used
    <3>3. use_count[b] = 1 => file_handles'[g] # b
      BY <1>1, <1>2, <3>1, Zenon
    <3>. QED  BY <3>2, <3>3, Zenon
  <2>. QED  BY <2>1, Zenon
<1>9. \A c \in allocated' :
        /\ c \in allocated /\ c \in Addr
        /\ b = c => use_count[c] # 1
        /\ use_count[c] \in Nat /\ Cardinality(Refs(c)) \in Nat
        /\ use_count[c] >= 1 /\ use_count[c] >= Cardinality(Refs(c))
  BY RefsCount, Zenon DEF Inv, TypeOK, NoDanglingEntry
<1>10. ASSUME NEW c \in allocated'
       PROVE  /\ c \in allocated
              /\ use_count'[c] >= 1
              /\ use_count'[c] >= Cardinality(Refs(c)')
              /\ use_count[c] = Cardinality(Refs(c)) => use_count'[c] = Cardinality(Refs(c)')
  <2>1. /\ use_count'[c] = use_count[c] + (IF a = c THEN 1 ELSE 0) - (IF b = c THEN 1 ELSE 0)
        /\ Cardinality(Refs(c)') = Cardinality(Refs(c))
             + (IF a = c THEN 1 ELSE 0) - (IF b = c THEN 1 ELSE 0)
    BY <1>4, <1>6, <1>9, Zenon
  <2>. QED  BY <1>9, <2>1
<1>11. NoDanglingEntry' /\ (UseCountExact => UseCountExact')
  BY <1>8, <1>10, Zenon DEF NoDanglingEntry, UseCountExact
<1>12. PosCountsEntries'
  <2>1. Used \in SUBSET Fd /\ list.pos = Cardinality(Used) /\ a # NULL /\ b # NULL
    BY <1>1, NullAssumption, Zenon DEF Used, Inv, PosCountsEntries
  <2>2. Cardinality(Used) \in Nat
    BY <2>1, SlotsFinite
  <2>. QED  BY <1>4, <1>5, <2>1, <2>2 DEF PosCountsEntries
<1>. QED  BY <1>7, <1>11, <1>12, Zenon DEF Inv

\* musl's duplicate_file_handle keeps counts exact in all its cases.
LEMMA MuslDuplicateStep ==
  ASSUME Inv, NEW fd1 \in AnyFd, NEW fd2 \in AnyFd, musl_duplicate_file_handle(fd1, fd2)
  PROVE  Inv' /\ (UseCountExact => UseCountExact')
<1>. DEFINE a == file_handles[fd1]
<1>1. CASE duplicate_rv(fd1, fd2) # 0 /\ UNCHANGED tableVars
  BY <1>1, StutterStep, Zenon
<1>2. CASE remove_file_handle(fd2)
  BY <1>2, RemoveStep, Zenon
<1>3. CASE /\ duplicate_rv(fd1, fd2) = 0
           /\ fd1 # fd2 /\ file_handle_exists(fd1) /\ ~file_handle_exists(fd2)
           /\ use_count' = [use_count EXCEPT ![file_handles[fd1]] = @ + 1]
           /\ Share(fd1, fd2, list)
           /\ UNCHANGED allocated
  <2>1. /\ fd1 \in Fd /\ fd2 \in Fd /\ fd2 \notin Used /\ file_handles[fd2] = NULL
        /\ a \in allocated /\ a \in Addr /\ use_count[a] \in Nat \ {0}
    <3>1. fd1 \in Fd /\ fd2 \in Fd
      BY <1>3, Accepted, Zenon
    <3>. QED  BY <1>3, <3>1, ExistsUsed, Zenon DEF Used
  <2>2. duplicate_file_handle(fd1, fd2)
    BY <1>3, <2>1, Zenon DEF duplicate_file_handle, Share
  <2>3. Inv'
    BY <2>2, DuplicateStep, Zenon
  <2>4. \A c \in Addr : Cardinality(Refs(c)') = Cardinality(Refs(c))
          + (IF a = c THEN 1 ELSE 0) - (IF file_handles[fd2] = c THEN 1 ELSE 0)
    <3>1. file_handles' = [file_handles EXCEPT ![fd2] = a] /\ a \in Addr \cup {NULL}
      BY <1>3, <2>1, Zenon DEF Share
    <3>2. file_handles \in [Fd -> Addr \cup {NULL}]
      BY Zenon DEF Inv, TypeOK
    <3>. QED  BY <2>1, <3>1, <3>2, StoreSlot, Zenon
  <2>5. \A c \in allocated' :
          /\ c \in allocated
          /\ use_count'[c] = IF a = c THEN use_count[c] + 1 ELSE use_count[c]
          /\ Cardinality(Refs(c)') = IF a = c THEN Cardinality(Refs(c)) + 1 ELSE Cardinality(Refs(c))
    BY <1>3, <2>1, <2>4, RefsCount, NullAssumption DEF Inv, TypeOK
  <2>6. UseCountExact => UseCountExact'
    <3>1. \A g \in Used' : file_handles'[g] \in allocated'
      BY <2>3, Zenon DEF Inv, NoDanglingEntry
    <3>2. \A c \in allocated : use_count[c] \in Nat
      BY Zenon DEF Inv, TypeOK
    <3>. QED  BY <2>5, <3>1, <3>2 DEF UseCountExact
  <2>. QED  BY <2>3, <2>6, Zenon
<1>4. CASE /\ duplicate_rv(fd1, fd2) = 0
           /\ fd1 # fd2 /\ file_handle_exists(fd1) /\ file_handle_exists(fd2)
           /\ use_count' = [[use_count EXCEPT ![file_handles[fd2]] = @ - 1]
                              EXCEPT ![file_handles[fd1]] = @ + 1]
           /\ allocated' = IF use_count[file_handles[fd2]] = 1
                           THEN allocated \ {file_handles[fd2]} ELSE allocated
           /\ Share(fd1, fd2, unlink_file_descriptor(list, fd2))
  <2>1. fd1 \in Fd /\ fd2 \in Fd
    BY <1>4, Accepted, Zenon
  <2>2. fd1 \in Used /\ fd2 \in Used
    BY <1>4, <2>1, ExistsUsed, Zenon
  <2>. QED  BY <1>4, <2>2, MuslReplaceStep, Zenon
<1>. QED  BY <1>1, <1>2, <1>3, <1>4, Zenon DEF musl_duplicate_file_handle

----------------------------------------------------------------------------
\* The empty table.
LEMMA InitInv == Init => Inv /\ UseCountExact
<1>. SUFFICES ASSUME Init PROVE Inv /\ UseCountExact
  BY Zenon
<1>1. Used = {} /\ Cardinality(Used) = 0
  BY FS_EmptySet, Zenon DEF Init, Used
<1>2. TypeOK
  BY MaxFilesAssumption DEF Init, TypeOK, EmptyList, Fd
<1>. QED  BY <1>1, <1>2, Zenon DEF Init, Inv, NoDanglingEntry, PosCountsEntries, UseCountExact, EmptyList

\* libdefuse: whatever sequence of inserts, removes and duplicates is made, the
\* list stays inside its arrays, no slot points to a freed object, and the
\* length of the list is the number of occupied slots.
THEOREM TableInvariant == Spec => [](TypeOK /\ NoDanglingEntry /\ PosCountsEntries)
<1>1. Inv /\ [Next]_tableVars => Inv'
  <2>. SUFFICES ASSUME Inv, [Next]_tableVars PROVE Inv'
    BY Zenon
  <2>1. CASE UNCHANGED tableVars
    BY <2>1, StutterStep, Zenon
  <2>2. CASE Next
    BY <2>2, InsertStep, RemoveStep, DuplicateStep DEF Next, Basic
  <2>. QED  BY <2>1, <2>2
<1>. QED  BY <1>1, InitInv, PTL DEF Spec, Inv

\* musl: in addition objects are neither leaked nor freed early, since their
\* use count is exactly the number of slots that point to them.
THEOREM MuslTableInvariant ==
  MuslSpec => [](TypeOK /\ UseCountExact /\ PosCountsEntries)
<1>. DEFINE MuslInv == Inv /\ UseCountExact
<1>1. MuslInv /\ [MuslNext]_tableVars => MuslInv'
  <2>. SUFFICES ASSUME Inv, UseCountExact, [MuslNext]_tableVars PROVE Inv' /\ UseCountExact'
    BY Zenon
  <2>1. CASE UNCHANGED tableVars
    BY <2>1, StutterStep, Zenon
  <2>2. CASE MuslNext
    BY <2>2, InsertStep, RemoveStep, MuslDuplicateStep, Zenon DEF MuslNext, Basic
  <2>. QED  BY <2>1, <2>2, Zenon
<1>2. MuslInv => TypeOK /\ UseCountExact /\ PosCountsEntries
  BY DEF Inv
<1>. QED  BY <1>1, <1>2, InitInv, PTL DEF MuslSpec

\* Both tables at once, as the choice at the start of a behaviour makes them:
\* what a step of either keeps.
EitherInv == Inv /\ MuslCountsExactly

\* A step of the library chosen keeps the table's invariant, and exact counts
\* where the library is musl.
LEMMA EitherStep == EitherInv /\ [MCNext]_<<tableVars, musl>> => EitherInv'
<1>. SUFFICES ASSUME EitherInv, [MCNext]_<<tableVars, musl>> PROVE EitherInv'
  BY Zenon
<1>1. Inv /\ (musl => UseCountExact)
  BY Zenon DEF EitherInv, MuslCountsExactly
<1>2. musl' = musl
  BY Zenon DEF MCNext
<1>3. CASE UNCHANGED tableVars
  BY <1>1, <1>2, <1>3, StutterStep, Zenon DEF EitherInv, MuslCountsExactly
<1>4. CASE ~musl /\ Next
  BY <1>1, <1>2, <1>4, InsertStep, RemoveStep, DuplicateStep, Zenon DEF Next, Basic, EitherInv, MuslCountsExactly
<1>5. CASE musl /\ MuslNext
  BY <1>1, <1>2, <1>5, InsertStep, RemoveStep, MuslDuplicateStep, Zenon DEF MuslNext, Basic, EitherInv, MuslCountsExactly
<1>. QED  BY <1>3, <1>4, <1>5, Zenon DEF MCNext

\* EitherInv holds of every table either library builds.
LEMMA EitherHolds == MCSpec => []EitherInv
<1>1. MCInit => EitherInv
  BY InitInv DEF MCInit, EitherInv, MuslCountsExactly
<1>. QED  BY <1>1, EitherStep, PTL DEF MCSpec

\* Both libraries: link_file_descriptor and unlink_file_descriptor index their
\* arrays inside [0, MAX_FILES), so that the list of used descriptors never
\* overruns, for tables of any size.
THEOREM TableTypes == MCSpec => []TypeOK
<1>1. EitherInv => TypeOK
  BY DEF EitherInv, Inv
<1>. QED  BY <1>1, EitherHolds, PTL

\* musl's duplicate_file_handle neither leaks an object nor frees one early,
\* for tables of any size and any set of addresses.
THEOREM MuslCounts == MCSpec => []MuslCountsExactly
<1>1. EitherInv => MuslCountsExactly
  BY DEF EitherInv
<1>. QED  BY <1>1, EitherHolds, PTL

----------------------------------------------------------------------------
\* The table implements DescriptorMap.  Beyond Inv the argument needs that an
\* object in use holds data: allocate_file_handle copies it before it counts.
MapInv == Inv /\ \A a \in allocated : f_data[a] \in Data

\* What find_file_handle answers, without its case distinctions.
Served == [fd \in Fd |-> IF file_handles[fd] = NULL THEN NULL ELSE f_data[file_handles[fd]]]

AnswersServed == [fd \in Fd |-> find_file_handle(fd)] = Served

\* find_file_handle answers Served in every good state.
LEMMA ServedValue == Inv => AnswersServed
<1>. SUFFICES ASSUME Inv PROVE AnswersServed
  BY Zenon
<1>1. ASSUME NEW fd \in Fd
      PROVE  find_file_handle(fd) = IF file_handles[fd] = NULL THEN NULL ELSE f_data[file_handles[fd]]
  BY <1>1, ExistsUsed, Zenon DEF find_file_handle, Used
<1>. QED  BY <1>1, Zenon DEF Served, AnswersServed

\* The same in the next state.
LEMMA ServedValueNext == Inv' => AnswersServed'
BY ServedValue, PTL

\* insert_file_handle fills an empty slot of the map, or changes nothing.
LEMMA InsertServed ==
  ASSUME MapInv, NEW fd \in AnyFd, NEW fhd \in Data, insert_file_handle(fd, fhd)
  PROVE  /\ \A a \in allocated' : f_data'[a] \in Data
         /\ \/ Served' = Served
            \/ fd \in Fd /\ Served[fd] = NULL /\ Served' = [Served EXCEPT ![fd] = fhd]
<1>1. CASE insert_rv(fd) # 0 /\ UNCHANGED tableVars
  BY <1>1, Zenon DEF MapInv, tableVars, Served
<1>2. CASE insert_rv(fd) = 0
  <2>1. fd \in Fd /\ file_handles[fd] = NULL
    BY <1>2, Accepted, ExistsUsed, Zenon DEF MapInv, Used
  <2>2. PICK a \in Addr \ allocated :
          /\ allocated' = allocated \cup {a}
          /\ f_data' = [f_data EXCEPT ![a] = fhd]
          /\ file_handles' = [file_handles EXCEPT ![fd] = a]
    BY <1>2, Zenon DEF insert_file_handle, tableVars
  <2>3. \A g \in Fd : file_handles[g] # a
    BY <2>2, NullAssumption, Zenon DEF MapInv, Inv, NoDanglingEntry, Used
  <2>4. \A b \in allocated' : f_data'[b] \in Data
    BY <2>2 DEF MapInv, Inv, TypeOK
  <2>5. ASSUME NEW g \in Fd
        PROVE  (IF file_handles'[g] = NULL THEN NULL ELSE f_data'[file_handles'[g]])
                 = IF g = fd THEN fhd ELSE Served[g]
    <3>1. CASE g = fd
      BY <2>1, <2>2, <3>1, NullAssumption, Zenon DEF MapInv, Inv, TypeOK
    <3>2. CASE g # fd
      BY <2>1, <2>2, <2>3, <3>2, NullAssumption, Zenon DEF MapInv, Inv, TypeOK, Served
    <3>. QED  BY <3>1, <3>2, Zenon
  <2>. QED  BY <2>1, <2>4, <2>5, Zenon DEF Served
<1>. QED  BY <1>1, <1>2, Zenon DEF insert_file_handle

\* remove_file_handle empties its slot of the map, or changes nothing.
LEMMA RemoveServed ==
  ASSUME MapInv, NEW fd \in AnyFd, remove_file_handle(fd)
  PROVE  /\ \A a \in allocated' : f_data'[a] \in Data
         /\ \/ Served' = Served
            \/ fd \in Fd /\ Served[fd] # NULL /\ Served' = [Served EXCEPT ![fd] = NULL]
<1>1. CASE remove_rv(fd) # 0 /\ UNCHANGED tableVars
  BY <1>1, Zenon DEF MapInv, tableVars, Served
<1>2. CASE remove_rv(fd) = 0
  <2>1. fd \in Fd /\ file_handles[fd] # NULL /\ file_handles[fd] \in allocated
    BY <1>2, Accepted, ExistsUsed, Zenon DEF MapInv, Used
  <2>2. allocated' \subseteq allocated /\ f_data' = f_data
        /\ file_handles' = [file_handles EXCEPT ![fd] = NULL]
    BY <1>2, Zenon DEF remove_file_handle, DropUser, tableVars
  <2>3. Served[fd] # NULL
    BY <2>1, NullAssumption, Zenon DEF MapInv, Served
  <2>4. Served' = [Served EXCEPT ![fd] = NULL]
    BY <2>1, <2>2, Zenon DEF MapInv, Inv, TypeOK, Served
  <2>5. \A a \in allocated' : f_data'[a] \in Data
    BY <2>2, Zenon DEF MapInv
  <2>. QED  BY <2>1, <2>3, <2>4, <2>5, Zenon
<1>. QED  BY <1>1, <1>2, Zenon DEF remove_file_handle

\* One lemma for both libraries: storing the pointer of fd1 in fd2.
LEMMA ShareServed ==
  ASSUME MapInv, NEW fd1 \in Used, NEW fd2 \in Fd,
         file_handles' = [file_handles EXCEPT ![fd2] = file_handles[fd1]],
         allocated' \subseteq allocated, f_data' = f_data
  PROVE  /\ \A a \in allocated' : f_data'[a] \in Data
         /\ fd1 \in Fd /\ Served[fd1] # NULL
         /\ Served' = [Served EXCEPT ![fd2] = Served[fd1]]
<1>1. fd1 \in Fd /\ file_handles[fd1] # NULL /\ file_handles[fd1] \in allocated
  BY Zenon DEF Used, MapInv, Inv, NoDanglingEntry
<1>2. Served[fd1] # NULL
  BY <1>1, NullAssumption, Zenon DEF MapInv, Served
<1>3. Served' = [Served EXCEPT ![fd2] = Served[fd1]]
  BY <1>1, Zenon DEF MapInv, Inv, TypeOK, Served
<1>4. \A a \in allocated' : f_data'[a] \in Data
  BY Zenon DEF MapInv
<1>. QED  BY <1>1, <1>2, <1>3, <1>4, Zenon

\* The three kinds of step, as a step of the map or none.
MapStep(before, after) ==
  \/ after = before
  \/ \E fd \in Fd, d \in Data : before[fd] = NULL /\ after = [before EXCEPT ![fd] = d]
  \/ \E fd \in Fd : before[fd] # NULL /\ after = [before EXCEPT ![fd] = NULL]
  \/ \E fd1, fd2 \in Fd : before[fd1] # NULL /\ after = [before EXCEPT ![fd2] = before[fd1]]

\* Inserts and removes move Served like the map.
LEMMA BasicServed ==
  ASSUME MapInv, Basic
  PROVE  MapStep(Served, Served') /\ \A a \in allocated' : f_data'[a] \in Data
BY InsertServed, RemoveServed, Zenon DEF Basic, MapStep

\* libdefuse's duplicate_file_handle moves Served like the map.
LEMMA DuplicateServed ==
  ASSUME MapInv, NEW fd1 \in AnyFd, NEW fd2 \in AnyFd, duplicate_file_handle(fd1, fd2)
  PROVE  MapStep(Served, Served') /\ \A a \in allocated' : f_data'[a] \in Data
<1>1. CASE UNCHANGED tableVars
  BY <1>1, Zenon DEF MapInv, tableVars, Served, MapStep
<1>2. CASE duplicate_rv(fd1, fd2) = 0 /\ file_handle_exists(fd1) /\ ~UNCHANGED tableVars
  <2>1. fd1 \in Fd /\ fd2 \in Fd
    BY <1>2, Accepted, Zenon
  <2>2. fd1 \in Used
    BY <1>2, <2>1, ExistsUsed, Zenon DEF MapInv
  <2>3. /\ file_handles' = [file_handles EXCEPT ![fd2] = file_handles[fd1]]
        /\ allocated' \subseteq allocated /\ f_data' = f_data
    BY <1>2, Zenon DEF duplicate_file_handle
  <2>. QED  BY <2>1, <2>2, <2>3, ShareServed, Zenon DEF MapStep
<1>. QED  BY <1>1, <1>2, Zenon DEF duplicate_file_handle

\* musl's duplicate_file_handle moves Served like the map: its removal of what
\* fd2 had and its sharing of what fd1 has are one store into the slot fd2.
LEMMA MuslDuplicateServed ==
  ASSUME MapInv, NEW fd1 \in AnyFd, NEW fd2 \in AnyFd, musl_duplicate_file_handle(fd1, fd2)
  PROVE  MapStep(Served, Served') /\ \A a \in allocated' : f_data'[a] \in Data
<1>1. CASE UNCHANGED tableVars
  BY <1>1, Zenon DEF MapInv, tableVars, Served, MapStep
<1>2. CASE remove_file_handle(fd2)
  BY <1>2, RemoveServed, Zenon DEF MapStep
<1>3. CASE /\ duplicate_rv(fd1, fd2) = 0 /\ file_handle_exists(fd1)
           /\ file_handles' = [file_handles EXCEPT ![fd2] = file_handles[fd1]]
           /\ allocated' \subseteq allocated /\ f_data' = f_data
  <2>1. fd1 \in Fd /\ fd2 \in Fd
    BY <1>3, Accepted, Zenon
  <2>2. fd1 \in Used
    BY <1>3, <2>1, ExistsUsed, Zenon DEF MapInv
  <2>. QED  BY <1>3, <2>1, <2>2, ShareServed, Zenon DEF MapStep
<1>. QED  BY <1>1, <1>2, <1>3, Zenon DEF musl_duplicate_file_handle, Share

\* A step between two good states whose Served moves like the map is a step of
\* DescriptorMap under the refinement mapping, or a stutter.
LEMMA MapSimulation ==
  ASSUME Inv, Inv', MapStep(Served, Served')
  PROVE  [Map!Next]_([fd \in Fd |-> find_file_handle(fd)])
<1>. DEFINE served == [fd \in Fd |-> find_file_handle(fd)]
<1>1. served = Served
  BY ServedValue, Zenon DEF AnswersServed
<1>2. served' = Served'
  BY ServedValueNext, Zenon DEF AnswersServed
<1>3. MapStep(served, served')
  BY <1>1, <1>2, Zenon
<1>. HIDE DEF served
<1>4. \/ served' = served
      \/ \E fd \in Fd, d \in Data : served[fd] = NULL /\ served' = [served EXCEPT ![fd] = d]
      \/ \E fd \in Fd : served[fd] # NULL /\ served' = [served EXCEPT ![fd] = NULL]
      \/ \E fd1, fd2 \in Fd : served[fd1] # NULL /\ served' = [served EXCEPT ![fd2] = served[fd1]]
  BY <1>3, Zenon DEF MapStep
<1>. QED  BY <1>4, Zenon DEF served, Map!Next, Map!Insert, Map!Remove, Map!Duplicate

\* The initial states map to initial states.
LEMMA MapInit == Init => MapInv /\ Map!Init
<1>. SUFFICES ASSUME Init PROVE MapInv /\ Map!Init
  BY Zenon
<1>1. Inv
  BY InitInv, Zenon
<1>2. Served = [fd \in Fd |-> NULL]
  BY Zenon DEF Init, Served
<1>. QED  BY <1>1, <1>2, ServedValue, Zenon DEF Init, MapInv, Map!Init, AnswersServed

\* libdefuse's table implements DescriptorMap: find_file_handle answers as a
\* plain map from descriptors to data would, for tables of any size.
THEOREM TableImplementsMap == Spec => ImplementsMap
<1>1. MapInv /\ [Next]_tableVars => MapInv' /\ [Map!Next]_([fd \in Fd |-> find_file_handle(fd)])
  <2>. SUFFICES ASSUME MapInv, [Next]_tableVars
                PROVE  MapInv' /\ [Map!Next]_([fd \in Fd |-> find_file_handle(fd)])
    BY Zenon
  <2>1. Inv'
    BY StutterStep, InsertStep, RemoveStep, DuplicateStep, Zenon DEF MapInv, Next, Basic
  <2>2. MapStep(Served, Served') /\ \A a \in allocated' : f_data'[a] \in Data
    <3>1. CASE UNCHANGED tableVars
      BY <3>1, Zenon DEF MapInv, tableVars, Served, MapStep
    <3>2. CASE Next
      BY <3>2, BasicServed, DuplicateServed, Zenon DEF Next
    <3>. QED  BY <3>1, <3>2
  <2>. QED  BY <2>1, <2>2, MapSimulation DEF MapInv
<1>. QED  BY <1>1, MapInit, PTL DEF Spec, ImplementsMap, Map!Spec

\* musl's table implements the same map.
THEOREM MuslTableImplementsMap == MuslSpec => ImplementsMap
<1>1. MapInv /\ [MuslNext]_tableVars => MapInv' /\ [Map!Next]_([fd \in Fd |-> find_file_handle(fd)])
  <2>. SUFFICES ASSUME MapInv, [MuslNext]_tableVars
                PROVE  MapInv' /\ [Map!Next]_([fd \in Fd |-> find_file_handle(fd)])
    BY Zenon
  <2>1. Inv'
    BY StutterStep, InsertStep, RemoveStep, MuslDuplicateStep, Zenon DEF MapInv, MuslNext, Basic
  <2>2. MapStep(Served, Served') /\ \A a \in allocated' : f_data'[a] \in Data
    <3>1. CASE UNCHANGED tableVars
      BY <3>1, Zenon DEF MapInv, tableVars, Served, MapStep
    <3>2. CASE MuslNext
      BY <3>2, BasicServed, MuslDuplicateServed, Zenon DEF MuslNext
    <3>. QED  BY <3>1, <3>2
  <2>. QED  BY <2>1, <2>2, MapSimulation DEF MapInv
<1>. QED  BY <1>1, MapInit, PTL DEF MuslSpec, ImplementsMap, Map!Spec

=============================================================================
