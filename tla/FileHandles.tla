---------------------------- MODULE FileHandles ----------------------------
(***************************************************************************)
(* The descriptor table of libdefuse/file_handles.c: which file handle of  *)
(* a user space file system stands behind each kernel descriptor.  The     *)
(* table is an array of pointers to reference-counted heap objects beside  *)
(* the list of DescriptorList.  musl/src/defuse/file_handles.c is the same *)
(* code with another duplicate_file_handle, so both are modelled here.     *)
(*                                                                         *)
(* Every operation is one step: this is the table as one thread uses it.   *)
(***************************************************************************)
EXTENDS DescriptorList, FiniteSets

CONSTANTS
  Addr,         \* addresses malloc can return
  Data,         \* values of struct file_handle_data (mount, file handle)
  NULL

ASSUME NullAssumption == NULL \notin Addr /\ NULL \notin Data

VARIABLES
  file_handles,    \* slot -> address of the object, or NULL
  allocated,       \* addresses that are malloc'ed and not freed
  f_data,          \* address -> file_handle_data of the object there
  use_count,       \* address -> use_count of the object there
  list             \* file_meta, used_file_descriptors and their position

tableVars == <<file_handles, allocated, f_data, use_count, list>>

\* Descriptors a caller may pass: MAX_FILES stands for those past the table.
AnyFd == 0 .. MAX_FILES

EBADF == 9
EEXIST == 17
ENOENT == 2

Init ==
  /\ file_handles = [fd \in Fd |-> NULL]
  /\ allocated = {}
  /\ f_data = [a \in Addr |-> NULL]
  /\ use_count = [a \in Addr |-> 0]
  /\ list = EmptyList

file_handle_use_count_internal(a) == IF a = NULL THEN 0 ELSE use_count[a]

file_handle_exists(fd) ==
  fd < MAX_FILES /\ file_handle_use_count_internal(file_handles[fd]) > 0

find_file_handle(fd) ==
  IF file_handle_exists(fd) THEN f_data[file_handles[fd]] ELSE NULL

----------------------------------------------------------------------------
\* A plausible slip: an occupied slot is overwritten.
InsertRvIgnoresEntry(fd) == IF fd >= MAX_FILES THEN EBADF ELSE 0

insert_rv(fd) ==
  IF fd >= MAX_FILES THEN EBADF
  ELSE IF file_handle_exists(fd) THEN EEXIST ELSE 0

\* With allocate_file_handle: malloc returns any address not in use.
insert_file_handle(fd, fhd) ==
  \/ insert_rv(fd) # 0 /\ UNCHANGED tableVars
  \/ /\ insert_rv(fd) = 0
     /\ \E a \in Addr \ allocated :
          /\ allocated' = allocated \cup {a}
          /\ f_data' = [f_data EXCEPT ![a] = fhd]
          /\ use_count' = [use_count EXCEPT ![a] = 1]
          /\ file_handles' = [file_handles EXCEPT ![fd] = a]
     /\ list' = link_file_descriptor(list, fd)

remove_rv(fd) ==
  IF fd >= MAX_FILES THEN EBADF
  ELSE IF file_handle_exists(fd) THEN 0 ELSE ENOENT

\* The object of slot fd loses one user; free() takes it at zero.
\* A plausible slip: it is freed whatever its use count.
AlwaysFree(fd) ==
  LET a == file_handles[fd] IN
  /\ use_count' = [use_count EXCEPT ![a] = @ - 1]
  /\ allocated' = allocated \ {a}

DropUser(fd) ==
  LET a == file_handles[fd] IN
  /\ use_count' = [use_count EXCEPT ![a] = @ - 1]
  /\ allocated' = IF use_count[a] = 1 THEN allocated \ {a} ELSE allocated

remove_file_handle(fd) ==
  \/ remove_rv(fd) # 0 /\ UNCHANGED tableVars
  \/ /\ remove_rv(fd) = 0
     /\ DropUser(fd)
     /\ file_handles' = [file_handles EXCEPT ![fd] = NULL]
     /\ list' = unlink_file_descriptor(list, fd)
     /\ UNCHANGED f_data

duplicate_rv(fd1, fd2) ==
  IF fd1 >= MAX_FILES \/ fd2 >= MAX_FILES THEN EBADF ELSE 0

\* libdefuse: the object fd2 had is reported through oldfhd and keeps its
\* use count, and fd2 is linked only if its slot was empty.
duplicate_file_handle(fd1, fd2) ==
  \/ /\ duplicate_rv(fd1, fd2) # 0 \/ ~file_handle_exists(fd1)
     /\ UNCHANGED tableVars
  \/ /\ duplicate_rv(fd1, fd2) = 0 /\ file_handle_exists(fd1)
     /\ file_handles' = [file_handles EXCEPT ![fd2] = file_handles[fd1]]
     /\ use_count' = [use_count EXCEPT ![file_handles[fd1]] = @ + 1]
     /\ list' = IF file_handles[fd2] = NULL
                THEN link_file_descriptor(list, fd2) ELSE list
     /\ UNCHANGED <<allocated, f_data>>

\* musl: what fd2 had is removed first (with fd1 = fd2 that empties fd1 too),
\* then fd2 shares the object of fd1; l is the list as the removal left it.
Share(fd1, fd2, l) ==
  /\ file_handles' = [file_handles EXCEPT ![fd2] = file_handles[fd1]]
  /\ list' = link_file_descriptor(l, fd2)
  /\ UNCHANGED f_data

\* A plausible slip, and what libdefuse does: nothing is taken from what fd2 had.
MuslDuplicateOverwrites(fd1, fd2) == duplicate_file_handle(fd1, fd2)

musl_duplicate_file_handle(fd1, fd2) ==
  \/ duplicate_rv(fd1, fd2) # 0 /\ UNCHANGED tableVars
  \/ /\ duplicate_rv(fd1, fd2) = 0
     /\ fd1 = fd2 \/ ~file_handle_exists(fd1)
     /\ remove_file_handle(fd2)
  \/ /\ duplicate_rv(fd1, fd2) = 0
     /\ fd1 # fd2 /\ file_handle_exists(fd1) /\ ~file_handle_exists(fd2)
     /\ use_count' = [use_count EXCEPT ![file_handles[fd1]] = @ + 1]
     /\ Share(fd1, fd2, list)
     /\ UNCHANGED allocated
  \/ /\ duplicate_rv(fd1, fd2) = 0
     /\ fd1 # fd2 /\ file_handle_exists(fd1) /\ file_handle_exists(fd2)
     /\ LET a == file_handles[fd1]
            b == file_handles[fd2]
        IN  /\ use_count' = [[use_count EXCEPT ![b] = @ - 1] EXCEPT ![a] = @ + 1]
            /\ allocated' = IF use_count[b] = 1 THEN allocated \ {b} ELSE allocated
     /\ Share(fd1, fd2, unlink_file_descriptor(list, fd2))

----------------------------------------------------------------------------
\* What a client of either library may do with the table.
Basic ==
  \/ \E fd \in AnyFd, d \in Data : insert_file_handle(fd, d)
  \/ \E fd \in AnyFd : remove_file_handle(fd)

Next == Basic \/ \E fd1, fd2 \in AnyFd : duplicate_file_handle(fd1, fd2)
MuslNext == Basic \/ \E fd1, fd2 \in AnyFd : musl_duplicate_file_handle(fd1, fd2)

Spec == Init /\ [][Next]_tableVars
MuslSpec == Init /\ [][MuslNext]_tableVars

----------------------------------------------------------------------------
Refs(a) == {fd \in Fd : file_handles[fd] = a}
Used == {fd \in Fd : file_handles[fd] # NULL}

\* Types; among them that link_file_descriptor and unlink_file_descriptor index
\* their arrays inside [0, MAX_FILES), so that the list never overruns.
TypeOK ==
  /\ file_handles \in [Fd -> Addr \cup {NULL}]
  /\ allocated \subseteq Addr
  /\ f_data \in [Addr -> Data \cup {NULL}]
  /\ use_count \in [Addr -> Nat]
  /\ list \in [use_position : [Fd -> Fd], used : [Fd -> Fd], pos : 0 .. MAX_FILES]

\* No slot holds a pointer to a freed object, and no object is freed by
\* remove_file_handle while another slot shares it: an object has at least as
\* many counted users as slots that point to it.
NoDanglingEntry ==
  /\ \A fd \in Used : file_handles[fd] \in allocated
  /\ \A a \in allocated : use_count[a] >= 1 /\ use_count[a] >= Cardinality(Refs(a))

\* The length of the list of used descriptors is the number of occupied slots,
\* through every order of inserts, removes and duplicates, although unlink
\* fills the hole with a position: link and unlink come in matching pairs.
PosCountsEntries == list.pos = Cardinality(Used)

\* musl's duplicate_file_handle neither leaks nor frees early: an object lives
\* exactly as long as a slot points to it and counts exactly those slots.
UseCountExact ==
  /\ \A fd \in Used : file_handles[fd] \in allocated
  /\ \A a \in allocated : use_count[a] >= 1 /\ use_count[a] = Cardinality(Refs(a))

\* The table implements DescriptorMap: whatever the objects and their counts
\* do, find_file_handle answers as a plain map of the last insert, remove and
\* duplicate of each slot would, and no operation disturbs another slot.
Map == INSTANCE DescriptorMap WITH
         Slot <- Fd, served <- [fd \in Fd |-> find_file_handle(fd)]
ImplementsMap == Map!Spec
=============================================================================
