---------------------------- MODULE SpaceLayout ----------------------------
(***************************************************************************)
(* The bytes of the shared space (libdefuse/file_handles.c, 173-318).      *)
(* save_file_handles_to_shared_space computes a size, truncates the file   *)
(* to it and writes through a mapping; the size leaves out the zero byte   *)
(* that the writer adds to each mount path, so the last bytes lie past the *)
(* end of the file.  The kernel may keep what is written there in the last *)
(* page or clear it, and past that page there is no mapping.               *)
(* ExecHandoff has the same hand-over with the space as a sequence of      *)
(* entries; this module says when that is right.                           *)
(***************************************************************************)
EXTENDS Naturals, Sequences

CONSTANTS
  MAX_MOUNTS,
  MaxPaths,      \* bound on the length of all mount paths together
  MaxEntries,    \* bound on the descriptors handed over
  Fds,           \* some descriptor numbers
  Handle,        \* file handles, 0 excepted
  Page           \* size of a page

Word == 8                      \* sizeof(uint64_t)
MountRecord == 2 * Word        \* struct shared_space_mount_point_data
FileRecord == 3 * Word         \* struct shared_space_file_data

ASSUME LayoutAssumption ==
  /\ MAX_MOUNTS \in 1 .. 2 * Word /\ Page \in Nat \ {0}
  /\ {MaxPaths, MaxEntries} \subseteq Nat
  /\ Fds \subseteq 0 .. 1023 /\ Handle \subseteq Nat \ {0}

VARIABLES
  at,            \* "running", "saved", "overrun" or "restored"
  mounts,        \* number of mounts
  paths,         \* length of their paths together
  entries,       \* what the table holds, in the order of the list
  size,          \* size of the shared space
  cleared,       \* the kernel has cleared what lies past it
  found          \* the entries the next image reads

vars == <<at, mounts, paths, entries, size, cleared, found>>

Entry(m) == [handle : Handle, fd : Fds, mount : {0, m - 1}]

Init ==
  /\ at = "running" /\ size = 0 /\ cleared = FALSE /\ found = <<>>
  /\ mounts \in 1 .. MAX_MOUNTS /\ paths \in mounts .. MaxPaths
  /\ \E n \in 1 .. MaxEntries : entries \in [1 .. n -> Entry(mounts)]

\* A slip: the size forgets the count of the entries.
SizeWithoutCount == Word + mounts * MountRecord + paths + Len(entries) * FileRecord

shared_space_size == Word + mounts * MountRecord + paths + Word + Len(entries) * FileRecord

\* Where the entries begin and where they end when they are written or read.
FirstEntry == Word + mounts * (MountRecord + 1) + paths + Word
copy_offset == FirstEntry + Len(entries) * FileRecord

Pages(bytes) == (bytes + Page - 1) \div Page

save_file_handles_to_shared_space ==
  /\ at = "running"
  /\ size' = shared_space_size
  /\ at' = IF copy_offset > Pages(size') * Page THEN "overrun" ELSE "saved"
  /\ UNCHANGED <<mounts, paths, entries, cleared, found>>

write_back ==
  /\ at = "saved" /\ ~cleared
  /\ cleared' = TRUE
  /\ UNCHANGED <<at, mounts, paths, entries, size, found>>

\* How many bytes of the word at offset o are as they were written.
Intact(o) ==
  IF ~cleared \/ o + Word <= size THEN Word
  ELSE IF o >= size THEN 0 ELSE size - o

\* A descriptor or an index takes two bytes, the lowest come first; of a handle
\* every byte counts.
Short(v, o) == IF Intact(o) >= 2 THEN v ELSE IF Intact(o) = 1 THEN v % 256 ELSE 0
Long(v, o) == IF Intact(o) = Word THEN v ELSE 0

restore_file_handles_from_shared_space ==
  /\ at = "saved" /\ at' = "restored"
  /\ found' = [i \in DOMAIN entries |->
       LET o == FirstEntry + (i - 1) * FileRecord IN
         [handle |-> Long(entries[i].handle, o),
          fd |-> Short(entries[i].fd, o + Word),
          mount |-> Short(entries[i].mount, o + 2 * Word)]]
  /\ UNCHANGED <<mounts, paths, entries, size, cleared>>

Next ==
  \/ save_file_handles_to_shared_space \/ write_back
  \/ restore_file_handles_from_shared_space

Spec == Init /\ [][Next]_vars

----------------------------------------------------------------------------
\* With fewer mounts than a word has bytes, what the size leaves out is
\* made of high bytes of the last entry's mount index, which are zero anyway:
\* the next image reads exactly what was saved.
FewMountsExact == at = "restored" /\ mounts < Word => found = entries

\* With more mounts only the last entry suffers: its mount may read as the
\* first mount, and its descriptor is right as long as two bytes of it remain.
OthersExact ==
  at = "restored" =>
    \A i \in DOMAIN entries :
      /\ found[i].handle = entries[i].handle
      /\ i < Len(entries) => found[i] = entries[i]
      /\ mounts <= 2 * Word - 2 => found[i].fd = entries[i].fd
      /\ found[i].mount \in {entries[i].mount, 0}
=============================================================================
