--------------------------- MODULE DescriptorList ---------------------------
(***************************************************************************)
(* The dense list of descriptors in use that libdefuse/file_handles.c      *)
(* keeps beside its table, as pure operations on a record:                 *)
(*   use_position   slot -> position of the slot's descriptor in the list  *)
(*   used           position -> descriptor (used_file_descriptors)         *)
(*   pos            number of positions in use (used_file_descriptor_pos)  *)
(* Only save_file_handles_to_shared_space reads the list.                  *)
(***************************************************************************)
EXTENDS Integers

CONSTANT MAX_FILES    \* number of slots of the table

ASSUME MaxFilesAssumption == MAX_FILES \in Nat \ {0}

Fd == 0 .. MAX_FILES - 1

EmptyList ==
  [use_position |-> [fd \in Fd |-> 0], used |-> [i \in Fd |-> 0], pos |-> 0]

\* A plausible slip: the list grows before the descriptor is stored in it.
LinkAfterGrowing(l, fd) ==
  [use_position |-> [l.use_position EXCEPT ![fd] = l.pos],
   used |-> [l.used EXCEPT ![l.pos + 1] = fd],
   pos |-> l.pos + 1]

link_file_descriptor(l, fd) ==
  [use_position |-> [l.use_position EXCEPT ![fd] = l.pos],
   used |-> [l.used EXCEPT ![l.pos] = fd],
   pos |-> l.pos + 1]

\* A plausible slip: the hole is filled and the list stays as long as it was.
UnlinkKeepsLength(l, fd) ==
  LET last == l.pos - 1 IN
  IF last > 0
  THEN [l EXCEPT !.use_position[last] = l.use_position[fd],
                 !.used[l.use_position[fd]] = last]
  ELSE l

\* The hole is filled with the position "last", not with the descriptor that
\* is stored there, and that position is then taken for a slot of the table.
unlink_file_descriptor(l, fd) ==
  LET last == l.pos - 1 IN
  IF last > 0
  THEN [use_position |-> [l.use_position EXCEPT ![last] = l.use_position[fd]],
        used |-> [l.used EXCEPT ![l.use_position[fd]] = last],
        pos |-> last]
  ELSE [l EXCEPT !.pos = last]
=============================================================================
