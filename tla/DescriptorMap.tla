--------------------------- MODULE DescriptorMap ---------------------------
(***************************************************************************)
(* What the descriptor table promises its callers (open.c, close.c, the    *)
(* DEFUSE_FD_OP wrappers): a map from descriptors to the data of the user  *)
(* space file behind them.  No objects, no reference counts, no list.      *)
(***************************************************************************)
CONSTANTS Slot, Data, NULL

VARIABLE served    \* slot -> data, or NULL for a descriptor of the kernel's

Init == served = [fd \in Slot |-> NULL]

\* A slot is given to a file only while it is empty.
Insert(fd, d) == served[fd] = NULL /\ served' = [served EXCEPT ![fd] = d]

Remove(fd) == served[fd] # NULL /\ served' = [served EXCEPT ![fd] = NULL]

\* fd2 becomes another name for what fd1 is served by.
Duplicate(fd1, fd2) ==
  served[fd1] # NULL /\ served' = [served EXCEPT ![fd2] = served[fd1]]

Next ==
  \/ \E fd \in Slot, d \in Data : Insert(fd, d)
  \/ \E fd \in Slot : Remove(fd)
  \/ \E fd1, fd2 \in Slot : Duplicate(fd1, fd2)

Spec == Init /\ [][Next]_served
=============================================================================
