---------------------------- MODULE ExecHandoff ----------------------------
(***************************************************************************)
(* How the descriptor table survives exec.  A new program image starts     *)
(* with an empty table while its kernel descriptors stay open, so the exec *)
(* wrappers of lddefuse/unistd.c save the table to /tmp/defuse_<pid>       *)
(* (save_file_handles_to_shared_space) and the constructor of the new      *)
(* image restores it (restore_file_handles_from_shared_space), one entry   *)
(* per step here, before the program runs.  The file is keyed by the pid   *)
(* and nothing ever removes it.                                            *)
(*                                                                         *)
(* Every descriptor past the reserved ones is open on a file of a defuse   *)
(* mount; kernel_fds says which, and the table ought to say the same.  The *)
(* table's objects are those of FileHandles (they are never shared here:   *)
(* lddefuse does not interpose dup), and the list is DescriptorList's.     *)
(***************************************************************************)
EXTENDS DescriptorList, Sequences

CONSTANTS
  Pid,
  Reserved,    \* descriptors below this are the standard streams
  File,        \* open files of the user space file system
  NULL

ASSUME HandoffAssumption == Reserved \in 1 .. MAX_FILES /\ NULL \notin File

VARIABLES
  live,          \* running processes
  kernel_fds,    \* pid -> slot -> file the kernel descriptor is open on, or NULL
  table,         \* pid -> slot -> file find_file_handle answers, or NULL
  list,          \* pid -> list of used descriptors
  opened,        \* pid -> its descriptors in the order the program opened them
  todo,          \* pid -> entries its constructor has not restored yet
  space,         \* pid -> contents of /tmp/defuse_<pid>: <<>> if there is none
  crashed        \* processes that died inside save_file_handles_to_shared_space

vars == <<live, kernel_fds, table, list, opened, todo, space, crashed>>

NoFiles == [fd \in Fd |-> NULL]

Init ==
  /\ \E p \in Pid : live = {p}
  /\ kernel_fds = [p \in Pid |-> NoFiles]
  /\ table = [p \in Pid |-> NoFiles]
  /\ list = [p \in Pid |-> EmptyList]
  /\ opened = [p \in Pid |-> <<>>]
  /\ todo = [p \in Pid |-> <<>>]
  /\ space = [p \in Pid |-> <<>>]
  /\ crashed = {}

\* The program runs once the constructor is through.
Running(p) == p \in live /\ todo[p] = <<>>

----------------------------------------------------------------------------
\* defuse_open, as DefuseThreads has it in steps, with the lowest free number.
open(p) ==
  /\ Running(p)
  /\ \E fd \in Reserved .. MAX_FILES - 1, f \in File :
       /\ kernel_fds[p][fd] = NULL
       /\ \A g \in Reserved .. fd - 1 : kernel_fds[p][g] # NULL
       /\ \A g \in Fd : kernel_fds[p][g] # f
       /\ table[p][fd] = NULL
       /\ kernel_fds' = [kernel_fds EXCEPT ![p][fd] = f]
       /\ table' = [table EXCEPT ![p][fd] = f]
       /\ list' = [list EXCEPT ![p] = link_file_descriptor(@, fd)]
       /\ opened' = [opened EXCEPT ![p] = Append(@, fd)]
  /\ UNCHANGED <<live, todo, space, crashed>>

\* insert_file_handle finds the slot occupied: the handle is closed again and
\* the kernel descriptor stays open, known to nobody.
open_exists(p) ==
  /\ Running(p)
  /\ \E fd \in Reserved .. MAX_FILES - 1, f \in File :
       /\ kernel_fds[p][fd] = NULL
       /\ \A g \in Reserved .. fd - 1 : kernel_fds[p][g] # NULL
       /\ \A g \in Fd : kernel_fds[p][g] # f
       /\ table[p][fd] # NULL
       /\ kernel_fds' = [kernel_fds EXCEPT ![p][fd] = f]
  /\ UNCHANGED <<live, table, list, opened, todo, space, crashed>>

\* The sequence s without its i-th element.
Without(s, i) == [j \in 1 .. Len(s) - 1 |-> IF j < i THEN s[j] ELSE s[j + 1]]

\* Close of the i-th of the program's descriptors.
close(p, i) ==
  LET fd == opened[p][i] IN
  /\ Running(p) /\ table[p][fd] # NULL
  /\ kernel_fds' = [kernel_fds EXCEPT ![p][fd] = NULL]
  /\ table' = [table EXCEPT ![p][fd] = NULL]
  /\ list' = [list EXCEPT ![p] = unlink_file_descriptor(@, fd)]
  /\ opened' = [opened EXCEPT ![p] = Without(@, i)]
  /\ UNCHANGED <<live, todo, space, crashed>>

\* A descriptor the table does not know is closed by the kernel alone.
close_unserved(p, i) ==
  LET fd == opened[p][i] IN
  /\ Running(p) /\ table[p][fd] = NULL
  /\ kernel_fds' = [kernel_fds EXCEPT ![p][fd] = NULL]
  /\ opened' = [opened EXCEPT ![p] = Without(@, i)]
  /\ UNCHANGED <<live, table, list, todo, space, crashed>>

fork(p, c) ==
  /\ Running(p) /\ c \notin live \cup crashed
  /\ live' = live \cup {c}
  /\ kernel_fds' = [kernel_fds EXCEPT ![c] = kernel_fds[p]]
  /\ table' = [table EXCEPT ![c] = table[p]]
  /\ list' = [list EXCEPT ![c] = list[p]]
  /\ opened' = [opened EXCEPT ![c] = opened[p]]
  /\ todo' = [todo EXCEPT ![c] = todo[p]]
  /\ UNCHANGED <<space, crashed>>

\* The slots save walks, by the list; it dereferences each one.
Walked(p) == [i \in 1 .. list[p].pos |-> list[p].used[i - 1]]
SaveFaults(p) == \E i \in 1 .. list[p].pos : table[p][Walked(p)[i]] = NULL

\* A slip: the loop starts at the second position.
SaveSkipsFirst(p) ==
  IF list[p].pos = 0 THEN space[p]
  ELSE Tail([i \in 1 .. list[p].pos |-> <<Walked(p)[i], table[p][Walked(p)[i]]>>])

\* What the shared space holds after a save: nothing is written, and nothing
\* removed, when no descriptor is in use.
Saved(p) ==
  IF list[p].pos = 0 THEN space[p]
  ELSE [i \in 1 .. list[p].pos |-> <<Walked(p)[i], table[p][Walked(p)[i]]>>]

\* The shared spaces after process p wrote its own, and what process p finds
\* in its own: the file name holds the pid.
init_shared_space(p, contents) == [space EXCEPT ![p] = contents]
get_shared_space(p) == space[p]

\* execv and its variants: the new image has an empty table, and what its
\* constructor finds in the shared space to restore.
exec(p) ==
  /\ Running(p) /\ ~SaveFaults(p)
  /\ space' = init_shared_space(p, Saved(p))
  /\ table' = [table EXCEPT ![p] = NoFiles]
  /\ list' = [list EXCEPT ![p] = EmptyList]
  /\ todo' = [todo EXCEPT ![p] = get_shared_space(p)']
  /\ UNCHANGED <<live, kernel_fds, opened, crashed>>

\* restore_file_handles_from_shared_space, an iteration of its loop: an entry
\* for a slot that is occupied is passed over.
restore(p) ==
  LET fd == Head(todo[p])[1]
      exists == table[p][fd] # NULL
  IN
  /\ p \in live /\ todo[p] # <<>>
  /\ todo' = [todo EXCEPT ![p] = Tail(@)]
  /\ table' = IF exists THEN table ELSE [table EXCEPT ![p][fd] = Head(todo[p])[2]]
  /\ list' = IF exists THEN list ELSE [list EXCEPT ![p] = link_file_descriptor(@, fd)]
  /\ UNCHANGED <<live, kernel_fds, opened, space, crashed>>

\* The real exec returns: the table was saved, the image goes on.
exec_fails(p) ==
  /\ Running(p) /\ ~SaveFaults(p)
  /\ space' = init_shared_space(p, Saved(p))
  /\ UNCHANGED <<live, kernel_fds, table, list, opened, todo, crashed>>

\* A process ends: its shared space is all that it leaves.
End(p) ==
  /\ live' = live \ {p}
  /\ kernel_fds' = [kernel_fds EXCEPT ![p] = NoFiles]
  /\ table' = [table EXCEPT ![p] = NoFiles]
  /\ list' = [list EXCEPT ![p] = EmptyList]
  /\ opened' = [opened EXCEPT ![p] = <<>>]
  /\ todo' = [todo EXCEPT ![p] = <<>>]
  /\ UNCHANGED space

exec_crashes(p) ==
  /\ Running(p) /\ SaveFaults(p)
  /\ End(p)
  /\ crashed' = crashed \cup {p}

\* At any time, also in the middle of the constructor.
exit(p) ==
  /\ p \in live
  /\ End(p)
  /\ UNCHANGED crashed

\* A program started by a parent without lddefuse, under a pid that may have
\* been used before: it has nothing (Init, End) but that pid's shared space.
start(p) ==
  /\ p \notin live \cup crashed
  /\ live' = live \cup {p}
  /\ todo' = [todo EXCEPT ![p] = get_shared_space(p)]
  /\ UNCHANGED <<kernel_fds, table, list, opened, space, crashed>>

----------------------------------------------------------------------------
\* What programs do, by how they close and exec.
Common(p) == restore(p) \/ open(p) \/ exit(p) \/ \E c \in Pid : fork(p, c)

closes_last(p) == opened[p] # <<>> /\ close(p, Len(opened[p]))

\* A save is needed to replace what an earlier one left under the same pid.
Replaces(p) == list[p].pos > 0 \/ space[p] = <<>>

\* Programs that close in the reverse order of opening, and that hold a file
\* whenever they exec under a pid that has a shared space.
OrderlyNext ==
  \E p \in Pid :
    \/ Common(p) \/ closes_last(p)
    \/ Replaces(p) /\ (exec(p) \/ exec_fails(p))
    \/ space[p] = <<>> /\ start(p)

\* Programs that close in the reverse order of opening.
NestedNext ==
  \E p \in Pid :
    \/ Common(p) \/ open_exists(p) \/ closes_last(p)
    \/ exec(p) \/ exec_fails(p) \/ start(p)

\* Programs that hold a file whenever they exec, and close in any order.
AnyCloseNext ==
  \E p \in Pid :
    \/ Common(p) \/ \E i \in DOMAIN opened[p] : close(p, i) \/ close_unserved(p, i)
    \/ exec_crashes(p)
    \/ Replaces(p) /\ (exec(p) \/ exec_fails(p))

AnyCloseSpec == Init /\ [][AnyCloseNext]_vars

----------------------------------------------------------------------------
\* Types; among them that the list neither overruns its arrays nor shrinks
\* below zero across fork, exec and restore, and that only files are saved.
TypeOK ==
  /\ live \subseteq Pid /\ crashed \subseteq Pid
  /\ kernel_fds \in [Pid -> [Fd -> File \cup {NULL}]]
  /\ table \in [Pid -> [Fd -> File \cup {NULL}]]
  /\ list \in [Pid -> [use_position : [Fd -> Fd], used : [Fd -> Fd], pos : 0 .. MAX_FILES]]
  /\ opened \in [Pid -> Seq(Fd)]
  /\ todo \in [Pid -> Seq(Fd \X File)] /\ space \in [Pid -> Seq(Fd \X File)]

\* Through every sequence of open, close, fork, exec and failed exec, a running
\* program's descriptors are served by the files the kernel has them open on,
\* and no other descriptor is served.
ServedExactly == \A p \in Pid : Running(p) => table[p] = kernel_fds[p]

\* The list of a program that closes in reverse order is its descriptors in
\* the order it opened them, although unlink_file_descriptor confuses
\* positions with descriptors and leaves use_position wrong.
ListIsOpened ==
  \A p \in Pid : Running(p) => Walked(p) = opened[p]

\* No exec wrapper follows a NULL pointer of the table while it writes the file
\* descriptor data to the shared space.
SaveSurvives == crashed = {}

\* The same as a statement about programs that close in reverse order: whatever
\* shared spaces of earlier processes they restored, their next exec follows no
\* NULL pointer.
NextSaveSurvives == \A p \in Pid : Running(p) => ~SaveFaults(p)

\* What a program holds is served by its own file even when shared spaces of
\* earlier processes are restored: the entries they leave occupy slots (and
\* make defuse_open fail there), but never stand in for an open descriptor.
OpenedServed ==
  \A p \in Pid : Running(p) => \A i \in DOMAIN opened[p] :
    LET fd == opened[p][i] IN kernel_fds[p][fd] # NULL /\ table[p][fd] = kernel_fds[p][fd]
=============================================================================
