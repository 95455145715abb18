--------------------------- MODULE DefuseThreads ---------------------------
(***************************************************************************)
(* defuse_open and defuse_close (libdefuse/open.c, close.c) run by several *)
(* threads of one process over the shared descriptor table, with no lock:  *)
(* each step is one call into the kernel or the user space file system, or *)
(* one access to shared memory.  As in test/doTest.c, a thread only closes *)
(* descriptors that it opened.  The kernel's descriptor allocation and the *)
(* user space file system are external.                                    *)
(*                                                                         *)
(* Of the list of used descriptors only its length is kept here: what it   *)
(* holds is the subject of DescriptorList and ExecHandoff.  A backend open *)
(* that fails changes nothing and is not a step.                           *)
(***************************************************************************)
EXTENDS Integers, FiniteSets

CONSTANTS
  Thread,
  MAX_FILES,    \* slots of the table
  OPEN_MAX,     \* descriptors the kernel gives a process
  Handle,       \* file handles of the user space file system
  NULL

ASSUME ThreadsAssumption ==
  MAX_FILES \in Nat \ {0} /\ OPEN_MAX \in Nat \ {0} /\ NULL \notin Handle

VARIABLES
  kernel_fds,                 \* descriptors in use in the kernel
  backend_open,               \* file handles open in the user space file system
  file_handles,               \* slot -> file handle of the object, or NULL
  used_file_descriptor_pos,
  fht_initialized,            \* the static flag of get_instance
  pc, fd, fh, reg,            \* per thread: step, locals, the register of pos++
  owned                       \* per thread: <<fd, fh>> its opens returned

shared == <<kernel_fds, backend_open, file_handles, used_file_descriptor_pos, fht_initialized>>
vars == <<shared, pc, fd, fh, reg, owned>>

Slot == 0 .. MAX_FILES - 1
KernelFd == 0 .. OPEN_MAX - 1

\* The table a program has once some thread made a call on a descriptor.
WarmInit ==
  /\ kernel_fds = {} /\ backend_open = {}
  /\ file_handles = [s \in Slot |-> NULL]
  /\ used_file_descriptor_pos = 0
  /\ fht_initialized = TRUE
  /\ pc = [t \in Thread |-> "idle"]
  /\ fd = [t \in Thread |-> 0]
  /\ fh = [t \in Thread |-> NULL]
  /\ reg = [t \in Thread |-> 0]
  /\ owned = [t \in Thread |-> {}]

\* The table before its first use: the constructor start_up loads the mounts
\* but touches the table only when there is a shared space to restore.
ColdInit ==
  /\ kernel_fds = {} /\ backend_open = {}
  /\ file_handles = [s \in Slot |-> NULL]
  /\ used_file_descriptor_pos = 0
  /\ fht_initialized = FALSE
  /\ pc = [t \in Thread |-> "idle"]
  /\ fd = [t \in Thread |-> 0]
  /\ fh = [t \in Thread |-> NULL]
  /\ reg = [t \in Thread |-> 0]
  /\ owned = [t \in Thread |-> {}]

Goto(t, from, to) == pc[t] = from /\ pc' = [pc EXCEPT ![t] = to]

----------------------------------------------------------------------------
\* mp->open(cpath, flags, mode, &fh)
backend_open_step(t) ==
  /\ Goto(t, "idle", "real_open")
  /\ \E h \in Handle \ backend_open :
       /\ backend_open' = backend_open \cup {h}
       /\ fh' = [fh EXCEPT ![t] = h]
  /\ UNCHANGED <<kernel_fds, file_handles, used_file_descriptor_pos, fht_initialized, fd, reg, owned>>

\* The kernel gives the lowest descriptor that is not in use.
real_open(t) ==
  /\ Goto(t, "real_open", "insert")
  /\ \E f \in KernelFd \ kernel_fds :
       /\ \A g \in KernelFd \ kernel_fds : f <= g
       /\ kernel_fds' = kernel_fds \cup {f}
       /\ fd' = [fd EXCEPT ![t] = f]
  /\ UNCHANGED <<backend_open, file_handles, used_file_descriptor_pos, fht_initialized, fh, reg, owned>>

real_open_fails(t) ==
  /\ Goto(t, "real_open", "undo")
  /\ UNCHANGED <<shared, fd, fh, reg, owned>>

\* A slip: a descriptor past the table is not refused.
insert_past_table_unchecked(t) ==
  /\ fd[t] >= MAX_FILES
  /\ Goto(t, "insert", "link_load")
  /\ UNCHANGED <<shared, fd, fh, reg, owned>>

\* insert_file_handle: EBADF before the table is looked at.
insert_past_table(t) ==
  /\ fd[t] >= MAX_FILES
  /\ Goto(t, "insert", "undo")
  /\ UNCHANGED <<shared, fd, fh, reg, owned>>

\* A slip: every use of the table clears it.
get_instance_always_clears(t) ==
  /\ fd[t] < MAX_FILES
  /\ Goto(t, "insert", "memset")
  /\ UNCHANGED <<shared, fd, fh, reg, owned>>

\* get_instance: test the flag, memset, set the flag.
get_instance(t) ==
  /\ fd[t] < MAX_FILES
  /\ Goto(t, "insert", IF fht_initialized THEN "store" ELSE "memset")
  /\ UNCHANGED <<shared, fd, fh, reg, owned>>

get_instance_memset(t) ==
  /\ Goto(t, "memset", "flag")
  /\ file_handles' = [s \in Slot |-> NULL]
  /\ used_file_descriptor_pos' = 0
  /\ UNCHANGED <<kernel_fds, backend_open, fht_initialized, fd, fh, reg, owned>>

get_instance_flag(t) ==
  /\ Goto(t, "flag", "store")
  /\ fht_initialized' = TRUE
  /\ UNCHANGED <<kernel_fds, backend_open, file_handles, used_file_descriptor_pos, fd, fh, reg, owned>>

\* A slip: an occupied slot is taken for a successful insert.
insert_exists_ignored(t) ==
  /\ fd[t] \in Slot /\ file_handles[fd[t]] # NULL
  /\ Goto(t, "store", "link_load")
  /\ UNCHANGED <<shared, fd, fh, reg, owned>>

insert_exists(t) ==
  /\ fd[t] \in Slot /\ file_handles[fd[t]] # NULL
  /\ Goto(t, "store", "undo")
  /\ UNCHANGED <<shared, fd, fh, reg, owned>>

insert_store(t) ==
  /\ fd[t] \in Slot /\ file_handles[fd[t]] = NULL
  /\ Goto(t, "store", "link_load")
  /\ file_handles' = [file_handles EXCEPT ![fd[t]] = fh[t]]
  /\ UNCHANGED <<kernel_fds, backend_open, used_file_descriptor_pos, fht_initialized, fd, fh, reg, owned>>

\* link_file_descriptor: used_file_descriptor_pos++ is a load and a store.
link_load(t) ==
  /\ Goto(t, "link_load", "link_store")
  /\ reg' = [reg EXCEPT ![t] = used_file_descriptor_pos]
  /\ UNCHANGED <<shared, fd, fh, owned>>

link_store(t) ==
  /\ Goto(t, "link_store", "idle")
  /\ used_file_descriptor_pos' = reg[t] + 1
  /\ owned' = [owned EXCEPT ![t] = @ \cup {<<fd[t], fh[t]>>}]
  /\ UNCHANGED <<kernel_fds, backend_open, file_handles, fht_initialized, fd, fh, reg>>

\* The error paths of defuse_open close the file handle; the descriptor that
\* real_open returned, if any, stays open.  A slip: the handle is forgotten.
undo_forgets(t) ==
  /\ Goto(t, "undo", "idle")
  /\ UNCHANGED <<shared, fd, fh, reg, owned>>

undo(t) ==
  /\ Goto(t, "undo", "idle")
  /\ backend_open' = backend_open \ {fh[t]}
  /\ UNCHANGED <<kernel_fds, file_handles, used_file_descriptor_pos, fht_initialized, fd, fh, reg, owned>>

----------------------------------------------------------------------------
\* close: find_file_handle, which finds the instance initialised by this
\* thread's own open.  An empty slot sends the call to the kernel alone.
close_find(t) ==
  /\ \E o \in owned[t] :
       /\ fd' = [fd EXCEPT ![t] = o[1]]
       /\ fh' = [fh EXCEPT ![t] = file_handles[o[1]]]
       /\ Goto(t, "idle", IF file_handles[o[1]] = NULL THEN "real_close" ELSE "backend_close")
  /\ UNCHANGED <<shared, reg, owned>>

\* fhd->mount->close(fhd->file_handle): an error leaves everything in place.
backend_close_fails(t) ==
  /\ Goto(t, "backend_close", "idle")
  /\ UNCHANGED <<shared, fd, fh, reg, owned>>

backend_close(t) ==
  /\ Goto(t, "backend_close", "remove")
  /\ backend_open' = backend_open \ {fh[t]}
  /\ UNCHANGED <<kernel_fds, file_handles, used_file_descriptor_pos, fht_initialized, fd, fh, reg, owned>>

\* remove_file_handle: ENOENT, or free the object and go on to unlink.
remove_missing(t) ==
  /\ Goto(t, "remove", "idle")
  /\ file_handles[fd[t]] = NULL
  /\ UNCHANGED <<shared, fd, fh, reg, owned>>

remove_file_handle(t) ==
  /\ Goto(t, "remove", "unlink_load")
  /\ file_handles[fd[t]] # NULL
  /\ UNCHANGED <<shared, fd, fh, reg, owned>>

\* unlink_file_descriptor: pos-- is a load and a store, then the slot goes.
unlink_load(t) ==
  /\ Goto(t, "unlink_load", "unlink_store")
  /\ reg' = [reg EXCEPT ![t] = used_file_descriptor_pos]
  /\ UNCHANGED <<shared, fd, fh, owned>>

unlink_store(t) ==
  /\ Goto(t, "unlink_store", "clear")
  /\ used_file_descriptor_pos' = reg[t] - 1
  /\ UNCHANGED <<kernel_fds, backend_open, file_handles, fht_initialized, fd, fh, reg, owned>>

\* A slip: the descriptor goes back to the kernel before the slot is cleared.
clear_after_close(t) ==
  \/ /\ pc[t] = "clear" /\ fd[t] \in kernel_fds
     /\ kernel_fds' = kernel_fds \ {fd[t]}
     /\ UNCHANGED <<backend_open, file_handles, used_file_descriptor_pos, fht_initialized,
                    pc, fd, fh, reg, owned>>
  \/ /\ fd[t] \notin kernel_fds
     /\ Goto(t, "clear", "real_close")
     /\ file_handles' = [file_handles EXCEPT ![fd[t]] = NULL]
     /\ UNCHANGED <<kernel_fds, backend_open, used_file_descriptor_pos, fht_initialized,
                    fd, fh, reg, owned>>

unlink_clear(t) ==
  /\ Goto(t, "clear", "real_close")
  /\ file_handles' = [file_handles EXCEPT ![fd[t]] = NULL]
  /\ UNCHANGED <<kernel_fds, backend_open, used_file_descriptor_pos, fht_initialized, fd, fh, reg, owned>>

\* A slip: close returns once the table is in order.
real_close_forgotten(t) ==
  /\ Goto(t, "real_close", "idle")
  /\ owned' = [owned EXCEPT ![t] = {o \in @ : o[1] # fd[t]}]
  /\ UNCHANGED <<shared, fd, fh, reg>>

real_close(t) ==
  /\ Goto(t, "real_close", "idle")
  /\ kernel_fds' = kernel_fds \ {fd[t]}
  /\ owned' = [owned EXCEPT ![t] = {o \in @ : o[1] # fd[t]}]
  /\ UNCHANGED <<backend_open, file_handles, used_file_descriptor_pos, fht_initialized, fd, fh, reg>>

----------------------------------------------------------------------------
defuse_open(t) ==
  \/ backend_open_step(t) \/ real_open(t) \/ real_open_fails(t)
  \/ insert_past_table(t) \/ get_instance(t) \/ insert_exists(t) \/ insert_store(t)
  \/ link_load(t) \/ link_store(t) \/ undo(t)

first_use(t) == get_instance_memset(t) \/ get_instance_flag(t)

defuse_close(t) ==
  \/ close_find(t) \/ backend_close_fails(t) \/ backend_close(t)
  \/ remove_missing(t) \/ remove_file_handle(t)
  \/ unlink_load(t) \/ unlink_store(t) \/ unlink_clear(t) \/ real_close(t)

\* A descriptor that leaves the kernel's table without lddefuse seeing it: by
\* dup2 over it or by a close inside the C library, neither is interposed.
unseen_close(t) ==
  /\ pc[t] = "idle"
  /\ \E o \in owned[t] :
       /\ kernel_fds' = kernel_fds \ {o[1]}
       /\ owned' = [owned EXCEPT ![t] = @ \ {o}]
  /\ UNCHANGED <<backend_open, file_handles, used_file_descriptor_pos, fht_initialized,
                 pc, fd, fh, reg>>

Next == \E t \in Thread : defuse_open(t) \/ first_use(t) \/ defuse_close(t)

WarmSpec == WarmInit /\ [][Next]_vars
ColdSpec == ColdInit /\ [][Next]_vars

----------------------------------------------------------------------------
Step ==
  {"idle", "real_open", "insert", "memset", "flag", "store", "link_load", "link_store", "undo",
   "backend_close", "remove", "unlink_load", "unlink_store", "clear", "real_close"}

\* Thread t is past the point of close where the handle is gone.
Closing(t, f) ==
  fd[t] = f /\ pc[t] \in {"remove", "unlink_load", "unlink_store", "clear", "real_close"}

AtRest == \A t \in Thread : pc[t] = "idle"
AllOwned == UNION {owned[t] : t \in Thread}

\* Types; an opened descriptor that a thread holds lies inside the table.
TypeOK ==
  /\ kernel_fds \subseteq KernelFd /\ backend_open \subseteq Handle
  /\ file_handles \in [Slot -> Handle \cup {NULL}]
  /\ used_file_descriptor_pos \in Int /\ fht_initialized \in BOOLEAN
  /\ pc \in [Thread -> Step] /\ fd \in [Thread -> KernelFd]
  /\ fh \in [Thread -> Handle \cup {NULL}] /\ reg \in [Thread -> Int]
  /\ owned \in [Thread -> SUBSET (Slot \X Handle)]

\* Between defuse_open's return and its own close, a thread's descriptor is
\* served by the handle that open obtained, and that handle is open in the
\* user space file system, whatever the other threads open and close: close
\* clears the slot before the kernel may hand the number out again.
ServedByOwn ==
  \A t \in Thread : \A o \in owned[t] :
    ~Closing(t, o[1]) => file_handles[o[1]] = o[2] /\ o[2] \in backend_open

\* The table never routes a thread's descriptor to another open's handle, even
\* when the table was wiped by a late first use (get_instance) or when slots
\* went stale behind the library: insert_file_handle refuses an occupied slot.
NeverServedByOther ==
  \A t \in Thread : \A o \in owned[t] :
    file_handles[o[1]] \in {o[2], NULL}

\* A number the kernel may give out has an empty slot, so that defuse_open does
\* not meet EEXIST (which would leak the descriptor real_open returned).
FreeFdHasEmptySlot == \A f \in Slot \ kernel_fds : file_handles[f] = NULL

\* With no call in progress the file handles open in the user space file system
\* are those of the descriptors threads hold, one each: no error path of open
\* or close leaks a handle or closes one twice.
HandlesAccounted ==
  AtRest => /\ backend_open = {o[2] : o \in AllOwned}
            /\ \A o1, o2 \in AllOwned : o1[2] = o2[2] => o1 = o2

\* With no call in progress a kernel descriptor that nobody holds (the one
\* defuse_open forgets when insert_file_handle fails) lies past the table.
LeaksOnlyPastTable ==
  AtRest => kernel_fds \ {o[1] : o \in AllOwned} \subseteq {f \in KernelFd : f >= MAX_FILES}
=============================================================================
