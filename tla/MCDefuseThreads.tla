-------------------------- MODULE MCDefuseThreads --------------------------
\* Small instances of DefuseThreads for TLC.
EXTENDS DefuseThreads, TLC

CONSTANTS
  PosBound,     \* bound on the drift of the list's length under races
  MixedFds      \* bound on the descriptors of a mixed process

VARIABLE mixed  \* first use by threads, and closes the library does not see?

MCInit == \/ mixed = FALSE /\ WarmInit
          \/ mixed = TRUE /\ ColdInit
MCNext ==
  /\ Next \/ (mixed /\ \E t \in Thread : unseen_close(t))
  /\ UNCHANGED mixed
MCSpec == MCInit /\ [][MCNext]_<<vars, mixed>>

PosBounded ==
  /\ used_file_descriptor_pos \in -PosBound .. PosBound
  /\ IF mixed THEN kernel_fds \subseteq 0 .. MixedFds - 1
              ELSE Cardinality(backend_open) <= OPEN_MAX

Symmetry == Permutations(Thread) \cup Permutations(Handle)

\* ServedByOwn in an initialised process: a descriptor is served by the handle
\* that its own defuse_open obtained until its own close.
WarmServedByOwn == ~mixed => ServedByOwn

\* FreeFdHasEmptySlot in an initialised process: defuse_close clears the slot
\* before the kernel may give the number to another thread's defuse_open.
WarmFreeFdHasEmptySlot == ~mixed => FreeFdHasEmptySlot

\* HandlesAccounted in an initialised process: no error path of defuse_open or
\* defuse_close leaks a handle or closes one twice.
WarmHandlesAccounted == ~mixed => HandlesAccounted

\* LeaksOnlyPastTable in an initialised process: the only kernel descriptors
\* defuse_open forgets are those insert_file_handle refuses with EBADF.
WarmLeaksOnlyPastTable == ~mixed => LeaksOnlyPastTable

\* What a thread's calls have done so far, and the files that it has open: those
\* whose descriptor the table leads to their handle, from the store of
\* insert_file_handle to the close of the handle.
Phase(t) ==
  IF mixed \/ pc[t] = "idle" THEN "none"
  ELSE IF pc[t] \in {"link_load", "link_store"} \/ Closing(t, fd[t]) THEN "done"
  ELSE "begun"

HasOpen(t) ==
  {o \in Slot \X Handle :
     /\ ~mixed /\ ~Closing(t, o[1]) /\ file_handles[o[1]] = o[2]
     /\ o \in owned[t] \/ (pc[t] \in {"link_load", "link_store"} /\ o = <<fd[t], fh[t]>>)}

Calls == [t \in Thread |-> Phase(t)]
Files == [t \in Thread |-> HasOpen(t)]

Atomic == INSTANCE AtomicCalls WITH Fd <- Slot, call <- Calls, files <- Files

\* In an initialised process the calls of defuse_open and defuse_close by any
\* threads are atomic, although they take no lock: open takes effect when
\* insert_file_handle stores the handle, close when the back end closes it, no
\* step of another thread adds or takes a file, and no two threads have a
\* descriptor or a handle in common.
CallsAtomic == Atomic!Spec
=============================================================================
