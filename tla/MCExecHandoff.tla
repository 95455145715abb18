--------------------------- MODULE MCExecHandoff ---------------------------
\* Small instances of ExecHandoff for TLC.
EXTENDS ExecHandoff, TLC

CONSTANT ReuseFds     \* bound on the descriptors of programs that reuse pids

VARIABLE reuse        \* may a pid with a shared space be used again?

\* Programs that close in reverse order, with and without shared spaces that
\* an earlier process left under the same pid.
MCInit == Init /\ reuse \in BOOLEAN
MCNext ==
  /\ (~reuse /\ OrderlyNext) \/ (reuse /\ NestedNext)
  /\ UNCHANGED reuse
MCSpec == MCInit /\ [][MCNext]_<<vars, reuse>>

ReuseBound ==
  reuse => \A p \in Pid : \A fd \in Fd : fd >= ReuseFds => kernel_fds[p][fd] = NULL

Symmetry == Permutations(Pid) \cup Permutations(File)

\* ServedExactly for programs that hold a file whenever they exec under a pid
\* that has a shared space: open, close, fork, exec and failed exec leave their
\* descriptors, and no others, served by the files the kernel has.
OrderlyServedExactly == ~reuse => ServedExactly

\* ListIsOpened for the same programs: the list stays the descriptors in the
\* order of opening, although unlink_file_descriptor confuses positions with
\* descriptors and leaves use_position wrong.
OrderlyListIsOpened == ~reuse => ListIsOpened
=============================================================================
