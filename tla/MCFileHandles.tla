--------------------------- MODULE MCFileHandles ---------------------------
\* Small instances of FileHandles for TLC: the table of libdefuse and that of
\* musl, chosen at the start of a behaviour.
EXTENDS FileHandles

CONSTANT MaxUse    \* bound on a use count

VARIABLE musl      \* is this the table of musl/src/defuse?

MCInit == Init /\ musl \in BOOLEAN
MCNext ==
  /\ (~musl /\ Next) \/ (musl /\ MuslNext)
  /\ UNCHANGED musl
MCSpec == MCInit /\ [][MCNext]_<<tableVars, musl>>

\* libdefuse's duplicate_file_handle may count one user any number of times.
UseBound == \A a \in Addr : use_count[a] <= MaxUse

\* musl's duplicate_file_handle neither leaks nor frees early: an object lives
\* exactly as long as a slot points to it and counts exactly those slots.
MuslCountsExactly == musl => UseCountExact
=============================================================================
