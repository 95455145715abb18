------------------------ MODULE DefuseThreadsProofs ------------------------
(***************************************************************************)
(* Proofs that in a program whose table is initialised the unlocked steps  *)
(* of defuse_open and defuse_close keep every thread's descriptors served, *)
(* leave the slots of free numbers empty and lose no handle to the back    *)
(* end; and that in any program, first use or not, no descriptor is served *)
(* by another one's handle.  And that the calls of an initialised process  *)
(* implement atomic ones (AtomicCalls).  For any number of threads, slots, *)
(* descriptors and handles.                                                *)
(***************************************************************************)
EXTENDS MCDefuseThreads, TLAPS

\* The phases of a call, by what the thread has obtained and not given back.
Opening == {"insert", "store", "link_load", "link_store"}
HoldsHandle == Opening \cup {"real_open", "undo"}
InClose == {"backend_close", "remove", "unlink_load", "unlink_store", "clear", "real_close"}

\* The table was initialised before, so nobody clears it.
Initialised ==
  fht_initialized = TRUE /\ \A t \in Thread : pc[t] \notin {"memset", "flag"}

\* Each kernel descriptor has at most one keeper: the open in progress that
\* obtained it, or the thread that holds it.
FdInv ==
  /\ \A t \in Thread : pc[t] \in Opening => fd[t] \in kernel_fds
  /\ \A t, u \in Thread : t # u /\ pc[t] \in Opening /\ pc[u] \in Opening => fd[t] # fd[u]
  /\ \A t, u \in Thread : pc[t] \in Opening => \A o \in owned[u] : o[1] # fd[t]
  /\ \A t \in Thread : \A o \in owned[t] : o[1] \in kernel_fds
  /\ \A t, u \in Thread : \A o \in owned[t], q \in owned[u] : o[1] = q[1] => t = u /\ o = q
  /\ \A t \in Thread : pc[t] \in InClose => <<fd[t], fh[t]>> \in owned[t]

\* A slot holds the handle of its descriptor's keeper, from the store of
\* insert_file_handle to the last statement of unlink_file_descriptor.
SlotInv ==
  /\ FreeFdHasEmptySlot
  /\ \A t \in Thread : pc[t] \in {"insert", "store"} /\ fd[t] \in Slot => file_handles[fd[t]] = NULL
  /\ \A t \in Thread : pc[t] = "store" => fd[t] \in Slot
  /\ \A t \in Thread : pc[t] \in {"link_load", "link_store"} =>
       fd[t] \in Slot /\ file_handles[fd[t]] = fh[t]
  /\ \A t \in Thread : \A o \in owned[t] :
       ~(pc[t] = "real_close" /\ fd[t] = o[1]) => file_handles[o[1]] = o[2]
  /\ \A t \in Thread : pc[t] = "real_close" => file_handles[fd[t]] = NULL

\* A handle is open while an open in progress or a held descriptor has it, and
\* no two of them have the same.
HandleInv ==
  /\ \A t \in Thread : pc[t] \in HoldsHandle => fh[t] \in backend_open
  /\ \A t, u \in Thread : t # u /\ pc[t] \in HoldsHandle /\ pc[u] \in HoldsHandle => fh[t] # fh[u]
  /\ \A t \in Thread : \A o \in owned[t] : ~Closing(t, o[1]) => o[2] \in backend_open
  /\ \A t, u \in Thread : pc[t] \in HoldsHandle =>
       \A o \in owned[u] : ~Closing(u, o[1]) => o[2] # fh[t]
  /\ \A t, u \in Thread : \A o \in owned[t], q \in owned[u] :
       ~Closing(t, o[1]) /\ ~Closing(u, q[1]) /\ o[2] = q[2] => t = u /\ o = q

Inv == TypeOK /\ Initialised /\ FdInv /\ SlotInv /\ HandleInv

\* The steps that only move a thread on, or touch the length of the list.
Moves ==
  {<<"real_open", "undo">>, <<"insert", "undo">>, <<"store", "undo">>, <<"insert", "store">>,
   <<"link_load", "link_store">>, <<"backend_close", "idle">>, <<"remove", "unlink_load">>,
   <<"unlink_load", "unlink_store">>, <<"unlink_store", "clear">>}

\* Such a step preserves Inv: it takes nothing and gives nothing back.
LEMMA MoveStep ==
  ASSUME Inv, NEW t \in Thread, NEW from, NEW to, <<from, to>> \in Moves,
         Goto(t, from, to), to = "store" => fd[t] \in Slot,
         UNCHANGED <<kernel_fds, backend_open, file_handles, fht_initialized, fd, fh, owned>>,
         used_file_descriptor_pos' \in Int, reg' \in [Thread -> Int]
  PROVE  Inv'
<1>. USE DEF Inv
<1>1. TypeOK'
  BY Zenon DEF TypeOK, Goto, Moves, Step
<1>2. Initialised'
  BY Zenon DEF TypeOK, Initialised, Goto, Moves
<1>3. FdInv'
  BY DEF TypeOK, FdInv, Goto, Moves, Opening, InClose
<1>4. SlotInv'
  BY DEF TypeOK, SlotInv, FreeFdHasEmptySlot, Goto, Moves
<1>5. HandleInv'
  <2>1. \A u \in Thread : \A f : Closing(u, f)' <=> Closing(u, f)
    BY Zenon DEF TypeOK, Goto, Moves, Closing
  <2>2. \A u \in Thread : pc'[u] \in HoldsHandle => pc[u] \in HoldsHandle
    BY Zenon DEF TypeOK, Goto, Moves, HoldsHandle, Opening
  <2>. QED  BY <2>1, <2>2 DEF HandleInv
<1>. QED  BY <1>1, <1>2, <1>3, <1>4, <1>5, Zenon

\* Every step of defuse_open in an initialised process preserves Inv.
LEMMA OpenStep ==
  ASSUME Inv, NEW t \in Thread, defuse_open(t)
  PROVE  Inv'
<1>. USE DEF Inv
<1>1. CASE backend_open_step(t)
  <2>1. TypeOK'
    BY <1>1, ThreadsAssumption DEF TypeOK, backend_open_step, Goto, shared, Step, Slot, KernelFd
  <2>2. Initialised'
    BY <1>1, Zenon DEF TypeOK, Initialised, backend_open_step, Goto, shared
  <2>3. FdInv'
    BY <1>1 DEF TypeOK, FdInv, SlotInv, backend_open_step, Goto, shared, Opening, InClose, Slot, KernelFd
  <2>4. SlotInv'
    BY <1>1 DEF TypeOK, Initialised, FdInv, SlotInv, FreeFdHasEmptySlot, backend_open_step, Goto, shared,
       Opening, InClose, Slot, KernelFd
  <2>5. HandleInv'
    BY <1>1 DEF TypeOK, FdInv, SlotInv, HandleInv, backend_open_step, Goto, shared,
       Opening, HoldsHandle, InClose, Closing, Slot
  <2>. QED  BY <2>1, <2>2, <2>3, <2>4, <2>5, Zenon DEF Inv
<1>2. CASE real_open(t)
  <2>1. TypeOK'
    BY <1>2, ThreadsAssumption DEF TypeOK, real_open, Goto, shared, Step, Slot, KernelFd
  <2>2. Initialised'
    BY <1>2, Zenon DEF TypeOK, Initialised, real_open, Goto, shared
  <2>3. FdInv'
    BY <1>2 DEF TypeOK, FdInv, SlotInv, real_open, Goto, shared, Opening, InClose, Slot, KernelFd
  <2>4. SlotInv'
    BY <1>2 DEF TypeOK, Initialised, FdInv, SlotInv, FreeFdHasEmptySlot, real_open, Goto, shared,
       Opening, InClose, Slot, KernelFd
  <2>5. HandleInv'
    BY <1>2 DEF TypeOK, FdInv, SlotInv, HandleInv, real_open, Goto, shared,
       Opening, HoldsHandle, InClose, Closing, Slot
  <2>. QED  BY <2>1, <2>2, <2>3, <2>4, <2>5, Zenon DEF Inv
<1>3. CASE real_open_fails(t)
  BY <1>3, MoveStep DEF Moves, real_open_fails, shared, TypeOK
<1>4. CASE insert_past_table(t)
  BY <1>4, MoveStep DEF Moves, insert_past_table, shared, TypeOK
<1>5. CASE get_instance(t)
  <2>1. fd[t] \in Slot /\ Goto(t, "insert", "store")
    <3>1. fd[t] \in KernelFd /\ fd[t] < MAX_FILES /\ fht_initialized = TRUE
      BY <1>5, Zenon DEF get_instance, Initialised, TypeOK
    <3>. QED  BY <1>5, <3>1, ThreadsAssumption DEF get_instance, Goto, Slot, KernelFd
  <2>. QED  BY <1>5, <2>1, MoveStep DEF Moves, get_instance, shared, TypeOK
<1>6. CASE insert_exists(t)
  BY <1>6, MoveStep DEF Moves, insert_exists, shared, TypeOK
<1>7. CASE insert_store(t)
  <2>1. /\ pc[t] = "store" /\ pc' = [pc EXCEPT ![t] = "link_load"] /\ fd[t] \in Slot
        /\ file_handles' = [file_handles EXCEPT ![fd[t]] = fh[t]]
        /\ UNCHANGED <<kernel_fds, fd, fh, owned>>
    BY <1>7, Zenon DEF insert_store, Goto
  <2>2. \A u \in Thread : u # t /\ pc[u] \in Opening => fd[u] # fd[t]
    BY <2>1, Zenon DEF FdInv, Opening
  <2>3. \A u \in Thread : \A o \in owned[u] : o[1] # fd[t]
    BY <2>1, Zenon DEF FdInv, Opening
  <2>4. TypeOK'
    BY <1>7, ThreadsAssumption, Zenon DEF TypeOK, insert_store, Goto, shared, Step, Slot, KernelFd
  <2>5. Initialised'
    BY <1>7, Zenon DEF TypeOK, Initialised, insert_store, Goto, shared
  <2>6. FdInv'
    BY <1>7 DEF TypeOK, FdInv, SlotInv, insert_store, Goto, shared, Opening, InClose, Slot, KernelFd
  <2>7. SlotInv'
    <3>1. FreeFdHasEmptySlot'
      BY <2>1 DEF FdInv, SlotInv, FreeFdHasEmptySlot, TypeOK, Opening
    <3>2. \A u \in Thread : pc'[u] = "real_close" => file_handles'[fd'[u]] = NULL
      <4>. SUFFICES ASSUME NEW u \in Thread, pc'[u] = "real_close"
                    PROVE  file_handles'[fd'[u]] = NULL
        BY Zenon
      <4>1. u # t /\ pc[u] = "real_close"
        BY <2>1, Zenon DEF TypeOK
      <4>2. <<fd[u], fh[u]>> \in owned[u] /\ fd[u] \in Slot
        BY <4>1 DEF FdInv, InClose, TypeOK
      <4>3. fd[u] # fd[t]
        BY <4>2, <2>3, Zenon
      <4>. QED  BY <2>1, <4>1, <4>2, <4>3, Zenon DEF SlotInv, TypeOK
    <3>3. \A u \in Thread : \A o \in owned'[u] :
            ~(pc'[u] = "real_close" /\ fd'[u] = o[1]) => file_handles'[o[1]] = o[2]
      BY <2>1, <2>3 DEF SlotInv, TypeOK
    <3>. QED  BY <2>1, <2>2, <3>1, <3>2, <3>3 DEF SlotInv, TypeOK, Opening
  <2>8. HandleInv'
    BY <1>7 DEF TypeOK, FdInv, SlotInv, HandleInv, insert_store, Goto, shared,
       Opening, HoldsHandle, InClose, Closing, Slot
  <2>. QED  BY <2>4, <2>5, <2>6, <2>7, <2>8, Zenon DEF Inv
<1>8. CASE link_load(t)
  BY <1>8, MoveStep DEF Moves, link_load, shared, TypeOK
<1>9. CASE link_store(t)
  <2>1. /\ pc[t] = "link_store" /\ pc' = [pc EXCEPT ![t] = "idle"]
        /\ owned' = [owned EXCEPT ![t] = @ \cup {<<fd[t], fh[t]>>}]
        /\ UNCHANGED <<kernel_fds, backend_open, file_handles, fd, fh>>
    BY <1>9, Zenon DEF link_store, Goto
  <2>2. fd[t] \in Slot /\ fh[t] \in Handle /\ fh[t] \in backend_open
    BY <2>1, Zenon DEF SlotInv, HandleInv, HoldsHandle, Opening, TypeOK
  <2>3. TypeOK'
    BY <1>9, <2>2 DEF TypeOK, link_store, Goto, Step
  <2>4. Initialised'
    BY <1>9, Zenon DEF TypeOK, Initialised, link_store, Goto, shared
  <2>5. FdInv'
    BY <1>9 DEF TypeOK, FdInv, SlotInv, link_store, Goto, shared, Opening, InClose, Slot, KernelFd
  <2>6. SlotInv'
    BY <1>9 DEF TypeOK, Initialised, FdInv, SlotInv, FreeFdHasEmptySlot, link_store, Goto, shared,
       Opening, InClose, Slot, KernelFd
  <2>7. HandleInv'
    <3>1. \A u \in Thread : \A o \in owned'[u] :
            o \in owned[u] \/ (u = t /\ o = <<fd[t], fh[t]>>)
      BY <2>1, Zenon DEF TypeOK
    <3>2. \A u \in Thread : \A f : Closing(u, f)' <=> Closing(u, f)
      BY <2>1, Zenon DEF Closing, TypeOK
    <3>3. \A u \in Thread : pc'[u] \in HoldsHandle => u # t /\ pc[u] \in HoldsHandle
      BY <2>1, Zenon DEF TypeOK, HoldsHandle, Opening
    <3>4. pc[t] \in HoldsHandle
      BY <2>1, Zenon DEF HoldsHandle, Opening
    <3>. QED  BY <2>1, <2>2, <3>1, <3>2, <3>3, <3>4 DEF HandleInv
  <2>. QED  BY <2>3, <2>4, <2>5, <2>6, <2>7, Zenon DEF Inv
<1>10. CASE undo(t)
  <2>1. TypeOK'
    BY <1>10, ThreadsAssumption, Zenon DEF TypeOK, undo, Goto, shared, Step, Slot, KernelFd
  <2>2. Initialised'
    BY <1>10, Zenon DEF TypeOK, Initialised, undo, Goto, shared
  <2>3. FdInv'
    BY <1>10 DEF TypeOK, FdInv, SlotInv, undo, Goto, shared, Opening, InClose, Slot, KernelFd
  <2>4. SlotInv'
    BY <1>10 DEF TypeOK, Initialised, FdInv, SlotInv, FreeFdHasEmptySlot, undo, Goto, shared,
       Opening, InClose, Slot, KernelFd
  <2>5. HandleInv'
    BY <1>10 DEF TypeOK, FdInv, SlotInv, HandleInv, undo, Goto, shared,
       Opening, HoldsHandle, InClose, Closing, Slot
  <2>. QED  BY <2>1, <2>2, <2>3, <2>4, <2>5, Zenon DEF Inv
<1>. QED  BY <1>1, <1>2, <1>3, <1>4, <1>5, <1>6, <1>7, <1>8, <1>9, <1>10, Zenon DEF defuse_open

\* In an initialised process insert_file_handle never meets an occupied slot
\* and remove_file_handle never an empty one.
LEMMA NeverRefused ==
  ASSUME Inv, NEW t \in Thread
  PROVE  ~insert_exists(t) /\ ~remove_missing(t)
<1>1. ~insert_exists(t)
  BY Zenon DEF Inv, SlotInv, insert_exists, Goto
<1>2. ~remove_missing(t)
  <2>. SUFFICES ASSUME pc[t] = "remove" PROVE file_handles[fd[t]] # NULL
    BY Zenon DEF remove_missing, Goto
  <2>1. <<fd[t], fh[t]>> \in owned[t] /\ fh[t] \in Handle
    BY DEF Inv, FdInv, InClose, TypeOK
  <2>2. file_handles[fd[t]] = fh[t]
    BY <2>1, Zenon DEF Inv, SlotInv
  <2>. QED  BY <2>1, <2>2, ThreadsAssumption, Zenon
<1>. QED  BY <1>1, <1>2, Zenon

\* Every step of defuse_close in an initialised process preserves Inv.
LEMMA CloseStep ==
  ASSUME Inv, NEW t \in Thread, defuse_close(t)
  PROVE  Inv'
<1>. USE DEF Inv
<1>1. CASE close_find(t)
  <2>1. PICK o \in owned[t] :
          /\ fd' = [fd EXCEPT ![t] = o[1]]
          /\ fh' = [fh EXCEPT ![t] = file_handles[o[1]]]
          /\ Goto(t, "idle", IF file_handles[o[1]] = NULL THEN "real_close" ELSE "backend_close")
    BY <1>1, Zenon DEF close_find
  <2>2. o[1] \in Slot /\ o[2] \in Handle /\ o = <<o[1], o[2]>> /\ o[1] \in kernel_fds
    BY DEF TypeOK, FdInv
  <2>3. file_handles[o[1]] = o[2] /\ file_handles[o[1]] # NULL
    BY <2>1, <2>2, ThreadsAssumption, Zenon DEF SlotInv, Goto
  <2>4. /\ pc[t] = "idle" /\ pc' = [pc EXCEPT ![t] = "backend_close"]
        /\ fd' = [fd EXCEPT ![t] = o[1]] /\ fh' = [fh EXCEPT ![t] = o[2]]
        /\ UNCHANGED <<shared, reg, owned>>
    BY <1>1, <2>1, <2>3, Zenon DEF Goto, close_find
  <2>5. TypeOK'
    BY <2>2, <2>4, Zenon DEF TypeOK, shared, Step
  <2>6. Initialised'
    BY <2>4, Zenon DEF TypeOK, Initialised, shared
  <2>7. FdInv'
    BY <2>2, <2>4 DEF TypeOK, FdInv, shared, Opening, InClose
  <2>8. SlotInv'
    BY <2>4, Zenon DEF TypeOK, SlotInv, FreeFdHasEmptySlot, shared
  <2>9. HandleInv'
    BY <2>4 DEF TypeOK, HandleInv, shared, HoldsHandle, Opening, Closing
  <2>. QED  BY <2>5, <2>6, <2>7, <2>8, <2>9, Zenon DEF Inv
<1>2. CASE backend_close_fails(t)
  BY <1>2, MoveStep DEF Moves, backend_close_fails, shared, TypeOK
<1>3. CASE backend_close(t)
  <2>1. /\ pc[t] = "backend_close" /\ pc' = [pc EXCEPT ![t] = "remove"]
        /\ backend_open' = backend_open \ {fh[t]} /\ UNCHANGED <<fd, fh, owned>>
    BY <1>3, Zenon DEF backend_close, Goto
  <2>2. <<fd[t], fh[t]>> \in owned[t] /\ ~Closing(t, fd[t])
    BY <2>1, Zenon DEF FdInv, InClose, Closing
  <2>3. \A u \in Thread : pc[u] \in HoldsHandle => fh[u] # fh[t]
    BY <2>2, Zenon DEF HandleInv
  <2>4. \A u \in Thread : \A o \in owned[u] : ~Closing(u, o[1])' =>
          ~Closing(u, o[1]) /\ o[2] # fh[t]
    <3>. SUFFICES ASSUME NEW u \in Thread, NEW o \in owned[u], ~Closing(u, o[1])'
                  PROVE  ~Closing(u, o[1]) /\ o[2] # fh[t]
      BY Zenon
    <3>1. ~Closing(u, o[1]) /\ ~(u = t /\ o[1] = fd[t])
      BY <2>1, Zenon DEF Closing, TypeOK
    <3>2. o[2] = fh[t] => u = t /\ o = <<fd[t], fh[t]>>
      BY <2>2, <3>1, Zenon DEF HandleInv
    <3>. QED  BY <3>1, <3>2
  <2>5. TypeOK'
    BY <1>3, ThreadsAssumption, Zenon DEF TypeOK, backend_close, Goto, shared, Step, Slot, KernelFd
  <2>6. Initialised'
    BY <1>3, Zenon DEF TypeOK, Initialised, backend_close, Goto, shared
  <2>7. FdInv'
    BY <1>3 DEF TypeOK, FdInv, SlotInv, backend_close, Goto, shared, Opening, InClose, Slot, KernelFd
  <2>8. SlotInv'
    BY <1>3 DEF TypeOK, Initialised, FdInv, SlotInv, FreeFdHasEmptySlot, backend_close, Goto, shared,
       Opening, InClose, Slot, KernelFd
  <2>9. HandleInv'
    <3>1. \A u \in Thread : pc'[u] \in HoldsHandle => pc[u] \in HoldsHandle
      BY <2>1, Zenon DEF TypeOK, HoldsHandle, Opening
    <3>. QED  BY <2>1, <2>3, <2>4, <3>1 DEF HandleInv
  <2>. QED  BY <2>5, <2>6, <2>7, <2>8, <2>9, Zenon DEF Inv
<1>4. CASE remove_file_handle(t)
  BY <1>4, MoveStep DEF Moves, remove_file_handle, shared, TypeOK
<1>5. CASE unlink_load(t)
  BY <1>5, MoveStep DEF Moves, unlink_load, shared, TypeOK
<1>6. CASE unlink_store(t)
  BY <1>6, MoveStep DEF Moves, unlink_store, shared, TypeOK
<1>7. CASE unlink_clear(t)
  <2>1. /\ pc[t] = "clear" /\ pc' = [pc EXCEPT ![t] = "real_close"]
        /\ file_handles' = [file_handles EXCEPT ![fd[t]] = NULL]
        /\ UNCHANGED <<kernel_fds, fd, fh, owned>>
    BY <1>7, Zenon DEF unlink_clear, Goto
  <2>2. <<fd[t], fh[t]>> \in owned[t] /\ fd[t] \in Slot
    BY <2>1 DEF FdInv, InClose, TypeOK
  <2>3. \A u \in Thread : pc[u] \in Opening => fd[u] # fd[t]
    BY <2>2 DEF FdInv
  <2>4. TypeOK'
    BY <1>7, ThreadsAssumption, Zenon DEF TypeOK, unlink_clear, Goto, shared, Step, Slot, KernelFd
  <2>5. Initialised'
    BY <1>7, Zenon DEF TypeOK, Initialised, unlink_clear, Goto, shared
  <2>6. FdInv'
    BY <1>7 DEF TypeOK, FdInv, SlotInv, unlink_clear, Goto, shared, Opening, InClose, Slot, KernelFd
  <2>7. SlotInv'
    <3>1. \A u \in Thread : \A o \in owned[u] : o[1] = fd[t] => u = t
      BY <2>2 DEF FdInv
    <3>2. \A u \in Thread : \A o \in owned'[u] :
            ~(pc'[u] = "real_close" /\ fd'[u] = o[1]) => file_handles'[o[1]] = o[2]
      BY <2>1, <3>1 DEF SlotInv, TypeOK
    <3>3. \A u \in Thread : pc'[u] = "real_close" => file_handles'[fd'[u]] = NULL
      BY <2>1, <2>2 DEF SlotInv, FdInv, TypeOK, InClose
    <3>. QED  BY <2>1, <2>2, <2>3, <3>2, <3>3 DEF SlotInv, FreeFdHasEmptySlot, TypeOK, Opening
  <2>8. HandleInv'
    BY <1>7 DEF TypeOK, FdInv, SlotInv, HandleInv, unlink_clear, Goto, shared,
       Opening, HoldsHandle, InClose, Closing, Slot
  <2>. QED  BY <2>4, <2>5, <2>6, <2>7, <2>8, Zenon DEF Inv
<1>8. CASE real_close(t)
  <2>1. /\ pc[t] = "real_close" /\ pc' = [pc EXCEPT ![t] = "idle"]
        /\ kernel_fds' = kernel_fds \ {fd[t]}
        /\ owned' = [owned EXCEPT ![t] = {o \in @ : o[1] # fd[t]}]
        /\ UNCHANGED <<file_handles, fd, fh>>
    BY <1>8, Zenon DEF real_close, Goto
  <2>2. <<fd[t], fh[t]>> \in owned[t]
    BY <2>1, Zenon DEF FdInv, InClose
  <2>3. \A u \in Thread : \A o \in owned'[u] : o \in owned[u] /\ o[1] # fd[t]
    BY <2>1, <2>2 DEF FdInv, TypeOK
  <2>4. TypeOK'
    BY <1>8, ThreadsAssumption, Zenon DEF TypeOK, real_close, Goto, shared, Step, Slot, KernelFd
  <2>5. Initialised'
    BY <1>8, Zenon DEF TypeOK, Initialised, real_close, Goto, shared
  <2>6. FdInv'
    <3>1. \A u \in Thread : pc'[u] \in InClose => <<fd'[u], fh'[u]>> \in owned'[u]
      BY <2>1 DEF FdInv, InClose, TypeOK
    <3>2. \A u \in Thread : pc'[u] \in Opening => pc[u] \in Opening /\ fd[u] # fd[t]
      BY <2>1, <2>2 DEF FdInv, Opening, TypeOK
    <3>. QED  BY <2>1, <2>3, <3>1, <3>2 DEF FdInv
  <2>7. SlotInv'
    BY <1>8 DEF TypeOK, Initialised, FdInv, SlotInv, FreeFdHasEmptySlot, real_close, Goto, shared,
       Opening, InClose, Slot, KernelFd
  <2>8. HandleInv'
    BY <1>8 DEF TypeOK, FdInv, SlotInv, HandleInv, real_close, Goto, shared,
       Opening, HoldsHandle, InClose, Closing, Slot
  <2>. QED  BY <2>4, <2>5, <2>6, <2>7, <2>8, Zenon DEF Inv
<1>. QED  BY <1>1, <1>2, <1>3, <1>4, <1>5, <1>6, <1>7, <1>8, NeverRefused, Zenon DEF defuse_close

\* Nobody runs the first-use branch of get_instance in an initialised process.
LEMMA FirstUseOver == ASSUME Inv, NEW t \in Thread PROVE ~first_use(t)
BY Zenon DEF Inv, Initialised, first_use, get_instance_memset, get_instance_flag, Goto

\* An initialised process starts in Inv.
LEMMA WarmHolds == WarmInit => Inv
BY ThreadsAssumption DEF WarmInit, Inv, TypeOK, Initialised, FdInv, SlotInv, FreeFdHasEmptySlot,
   HandleInv, Step, Slot, KernelFd, Opening, HoldsHandle, InClose, Closing

\* Every step preserves Inv.
LEMMA NextHolds == Inv /\ [Next]_vars => Inv'
<1>. SUFFICES ASSUME Inv, [Next]_vars PROVE Inv'
  BY Zenon
<1>1. CASE Next
  BY <1>1, OpenStep, CloseStep, FirstUseOver, Zenon DEF Next
<1>2. CASE UNCHANGED vars
  BY <1>2 DEF vars, shared, Inv, TypeOK, Initialised, FdInv, SlotInv, FreeFdHasEmptySlot, HandleInv,
     Closing
<1>. QED  BY <1>1, <1>2, Zenon

\* For any number of threads, slots, descriptors and handles: between
\* defuse_open's return and its own close a thread's descriptor is served by
\* the handle that open obtained, and a number the kernel may give out has an
\* empty slot, whatever the other threads do meanwhile without a lock.
THEOREM ThreadsServed == WarmSpec => [](TypeOK /\ ServedByOwn /\ FreeFdHasEmptySlot)
<1>1. Inv => TypeOK /\ ServedByOwn /\ FreeFdHasEmptySlot
  BY DEF Inv, SlotInv, HandleInv, ServedByOwn, Closing
<1>. QED  BY <1>1, WarmHolds, NextHolds, PTL DEF WarmSpec

----------------------------------------------------------------------------
\* Thread t keeps handle h, or descriptor f: by an open in progress or because
\* it holds the descriptor.
KeepsHandle(t, h) ==
  \/ pc[t] \in HoldsHandle /\ fh[t] = h
  \/ \E o \in owned[t] : ~Closing(t, o[1]) /\ o[2] = h
KeepsFd(t, f) ==
  \/ pc[t] \in Opening /\ fd[t] = f
  \/ \E o \in owned[t] : o[1] = f

\* Nothing is forgotten: every open handle, and every kernel descriptor that
\* has a slot, has a keeper.
Kept ==
  /\ \A h \in backend_open : \E t \in Thread : KeepsHandle(t, h)
  /\ \A f \in kernel_fds \cap Slot : \E t \in Thread : KeepsFd(t, f)

\* A step of t forgets nothing if t forgets nothing.
LEMMA KeptLocally ==
  ASSUME Kept, NEW t \in Thread,
         \A u \in Thread : u # t => /\ pc'[u] = pc[u] /\ fd'[u] = fd[u]
                                    /\ fh'[u] = fh[u] /\ owned'[u] = owned[u],
         \A h \in backend_open' : KeepsHandle(t, h)' \/ (h \in backend_open /\ ~KeepsHandle(t, h)),
         \A f \in kernel_fds' \cap Slot : KeepsFd(t, f)' \/ (f \in kernel_fds /\ ~KeepsFd(t, f))
  PROVE  Kept'
<1>1. \A u \in Thread : u # t => /\ \A h : KeepsHandle(u, h) => KeepsHandle(u, h)'
                                 /\ \A f : KeepsFd(u, f) => KeepsFd(u, f)'
  BY Zenon DEF KeepsHandle, KeepsFd, Closing
<1>2. \A h \in backend_open' : \E u \in Thread : KeepsHandle(u, h)'
  <2>. SUFFICES ASSUME NEW h \in backend_open', ~KeepsHandle(t, h)'
                PROVE  \E u \in Thread : KeepsHandle(u, h)'
    BY Zenon
  <2>1. PICK u \in Thread : KeepsHandle(u, h)
    BY Zenon DEF Kept
  <2>. QED  BY <1>1, <2>1, Zenon
<1>3. \A f \in kernel_fds' \cap Slot : \E u \in Thread : KeepsFd(u, f)'
  <2>. SUFFICES ASSUME NEW f \in kernel_fds' \cap Slot, ~KeepsFd(t, f)'
                PROVE  \E u \in Thread : KeepsFd(u, f)'
    BY Zenon
  <2>1. PICK u \in Thread : KeepsFd(u, f)
    BY Zenon DEF Kept
  <2>. QED  BY <1>1, <2>1, Zenon
<1>. QED  BY <1>2, <1>3, Zenon DEF Kept

\* No step of defuse_open forgets a handle, or a descriptor with a slot.
LEMMA OpenKeeps ==
  ASSUME Inv, Kept, NEW t \in Thread, defuse_open(t)
  PROVE  Kept'
<1>. DEFINE Local == \A u \in Thread : u # t =>
                       /\ pc'[u] = pc[u] /\ fd'[u] = fd[u] /\ fh'[u] = fh[u] /\ owned'[u] = owned[u]
            Handles == \A h \in backend_open' :
                         KeepsHandle(t, h)' \/ (h \in backend_open /\ ~KeepsHandle(t, h))
            Fds == \A f \in kernel_fds' \cap Slot :
                     KeepsFd(t, f)' \/ (f \in kernel_fds /\ ~KeepsFd(t, f))
<1>0. TypeOK /\ \A o \in owned[t] : o[1] \in Slot
  BY DEF Inv, TypeOK
<1>1. CASE backend_open_step(t)
  <2>. USE <1>1 DEF backend_open_step, Goto
  <2>1. Local  BY <1>0, Zenon DEF TypeOK
  <2>2. Handles  BY <1>0, Zenon DEF TypeOK, KeepsHandle, Closing, HoldsHandle, Opening
  <2>3. Fds  BY <1>0, Zenon DEF TypeOK, KeepsFd, Opening
  <2>. QED  BY <2>1, <2>2, <2>3, KeptLocally, Zenon
<1>2. CASE real_open(t)
  <2>. USE <1>2 DEF real_open, Goto
  <2>1. Local  BY <1>0, Zenon DEF TypeOK
  <2>2. Handles  BY <1>0, Zenon DEF TypeOK, KeepsHandle, Closing, HoldsHandle, Opening
  <2>3. Fds  BY <1>0, Zenon DEF TypeOK, KeepsFd, Opening
  <2>. QED  BY <2>1, <2>2, <2>3, KeptLocally, Zenon
<1>3. CASE real_open_fails(t)
  <2>. USE <1>3 DEF real_open_fails, Goto, shared
  <2>1. Local  BY <1>0, Zenon DEF TypeOK
  <2>2. Handles  BY <1>0, Zenon DEF TypeOK, KeepsHandle, Closing, HoldsHandle, Opening
  <2>3. Fds  BY <1>0, Zenon DEF TypeOK, KeepsFd, Opening
  <2>. QED  BY <2>1, <2>2, <2>3, KeptLocally, Zenon
<1>4. CASE insert_past_table(t)
  <2>. USE <1>4 DEF insert_past_table, Goto, shared
  <2>1. Local  BY <1>0, Zenon DEF TypeOK
  <2>2. Handles  BY <1>0, Zenon DEF TypeOK, KeepsHandle, Closing, HoldsHandle, Opening
  <2>3. Fds
    <3>1. fd[t] \notin Slot
      BY <1>0, ThreadsAssumption DEF TypeOK, Slot, KernelFd
    <3>. QED  BY <1>0, <3>1, Zenon DEF TypeOK, KeepsFd, Opening
  <2>. QED  BY <2>1, <2>2, <2>3, KeptLocally, Zenon
<1>5. CASE get_instance(t)
  <2>. USE <1>5 DEF get_instance, Goto, shared
  <2>0. pc' = [pc EXCEPT ![t] = "store"]  BY Zenon DEF Inv, Initialised
  <2>1. Local  BY <1>0, <2>0, Zenon DEF TypeOK
  <2>2. Handles  BY <1>0, <2>0, Zenon DEF TypeOK, KeepsHandle, Closing, HoldsHandle, Opening
  <2>3. Fds  BY <1>0, <2>0, Zenon DEF TypeOK, KeepsFd, Opening
  <2>. QED  BY <2>1, <2>2, <2>3, KeptLocally, Zenon
<1>6. CASE insert_store(t)
  <2>. USE <1>6 DEF insert_store, Goto
  <2>1. Local  BY <1>0, Zenon DEF TypeOK
  <2>2. Handles  BY <1>0, Zenon DEF TypeOK, KeepsHandle, Closing, HoldsHandle, Opening
  <2>3. Fds  BY <1>0, Zenon DEF TypeOK, KeepsFd, Opening
  <2>. QED  BY <2>1, <2>2, <2>3, KeptLocally, Zenon
<1>7. CASE link_load(t)
  <2>. USE <1>7 DEF link_load, Goto, shared
  <2>1. Local  BY <1>0, Zenon DEF TypeOK
  <2>2. Handles  BY <1>0, Zenon DEF TypeOK, KeepsHandle, Closing, HoldsHandle, Opening
  <2>3. Fds  BY <1>0, Zenon DEF TypeOK, KeepsFd, Opening
  <2>. QED  BY <2>1, <2>2, <2>3, KeptLocally, Zenon
<1>8. CASE link_store(t)
  <2>. USE <1>8 DEF link_store, Goto
  <2>0. /\ \A o \in owned[t] : o \in owned'[t] /\ ~Closing(t, o[1])'
        /\ <<fd[t], fh[t]>> \in owned'[t] /\ ~Closing(t, fd[t])'
        /\ pc[t] = "link_store" /\ UNCHANGED <<backend_open, kernel_fds>>
    BY <1>0, Zenon DEF TypeOK, Closing
  <2>1. Local  BY <1>0, Zenon DEF TypeOK
  <2>2. Handles  BY <1>0, <2>0, Zenon DEF KeepsHandle
  <2>3. Fds  BY <1>0, <2>0, Zenon DEF KeepsFd
  <2>. QED  BY <2>1, <2>2, <2>3, KeptLocally, Zenon
<1>9. CASE undo(t)
  <2>. USE <1>9 DEF undo, Goto
  <2>1. Local  BY <1>0, Zenon DEF TypeOK
  <2>2. Handles  BY <1>0, Zenon DEF TypeOK, KeepsHandle, Closing, HoldsHandle, Opening
  <2>3. Fds  BY <1>0, Zenon DEF TypeOK, KeepsFd, Opening
  <2>. QED  BY <2>1, <2>2, <2>3, KeptLocally, Zenon
<1>. QED
  BY <1>1, <1>2, <1>3, <1>4, <1>5, <1>6, <1>7, <1>8, <1>9, NeverRefused, Zenon DEF defuse_open

\* No step of defuse_close forgets a handle, or a descriptor with a slot.
LEMMA CloseKeeps ==
  ASSUME Inv, Kept, NEW t \in Thread, defuse_close(t)
  PROVE  Kept'
<1>. DEFINE Local == \A u \in Thread : u # t =>
                       /\ pc'[u] = pc[u] /\ fd'[u] = fd[u] /\ fh'[u] = fh[u] /\ owned'[u] = owned[u]
            Handles == \A h \in backend_open' :
                         KeepsHandle(t, h)' \/ (h \in backend_open /\ ~KeepsHandle(t, h))
            Fds == \A f \in kernel_fds' \cap Slot :
                     KeepsFd(t, f)' \/ (f \in kernel_fds /\ ~KeepsFd(t, f))
<1>0. TypeOK /\ \A o \in owned[t] : o[1] \in Slot
  BY DEF Inv, TypeOK
<1>1. CASE close_find(t)
  <2>. USE <1>1 DEF close_find, Goto, shared
  <2>0. pc[t] = "idle" /\ pc' = [pc EXCEPT ![t] = "backend_close"]
    <3>1. PICK o \in owned[t] :
            Goto(t, "idle", IF file_handles[o[1]] = NULL THEN "real_close" ELSE "backend_close")
      BY Zenon
    <3>2. o[2] \in Handle  BY DEF Inv, TypeOK
    <3>3. file_handles[o[1]] = o[2]  BY <3>1, Zenon DEF Inv, SlotInv
    <3>. QED  BY <3>1, <3>2, <3>3, ThreadsAssumption, Zenon
  <2>1. Local  BY <1>0, <2>0, Zenon DEF TypeOK
  <2>2. Handles  BY <1>0, <2>0, Zenon DEF TypeOK, KeepsHandle, Closing, HoldsHandle, Opening
  <2>3. Fds  BY <1>0, <2>0, Zenon DEF TypeOK, KeepsFd, Opening
  <2>. QED  BY <2>1, <2>2, <2>3, KeptLocally, Zenon
<1>2. CASE backend_close(t)
  <2>. USE <1>2 DEF backend_close, Goto
  <2>0. /\ pc[t] = "backend_close" /\ pc' = [pc EXCEPT ![t] = "remove"]
        /\ backend_open' = backend_open \ {fh[t]} /\ <<fd[t], fh[t]>> \in owned[t]
        /\ \A o \in owned[t] : o[1] = fd[t] => o[2] = fh[t]
    BY DEF Inv, FdInv, InClose
  <2>1. Local  BY <1>0, Zenon DEF TypeOK
  <2>2. Handles  BY <1>0, <2>0, Zenon DEF TypeOK, KeepsHandle, Closing, HoldsHandle, Opening
  <2>3. Fds  BY <1>0, <2>0, Zenon DEF TypeOK, KeepsFd, Opening
  <2>. QED  BY <2>1, <2>2, <2>3, KeptLocally, Zenon
<1>3. CASE backend_close_fails(t) \/ remove_file_handle(t) \/ unlink_load(t) \/ unlink_store(t)
             \/ unlink_clear(t)
  <2>0. /\ \/ pc[t] = "backend_close" /\ pc' = [pc EXCEPT ![t] = "idle"]
           \/ pc[t] = "remove" /\ pc' = [pc EXCEPT ![t] = "unlink_load"]
           \/ pc[t] = "unlink_load" /\ pc' = [pc EXCEPT ![t] = "unlink_store"]
           \/ pc[t] = "unlink_store" /\ pc' = [pc EXCEPT ![t] = "clear"]
           \/ pc[t] = "clear" /\ pc' = [pc EXCEPT ![t] = "real_close"]
        /\ UNCHANGED <<kernel_fds, backend_open, fd, fh, owned>>
    BY <1>3, Zenon DEF backend_close_fails, remove_file_handle, unlink_load, unlink_store, unlink_clear, Goto,
       shared
  <2>1. Local  BY <1>0, <2>0, Zenon DEF TypeOK
  <2>2. Handles  BY <1>0, <2>0, Zenon DEF TypeOK, KeepsHandle, Closing, HoldsHandle, Opening
  <2>3. Fds  BY <1>0, <2>0, Zenon DEF TypeOK, KeepsFd, Opening
  <2>. QED  BY <2>1, <2>2, <2>3, KeptLocally, Zenon
<1>4. CASE real_close(t)
  <2>. USE <1>4 DEF real_close, Goto
  <2>0. /\ pc[t] = "real_close" /\ pc' = [pc EXCEPT ![t] = "idle"] /\ UNCHANGED <<fd, fh, backend_open>>
        /\ owned'[t] = {o \in owned[t] : o[1] # fd[t]} /\ kernel_fds' = kernel_fds \ {fd[t]}
    BY <1>0, Zenon DEF TypeOK
  <2>1. Local  BY <1>0, Zenon DEF TypeOK
  <2>2. Handles  BY <1>0, <2>0, Zenon DEF TypeOK, KeepsHandle, Closing, HoldsHandle, Opening
  <2>3. Fds  BY <1>0, <2>0, Zenon DEF TypeOK, KeepsFd, Opening
  <2>. QED  BY <2>1, <2>2, <2>3, KeptLocally, Zenon
<1>. QED  BY <1>1, <1>2, <1>3, <1>4, NeverRefused, Zenon DEF defuse_close


----------------------------------------------------------------------------
\* A descriptor that an open in progress has obtained, a first use included.
Obtained == Opening \cup {"memset", "flag"}

\* What every process keeps, also one whose table a late first use wipes and
\* whose descriptors are closed behind the library: a descriptor has at most
\* one keeper ...
OneKeeper ==
  /\ \A t \in Thread : pc[t] \in Obtained => fd[t] \in kernel_fds
  /\ \A t \in Thread : pc[t] \in Obtained \ {"insert"} => fd[t] \in Slot
  /\ \A t \in Thread : pc[t] \in Obtained \cup {"real_open"} => fh[t] \in Handle
  /\ \A t, u \in Thread : t # u /\ pc[t] \in Obtained /\ pc[u] \in Obtained => fd[t] # fd[u]
  /\ \A t, u \in Thread : pc[t] \in Obtained => \A o \in owned[u] : o[1] # fd[t]
  /\ \A t \in Thread : \A o \in owned[t] : o[1] \in kernel_fds
  /\ \A t, u \in Thread : \A o \in owned[t], q \in owned[u] : o[1] = q[1] => t = u /\ o = q
  /\ \A t \in Thread : pc[t] \in InClose => \E o \in owned[t] : o[1] = fd[t]

\* ... and its slot has that keeper's handle or none.
KeepersHandle ==
  /\ \A t \in Thread : pc[t] \in {"link_load", "link_store"} => file_handles[fd[t]] \in {fh[t], NULL}
  /\ NeverServedByOther

AnyInv == TypeOK /\ OneKeeper /\ KeepersHandle

\* Every step of defuse_open, its first use of the table included, keeps AnyInv.
LEMMA AnyOpenStep ==
  ASSUME AnyInv, NEW t \in Thread, defuse_open(t) \/ first_use(t)
  PROVE  AnyInv'
<1>. USE DEF AnyInv, Goto
<1>1. CASE backend_open_step(t)
  <2>. USE <1>1 DEF backend_open_step
  <2>1. TypeOK'  BY Zenon DEF TypeOK, Step
  <2>2. OneKeeper'  BY DEF TypeOK, OneKeeper, Obtained, Opening, InClose
  <2>3. KeepersHandle'  BY Zenon DEF TypeOK, KeepersHandle, NeverServedByOther
  <2>. QED  BY <2>1, <2>2, <2>3, Zenon
<1>2. CASE real_open(t)
  <2>. USE <1>2 DEF real_open
  <2>1. TypeOK'  BY Zenon DEF TypeOK, Step
  <2>2. OneKeeper'  BY DEF TypeOK, OneKeeper, Obtained, Opening, InClose
  <2>3. KeepersHandle'  BY Zenon DEF TypeOK, KeepersHandle, NeverServedByOther
  <2>. QED  BY <2>1, <2>2, <2>3, Zenon
<1>3. CASE real_open_fails(t) \/ insert_past_table(t) \/ insert_exists(t)
  <2>. USE <1>3 DEF real_open_fails, insert_past_table, insert_exists, shared
  <2>1. TypeOK'  BY Zenon DEF TypeOK, Step
  <2>2. OneKeeper'  BY DEF TypeOK, OneKeeper, Obtained, Opening, InClose
  <2>3. KeepersHandle'  BY Zenon DEF TypeOK, KeepersHandle, NeverServedByOther
  <2>. QED  BY <2>1, <2>2, <2>3, Zenon
<1>4. CASE get_instance(t)
  <2>. USE <1>4 DEF get_instance, shared
  <2>0. fd[t] \in Slot  BY ThreadsAssumption DEF TypeOK, Slot, KernelFd
  <2>1. TypeOK'  BY Zenon DEF TypeOK, Step
  <2>2. OneKeeper'  BY <2>0 DEF TypeOK, OneKeeper, Obtained, Opening, InClose
  <2>3. KeepersHandle'  BY Zenon DEF TypeOK, KeepersHandle, NeverServedByOther
  <2>. QED  BY <2>1, <2>2, <2>3, Zenon
<1>5. CASE get_instance_memset(t)
  <2>. USE <1>5 DEF get_instance_memset
  <2>1. TypeOK'  BY DEF TypeOK, Step
  <2>2. OneKeeper'  BY DEF TypeOK, OneKeeper, Obtained, Opening, InClose
  <2>3. KeepersHandle'
    <3>1. \A u \in Thread : pc'[u] \in {"link_load", "link_store"} => fd[u] \in Slot
      BY DEF TypeOK, OneKeeper, Obtained, Opening
    <3>. QED  BY <3>1 DEF TypeOK, KeepersHandle, NeverServedByOther
  <2>. QED  BY <2>1, <2>2, <2>3, Zenon
<1>5a. CASE get_instance_flag(t)
  <2>. USE <1>5a DEF get_instance_flag
  <2>1. TypeOK'  BY Zenon DEF TypeOK, Step
  <2>2. OneKeeper'  BY DEF TypeOK, OneKeeper, Obtained, Opening, InClose
  <2>3. KeepersHandle'  BY Zenon DEF TypeOK, KeepersHandle, NeverServedByOther
  <2>. QED  BY <2>1, <2>2, <2>3, Zenon
<1>6. CASE insert_store(t)
  <2>. USE <1>6 DEF insert_store
  <2>1. TypeOK'  BY Zenon DEF TypeOK, Step
  <2>2. OneKeeper'  BY DEF TypeOK, OneKeeper, Obtained, Opening, InClose
  <2>3. KeepersHandle'  BY DEF TypeOK, OneKeeper, Obtained, Opening, KeepersHandle, NeverServedByOther
  <2>. QED  BY <2>1, <2>2, <2>3, Zenon
<1>7. CASE link_load(t)
  <2>. USE <1>7 DEF link_load, shared
  <2>1. TypeOK'  BY Zenon DEF TypeOK, Step
  <2>2. OneKeeper'  BY DEF TypeOK, OneKeeper, Obtained, Opening, InClose
  <2>3. KeepersHandle'  BY Zenon DEF TypeOK, KeepersHandle, NeverServedByOther
  <2>. QED  BY <2>1, <2>2, <2>3, Zenon
<1>8. CASE link_store(t)
  <2>. USE <1>8 DEF link_store
  <2>0. <<fd[t], fh[t]>> \in Slot \X Handle  BY Zenon DEF OneKeeper, Obtained, Opening
  <2>1. TypeOK'  BY <2>0 DEF TypeOK, Step
  <2>2. OneKeeper'  BY DEF TypeOK, OneKeeper, Obtained, Opening, InClose
  <2>3. KeepersHandle'  BY DEF TypeOK, KeepersHandle, NeverServedByOther
  <2>. QED  BY <2>1, <2>2, <2>3, Zenon
<1>9. CASE undo(t)
  <2>. USE <1>9 DEF undo
  <2>1. TypeOK'  BY Zenon DEF TypeOK, Step
  <2>2. OneKeeper'  BY DEF TypeOK, OneKeeper, Obtained, Opening, InClose
  <2>3. KeepersHandle'  BY Zenon DEF TypeOK, KeepersHandle, NeverServedByOther
  <2>. QED  BY <2>1, <2>2, <2>3, Zenon
<1>. QED  BY <1>1, <1>2, <1>3, <1>4, <1>5, <1>5a, <1>6, <1>7, <1>8, <1>9, Zenon DEF defuse_open, first_use

\* Every step of defuse_close, and every close the library does not see, keeps
\* AnyInv.
LEMMA AnyCloseStep ==
  ASSUME AnyInv, NEW t \in Thread, defuse_close(t) \/ unseen_close(t)
  PROVE  AnyInv'
<1>. USE DEF AnyInv, Goto
<1>1. CASE close_find(t)
  <2>. USE <1>1 DEF close_find, shared
  <2>0. PICK o \in owned[t] :
          /\ fd' = [fd EXCEPT ![t] = o[1]]
          /\ fh' = [fh EXCEPT ![t] = file_handles[o[1]]]
          /\ pc[t] = "idle" /\ \E s \in {"real_close", "backend_close"} : pc' = [pc EXCEPT ![t] = s]
    BY Zenon
  <2>a. o[1] \in Slot /\ o[1] \in KernelFd /\ UNCHANGED <<shared, reg, owned>>
    BY DEF TypeOK, OneKeeper
  <2>1. TypeOK'  BY <2>0, <2>a DEF TypeOK, Step
  <2>2. OneKeeper'  BY <2>0, <2>a DEF TypeOK, OneKeeper, Obtained, Opening, InClose
  <2>3. KeepersHandle'  BY <2>0, <2>a, Zenon DEF TypeOK, KeepersHandle, NeverServedByOther
  <2>. QED  BY <2>1, <2>2, <2>3, Zenon
<1>2. CASE \/ backend_close_fails(t) \/ remove_missing(t) \/ remove_file_handle(t)
           \/ unlink_load(t) \/ unlink_store(t) \/ backend_close(t)
  <2>0. /\ UNCHANGED <<kernel_fds, file_handles, fht_initialized, fd, fh, owned>>
        /\ used_file_descriptor_pos' \in Int /\ reg' \in [Thread -> Int] /\ backend_open' \subseteq Handle
        /\ \E to \in {"idle", "remove", "unlink_load", "unlink_store", "clear"} :
             pc' = [pc EXCEPT ![t] = to]
        /\ pc[t] \in InClose
    BY <1>2 DEF backend_close_fails, remove_missing, remove_file_handle, unlink_load, unlink_store,
       backend_close, shared, TypeOK, InClose
  <2>1. TypeOK'  BY <2>0, Zenon DEF TypeOK, Step
  <2>2. OneKeeper'  BY <2>0 DEF TypeOK, OneKeeper, Obtained, Opening, InClose
  <2>3. KeepersHandle'  BY <2>0, Zenon DEF TypeOK, KeepersHandle, NeverServedByOther
  <2>. QED  BY <2>1, <2>2, <2>3, Zenon
<1>3. CASE unlink_clear(t)
  <2>. USE <1>3 DEF unlink_clear
  <2>1. TypeOK'  BY Zenon DEF TypeOK, Step
  <2>2. OneKeeper'  BY DEF TypeOK, OneKeeper, Obtained, Opening, InClose
  <2>3. KeepersHandle'  BY DEF TypeOK, OneKeeper, Obtained, Opening, KeepersHandle, NeverServedByOther
  <2>. QED  BY <2>1, <2>2, <2>3, Zenon
<1>4. CASE real_close(t)
  <2>. USE <1>4 DEF real_close
  <2>0. /\ \A u \in Thread : owned'[u] = {o \in owned[u] : o[1] # fd[t]}
        /\ \A u \in Thread : pc[u] \in Obtained => fd[u] # fd[t]
        /\ \A u \in Thread : u # t /\ pc[u] \in InClose => fd[u] # fd[t]
    BY DEF TypeOK, OneKeeper, InClose
  <2>1. TypeOK'  BY Zenon DEF TypeOK, Step
  <2>2. OneKeeper'  BY <2>0 DEF TypeOK, OneKeeper, Obtained, Opening, InClose
  <2>3. KeepersHandle'  BY <2>0, Zenon DEF TypeOK, KeepersHandle, NeverServedByOther
  <2>. QED  BY <2>1, <2>2, <2>3, Zenon
<1>5. CASE unseen_close(t)
  <2>. USE <1>5 DEF unseen_close
  <2>0. PICK o \in owned[t] : /\ kernel_fds' = kernel_fds \ {o[1]}
                              /\ owned' = [owned EXCEPT ![t] = @ \ {o}]
    BY Zenon
  <2>a. /\ \A u \in Thread : owned'[u] = {q \in owned[u] : q[1] # o[1]}
        /\ \A u \in Thread : pc[u] \in Obtained => fd[u] # o[1]
        /\ \A u \in Thread : pc[u] \in InClose => fd[u] # o[1]
    BY <2>0 DEF TypeOK, OneKeeper, InClose
  <2>1. TypeOK'  BY <2>0, Zenon DEF TypeOK, Step
  <2>2. OneKeeper'  BY <2>0, <2>a DEF TypeOK, OneKeeper, Obtained, Opening, InClose
  <2>3. KeepersHandle'  BY <2>0, <2>a DEF TypeOK, KeepersHandle, NeverServedByOther
  <2>. QED  BY <2>1, <2>2, <2>3, Zenon
<1>. QED  BY <1>1, <1>2, <1>3, <1>4, <1>5, Zenon DEF defuse_close

\* AnyInv always holds, in both kinds of process.
LEMMA AnyInductive == MCSpec => []AnyInv
<1>1. MCInit => AnyInv
  <2>. SUFFICES ASSUME MCInit PROVE AnyInv
    BY Zenon
  <2>. USE DEF MCInit, WarmInit, ColdInit
  <2>0. fht_initialized \in BOOLEAN  BY Zenon
  <2>a. 0 \in KernelFd  BY ThreadsAssumption DEF KernelFd
  <2>1. TypeOK  BY <2>0, <2>a DEF TypeOK, Step
  <2>2. OneKeeper  BY Zenon DEF OneKeeper, Obtained, Opening, InClose
  <2>3. KeepersHandle  BY Zenon DEF KeepersHandle, NeverServedByOther
  <2>. QED  BY <2>1, <2>2, <2>3, Zenon DEF AnyInv
<1>2. AnyInv /\ [MCNext]_<<vars, mixed>> => AnyInv'
  <2>. SUFFICES ASSUME AnyInv, [MCNext]_<<vars, mixed>> PROVE AnyInv'
    BY Zenon
  <2>1. CASE MCNext
    BY <2>1, AnyOpenStep, AnyCloseStep, Zenon DEF MCNext, Next
  <2>2. CASE UNCHANGED vars
    BY <2>2 DEF vars, shared, AnyInv, TypeOK, OneKeeper, KeepersHandle, NeverServedByOther
  <2>. QED  BY <2>1, <2>2
<1>. QED  BY <1>1, <1>2, PTL DEF MCSpec

\* Inv and Kept always hold in an initialised process.
LEMMA WarmInductive == MCSpec => [](~mixed => Inv /\ Kept)
<1>1. MCInit => (~mixed => Inv /\ Kept)
  BY WarmHolds, Zenon DEF MCInit, WarmInit, Kept
<1>2. (~mixed => Inv /\ Kept) /\ [MCNext]_<<vars, mixed>> => (~mixed => Inv /\ Kept)'
  <2>. SUFFICES ASSUME ~mixed, Inv, Kept, [MCNext]_<<vars, mixed>> PROVE Inv' /\ Kept'
    BY DEF MCNext
  <2>1. CASE MCNext
    BY <2>1, OpenStep, CloseStep, FirstUseOver, OpenKeeps, CloseKeeps, Zenon DEF MCNext, Next
  <2>2. CASE UNCHANGED vars
    BY <2>2, NextHolds DEF vars, shared, Kept, KeepsHandle, KeepsFd, Closing
  <2>. QED  BY <2>1, <2>2
<1>. QED  BY <1>1, <1>2, PTL DEF MCSpec

\* For any number of threads, slots, descriptors and handles: between
\* defuse_open's return and its own close a thread's descriptor is served by
\* the handle that open obtained, whatever the other threads do meanwhile
\* without a lock.
THEOREM OwnHandleServes == MCSpec => []WarmServedByOwn
<1>1. (~mixed => Inv /\ Kept) => WarmServedByOwn
  BY DEF Inv, SlotInv, HandleInv, WarmServedByOwn, ServedByOwn, Closing
<1>. QED  BY <1>1, WarmInductive, PTL

\* A number that the kernel may give to defuse_open has an empty slot.
THEOREM FreeNumbersAreEmpty == MCSpec => []WarmFreeFdHasEmptySlot
<1>1. (~mixed => Inv /\ Kept) => WarmFreeFdHasEmptySlot
  BY DEF Inv, SlotInv, WarmFreeFdHasEmptySlot
<1>. QED  BY <1>1, WarmInductive, PTL

\* When no call is in progress, the file handles open in the user space file
\* system are those of the held descriptors, one each: no path through
\* defuse_open and defuse_close leaks a handle or closes one twice.
THEOREM NoHandleLeaks == MCSpec => []WarmHandlesAccounted
<1>1. (~mixed => Inv /\ Kept) => WarmHandlesAccounted
  <2>. SUFFICES ASSUME Inv, Kept, AtRest
                PROVE  /\ backend_open = {o[2] : o \in AllOwned}
                       /\ \A o1, o2 \in AllOwned : o1[2] = o2[2] => o1 = o2
    BY Zenon DEF WarmHandlesAccounted, HandlesAccounted
  <2>1. \A t \in Thread : pc[t] \notin HoldsHandle /\ \A f : ~Closing(t, f)
    BY Zenon DEF AtRest, HoldsHandle, Opening, Closing
  <2>2. \A h \in backend_open : \E t \in Thread : \E o \in owned[t] : o[2] = h
    BY <2>1, Zenon DEF Kept, KeepsHandle
  <2>3. \A t \in Thread : \A o \in owned[t] : o[2] \in backend_open
    BY <2>1, Zenon DEF Inv, HandleInv
  <2>4. \A t, u \in Thread : \A o \in owned[t], q \in owned[u] : o[2] = q[2] => o = q
    BY <2>1 DEF Inv, HandleInv
  <2>. QED  BY <2>2, <2>3, <2>4 DEF AllOwned
<1>. QED  BY <1>1, WarmInductive, PTL

\* When no call is in progress, a kernel descriptor that nobody holds is one
\* that insert_file_handle refused with EBADF: no other path of defuse_open and
\* defuse_close forgets one.
THEOREM OnlyEBADFLeaks == MCSpec => []WarmLeaksOnlyPastTable
<1>1. (~mixed => Inv /\ Kept) => WarmLeaksOnlyPastTable
  <2>. SUFFICES ASSUME Inv, Kept, AtRest, NEW f \in kernel_fds, f \notin {o[1] : o \in AllOwned}
                PROVE  f \in KernelFd /\ f >= MAX_FILES
    BY Zenon DEF WarmLeaksOnlyPastTable, LeaksOnlyPastTable
  <2>1. f \in KernelFd
    BY Zenon DEF Inv, TypeOK
  <2>2. f \notin Slot
    BY DEF Kept, KeepsFd, AtRest, Opening, AllOwned
  <2>. QED  BY <2>1, <2>2, ThreadsAssumption DEF KernelFd, Slot
<1>. QED  BY <1>1, WarmInductive, PTL

\* In any process, also one in which threads race for the first use of the
\* table (get_instance) and descriptors are closed behind the library, no
\* descriptor is ever routed to the handle of another open.
THEOREM NoOtherServes == MCSpec => []NeverServedByOther
<1>1. AnyInv => NeverServedByOther
  BY DEF AnyInv, KeepersHandle
<1>. QED  BY <1>1, AnyInductive, PTL

\* Types, in both kinds of process; a held descriptor lies inside the table.
THEOREM ThreadsTypes == MCSpec => []TypeOK
<1>1. AnyInv => TypeOK
  BY DEF AnyInv
<1>. QED  BY <1>1, AnyInductive, PTL

----------------------------------------------------------------------------
\* A descriptor that thread t has open, or is opening.
Has(t, o) == o \in owned[t] \/ (pc[t] \in {"link_load", "link_store"} /\ o = <<fd[t], fh[t]>>)

\* The slots of different threads are different: what t does to the slot of its
\* own descriptor is nothing to the files of u.
LEMMA OthersSlots ==
  ASSUME Inv, NEW t \in Thread, NEW u \in Thread, u # t, pc[t] \in {"store", "clear"},
         NEW o, Has(u, o)
  PROVE  o[1] # fd[t]
<1>1. CASE pc[t] = "store"
  <2>1. pc[t] \in Opening  BY <1>1, Zenon DEF Opening
  <2>2. CASE o \in owned[u]  BY <2>1, <2>2, Zenon DEF Inv, FdInv
  <2>3. CASE pc[u] \in {"link_load", "link_store"} /\ o = <<fd[u], fh[u]>>
    <3>1. pc[u] \in Opening /\ o[1] = fd[u]  BY <2>3 DEF Opening
    <3> QED  BY <2>1, <3>1, Zenon DEF Inv, FdInv
  <2> QED  BY <2>2, <2>3, Zenon DEF Has
<1>2. CASE pc[t] = "clear"
  <2> DEFINE q == <<fd[t], fh[t]>>
  <2>1. q \in owned[t] /\ q[1] = fd[t]
    <3>1. pc[t] \in InClose  BY <1>2, Zenon DEF InClose
    <3>2. q \in owned[t]  BY <3>1, Zenon DEF Inv, FdInv
    <3> QED  BY <3>2
  <2> HIDE DEF q
  <2>2. CASE o \in owned[u]  BY <2>1, <2>2, Zenon DEF Inv, FdInv
  <2>3. CASE pc[u] \in {"link_load", "link_store"} /\ o = <<fd[u], fh[u]>>
    <3>1. pc[u] \in Opening /\ o[1] = fd[u]  BY <2>3 DEF Opening
    <3>2. q[1] # fd[u]  BY <2>1, <3>1, Zenon DEF Inv, FdInv
    <3> QED  BY <2>1, <3>1, <3>2, Zenon
  <2> QED  BY <2>2, <2>3, Zenon DEF Has
<1> QED  BY <1>1, <1>2, Zenon

\* The step is one of t: of the table it touches at most the slot of t's own
\* descriptor.
OnlyMoves(t) ==
  /\ \A u \in Thread : u # t =>
       pc'[u] = pc[u] /\ fd'[u] = fd[u] /\ fh'[u] = fh[u] /\ owned'[u] = owned[u]
  /\ \A s \in Slot : s = fd[t] \/ file_handles'[s] = file_handles[s]
  /\ file_handles' = file_handles \/ pc[t] \in {"store", "clear"}

\* Such a step leaves what the other threads have open as it is.
LEMMA OthersSame ==
  ASSUME Inv, ~mixed, ~mixed', NEW t \in Thread, OnlyMoves(t), NEW u \in Thread, u # t
  PROVE  Phase(u)' = Phase(u) /\ HasOpen(u)' = HasOpen(u)
<1>1. /\ pc'[u] = pc[u] /\ fd'[u] = fd[u] /\ fh'[u] = fh[u] /\ owned'[u] = owned[u]
      /\ \A s \in Slot : s = fd[t] \/ file_handles'[s] = file_handles[s]
      /\ file_handles' = file_handles \/ pc[t] \in {"store", "clear"}
  BY Zenon DEF OnlyMoves
<1>2. \A f : Closing(u, f)' <=> Closing(u, f)  BY <1>1, Zenon DEF Closing
<1>3. Phase(u)' = Phase(u)  BY <1>1, <1>2 DEF Phase
<1>4. ASSUME NEW o \in Slot \X Handle, Has(u, o)
      PROVE  file_handles'[o[1]] = file_handles[o[1]]
  <2>1. o[1] \in Slot  OBVIOUS
  <2>2. CASE file_handles' = file_handles  BY <2>2, Zenon
  <2>3. CASE pc[t] \in {"store", "clear"}
    <3>1. o[1] # fd[t]  BY <1>4, <2>3, OthersSlots, Zenon
    <3> QED  BY <1>1, <2>1, <3>1, Zenon
  <2> QED  BY <1>1, <2>2, <2>3, Zenon
<1>5. \A o : Has(u, o)' <=> Has(u, o)  BY <1>1, Zenon DEF Has
<1>6. HasOpen(u) = {o \in Slot \X Handle : ~Closing(u, o[1]) /\ file_handles[o[1]] = o[2] /\ Has(u, o)}
  BY Zenon DEF HasOpen, Has
<1>7. HasOpen(u)' =
        {o \in Slot \X Handle : ~Closing(u, o[1])' /\ file_handles'[o[1]] = o[2] /\ Has(u, o)'}
  BY Zenon DEF HasOpen, Has
<1> HIDE DEF HasOpen
<1> QED  BY <1>2, <1>3, <1>4, <1>5, <1>6, <1>7, Zenon

\* The files of a thread, one by one.
LEMMA HasOpenIs ==
  ASSUME ~mixed, NEW t \in Thread
  PROVE  HasOpen(t) =
           {o \in Slot \X Handle : ~Closing(t, o[1]) /\ file_handles[o[1]] = o[2] /\ Has(t, o)}
  BY Zenon DEF HasOpen, Has

\* How the abstract state sees a step of t.
LEMMA SeenFrom ==
  ASSUME Inv, ~mixed, ~mixed', NEW t \in Thread, OnlyMoves(t)
  PROVE  /\ Calls' = [Calls EXCEPT ![t] = Phase(t)'] /\ Files' = [Files EXCEPT ![t] = HasOpen(t)']
         /\ Calls[t] = Phase(t) /\ Files[t] = HasOpen(t)
<1>1. \A u \in Thread : u # t => Phase(u)' = Phase(u) /\ HasOpen(u)' = HasOpen(u)
  BY OthersSame, Zenon
<1>2. Calls = [u \in Thread |-> Phase(u)] /\ Calls' = [u \in Thread |-> Phase(u)']  BY Zenon DEF Calls
<1>3. Files = [u \in Thread |-> HasOpen(u)] /\ Files' = [u \in Thread |-> HasOpen(u)']
  BY Zenon DEF Files
<1> QED  BY <1>1, <1>2, <1>3, Zenon

\* A step of t that changes none of its files is a start, a return or nothing.
LEMMA PhaseMoves ==
  ASSUME Inv, ~mixed, ~mixed', NEW t \in Thread, OnlyMoves(t), HasOpen(t)' = HasOpen(t),
         \/ Phase(t) = "none" /\ Phase(t)' = "begun"
         \/ Phase(t) # "none" /\ Phase(t)' = "none"
         \/ Phase(t)' = Phase(t)
  PROVE  Atomic!Next \/ UNCHANGED <<Calls, Files>>
<1>1. /\ Calls' = [Calls EXCEPT ![t] = Phase(t)'] /\ Files' = [Files EXCEPT ![t] = HasOpen(t)']
      /\ Calls[t] = Phase(t) /\ Files[t] = HasOpen(t)
  BY SeenFrom, Zenon
<1>2. Files' = Files /\ (Phase(t)' = Phase(t) => Calls' = Calls)
  BY <1>1, Zenon DEF Files, Calls
<1>3. CASE Phase(t) = "none" /\ Phase(t)' = "begun"
  <2>1. Atomic!Begin(t)  BY <1>1, <1>2, <1>3, Zenon DEF Atomic!Begin
  <2> QED  BY <2>1, Zenon DEF Atomic!Next
<1>4. CASE Phase(t) # "none" /\ Phase(t)' = "none"
  <2>1. Atomic!Return(t)  BY <1>1, <1>2, <1>4, Zenon DEF Atomic!Return
  <2> QED  BY <2>1, Zenon DEF Atomic!Next
<1>5. CASE Phase(t)' = Phase(t)  BY <1>2, <1>5, Zenon
<1> QED  BY <1>3, <1>4, <1>5, Zenon

\* Such is every step of t that leaves the table and what t holds as they are,
\* unless it passes the close of the handle.
LEMMA QuietStep ==
  ASSUME Inv, ~mixed, ~mixed', NEW t \in Thread, NEW a, NEW b, Goto(t, a, b), OnlyMoves(t),
         owned' = owned, file_handles' = file_handles,
         \/ a = "idle" /\ b \in {"real_open", "backend_close"}
         \/ <<a, b>> \in {<<"real_open", "insert">>, <<"real_open", "undo">>, <<"insert", "undo">>,
                          <<"insert", "store">>, <<"undo", "idle">>, <<"backend_close", "idle">>}
         \/ /\ fd'[t] = fd[t] /\ fh'[t] = fh[t]
            /\ <<a, b>> \in {<<"link_load", "link_store">>, <<"remove", "unlink_load">>,
                             <<"unlink_load", "unlink_store">>, <<"unlink_store", "clear">>}
  PROVE  Atomic!Next \/ UNCHANGED <<Calls, Files>>
<1>1. pc[t] = a /\ pc'[t] = b  BY DEF Goto, Inv, TypeOK
<1>2. \A f : Closing(t, f)' <=> Closing(t, f)  BY <1>1 DEF Closing
<1>3. \A o : Has(t, o)' <=> Has(t, o)  BY <1>1 DEF Has
<1>4. HasOpen(t)' = HasOpen(t)
  <2>1. HasOpen(t)' =
          {o \in Slot \X Handle : ~Closing(t, o[1])' /\ file_handles'[o[1]] = o[2] /\ Has(t, o)'}
    BY Zenon DEF HasOpen, Has
  <2> QED  BY <1>2, <1>3, <2>1, HasOpenIs, Zenon
<1>5. \/ Phase(t) = "none" /\ Phase(t)' = "begun"
      \/ Phase(t) # "none" /\ Phase(t)' = "none"
      \/ Phase(t)' = Phase(t)
  BY <1>1 DEF Phase, Closing
<1> QED  BY <1>4, <1>5, PhaseMoves, Zenon

\* The store of insert_file_handle opens the file.
LEMMA StoreOpens ==
  ASSUME Inv, ~mixed, ~mixed', NEW t \in Thread, insert_store(t)
  PROVE  Atomic!Next
<1> DEFINE f == fd[t]
           h == fh[t]
<1>1. /\ f \in Slot /\ pc[t] = "store" /\ pc' = [pc EXCEPT ![t] = "link_load"]
      /\ file_handles' = [file_handles EXCEPT ![f] = h] /\ owned' = owned /\ fd' = fd /\ fh' = fh
      /\ file_handles[f] = NULL
  BY Zenon DEF insert_store, Goto
<1>2. pc'[t] = "link_load" /\ file_handles'[f] = h /\ OnlyMoves(t)
  BY <1>1 DEF Inv, TypeOK, OnlyMoves
<1>3. h \in Handle /\ NULL \notin Handle
  <2>1. pc[t] \in HoldsHandle  BY <1>1, Zenon DEF HoldsHandle, Opening
  <2>2. h \in backend_open  BY <2>1, Zenon DEF Inv, HandleInv
  <2> QED  BY <2>2, ThreadsAssumption, Zenon DEF Inv, TypeOK
<1>4. \A u \in Thread : \A o \in HasOpen(u) : o[1] # f /\ o[2] # h
  <2> SUFFICES ASSUME NEW u \in Thread, NEW o \in HasOpen(u) PROVE o[1] # f /\ o[2] # h  BY Zenon
  <2>1. /\ o \in Slot \X Handle /\ ~Closing(u, o[1]) /\ file_handles[o[1]] = o[2] /\ Has(u, o)
    BY HasOpenIs, Zenon
  <2>2. o[1] # f  BY <1>1, <1>3, <2>1
  <2>3. pc[t] \in HoldsHandle  BY <1>1, Zenon DEF HoldsHandle, Opening
  <2>4. CASE o \in owned[u]  BY <2>1, <2>2, <2>3, <2>4, Zenon DEF Inv, HandleInv
  <2>5. CASE pc[u] \in {"link_load", "link_store"} /\ o = <<fd[u], fh[u]>>
    <3>1. u # t /\ pc[u] \in HoldsHandle  BY <1>1, <2>5 DEF HoldsHandle, Opening
    <3>2. fh[u] # h  BY <2>3, <3>1, Zenon DEF Inv, HandleInv
    <3> QED  BY <2>2, <2>5, <3>2
  <2> QED  BY <2>1, <2>4, <2>5, Zenon DEF Has
<1>5. HasOpen(t)' = HasOpen(t) \cup {<<f, h>>}
  <2>1. HasOpen(t)' =
          {o \in Slot \X Handle : ~Closing(t, o[1])' /\ file_handles'[o[1]] = o[2] /\ Has(t, o)'}
    BY Zenon DEF HasOpen, Has
  <2>2. \A g : ~Closing(t, g) /\ ~Closing(t, g)'  BY <1>1, <1>2 DEF Closing
  <2>3. \A o : Has(t, o)' <=> Has(t, o) \/ o = <<f, h>>  BY <1>1, <1>2 DEF Has
  <2>4. \A o \in Slot \X Handle : Has(t, o) => o[1] # f
    <3>1. pc[t] \in Opening  BY <1>1, Zenon DEF Opening
    <3>2. \A o \in owned[t] : o[1] # f  BY <3>1, Zenon DEF Inv, FdInv
    <3> QED  BY <1>1, <3>2 DEF Has
  <2>5. \A o \in Slot \X Handle : o[1] # f => file_handles'[o[1]] = file_handles[o[1]]
    BY <1>1 DEF Inv, TypeOK
  <2>6. <<f, h>> \in Slot \X Handle /\ <<f, h>>[1] = f /\ <<f, h>>[2] = h  BY <1>1, <1>3
  <2> HIDE DEF f, h
  <2>7. HasOpen(t) = {o \in Slot \X Handle : file_handles[o[1]] = o[2] /\ Has(t, o)}
    BY <2>2, HasOpenIs, Zenon
  <2>8. HasOpen(t)' = {o \in Slot \X Handle : file_handles'[o[1]] = o[2] /\ (Has(t, o) \/ o = <<f, h>>)}
    BY <2>1, <2>2, <2>3, Zenon
  <2> QED  BY <1>2, <2>4, <2>5, <2>6, <2>7, <2>8, Zenon
<1>6. Phase(t) = "begun" /\ Phase(t)' = "done"  BY <1>1, <1>2 DEF Phase, Closing
<1>7. /\ Calls' = [Calls EXCEPT ![t] = Phase(t)'] /\ Files' = [Files EXCEPT ![t] = HasOpen(t)']
      /\ Calls[t] = Phase(t) /\ Files[t] = HasOpen(t)
  BY <1>2, SeenFrom, Zenon
<1>8. \A u \in Thread : Files[u] = HasOpen(u)  BY Zenon DEF Files
<1> HIDE DEF f, h
<1>9. Atomic!Open(t, f, h)  BY <1>4, <1>5, <1>6, <1>7, <1>8, Zenon DEF Atomic!Open
<1> QED  BY <1>1, <1>3, <1>9, Zenon DEF Atomic!Next

\* The close of the handle closes the file.
LEMMA BackendCloses ==
  ASSUME Inv, ~mixed, ~mixed', NEW t \in Thread, backend_close(t)
  PROVE  Atomic!Next
<1> DEFINE q == <<fd[t], fh[t]>>
<1>1. /\ pc[t] = "backend_close" /\ pc' = [pc EXCEPT ![t] = "remove"]
      /\ file_handles' = file_handles /\ owned' = owned /\ fd' = fd /\ fh' = fh
  BY Zenon DEF backend_close, Goto
<1>2. pc'[t] = "remove" /\ OnlyMoves(t)  BY <1>1 DEF Inv, TypeOK, OnlyMoves
<1>3. q \in owned[t] /\ q \in Slot \X Handle /\ q[1] = fd[t] /\ q[2] = fh[t]
  <2>1. pc[t] \in InClose  BY <1>1, Zenon DEF InClose
  <2>2. q \in owned[t]  BY <2>1, Zenon DEF Inv, FdInv
  <2>3. q \in Slot \X Handle  BY <2>2 DEF Inv, TypeOK
  <2> QED  BY <2>2, <2>3
<1> HIDE DEF q
<1>4. /\ \A f : ~Closing(t, f)
      /\ \A f : Closing(t, f)' <=> f = fd[t]
  BY <1>1, <1>2, Zenon DEF Closing
<1>5. \A o : Has(t, o) <=> o \in owned[t]  BY <1>1 DEF Has
<1>6. \A o : Has(t, o)' <=> o \in owned[t]  BY <1>1, <1>2 DEF Has
<1>7. file_handles[q[1]] = q[2]  BY <1>1, <1>3, Zenon DEF Inv, SlotInv
<1>8. \A o \in owned[t] : o[1] = fd[t] => o = q  BY <1>3, Zenon DEF Inv, FdInv
<1>9. HasOpen(t)' = HasOpen(t) \ {q} /\ q \in HasOpen(t)
  <2>1. HasOpen(t)' =
          {o \in Slot \X Handle : ~Closing(t, o[1])' /\ file_handles'[o[1]] = o[2] /\ Has(t, o)'}
    BY Zenon DEF HasOpen, Has
  <2>2. HasOpen(t) = {o \in Slot \X Handle : file_handles[o[1]] = o[2] /\ o \in owned[t]}
    BY <1>4, <1>5, HasOpenIs, Zenon
  <2>3. HasOpen(t)' = {o \in Slot \X Handle : /\ o[1] # fd[t] /\ file_handles[o[1]] = o[2]
                                             /\ o \in owned[t]}
    BY <1>1, <1>4, <1>6, <2>1, Zenon
  <2>4. q \in HasOpen(t)  BY <1>3, <1>7, <2>2, Zenon
  <2> QED  BY <1>3, <1>8, <2>2, <2>3, <2>4, Zenon
<1>10. Phase(t) = "begun" /\ Phase(t)' = "done"  BY <1>1, <1>2 DEF Phase, Closing
<1>11. /\ Calls' = [Calls EXCEPT ![t] = Phase(t)'] /\ Files' = [Files EXCEPT ![t] = HasOpen(t)']
       /\ Calls[t] = Phase(t) /\ Files[t] = HasOpen(t)
  BY <1>2, SeenFrom, Zenon
<1>12. Atomic!Close(t, q)  BY <1>9, <1>10, <1>11, Zenon DEF Atomic!Close
<1> QED  BY <1>3, <1>12, Zenon DEF Atomic!Next

\* Open has taken effect before the descriptor is in the list and returned.
LEMMA LinkReturns ==
  ASSUME Inv, ~mixed, ~mixed', NEW t \in Thread, link_store(t)
  PROVE  Atomic!Next \/ UNCHANGED <<Calls, Files>>
<1>1. /\ pc[t] = "link_store" /\ pc' = [pc EXCEPT ![t] = "idle"]
      /\ file_handles' = file_handles /\ fd' = fd /\ fh' = fh
      /\ owned' = [owned EXCEPT ![t] = @ \cup {<<fd[t], fh[t]>>}]
  BY Zenon DEF link_store, Goto
<1>2. pc'[t] = "idle" /\ OnlyMoves(t) /\ owned'[t] = owned[t] \cup {<<fd[t], fh[t]>>}
  <2>1. DOMAIN pc = Thread /\ DOMAIN owned = Thread  BY DEF Inv, TypeOK
  <2> QED  BY <1>1, <2>1, Zenon DEF OnlyMoves
<1>3. \A f : ~Closing(t, f) /\ ~Closing(t, f)'  BY <1>1, <1>2 DEF Closing
<1>4. \A o : Has(t, o)' <=> Has(t, o)  BY <1>1, <1>2 DEF Has
<1>5. HasOpen(t)' = HasOpen(t)
  <2>1. HasOpen(t)' =
          {o \in Slot \X Handle : ~Closing(t, o[1])' /\ file_handles'[o[1]] = o[2] /\ Has(t, o)'}
    BY Zenon DEF HasOpen, Has
  <2> QED  BY <1>1, <1>3, <1>4, <2>1, HasOpenIs, Zenon
<1>6. Phase(t) # "none" /\ Phase(t)' = "none"  BY <1>1, <1>2 DEF Phase, Closing
<1> QED  BY <1>2, <1>5, <1>6, PhaseMoves, Zenon

\* The slot of a closed file is nobody's.
LEMMA ClearIsQuiet ==
  ASSUME Inv, ~mixed, ~mixed', NEW t \in Thread, unlink_clear(t)
  PROVE  Atomic!Next \/ UNCHANGED <<Calls, Files>>
<1>1. /\ pc[t] = "clear" /\ pc' = [pc EXCEPT ![t] = "real_close"]
      /\ file_handles' = [file_handles EXCEPT ![fd[t]] = NULL] /\ owned' = owned
      /\ fd' = fd /\ fh' = fh
  BY Zenon DEF unlink_clear, Goto
<1>2. /\ pc'[t] = "real_close" /\ OnlyMoves(t)
      /\ \A s \in Slot : s # fd[t] => file_handles'[s] = file_handles[s]
  BY <1>1 DEF Inv, TypeOK, OnlyMoves
<1>3. /\ \A f : Closing(t, f) <=> f = fd[t]
      /\ \A f : Closing(t, f)' <=> f = fd[t]
  BY <1>1, <1>2, Zenon DEF Closing
<1>4. \A o : Has(t, o)' <=> Has(t, o)  BY <1>1, <1>2 DEF Has
<1>5. HasOpen(t)' = HasOpen(t)
  <2>1. HasOpen(t)' =
          {o \in Slot \X Handle : ~Closing(t, o[1])' /\ file_handles'[o[1]] = o[2] /\ Has(t, o)'}
    BY Zenon DEF HasOpen, Has
  <2>2. \A o \in Slot \X Handle : o[1] \in Slot  OBVIOUS
  <2> QED  BY <1>2, <1>3, <1>4, <2>1, <2>2, HasOpenIs, Zenon
<1>6. Phase(t)' = Phase(t)  BY <1>1, <1>2 DEF Phase, Closing
<1> QED  BY <1>2, <1>5, <1>6, PhaseMoves, Zenon

\* Close returns with the descriptor gone.
LEMMA CloseReturns ==
  ASSUME Inv, ~mixed, ~mixed', NEW t \in Thread, real_close(t)
  PROVE  Atomic!Next \/ UNCHANGED <<Calls, Files>>
<1>1. /\ pc[t] = "real_close" /\ pc' = [pc EXCEPT ![t] = "idle"]
      /\ file_handles' = file_handles /\ fd' = fd /\ fh' = fh
      /\ owned' = [owned EXCEPT ![t] = {o \in @ : o[1] # fd[t]}]
  BY Zenon DEF real_close, Goto
<1>2. pc'[t] = "idle" /\ OnlyMoves(t) /\ owned'[t] = {o \in owned[t] : o[1] # fd[t]}
  <2>1. DOMAIN pc = Thread /\ DOMAIN owned = Thread  BY DEF Inv, TypeOK
  <2> QED  BY <1>1, <2>1, Zenon DEF OnlyMoves
<1>3. \A f : (Closing(t, f) <=> f = fd[t]) /\ ~Closing(t, f)'  BY <1>1, <1>2 DEF Closing
<1>4. \A o : (Has(t, o) <=> o \in owned[t]) /\ (Has(t, o)' <=> o \in owned[t] /\ o[1] # fd[t])
  BY <1>1, <1>2 DEF Has
<1>5. HasOpen(t)' = HasOpen(t)
  <2>1. HasOpen(t)' =
          {o \in Slot \X Handle : ~Closing(t, o[1])' /\ file_handles'[o[1]] = o[2] /\ Has(t, o)'}
    BY Zenon DEF HasOpen, Has
  <2> QED  BY <1>1, <1>3, <1>4, <2>1, HasOpenIs, Zenon
<1>6. Phase(t) # "none" /\ Phase(t)' = "none"  BY <1>1, <1>2 DEF Phase, Closing
<1> QED  BY <1>2, <1>5, <1>6, PhaseMoves, Zenon

\* The other steps of a call.
LEMMA OtherSteps ==
  ASSUME Inv, ~mixed, ~mixed', NEW t \in Thread,
         \/ backend_open_step(t) \/ real_open(t) \/ real_open_fails(t) \/ insert_past_table(t)
         \/ get_instance(t) \/ link_load(t) \/ undo(t) \/ close_find(t) \/ backend_close_fails(t)
         \/ remove_file_handle(t) \/ unlink_load(t) \/ unlink_store(t)
  PROVE  Atomic!Next \/ UNCHANGED <<Calls, Files>>
<1> DEFINE Quiet(a, b) == /\ Goto(t, a, b) /\ OnlyMoves(t) /\ owned' = owned
                          /\ file_handles' = file_handles
<1>1. CASE backend_open_step(t)
  <2>1. Quiet("idle", "real_open")  BY <1>1 DEF backend_open_step, Goto, OnlyMoves, Inv, TypeOK
  <2> QED  BY <2>1, QuietStep, Zenon
<1>2. CASE real_open(t)
  <2>1. Quiet("real_open", "insert")  BY <1>2 DEF real_open, Goto, OnlyMoves, Inv, TypeOK
  <2> QED  BY <2>1, QuietStep, Zenon
<1>3. CASE real_open_fails(t) \/ insert_past_table(t) \/ backend_close_fails(t) \/ undo(t)
  <2>1. \E a, b : /\ <<a, b>> \in {<<"real_open", "undo">>, <<"insert", "undo">>, <<"undo", "idle">>,
                                   <<"backend_close", "idle">>}
                  /\ Quiet(a, b)
    BY <1>3 DEF real_open_fails, insert_past_table, backend_close_fails, undo, shared,
       Goto, OnlyMoves, Inv, TypeOK
  <2> QED  BY <2>1, QuietStep, Zenon
<1>4. CASE link_load(t) \/ remove_file_handle(t) \/ unlink_load(t) \/ unlink_store(t)
  <2>1. \E a, b : /\ <<a, b>> \in {<<"link_load", "link_store">>, <<"remove", "unlink_load">>,
                                   <<"unlink_load", "unlink_store">>, <<"unlink_store", "clear">>}
                  /\ Quiet(a, b) /\ fd' = fd /\ fh' = fh
    BY <1>4 DEF link_load, remove_file_handle, unlink_load, unlink_store, shared,
       Goto, OnlyMoves, Inv, TypeOK
  <2> QED  BY <2>1, QuietStep, Zenon
<1>5. CASE close_find(t)
  <2>1. /\ pc[t] = "idle" /\ UNCHANGED <<shared, reg, owned>>
        /\ \E o \in owned[t] :
             /\ fd' = [fd EXCEPT ![t] = o[1]] /\ fh' = [fh EXCEPT ![t] = file_handles[o[1]]]
             /\ Goto(t, "idle", IF file_handles[o[1]] = NULL THEN "real_close" ELSE "backend_close")
    BY <1>5, Zenon DEF close_find, Goto
  <2>2. \A o \in owned[t] : file_handles[o[1]] # NULL
    <3>1. \A o \in owned[t] : file_handles[o[1]] = o[2]  BY <2>1, Zenon DEF Inv, SlotInv
    <3>2. \A o \in owned[t] : o[2] \in Handle  BY DEF Inv, TypeOK
    <3> QED  BY <3>1, <3>2, ThreadsAssumption, Zenon
  <2>3. PICK o \in owned[t] :
          /\ fd' = [fd EXCEPT ![t] = o[1]] /\ fh' = [fh EXCEPT ![t] = file_handles[o[1]]]
          /\ Goto(t, "idle", "backend_close")
    BY <2>1, <2>2, Zenon
  <2>4. Quiet("idle", "backend_close")
    <3>1. \A u \in Thread : u # t =>
            pc'[u] = pc[u] /\ fd'[u] = fd[u] /\ fh'[u] = fh[u] /\ owned'[u] = owned[u]
      BY <2>1, <2>3, Zenon DEF Goto, Inv, TypeOK
    <3> QED  BY <2>1, <2>3, <3>1, Zenon DEF shared, OnlyMoves
  <2> QED  BY <2>4, QuietStep, Zenon
<1>6. CASE get_instance(t)
  <2>1. fht_initialized = TRUE  BY Zenon DEF Inv, Initialised
  <2>2. Goto(t, "insert", "store") /\ UNCHANGED <<shared, fd, fh, reg, owned>>
    BY <1>6, <2>1, Zenon DEF get_instance
  <2>3. Quiet("insert", "store")  BY <2>2 DEF shared, Goto, OnlyMoves, Inv, TypeOK
  <2> QED  BY <2>3, QuietStep, Zenon
<1> QED  BY <1>1, <1>2, <1>3, <1>4, <1>5, <1>6, Zenon

\* For any number of threads, slots, descriptors and handles: the unlocked calls
\* of defuse_open and defuse_close in an initialised process implement atomic
\* ones.
THEOREM CallsAreAtomic == MCSpec => CallsAtomic
<1>1. MCInit => Atomic!Init
  BY DEF MCInit, WarmInit, ColdInit, Atomic!Init, Calls, Files, Phase, HasOpen, Closing
<1>2. (~mixed => Inv) /\ [MCNext]_<<vars, mixed>> => [Atomic!Next]_<<Calls, Files>>
  <2> SUFFICES ASSUME ~mixed => Inv, [MCNext]_<<vars, mixed>>
               PROVE  Atomic!Next \/ UNCHANGED <<Calls, Files>>
    BY Zenon
  <2>1. mixed' = mixed  BY Zenon DEF MCNext
  <2>2. CASE mixed
    <3>1. \A t \in Thread : /\ Phase(t) = "none" /\ Phase(t)' = "none"
                            /\ HasOpen(t) = {} /\ HasOpen(t)' = {}
      BY <2>1, <2>2 DEF Phase, HasOpen
    <3> QED  BY <3>1, Zenon DEF Calls, Files
  <2>3. CASE ~mixed /\ MCNext
    <3>1. PICK t \in Thread : defuse_open(t) \/ defuse_close(t)
      BY <2>3, FirstUseOver, Zenon DEF MCNext, Next
    <3>2. ~insert_exists(t) /\ ~remove_missing(t)  BY <2>3, NeverRefused, Zenon
    <3>3. ~mixed /\ ~mixed' /\ Inv  BY <2>1, <2>3, Zenon
    <3> QED  BY <3>1, <3>2, <3>3, StoreOpens, BackendCloses, LinkReturns, ClearIsQuiet, CloseReturns,
                OtherSteps, Zenon DEF defuse_open, defuse_close
  <2>4. CASE ~mixed /\ UNCHANGED <<vars, mixed>>
    BY <2>4 DEF vars, shared, Calls, Files, Phase, HasOpen, Closing
  <2> QED  BY <2>2, <2>3, <2>4, Zenon
<1>3. (~mixed => Inv /\ Kept) => (~mixed => Inv)  BY Zenon
<1> QED  BY <1>1, <1>2, <1>3, WarmInductive, PTL DEF MCSpec, CallsAtomic, Atomic!Spec
=============================================================================
