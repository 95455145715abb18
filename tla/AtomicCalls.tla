---------------------------- MODULE AtomicCalls ----------------------------
(***************************************************************************)
(* What open and close promise the threads of a program (open.c, close.c): *)
(* each call that succeeds takes effect in one moment between its start    *)
(* and its return, and one that fails has no effect.  No table, no kernel  *)
(* and no steps of a call.                                                 *)
(***************************************************************************)
CONSTANTS Thread, Fd, Handle

VARIABLES
  call,     \* per thread: "none", "begun", or "done" once it took effect
  files     \* per thread: <<descriptor, handle>> of the files it has open

Init ==
  /\ call = [t \in Thread |-> "none"]
  /\ files = [t \in Thread |-> {}]

Begin(t) == call[t] = "none" /\ call' = [call EXCEPT ![t] = "begun"] /\ UNCHANGED files

\* Neither the descriptor nor the handle is one that some thread has.
Open(t, f, h) ==
  /\ call[t] = "begun" /\ call' = [call EXCEPT ![t] = "done"]
  /\ \A u \in Thread : \A o \in files[u] : o[1] # f /\ o[2] # h
  /\ files' = [files EXCEPT ![t] = @ \cup {<<f, h>>}]

Close(t, o) ==
  /\ call[t] = "begun" /\ call' = [call EXCEPT ![t] = "done"]
  /\ o \in files[t] /\ files' = [files EXCEPT ![t] = @ \ {o}]

\* A call that comes back without an effect has failed.
Return(t) == call[t] # "none" /\ call' = [call EXCEPT ![t] = "none"] /\ UNCHANGED files

Next ==
  \E t \in Thread :
    \/ Begin(t) \/ Return(t)
    \/ \E f \in Fd, h \in Handle : Open(t, f, h)
    \/ \E o \in Fd \X Handle : Close(t, o)

Spec == Init /\ [][Next]_<<call, files>>
=============================================================================
