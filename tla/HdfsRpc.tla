------------------------------ MODULE HdfsRpc ------------------------------
(***************************************************************************)
(* The connection of usfs_wrap/hdfs/hadooprpc.c to the namenode.  Threads  *)
(* of the program and the lease worker share one socket; a mutex is held   *)
(* from the request to its response, because responses are taken in the    *)
(* order they arrive and their call id is never compared.  A FATAL         *)
(* response closes the socket and cancels the worker, which dies at its    *)
(* next sleep or send, whatever it holds then.  usfs_init runs on thread   *)
(* Main before the program has other threads.                              *)
(***************************************************************************)
EXTENDS Naturals, Sequences

CONSTANTS
  Thread,      \* threads of the program
  Main,        \* the one that loads the library and connects
  Worker,      \* hadoop_namenode_worker
  None,
  MaxCalls     \* bound on the calls of one thread

Agent == Thread \cup {Worker}

ASSUME RpcAssumption ==
  Main \in Thread /\ Worker \notin Thread /\ None \notin Agent /\ MaxCalls \in Nat

VARIABLES
  process,     \* "starting", "running", "exited" (usfs_init failed) or "crashed"
  mutex,       \* holder of connection->mutex, or None
  isopen,      \* is sockfd an open socket?
  peer,        \* is the namenode still at its other end?
  cancelled,   \* pthread_cancel(worker) was called
  pc,          \* agent -> where it is in its call
  asked,       \* requests on their way to the namenode, by their senders
  answered,    \* responses on their way back: <<sender of the request, status>>
  got,         \* agent -> sender of the request whose response it took last
  calls        \* thread -> calls it made

vars == <<process, mutex, isopen, peer, cancelled, pc, asked, answered, got, calls>>
wire == <<asked, answered>>

Status == {"SUCCESS", "ERROR", "FATAL"}

Init ==
  /\ process = "starting" /\ mutex = Main /\ isopen = FALSE /\ peer = TRUE /\ cancelled = FALSE
  /\ pc = [a \in Agent |-> IF a = Main THEN "connect" ELSE IF a = Worker THEN "none" ELSE "idle"]
  /\ asked = <<>> /\ answered = <<>>
  /\ got = [a \in Agent |-> None]
  /\ calls = [t \in Thread |-> 0]

Alive == process \in {"starting", "running"}
Goto(a, from, to) == Alive /\ pc[a] = from /\ pc' = [pc EXCEPT ![a] = to]

----------------------------------------------------------------------------
\* hadoop_rpc_connect_namenode, the mutex held: the socket and its preamble,
\* the worker, and on to the request for the server's defaults.  A failing
\* pthread_create returns a positive number and goes unnoticed.
connect_namenode ==
  /\ Alive /\ pc[Main] = "connect"
  /\ \E w \in {"sleep", "none"} : pc' = [pc EXCEPT ![Main] = "send", ![Worker] = w]
  /\ isopen' = TRUE
  /\ UNCHANGED <<process, mutex, peer, cancelled, wire, got, calls>>

\* The host cannot be reached: fail: cancels a worker that was never created
\* (state->worker is 0), which the C library does not survive.
connect_fails ==
  /\ Alive /\ pc[Main] = "connect"
  /\ process' = "crashed"
  /\ UNCHANGED <<mutex, isopen, peer, cancelled, pc, wire, got, calls>>

\* A thread of the program makes a call (CALL_NN).
call(t) ==
  /\ process = "running" /\ calls[t] < MaxCalls
  /\ Goto(t, "idle", "lock")
  /\ calls' = [calls EXCEPT ![t] = @ + 1]
  /\ UNCHANGED <<process, mutex, isopen, peer, cancelled, wire, got>>

\* hadoop_rpc_call_namenode.  A slip: nobody waits for the mutex.
lock_ignored(a) ==
  /\ Goto(a, "lock", "send")
  /\ mutex' = a
  /\ UNCHANGED <<process, isopen, peer, cancelled, wire, got, calls>>

lock(a) ==
  /\ mutex = None
  /\ Goto(a, "lock", "send")
  /\ mutex' = a
  /\ UNCHANGED <<process, isopen, peer, cancelled, wire, got, calls>>

\* A cancelled worker acts on it in sleep and in sendto; the mutex it may hold
\* by then is not unlocked.
Dying(a) == a = Worker /\ cancelled
worker_dies ==
  /\ cancelled
  /\ Goto(Worker, "sleep", "dead") \/ Goto(Worker, "send", "dead")
  /\ UNCHANGED <<process, mutex, isopen, peer, cancelled, wire, got, calls>>

\* The results of send are not looked at.
send(a) ==
  /\ ~Dying(a)
  /\ Goto(a, "send", "recv")
  /\ asked' = IF isopen /\ peer THEN Append(asked, a) ELSE asked
  /\ UNCHANGED <<process, mutex, isopen, peer, cancelled, answered, got, calls>>

\* The socket is closed: recvfrom fails.
recv_fails(a) ==
  /\ ~isopen
  /\ Goto(a, "recv", "unlock")
  /\ got' = [got EXCEPT ![a] = None]
  /\ UNCHANGED <<process, mutex, isopen, peer, cancelled, wire, calls>>

\* The namenode hung up: a reset fails the call like a closed socket; an end of
\* file (recvfrom returns 0) leaves the length of the response uninitialised,
\* and a second send raises SIGPIPE: neither is survived.
recv_reset(a) ==
  /\ isopen /\ ~peer /\ answered = <<>>
  /\ Goto(a, "recv", IF process = "starting" THEN "fail" ELSE "unlock")
  /\ got' = [got EXCEPT ![a] = None]
  /\ UNCHANGED <<process, mutex, isopen, peer, cancelled, wire, calls>>

lost_crashes(a) ==
  /\ Alive /\ isopen /\ ~peer
  /\ (pc[a] = "recv" /\ answered = <<>>) \/ (pc[a] = "send" /\ ~Dying(a))
  /\ process' = "crashed"
  /\ UNCHANGED <<mutex, isopen, peer, cancelled, pc, wire, got, calls>>

recv(a) ==
  /\ isopen /\ answered # <<>> /\ Head(answered)[2] # "FATAL"
  /\ Goto(a, "recv", IF process = "starting" /\ Head(answered)[2] = "ERROR"
                     THEN "fail" ELSE "unlock")
  /\ got' = [got EXCEPT ![a] = Head(answered)[1]]
  /\ answered' = Tail(answered)
  /\ UNCHANGED <<process, mutex, isopen, peer, cancelled, asked, calls>>

\* hadoop_rpc_disconnect_namenode: close and cancel, which needs a worker.
recv_fatal(a) ==
  /\ isopen /\ answered # <<>> /\ Head(answered)[2] = "FATAL"
  /\ Goto(a, "recv", IF process = "starting" THEN "fail" ELSE "unlock")
  /\ got' = [got EXCEPT ![a] = Head(answered)[1]]
  /\ isopen' = FALSE /\ cancelled' = TRUE
  /\ asked' = <<>> /\ answered' = <<>>
  /\ process' = IF pc[Worker] = "none" THEN "crashed" ELSE process
  /\ UNCHANGED <<mutex, peer, calls>>

\* A slip: the error path of a call forgets the mutex.
unlock_forgotten(a) ==
  /\ Goto(a, "unlock", IF a = Worker THEN "sleep" ELSE "idle")
  /\ mutex' = IF got[a] = None THEN mutex ELSE None
  /\ process' = "running"
  /\ UNCHANGED <<isopen, peer, cancelled, wire, got, calls>>

\* A slip: the worker gives up when renewLease fails.
unlock_worker_returns(a) ==
  /\ Goto(a, "unlock", "idle")
  /\ mutex' = None
  /\ process' = "running"
  /\ UNCHANGED <<isopen, peer, cancelled, wire, got, calls>>

unlock(a) ==
  /\ Goto(a, "unlock", IF a = Worker THEN "sleep" ELSE "idle")
  /\ mutex' = None
  /\ process' = "running"
  /\ UNCHANGED <<isopen, peer, cancelled, wire, got, calls>>

\* fail: of connect_namenode, and exit(1) of usfs_init.
init_fails ==
  /\ Goto(Main, "fail", "idle")
  /\ mutex' = None /\ isopen' = FALSE /\ cancelled' = TRUE
  /\ process' = IF pc[Worker] = "none" THEN "crashed" ELSE "exited"
  /\ UNCHANGED <<peer, wire, got, calls>>

\* hadoop_namenode_worker: sleep(30) ends.
wake ==
  /\ ~cancelled
  /\ Goto(Worker, "sleep", "lock")
  /\ UNCHANGED <<process, mutex, isopen, peer, cancelled, wire, got, calls>>

\* The namenode answers its requests in turn.
answer ==
  /\ Alive /\ asked # <<>>
  /\ \E s \in Status : answered' = Append(answered, <<Head(asked), s>>)
  /\ asked' = Tail(asked)
  /\ UNCHANGED <<process, mutex, isopen, peer, cancelled, pc, got, calls>>

hangup ==
  /\ Alive /\ isopen /\ peer
  /\ peer' = FALSE /\ asked' = <<>>
  /\ UNCHANGED <<process, mutex, isopen, cancelled, pc, answered, got, calls>>

----------------------------------------------------------------------------
CallStep(a) ==
  \/ lock(a) \/ send(a) \/ unlock(a)
  \/ recv(a) \/ recv_fatal(a) \/ recv_fails(a) \/ recv_reset(a) \/ lost_crashes(a)

Next ==
  \/ connect_namenode \/ connect_fails \/ init_fails
  \/ \E t \in Thread : call(t)
  \/ \E a \in Agent : CallStep(a)
  \/ wake \/ worker_dies \/ answer \/ hangup

\* Runnable threads run, sleep ends, and the namenode answers.  A thread that
\* waits for the mutex gets it if it is released again and again: the worker
\* sleeps for 30 seconds between two calls and the program's calls are bounded.
Fairness ==
  /\ \A a \in Agent : WF_vars(CallStep(a)) /\ SF_vars(lock(a))
  /\ WF_vars(init_fails) /\ WF_vars(wake) /\ WF_vars(worker_dies) /\ WF_vars(answer)

Spec == Init /\ [][Next]_vars
FairSpec == Spec /\ Fairness

----------------------------------------------------------------------------
\* The values the variables take; only the program's threads are ever between two
\* calls of their own, the worker's loop has no way out of a failed renewLease.
TypeOK ==
  /\ process \in {"starting", "running", "exited", "crashed"}
  /\ mutex \in Agent \cup {None}
  /\ isopen \in BOOLEAN /\ peer \in BOOLEAN /\ cancelled \in BOOLEAN
  /\ pc \in [Agent -> {"none", "connect", "idle", "sleep", "lock", "send", "recv",
                       "unlock", "fail", "dead"}]
  /\ pc[Worker] \notin {"connect", "idle", "fail"}
  /\ asked \in Seq(Agent) /\ answered \in Seq(Agent \X Status)
  /\ got \in [Agent -> Agent \cup {None}]
  /\ calls \in [Thread -> 0 .. MaxCalls]

\* A call never takes the response to another call's request, although
\* hadoop_rpc_call_namenode_withlock does not compare call ids, and although
\* the worker may be cancelled in the middle of its own call.
ReplyIsOwn == \A a \in Agent : got[a] \in {a, None}

\* The worker died with the mutex in its hands.
Orphaned == pc[Worker] = "dead" /\ mutex = Worker

\* Every call of the program ends: it returns, unless a FATAL response to
\* another call cancelled the worker while it waited for the mutex, and the
\* worker took the mutex to its grave.
CallsEnd ==
  \A t \in Thread :
    (process = "running" /\ pc[t] = "lock") ~> (pc[t] = "idle" \/ Orphaned \/ ~Alive)

\* The lease is renewed again and again as long as the connection lasts and a
\* worker was created: neither the calls of the program nor an error in answer
\* to renewLease keep the worker from its next request.
LeaseRenewed ==
  []<>(pc[Worker] \in {"recv", "none"} \/ ~isopen \/ ~peer \/ ~Alive)
=============================================================================
