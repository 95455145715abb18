--------------------------- MODULE HdfsRpcProofs ---------------------------
(***************************************************************************)
(* Every call takes the response to its own request, for any number of     *)
(* threads and calls.  ReplyIsOwn speaks of the past and is not inductive: *)
(* what carries it is that only the holder of the mutex has anything on    *)
(* the wire, and only while it waits for the response.                     *)
(***************************************************************************)
EXTENDS HdfsRpc, TLAPS

InCall == {"connect", "send", "recv", "unlock", "fail"}
Steps == {"none", "connect", "idle", "sleep", "lock", "send", "recv", "unlock", "fail", "dead"}

\* Who is in a call holds the mutex; who holds it is in a call or died in one.
HeldByCall ==
  /\ \A a \in Agent : pc[a] \in InCall => mutex = a
  /\ mutex \in Agent => pc[mutex] \in InCall \cup {"dead"}

Quiet == asked = <<>> /\ answered = <<>>
Requested == asked = <<mutex>> /\ answered = <<>> /\ peer
Replied == asked = <<>> /\ \E s \in Status : answered = <<<<mutex, s>>>>

\* What is on the wire belongs to the holder of the mutex, which waits for it.
WireIsHolders ==
  Quiet \/ (mutex \in Agent /\ pc[mutex] = "recv" /\ isopen /\ (Requested \/ Replied))

RpcInv ==
  /\ mutex \in Agent \cup {None}
  /\ pc \in [Agent -> Steps]
  /\ got \in [Agent -> Agent \cup {None}]
  /\ HeldByCall /\ WireIsHolders /\ ReplyIsOwn

\* The wire is empty while its holder is not waiting.
LEMMA QuietUnlessRecv ==
  ASSUME RpcInv, mutex \in Agent, pc[mutex] # "recv"
  PROVE  Quiet
  BY Zenon DEF RpcInv, WireIsHolders

\* An agent that reads a response reads its own.
LEMMA HeadIsOwn ==
  ASSUME RpcInv, NEW a \in Agent, pc[a] = "recv", answered # <<>>
  PROVE  /\ Head(answered)[1] = a /\ Tail(answered) = <<>>
         /\ asked = <<>>
<1>1. mutex = a
  BY Zenon DEF RpcInv, HeldByCall, InCall
<1>2. asked = <<>> /\ \E s \in Status : answered = <<<<a, s>>>>
  BY <1>1, Zenon DEF RpcInv, WireIsHolders, Quiet, Requested, Replied
<1>3. PICK s \in Status : answered = <<<<a, s>>>>
  BY <1>2, Zenon
<1>4. Head(answered) = <<a, s>> /\ Tail(answered) = <<>>
  BY <1>3
<1> QED
  BY <1>2, <1>4

\* Steps that take an agent from one place to another and leave the wire, the
\* mutex and what was received alone.
LEMMA MoveKeeps ==
  ASSUME RpcInv, NEW a \in Agent, NEW to \in Steps,
         pc' = [pc EXCEPT ![a] = to], UNCHANGED <<mutex, isopen, peer, asked, answered, got>>,
         pc[a] # "recv", pc[a] # "dead",
         to \in InCall => pc[a] \in InCall,
         pc[a] \in InCall => to \in InCall \cup {"dead"}
  PROVE  RpcInv'
<1>1. pc' \in [Agent -> Steps]
  BY Zenon DEF RpcInv
<1>2. HeldByCall'
  BY <1>1, Zenon DEF RpcInv, HeldByCall
<1>3. WireIsHolders'
  <2>1. CASE mutex = a
    BY <2>1, QuietUnlessRecv, Zenon DEF WireIsHolders, Quiet
  <2>2. CASE mutex # a
    BY <2>2, <1>1, Zenon DEF RpcInv, WireIsHolders, Quiet, Requested, Replied
  <2> QED
    BY <2>1, <2>2, Zenon
<1> QED
  BY <1>1, <1>2, <1>3, Zenon DEF RpcInv, ReplyIsOwn

\* Nobody has called yet.
LEMMA InitHolds == Init => RpcInv
<1> SUFFICES ASSUME Init PROVE RpcInv
  BY Zenon
<1>1. Main \in Agent /\ Worker \in Agent /\ None \notin Agent
  BY RpcAssumption, Zenon DEF Agent
<1>2. pc \in [Agent -> Steps]
  BY Zenon DEF Init, Steps
<1>3. HeldByCall
  BY <1>1, Zenon DEF Init, HeldByCall, InCall
<1>4. WireIsHolders
  BY Zenon DEF Init, WireIsHolders, Quiet
<1>5. got \in [Agent -> Agent \cup {None}] /\ ReplyIsOwn
  BY Zenon DEF Init, ReplyIsOwn
<1> QED
  BY <1>1, <1>2, <1>3, <1>4, <1>5, Zenon DEF Init, RpcInv

\* Each action: what it does to the wire, to the mutex and to what was received.
LEMMA StepHolds ==
  ASSUME RpcInv, NEW a \in Agent, CallStep(a)
  PROVE  RpcInv'
<1> USE DEF InCall, Steps, Goto
<1>0. a \in Agent /\ pc[a] \in Steps /\ None \notin Agent
  BY RpcAssumption, Zenon DEF RpcInv
<1>1. CASE lock(a)
  <2>1. mutex = None /\ mutex' = a /\ pc' = [pc EXCEPT ![a] = "send"] /\ pc[a] = "lock"
        /\ UNCHANGED <<isopen, peer, asked, answered, got>>
    BY <1>1, Zenon DEF lock, wire
  <2>2. Quiet
    BY <2>1, <1>0, Zenon DEF RpcInv, WireIsHolders
  <2>3. pc' \in [Agent -> Steps]
    BY <2>1, Zenon DEF RpcInv
  <2>4. HeldByCall'
    BY <2>1, <2>3, <1>0, Zenon DEF RpcInv, HeldByCall
  <2>5. WireIsHolders'
    BY <2>1, <2>2, Zenon DEF WireIsHolders, Quiet
  <2> QED
    BY <2>1, <2>3, <2>4, <2>5, Zenon DEF RpcInv, ReplyIsOwn
<1>2. CASE send(a)
  <2>1. pc[a] = "send" /\ pc' = [pc EXCEPT ![a] = "recv"]
        /\ UNCHANGED <<mutex, isopen, peer, answered, got>>
        /\ asked' = IF isopen /\ peer THEN Append(asked, a) ELSE asked
    BY <1>2, Zenon DEF send
  <2>2. mutex = a
    BY <2>1, Zenon DEF RpcInv, HeldByCall
  <2>3. Quiet
    BY <2>1, <2>2, QuietUnlessRecv, Zenon
  <2>4. pc' \in [Agent -> Steps]
    BY <2>1, Zenon DEF RpcInv
  <2>5. HeldByCall'
    BY <2>1, <2>2, <2>4, Zenon DEF RpcInv, HeldByCall
  <2>6. WireIsHolders'
    <3>1. CASE isopen /\ peer
      <4>1. asked' = <<a>>
        BY <2>1, <2>3, <3>1 DEF Quiet
      <4> QED
        BY <4>1, <2>1, <2>2, <2>3, <2>4, <3>1, Zenon DEF WireIsHolders, Requested, Quiet
    <3>2. CASE ~(isopen /\ peer)
      BY <2>1, <2>3, <3>2, Zenon DEF WireIsHolders, Quiet
    <3> QED
      BY <3>1, <3>2, Zenon
  <2> QED
    BY <2>1, <2>4, <2>5, <2>6, Zenon DEF RpcInv, ReplyIsOwn
<1>3. CASE unlock(a)
  <2>1. pc[a] = "unlock" /\ mutex' = None /\ UNCHANGED <<isopen, peer, asked, answered, got>>
        /\ pc' = [pc EXCEPT ![a] = IF a = Worker THEN "sleep" ELSE "idle"]
    BY <1>3, Zenon DEF unlock, wire
  <2>2. mutex = a
    BY <2>1, Zenon DEF RpcInv, HeldByCall
  <2>3. Quiet
    BY <2>1, <2>2, QuietUnlessRecv, Zenon
  <2>4. pc' \in [Agent -> Steps]
    BY <2>1, Zenon DEF RpcInv
  <2>5. HeldByCall'
    BY <2>1, <2>2, <2>4, <1>0, Zenon DEF RpcInv, HeldByCall
  <2>6. WireIsHolders'
    BY <2>1, <2>3, Zenon DEF WireIsHolders, Quiet
  <2> QED
    BY <2>1, <2>4, <2>5, <2>6, Zenon DEF RpcInv, ReplyIsOwn
<1>4. ASSUME pc[a] = "recv", NEW to \in {"unlock", "fail"}, pc' = [pc EXCEPT ![a] = to],
             NEW g \in {a, None}, got' = [got EXCEPT ![a] = g], mutex' = mutex, Quiet'
      PROVE  RpcInv'
  <2>1. mutex = a
    BY <1>4, Zenon DEF RpcInv, HeldByCall
  <2>2. pc' \in [Agent -> Steps] /\ got' \in [Agent -> Agent \cup {None}]
    BY <1>4, Zenon DEF RpcInv
  <2>3. HeldByCall'
    BY <1>4, <2>1, <2>2, Zenon DEF RpcInv, HeldByCall
  <2>4. ReplyIsOwn'
    BY <1>4, <2>2, Zenon DEF RpcInv, ReplyIsOwn
  <2> QED
    BY <1>4, <2>1, <2>2, <2>3, <2>4, Zenon DEF RpcInv, WireIsHolders
<1>5. CASE recv(a)
  <2>1. Head(answered)[1] = a /\ Tail(answered) = <<>> /\ asked = <<>>
    BY <1>5, HeadIsOwn, Zenon DEF recv
  <2>2. Quiet'
    BY <1>5, <2>1, Zenon DEF recv, Quiet
  <2> QED
    BY <1>4, <1>5, <2>1, <2>2, Zenon DEF recv
<1>6. CASE recv_fatal(a)
  <2>1. Head(answered)[1] = a
    BY <1>6, HeadIsOwn, Zenon DEF recv_fatal
  <2>2. Quiet'
    BY <1>6, Zenon DEF recv_fatal, Quiet
  <2> QED
    BY <1>4, <1>6, <2>1, <2>2, Zenon DEF recv_fatal
<1>7. CASE recv_fails(a)
  <2>1. Quiet'
    BY <1>7, Zenon DEF recv_fails, Quiet, RpcInv, WireIsHolders, wire
  <2> QED
    BY <1>4, <1>7, <2>1, Zenon DEF recv_fails
<1>8. CASE recv_reset(a)
  <2>1. Quiet'
    BY <1>8, Zenon DEF recv_reset, Quiet, RpcInv, WireIsHolders, Requested, Replied, wire
  <2> QED
    BY <1>4, <1>8, <2>1, Zenon DEF recv_reset
<1>9. CASE lost_crashes(a)
  BY <1>9, Zenon DEF lost_crashes, wire, RpcInv, HeldByCall, WireIsHolders, Quiet, Requested, Replied,
              ReplyIsOwn
<1> QED
  BY <1>1, <1>2, <1>3, <1>5, <1>6, <1>7, <1>8, <1>9, Zenon DEF CallStep

\* answer and hangup happen on the wire alone.
LEMMA WireHolds ==
  ASSUME RpcInv, answer \/ hangup
  PROVE  RpcInv'
<1>1. CASE answer
  <2>1. PICK s \in Status : answered' = Append(answered, <<Head(asked), s>>)
    BY <1>1, Zenon DEF answer
  <2>2. asked = <<mutex>> /\ answered = <<>> /\ mutex \in Agent /\ pc[mutex] = "recv" /\ isopen
    BY <1>1, Zenon DEF answer, RpcInv, WireIsHolders, Quiet, Requested, Replied
  <2>3. Head(asked) = mutex /\ Tail(asked) = <<>>
    BY <2>2
  <2>4. answered' = <<<<mutex, s>>>> /\ asked' = <<>>
    BY <1>1, <2>1, <2>2, <2>3 DEF answer
  <2>5. UNCHANGED <<mutex, isopen, pc, got>>
    BY <1>1, Zenon DEF answer
  <2>6. WireIsHolders'
    BY <2>2, <2>4, <2>5, Zenon DEF WireIsHolders, Replied
  <2> QED
    BY <2>5, <2>6, Zenon DEF RpcInv, HeldByCall, ReplyIsOwn
<1>2. CASE hangup
  BY <1>2, Zenon DEF hangup, RpcInv, HeldByCall, WireIsHolders, Quiet, Requested, Replied, ReplyIsOwn
<1> QED
  BY <1>1, <1>2, Zenon

\* Every step keeps the invariant.
LEMMA NextHolds == RpcInv /\ [Next]_vars => RpcInv'
<1> SUFFICES ASSUME RpcInv, [Next]_vars PROVE RpcInv'
  BY Zenon
<1>0. Main \in Agent /\ Worker \in Agent /\ Main # Worker /\ None \notin Agent
  BY RpcAssumption, Zenon DEF Agent
<1>1. CASE connect_namenode
  <2>1. PICK w \in {"sleep", "none"} : pc' = [pc EXCEPT ![Main] = "send", ![Worker] = w]
    BY <1>1, Zenon DEF connect_namenode
  <2>2. pc[Main] = "connect" /\ UNCHANGED <<mutex, peer, asked, answered, got>>
    BY <1>1, Zenon DEF connect_namenode, wire
  <2>3. mutex = Main
    BY <1>0, <2>2, Zenon DEF RpcInv, HeldByCall, InCall
  <2>4. Quiet
    BY <1>0, <2>2, <2>3, QuietUnlessRecv, Zenon
  <2>5. pc' \in [Agent -> Steps]
    BY <2>1, Zenon DEF RpcInv, Steps
  <2>6. HeldByCall'
    BY <1>0, <2>1, <2>2, <2>3, <2>5, Zenon DEF RpcInv, HeldByCall, InCall
  <2> QED
    BY <2>2, <2>4, <2>5, <2>6, Zenon DEF RpcInv, WireIsHolders, Quiet, ReplyIsOwn
<1>2. CASE connect_fails
  BY <1>2, Zenon DEF connect_fails, wire, RpcInv, HeldByCall, WireIsHolders, Quiet, Requested, Replied,
              ReplyIsOwn
<1>3. CASE init_fails
  <2>1. pc[Main] = "fail" /\ mutex' = None /\ UNCHANGED <<peer, asked, answered, got>>
        /\ pc' = [pc EXCEPT ![Main] = "idle"]
    BY <1>3, Zenon DEF init_fails, Goto, wire
  <2>2. mutex = Main
    BY <1>0, <2>1, Zenon DEF RpcInv, HeldByCall, InCall
  <2>3. Quiet
    BY <1>0, <2>1, <2>2, QuietUnlessRecv, Zenon
  <2>4. pc' \in [Agent -> Steps]
    BY <2>1, Zenon DEF RpcInv, Steps
  <2>5. HeldByCall'
    BY <1>0, <2>1, <2>2, <2>4, Zenon DEF RpcInv, HeldByCall, InCall
  <2> QED
    BY <2>1, <2>3, <2>4, <2>5, Zenon DEF RpcInv, WireIsHolders, Quiet, ReplyIsOwn
<1>4. ASSUME NEW t \in Thread, call(t) PROVE RpcInv'
  BY <1>4, MoveKeeps, Zenon DEF call, Goto, wire, InCall, Steps, Agent
<1>5. ASSUME NEW a \in Agent, CallStep(a) PROVE RpcInv'
  BY <1>5, StepHolds, Zenon
<1>6. CASE wake
  BY <1>0, <1>6, MoveKeeps, Zenon DEF wake, Goto, wire, InCall, Steps
<1>7. CASE worker_dies
  BY <1>0, <1>7, MoveKeeps, Zenon DEF worker_dies, Goto, wire, InCall, Steps
<1>8. CASE answer \/ hangup
  BY <1>8, WireHolds, Zenon
<1>9. CASE UNCHANGED vars
  BY <1>9, Zenon DEF vars, wire, RpcInv, HeldByCall, WireIsHolders, Quiet, Requested, Replied, ReplyIsOwn
<1> QED
  BY <1>1, <1>2, <1>3, <1>4, <1>5, <1>6, <1>7, <1>8, <1>9, Zenon DEF Next

\* For any threads and any number of calls, no call takes the response to
\* another one's request (hadoop_rpc_call_namenode holds the mutex from send
\* to recvfrom on every path, the error paths and the cancelled worker's too).
THEOREM CallsGetOwnReply == Spec => []ReplyIsOwn
<1>1. Init => RpcInv
  BY InitHolds, Zenon
<1>2. RpcInv /\ [Next]_vars => RpcInv'
  BY NextHolds, Zenon
<1>3. RpcInv => ReplyIsOwn
  BY DEF RpcInv
<1> QED
  BY <1>1, <1>2, <1>3, PTL DEF Spec


----------------------------------------------------------------------------
\* What TypeOK says beside RpcInv, and why the worker never takes the way out
\* of a failed start: until the start is over Main holds the mutex.
Starting ==
  /\ process \in {"starting", "running", "exited", "crashed"}
  /\ process = "starting" => mutex = Main
  /\ isopen \in BOOLEAN /\ peer \in BOOLEAN /\ cancelled \in BOOLEAN
  /\ pc[Worker] \notin {"connect", "idle", "fail"}
  /\ calls \in [Thread -> 0 .. MaxCalls]

\* A step that moves one agent, not the worker to a place it may not be in.
LEMMA MoveStarting ==
  ASSUME RpcInv, Starting, NEW a \in Agent, NEW to, pc' = [pc EXCEPT ![a] = to],
         a = Worker => to \notin {"connect", "idle", "fail"}
  PROVE  pc'[Worker] \notin {"connect", "idle", "fail"}
  BY RpcAssumption, Zenon DEF RpcInv, Starting, Agent

\* The steps of a call.
LEMMA StepStarting ==
  ASSUME RpcInv, Starting, NEW a \in Agent, CallStep(a)
  PROVE  Starting'
<1> USE DEF Goto
<1>0. None # Main /\ Main # Worker /\ calls' = calls /\ peer' = peer
  BY RpcAssumption, Zenon DEF CallStep, lock, send, unlock, recv, recv_fatal, recv_fails, recv_reset,
                       lost_crashes, Agent
<1>1. pc[a] = "recv" /\ process = "starting" => a = Main
  BY Zenon DEF RpcInv, HeldByCall, InCall, Starting
<1>2. CASE lock(a)
  <2>1. process # "starting"  BY <1>0, <1>2, Zenon DEF lock, Starting
  <2>2. pc' = [pc EXCEPT ![a] = "send"] /\ UNCHANGED <<process, isopen, cancelled>>  BY <1>2, Zenon DEF lock
  <2>3. pc'[Worker] \notin {"connect", "idle", "fail"}  BY <2>2, MoveStarting, Zenon
  <2> QED  BY <1>0, <2>1, <2>2, <2>3, Zenon DEF Starting
<1>3. CASE send(a)
  <2>1. pc' = [pc EXCEPT ![a] = "recv"] /\ UNCHANGED <<process, mutex, isopen, cancelled>>  BY <1>3, Zenon DEF send
  <2>2. pc'[Worker] \notin {"connect", "idle", "fail"}  BY <2>1, MoveStarting, Zenon
  <2> QED  BY <1>0, <2>1, <2>2, Zenon DEF Starting
<1>4. CASE unlock(a)
  <2>1. pc' = [pc EXCEPT ![a] = IF a = Worker THEN "sleep" ELSE "idle"] /\ process' = "running"
        /\ UNCHANGED <<isopen, cancelled>>
    BY <1>4, Zenon DEF unlock
  <2>2. pc'[Worker] \notin {"connect", "idle", "fail"}  BY <2>1, MoveStarting, Zenon
  <2> QED  BY <1>0, <2>1, <2>2, Zenon DEF Starting
<1>5. CASE recv(a) \/ recv_reset(a) \/ recv_fails(a)
  <2>1. PICK to \in {"unlock", "fail"} : /\ pc' = [pc EXCEPT ![a] = to]
                                         /\ to = "fail" => pc[a] = "recv" /\ process = "starting"
    BY <1>5, Zenon DEF recv, recv_reset, recv_fails
  <2>2. UNCHANGED <<process, mutex, isopen, cancelled>>  BY <1>5, Zenon DEF recv, recv_reset, recv_fails
  <2>3. pc'[Worker] \notin {"connect", "idle", "fail"}  BY <1>0, <1>1, <2>1, MoveStarting, Zenon
  <2> QED  BY <1>0, <2>2, <2>3, Zenon DEF Starting
<1>6. CASE recv_fatal(a)
  <2>1. PICK to \in {"unlock", "fail"} : /\ pc' = [pc EXCEPT ![a] = to]
                                         /\ to = "fail" => pc[a] = "recv" /\ process = "starting"
    BY <1>6, Zenon DEF recv_fatal
  <2>2. process' \in {process, "crashed"} /\ isopen' = FALSE /\ cancelled' = TRUE /\ mutex' = mutex
    BY <1>6, Zenon DEF recv_fatal
  <2>3. pc'[Worker] \notin {"connect", "idle", "fail"}  BY <1>0, <1>1, <2>1, MoveStarting, Zenon
  <2> QED  BY <1>0, <2>2, <2>3, Zenon DEF Starting
<1>7. CASE lost_crashes(a)
  BY <1>0, <1>7, Zenon DEF lost_crashes, Starting
<1> QED  BY <1>2, <1>3, <1>4, <1>5, <1>6, <1>7, Zenon DEF CallStep

\* Every step.
LEMMA NextStarting == RpcInv /\ Starting /\ [Next]_vars => Starting'
<1> SUFFICES ASSUME RpcInv, Starting, [Next]_vars  PROVE Starting'
  BY Zenon
<1>0. Main \in Agent /\ Worker \in Agent /\ Main # Worker  BY RpcAssumption, Zenon DEF Agent
<1>1. CASE connect_namenode
  <2>1. PICK w \in {"sleep", "none"} : pc' = [pc EXCEPT ![Main] = "send", ![Worker] = w]
    BY <1>1, Zenon DEF connect_namenode
  <2>2. pc'[Worker] = w  BY <1>0, <2>1, Zenon DEF RpcInv
  <2> QED  BY <1>1, <2>2, Zenon DEF connect_namenode, Starting
<1>2. CASE connect_fails
  BY <1>2, Zenon DEF connect_fails, Starting
<1>3. CASE init_fails
  <2>1. pc' = [pc EXCEPT ![Main] = "idle"] /\ process' \in {"crashed", "exited"}
        /\ isopen' = FALSE /\ cancelled' = TRUE /\ UNCHANGED <<peer, calls>>
    BY <1>3, Zenon DEF init_fails, Goto
  <2>2. pc'[Worker] \notin {"connect", "idle", "fail"}  BY <1>0, <2>1, MoveStarting, Zenon
  <2> QED  BY <2>1, <2>2, Zenon DEF Starting
<1>4. ASSUME NEW t \in Thread, call(t)  PROVE Starting'
  <2>1. pc' = [pc EXCEPT ![t] = "lock"] /\ UNCHANGED <<process, mutex, isopen, peer, cancelled>>
        /\ calls' = [calls EXCEPT ![t] = @ + 1] /\ calls[t] < MaxCalls
    BY <1>4, Zenon DEF call, Goto
  <2>2. pc'[Worker] \notin {"connect", "idle", "fail"}  BY <2>1, MoveStarting, Zenon DEF Agent
  <2>3. calls' \in [Thread -> 0 .. MaxCalls]  BY <2>1, RpcAssumption DEF Starting
  <2> QED  BY <2>1, <2>2, <2>3, Zenon DEF Starting
<1>5. ASSUME NEW a \in Agent, CallStep(a)  PROVE Starting'
  BY <1>5, StepStarting, Zenon
<1>6. CASE wake \/ worker_dies
  <2>1. PICK to \in {"lock", "dead"} : pc' = [pc EXCEPT ![Worker] = to]
    BY <1>6, Zenon DEF wake, worker_dies, Goto
  <2>2. pc'[Worker] \notin {"connect", "idle", "fail"}  BY <1>0, <2>1, MoveStarting, Zenon
  <2> QED  BY <1>6, <2>2, Zenon DEF wake, worker_dies, Starting
<1>7. CASE answer \/ hangup
  BY <1>7, Zenon DEF answer, hangup, Starting
<1>8. CASE UNCHANGED vars
  BY <1>8, Zenon DEF vars, Starting
<1> QED  BY <1>1, <1>2, <1>3, <1>4, <1>5, <1>6, <1>7, <1>8, Zenon DEF Next

\* The types: a failing first call ends the start of the program and never the
\* worker, which cannot have the mutex before that call is over.
THEOREM RpcTypes == Spec => []TypeOK
<1>1. Init => Starting
  <2> SUFFICES ASSUME Init  PROVE Starting
    BY Zenon
  <2>1. pc[Worker] = "none"  BY RpcAssumption, Zenon DEF Init, Agent
  <2>2. calls \in [Thread -> 0 .. MaxCalls]  BY RpcAssumption DEF Init
  <2>3. isopen \in BOOLEAN /\ peer \in BOOLEAN /\ cancelled \in BOOLEAN  BY Zenon DEF Init
  <2> QED  BY <2>1, <2>2, <2>3, Zenon DEF Init, Starting
<1>2. RpcInv /\ Starting => TypeOK
  <2> SUFFICES ASSUME RpcInv, Starting  PROVE TypeOK
    BY Zenon
  <2>1. asked \in Seq(Agent)
    <3>1. asked = <<>> \/ (mutex \in Agent /\ asked = <<mutex>>)
      BY Zenon DEF RpcInv, WireIsHolders, Quiet, Requested, Replied
    <3>2. <<>> \in Seq(Agent) /\ \A a \in Agent : <<a>> \in Seq(Agent)  OBVIOUS
    <3> QED  BY <3>1, <3>2, Zenon
  <2>2. answered \in Seq(Agent \X Status)
    <3>1. answered = <<>> \/ \E e \in Agent \X Status : answered = <<e>>
      BY Zenon DEF RpcInv, WireIsHolders, Quiet, Requested, Replied
    <3>2. ASSUME NEW S  PROVE <<>> \in Seq(S) /\ \A e \in S : <<e>> \in Seq(S)  OBVIOUS
    <3> QED  BY <3>1, <3>2, Zenon
  <2> QED  BY <2>1, <2>2 DEF RpcInv, Starting, TypeOK, Steps
<1> QED  BY <1>1, <1>2, InitHolds, NextHolds, NextStarting, PTL DEF Spec
=============================================================================
