------------------------ MODULE SshfsRequestsProofs ------------------------
(***************************************************************************)
(* For any number of threads and of lost connections: no request is used   *)
(* after it was freed (RequestInv), none is left behind when the calls are *)
(* over (LeakInv, which builds on RequestInv), and the types.              *)
(***************************************************************************)
EXTENDS SshfsRequests, TLAPS

InUse == {"write", "unsent", "wait", "sem"}
Cleaning == {"clean", "post", "blocked"}
Kind(t) == IF stage[t] = "opened" THEN "open" ELSE stage[t]

\* The variables the argument uses.
Shape ==
  /\ pc \in [Thread -> {"idle", "send", "write", "unsent", "wait", "sem"}]
  /\ stage \in [Thread -> {"none", "simple", "open", "stat", "opened", "close"}]
  /\ req \in [Thread -> Req \cup {None}] /\ open_req \in [Thread -> Req \cup {None}]
  /\ live \subseteq Req /\ answers \in Seq(Req) /\ asked \subseteq Req

\* A thread uses its own requests, and keeps an OPEN while it does LSTAT.
Own ==
  \A t \in Thread :
    /\ pc[t] \in InUse => req[t] = <<t, Kind(t)>> /\ req[t] \in live
    /\ stage[t] = "stat" => open_req[t] = <<t, "open">> /\ open_req[t] \in live
    /\ stage[t] # "stat" => open_req[t] = None
    /\ pc[t] \notin InUse => stage[t] \in {"none", "stat", "close"}
    /\ pc[t] = "idle" <=> stage[t] = "none"
    /\ pc[t] \in {"write", "unsent"} => stage[t] # "opened"

\* The processing thread holds the lock exactly while it cleans up.
Reader ==
  /\ locked <=> reader \in Cleaning
  /\ started <=> reader \in {"read", "deliver"}
  /\ current # None <=> reader \in {"deliver", "post", "blocked"}
  /\ current # None => current \in live
  /\ reader = "deliver" => current \notin reqtab
  /\ reqtab \subseteq live

\* A posted request is out of the processing thread's hands; one with an error
\* is so as soon as the lock is free: why request_free must take it.
Done ==
  /\ \A r \in ready : r \notin reqtab /\ r # current
  /\ ~locked => \A r \in error : r \notin reqtab /\ r # current
  /\ error \cup ready \subseteq live

\* The server cannot answer what was not sent.
Unsent ==
  \A t \in Thread :
    pc[t] \in {"write", "unsent"} =>
      req[t] \notin asked \cup Answered /\ (req[t] = current => reader \in Cleaning)

\* Somebody waits for every request but a CLOSE, and for a CLOSE only if it
\* failed.
Wanted ==
  /\ \A r \in live : r[2] # "close" => r \in want_reply
  /\ \A t \in Thread :
       pc[t] \in {"wait", "sem"} /\ stage[t] = "close" => pc[t] = "wait" /\ req[t] \in error

RequestInv == Shape /\ Own /\ Reader /\ Done /\ Unsent /\ Wanted

----------------------------------------------------------------------------
\* RequestInv holds at first.
LEMMA InitHolds == Init => RequestInv
  BY DEF Init, RequestInv, Shape, Own, Reader, Done, Unsent, Wanted, Answered, InUse, Cleaning

\* A thread's request, allocated or about to be, is one of the four kinds.
LEMMA StageIsKind ==
  ASSUME Shape, Own, NEW t \in Thread
  PROVE  /\ pc[t] \in {"idle", "send"} => <<t, Stage(t)>> \in Req /\ (pc[t] = "send" => Stage(t) = stage[t])
         /\ pc[t] \in {"write", "unsent"} => req[t] = <<t, stage[t]>> /\ req[t] \in Req
  BY RequestAssumption DEF Shape, Own, InUse, Kind, Stage, Req

\* A failed write changes nothing yet.
LEMMA send_failsHolds ==
  ASSUME RequestInv, NEW t \in Thread, send_fails(t)
  PROVE  RequestInv'
<1> USE DEF RequestInv, send_fails, Running
<1>1. Shape'  BY Zenon DEF Shape, Goto, table, wire, calls
<1>2. Own'  BY DEF Own, InUse, Kind, Goto, table, calls
<1>3. Reader'  BY Zenon DEF Reader, table, sshfs
<1>4. Done'  BY Zenon DEF Done, table, flags, sshfs
<1>5. Unsent'  BY DEF Unsent, Answered, Goto, wire, calls
<1>6. Wanted'  BY DEF Wanted, Goto, table, flags, calls
<1> QED  BY <1>1, <1>2, <1>3, <1>4, <1>5, <1>6, Zenon

\* A thread goes to sleep.
LEMMA sem_waitHolds ==
  ASSUME RequestInv, NEW t \in Thread, sem_wait(t)
  PROVE  RequestInv'
<1> USE DEF RequestInv, sem_wait, Running
<1>1. Shape'  BY Zenon DEF Shape, Goto, table, wire, calls
<1>2. Own'  BY DEF Own, InUse, Kind, Goto, table, calls
<1>3. Reader'  BY Zenon DEF Reader, table, sshfs
<1>4. Done'  BY Zenon DEF Done, table, flags, sshfs
<1>5. Unsent'  BY DEF Unsent, Answered, Goto, wire, calls
<1>6. Wanted'  BY DEF Wanted, Goto, table, flags, calls
<1> QED  BY <1>1, <1>2, <1>3, <1>4, <1>5, <1>6, Zenon

\* A new request enters the table: nobody knows it yet.
LEMMA request_sendHolds ==
  ASSUME RequestInv, NEW t \in Thread, request_send(t)
  PROVE  RequestInv'
<1> USE DEF RequestInv, request_send, Running
<1>1. Shape'  BY DEF Shape, Own, InUse, Req, Allocate, Continue, Goto, Stage, wire
<1>2. Own'  BY DEF Shape, Own, InUse, Kind, Allocate, Continue, Goto, Stage
<1>3. Reader'  BY Zenon DEF Reader, Cleaning, Allocate
<1>4. Done'  BY Zenon DEF Done, Allocate, flags
<1>5. Unsent'
  <2>1. /\ <<t, Stage(t)>> \notin live \cup asked \cup Answered
        /\ req' = [req EXCEPT ![t] = <<t, Stage(t)>>] /\ UNCHANGED <<asked, answers, current>>
        /\ \A u \in Thread : u # t => pc'[u] = pc[u] /\ req'[u] = req[u]
        /\ ~locked /\ (reader \in Cleaning => reader' = reader)
    BY Zenon DEF Allocate, wire, Continue, Goto, Shape, Reader, Cleaning
  <2>2. <<t, Stage(t)>> # current  BY <2>1, StageIsKind, RequestAssumption, Zenon DEF Reader, Continue, Goto
  <2>3. Answered' = Answered  BY <2>1, Zenon DEF Answered
  <2> QED  BY <2>1, <2>2, <2>3, Zenon DEF Unsent, Shape
<1>6. Wanted'  BY DEF Wanted, Allocate, Continue, Goto, flags
<1> QED  BY <1>1, <1>2, <1>3, <1>4, <1>5, <1>6, Zenon

\* A new request fails before it is in the table.
LEMMA start_failsHolds ==
  ASSUME RequestInv, NEW t \in Thread, start_fails(t)
  PROVE  RequestInv'
<1> USE DEF RequestInv, start_fails, Running
<1>1. Shape'
  <2>1. Sent(t, {"idle", "send"}, Stage(t), TRUE) /\ live' = live \cup {<<t, Stage(t)>>}
        /\ UNCHANGED <<asked, answers>>
    BY Zenon DEF Allocate, wire
  <2>2. /\ Running /\ pc[t] \in {"idle", "send"}
        /\ \/ /\ Stage(t) = "open"
              /\ pc' = [pc EXCEPT ![t] = "send"] /\ stage' = [stage EXCEPT ![t] = "stat"]
              /\ open_req' = [open_req EXCEPT ![t] = <<t, Stage(t)>>] /\ req' = [req EXCEPT ![t] = None]
           \/ /\ Stage(t) = "close" /\ ~TRUE
              /\ pc' = [pc EXCEPT ![t] = "idle"] /\ stage' = [stage EXCEPT ![t] = "none"]
              /\ open_req' = open_req /\ req' = [req EXCEPT ![t] = None]
           \/ /\ Stage(t) # "open" /\ (Stage(t) = "close" => TRUE)
              /\ pc' = [pc EXCEPT ![t] = "wait"] /\ stage' = [stage EXCEPT ![t] = Stage(t)]
              /\ open_req' = open_req /\ req' = [req EXCEPT ![t] = <<t, Stage(t)>>]
    BY Zenon DEF Sent, Continue, Goto, Drop
  <2>3. <<t, Stage(t)>> \in Req  BY <2>2, StageIsKind, Zenon
  <2>4. Stage(t) \in {"simple", "open", "stat", "close"}  BY <2>3, Zenon DEF Req
  <2> HIDE DEF start_fails
  <2>5. Shape  BY Zenon DEF RequestInv
  <2> HIDE DEF RequestInv
  <2>6. /\ pc' \in [Thread -> {"idle", "send", "write", "unsent", "wait", "sem"}]
        /\ stage' \in [Thread -> {"none", "simple", "open", "stat", "opened", "close"}]
    BY <2>2, <2>4, <2>5 DEF Shape
  <2>7. req' \in [Thread -> Req \cup {None}]
    <3>1. req \in [Thread -> Req \cup {None}]  BY <2>5, Zenon DEF Shape
    <3>2. req' = [req EXCEPT ![t] = None] \/ req' = [req EXCEPT ![t] = <<t, Stage(t)>>]  BY <2>2, Zenon
    <3> QED  BY <2>3, <3>1, <3>2, Zenon
  <2>8. open_req' \in [Thread -> Req \cup {None}]
    <3>1. open_req \in [Thread -> Req \cup {None}]  BY <2>5, Zenon DEF Shape
    <3>2. open_req' = open_req \/ open_req' = [open_req EXCEPT ![t] = <<t, Stage(t)>>]  BY <2>2, Zenon
    <3> QED  BY <2>3, <3>1, <3>2, Zenon
  <2> QED  BY <2>1, <2>3, <2>5, <2>6, <2>7, <2>8, Zenon DEF Shape
<1>2. Own'  BY DEF Shape, Own, InUse, Kind, Allocate, Sent, Continue, Goto, Stage, Drop
<1>3. Reader'  BY Zenon DEF Reader, Allocate, sshfs
<1>4. Done'
  <2>1. /\ <<t, Stage(t)>> \notin live /\ ~locked /\ error' = error \cup {<<t, Stage(t)>>}
        /\ live' = live \cup {<<t, Stage(t)>>}
        /\ UNCHANGED <<reqtab, ready, current, locked>>
    BY Zenon DEF Allocate, sshfs
  <2>2. pc[t] \in {"idle", "send"}  BY Zenon DEF Sent, Continue, Goto
  <2>3. <<t, Stage(t)>> \in Req  BY <2>2, StageIsKind, Zenon
  <2> HIDE DEF start_fails
  <2> QED  BY <2>1, <2>3, RequestAssumption, Zenon DEF Done, Reader
<1>5. Unsent'  BY DEF Shape, Unsent, Answered, Sent, Continue, Goto, Drop, wire
<1>6. Wanted'  BY DEF Shape, Wanted, Allocate, Sent, Continue, Goto, Drop
<1> QED  BY <1>1, <1>2, <1>3, <1>4, <1>5, <1>6, Zenon

\* The server gets a request that it did not have.
LEMMA send_iovHolds ==
  ASSUME RequestInv, NEW t \in Thread, send_iov(t)
  PROVE  RequestInv'
<1> USE DEF RequestInv, send_iov, Running
<1>1. Shape'  BY RequestAssumption, ZenonT(40) DEF Shape, Own, InUse, Kind, Sent, Continue, Goto, Drop, sshfs, table, flags
<1>2. Own'
  <2>1. /\ Running /\ pc[t] \in {"write"}
        /\ \/ /\ stage[t] = "open"
              /\ pc' = [pc EXCEPT ![t] = "send"] /\ stage' = [stage EXCEPT ![t] = "stat"]
              /\ open_req' = [open_req EXCEPT ![t] = <<t, stage[t]>>] /\ req' = [req EXCEPT ![t] = None]
           \/ /\ stage[t] = "close" /\ ~FALSE
              /\ pc' = [pc EXCEPT ![t] = "idle"] /\ stage' = [stage EXCEPT ![t] = "none"]
              /\ open_req' = open_req /\ req' = [req EXCEPT ![t] = None]
           \/ /\ stage[t] # "open" /\ (stage[t] = "close" => FALSE)
              /\ pc' = [pc EXCEPT ![t] = "wait"] /\ stage' = [stage EXCEPT ![t] = stage[t]]
              /\ open_req' = open_req /\ req' = [req EXCEPT ![t] = <<t, stage[t]>>]
    BY Zenon DEF Sent, Continue, Goto, Drop
  <2>2. pc[t] \in {"write"} /\ req[t] = <<t, stage[t]>> /\ req[t] \in live
    BY <2>1, StageIsKind, Zenon DEF Own, InUse
  <2>3. \A u \in Thread : u # t => /\ pc'[u] = pc[u] /\ stage'[u] = stage[u]
                                   /\ req'[u] = req[u] /\ open_req'[u] = open_req[u]
    BY <2>1, Zenon DEF Shape
  <2>4. /\ pc'[t] \in InUse => req'[t] = <<t, Kind(t)'>> /\ req'[t] \in live
        /\ stage'[t] = "stat" => open_req'[t] = <<t, "open">> /\ open_req'[t] \in live
        /\ stage'[t] # "stat" => open_req'[t] = None
        /\ pc'[t] \notin InUse => stage'[t] \in {"none", "stat", "close"}
        /\ pc'[t] = "idle" <=> stage'[t] = "none"
        /\ pc'[t] \in {"write", "unsent"} => stage'[t] # "opened"
    <3>1. stage[t] # "stat" => open_req[t] = None  BY Zenon DEF Own
    <3>2. stage[t] = "stat" => open_req[t] = <<t, "open">> /\ open_req[t] \in live  BY Zenon DEF Own
    <3>3. stage[t] \notin {"none", "opened"}  BY <2>2, Zenon DEF Own
    <3> QED  BY <2>1, <2>2, <3>1, <3>2, <3>3, Zenon DEF Shape, InUse, Kind
  <2>5. live' = live  BY Zenon DEF table
  <2> QED  BY <2>3, <2>4, <2>5 DEF Own, Kind
<1>3. Reader'  BY Zenon DEF Reader, sshfs, table
<1>4. Done'  BY Zenon DEF Done, sshfs, table, flags
<1>5. Unsent'  BY DEF Shape, Own, Unsent, InUse, Answered, Sent, Continue, Goto, Drop
<1>6. Wanted'  BY DEF Shape, Wanted, Sent, Continue, Goto, Drop, table, flags
<1> QED  BY <1>1, <1>2, <1>3, <1>4, <1>5, <1>6, Zenon

\* A request that was not sent leaves the table with an error.
LEMMA unsendHolds ==
  ASSUME RequestInv, NEW t \in Thread, unsend(t)
  PROVE  RequestInv'
<1> USE DEF RequestInv, unsend, Running
<1>1. Shape'  BY RequestAssumption DEF Shape, Own, InUse, Req, Sent, Continue, Goto, Drop, wire
<1>2. Own'
  <2>1. /\ Running /\ pc[t] \in {"unsent"}
        /\ \/ /\ stage[t] = "open"
              /\ pc' = [pc EXCEPT ![t] = "send"] /\ stage' = [stage EXCEPT ![t] = "stat"]
              /\ open_req' = [open_req EXCEPT ![t] = <<t, stage[t]>>] /\ req' = [req EXCEPT ![t] = None]
           \/ /\ stage[t] = "close" /\ ~(req[t] \in reqtab \cup want_reply)
              /\ pc' = [pc EXCEPT ![t] = "idle"] /\ stage' = [stage EXCEPT ![t] = "none"]
              /\ open_req' = open_req /\ req' = [req EXCEPT ![t] = None]
           \/ /\ stage[t] # "open" /\ (stage[t] = "close" => (req[t] \in reqtab \cup want_reply))
              /\ pc' = [pc EXCEPT ![t] = "wait"] /\ stage' = [stage EXCEPT ![t] = stage[t]]
              /\ open_req' = open_req /\ req' = [req EXCEPT ![t] = <<t, stage[t]>>]
    BY Zenon DEF Sent, Continue, Goto, Drop
  <2>2. pc[t] \in {"unsent"} /\ req[t] = <<t, stage[t]>> /\ req[t] \in live
    BY <2>1, StageIsKind, Zenon DEF Own, InUse
  <2>3. \A u \in Thread : u # t => /\ pc'[u] = pc[u] /\ stage'[u] = stage[u]
                                   /\ req'[u] = req[u] /\ open_req'[u] = open_req[u]
    BY <2>1, Zenon DEF Shape
  <2>4. /\ pc'[t] \in InUse => req'[t] = <<t, Kind(t)'>> /\ req'[t] \in live
        /\ stage'[t] = "stat" => open_req'[t] = <<t, "open">> /\ open_req'[t] \in live
        /\ stage'[t] # "stat" => open_req'[t] = None
        /\ pc'[t] \notin InUse => stage'[t] \in {"none", "stat", "close"}
        /\ pc'[t] = "idle" <=> stage'[t] = "none"
        /\ pc'[t] \in {"write", "unsent"} => stage'[t] # "opened"
    <3>1. stage[t] # "stat" => open_req[t] = None  BY Zenon DEF Own
    <3>2. stage[t] = "stat" => open_req[t] = <<t, "open">> /\ open_req[t] \in live  BY Zenon DEF Own
    <3>3. stage[t] \notin {"none", "opened"}  BY <2>2, Zenon DEF Own
    <3> QED  BY <2>1, <2>2, <3>1, <3>2, <3>3, Zenon DEF Shape, InUse, Kind
  <2>5. live' = live  BY Zenon DEF table
  <2> QED  BY <2>3, <2>4, <2>5 DEF Own, Kind
<1>3. Reader'  BY Zenon DEF Reader, sshfs
<1>4. Done'  BY Zenon DEF Own, Reader, Done, InUse, Unsent, Sent, Continue, Goto
<1>5. Unsent'  BY DEF Shape, Unsent, Answered, Sent, Continue, Goto, Drop, wire
<1>6. Wanted'
  <2>1. /\ Running /\ pc[t] \in {"unsent"}
        /\ \/ /\ stage[t] = "open"
              /\ pc' = [pc EXCEPT ![t] = "send"] /\ stage' = [stage EXCEPT ![t] = "stat"]
              /\ open_req' = [open_req EXCEPT ![t] = <<t, stage[t]>>] /\ req' = [req EXCEPT ![t] = None]
           \/ /\ stage[t] = "close" /\ ~(req[t] \in reqtab \cup want_reply)
              /\ pc' = [pc EXCEPT ![t] = "idle"] /\ stage' = [stage EXCEPT ![t] = "none"]
              /\ open_req' = open_req /\ req' = [req EXCEPT ![t] = None]
           \/ /\ stage[t] # "open" /\ (stage[t] = "close" => (req[t] \in reqtab \cup want_reply))
              /\ pc' = [pc EXCEPT ![t] = "wait"] /\ stage' = [stage EXCEPT ![t] = stage[t]]
              /\ open_req' = open_req /\ req' = [req EXCEPT ![t] = <<t, stage[t]>>]
    BY Zenon DEF Sent, Continue, Goto, Drop
  <2>2. pc[t] = "unsent" /\ req[t] = <<t, stage[t]>> /\ req[t] \in live
    BY <2>1, StageIsKind, Zenon DEF Own, InUse
  <2>3. UNCHANGED <<live, want_reply>> /\ error \subseteq error'  BY Zenon
  <2>4. ASSUME NEW u \in Thread, pc'[u] \in {"wait", "sem"}, stage'[u] = "close"
        PROVE  pc'[u] = "wait" /\ req'[u] \in error'
    <3>1. CASE u = t  BY <2>1, <2>2, <2>4, <3>1, Zenon DEF Shape
    <3>2. CASE u # t
      <4>1. pc'[u] = pc[u] /\ stage'[u] = stage[u] /\ req'[u] = req[u]  BY <2>1, <3>2, Zenon DEF Shape
      <4> QED  BY <2>3, <2>4, <4>1, Zenon DEF Wanted
    <3> QED  BY <3>1, <3>2, Zenon
  <2> QED  BY <2>3, <2>4, Zenon DEF Wanted
<1> QED  BY <1>1, <1>2, <1>3, <1>4, <1>5, <1>6, Zenon

\* The lock is free, so the request is out of the processing thread's hands.
LEMMA request_waitHolds ==
  ASSUME RequestInv, NEW t \in Thread, request_wait(t)
  PROVE  RequestInv'
<1> USE DEF RequestInv, request_wait, Running
<1>1. Shape'
  <2>1. pc[t] \in InUse /\ open_req[t] \in Req \cup {None}  BY Zenon DEF Shape, InUse
  <2>2. CASE stage[t] = "stat"  BY <2>1, <2>2, Zenon DEF Shape, After, Free, Continue, Goto, Drop
  <2>3. CASE stage[t] # "stat"  BY <2>1, <2>3, Zenon DEF Shape, After, Free, Continue, Goto, Drop
  <2> QED  BY <2>2, <2>3, Zenon
<1>2. Own'  BY DEF Shape, Own, Wanted, InUse, Kind, After, Free, Continue, Goto, Drop
<1>3. Reader'  BY Zenon DEF Reader, Done, Free, sshfs
<1>4. Done'  BY Zenon DEF Done, Free
<1>5. Unsent'  BY DEF Shape, Unsent, Answered, After, Continue, Goto, Drop
<1>6. Wanted'  BY DEF Shape, Own, Wanted, InUse, After, Free, Continue, Goto, Drop
<1> QED  BY <1>1, <1>2, <1>3, <1>4, <1>5, <1>6, Zenon

\* The lookup takes the request out of the table.
LEMMA process_one_requestHolds ==
  ASSUME RequestInv, process_one_request
  PROVE  RequestInv'
<1> USE DEF RequestInv, process_one_request, Running
<1>1. Shape'  BY DEF Shape, calls
<1>2. Own'  BY Zenon DEF Own, Kind, calls
<1>3. Reader'  BY RequestAssumption, Zenon DEF Shape, Reader, Cleaning, sshfs
<1>4. Done'  BY Zenon DEF Done, sshfs, flags
<1>5. Unsent'  BY DEF Shape, Unsent, Answered, calls
<1>6. Wanted'  BY Zenon DEF Wanted, flags, calls
<1> QED  BY <1>1, <1>2, <1>3, <1>4, <1>5, <1>6, Zenon

\* The processing thread lets go of the request, or frees a CLOSE nobody holds.
LEMMA deliverHolds ==
  ASSUME RequestInv, deliver
  PROVE  RequestInv'
<1> USE DEF RequestInv, deliver, Running
<1>1. Shape'  BY Zenon DEF Shape, Free, calls
<1>2. Own'  BY DEF Own, Done, Unsent, Wanted, Reader, Cleaning, InUse, Kind, Free, sshfs, calls
<1>3. Reader'  BY Zenon DEF Reader, Cleaning, Free, sshfs
<1>4. Done'  BY RequestAssumption DEF Shape, Reader, Done, Free, sshfs
<1>5. Unsent'  BY RequestAssumption DEF Shape, Own, Unsent, InUse, Answered, calls
<1>6. Wanted'  BY RequestAssumption, Zenon DEF Wanted, Done, Reader, Cleaning, Free, calls
<1> QED  BY <1>1, <1>2, <1>3, <1>4, <1>5, <1>6, Zenon

\* The clean-up begins.
LEMMA read_failsHolds ==
  ASSUME RequestInv, read_fails
  PROVE  RequestInv'
<1> USE DEF RequestInv, read_fails, Running
<1>1. Shape'  BY DEF Shape, table, calls
<1>2. Own'  BY Zenon DEF Own, Kind, table, calls
<1>3. Reader'  BY Zenon DEF Reader, Cleaning, table
<1>4. Done'  BY Zenon DEF Done, table, flags
<1>5. Unsent'  BY DEF Unsent, Cleaning, Answered, calls
<1>6. Wanted'  BY Zenon DEF Wanted, table, flags, calls
<1> QED  BY <1>1, <1>2, <1>3, <1>4, <1>5, <1>6, Zenon

\* The error is set under the lock.
LEMMA clean_reqHolds ==
  ASSUME RequestInv, clean_req
  PROVE  RequestInv'
<1> USE DEF RequestInv, clean_req, Running
<1>1. Shape'  BY Zenon DEF Shape, table, wire, calls
<1>2. Own'  BY Zenon DEF Own, Kind, table, calls
<1>3. Reader'  BY RequestAssumption, Zenon DEF Shape, Reader, Cleaning, sshfs, table
<1>4. Done'  BY Zenon DEF Reader, Done, Cleaning, sshfs, table
<1>5. Unsent'  BY Zenon DEF Unsent, Cleaning, Answered, wire, calls
<1>6. Wanted'  BY Zenon DEF Wanted, table, calls
<1> QED  BY <1>1, <1>2, <1>3, <1>4, <1>5, <1>6, Zenon

\* The request leaves the table; the semaphore is posted last.
LEMMA clean_postHolds ==
  ASSUME RequestInv, clean_post
  PROVE  RequestInv'
<1> USE DEF RequestInv, clean_post, Running
<1>1. Shape'  BY Zenon DEF Shape, wire, calls
<1>2. Own'  BY Zenon DEF Own, Kind, calls
<1>3. Reader'  BY DEF Reader, Cleaning, sshfs
<1>4. Done'  BY RequestAssumption, Zenon DEF Shape, Reader, Done, sshfs
<1>5. Unsent'  BY DEF Shape, Unsent, Cleaning, Answered, wire, calls
<1>6. Wanted'  BY Zenon DEF Wanted, calls
<1> QED  BY <1>1, <1>2, <1>3, <1>4, <1>5, <1>6, Zenon

\* The table is empty when the lock is given back.
LEMMA clean_doneHolds ==
  ASSUME RequestInv, clean_done
  PROVE  RequestInv'
<1> USE DEF RequestInv, clean_done, Running
<1>1. Shape'  BY Zenon DEF Shape, table, wire, calls
<1>2. Own'  BY Zenon DEF Own, Kind, table, calls
<1>3. Reader'  BY Zenon DEF Reader, Cleaning, table
<1>4. Done'  BY RequestAssumption, Zenon DEF Shape, Reader, Done, table, flags
<1>5. Unsent'  BY RequestAssumption DEF Shape, Own, Reader, Unsent, InUse, Answered, Kind, table, wire, calls
<1>6. Wanted'  BY Zenon DEF Wanted, table, flags, calls
<1> QED  BY <1>1, <1>2, <1>3, <1>4, <1>5, <1>6, Zenon

\* The server answers what it was asked.
LEMMA serverHolds ==
  ASSUME RequestInv, NEW r \in Req, server(r)
  PROVE  RequestInv'
<1> USE DEF RequestInv, server, sshfs, table, flags, calls
<1>1. Answered' = Answered \cup {r}
  <2>1. answers \in Seq(Req) /\ answers' = Append(answers, r)  BY Zenon DEF Shape
  <2>2. Answered' = Answered \cup {r}
    <3> HIDE DEF RequestInv, server, sshfs, table, flags, calls
    <3>1. /\ DOMAIN answers' = DOMAIN answers \cup {Len(answers) + 1}
          /\ answers'[Len(answers) + 1] = r /\ \A i \in DOMAIN answers : answers'[i] = answers[i]
      BY <2>1
    <3> QED  BY <3>1, ZenonT(60) DEF Answered
  <2> QED  BY <2>2, Zenon
<1>2. Shape'  BY DEF Shape
<1>3. Own'  BY Zenon DEF Own, Kind
<1>4. Reader' /\ Done'  BY Zenon DEF Reader, Done
<1>5. Unsent'  BY <1>1, Zenon DEF Unsent
<1>6. Wanted'  BY Zenon DEF Wanted
<1> QED  BY <1>2, <1>3, <1>4, <1>5, <1>6, Zenon

\* Every step preserves RequestInv.
LEMMA StepHolds == RequestInv /\ [Next]_vars => RequestInv'
<1> SUFFICES ASSUME RequestInv, [Next]_vars  PROVE RequestInv'
  BY Zenon
<1>1. ASSUME NEW t \in Thread, ThreadStep(t)  PROVE RequestInv'
  BY <1>1, send_failsHolds, sem_waitHolds, request_sendHolds, start_failsHolds, send_iovHolds,
     unsendHolds, request_waitHolds, Zenon DEF ThreadStep
<1>2. CASE ReaderStep
  BY <1>2, process_one_requestHolds, deliverHolds, read_failsHolds, clean_reqHolds, clean_postHolds,
     clean_doneHolds, Zenon DEF ReaderStep
<1>3. ASSUME NEW r \in Req, server(r)  PROVE RequestInv'
  BY <1>3, serverHolds, Zenon
<1>4. CASE sigterm \/ lose \/ UNCHANGED vars
  <2>1. /\ UNCHANGED <<started, locked, reader, current, table, flags, answers, pc, calls>>
        /\ asked' \subseteq asked
    BY <1>4, Zenon DEF sigterm, lose, vars, sshfs, wire
  <2> QED
    BY <2>1 DEF RequestInv, Shape, Own, Reader, Done, Unsent, Wanted, Answered, Kind, table, flags, calls
<1> QED  BY <1>1, <1>2, <1>3, <1>4, Zenon DEF Next

\* No thread of the program and not the processing thread uses a request after
\* request_free, for any number of threads, calls and lost connections.
THEOREM RequestsOutliveUse == Spec => []NoUseAfterFree
<1>1. RequestInv => NoUseAfterFree
  BY DEF RequestInv, Own, Reader, NoUseAfterFree, HeldBy, InUse
<1> QED  BY InitHolds, StepHolds, <1>1, PTL DEF Spec

----------------------------------------------------------------------------
Kinds == {"simple", "open", "stat", "close"}
Writing == {"write", "unsent"}

\* Every request has somebody who will free it: the thread that uses it or,
\* for a CLOSE, the processing thread that will find it in the table.
Accounted ==
  \A t \in Thread, k \in Kinds :
    <<t, k>> \in live => \/ <<t, k>> \in HeldBy(t)
                         \/ k = "close" /\ <<t, k>> \in reqtab \cup {current}

\* Nobody waits for a CLOSE, so that one stays in the table until it is sent.
CloseListed ==
  /\ \A t \in Thread : <<t, "close">> \notin want_reply
  /\ \A t \in Thread : pc[t] \in Writing /\ stage[t] = "close" => req[t] \in reqtab

\* What is in the table is being sent, or will be answered or cleaned up.
Outstanding ==
  /\ reader = "none" => reqtab = {}
  /\ \A t \in Thread, k \in Kinds : <<t, k>> \in reqtab =>
       \/ conn = "lost" \/ reader \in Cleaning
       \/ <<t, k>> \in asked \cup Answered
       \/ pc[t] \in Writing /\ req[t] = <<t, k>>

LeakInv == Accounted /\ CloseListed /\ Outstanding

\* LeakInv holds at first.
LEMMA InitLeak == Init => LeakInv
  BY Zenon DEF Init, LeakInv, Accounted, CloseListed, Outstanding, Writing

\* A step of thread t, as the others see it.
OnlyThread(t) ==
  /\ \A u \in Thread : u # t => /\ pc'[u] = pc[u] /\ req'[u] = req[u]
                                /\ open_req'[u] = open_req[u] /\ stage'[u] = stage[u]
  /\ current' = current
  /\ \A u \in Thread, k \in Kinds :
       u # t => /\ <<u, k>> \in live' => <<u, k>> \in live
                /\ <<u, k>> \in reqtab' <=> <<u, k>> \in reqtab
                /\ <<u, k>> \in want_reply' => <<u, k>> \in want_reply
                /\ <<u, k>> \in asked \cup Answered => <<u, k>> \in (asked \cup Answered)'

\* A step of thread t has to be examined for t only.
LEMMA ThreadLeak ==
  ASSUME RequestInv, LeakInv, NEW t \in Thread, OnlyThread(t),
         conn = "lost" => conn' = "lost", reader \in Cleaning => reader' = reader,
         reader' = "none" => reader = "none" /\ reqtab' \subseteq reqtab,
         \A k \in Kinds : <<t, k>> \in live' =>
           <<t, k>> \in HeldBy(t)' \/ (k = "close" /\ <<t, k>> \in reqtab' \cup {current}),
         <<t, "close">> \notin want_reply',
         pc'[t] \in Writing /\ stage'[t] = "close" => req'[t] \in reqtab',
         \A k \in Kinds : <<t, k>> \in reqtab' =>
           \/ conn' = "lost" \/ reader' \in Cleaning
           \/ <<t, k>> \in (asked \cup Answered)'
           \/ pc'[t] \in Writing /\ req'[t] = <<t, k>>
  PROVE  LeakInv'
<1>1. Accounted'
  <2> SUFFICES ASSUME NEW u \in Thread, NEW k \in Kinds, <<u, k>> \in live', u # t
               PROVE  <<u, k>> \in HeldBy(u)' \/ (k = "close" /\ <<u, k>> \in reqtab' \cup {current'})
    BY Zenon DEF Accounted, OnlyThread
  <2>1. HeldBy(u)' = HeldBy(u)  BY Zenon DEF HeldBy, OnlyThread
  <2> QED  BY <2>1, Zenon DEF LeakInv, Accounted, OnlyThread
<1>2. CloseListed'
  <2>1. "close" \in Kinds  BY Zenon DEF Kinds
  <2>2. ASSUME NEW u \in Thread, u # t, pc'[u] \in Writing, stage'[u] = "close"  PROVE req'[u] \in reqtab'
    <3>1. pc[u] \in Writing /\ stage[u] = "close" /\ req'[u] = req[u]  BY <2>2, Zenon DEF OnlyThread
    <3>2. req[u] = <<u, "close">> /\ req[u] \in reqtab
      BY <3>1, Zenon DEF RequestInv, Own, InUse, Kind, Writing, LeakInv, CloseListed
    <3> QED  BY <2>1, <2>2, <3>1, <3>2, Zenon DEF OnlyThread
  <2> QED  BY <2>1, <2>2, Zenon DEF LeakInv, CloseListed, OnlyThread
<1>3. Outstanding'
  <2>1. reader' = "none" => reqtab' = {}  BY Zenon DEF LeakInv, Outstanding
  <2>2. ASSUME NEW u \in Thread, NEW k \in Kinds, <<u, k>> \in reqtab', u # t
        PROVE  \/ conn' = "lost" \/ reader' \in Cleaning
               \/ <<u, k>> \in (asked \cup Answered)'
               \/ pc'[u] \in Writing /\ req'[u] = <<u, k>>
    BY <2>2 DEF OnlyThread, LeakInv, Outstanding
  <2> QED  BY <2>1, <2>2, Zenon DEF Outstanding
<1> QED  BY <1>1, <1>2, <1>3, Zenon DEF LeakInv

\* The kinds are those of Req.
LEMMA ReqKinds == \A t \in Thread, k \in Kinds : <<t, k>> \in Req /\ <<t, k>> # None
  BY RequestAssumption DEF Req, Kinds

\* A failed write, and going to sleep, change nothing but the place.
LEMMA PlaceLeak ==
  ASSUME RequestInv, LeakInv, NEW t \in Thread, send_fails(t) \/ sem_wait(t)
  PROVE  LeakInv'
<1>1. /\ UNCHANGED <<conn, reader, current, live, reqtab, want_reply, asked, answers, stage, req, open_req>>
      /\ (pc[t] = "write" /\ pc' = [pc EXCEPT ![t] = "unsent"]) \/ (pc[t] = "wait" /\ pc' = [pc EXCEPT ![t] = "sem"])
  BY Zenon DEF send_fails, sem_wait, Goto, sshfs, table, wire, calls
<1>2. Answered' = Answered  BY <1>1, Zenon DEF Answered
<1>3. /\ \A u \in Thread : u # t => pc'[u] = pc[u]
      /\ pc'[t] \in InUse /\ pc[t] \in InUse
      /\ pc'[t] \in Writing <=> pc[t] \in Writing
  BY <1>1, Zenon DEF RequestInv, Shape, InUse, Writing
<1>4. \A u \in Thread : HeldBy(u)' = HeldBy(u)
  BY <1>1, <1>3, Zenon DEF HeldBy, InUse
<1>5. \A u \in Thread : pc'[u] \in Writing <=> pc[u] \in Writing
  BY <1>3, Zenon
<1>6. Accounted'  BY <1>1, <1>4, Zenon DEF LeakInv, Accounted
<1>7. CloseListed'  BY <1>1, <1>5, Zenon DEF LeakInv, CloseListed
<1>8. Outstanding'  BY <1>1, <1>2, <1>5, Zenon DEF LeakInv, Outstanding
<1> QED  BY <1>6, <1>7, <1>8, Zenon DEF LeakInv

\* A new request is in the hands of its thread and in the table.
LEMMA request_sendLeak ==
  ASSUME RequestInv, LeakInv, NEW t \in Thread, request_send(t)
  PROVE  LeakInv'
<1> DEFINE r == <<t, Stage(t)>>
<1>1. /\ pc[t] \in {"idle", "send"} /\ pc' = [pc EXCEPT ![t] = "write"]
      /\ stage' = [stage EXCEPT ![t] = Stage(t)] /\ req' = [req EXCEPT ![t] = r]
      /\ reqtab' = reqtab \cup {r} /\ live' = live \cup {r}
      /\ want_reply' = IF Stage(t) = "close" THEN want_reply ELSE want_reply \cup {r}
      /\ UNCHANGED <<current, asked, answers, open_req>>
  BY Zenon DEF request_send, Allocate, Continue, Goto, wire
<1>2. r \in Req /\ Stage(t) \in Kinds
  BY <1>1, StageIsKind, Zenon DEF RequestInv, Req, Kinds
<1>3. Answered' = Answered  BY <1>1, Zenon DEF Answered
<1>4. pc'[t] = "write" /\ stage'[t] = Stage(t) /\ req'[t] = r /\ open_req'[t] = open_req[t]
  BY <1>1, Zenon DEF RequestInv, Shape
<1>5. OnlyThread(t)
  BY <1>1, <1>3, Zenon DEF OnlyThread, RequestInv, Shape
<1>6. /\ conn = "lost" => conn' = "lost"
      /\ reader \in Cleaning => reader' = reader
      /\ reader' # "none"
  BY Zenon DEF request_send, RequestInv, Reader, Cleaning, Allocate
<1>7. ASSUME NEW k \in Kinds, <<t, k>> \in live'
      PROVE  <<t, k>> \in HeldBy(t)' \/ (k = "close" /\ <<t, k>> \in reqtab' \cup {current})
  <2>1. CASE <<t, k>> = r  BY <1>4, <2>1, Zenon DEF HeldBy
  <2>2. CASE <<t, k>> # r
    <3>1. <<t, k>> \in live  BY <1>1, <1>7, <2>2, Zenon
    <3>2. <<t, k>> \in HeldBy(t) => <<t, k>> \in {open_req[t]} \ {None}  BY <1>1, Zenon DEF HeldBy
    <3>3. <<t, k>> \in {open_req[t]} \ {None} => <<t, k>> \in HeldBy(t)'  BY <1>4, Zenon DEF HeldBy
    <3> QED  BY <1>1, <3>1, <3>2, <3>3, Zenon DEF LeakInv, Accounted
  <2> QED  BY <2>1, <2>2, Zenon
<1>8. <<t, "close">> \notin want_reply'
  BY <1>1, Zenon DEF LeakInv, CloseListed
<1>9. ASSUME NEW k \in Kinds, <<t, k>> \in reqtab'
      PROVE  \/ conn' = "lost" \/ reader' \in Cleaning
             \/ <<t, k>> \in (asked \cup Answered)'
             \/ pc'[t] \in Writing /\ req'[t] = <<t, k>>
  <2>1. CASE <<t, k>> = r  BY <1>4, <2>1, Zenon DEF Writing
  <2>2. CASE <<t, k>> # r
    <3>1. <<t, k>> \in reqtab /\ pc[t] \notin Writing  BY <1>1, <1>9, <2>2, Zenon DEF Writing
    <3> QED  BY <1>1, <1>3, <1>6, <3>1, Zenon DEF LeakInv, Outstanding
  <2> QED  BY <2>1, <2>2, Zenon
<1>10. req'[t] \in reqtab'  BY <1>1, <1>4
<1> HIDE DEF r
<1> QED  BY <1>5, <1>6, <1>7, <1>8, <1>9, <1>10, ThreadLeak, Zenon


\* A new request that was not sent stays in the hands of its thread.
LEMMA start_failsLeak ==
  ASSUME RequestInv, LeakInv, NEW t \in Thread, start_fails(t)
  PROVE  LeakInv'
<1> DEFINE s == Stage(t)
<1> DEFINE r == <<t, s>>
<1>1. /\ live' = live \cup {r}
      /\ want_reply' = IF s = "close" THEN want_reply ELSE want_reply \cup {r}
      /\ Sent(t, {"idle", "send"}, s, TRUE)
      /\ UNCHANGED <<conn, reader, current, reqtab, asked, answers>>
  BY Zenon DEF start_fails, Allocate, sshfs, wire
<1> HIDE DEF s
<1>2. /\ pc[t] \in {"idle", "send"}
      /\ \/ /\ s = "open"
            /\ pc' = [pc EXCEPT ![t] = "send"] /\ stage' = [stage EXCEPT ![t] = "stat"]
            /\ open_req' = [open_req EXCEPT ![t] = <<t, s>>] /\ req' = [req EXCEPT ![t] = None]
         \/ /\ s # "open"
            /\ pc' = [pc EXCEPT ![t] = "wait"] /\ stage' = [stage EXCEPT ![t] = s]
            /\ open_req' = open_req /\ req' = [req EXCEPT ![t] = <<t, s>>]
  BY <1>1, Zenon DEF Sent, Continue, Goto, Drop
<1>3. r \in Req /\ s \in Kinds /\ r # None
  BY <1>2, StageIsKind, RequestAssumption, Zenon DEF RequestInv, Req, Kinds, s
<1>4. Answered' = Answered  BY <1>1, Zenon DEF Answered
<1>5. OnlyThread(t)
  BY <1>1, <1>2, <1>4, Zenon DEF OnlyThread, RequestInv, Shape
<1>6. /\ pc'[t] \notin Writing /\ pc[t] \notin Writing
      /\ r \in HeldBy(t)'
      /\ open_req[t] # None => open_req'[t] = open_req[t]
  <2>1. s = "open" => open_req[t] = None
    BY <1>2, Zenon DEF RequestInv, Shape, Own, Stage, InUse, s
  <2>2. /\ (s = "open" /\ pc'[t] = "send" /\ open_req'[t] = r)
           \/ (s # "open" /\ pc'[t] = "wait" /\ open_req'[t] = open_req[t] /\ req'[t] = r)
    BY <1>2, Zenon DEF RequestInv, Shape
  <2> QED  BY <1>2, <1>3, <2>1, <2>2, Zenon DEF HeldBy, Writing
<1>7. ASSUME NEW k \in Kinds, <<t, k>> \in live'
      PROVE  <<t, k>> \in HeldBy(t)' \/ (k = "close" /\ <<t, k>> \in reqtab' \cup {current})
  <2>1. CASE <<t, k>> = r  BY <1>6, <2>1, Zenon
  <2>2. CASE <<t, k>> # r
    <3>1. <<t, k>> \in live  BY <1>1, <1>7, <2>2, Zenon
    <3>2. <<t, k>> \in HeldBy(t) => <<t, k>> \in {open_req[t]} \ {None}  BY <1>2, Zenon DEF HeldBy
    <3>3. <<t, k>> \in {open_req[t]} \ {None} => <<t, k>> \in HeldBy(t)'  BY <1>6, Zenon DEF HeldBy
    <3> QED  BY <1>1, <3>1, <3>2, <3>3, Zenon DEF LeakInv, Accounted
  <2> QED  BY <2>1, <2>2, Zenon
<1>8. <<t, "close">> \notin want_reply'
  BY <1>1, Zenon DEF LeakInv, CloseListed
<1>9. ASSUME NEW k \in Kinds, <<t, k>> \in reqtab'
      PROVE  \/ conn' = "lost" \/ reader' \in Cleaning
             \/ <<t, k>> \in (asked \cup Answered)'
             \/ pc'[t] \in Writing /\ req'[t] = <<t, k>>
  BY <1>1, <1>4, <1>6, <1>9, Zenon DEF LeakInv, Outstanding
<1> QED  BY <1>1, <1>5, <1>6, <1>7, <1>8, <1>9, ThreadLeak, Zenon

\* What was sent is in the table and with the server, or the connection is lost.
LEMMA send_iovLeak ==
  ASSUME TypeOK, RequestInv, LeakInv, NEW t \in Thread, send_iov(t)
  PROVE  LeakInv'
<1> DEFINE s == stage[t]
<1>1. /\ conn # "closed" /\ Sent(t, {"write"}, s, FALSE)
      /\ asked' = IF conn = "open" THEN asked \cup {req[t]} ELSE asked
      /\ UNCHANGED <<conn, reader, current, live, reqtab, want_reply, answers>>
  BY Zenon DEF send_iov, sshfs, table
<1> HIDE DEF s
<1>2. /\ pc[t] \in {"write"}
      /\ \/ /\ s = "open"
            /\ pc' = [pc EXCEPT ![t] = "send"] /\ stage' = [stage EXCEPT ![t] = "stat"]
            /\ open_req' = [open_req EXCEPT ![t] = <<t, s>>] /\ req' = [req EXCEPT ![t] = None]
         \/ /\ s = "close"
            /\ pc' = [pc EXCEPT ![t] = "idle"] /\ stage' = [stage EXCEPT ![t] = "none"]
            /\ open_req' = open_req /\ req' = [req EXCEPT ![t] = None]
         \/ /\ s # "open" /\ s # "close"
            /\ pc' = [pc EXCEPT ![t] = "wait"] /\ stage' = [stage EXCEPT ![t] = s]
            /\ open_req' = open_req /\ req' = [req EXCEPT ![t] = <<t, s>>]
  BY <1>1, Zenon DEF Sent, Continue, Goto, Drop
<1>3. req[t] = <<t, s>> /\ req[t] \in Req /\ req[t] # None
  BY <1>2, StageIsKind, RequestAssumption, Zenon DEF RequestInv, s
<1>4. Answered' = Answered  BY <1>1, Zenon DEF Answered
<1>5. OnlyThread(t)
  BY <1>1, <1>2, <1>3, <1>4, Zenon DEF OnlyThread, RequestInv, Shape
<1>6. /\ pc'[t] \notin Writing
      /\ s # "close" => req[t] \in HeldBy(t)'
      /\ s = "close" => req[t] \in reqtab
      /\ open_req[t] # None => open_req'[t] = open_req[t]
  <2>1. s = "open" => open_req[t] = None
    BY Zenon DEF RequestInv, Own, s
  <2>2. \/ (s = "open" /\ pc'[t] = "send" /\ open_req'[t] = req[t])
        \/ (s = "close" /\ pc'[t] = "idle" /\ open_req'[t] = open_req[t])
        \/ (s # "open" /\ s # "close" /\ pc'[t] = "wait" /\ open_req'[t] = open_req[t] /\ req'[t] = req[t])
    BY <1>2, <1>3, Zenon DEF RequestInv, Shape
  <2>3. s = "close" => req[t] \in reqtab  BY <1>2, Zenon DEF LeakInv, CloseListed, Writing, s
  <2> QED  BY <1>2, <1>3, <2>1, <2>2, <2>3, Zenon DEF HeldBy, Writing
<1>7. ASSUME NEW k \in Kinds, <<t, k>> \in live'
      PROVE  <<t, k>> \in HeldBy(t)' \/ (k = "close" /\ <<t, k>> \in reqtab' \cup {current})
  <2>1. CASE <<t, k>> = req[t]  BY <1>1, <1>3, <1>6, <2>1
  <2>2. CASE <<t, k>> # req[t]
    <3>1. <<t, k>> \in live  BY <1>1, <1>7, <2>2, Zenon
    <3>2. <<t, k>> \in HeldBy(t) => <<t, k>> \in {open_req[t]} \ {None}  BY <2>2, Zenon DEF HeldBy
    <3>3. <<t, k>> \in {open_req[t]} \ {None} => <<t, k>> \in HeldBy(t)'  BY <1>6, Zenon DEF HeldBy
    <3> QED  BY <1>1, <3>1, <3>2, <3>3, Zenon DEF LeakInv, Accounted
  <2> QED  BY <2>1, <2>2, Zenon
<1>8. <<t, "close">> \notin want_reply'
  BY <1>1, Zenon DEF LeakInv, CloseListed
<1>9. ASSUME NEW k \in Kinds, <<t, k>> \in reqtab'
      PROVE  \/ conn' = "lost" \/ reader' \in Cleaning
             \/ <<t, k>> \in (asked \cup Answered)'
             \/ pc'[t] \in Writing /\ req'[t] = <<t, k>>
  <2>1. conn \in {"open", "lost", "closed"}  BY Zenon DEF TypeOK
  <2> QED  BY <1>1, <1>4, <1>9, <2>1, Zenon DEF LeakInv, Outstanding
<1> QED  BY <1>1, <1>5, <1>6, <1>7, <1>8, <1>9, ThreadLeak, Zenon


\* A request that could not be sent leaves the table and stays with its thread,
\* a CLOSE too: it was in the table, so nobody else has freed it.
LEMMA unsendLeak ==
  ASSUME RequestInv, LeakInv, NEW t \in Thread, unsend(t)
  PROVE  LeakInv'
<1> DEFINE s == stage[t]
<1> DEFINE f == req[t] \in reqtab \cup want_reply
<1>1. /\ Sent(t, {"unsent"}, s, f) /\ reqtab' = reqtab \ {req[t]}
      /\ UNCHANGED <<conn, reader, current, live, want_reply, asked, answers>>
  BY DEF unsend, sshfs, wire
<1>2. f \in BOOLEAN  OBVIOUS
<1> HIDE DEF s
<1>3. pc[t] \in {"unsent"}  BY <1>1, <1>2, Zenon DEF Sent, Continue, Goto
<1>4. s = "close" => f  BY <1>3, Zenon DEF LeakInv, CloseListed, Writing, s
<1> HIDE DEF f
<1>5. \/ /\ s = "open"
         /\ pc' = [pc EXCEPT ![t] = "send"] /\ stage' = [stage EXCEPT ![t] = "stat"]
         /\ open_req' = [open_req EXCEPT ![t] = <<t, s>>] /\ req' = [req EXCEPT ![t] = None]
      \/ /\ s # "open"
         /\ pc' = [pc EXCEPT ![t] = "wait"] /\ stage' = [stage EXCEPT ![t] = s]
         /\ open_req' = open_req /\ req' = [req EXCEPT ![t] = <<t, s>>]
  BY <1>1, <1>2, <1>4, Zenon DEF Sent, Continue, Goto, Drop
<1>6. req[t] = <<t, s>> /\ req[t] \in Req /\ req[t] # None
  BY <1>3, StageIsKind, RequestAssumption, Zenon DEF RequestInv, s
<1>7. Answered' = Answered  BY <1>1, Zenon DEF Answered
<1>8. OnlyThread(t)
  BY <1>1, <1>5, <1>6, <1>7 DEF OnlyThread, RequestInv, Shape
<1>9. /\ pc'[t] \notin Writing
      /\ req[t] \in HeldBy(t)'
      /\ open_req[t] # None => open_req'[t] = open_req[t]
  <2>1. s = "open" => open_req[t] = None
    BY Zenon DEF RequestInv, Own, s
  <2>2. \/ (s = "open" /\ pc'[t] = "send" /\ open_req'[t] = req[t])
        \/ (s # "open" /\ pc'[t] = "wait" /\ open_req'[t] = open_req[t] /\ req'[t] = req[t])
    BY <1>5, <1>6, Zenon DEF RequestInv, Shape
  <2> QED  BY <1>6, <2>1, <2>2, Zenon DEF HeldBy, Writing
<1>10. ASSUME NEW k \in Kinds, <<t, k>> \in live'
       PROVE  <<t, k>> \in HeldBy(t)' \/ (k = "close" /\ <<t, k>> \in reqtab' \cup {current})
  <2>1. CASE <<t, k>> = req[t]  BY <1>9, <2>1, Zenon
  <2>2. CASE <<t, k>> # req[t]
    <3>1. <<t, k>> \in live  BY <1>1, <1>10, Zenon
    <3>2. <<t, k>> \in HeldBy(t) => <<t, k>> \in {open_req[t]} \ {None}  BY <2>2, Zenon DEF HeldBy
    <3>3. <<t, k>> \in {open_req[t]} \ {None} => <<t, k>> \in HeldBy(t)'  BY <1>9, Zenon DEF HeldBy
    <3> QED  BY <1>1, <2>2, <3>1, <3>2, <3>3, Zenon DEF LeakInv, Accounted
  <2> QED  BY <2>1, <2>2, Zenon
<1>11. <<t, "close">> \notin want_reply'
  BY <1>1, Zenon DEF LeakInv, CloseListed
<1>12. ASSUME NEW k \in Kinds, <<t, k>> \in reqtab'
       PROVE  \/ conn' = "lost" \/ reader' \in Cleaning
              \/ <<t, k>> \in (asked \cup Answered)'
              \/ pc'[t] \in Writing /\ req'[t] = <<t, k>>
  BY <1>1, <1>7, <1>12, Zenon DEF LeakInv, Outstanding
<1> QED  BY <1>1, <1>8, <1>9, <1>10, <1>11, <1>12, ThreadLeak, Zenon

\* The thread frees the request it holds; the OPEN it kept comes next.
LEMMA request_waitLeak ==
  ASSUME RequestInv, LeakInv, NEW t \in Thread, request_wait(t)
  PROVE  LeakInv'
<1>1. /\ pc[t] \in {"wait", "sem"} /\ live' = live \ {req[t]} /\ want_reply' = want_reply \ {req[t]}
      /\ UNCHANGED <<conn, reader, current, reqtab, asked, answers>>
  BY Zenon DEF request_wait, Free, sshfs
<1>2. \/ /\ stage[t] = "stat" /\ req' = [req EXCEPT ![t] = open_req[t]]
         /\ open_req' = [open_req EXCEPT ![t] = None]
         /\ pc' = [pc EXCEPT ![t] = "wait"] /\ stage' = [stage EXCEPT ![t] = "opened"]
      \/ /\ stage[t] # "stat" /\ req' = [req EXCEPT ![t] = None] /\ open_req' = open_req
         /\ \/ pc' = [pc EXCEPT ![t] = "send"] /\ stage' = [stage EXCEPT ![t] = "close"]
            \/ pc' = [pc EXCEPT ![t] = "idle"] /\ stage' = [stage EXCEPT ![t] = "none"]
  BY Zenon DEF request_wait, After, Continue, Goto, Drop
<1>3. req[t] = <<t, Kind(t)>>
  BY <1>1, Zenon DEF RequestInv, Own, InUse
<1>4. Answered' = Answered  BY <1>1, Zenon DEF Answered
<1>5. OnlyThread(t)
  BY <1>1, <1>2, <1>3, <1>4, Zenon DEF OnlyThread, RequestInv, Shape
<1>6. pc'[t] \notin Writing /\ pc[t] \notin Writing
  BY <1>1, <1>2, Zenon DEF RequestInv, Shape, Writing
<1>7. open_req[t] # None => open_req[t] \in HeldBy(t)'
  <2>1. open_req[t] # None => stage[t] = "stat"  BY Zenon DEF RequestInv, Own
  <2>2. stage[t] = "stat" => req'[t] = open_req[t] /\ pc'[t] = "wait"
    BY <1>2, Zenon DEF RequestInv, Shape
  <2> QED  BY <2>1, <2>2, Zenon DEF HeldBy
<1>8. ASSUME NEW k \in Kinds, <<t, k>> \in live'
      PROVE  <<t, k>> \in HeldBy(t)' \/ (k = "close" /\ <<t, k>> \in reqtab' \cup {current})
  <2>1. <<t, k>> \in live /\ <<t, k>> # req[t]  BY <1>1, <1>8, Zenon
  <2>2. <<t, k>> \in HeldBy(t) => <<t, k>> \in {open_req[t]} \ {None}  BY <2>1, Zenon DEF HeldBy
  <2> QED  BY <1>1, <1>7, <2>1, <2>2, Zenon DEF LeakInv, Accounted
<1>9. <<t, "close">> \notin want_reply'
  BY <1>1, Zenon DEF LeakInv, CloseListed
<1>10. ASSUME NEW k \in Kinds, <<t, k>> \in reqtab'
       PROVE  \/ conn' = "lost" \/ reader' \in Cleaning
              \/ <<t, k>> \in (asked \cup Answered)'
              \/ pc'[t] \in Writing /\ req'[t] = <<t, k>>
  BY <1>1, <1>4, <1>6, <1>10, Zenon DEF LeakInv, Outstanding
<1> QED  BY <1>1, <1>5, <1>6, <1>8, <1>9, <1>10, ThreadLeak, Zenon

----------------------------------------------------------------------------
\* A step of the processing thread leaves every thread what it holds.
LEMMA HeldSame == UNCHANGED <<pc, req, open_req>> => \A t \in Thread : HeldBy(t)' = HeldBy(t)
  BY Zenon DEF HeldBy

\* The reply of a request that is in the table puts it in the thread's hands.
LEMMA process_one_requestLeak ==
  ASSUME RequestInv, LeakInv, process_one_request
  PROVE  LeakInv'
<1> DEFINE h == Head(answers)
<1>1. /\ reader = "read" /\ answers # <<>> /\ answers' = Tail(answers) /\ reqtab' = reqtab \ {h}
      /\ IF h \in reqtab THEN reader' = "deliver" /\ current' = h ELSE UNCHANGED <<reader, current>>
      /\ UNCHANGED <<conn, live, want_reply, asked, pc, stage, req, open_req>>
  BY Zenon DEF process_one_request, sshfs, calls
<1>2. Answered \subseteq Answered' \cup {h}  /\ h \in Answered
  <2>1. answers \in Seq(Req) /\ answers # <<>>  BY <1>1, Zenon DEF RequestInv, Shape
  <2>2. h = answers[1] /\ 1 \in DOMAIN answers  BY <2>1
  <2>3. ASSUME NEW i \in DOMAIN answers, i # 1  PROVE answers[i] \in Answered'
    <3>1. i - 1 \in DOMAIN Tail(answers) /\ Tail(answers)[i - 1] = answers[i]  BY <2>1, <2>3
    <3> QED  BY <1>1, <3>1, Zenon DEF Answered
  <2> QED  BY <2>2, <2>3, Zenon DEF Answered
<1>3. current = None  BY <1>1, Zenon DEF RequestInv, Reader
<1> HIDE DEF h
<1>4. Accounted'
  <2>1. current' \in {h, None} /\ (h \in reqtab => current' = h)  BY <1>1, <1>3, Zenon
  <2>2. \A t \in Thread, k \in Kinds : <<t, k>> # None  BY ReqKinds, Zenon
  <2> QED  BY <1>1, <1>3, <2>1, <2>2, HeldSame, Zenon DEF LeakInv, Accounted
<1>5. CloseListed'
  <2>1. \A t \in Thread : pc[t] \in Writing => req[t] # h
    BY <1>2, Zenon DEF RequestInv, Unsent, Writing
  <2> QED  BY <1>1, <2>1, Zenon DEF LeakInv, CloseListed
<1>6. Outstanding'  BY <1>1, <1>2, Zenon DEF LeakInv, Outstanding, Cleaning
<1> QED  BY <1>4, <1>5, <1>6, Zenon DEF LeakInv


\* A CLOSE that was answered is freed; of any other request its thread is woken.
LEMMA deliverLeak ==
  ASSUME RequestInv, LeakInv, deliver
  PROVE  LeakInv'
<1>1. /\ reader = "deliver" /\ reader' = "read" /\ current' = None
      /\ IF current \in want_reply THEN UNCHANGED <<live, want_reply>>
                                   ELSE live' = live \ {current} /\ want_reply' = want_reply \ {current}
      /\ UNCHANGED <<conn, reqtab, asked, answers, pc, stage, req, open_req>>
  BY Zenon DEF deliver, Free, sshfs, calls
<1>2. Answered' = Answered  BY <1>1, Zenon DEF Answered
<1>3. Accounted'
  <2>1. \A t \in Thread : <<t, "close">> = current => <<t, "close">> \notin live'
    BY <1>1, Zenon DEF LeakInv, CloseListed
  <2> QED  BY <1>1, <2>1, HeldSame, Zenon DEF LeakInv, Accounted
<1>4. CloseListed'  BY <1>1, Zenon DEF LeakInv, CloseListed
<1>5. Outstanding'  BY <1>1, <1>2, Zenon DEF LeakInv, Outstanding, Cleaning
<1> QED  BY <1>3, <1>4, <1>5, Zenon DEF LeakInv

\* The clean-up takes over what the lost connection left.
LEMMA read_failsLeak ==
  ASSUME RequestInv, LeakInv, read_fails
  PROVE  LeakInv'
<1>1. /\ reader = "read" /\ reader' = "clean"
      /\ UNCHANGED <<current, live, want_reply, reqtab, pc, stage, req, open_req>>
  BY Zenon DEF read_fails, table, calls
<1>2. Accounted'  BY <1>1, HeldSame, Zenon DEF LeakInv, Accounted
<1>3. CloseListed'  BY <1>1, Zenon DEF LeakInv, CloseListed
<1>4. Outstanding'  BY <1>1, Zenon DEF Outstanding, Cleaning
<1> QED  BY <1>2, <1>3, <1>4, Zenon DEF LeakInv

\* A request being cleaned up is still in the table.
LEMMA clean_reqLeak ==
  ASSUME RequestInv, LeakInv, clean_req
  PROVE  LeakInv'
<1>1. /\ reader = "clean" /\ reader' = "post"
      /\ UNCHANGED <<live, want_reply, reqtab, pc, stage, req, open_req>>
  BY Zenon DEF clean_req, table, calls
<1>2. current = None  BY <1>1, Zenon DEF RequestInv, Reader
<1>3. Accounted'  BY <1>1, <1>2, ReqKinds, HeldSame, Zenon DEF LeakInv, Accounted
<1>4. CloseListed'  BY <1>1, Zenon DEF LeakInv, CloseListed
<1>5. Outstanding'  BY <1>1, Zenon DEF Outstanding, Cleaning
<1> QED  BY <1>3, <1>4, <1>5, Zenon DEF LeakInv

\* A request leaves the table only to a thread that waits for it.
LEMMA clean_postLeak ==
  ASSUME RequestInv, LeakInv, clean_post
  PROVE  LeakInv'
<1>1. /\ reader = "post"
      /\ IF current \in want_reply
           THEN reqtab' = reqtab \ {current} /\ reader' = "clean" /\ current' = None
           ELSE reader' = "blocked" /\ UNCHANGED <<reqtab, current>>
      /\ UNCHANGED <<live, want_reply, pc, stage, req, open_req>>
  BY Zenon DEF clean_post, calls
<1>2. Accounted'
  <2>1. \A t \in Thread : current \in want_reply => <<t, "close">> # current
    BY Zenon DEF LeakInv, CloseListed
  <2> QED  BY <1>1, <2>1, HeldSame, Zenon DEF LeakInv, Accounted
<1>3. CloseListed'
  <2>1. ASSUME NEW t \in Thread, pc[t] \in Writing, stage[t] = "close"
        PROVE  req[t] \in reqtab /\ (current \in want_reply => req[t] # current)
    <3>1. req[t] = <<t, "close">>  BY <2>1, Zenon DEF RequestInv, Own, InUse, Writing, Kind
    <3> QED  BY <2>1, <3>1, Zenon DEF LeakInv, CloseListed
  <2> QED  BY <1>1, <2>1, Zenon DEF LeakInv, CloseListed
<1>4. Outstanding'  BY <1>1, Zenon DEF Outstanding, Cleaning
<1> QED  BY <1>2, <1>3, <1>4, Zenon DEF LeakInv

\* The clean-up ends with an empty table.
LEMMA clean_doneLeak ==
  ASSUME RequestInv, LeakInv, clean_done
  PROVE  LeakInv'
<1>1. /\ reqtab = {}
      /\ UNCHANGED <<current, live, want_reply, reqtab, pc, stage, req, open_req>>
  BY Zenon DEF clean_done, table, calls
<1>2. Accounted'  BY <1>1, HeldSame, Zenon DEF LeakInv, Accounted
<1>3. CloseListed'  BY <1>1, Zenon DEF LeakInv, CloseListed
<1>4. Outstanding'  BY <1>1, Zenon DEF Outstanding
<1> QED  BY <1>2, <1>3, <1>4, Zenon DEF LeakInv

\* What the server has got it answers, or the connection is lost.
LEMMA WireLeak ==
  ASSUME RequestInv, LeakInv,
         UNCHANGED <<reader, current, live, want_reply, reqtab, pc, stage, req, open_req>>,
         conn' = "lost" \/ (conn' = conn /\ asked \cup Answered \subseteq (asked \cup Answered)')
  PROVE  LeakInv'
<1>1. Accounted'  BY HeldSame, Zenon DEF LeakInv, Accounted
<1>2. CloseListed'  BY Zenon DEF LeakInv, CloseListed
<1>3. Outstanding'  BY Zenon DEF LeakInv, Outstanding
<1> QED  BY <1>1, <1>2, <1>3, Zenon DEF LeakInv

\* Every step preserves LeakInv.
LEMMA StepLeak == TypeOK /\ RequestInv /\ LeakInv /\ [Next]_vars => LeakInv'
<1> SUFFICES ASSUME TypeOK, RequestInv, LeakInv, [Next]_vars  PROVE LeakInv'
  BY Zenon
<1>1. ASSUME NEW t \in Thread, ThreadStep(t)  PROVE LeakInv'
  BY <1>1, PlaceLeak, request_sendLeak, start_failsLeak, send_iovLeak, unsendLeak, request_waitLeak
 , Zenon DEF ThreadStep
<1>2. CASE ReaderStep
  BY <1>2, process_one_requestLeak, deliverLeak, read_failsLeak, clean_reqLeak, clean_postLeak,
     clean_doneLeak, Zenon DEF ReaderStep
<1>3. ASSUME NEW r \in Req, server(r)  PROVE LeakInv'
  <2>1. Answered' = Answered \cup {r}
    <3>1. answers' = Append(answers, r) /\ answers \in Seq(Req)
      BY <1>3, Zenon DEF server, RequestInv, Shape
    <3> QED  BY <3>1 DEF Answered
  <2>2. /\ UNCHANGED <<conn, reader, current, live, want_reply, reqtab, pc, stage, req, open_req>>
        /\ asked' = asked \ {r}
    BY <1>3, Zenon DEF server, sshfs, table, calls
  <2> QED  BY <2>1, <2>2, WireLeak, Zenon
<1>4. CASE sigterm \/ lose \/ UNCHANGED vars
  <2>1. /\ UNCHANGED <<reader, current, live, want_reply, reqtab, pc, stage, req, open_req>>
        /\ conn' = "lost" \/ UNCHANGED <<conn, asked, answers>>
    BY <1>4, Zenon DEF sigterm, lose, vars, sshfs, table, wire, calls
  <2>2. answers' = answers => Answered' = Answered  BY Zenon DEF Answered
  <2> QED  BY <2>1, <2>2, WireLeak, Zenon
<1> QED  BY <1>1, <1>2, <1>3, <1>4, Zenon DEF Next

----------------------------------------------------------------------------
\* The variables that RequestInv does not type.
Types ==
  /\ process \in {"running", "killed"} /\ killing \in BOOLEAN
  /\ conn \in {"open", "lost", "closed"} /\ started \in BOOLEAN /\ locked \in BOOLEAN
  /\ reader \in {"none", "read", "deliver", "clean", "post", "blocked"}
  /\ want_reply \subseteq Req /\ okay \subseteq Req
  /\ err2 \in [Thread -> BOOLEAN] /\ losses \in 0 .. MaxLosses

\* A step keeps the types.
LEMMA StepTypes == RequestInv /\ Types /\ [Next]_vars => Types'
<1> SUFFICES ASSUME RequestInv, Types, [Next]_vars  PROVE Types'
  BY Zenon
<1>1. ASSUME NEW t \in Thread, request_send(t) \/ start_fails(t)  PROVE Types'
  <2>1. /\ pc[t] \in {"idle", "send"} /\ want_reply' \in {want_reply, want_reply \cup {<<t, Stage(t)>>}}
        /\ UNCHANGED <<process, killing, okay, err2, losses>>
    BY <1>1, Zenon DEF request_send, start_fails, Allocate, Sent, Continue, Goto, wire
  <2>2. /\ conn' \in {conn, "open"} /\ started' \in {started, TRUE} /\ locked' = locked
        /\ reader' \in {reader, "read"}
    BY <1>1, Zenon DEF request_send, start_fails, sshfs
  <2>3. <<t, Stage(t)>> \in Req  BY <2>1, StageIsKind, Zenon DEF RequestInv
  <2> QED  BY <2>1, <2>2, <2>3, ZenonT(40) DEF Types
<1>2. ASSUME NEW t \in Thread, send_iov(t) \/ send_fails(t) \/ unsend(t) \/ sem_wait(t)  PROVE Types'
  BY <1>2, ZenonT(40) DEF send_iov, send_fails, unsend, sem_wait, sshfs, table, wire, calls, Types
<1>3. ASSUME NEW t \in Thread, request_wait(t)  PROVE Types'
  <2>1. /\ UNCHANGED <<process, killing, conn, started, locked, reader, losses>>
        /\ want_reply' \subseteq want_reply /\ okay' \subseteq okay
    BY <1>3, Zenon DEF request_wait, Free, sshfs
  <2>2. \E b \in BOOLEAN : err2' = [err2 EXCEPT ![t] = b]
    BY <1>3, Zenon DEF request_wait, After, Failed
  <2> QED  BY <2>1, <2>2, Zenon DEF Types
<1>4. CASE ReaderStep
  BY <1>4, Zenon DEF ReaderStep, process_one_request, deliver, read_fails, clean_req, clean_post, clean_done,
     Free, sshfs, table, wire, calls, Types
<1>5. CASE sigterm \/ UNCHANGED vars
  BY <1>5, Zenon DEF sigterm, vars, sshfs, table, wire, calls, Types
<1>6. CASE lose
  BY <1>6, RequestAssumption DEF lose, table, calls, Types
<1>7. ASSUME NEW r \in Req, server(r)  PROVE Types'
  BY <1>7, Zenon DEF server, sshfs, table, calls, Types
<1> QED  BY <1>1, <1>2, <1>3, <1>4, <1>5, <1>6, <1>7, Zenon DEF Next, ThreadStep

\* RequestInv and Types make TypeOK.
LEMMA TypesEnough == RequestInv /\ Types => TypeOK
<1> SUFFICES ASSUME RequestInv, Types  PROVE TypeOK
  BY Zenon
<1>1. current \in IF reader \in {"deliver", "post", "blocked"} THEN Req ELSE {None}
  BY Zenon DEF RequestInv, Shape, Reader
<1>2. Answered \subseteq Req  BY DEF RequestInv, Shape, Answered
<1>3. reqtab \subseteq Req /\ error \subseteq Req /\ ready \subseteq Req /\ live \subseteq Req /\ asked \subseteq Req
  BY Zenon DEF RequestInv, Shape, Reader, Done
<1> QED  BY <1>1, <1>2, <1>3, Zenon DEF TypeOK, Types, RequestInv, Shape

\* The types, for any number of threads, calls and lost connections.
THEOREM RequestTypes == Spec => []TypeOK
<1>1. Init => Types
  <2> SUFFICES ASSUME Init  PROVE Types
    BY Zenon
  <2>1. losses \in 0 .. MaxLosses  BY RequestAssumption DEF Init
  <2>2. err2 \in [Thread -> BOOLEAN]  BY Zenon DEF Init
  <2>3. killing \in BOOLEAN /\ started \in BOOLEAN /\ locked \in BOOLEAN  BY ZenonT(40) DEF Init
  <2> QED  BY <2>1, <2>2, <2>3 DEF Init, Types
<1> QED  BY InitHolds, StepHolds, <1>1, StepTypes, TypesEnough, PTL DEF Spec

\* When no thread is in a call and no reply is due, every request was freed and
\* the table is empty, whichever of sftp_request_wait, process_one_request and
\* clean_req had to free it, for any number of threads, calls and losses.
THEOREM NoRequestLeaks == Spec => []NothingLeaks
<1>1. RequestInv /\ LeakInv => NothingLeaks
  <2> SUFFICES ASSUME RequestInv, LeakInv, \A t \in Thread : pc[t] = "idle",
                      asked = {}, answers = <<>>, conn # "lost", reader \in {"none", "read"}
               PROVE  live = {} /\ reqtab = {}
    BY Zenon DEF NothingLeaks
  <2>1. \A r \in Req : \E t \in Thread, k \in Kinds : r = <<t, k>>  BY DEF Req, Kinds
  <2>2. live \subseteq Req /\ reqtab \subseteq live  BY Zenon DEF RequestInv, Shape, Reader
  <2>3. Answered = {}  BY DEF Answered
  <2>4. \A t \in Thread : HeldBy(t) = {}  BY Zenon DEF RequestInv, Own, HeldBy
  <2>5. current = None  BY Zenon DEF RequestInv, Reader
  <2>6. reqtab = {}
    BY <2>1, <2>2, <2>3 DEF LeakInv, Outstanding, Cleaning, Writing
  <2> QED  BY <2>1, <2>2, <2>4, <2>5, <2>6, ReqKinds DEF LeakInv, Accounted
<1> QED  BY InitHolds, StepHolds, InitLeak, StepLeak, RequestTypes, <1>1, PTL DEF Spec
=============================================================================
