--------------------------- MODULE SshfsRequests ---------------------------
(***************************************************************************)
(* The requests of usfs_wrap/sshfs/sshfs_wrap.c.  Threads of the program   *)
(* send requests over one connection and wait on a semaphore in each; a    *)
(* processing thread matches the replies by id, and when the connection    *)
(* ends it fails what is outstanding, closes the connection and sends the  *)
(* process SIGTERM.  The calls are the ones by path (getattr, truncate,    *)
(* unlink: one request) and open: OPEN and LSTAT are outstanding together, *)
(* and a CLOSE nobody waits for follows when only LSTAT failed.            *)
(* Critical sections of sshfs.lock are single steps, except the one in     *)
(* which the processing thread cleans up.                                  *)
(***************************************************************************)
EXTENDS Naturals, Sequences

CONSTANTS
  Thread,     \* threads of the program
  Opener,     \* those that open files; the others make calls of one request
  MaxLosses,  \* bound on how often the connection is lost
  None        \* no request

\* A thread has one request of each kind at a time: the one request of a simple
\* call or the LSTAT of an open, the OPEN, and a CLOSE it need not wait for.
Req == Thread \X {"simple", "open", "stat", "close"}
ASSUME RequestAssumption == Opener \subseteq Thread /\ MaxLosses \in Nat /\ None \notin Req

VARIABLES
  process,    \* "running" or "killed"
  killing,    \* SIGTERM is on its way
  conn,       \* "open", "lost" (the server is gone) or "closed" (rfd = -1)
  started,    \* processing_thread_started
  locked,     \* the processing thread holds sshfs.lock to clean up
  reader,     \* where the processing thread is
  current,    \* the request it handles
  live,       \* requests allocated and not freed
  reqtab,     \* the table of outstanding requests
  want_reply, \* requests somebody waits for
  error,      \* requests with error set
  ready,      \* requests whose semaphore was posted
  asked,      \* requests the server has got
  answers,    \* requests whose replies are on their way, in order
  okay,       \* requests the server granted
  pc,         \* thread -> step of its request
  stage,      \* thread -> which request of which call
  req,        \* thread -> that request
  open_req,   \* thread -> the OPEN it has outstanding
  err2,       \* thread -> LSTAT of its open failed
  losses      \* how often the connection was lost

sshfs == <<conn, started, locked>>
table == <<live, reqtab, want_reply>>
flags == <<error, ready>>
wire == <<asked, answers, okay>>
calls == <<stage, req, open_req, err2>>
vars == <<process, killing, sshfs, reader, current, table, flags, wire, pc, calls, losses>>

Init ==
  /\ process = "running" /\ killing = FALSE
  /\ conn = "open" /\ started = FALSE /\ locked = FALSE
  /\ reader = "none" /\ current = None
  /\ live = {} /\ reqtab = {} /\ want_reply = {}
  /\ error = {} /\ ready = {}
  /\ asked = {} /\ answers = <<>> /\ okay = {}
  /\ pc = [t \in Thread |-> "idle"] /\ stage = [t \in Thread |-> "none"]
  /\ req = [t \in Thread |-> None] /\ open_req = [t \in Thread |-> None]
  /\ err2 = [t \in Thread |-> FALSE]
  /\ losses = 0

Running == process = "running"
Goto(t, from, to) == Running /\ pc[t] \in from /\ pc' = [pc EXCEPT ![t] = to]
Drop(f, t) == [f EXCEPT ![t] = None]

\* The call moves on to its next request s at step p, or ends.
Continue(t, from, p, s) ==
  /\ Goto(t, from, p)
  /\ stage' = [stage EXCEPT ![t] = s]

----------------------------------------------------------------------------
\* What follows sftp_request_send of request s: sshfs_open_common keeps the OPEN
\* and sends LSTAT, the others wait; nobody waits for a CLOSE, except to free
\* one that was not sent.
Sent(t, from, s, unsent) ==
  CASE s = "open" ->  /\ Continue(t, from, "send", "stat")
                      /\ open_req' = [open_req EXCEPT ![t] = <<t, s>>]
                      /\ req' = Drop(req, t)
    [] s = "close" /\ ~unsent ->
                      /\ Continue(t, from, "idle", "none")
                      /\ req' = Drop(req, t)
                      /\ UNCHANGED open_req
    [] OTHER ->       /\ Continue(t, from, "wait", s)
                      /\ req' = [req EXCEPT ![t] = <<t, s>>]
                      /\ UNCHANGED open_req

\* A call begins with its first request, "simple" or "open".
Stage(t) == IF pc[t] # "idle" THEN stage[t] ELSE IF t \in Opener THEN "open" ELSE "simple"

\* Ids are never used twice.
Answered == {answers[i] : i \in DOMAIN answers}

Allocate(t, s) ==
  /\ ~locked /\ <<t, s>> \notin live \cup asked \cup Answered
  /\ live' = live \cup {<<t, s>>}
  /\ want_reply' = IF s = "close" THEN want_reply ELSE want_reply \cup {<<t, s>>}

\* sftp_request_send up to the unlock: a request, and start_processing_thread,
\* which connects again when the connection was closed and may fail.
request_send(t) ==
  LET s == Stage(t) IN
    /\ Allocate(t, s)
    /\ Continue(t, {"idle", "send"}, "write", s)
    /\ req' = [req EXCEPT ![t] = <<t, s>>]
    /\ reqtab' = reqtab \cup {<<t, s>>}
    /\ started' = TRUE
    /\ conn' = IF started \/ conn # "closed" THEN conn ELSE "open"
    /\ reader' = IF started THEN reader ELSE "read"
    /\ UNCHANGED <<process, killing, locked, current, flags, wire, open_req, err2, losses>>

start_fails(t) ==
  /\ ~started
  /\ LET s == Stage(t) IN
       /\ Allocate(t, s)
       /\ Sent(t, {"idle", "send"}, s, TRUE)
       /\ error' = error \cup {<<t, s>>}
  /\ UNCHANGED <<process, killing, sshfs, reader, current, reqtab, ready, wire, err2, losses>>

\* sftp_send_iov
send_iov(t) ==
  /\ conn # "closed"
  /\ Sent(t, {"write"}, stage[t], FALSE)
  /\ asked' = IF conn = "open" THEN asked \cup {req[t]} ELSE asked
  /\ UNCHANGED <<process, killing, sshfs, reader, current, table, flags, answers, okay, err2, losses>>

send_fails(t) ==
  /\ conn # "open"
  /\ Goto(t, {"write"}, "unsent")
  /\ UNCHANGED <<process, killing, sshfs, reader, current, table, flags, wire, calls, losses>>

\* The request is taken back; one nobody waits for that is no longer in the
\* table has been freed by the processing thread.
unsend(t) ==
  /\ ~locked
  /\ LET freed == req[t] \notin reqtab \cup want_reply IN
       /\ Sent(t, {"unsent"}, stage[t], ~freed)
       /\ error' = IF freed THEN error ELSE error \cup {req[t]}
  /\ reqtab' = reqtab \ {req[t]}
  /\ UNCHANGED <<process, killing, sshfs, reader, current, live, want_reply, ready, wire, err2, losses>>

Failed(r) == r \in error \/ r \notin okay

Free(r) ==
  /\ live' = live \ {r} /\ want_reply' = want_reply \ {r} /\ okay' = okay \ {r}
  /\ error' = error \ {r} /\ ready' = ready \ {r}

\* sftp_request_wait: an error is seen at once, without the semaphore; then
\* request_free and the return to the caller.  A slip: without the lock.
After(t) ==
  CASE stage[t] = "stat" -> /\ Continue(t, {"wait", "sem"}, "wait", "opened")
                            /\ req' = [req EXCEPT ![t] = open_req[t]]
                            /\ open_req' = Drop(open_req, t)
                            /\ err2' = [err2 EXCEPT ![t] = Failed(req[t])]
    [] stage[t] = "opened" /\ ~Failed(req[t]) /\ err2[t] ->
                            /\ Continue(t, {"wait", "sem"}, "send", "close")
                            /\ req' = Drop(req, t)
                            /\ err2' = [err2 EXCEPT ![t] = FALSE]
                            /\ UNCHANGED open_req
    [] OTHER ->             /\ Continue(t, {"wait", "sem"}, "idle", "none")
                            /\ req' = Drop(req, t)
                            /\ err2' = [err2 EXCEPT ![t] = FALSE]
                            /\ UNCHANGED open_req

request_wait_unlocked(t) ==
  /\ (pc[t] = "wait" /\ req[t] \in error) \/ (pc[t] = "sem" /\ req[t] \in ready)
  /\ After(t)
  /\ Free(req[t])
  /\ UNCHANGED <<process, killing, sshfs, reader, current, reqtab, asked, answers, losses>>

request_wait(t) ==
  /\ (pc[t] = "wait" /\ req[t] \in error) \/ (pc[t] = "sem" /\ req[t] \in ready)
  /\ ~locked
  /\ After(t)
  /\ Free(req[t])
  /\ UNCHANGED <<process, killing, sshfs, reader, current, reqtab, asked, answers, losses>>

\* No error yet: the thread sleeps in sem_wait.
sem_wait(t) ==
  /\ req[t] \notin error
  /\ Goto(t, {"wait"}, "sem")
  /\ UNCHANGED <<process, killing, sshfs, reader, current, table, flags, wire, calls, losses>>

----------------------------------------------------------------------------
\* process_one_request: the lookup, under the lock, and what follows it.
process_one_request ==
  /\ Running /\ reader = "read" /\ answers # <<>>
  /\ answers' = Tail(answers)
  /\ reqtab' = reqtab \ {Head(answers)}
  /\ IF Head(answers) \in reqtab THEN reader' = "deliver" /\ current' = Head(answers)
                                 ELSE UNCHANGED <<reader, current>>
  /\ UNCHANGED <<process, killing, sshfs, live, want_reply, flags, asked, okay, pc, calls, losses>>

\* Slips: a request nobody waits for is not freed; the pointer stays.
deliver_wanted ==
  /\ Running /\ reader = "deliver"
  /\ ready' = ready \cup ({current} \cap want_reply)
  /\ reader' = "read" /\ current' = None
  /\ UNCHANGED <<process, killing, sshfs, table, error, wire, pc, calls, losses>>

deliver_stale ==
  /\ Running /\ reader = "deliver"
  /\ IF current \in want_reply
       THEN ready' = ready \cup {current} /\ UNCHANGED <<live, want_reply, error, okay>>
       ELSE Free(current)
  /\ reader' = "read"
  /\ UNCHANGED <<process, killing, sshfs, current, reqtab, asked, answers, pc, calls, losses>>

deliver ==
  /\ Running /\ reader = "deliver"
  /\ IF current \in want_reply
       THEN ready' = ready \cup {current} /\ UNCHANGED <<live, want_reply, error, okay>>
       ELSE Free(current)
  /\ reader' = "read" /\ current' = None
  /\ UNCHANGED <<process, killing, sshfs, reqtab, asked, answers, pc, calls, losses>>

\* process_requests when sftp_read fails: lock and close_conn,
read_fails ==
  /\ Running /\ reader = "read" /\ conn = "lost"
  /\ locked' = TRUE /\ started' = FALSE /\ conn' = "closed" /\ answers' = <<>>
  /\ reader' = "clean"
  /\ UNCHANGED <<process, killing, current, table, flags, asked, okay, pc, calls, losses>>

\* clean_req for each request, in the order of the hash table: the error, which
\* its thread may see at once, and the semaphore, or request_free, which waits
\* for the lock that process_requests holds.  A slip: the error alone is to wake
\* the thread,
clean_req ==
  /\ Running /\ reader = "clean"
  /\ \E r \in reqtab : current' = r /\ error' = error \cup {r}
  /\ reader' = "post"
  /\ UNCHANGED <<process, killing, sshfs, table, ready, wire, pc, calls, losses>>

clean_silent ==
  /\ Running /\ reader = "post"
  /\ IF current \in want_reply
       THEN reqtab' = reqtab \ {current} /\ reader' = "clean" /\ current' = None
       ELSE reader' = "blocked" /\ UNCHANGED <<reqtab, current>>
  /\ UNCHANGED <<process, killing, sshfs, live, want_reply, flags, wire, pc, calls, losses>>

clean_post ==
  /\ Running /\ reader = "post"
  /\ IF current \in want_reply
       THEN /\ ready' = ready \cup {current} /\ reqtab' = reqtab \ {current}
            /\ reader' = "clean" /\ current' = None
       ELSE reader' = "blocked" /\ UNCHANGED <<ready, reqtab, current>>
  /\ UNCHANGED <<process, killing, sshfs, live, want_reply, error, wire, pc, calls, losses>>

\* and kill(getpid(), SIGTERM) after the unlock.
clean_done ==
  /\ Running /\ reader = "clean" /\ reqtab = {}
  /\ locked' = FALSE /\ killing' = TRUE
  /\ reader' = "none"
  /\ UNCHANGED <<process, conn, started, current, table, flags, wire, pc, calls, losses>>

\* The signal ends the process unless the program catches it.
sigterm ==
  /\ Running /\ killing
  /\ killing' = FALSE
  /\ process' \in {"running", "killed"}
  /\ UNCHANGED <<sshfs, reader, current, table, flags, wire, pc, calls, losses>>

\* The server answers in any order; the connection may be lost.
server(r) ==
  /\ Running /\ conn = "open" /\ r \in asked
  /\ asked' = asked \ {r} /\ answers' = Append(answers, r)
  /\ okay' \in {okay, okay \cup {r}}
  /\ UNCHANGED <<process, killing, sshfs, reader, current, table, flags, pc, calls, losses>>

lose ==
  /\ Running /\ conn = "open" /\ losses < MaxLosses
  /\ conn' = "lost" /\ asked' = {} /\ losses' = losses + 1
  /\ UNCHANGED <<process, killing, started, locked, reader, current, table, flags, answers, okay, pc, calls>>

----------------------------------------------------------------------------
ThreadStep(t) ==
  \/ request_send(t) \/ start_fails(t) \/ send_iov(t) \/ send_fails(t) \/ unsend(t)
  \/ sem_wait(t) \/ request_wait(t)

ReaderStep ==
  process_one_request \/ deliver \/ read_fails \/ clean_req \/ clean_post \/ clean_done

Next ==
  \/ \E t \in Thread : ThreadStep(t)
  \/ ReaderStep \/ sigterm \/ lose
  \/ \E r \in Req : server(r)

\* Threads run, the signal arrives, and the server answers while it is there.
Fairness ==
  /\ \A t \in Thread : WF_vars(pc[t] # "idle" /\ ThreadStep(t))
  /\ WF_vars(ReaderStep) /\ WF_vars(sigterm)
  /\ \A r \in Req : WF_vars(server(r))

Spec == Init /\ [][Next]_vars
FairSpec == Spec /\ Fairness

----------------------------------------------------------------------------
\* Types; the processing thread has a request in its hands exactly between
\* the lookup in process_one_request and sem_post, and while it is blocked.
TypeOK ==
  /\ process \in {"running", "killed"} /\ killing \in BOOLEAN
  /\ conn \in {"open", "lost", "closed"} /\ started \in BOOLEAN /\ locked \in BOOLEAN
  /\ reader \in {"none", "read", "deliver", "clean", "post", "blocked"}
  /\ current \in IF reader \in {"deliver", "post", "blocked"} THEN Req ELSE {None}
  /\ \A s \in {live, reqtab, want_reply, error, ready, asked, Answered, okay} : s \subseteq Req
  /\ pc \in [Thread -> {"idle", "send", "write", "unsent", "wait", "sem"}]
  /\ stage \in [Thread -> {"none", "simple", "open", "stat", "opened", "close"}]
  /\ req \in [Thread -> Req \cup {None}] /\ open_req \in [Thread -> Req \cup {None}]
  /\ err2 \in [Thread -> BOOLEAN] /\ losses \in 0 .. MaxLosses

\* Requests a thread is going to use again.
HeldBy(t) ==
  (IF pc[t] \in {"write", "unsent", "wait", "sem"} THEN {req[t]} ELSE {}) \cup ({open_req[t]} \ {None})

\* Nobody uses a request that was freed: not the processing thread, which posts
\* a semaphore in it after the thread that waits may have seen the error and
\* gone on to free it; not a lookup in the table; not the thread whose send
\* failed while its request was cleaned up.
NoUseAfterFree ==
  /\ current # None => current \in live
  /\ reqtab \subseteq live
  /\ \A t \in Thread : HeldBy(t) \subseteq live

\* Between calls nothing is left behind: when no thread is in a call and no
\* reply is due, every request has been freed and the table is empty, whatever
\* failed and however the connection ended.
NothingLeaks ==
  (/\ \A t \in Thread : pc[t] = "idle"
   /\ asked = {} /\ answers = <<>> /\ conn # "lost" /\ reader \in {"none", "read"})
     => live = {} /\ reqtab = {}

\* Every call returns, also when the connection is lost at the worst time,
\* unless the process ends or the processing thread waits for its own lock.
CallsEnd ==
  \A t \in Thread :
    pc[t] # "idle" ~> (pc[t] = "idle" \/ process = "killed" \/ reader = "blocked")

\* When the connection ends, process_requests signals the process.
Harakiri == reader = "clean" ~> (killing \/ process = "killed")
=============================================================================
