-------------------------- MODULE FileOffsetProofs -------------------------
(***************************************************************************)
(* What a call that ran alone promises (AloneIsAtomic, AloneIsKept,        *)
(* SeekReportsPosition), and the types, for any set of processes, any      *)
(* bounds and any overlapping of calls.                                    *)
(***************************************************************************)
EXTENDS FileOffset, TLAPS

Transferring == {"transfer", "set_pos"}
Seeking == {"stat", "lseek"}

\* What the variables the argument uses can hold.
Shape ==
  /\ pos \in Int /\ safe \in Int /\ safe >= 0 /\ pos >= 0
  /\ alone \subseteq Proc
  /\ at \in [Proc -> Step]
  /\ call \in [Proc -> Rw \cup Seek \cup {NoCall}]
  /\ off = [p \in Proc |-> off[p]] /\ done \in [Proc -> Nat]
  /\ \A p \in Proc : at[p] \in Transferring \cup {"unlock"} => off[p] \in Int

\* Others of a process that runs alone are in no call, and at its end the
\* position is behind what it transferred.
AloneIsAlone ==
  \A p \in alone :
    /\ \A q \in Proc : q # p => at[q] = "idle"
    /\ at[p] = "unlock" => pos = off[p] + done[p]

\* Nobody seeks while there is something to keep.
SeekForgets == \A p \in Proc : at[p] \in Seeking => safe = 0

\* Where a read or write begins, and where it is.
Behind ==
  /\ pos >= safe
  /\ \A p \in Proc : at[p] \in Transferring \cup {"unlock"} => off[p] >= safe

OffsetInv == Shape /\ AloneIsAlone /\ SeekForgets /\ Behind

----------------------------------------------------------------------------
\* OffsetInv holds at first.
LEMMA InitHolds == Init => OffsetInv
  BY OffsetAssumption DEF Init, OffsetInv, Shape, AloneIsAlone, SeekForgets, Behind, Step, NoCall,
       Transferring, Seeking

\* A call begins: read_write and seek.
LEMMA BeginHolds ==
  ASSUME OffsetInv, NEW p \in Proc, NEW c \in Rw \cup Seek, NEW first \in {"lock", "stat", "lseek"},
         Begin(p, c, first),
         (safe' = safe /\ first = "lock") \/ safe' = 0
  PROVE  OffsetInv'
<1> USE DEF OffsetInv, Begin
<1>1. Shape'  BY DEF Shape, Step, Transferring
<1>2. AloneIsAlone'
  <2>1. CASE \A q \in Proc : at[q] = "idle"  BY <2>1, Zenon DEF AloneIsAlone, Shape
  <2>2. CASE ~\A q \in Proc : at[q] = "idle"  BY <2>2, Zenon DEF AloneIsAlone, Shape
  <2> QED  BY <2>1, <2>2, Zenon
<1>3. SeekForgets'  BY Zenon DEF SeekForgets, Seeking, Shape
<1>4. Behind'
  <2>1. pos' >= safe'  BY Zenon DEF Behind, Shape
  <2>2. ASSUME NEW q \in Proc, at'[q] \in Transferring \cup {"unlock"}  PROVE off'[q] >= safe'
    BY <2>2 DEF Behind, Shape, Transferring
  <2> QED  BY <2>1, <2>2, Zenon DEF Behind
<1> QED  BY <1>1, <1>2, <1>3, <1>4, Zenon
\* A call takes a step of its own: it moves the position only to where it is
\* not before what must be kept, or a seek has given that up.
LEMMA MoveHolds ==
  ASSUME OffsetInv, NEW p \in Proc, NEW from \in Step, NEW to \in Step,
         Goto(p, from, to), from # "idle",
         pos' \in Int, pos' >= 0, pos' >= safe,
         off' = [q \in Proc |-> off'[q]], done' \in [Proc -> Nat],
         call' = call, alone' = alone, safe' = safe,
         \A q \in Proc : q # p => off'[q] = off[q] /\ done'[q] = done[q],
         to \in Transferring \cup {"unlock"} => off'[p] \in Int /\ off'[p] >= safe,
         to \in Seeking => from \in Seeking,
         to = "unlock" => pos' = off'[p] + done'[p]
  PROVE  OffsetInv'
<1> USE DEF OffsetInv, Goto
<1>1. Shape'  BY Zenon DEF Shape
<1>2. AloneIsAlone'
  <2> SUFFICES ASSUME NEW q \in alone'
               PROVE  /\ \A r \in Proc : r # q => at'[r] = "idle"
                      /\ at'[q] = "unlock" => pos' = off'[q] + done'[q]
    BY Zenon DEF AloneIsAlone
  <2>1. q = p  BY Zenon DEF AloneIsAlone, Shape
  <2> QED  BY <2>1, Zenon DEF AloneIsAlone, Shape
<1>3. SeekForgets'  BY Zenon DEF SeekForgets, Shape
<1>4. Behind'
  <2>1. pos' >= safe'  BY Zenon
  <2>2. ASSUME NEW q \in Proc, at'[q] \in Transferring \cup {"unlock"}  PROVE off'[q] >= safe'
    BY <2>2, Zenon DEF Behind, Shape
  <2> QED  BY <2>1, <2>2, Zenon DEF Behind
<1> QED  BY <1>1, <1>2, <1>3, <1>4, Zenon

\* A call returns; only one that ran alone gives a new position to keep.
LEMMA ReturnHolds ==
  ASSUME OffsetInv, NEW p \in Proc, NEW from \in Step, NEW x,
         Return(p, from, x), from # "idle",
         pos' \in Int, pos' >= 0, pos' >= safe',
         \/ safe' = safe
         \/ p \in alone /\ safe' = pos'
  PROVE  OffsetInv'
<1> USE DEF OffsetInv, Return, Goto
<1>1. Shape'  BY Zenon DEF Shape, Step, Transferring
<1>2. AloneIsAlone'
  <2> SUFFICES ASSUME NEW q \in alone'  PROVE FALSE  BY Zenon DEF AloneIsAlone
  <2> QED  BY Zenon DEF AloneIsAlone, Shape
<1>3. SeekForgets'  BY Zenon DEF SeekForgets, AloneIsAlone, Shape, Seeking
<1>4. Behind'
  <2>1. ASSUME NEW q \in Proc, at'[q] \in Transferring \cup {"unlock"}  PROVE off'[q] >= safe'
    BY <2>1, Zenon DEF Behind, AloneIsAlone, Shape, Transferring
  <2> QED  BY <2>1, Zenon DEF Behind
<1> QED  BY <1>1, <1>2, <1>3, <1>4, Zenon

\* The count of a read or write is a number.
LEMMA CountIsNat ==
  ASSUME Shape, NEW p \in Proc, call[p].name \in {"read", "write"}
  PROVE  call[p].count \in Nat
  BY OffsetAssumption DEF Shape, Rw, Seek, NoCall

\* The file system has read or written n bytes.
LEMMA Transferred ==
  ASSUME OffsetInv, NEW p \in Proc, NEW n \in Nat, Goto(p, "transfer", "set_pos"),
         done' = [done EXCEPT ![p] = n], UNCHANGED <<pos, call, off, alone, safe>>
  PROVE  OffsetInv'
<1>1. Shape /\ Behind /\ "transfer" \in Step /\ "set_pos" \in Step  BY Zenon DEF OffsetInv, Step
<1>2. off[p] \in Int /\ off[p] >= safe  BY <1>1, Zenon DEF Goto, Shape, Behind, Transferring
<1>3. /\ done' \in [Proc -> Nat]
      /\ \A q \in Proc : q # p => off'[q] = off[q] /\ done'[q] = done[q]
  BY <1>1, Zenon DEF Shape
<1> QED  BY <1>1, <1>2, <1>3, MoveHolds, Zenon DEF Shape, Behind, Seeking

\* Every step of the program preserves OffsetInv.
LEMMA StepHolds == OffsetInv /\ [Next]_vars => OffsetInv'
<1> SUFFICES ASSUME OffsetInv, [Next]_vars  PROVE OffsetInv'
  BY Zenon
<1>0. Shape /\ Behind /\ SeekForgets /\ AloneIsAlone  BY Zenon DEF OffsetInv
<1>a. {"idle", "lock", "tell", "transfer", "set_pos", "unlock", "stat", "lseek"} = Step  BY Zenon DEF Step
<1>1. ASSUME NEW p \in Proc, read_write(p)  PROVE OffsetInv'
  BY <1>1, BeginHolds, Zenon DEF read_write
<1>2. ASSUME NEW p \in Proc, seek(p)  PROVE OffsetInv'
  BY <1>2, BeginHolds, Zenon DEF seek
<1>3. ASSUME NEW p \in Proc, set_lock(p)  PROVE OffsetInv'
  BY <1>0, <1>a, <1>3, MoveHolds, Zenon DEF set_lock, ghosts, locals, Shape, Behind, Transferring, Seeking
<1>4. ASSUME NEW p \in Proc, tell(p)  PROVE OffsetInv'
  BY <1>0, <1>a, <1>4, MoveHolds, Zenon DEF tell, ghosts, Shape, Behind, Transferring, Seeking
<1>5. ASSUME NEW p \in Proc, transfer_read(p)  PROVE OffsetInv'
  <2>1. PICK n \in 0 .. call[p].count : done' = [done EXCEPT ![p] = n]  BY <1>5, Zenon DEF transfer_read
  <2>2. Goto(p, "transfer", "set_pos") /\ UNCHANGED <<pos, call, off, alone, safe>>
    BY <1>5, Zenon DEF transfer_read, ghosts
  <2>3. n \in Nat  BY <1>5, <2>1, CountIsNat, <1>0 DEF transfer_read
  <2> QED  BY <1>0, <1>a, <2>1, <2>2, <2>3, Transferred, Zenon
<1>6. ASSUME NEW p \in Proc, transfer_write(p)  PROVE OffsetInv'
  <2>1. PICK n \in 1 .. call[p].count : done' = [done EXCEPT ![p] = n]  BY <1>6, Zenon DEF transfer_write
  <2>2. Goto(p, "transfer", "set_pos") /\ UNCHANGED <<pos, call, off, alone, safe>>
    BY <1>6, Zenon DEF transfer_write, ghosts
  <2>3. n \in Nat  BY <1>6, <2>1, CountIsNat, <1>0 DEF transfer_write
  <2> QED  BY <1>0, <1>a, <2>1, <2>2, <2>3, Transferred, Zenon
<1>7. ASSUME NEW p \in Proc, set_pos(p)  PROVE OffsetInv'
  <2>1. Goto(p, "set_pos", "unlock") /\ UNCHANGED <<call, off, done, alone, safe>>
    BY <1>7, Zenon DEF set_pos, locals, ghosts
  <2>2. pos' = off[p] + done[p] /\ off[p] \in Int /\ done[p] \in Nat /\ safe \in Nat /\ off[p] >= safe
    BY <1>0, <1>7, <2>1 DEF set_pos, Goto, Shape, Behind, Transferring
  <2>3. pos' \in Int /\ pos' >= 0 /\ pos' >= safe  BY <2>2
  <2> QED  BY <1>0, <1>a, <2>1, <2>2, <2>3, MoveHolds, Zenon DEF Shape, Seeking
<1>8. ASSUME NEW p \in Proc, seek_stat(p)  PROVE OffsetInv'
  <2>1. Goto(p, "stat", "lseek") /\ UNCHANGED <<pos, call, done, alone, safe>>
    BY <1>8, Zenon DEF seek_stat, ghosts
  <2>2. \E x : off' = [off EXCEPT ![p] = x]  BY <1>8, Zenon DEF seek_stat
  <2> QED  BY <1>0, <1>a, <2>1, <2>2, MoveHolds, Zenon DEF Shape, Behind, Seeking, Transferring
<1>9. ASSUME NEW p \in Proc,
             lock_refused(p) \/ transfer_fails(p) \/ seek_past_end(p) \/ seek_stat_fails(p)
               \/ real_lseek_fails(p)
      PROVE  OffsetInv'
  BY <1>0, <1>a, <1>9, ReturnHolds
    , Zenon DEF lock_refused, transfer_fails, seek_past_end, seek_stat_fails, real_lseek_fails, Shape, Behind
<1>10. ASSUME NEW p \in Proc, unlock(p)  PROVE OffsetInv'
  <2>1. Return(p, "unlock", done[p]) /\ pos' = pos /\ pos >= safe  BY <1>0, <1>10, Zenon DEF unlock, Behind
  <2>2. CASE safe' = safe  BY <1>0, <1>a, <2>1, <2>2, ReturnHolds, Zenon DEF Shape
  <2>3. CASE p \in alone /\ safe' = off[p] + done[p]
    <3>1. pos = off[p] + done[p]  BY <1>0, <2>1, <2>3, Zenon DEF AloneIsAlone, Return, Goto
    <3> QED  BY <1>0, <1>a, <2>1, <2>3, <3>1, ReturnHolds, SMTT(30) DEF Shape
  <2> QED  BY <1>10, <2>2, <2>3, Zenon DEF unlock
<1>11. ASSUME NEW p \in Proc, real_lseek(p)  PROVE OffsetInv'
  <2>1. safe = 0 /\ safe' = safe  BY <1>0, <1>11, Zenon DEF real_lseek, SeekForgets, Seeking
  <2>2. pos' \in Int /\ pos' >= 0  BY <1>11, OffsetAssumption DEF real_lseek, Pos
  <2> QED  BY <1>a, <1>11, <2>1, <2>2, ReturnHolds, Zenon DEF real_lseek
<1>12. CASE foreign_lock
  BY <1>0, <1>12, Zenon DEF foreign_lock, locals, ghosts, OffsetInv, Shape, AloneIsAlone, SeekForgets, Behind
<1>13. CASE UNCHANGED vars
  BY <1>0, <1>13, Zenon DEF vars, locals, ghosts, OffsetInv, Shape, AloneIsAlone, SeekForgets, Behind
<1> QED
  BY <1>1, <1>2, <1>3, <1>4, <1>5, <1>6, <1>7, <1>8, <1>9, <1>10, <1>11, <1>12, <1>13, Zenon DEF Next

\* Bytes a write put into the file while it ran alone are not read or written
\* again until somebody seeks: for any number of processes, any bounds and any
\* overlapping of the later calls.
THEOREM WriteAloneIsKept == Spec => []AloneIsKept
<1>1. OffsetInv => AloneIsKept  BY DEF OffsetInv, Behind, AloneIsKept, Transferring
<1> QED  BY InitHolds, StepHolds, <1>1, PTL DEF Spec

----------------------------------------------------------------------------
\* The steps of a read or write, and of them those after the transfer.
Moved == {"set_pos", "unlock"}
Rwing == {"lock", "tell", "transfer"} \cup Moved

\* Which call a process is in, and that what it reads or writes ends at a
\* position.
CallsInv ==
  \A p \in Proc :
    /\ at[p] \in Rwing => call[p] \in Rw
    /\ at[p] \in Seeking => call[p] \in Seek
    /\ at[p] = "transfer" => off[p] \in Pos
    /\ at[p] \in Moved => off[p] \in Pos /\ off[p] + done[p] \in Pos

\* What a call that runs alone has done so far to the position and the file it
\* began with.
Effect(p) ==
  /\ at[p] # "idle"
  /\ at[p] # "unlock" => pos = begun[1]
  /\ at[p] \notin Moved => file = begun[2]
  /\ at[p] \in Moved \cup {"transfer"} => off[p] = begun[1]
  /\ at[p] \in Moved /\ call[p].name = "read" =>
       file = begun[2] /\ (done[p] > 0 => off[p] + done[p] <= file.len)
  /\ at[p] \in Moved /\ call[p].name = "write" =>
       done[p] > 0 /\ file = Written(begun[2], p, begun[1], done[p])
  /\ at[p] = "lseek" /\ call[p].whence = "END" => off[p] = file.len + call[p].offset
  /\ at[p] = "lseek" /\ call[p].whence = "HOLE" => off[p] = file.len
  /\ at[p] = "lseek" /\ call[p].whence \in {"DATA", "other"} => off[p] = call[p].offset

EffectInv == \A p \in alone : Effect(p)

AtomicInv == OffsetInv /\ TypeOK /\ CallsInv /\ EffectInv

----------------------------------------------------------------------------
\* AtomicInv holds at first.
LEMMA InitAtomic == Init => AtomicInv
<1> SUFFICES ASSUME Init  PROVE AtomicInv
  BY Zenon
<1>1. OffsetInv  BY InitHolds, Zenon
<1>2. 0 \in Pos /\ 0 \in 0 .. MaxCount  BY OffsetAssumption DEF Pos
<1>3. TypeOK
  <2>1. foreign \in BOOLEAN  BY Zenon DEF Init
  <2>2. file.len \in Pos /\ DOMAIN file.bytes = 0 .. MaxPos - 1  BY <1>2, Zenon DEF Init, Empty
  <2>3. at \in [Proc -> Step] /\ call \in [Proc -> Rw \cup Seek \cup {NoCall}]  BY Zenon DEF Init, Step
  <2>4. off \in [Proc -> Int] /\ done \in [Proc -> 0 .. MaxCount] /\ rv \in Int  BY <1>2 DEF Init
  <2>5. pos \in Pos /\ safe \in Pos /\ locked \subseteq Proc /\ alone \subseteq Proc  BY <1>2, Zenon DEF Init
  <2> QED  BY <2>1, <2>2, <2>3, <2>4, <2>5, Zenon DEF TypeOK
<1>4. CallsInv  BY Zenon DEF Init, CallsInv, Rwing, Moved, Seeking
<1>5. EffectInv  BY Zenon DEF Init, EffectInv
<1> QED  BY <1>1, <1>3, <1>4, <1>5, Zenon DEF AtomicInv

\* The parts of the sets of steps.
LEMMA Steps ==
  /\ \A a \in Rwing : a \in Step /\ a # "idle" /\ a \notin Seeking
  /\ \A a \in Seeking : a \in Step /\ a # "idle" /\ a \notin Rwing /\ a \notin Moved /\ a # "transfer"
  /\ "idle" \in Step /\ "idle" \notin Rwing /\ "idle" \notin Seeking /\ "idle" \notin Moved
  /\ Moved \subseteq Rwing /\ "transfer" \in Rwing
  /\ "lock" \in Rwing /\ "lock" \notin Moved /\ "tell" \in Rwing /\ "tell" \notin Moved
  BY Zenon DEF Rwing, Moved, Seeking, Step

\* The types when a call begins, takes a step and returns.
LEMMA TypesBegin ==
  ASSUME TypeOK, CallsInv, NEW p \in Proc, NEW c \in Rw \cup Seek, NEW first,
         Begin(p, c, first), safe' \in Pos,
         (c \in Rw /\ first = "lock") \/ (c \in Seek /\ first \in Seeking)
  PROVE  TypeOK' /\ CallsInv'
<1>1. first \in Step /\ first # "transfer" /\ first \notin Moved /\ (first \in Rwing => c \in Rw)
        /\ (first \in Seeking => c \in Seek)
  BY Steps, Zenon DEF Moved
<1>2. /\ UNCHANGED <<pos, file, foreign, locked, off, done>> /\ rv' = 0 /\ alone' \subseteq Proc
      /\ at' = [at EXCEPT ![p] = first] /\ call' = [call EXCEPT ![p] = c]
  BY Zenon DEF Begin
<1>3. at' \in [Proc -> Step] /\ call' \in [Proc -> Rw \cup Seek \cup {NoCall}]
  BY <1>1, <1>2, Zenon DEF TypeOK
<1>4. TypeOK'
  BY <1>2, <1>3 DEF TypeOK
<1>5. ASSUME NEW q \in Proc
      PROVE  /\ at'[q] \in Rwing => call'[q] \in Rw
             /\ at'[q] \in Seeking => call'[q] \in Seek
             /\ at'[q] = "transfer" => off'[q] \in Pos
             /\ at'[q] \in Moved => off'[q] \in Pos /\ off'[q] + done'[q] \in Pos
  <2>1. CASE q = p
    <3>1. at'[q] = first /\ call'[q] = c  BY <1>2, <2>1, Zenon DEF TypeOK
    <3> QED  BY <1>1, <3>1, Zenon
  <2>2. CASE q # p
    <3>1. at'[q] = at[q] /\ call'[q] = call[q] /\ off'[q] = off[q] /\ done'[q] = done[q]
      BY <1>2, <2>2, Zenon DEF TypeOK
    <3> QED  BY <3>1, Zenon DEF CallsInv
  <2> QED  BY <2>1, <2>2, Zenon
<1> QED  BY <1>4, <1>5, Zenon DEF CallsInv

\* Types, where a process goes to the next step of its call.
LEMMA TypesMove ==
  ASSUME TypeOK, CallsInv, NEW p \in Proc, NEW from \in Step, NEW to \in Step, Goto(p, from, to),
         pos' \in Pos, file'.len \in Pos, DOMAIN file'.bytes = 0 .. MaxPos - 1,
         call' = call, safe' = safe, alone' = alone, foreign' = foreign, locked' \subseteq Proc, rv' = rv,
         off' \in [Proc -> Int], done' \in [Proc -> 0 .. MaxCount],
         \A q \in Proc : q # p => off'[q] = off[q] /\ done'[q] = done[q],
         to \in Rwing => from \in Rwing,
         to \in Seeking => from \in Seeking,
         to = "transfer" => off'[p] \in Pos,
         to \in Moved => off'[p] \in Pos /\ off'[p] + done'[p] \in Pos
  PROVE  TypeOK' /\ CallsInv'
<1>1. at' \in [Proc -> Step] /\ at'[p] = to /\ at[p] = from /\ \A q \in Proc : q # p => at'[q] = at[q]
  BY Zenon DEF Goto, TypeOK
<1>2. TypeOK'
  BY <1>1, Zenon DEF TypeOK
<1>3. ASSUME NEW q \in Proc
      PROVE  /\ at'[q] \in Rwing => call'[q] \in Rw
             /\ at'[q] \in Seeking => call'[q] \in Seek
             /\ at'[q] = "transfer" => off'[q] \in Pos
             /\ at'[q] \in Moved => off'[q] \in Pos /\ off'[q] + done'[q] \in Pos
  <2>1. CASE q = p  BY <1>1, <2>1, Zenon DEF CallsInv
  <2>2. CASE q # p
    <3>1. at'[q] = at[q] /\ call'[q] = call[q] /\ off'[q] = off[q] /\ done'[q] = done[q]
      BY <1>1, <2>2, Zenon
    <3> QED  BY <3>1, Zenon DEF CallsInv
  <2> QED  BY <2>1, <2>2, Zenon
<1> QED  BY <1>2, <1>3, Zenon DEF CallsInv

\* Types, where a process returns from its call.
LEMMA TypesReturn ==
  ASSUME TypeOK, CallsInv, NEW p \in Proc, NEW from, NEW x \in Int, Return(p, from, x),
         pos' \in Pos, file' = file, safe' \in Pos, foreign' = foreign, locked' \subseteq Proc
  PROVE  TypeOK' /\ CallsInv'
<1>1. /\ at' = [at EXCEPT ![p] = "idle"] /\ rv' = x /\ call' = [call EXCEPT ![p] = NoCall]
      /\ off' = [off EXCEPT ![p] = 0] /\ done' = [done EXCEPT ![p] = 0] /\ alone' \subseteq alone
  BY Zenon DEF Return, Goto
<1>2. 0 \in 0 .. MaxCount  BY OffsetAssumption
<1>3. /\ at' \in [Proc -> Step] /\ call' \in [Proc -> Rw \cup Seek \cup {NoCall}]
      /\ off' \in [Proc -> Int] /\ done' \in [Proc -> 0 .. MaxCount]
  BY <1>1, <1>2, Steps DEF TypeOK
<1>4. TypeOK'
  BY <1>1, <1>3, Zenon DEF TypeOK
<1>5. ASSUME NEW q \in Proc
      PROVE  /\ at'[q] \in Rwing => call'[q] \in Rw
             /\ at'[q] \in Seeking => call'[q] \in Seek
             /\ at'[q] = "transfer" => off'[q] \in Pos
             /\ at'[q] \in Moved => off'[q] \in Pos /\ off'[q] + done'[q] \in Pos
  <2>1. CASE q = p
    <3>1. at'[q] = "idle"  BY <1>1, <2>1, Zenon DEF TypeOK
    <3> QED  BY <3>1, Steps, Zenon
  <2>2. CASE q # p
    <3>1. at'[q] = at[q] /\ call'[q] = call[q] /\ off'[q] = off[q] /\ done'[q] = done[q]
      BY <1>1, <2>2, Zenon DEF TypeOK
    <3> QED  BY <3>1, Zenon DEF CallsInv
  <2> QED  BY <2>1, <2>2, Zenon
<1> QED  BY <1>4, <1>5, Zenon DEF CallsInv

\* What lseek returns is an int: the position if it fits one.
LEMMA AsIntFacts ==
  ASSUME NEW x \in Nat
  PROVE  /\ AsInt(x) \in Int /\ AsInt(x) <= IntMax
         /\ x <= IntMax => AsInt(x) = x
<1> DEFINE d == 2 * (IntMax + 1)
           y == x + IntMax + 1
<1>1. d \in Nat \ {0} /\ y \in Nat /\ IntMax \in Nat /\ d = 2 * IntMax + 2 /\ y = x + IntMax + 1
  BY OffsetAssumption
<1>2. AsInt(x) = (y % d) - (IntMax + 1)  BY Zenon DEF AsInt
<1> HIDE DEF d, y
<1>3. y % d \in 0 .. d - 1  BY <1>1
<1>4. y < d => y % d = y  BY <1>1
<1> QED  BY <1>1, <1>2, <1>3, <1>4

\* Every step of the program preserves the types and CallsInv.
LEMMA TypesHold == AtomicInv /\ [Next]_vars => TypeOK' /\ CallsInv'
<1> SUFFICES ASSUME AtomicInv, [Next]_vars  PROVE TypeOK' /\ CallsInv'
  BY Zenon
<1>0. TypeOK /\ CallsInv /\ OffsetInv  BY Zenon DEF AtomicInv
<1>a. {"idle", "lock", "tell", "transfer", "set_pos", "unlock", "stat", "lseek"} = Step  BY Zenon DEF Step
<1>1. ASSUME NEW p \in Proc, read_write(p)  PROVE TypeOK' /\ CallsInv'
  BY <1>0, <1>1, TypesBegin, Zenon DEF read_write, TypeOK
<1>2. ASSUME NEW p \in Proc, seek(p)  PROVE TypeOK' /\ CallsInv'
  <2>1. 0 \in Pos  BY OffsetAssumption DEF Pos
  <2> QED  BY <1>0, <1>2, <2>1, TypesBegin, Zenon DEF seek, Seeking
<1>3. ASSUME NEW p \in Proc, set_lock(p)  PROVE TypeOK' /\ CallsInv'
  <2>1. /\ Goto(p, "lock", "tell") /\ UNCHANGED <<pos, file, foreign, call, off, done, rv, alone, safe>>
        /\ locked' \subseteq Proc
    BY <1>0, <1>3, Zenon DEF set_lock, locals, ghosts, TypeOK
  <2> QED  BY <1>0, <1>a, <2>1, TypesMove, Zenon DEF TypeOK, Rwing, Moved, Seeking
<1>4. ASSUME NEW p \in Proc, tell(p)  PROVE TypeOK' /\ CallsInv'
  <2>1. /\ Goto(p, "tell", "transfer") /\ UNCHANGED <<pos, file, foreign, locked, call, done, rv, alone, safe>>
        /\ off' = [off EXCEPT ![p] = pos] /\ pos \in Int
    BY <1>0, <1>4, OffsetAssumption DEF tell, ghosts, TypeOK, Pos
  <2>2. off' \in [Proc -> Int] /\ off'[p] \in Pos /\ \A q \in Proc : q # p => off'[q] = off[q]
    BY <1>0, <2>1, Zenon DEF TypeOK
  <2> QED  BY <1>0, <1>a, <2>1, <2>2, TypesMove, Zenon DEF TypeOK, Rwing, Moved, Seeking
<1>5. ASSUME NEW p \in Proc, NEW n \in 0 .. MaxCount, Goto(p, "transfer", "set_pos"),
             done' = [done EXCEPT ![p] = n], off[p] + n \in Pos,
             file'.len \in Pos, DOMAIN file'.bytes = 0 .. MaxPos - 1,
             UNCHANGED <<pos, foreign, locked, call, off, rv, alone, safe>>
      PROVE  TypeOK' /\ CallsInv'
  <2>1. done' \in [Proc -> 0 .. MaxCount] /\ done'[p] = n /\ \A q \in Proc : q # p => done'[q] = done[q]
    BY <1>0, <1>5, Zenon DEF TypeOK
  <2>2. off[p] \in Pos  BY <1>0, <1>5, Zenon DEF CallsInv, Goto
  <2> QED  BY <1>0, <1>a, <1>5, <2>1, <2>2, TypesMove, Zenon DEF TypeOK, Rwing, Moved, Seeking
<1>6. ASSUME NEW p \in Proc, transfer_read(p)  PROVE TypeOK' /\ CallsInv'
  <2>1. PICK n \in 0 .. call[p].count :
          /\ IF n = 0 THEN off[p] >= file.len ELSE off[p] + n <= file.len
          /\ done' = [done EXCEPT ![p] = n]
    BY <1>6, Zenon DEF transfer_read
  <2>2. /\ Goto(p, "transfer", "set_pos") /\ UNCHANGED <<pos, file, foreign, locked, call, off, rv, alone, safe>>
    BY <1>6, Zenon DEF transfer_read, ghosts
  <2>3. call[p] \in Rw /\ off[p] \in Pos  BY <1>0, <2>2, Zenon DEF CallsInv, Goto, Rwing
  <2>4. n \in 0 .. MaxCount  BY <2>3, OffsetAssumption DEF Rw
  <2>5. off[p] + n \in Pos  BY <1>0, <2>1, <2>3, <2>4, OffsetAssumption DEF TypeOK, Pos
  <2> QED  BY <1>0, <1>5, <2>1, <2>2, <2>4, <2>5, Zenon DEF TypeOK
<1>7. ASSUME NEW p \in Proc, transfer_write(p)  PROVE TypeOK' /\ CallsInv'
  <2>1. PICK n \in 1 .. call[p].count :
          off[p] + n <= MaxPos /\ done' = [done EXCEPT ![p] = n] /\ file' = Written(file, p, off[p], n)
    BY <1>7, Zenon DEF transfer_write
  <2>2. /\ Goto(p, "transfer", "set_pos") /\ UNCHANGED <<pos, foreign, locked, call, off, rv, alone, safe>>
    BY <1>7, Zenon DEF transfer_write, ghosts
  <2>3. call[p] \in Rw /\ off[p] \in Pos  BY <1>0, <2>2, Zenon DEF CallsInv, Goto, Rwing
  <2>4. n \in 0 .. MaxCount  BY <2>3, OffsetAssumption DEF Rw
  <2>5. off[p] + n \in Pos  BY <2>1, <2>3, <2>4, OffsetAssumption DEF Pos
  <2>6. file'.len = Greatest(file.len, off[p] + n) /\ DOMAIN file'.bytes = DOMAIN file.bytes
    BY <2>1, Zenon DEF Written
  <2>7. file'.len \in Pos  BY <1>0, <2>5, <2>6, Zenon DEF TypeOK, Greatest
  <2> QED  BY <1>0, <1>5, <2>1, <2>2, <2>4, <2>5, <2>6, <2>7, Zenon DEF TypeOK
<1>8. ASSUME NEW p \in Proc, set_pos(p)  PROVE TypeOK' /\ CallsInv'
  <2>1. /\ Goto(p, "set_pos", "unlock") /\ UNCHANGED <<file, foreign, locked, call, off, done, rv, alone, safe>>
        /\ pos' = off[p] + done[p]
    BY <1>8, Zenon DEF set_pos, locals, ghosts
  <2>2. off[p] \in Pos /\ off[p] + done[p] \in Pos  BY <1>0, <2>1, Zenon DEF CallsInv, Goto, Moved
  <2> QED  BY <1>0, <1>a, <2>1, <2>2, TypesMove, Zenon DEF TypeOK, Rwing, Moved, Seeking
<1>9. ASSUME NEW p \in Proc, seek_stat(p)  PROVE TypeOK' /\ CallsInv'
  <2>1. Goto(p, "stat", "lseek") /\ UNCHANGED <<pos, file, foreign, locked, call, done, rv, alone, safe>>
    BY <1>9, Zenon DEF seek_stat, ghosts
  <2>2. call[p] \in Seek /\ file.len \in Int
    BY <1>0, <2>1, OffsetAssumption DEF CallsInv, Goto, Seeking, TypeOK, Pos
  <2> DEFINE x == CASE call[p].whence = "END" -> call[p].offset + file.len
                    [] call[p].whence = "HOLE" -> file.len
                    [] OTHER -> call[p].offset
  <2>3. x \in Int /\ off' = [off EXCEPT ![p] = x]
    <3>1. call[p].offset \in Int  BY <2>2, OffsetAssumption DEF Seek
    <3>2. x \in Int  BY <2>2, <3>1
    <3> QED  BY <1>9, <3>2, Zenon DEF seek_stat
  <2> HIDE DEF x
  <2>4. off' \in [Proc -> Int] /\ \A q \in Proc : q # p => off'[q] = off[q]
    BY <1>0, <2>3, Zenon DEF TypeOK
  <2> QED  BY <1>0, <1>a, <2>1, <2>4, TypesMove, Zenon DEF TypeOK, Rwing, Moved, Seeking
<1>10. ASSUME NEW p \in Proc,
              lock_refused(p) \/ transfer_fails(p) \/ seek_past_end(p) \/ seek_stat_fails(p)
                \/ real_lseek_fails(p)
       PROVE  TypeOK' /\ CallsInv'
  <2>1. \E from : Return(p, from, 0) \/ Return(p, from, -1)
    BY <1>10, Zenon DEF lock_refused, transfer_fails, seek_past_end, seek_stat_fails, real_lseek_fails
  <2>2. UNCHANGED <<pos, file, foreign, locked, safe>>
    BY <1>10, Zenon DEF lock_refused, transfer_fails, seek_past_end, seek_stat_fails, real_lseek_fails
  <2> QED  BY <1>0, <2>1, <2>2, TypesReturn DEF TypeOK
<1>11. ASSUME NEW p \in Proc, unlock(p)  PROVE TypeOK' /\ CallsInv'
  <2>1. /\ Return(p, "unlock", done[p]) /\ UNCHANGED <<pos, file, foreign>> /\ locked' \subseteq locked
        /\ safe' = safe \/ safe' = off[p] + done[p]
    BY <1>11, Zenon DEF unlock
  <2>2. done[p] \in Int /\ off[p] + done[p] \in Pos
    BY <1>0, <2>1 DEF TypeOK, CallsInv, Return, Goto, Moved
  <2> QED  BY <1>0, <2>1, <2>2, TypesReturn, Zenon DEF TypeOK
<1>12. ASSUME NEW p \in Proc, real_lseek(p)  PROVE TypeOK' /\ CallsInv'
  <2>1. /\ Return(p, "lseek", AsInt(Target(p))) /\ pos' = Target(p) /\ Target(p) \in Pos
        /\ UNCHANGED <<file, foreign, locked, safe>>
    BY <1>12, Zenon DEF real_lseek
  <2>2. AsInt(Target(p)) \in Int
    <3>1. Target(p) \in Nat  BY <2>1, OffsetAssumption DEF Pos
    <3> QED  BY <3>1, AsIntFacts, Zenon
  <2> QED  BY <1>0, <2>1, <2>2, TypesReturn, Zenon DEF TypeOK
<1>13. CASE foreign_lock
  <2>1. /\ UNCHANGED <<pos, file, locked, at, call, off, done, rv, alone, safe>>
    BY <1>13, Zenon DEF foreign_lock, locals, ghosts
  <2>2. foreign' \in BOOLEAN  BY <1>13, Zenon DEF foreign_lock
  <2>3. TypeOK'  BY <1>0, <2>1, <2>2, Zenon DEF TypeOK
  <2> QED  BY <1>0, <2>1, <2>3, Zenon DEF CallsInv
<1>14. CASE UNCHANGED vars
  <2>1. TypeOK'  BY <1>0, <1>14, Zenon DEF TypeOK, vars, locals, ghosts
  <2> QED  BY <1>0, <1>14, <2>1, Zenon DEF CallsInv, vars, locals, ghosts
<1> QED
  BY <1>1, <1>2, <1>3, <1>4, <1>6, <1>7, <1>8, <1>9, <1>10, <1>11, <1>12, <1>13, <1>14, Zenon DEF Next

\* While a call runs alone nobody else takes a step of a call, and what ends it
\* ends its being alone.
LEMMA AloneActs ==
  ASSUME AtomicInv, NEW p \in alone, NEW q \in Proc, NEW from, NEW to,
         Goto(q, from, to), from # "idle"
  PROVE  p = q /\ p \in Proc /\ alone = {p} /\ at[p] = from /\ at'[p] = to
<1>1. p \in Proc /\ at[p] # "idle" /\ at \in [Proc -> Step] /\ alone \subseteq Proc
      /\ \A r \in Proc : r # p => at[r] = "idle"
  BY Zenon DEF AtomicInv, TypeOK, EffectInv, Effect, OffsetInv, AloneIsAlone
<1>2. at[q] = from /\ at'[q] = to  BY <1>1, Zenon DEF Goto
<1>3. \A r \in alone : at[r] # "idle"  BY Zenon DEF AtomicInv, EffectInv, Effect
<1> QED  BY <1>1, <1>2, <1>3, Zenon

\* A step of a call keeps EffectInv when it does for the process that takes it.
LEMMA EffectMove ==
  ASSUME AtomicInv, NEW p \in Proc, NEW from, NEW to, Goto(p, from, to), from # "idle",
         alone' = alone, p \in alone => Effect(p)'
  PROVE  EffectInv'
  BY AloneActs, Zenon DEF EffectInv

\* When it returns nobody is alone.
LEMMA EffectReturn ==
  ASSUME AtomicInv, NEW p \in Proc, NEW from, NEW x, Return(p, from, x), from # "idle"
  PROVE  EffectInv'
<1>1. \A q \in alone : q = p  BY AloneActs, Zenon DEF Return
<1> QED  BY <1>1, Zenon DEF EffectInv, Return

\* A call that begins has done nothing.
LEMMA EffectBegin ==
  ASSUME AtomicInv, NEW p \in Proc, NEW c, NEW first \in {"lock", "stat", "lseek"}, Begin(p, c, first),
         first = "lseek" => c.whence \in {"SET", "CUR"}
  PROVE  EffectInv'
<1>1. CASE \A q \in Proc : at[q] = "idle"
  <2>1. /\ alone' = {p} /\ begun' = <<pos, file>> /\ pos' = pos /\ file' = file
        /\ at'[p] = first /\ call'[p] = c
    BY <1>1, Zenon DEF Begin, AtomicInv, TypeOK
  <2>2. Effect(p)'  BY <2>1, Zenon DEF Effect, Moved
  <2> QED  BY <2>1, <2>2, Zenon DEF EffectInv
<1>2. CASE ~\A q \in Proc : at[q] = "idle"
  BY <1>2, Zenon DEF Begin, EffectInv
<1> QED  BY <1>1, <1>2, Zenon

\* Every step of the program preserves EffectInv.
LEMMA EffectHolds == AtomicInv /\ [Next]_vars => EffectInv'
<1> SUFFICES ASSUME AtomicInv, [Next]_vars  PROVE EffectInv'
  BY Zenon
<1>0. TypeOK /\ CallsInv /\ EffectInv  BY Zenon DEF AtomicInv
<1>1. ASSUME NEW p \in Proc, read_write(p)  PROVE EffectInv'
  BY <1>1, EffectBegin, Zenon DEF read_write
<1>2. ASSUME NEW p \in Proc, seek(p)  PROVE EffectInv'
  BY <1>2, EffectBegin, Zenon DEF seek
<1>3. ASSUME NEW p \in Proc, set_lock(p)  PROVE EffectInv'
  <2>1. Goto(p, "lock", "tell") /\ UNCHANGED <<pos, file, call, off, done, alone, begun>>
    BY <1>3, Zenon DEF set_lock, locals, ghosts
  <2>2. ASSUME p \in alone  PROVE Effect(p)'
    <3>1. Effect(p) /\ at[p] = "lock" /\ at'[p] = "tell"
      BY <1>0, <2>1, <2>2, Zenon DEF EffectInv, Goto, TypeOK
    <3> QED  BY <2>1, <3>1, Zenon DEF Effect, Moved
  <2> QED  BY <2>1, <2>2, EffectMove, Zenon
<1>4. ASSUME NEW p \in Proc, tell(p)  PROVE EffectInv'
  <2>1. Goto(p, "tell", "transfer") /\ UNCHANGED <<pos, file, call, done, alone, begun>> /\ off'[p] = pos
    BY <1>0, <1>4, Zenon DEF tell, ghosts, TypeOK
  <2>2. ASSUME p \in alone  PROVE Effect(p)'
    <3>1. Effect(p) /\ at[p] = "tell" /\ at'[p] = "transfer"
      BY <1>0, <2>1, <2>2, Zenon DEF EffectInv, Goto, TypeOK
    <3> QED  BY <2>1, <3>1, Zenon DEF Effect, Moved
  <2> QED  BY <2>1, <2>2, EffectMove, Zenon
<1>5. ASSUME NEW p \in Proc, transfer_read(p)  PROVE EffectInv'
  <2>1. PICK n \in 0 .. call[p].count :
          /\ IF n = 0 THEN off[p] >= file.len ELSE off[p] + n <= file.len
          /\ done' = [done EXCEPT ![p] = n]
    BY <1>5, Zenon DEF transfer_read
  <2>2. /\ Goto(p, "transfer", "set_pos") /\ UNCHANGED <<pos, file, call, off, alone, begun>>
        /\ done'[p] = n /\ call[p].name = "read"
    BY <1>0, <1>5, <2>1, Zenon DEF transfer_read, ghosts, TypeOK
  <2>3. ASSUME p \in alone  PROVE Effect(p)'
    <3>1. Effect(p) /\ at[p] = "transfer" /\ at'[p] = "set_pos"
      BY <1>0, <2>2, <2>3, Zenon DEF EffectInv, Goto, TypeOK
    <3>2. n > 0 => off[p] + n <= file.len  BY <2>1
    <3> QED  BY <2>2, <3>1, <3>2, Zenon DEF Effect, Moved
  <2> QED  BY <2>2, <2>3, EffectMove, Zenon
<1>6. ASSUME NEW p \in Proc, transfer_write(p)  PROVE EffectInv'
  <2>1. PICK n \in 1 .. call[p].count :
          done' = [done EXCEPT ![p] = n] /\ file' = Written(file, p, off[p], n)
    BY <1>6, Zenon DEF transfer_write
  <2>2. /\ Goto(p, "transfer", "set_pos") /\ UNCHANGED <<pos, call, off, alone, begun>>
        /\ done'[p] = n /\ call[p].name = "write"
    BY <1>0, <1>6, <2>1, Zenon DEF transfer_write, ghosts, TypeOK
  <2>3. ASSUME p \in alone  PROVE Effect(p)'
    <3>1. Effect(p) /\ at[p] = "transfer" /\ at'[p] = "set_pos"
      BY <1>0, <2>2, <2>3, Zenon DEF EffectInv, Goto, TypeOK
    <3>2. n > 0  OBVIOUS
    <3>3. file = begun[2] /\ off[p] = begun[1] /\ pos = begun[1]  BY <3>1, Zenon DEF Effect, Moved
    <3>4. file' = Written(begun[2], p, begun[1], done'[p])  BY <2>1, <2>2, <3>3, Zenon
    <3> QED  BY <2>2, <3>1, <3>2, <3>3, <3>4, Zenon DEF Effect, Moved
  <2> QED  BY <2>2, <2>3, EffectMove, Zenon
<1>7. ASSUME NEW p \in Proc, set_pos(p)  PROVE EffectInv'
  <2>1. Goto(p, "set_pos", "unlock") /\ UNCHANGED <<file, call, off, done, alone, begun>>
    BY <1>7, Zenon DEF set_pos, locals, ghosts
  <2>2. ASSUME p \in alone  PROVE Effect(p)'
    <3>1. Effect(p) /\ at[p] = "set_pos" /\ at'[p] = "unlock"
      BY <1>0, <2>1, <2>2, Zenon DEF EffectInv, Goto, TypeOK
    <3> QED  BY <2>1, <3>1, Zenon DEF Effect, Moved
  <2> QED  BY <2>1, <2>2, EffectMove, Zenon
<1>8. ASSUME NEW p \in Proc, seek_stat(p)  PROVE EffectInv'
  <2>1. /\ Goto(p, "stat", "lseek") /\ UNCHANGED <<pos, file, call, done, alone, begun>>
        /\ off'[p] = CASE call[p].whence = "END" -> call[p].offset + file.len
                       [] call[p].whence = "HOLE" -> file.len
                       [] OTHER -> call[p].offset
    BY <1>0, <1>8, Zenon DEF seek_stat, ghosts, TypeOK
  <2>2. call[p].offset \in Int /\ file.len \in Int
    BY <1>0, <2>1, OffsetAssumption DEF CallsInv, Goto, Seeking, Seek, TypeOK, Pos
  <2>3. ASSUME p \in alone  PROVE Effect(p)'
    <3>1. Effect(p) /\ at[p] = "stat" /\ at'[p] = "lseek"
      BY <1>0, <2>1, <2>3, Zenon DEF EffectInv, Goto, TypeOK
    <3>2. /\ call[p].whence = "END" => off'[p] = file.len + call[p].offset
          /\ call[p].whence = "HOLE" => off'[p] = file.len
          /\ call[p].whence \in {"DATA", "other"} => off'[p] = call[p].offset
      BY <2>1, <2>2
    <3> QED  BY <2>1, <3>1, <3>2, Zenon DEF Effect, Moved
  <2> QED  BY <2>1, <2>3, EffectMove, Zenon
<1>9. ASSUME NEW p \in Proc,
             lock_refused(p) \/ transfer_fails(p) \/ seek_past_end(p) \/ seek_stat_fails(p)
               \/ real_lseek_fails(p) \/ unlock(p) \/ real_lseek(p)
      PROVE  EffectInv'
  BY <1>9, EffectReturn
    , Zenon DEF lock_refused, transfer_fails, seek_past_end, seek_stat_fails, real_lseek_fails, unlock, real_lseek
<1>10. CASE foreign_lock
  BY <1>0, <1>10, Zenon DEF foreign_lock, locals, ghosts, EffectInv, Effect
<1>11. CASE UNCHANGED vars
  BY <1>0, <1>11, Zenon DEF vars, locals, ghosts, EffectInv, Effect
<1> QED
  BY <1>1, <1>2, <1>3, <1>4, <1>5, <1>6, <1>7, <1>8, <1>9, <1>10, <1>11, Zenon DEF Next

----------------------------------------------------------------------------
\* Who runs alone and is idle afterwards has returned: the last step of its call.
LEMMA AloneReturns ==
  ASSUME AtomicInv, [Next]_vars, NEW p \in alone, at'[p] = "idle"
  PROVE  /\ p \in Proc
         /\ \/ lock_refused(p) \/ transfer_fails(p) \/ seek_past_end(p) \/ seek_stat_fails(p)
            \/ real_lseek_fails(p) \/ unlock(p) \/ real_lseek(p)
<1>1. p \in Proc /\ at[p] # "idle" /\ at \in [Proc -> Step]
  BY Zenon DEF AtomicInv, TypeOK, EffectInv, Effect
<1>2. ASSUME NEW q \in Proc, read_write(q) \/ seek(q)  PROVE FALSE
  <2>1. PICK first : first \in {"lock", "stat", "lseek"} /\ at' = [at EXCEPT ![q] = first]
    BY <1>2, Zenon DEF read_write, seek, Begin
  <2> QED  BY <1>1, <2>1, Zenon
<1>3. ASSUME NEW q \in Proc,
             set_lock(q) \/ tell(q) \/ transfer_read(q) \/ transfer_write(q) \/ set_pos(q) \/ seek_stat(q)
      PROVE  FALSE
  <2>1. PICK to \in Step \ {"idle"} : at' = [at EXCEPT ![q] = to]
    BY <1>3, Zenon DEF set_lock, tell, transfer_read, transfer_write, set_pos, seek_stat, Goto, Step
  <2> QED  BY <1>1, <2>1, Zenon
<1>4. ASSUME NEW q \in Proc,
             lock_refused(q) \/ transfer_fails(q) \/ seek_past_end(q) \/ seek_stat_fails(q)
               \/ real_lseek_fails(q) \/ unlock(q) \/ real_lseek(q)
      PROVE  p = q
  BY <1>1, <1>4, AloneActs
     DEF lock_refused, transfer_fails, seek_past_end, seek_stat_fails, real_lseek_fails, unlock,
         real_lseek, Return
<1>5. ~(UNCHANGED vars) /\ ~foreign_lock
  BY <1>1, Zenon DEF vars, foreign_lock
<1> QED  BY <1>1, <1>2, <1>3, <1>4, <1>5, Zenon DEF Next

\* The last step of a call that ran alone completes what the call does as one.
LEMMA AtomicStep ==
  ASSUME AtomicInv, [Next]_vars, NEW p \in alone, at'[p] = "idle"
  PROVE  AsOneStep(call[p], p, begun)
<1>0. p \in Proc /\ Effect(p) /\ TypeOK /\ CallsInv
  BY AloneReturns, Zenon DEF AtomicInv, EffectInv
<1>1. CASE lock_refused(p) \/ transfer_fails(p)
  <2>1. at[p] \in {"lock", "transfer"} /\ rv' \in {0, -1} /\ pos' = pos /\ file' = file
    BY <1>1, Zenon DEF lock_refused, transfer_fails, Return, Goto
  <2>2. pos = begun[1] /\ file = begun[2] /\ call[p].name # "lseek"
    BY <1>0, <2>1, Zenon DEF Effect, Moved, CallsInv, Rwing, Rw
  <2> QED  BY <2>1, <2>2 DEF AsOneStep
<1>2. CASE seek_past_end(p) \/ seek_stat_fails(p) \/ real_lseek_fails(p)
  <2>1. at[p] \in {"stat", "lseek"} /\ rv' = -1 /\ pos' = pos /\ file' = file
    BY <1>2, Zenon DEF seek_past_end, seek_stat_fails, real_lseek_fails, Return, Goto
  <2>2. pos = begun[1] /\ file = begun[2] /\ call[p].name = "lseek"
    BY <1>0, <2>1, Zenon DEF Effect, Moved, CallsInv, Seeking, Seek
  <2> QED  BY <2>1, <2>2, Zenon DEF AsOneStep
<1>3. CASE unlock(p)
  <2>1. at[p] = "unlock" /\ rv' = done[p] /\ pos' = pos /\ file' = file
    BY <1>3, Zenon DEF unlock, Return, Goto
  <2>2. call[p] \in Rw /\ pos = off[p] + done[p] /\ off[p] = begun[1] /\ done[p] \in Nat /\ off[p] \in Int
    BY <1>0, <2>1, OffsetAssumption
       DEF Effect, Moved, CallsInv, Rwing, TypeOK, AtomicInv, OffsetInv, AloneIsAlone
  <2>3. CASE call[p].name = "read"
    <3>1. file = begun[2] /\ (done[p] > 0 => off[p] + done[p] <= file.len)
      BY <1>0, <2>1, <2>3, Zenon DEF Effect, Moved
    <3>2. CASE done[p] = 0
      <4>1. rv' <= 0 /\ pos' = begun[1]  BY <2>1, <2>2, <3>2
      <4> QED  BY <2>1, <2>3, <3>1, <4>1, Zenon DEF AsOneStep
    <3>3. CASE done[p] > 0
      <4>1. rv' > 0 /\ pos' = begun[1] + rv' /\ pos' <= begun[2].len  BY <2>1, <2>2, <3>1, <3>3, Zenon
      <4> QED  BY <2>1, <2>3, <3>1, <4>1, Zenon DEF AsOneStep
    <3> QED  BY <2>2, <3>2, <3>3
  <2>4. CASE call[p].name = "write"
    <3>1. rv' > 0 /\ file' = Written(begun[2], p, begun[1], rv') /\ pos' = begun[1] + rv'
      BY <1>0, <2>1, <2>2, <2>4, Zenon DEF Effect, Moved
    <3> QED  BY <2>4, <3>1, Zenon DEF AsOneStep
  <2> QED  BY <2>2, <2>3, <2>4, Zenon DEF Rw
<1>4. CASE real_lseek(p)
  <2>1. at[p] = "lseek" /\ rv' = AsInt(Target(p)) /\ pos' = Target(p) /\ file' = file
    BY <1>4, Zenon DEF real_lseek, Return, Goto
  <2>2. pos = begun[1] /\ file = begun[2] /\ call[p] \in Seek
    BY <1>0, <2>1, Zenon DEF Effect, Moved, CallsInv, Seeking
  <2>3. call[p].name = "lseek" /\ call[p].whence \in {"SET", "CUR", "END", "DATA", "HOLE", "other"}
    BY <2>2, Zenon DEF Seek
  <2> DEFINE w == call[p].whence
  <2>4. w = "SET" \/ w = "DATA" \/ w = "other" => pos' = call[p].offset
    BY <1>0, <2>1, Zenon DEF Effect, Target
  <2>5. w = "CUR" => pos' = begun[1] + call[p].offset
    BY <2>1, <2>2, Zenon DEF Target
  <2>6. (w = "END" => pos' = begun[2].len + call[p].offset) /\ (w = "HOLE" => pos' = begun[2].len)
    BY <1>0, <2>1, <2>2, Zenon DEF Effect, Target
  <2>7. pos' = CASE w \in {"SET", "DATA", "other"} -> call[p].offset
                 [] w = "CUR" -> begun[1] + call[p].offset
                 [] w = "END" -> begun[2].len + call[p].offset
                 [] w = "HOLE" -> begun[2].len
    BY <2>3, <2>4, <2>5, <2>6, Zenon
  <2> QED  BY <2>1, <2>2, <2>3, <2>7, Zenon DEF AsOneStep
<1> QED  BY <1>1, <1>2, <1>3, <1>4, AloneReturns, Zenon

\* AtomicInv holds throughout.
LEMMA AlwaysAtomic == Spec => []AtomicInv
<1>1. AtomicInv /\ [Next]_vars => AtomicInv'
  BY StepHolds, TypesHold, EffectHolds DEF AtomicInv
<1> QED  BY InitAtomic, <1>1, PTL DEF Spec

\* The position of the descriptor stays one, and so does the length of the file.
THEOREM OffsetTypes == Spec => []TypeOK
<1>1. AtomicInv => TypeOK  BY DEF AtomicInv
<1> QED  BY <1>1, AlwaysAtomic, PTL

\* A read, write or lseek that no other call overlaps does to the position and
\* the file what one atomic step would: for any number of processes and any
\* bounds, and whatever overlapped before it began.
THEOREM AloneCallsAreAtomic == Spec => AloneIsAtomic
<1>1. AtomicInv /\ [Next]_vars
        => [\A p \in alone : at'[p] = "idle" => AsOneStep(call[p], p, begun)]_vars
  BY AtomicStep
<1> QED  BY <1>1, AlwaysAtomic, PTL DEF Spec, AloneIsAtomic

\* lseek of a process that runs alone reports the new position exactly when the
\* position fits an int, whatever INT_MAX is.
THEOREM SeekReports == Spec => SeekReportsPosition
<1>1. ASSUME AtomicInv, [Next]_vars, NEW p \in alone, call[p].name = "lseek", at'[p] = "idle"
      PROVE  IF rv' = -1 THEN pos' = begun[1] \/ pos' > IntMax
                         ELSE rv' = pos' <=> pos' <= IntMax
  <2>0. p \in Proc /\ Effect(p) /\ TypeOK /\ CallsInv
    BY <1>1, AloneReturns, Zenon DEF AtomicInv, EffectInv
  <2>1. at[p] \notin Rwing
    BY <1>1, <2>0, Zenon DEF CallsInv, Rw
  <2>2. CASE seek_past_end(p) \/ seek_stat_fails(p) \/ real_lseek_fails(p)
    <3>1. at[p] \in {"stat", "lseek"} /\ rv' = -1 /\ pos' = pos
      BY <2>2, Zenon DEF seek_past_end, seek_stat_fails, real_lseek_fails, Return, Goto
    <3>2. pos = begun[1]  BY <2>0, <3>1, Zenon DEF Effect
    <3> QED  BY <3>1, <3>2, Zenon
  <2>3. CASE real_lseek(p)
    <3>1. rv' = AsInt(pos') /\ pos' \in Nat /\ IntMax \in Nat
      BY <2>3, OffsetAssumption DEF real_lseek, Return, Pos
    <3>2. rv' \in Int /\ rv' <= IntMax /\ (pos' <= IntMax => rv' = pos')
      BY <3>1, AsIntFacts, Zenon
    <3> QED  BY <3>1, <3>2
  <2>4. ~lock_refused(p) /\ ~transfer_fails(p) /\ ~unlock(p)
    BY <2>1, Zenon DEF lock_refused, transfer_fails, unlock, Return, Goto, Rwing, Moved
  <2> QED  BY <1>1, <2>2, <2>3, <2>4, AloneReturns, Zenon
<1>2. AtomicInv /\ [Next]_vars
        => [\A p \in alone :
              call[p].name = "lseek" /\ at'[p] = "idle"
                => IF rv' = -1 THEN pos' = begun[1] \/ pos' > IntMax
                               ELSE rv' = pos' <=> pos' <= IntMax]_vars
  BY <1>1
<1> QED  BY <1>2, AlwaysAtomic, PTL DEF Spec, SeekReportsPosition
=============================================================================
