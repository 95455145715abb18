---------------------------- MODULE FileOffset -----------------------------
(***************************************************************************)
(* read, write and lseek of libdefuse (read.c, write.c, seek.c) by         *)
(* processes that share one open file description after fork.  The user    *)
(* space file system knows no file position: each call asks the shadow     *)
(* descriptor in the kernel for it, calls the file system with an explicit *)
(* offset and moves the position afterwards.  A record lock surrounds      *)
(* this, but it is a shared one (F_RDLCK), so calls still overlap.         *)
(***************************************************************************)
EXTENDS Integers

CONSTANTS
  Proc,       \* processes that share the descriptor; each writes its own name
  MaxPos,     \* bound on file positions
  MaxCount,   \* bound on the count of a read or write
  IntMax      \* INT_MAX: lseek returns its result as an int

ASSUME OffsetAssumption == MaxPos \in Nat /\ MaxCount \in Nat /\ IntMax \in Nat

VARIABLES
  pos,        \* position of the shadow descriptor
  file,       \* the user space file system's contents and their length
  foreign,    \* another program holds a write lock on the shadow file
  locked,     \* processes that hold the read lock
  at,         \* process -> step of the call it is in
  call,       \* process -> the call: its name and arguments
  off,        \* process -> its local variable offset
  done,       \* process -> its local variable bytes_read or bytes_written
  rv,         \* result of the call that returned last
  alone,      \* the process whose call no other overlapped so far, if any
  begun,      \* position and file when the call of that process began
  safe        \* end of the last write that ran alone; 0 once someone seeks

locals == <<call, off, done>>
ghosts == <<alone, begun, safe>>
vars == <<pos, file, foreign, locked, at, locals, rv, ghosts>>

Pos == 0 .. MaxPos
Unwritten == "unwritten"
Greatest(a, b) == IF a >= b THEN a ELSE b

Rw == [name : {"read", "write"}, count : 1 .. MaxCount]
Seek == [name : {"lseek"}, whence : {"SET", "CUR", "END", "DATA", "HOLE", "other"}, offset : -1 .. MaxPos]
NoCall == [name |-> "none"]

Empty == [len |-> 0, bytes |-> [i \in 0 .. MaxPos - 1 |-> Unwritten]]

Init ==
  /\ pos = 0 /\ file = Empty
  /\ foreign = FALSE /\ locked = {}
  /\ at = [p \in Proc |-> "idle"] /\ call = [p \in Proc |-> NoCall]
  /\ off = [p \in Proc |-> 0] /\ done = [p \in Proc |-> 0] /\ rv = 0
  /\ alone = {} /\ begun = <<0, Empty>> /\ safe = 0

Begin(p, c, first) ==
  /\ at[p] = "idle" /\ at' = [at EXCEPT ![p] = first]
  /\ call' = [call EXCEPT ![p] = c]
  /\ IF \A q \in Proc : at[q] = "idle"
       THEN alone' = {p} /\ begun' = <<pos, file>>
       ELSE alone' = {} /\ begun' = <<0, Empty>>
  /\ rv' = 0
  /\ UNCHANGED <<pos, file, foreign, locked, off, done>>

Goto(p, from, to) == at[p] = from /\ at' = [at EXCEPT ![p] = to]

Return(p, from, x) ==
  /\ Goto(p, from, "idle")
  /\ rv' = x
  /\ call' = [call EXCEPT ![p] = NoCall]
  /\ off' = [off EXCEPT ![p] = 0] /\ done' = [done EXCEPT ![p] = 0]
  /\ alone' = alone \ {p} /\ begun' = <<0, Empty>>

----------------------------------------------------------------------------
\* defuse_read and defuse_write.
read_write(p) == \E c \in Rw : Begin(p, c, "lock") /\ UNCHANGED safe

\* F_SETLK with F_RDLCK.  Refused, the call returns 0 as at the end of the file.
set_lock(p) ==
  /\ ~foreign
  /\ Goto(p, "lock", "tell")
  /\ locked' = locked \cup {p}
  /\ UNCHANGED <<pos, file, foreign, locals, rv, ghosts>>

lock_refused(p) ==
  /\ foreign
  /\ Return(p, "lock", 0)
  /\ UNCHANGED <<pos, file, foreign, locked, safe>>

\* lseek(fd, 0, SEEK_CUR)
tell(p) ==
  /\ Goto(p, "tell", "transfer")
  /\ off' = [off EXCEPT ![p] = pos]
  /\ UNCHANGED <<pos, file, foreign, locked, call, done, rv, ghosts>>

\* The user space file system reads or writes at the offset and reports how
\* many bytes: none only at the end of the file.
transfer_read(p) ==
  /\ Goto(p, "transfer", "set_pos")
  /\ call[p].name = "read"
  /\ \E n \in 0 .. call[p].count :
       /\ IF n = 0 THEN off[p] >= file.len ELSE off[p] + n <= file.len
       /\ done' = [done EXCEPT ![p] = n]
  /\ UNCHANGED <<pos, file, foreign, locked, call, off, rv, ghosts>>

Written(f, p, from, n) ==
  [len |-> Greatest(f.len, from + n),
   bytes |-> [i \in DOMAIN f.bytes |-> IF i \in from .. from + n - 1 THEN p ELSE f.bytes[i]]]

transfer_write(p) ==
  /\ Goto(p, "transfer", "set_pos")
  /\ call[p].name = "write"
  /\ \E n \in 1 .. call[p].count :
       /\ off[p] + n <= MaxPos
       /\ done' = [done EXCEPT ![p] = n]
       /\ file' = Written(file, p, off[p], n)
  /\ UNCHANGED <<pos, foreign, locked, call, off, rv, ghosts>>

\* The file system reports an error: the lock stays.
transfer_fails(p) ==
  /\ Return(p, "transfer", -1)
  /\ UNCHANGED <<pos, file, foreign, locked, safe>>

\* lseek(fd, offset + bytes, SEEK_SET).  Slips: only writes move the position;
\* it is moved short of what was transferred; by what was asked for.
set_pos_writes_only(p) ==
  /\ Goto(p, "set_pos", "unlock")
  /\ pos' = IF call[p].name = "write" THEN off[p] + done[p] ELSE pos
  /\ UNCHANGED <<file, foreign, locked, locals, rv, ghosts>>

set_pos_last_byte(p) ==
  /\ Goto(p, "set_pos", "unlock")
  /\ pos' = Greatest(off[p], off[p] + done[p] - 1)
  /\ UNCHANGED <<file, foreign, locked, locals, rv, ghosts>>

set_pos_by_count(p) ==
  /\ Goto(p, "set_pos", "unlock")
  /\ pos' = off[p] + call[p].count
  /\ UNCHANGED <<file, foreign, locked, locals, rv, ghosts>>

set_pos(p) ==
  /\ Goto(p, "set_pos", "unlock")
  /\ pos' = off[p] + done[p]
  /\ UNCHANGED <<file, foreign, locked, locals, rv, ghosts>>

unlock(p) ==
  /\ Return(p, "unlock", done[p])
  /\ locked' = locked \ {p}
  /\ safe' = IF p \in alone /\ call[p].name = "write" THEN off[p] + done[p] ELSE safe
  /\ UNCHANGED <<pos, file, foreign>>

----------------------------------------------------------------------------
\* defuse_lseek: SEEK_SET and SEEK_CUR are left to the kernel, the others need
\* the length of the file from the file system.  A whence the switch does not
\* know is taken as SEEK_SET.
seek(p) ==
  \E c \in Seek :
    /\ Begin(p, c, IF c.whence \in {"SET", "CUR"} THEN "lseek" ELSE "stat")
    /\ safe' = 0

seek_stat(p) ==
  /\ Goto(p, "stat", "lseek")
  /\ call[p].whence \in {"DATA", "HOLE"} => call[p].offset < file.len
  /\ off' = [off EXCEPT ![p] = CASE call[p].whence = "END" -> call[p].offset + file.len
                                 [] call[p].whence = "HOLE" -> file.len
                                 [] OTHER -> call[p].offset]
  /\ UNCHANGED <<pos, file, foreign, locked, call, done, rv, ghosts>>

\* ENXIO: no data at or after the offset.
seek_past_end(p) ==
  /\ Return(p, "stat", -1)
  /\ call[p].whence \in {"DATA", "HOLE"} /\ call[p].offset >= file.len
  /\ UNCHANGED <<pos, file, foreign, locked, safe>>

seek_stat_fails(p) ==
  /\ Return(p, "stat", -1)
  /\ UNCHANGED <<pos, file, foreign, locked, safe>>

Target(p) ==
  CASE call[p].whence = "SET" -> call[p].offset
    [] call[p].whence = "CUR" -> pos + call[p].offset
    [] OTHER -> off[p]

\* The conversion of the kernel's result to the int that defuse_lseek returns,
\* and to an unsigned one, a slip.
AsUnsigned(x) == x % (2 * (IntMax + 1))

AsInt(x) == ((x + IntMax + 1) % (2 * (IntMax + 1))) - (IntMax + 1)

real_lseek(p) ==
  /\ at[p] = "lseek" /\ Target(p) \in Pos
  /\ Return(p, "lseek", AsInt(Target(p)))
  /\ pos' = Target(p)
  /\ UNCHANGED <<file, foreign, locked, safe>>

\* EINVAL: a negative position (the kernel's limit is MaxPos here).
real_lseek_fails(p) ==
  /\ at[p] = "lseek" /\ Target(p) \notin Pos
  /\ Return(p, "lseek", -1)
  /\ UNCHANGED <<pos, file, foreign, locked, safe>>

\* Another program locks the shadow file for writing while no reader has it.
foreign_lock ==
  /\ foreign \/ locked = {}
  /\ foreign' = ~foreign
  /\ UNCHANGED <<pos, file, locked, at, locals, rv, ghosts>>
----------------------------------------------------------------------------
Next ==
  \/ \E p \in Proc :
       \/ read_write(p) \/ set_lock(p) \/ lock_refused(p) \/ tell(p)
       \/ transfer_read(p) \/ transfer_write(p) \/ transfer_fails(p) \/ set_pos(p) \/ unlock(p)
       \/ seek(p) \/ seek_stat(p) \/ seek_past_end(p) \/ seek_stat_fails(p)
       \/ real_lseek(p) \/ real_lseek_fails(p)
  \/ foreign_lock

Spec == Init /\ [][Next]_vars

----------------------------------------------------------------------------
Step == {"idle", "lock", "tell", "transfer", "set_pos", "unlock", "stat", "lseek"}

\* Types; the kernel's offset (pos) stays a position, whatever the arithmetic
\* of set_pos in read.c and write.c makes of the count a file system returns.
TypeOK ==
  /\ pos \in Pos /\ safe \in Pos /\ foreign \in BOOLEAN
  /\ file.len \in Pos /\ DOMAIN file.bytes = 0 .. MaxPos - 1
  /\ locked \subseteq Proc /\ alone \subseteq Proc
  /\ at \in [Proc -> Step] /\ call \in [Proc -> Rw \cup Seek \cup {NoCall}]
  /\ off \in [Proc -> Int] /\ done \in [Proc -> 0 .. MaxCount] /\ rv \in Int

\* What POSIX has a call do in one step: b is the position and the file before.
AsOneStep(c, p, b) ==
  LET old == b[1] f == b[2] n == rv' IN
  \/ n <= 0 /\ c.name # "lseek" /\ pos' = old /\ file' = f
  \/ c.name = "read" /\ n > 0 /\ file' = f /\ pos' = old + n /\ pos' <= f.len
  \/ c.name = "write" /\ n > 0 /\ pos' = old + n /\ file' = Written(f, p, old, n)
  \/ c.name = "lseek" /\ n = -1 /\ file' = f /\ pos' = old
  \/ /\ c.name = "lseek" /\ n = AsInt(pos') /\ file' = f
     /\ pos' = CASE c.whence \in {"SET", "DATA", "other"} -> c.offset
                 [] c.whence = "CUR" -> old + c.offset
                 [] c.whence = "END" -> f.len + c.offset
                 [] c.whence = "HOLE" -> f.len

\* A call that no other call overlaps has the effect of one atomic step, by
\* whatever process, after whatever overlapping or failing calls before it:
\* the position and the file agree with the result of the call.
AloneIsAtomic ==
  [][\A p \in alone : at'[p] = "idle" => AsOneStep(call[p], p, begun)]_vars

\* What a write put into the file while it ran alone stays: until somebody
\* seeks, no later read or write starts before its end, however those calls
\* overlap each other and move the shared position back and forth.
AloneIsKept ==
  \A p \in Proc : at[p] \in {"transfer", "set_pos"} => off[p] >= safe

\* lseek of a process that runs alone returns the new position, or -1 and
\* moves nothing, as long as the new position fits an int.  A larger one comes
\* back as another number, and for some of them as the -1 of a failure though
\* the position has moved.
SeekReportsPosition ==
  [][\A p \in alone :
       call[p].name = "lseek" /\ at'[p] = "idle"
         => IF rv' = -1 THEN pos' = begun[1] \/ pos' > IntMax
                        ELSE rv' = pos' <=> pos' <= IntMax]_vars
=============================================================================
