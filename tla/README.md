# DEFUSE: a TLA+ development

DEFUSE serves files of user space file systems without going through the kernel.
A preloaded library, `lddefuse`, interposes the POSIX calls; `libdefuse` decides
which of them concern a mount of type `defuse` and calls the loaded file system
library (a set of `usfs_*` functions). Each open file still has a kernel
descriptor, opened read-only on the mount point, which supplies the descriptor
number and the file offset. A table maps that number to the handle of the user
space file. The table is process memory, so it is handed over explicitly when a
process calls exec.

All paths below are relative to the repository (`src/`).

## 1. The system

| part | state | operations |
|---|---|---|
| descriptor table, `libdefuse/file_handles.c` | pointers to reference-counted objects; list of used descriptors | insert, remove, find, duplicate |
| the same in musl, `musl/src/defuse/file_handles.c` | the same | another duplicate |
| open and close, `libdefuse/open.c`, `close.c` | the table, the kernel's descriptors, the backend's handles | `defuse_open`, `defuse_close` |
| exec hand-over, `file_handles.c` 175-318, `shared_space.c`, `lddefuse/unistd.c`, `lddefuse.c` | `/tmp/defuse_<pid>` | save, restore, the exec wrappers, the constructor |
| paths and mounts, `util.c`, `mount_points.c` | mount table, loaded once | `resolve_path`, `find_mount_and_strip_path` |
| read, write, lseek | kernel offset, a record lock | one call each, several system calls inside |
| pass-through calls (stat, access, truncate, ...) | none | one backend call each |
| musl dup, dup2 | table and kernel descriptors | `dup_common` |
| sshfs backend, `usfs_wrap/sshfs` | outstanding requests, one connection with its processing thread, attribute cache | `usfs_*` by path and open; calls by handle |
| HDFS backend, `usfs_wrap/hdfs` | namenode connection under a mutex, lease worker, files | `usfs_*`, renewLease |
| other backends: pass-through, cruise, avfs | handles | `usfs_*`, one call each |
| kernel module `defuse_wrap_module` | dentries resolved late, reopened files | lookup, open, rename, llseek |
| `defuse_module`, `fuse`, `data`, `test` | - | deprecated, examples, results, tests |

Interactions: a wrapper (`DEFUSE_OP`, `DEFUSE_FD_OP` in `libdefuse.h`) routes a
call by path or by descriptor. `defuse_open` calls the backend, then the kernel,
then inserts into the table; `defuse_close` calls the backend, removes from the
table, then calls the kernel. Exec saves the table under the pid; the
constructor of the next image restores it after loading the mounts. A backend is
called on the program's own threads; sshfs and HDFS add a thread of their own,
which reads replies or renews a lease.

What is hard here: there is no lock anywhere in `libdefuse`, and threaded
programs are among its own tests (`test/doTest.c`). The kernel's and the
library's idea of which descriptors exist are kept together only by the order of
calls. The list of used descriptors is read only by exec, so damage to it stays
hidden. Shared spaces are never deleted and pids are reused. Paths are rewritten
in place. The file position lives in the kernel and the file elsewhere, so that
a read is four system calls. The network backends share one connection among
threads, let go of their locks for the round trip, and have to finish calls
whose connection died.

What should be true: a descriptor is served by the handle its open obtained,
from the return of open to its close, in every thread, across fork and exec; no
object is freed while a slot points to it; no handle or descriptor leaks on an
error path; a path is served by the mount it lies under; a call that runs alone
is atomic; a reply reaches the call that asked for it, a request is not used
after it is freed, and every call ends.

## 2. Modules

| module | models | kind |
|---|---|---|
| `DescriptorList` | `link_file_descriptor`, `unlink_file_descriptor` as operators on a record | pure |
| `DescriptorMap` | what the table promises: a map from slots to data | abstract specification |
| `FileHandles` | the table with its heap objects, for libdefuse (`Spec`) and musl (`MuslSpec`) | component |
| `FileHandlesProofs` | invariants of both tables, and that both implement `DescriptorMap` | proofs |
| `AtomicCalls` | what open and close promise threads: each takes effect in one moment, or not at all | abstract specification |
| `DefuseThreads` | `defuse_open` and `defuse_close` step by step, by threads | component, composed with kernel and backend |
| `DefuseThreadsProofs` | its inductive invariants, for an initialised and for any process, and that the first implements `AtomicCalls` | proofs |
| `ExecHandoff` | processes, the table, the list and the shared spaces across fork, exec and exit | composition over `DescriptorList` |
| `ExecHandoffProofs` | what a hand-over keeps, for any processes and slots | proofs |
| `SpaceLayout` | sizes and offsets of the shared space `ExecHandoff` abstracts to a sequence | component |
| `Paths` | `resolve_path` and the mount lookup on strings | component, against a reference |
| `LibraryProofs` | about `SpaceLayout`: which entries survive, for all sizes; about `Paths`: where every string leads | proofs |
| `FileOffset` | `defuse_read`, `defuse_write`, `defuse_lseek` by processes that share a descriptor | component |
| `FileOffsetProofs` | its inductive invariants | proofs |
| `SshfsRequests` | requests, the processing thread, loss of the connection and reconnect | component, composed with the server |
| `SshfsRequestsProofs` | its inductive invariants | proofs |
| `AttrCache` | the attribute cache and the calls that fill and purge it | component, composed with server and clock |
| `AttrCacheProofs` | its inductive invariant | proofs |
| `HdfsRpc` | the namenode connection, its callers and the lease worker | component, composed with the namenode |
| `HdfsRpcProofs` | its inductive invariant | proofs |
| `MC*` | bounds and symmetry for TLC, and the choice between variants of one component | instances |

Operators named "slip" in a comment are wrong versions of the definition that
follows them. They are not used by any specification; each shows that a property
notices that mistake.

### FileHandles

`file_handles`, `use_count`, `f_data` and `allocated` are the array of pointers
and the heap; `list` is `file_meta`, `used_file_descriptors` and
`used_file_descriptor_pos`. Every operation is one step: this is the table as
one thread uses it. `malloc` returns any address not in use. `AnyFd` contains
one descriptor past the table for the `EBADF` paths; negative descriptors, which
the code does not check, are not modelled. `find_file_handle`, which has no
effect, is an operator and the refinement mapping to `DescriptorMap`.

### DefuseThreads

`pc` names the next access to something shared: the backend, the kernel, the
table or the counter. A `++` is a load and a store. A thread closes only
descriptors it opened. `WarmInit` is a process in which the table was used
before threads start; `ColdInit` one in which threads make the first use, which
is how `test/doTest.c` runs, since the constructor touches the table only when
there is a shared space. In a mixed process (`MCDefuseThreads`) threads start
from `ColdInit` and descriptors also disappear behind the library
(`unseen_close`). The run has a fourth handle, because handles whose slots were
wiped or went stale are never closed. The list's contents are left to
`ExecHandoff`. A thread that dereferences a pointer just wiped by another
thread's `memset` (line 88 of `file_handles.c`) would crash; the model lets it
go on, which gives more behaviours, not fewer.

`AtomicCalls` knows only whether a thread is in a call that has taken effect, and
the files each thread has open. `Calls` and `Files` in `MCDefuseThreads` are the
refinement mapping: a file is there from the store of `insert_file_handle` to the
close of its handle, and only while the table leads its descriptor to that
handle. A mixed process, for which this promise does not hold, is mapped to one
that makes no calls.

### ExecHandoff

`kernel_fds` is the truth about a process's descriptors, `table` what
`find_file_handle` answers, `opened` the program's own record. `exec` is save
and new image; `exec_fails` is save and return; `exec_crashes` is the save loop
following a NULL pointer. A new image has its constructor's work before it:
`todo` is what the shared space holds, and each iteration of
`restore_file_handles_from_shared_space` is a step (`restore`), after which the
program is `Running`. The process may end in between; nothing else can happen to
it, because the constructor runs before the program has threads or children.
Open and close are single steps. Specifications differ in what programs do:
close in reverse order (`Orderly`, `Nested`), start under a pid that has a stale
shared space (`Nested`), close in any order (`AnyClose`).

### SpaceLayout

One hand-over, in bytes. `save_file_handles_to_shared_space` sizes the file
without the zero byte it writes after each mount path, so the last bytes, one
per mount, lie past the end of the file. They are in the last page of the
mapping, where the kernel may keep or clear them (`write_back`), or past it,
where the write is a bus error (`overrun`). What survives of a number is counted
in bytes: descriptors and mount indices need two, handles eight. Both images
load the same mounts in the same order.

### Paths

A path is a sequence of characters because the code's mistakes would be mistakes
about characters. A step is one turn of a loop of `util.c`: the first occurrence
(`strstr`) is cut out of the string (`Cut`, the `memmove` and the new zero byte);
`remove_dot_dot` also looks for the slash before it (`p_start`). Then the lookup
compares the mount paths with the result and strips it. Init enumerates every
caller's path.

The reference is a walker (`Enter`, `Read`) that reads a path from the root,
character by character: a slash enters the name before it, `.` and an empty name
lead nowhere, `..` leads up, and whoever climbs past the root stays there and is
marked (`past`). `Walked` is the walker with its last name still unread, `Walk`
the place it ends at, and `Spell` the one way to write a directory. The walker
knows no links, and neither does `util.c`.

`PathsAssumption` has mount paths as the kernel writes them into /proc/mounts:
absolute, with no `.`, `..` or empty names, and none at the root. Left out are
strings of PATH_MAX bytes and more, which `strncpy` leaves without an end, and
what the lookup does with the NULL that `resolve_path` returns for an empty
path (`"null"`): the macro DEFUSE_OP hands it to `strstr`, which is undefined.

### FileOffset

Each system call of `read.c`, `write.c` and `seek.c` is a step: the lock,
reading the position, the transfer, storing the position, unlocking. The
processes share one position, as after fork. The lock is a read lock, so it
excludes only a writer's lock of another program (`foreign_lock`), and a call
that fails in the backend keeps it. The backend may transfer less than asked
for. `alone`, `begun` and `safe` are history variables for the properties.
`AsInt` is the `int` through which `defuse_lseek` returns, with `IntMax` for
INT_MAX.

### SshfsRequests

Sections under `sshfs.lock` are single steps, except the clean-up of
`process_requests`, whose posts other threads can observe. A thread's call is a
sequence of requests: one for getattr, truncate and unlink; for open, OPEN and
LSTAT outstanding together and a CLOSE nobody waits for when only LSTAT failed.
A request is named by its thread and its kind, which the ids of the code allow,
since a thread has one of each at a time. `Free` takes the lock, as
`request_free` does; the processing thread that calls it with the lock held is
`blocked`. The server answers in any order; the connection may be lost at any
time, and then the next request connects again. There is one connection
(`max_conns` is 1 unless set), no `reconnect` option, and the limit on
outstanding bytes is left out.

### AttrCache

The attributes of a path are a version number that grows with each change on the
server, by this program or by another client. A call looks into the cache, is on
its way, and then stores or purges. `mine`, `floor` and `raced` record what
returned calls have changed and whether an older reply was under way then. Only
what `cache_fill` installs is modelled; `write_ctr` never changes, because
`cache_write` is above a call that is undefined (section 6).

### HdfsRpc

The mutex is held from the request to the response. `asked` and `answered` are
the two directions of the socket, and `got` says whose response a caller took. A
FATAL response closes the socket and cancels the worker, which acts on it in
`sleep` and in `sendto`, not while it waits for the mutex. An end of file, a
SIGPIPE and cancelling a worker that was never created end the process
(`crashed`).

## 3. Runs

| run | bounds | result |
|---|---|---|
| `table` | both tables; 3 slots, 2 addresses, 2 data, use counts to 3 | types, no dangling entry, list length, exact counts in musl, implements `DescriptorMap` |
| `threads` | 2 threads, 2 slots, 3 kernel descriptors (2 in a mixed process), 4 handles | initialised: own handle, empty slot for free numbers, no leaked handle, only descriptors past the table leak, implements `AtomicCalls`; mixed: never another open's handle |
| `threads_first_use` | 2 threads, 2 slots, 2 descriptors, 3 handles | violated: `get_instance` wipes a returned open |
| `handoff` | 2 pids, 4 slots of which 3 used (2 where pids are reused), 3 files | every descriptor served exactly and the list is the order of opening; with reused pids, what was opened is served and the next save follows no NULL pointer |
| `handoff_close_order` | 2 pids, 4 slots, 3 files | violated: `unlink_file_descriptor` |
| `space_layout` | 16 mounts, 80 bytes of paths, 2 entries, pages of 64 bytes | exact with up to 7 mounts; only the last entry suffers with more |
| `paths` | all strings of up to 8 of `/`, `.`, `a` | at every turn the string leads where the caller's path leads; the result is spelled as walked and final; what a mount is given leads there from the mount; a path under a mount is served; the loops end |
| `file_offset` | 2 processes, positions to 3, counts to 2, INT_MAX 1 | a call alone is atomic and what it wrote is kept; lseek's result |
| `sshfs_requests` | 2 threads, one of which opens; 1 lost connection | no use after free, no leak, every call ends |
| `sshfs_loss` | 1 thread that opens, 1 lost connection | violated: the processing thread blocks itself |
| `attr_cache` | 2 threads, a directory and a file, 3 versions, time-out and interval 1 s, clock to 5 | changes are seen, expired entries are collected |
| `hdfs_rpc` | 3 threads with 2 calls each, the worker | own replies, calls end, the lease is renewed |

Why the bounds are enough to be interesting. Three slots let a list have a
first, a middle and a last position, and one object be shared by two slots while
a third is reused. Two addresses allow reuse of a freed one. Two threads and a
third descriptor past the table reach every error path of open; the constraint
`PosBounded` cuts the drift of a counter that races can move without limit and
that decides no step of another kind, the descriptors of a mixed process, and a
fourth open handle in an initialised one. `UseBound` cuts the use counts that
libdefuse's duplicate can raise without limit. Two pids let a child outlive or
reuse its parent's pid. Pages of 64 bytes put the end of the space before, on
and behind a page boundary. Eight characters hold two nested `/../` after a
component, and each overlap of the three patterns. Three positions hold two
writes and a gap, and positions 2 and 3 do not fit the int. One thread with
three kinds of request and one with a single kind meet every order of send,
reply, loss and clean-up of two requests, and a loss is followed by a new
connection. Three versions hold a change of each of two threads or of another
client on top of the first; a clock from 2 to 5 lets an entry be stored, expire
and be cleaned. The third HDFS thread waits while the worker and another call
are ahead of it. The symmetry sets are model values that no definition tells
apart; none is used where liveness is checked.

Deadlock is checked for the table, the threads, the file offset and the cache.
It is not for `ExecHandoff`, where all processes may have ended, `SpaceLayout`,
which is one hand-over, `Paths`, where the call comes back, nor for
`SshfsRequests` and `HdfsRpc`, where the process may end or calls are used up;
there the liveness properties say what must not stop.

### Fairness

`libdefuse` itself never waits. The one thing claimed to happen in it is that the
loops of `resolve_path` end:

* `Paths`: the calling thread runs on (weak fairness of its next step).
* `SshfsRequests`: threads inside a call and the processing thread run (weak
  fairness: the scheduler runs runnable threads, and the semaphore and the lock
  are released by steps of the same kind); a signal that was sent is delivered;
  the server answers what it has got while the connection lasts. Nothing makes a
  thread start a call, and nothing makes the connection fail.
* `HdfsRpc`: the same for callers and the worker, the end of `sleep`, and the
  namenode's answers. A thread that waits for the mutex is granted it eventually
  if it is released again and again (strong fairness): calls are bounded and the
  worker sleeps for 30 seconds between two of its own, so nobody takes the mutex
  back at once for ever. The namenode may hang up at any time or never.

`CallsEnd` of both modules names the one state in which it cannot hold: the
processing thread of sshfs waiting for its own lock, and the HDFS worker
cancelled while it waits for the mutex, which it then takes to its grave
(`Orphaned`).

## 4. Findings

1. `get_instance` (`file_handles.c:29-38`) is not safe for threads: see
   `threads_first_use`. The same code bounds the damage: a wiped slot is empty,
   and is never another open's handle (`NeverServedByOther`).
2. `unlink_file_descriptor` stores a position where a descriptor belongs
   (`file_handles.c:68`). Closing in reverse order hides it
   (`OrderlyListIsOpened`); in other orders a later exec can end the process:
   `handoff_close_order`.
3. The processing thread of sshfs frees a request with the lock held that
   freeing takes (`sshfs_wrap.c:1442`), when the connection is lost while the
   CLOSE after a failed open is outstanding: `sshfs_loss`.

Facts met while modelling that no run states as a violation, because no property
of the code depends on them or no text of the repository promises otherwise:

* `used_file_descriptor_pos` loses updates between threads; the list is then
  short or names a slot twice.
* Nothing removes `/tmp/defuse_<pid>`; the test script removes files of another
  name (`test/fsexec:56`). What a process has opened is served by its own file
  all the same (`OpenedServed`).
* `dup2` is not interposed, although `test/doExecTest.c` relies on it.
* Two processes that transfer at the same time can use the same offset, since
  both hold the read lock. What holds is in `AloneIsAtomic` and `AloneIsKept`.
* A refused lock makes read and write return 0; a failed transfer keeps the
  lock.
* The size of the shared space is short by one byte per mount. With eight or
  more mounts the last entry may be restored under the first mount.
* A reply fetched before a change may be stored after the purge, and stays until
  it expires; `OwnChangesSeen` says that this is the only way.
* open with O_CREAT leaves the cached attributes of the directory as they are.
* A FATAL response while the worker waits for the mutex stops all later HDFS
  calls.

`resolve_path` leaves a final `.` or `..` component and everything after a
leading `/../` as it is. `ResolvesAsWalked` shows that these are its only
exceptions, and `SameWalk` that the string still leads to the same place. The
lookup compares strings: with mounts `/a` and `/ab` a file of the second may be
served by the first, which is why `UnderMountServed` asks that no mount path
begins another (`MountsApart`), and `ServedWalk` does not.

## 5. Proofs

All theorems hold for every value of the constants that satisfies the named
assumptions (`MaxFilesAssumption`: at least one slot; `NullAssumption`: NULL is
neither an address nor data; `ThreadsAssumption`: at least one slot and one
descriptor, and NULL is no handle; `LayoutAssumption`: at most sixteen mounts,
descriptors below 1024; `OffsetAssumption`: bounds are numbers;
`RequestAssumption`, `RpcAssumption`: the kinds of threads are what they are
named for; `CacheAssumption`: `Parent` is a function on a finite set of paths,
times are numbers, the server has at least one version of a path, and the lower
cleaning interval is not above the upper; `HandoffAssumption`: the standard
streams have slots, and NULL is no file; `PathsAssumption`: `/` and `.` are
characters, the working directory is absolute, and mount paths are the kernel's,
see section 2).

* `TableInvariant`: `TypeOK`, `NoDanglingEntry` and `PosCountsEntries` of
  libdefuse's table. Their conjunction is inductive. The type of the list needs
  the length to equal the number of occupied slots, because only then is there
  room when `insert_file_handle` links and something left when
  `remove_file_handle` unlinks; the absence of dangling entries needs counts at
  least as large as the number of pointers, because an object is freed by count.
  The lemmas are about how storing one pointer changes the number of slots that
  hold it (`StoreSlot`).
* `MuslTableInvariant`: the same with exact counts. `TableTypes` and
  `MuslCounts` say both in the form the run `table` checks, for the library
  chosen at the start.
* `TableImplementsMap`, `MuslTableImplementsMap`: step simulation under the
  mapping `served[fd] = find_file_handle(fd)`. Beyond the invariant it needs
  that allocated objects hold data (`MapInv`).
* `ThreadsServed`: `TypeOK`, `ServedByOwn` and `FreeFdHasEmptySlot` of
  `WarmSpec`, for any number of threads. None is inductive. The strengthening
  says who keeps what: every kernel descriptor has at most one keeper, an open
  in progress or the thread that holds it (`FdInv`); a slot holds its keeper's
  handle from the store of insert to the last statement of unlink (`SlotInv`); a
  handle has at most one keeper and is open while it has one (`HandleInv`);
  nobody runs the first use (`Initialised`). Nine of the steps only move a
  thread on and share the lemma `MoveStep`; the others have a case each.
* `OwnHandleServes`, `FreeNumbersAreEmpty`: the same for the specification of
  the run `threads`.
* `NoHandleLeaks`, `OnlyEBADFLeaks`: `WarmHandlesAccounted` and
  `WarmLeaksOnlyPastTable` are about a moment at which no call is in progress.
  At all other times it must be known that nothing is forgotten: every open
  handle, and every kernel descriptor that has a slot, has a keeper (`Kept`).
  Each step hands over, or gives back, what its thread keeps (`KeptLocally`).
* `CallsAreAtomic`: step simulation from the run's specification to
  `AtomicCalls`, under `WarmSpec`'s invariant. Two steps have an effect:
  `insert_store` is `Open`, for which the invariant has to show that nobody else
  has the descriptor or the handle (`StoreOpens`), and `backend_close` is `Close`
  (`BackendCloses`). All others are the begin or the return of a call or leave
  the mapped state alone. For these it must be known that the slots of the files
  other threads have open are not touched (`OthersSlots`, `OthersSame`), and that
  clearing a slot after the handle was closed takes nothing that is still counted
  as a file (`ClearIsQuiet`).
* `NoOtherServes`, `ThreadsTypes`: `NeverServedByOther` and `TypeOK` of any
  process, with threads that race for the first use and descriptors closed
  behind the library. There the slot of a kept descriptor may be empty, but is
  never another's (`KeepersHandle`), since a descriptor still has at most one
  keeper (`OneKeeper`) and `memset` only empties slots.
* `ServedAcrossExec`, `ListAcrossExec`, `OpenedAcrossExec`, `SavesAcrossExec`,
  `HandoffTypes`: all the invariants of the run `handoff`, for any number of
  processes, slots and files. The invariant is about one process image
  (`ProcInv`): the entries in its list followed by those its constructor has
  still to restore name each descriptor once (`Distinct`), the list is the
  occupied slots (`Listed`), and the last entries are what the program opened,
  in that order, with the kernel's files (`Behind`). Without stale shared spaces
  there are no others (`Orderly`). Restoring an entry moves it from the one part
  to the other and keeps its place (`RestoreImage`); a save makes the list into
  entries to restore (`SnapshotFacts`, `NewImage`). `Listed` also has to say how
  wrong `use_position` may be: never before the descriptor's own position, which
  is why a close in reverse order damages only the part of the list that it cuts
  off. That the list has room for an entry (`Room`) is because it is the
  beginning of an arrangement of all slots (`Arranged`), and a slot that is not
  in the list comes later in it.
* `FewMountsRestored`, `OthersRestored`: the two layout properties, by linear
  arithmetic over the offset of an entry and the size (`Fits`, `ReadBack`); all
  that must be carried along is that a saved space has the size that save
  computed.
* `WorkKeepsWalk`, `ResolvingIsFinal`, `ResolvesToSpelling`,
  `MountPathLeadsThere`, `PathsUnderMountServed`: all the invariants of the run
  `paths`, for every alphabet, every path of every length, every working
  directory and every list of mounts. The inductive invariant `PathsInv` adds to
  `SameWalk` that the string begins with a slash (`PathType`) and what each pass
  has reached for the later ones (`PassesDone`): after the first there is no
  `/./`, after the second no `//` either. A turn removes what stands between two
  slashes and leads nowhere (`Removable`). So cutting it out changes no walk
  (`CutWalk`), and joins no new `//` or `/./` where the slashes meet
  (`CutKeeps`); both are shown once for all three passes (`Turn`). For `/../`
  this needs that the component before it is a name (`TurnUp`): not empty and
  not `.` because of the earlier passes, and not `..` because `strstr` finds the
  first `/../`. This is why `remove_dot_dot` has to come last. That a final
  string is spelled as walked is an induction over the beginnings of the string
  (`SpelledFinal`). For the lookup, a path below a mount begins with the spelling
  of the mount up to a slash (`SpelledUnder`), and of two mount paths that begin
  a path one begins the other (`HeadsNest`).
* `TurnsShorten`: every turn of a loop but its last shortens the string. It is
  the variant behind `ResolveEnds`.
* The induction these proofs use is `Induction`, over sets of numbers, and
  `SeqInduction`, over sets of sequences. They follow from the library's
  `NatLessThanWellFounded` and `WFMin`, which have no operator as a parameter.
  What a recursive function computes at a place (`Trail`, `Spelling`) follows
  from its existence, which is such an induction too.
* `WriteAloneIsKept`: `AloneIsKept` speaks of calls under way; inductive with it
  are that the position itself is behind what must be kept, that nobody seeks
  while there is something to keep, and that during a call that runs alone the
  others are idle and the position is where its own transfer put it.
* `AloneCallsAreAtomic`, `SeekReports`, `OffsetTypes`: two action properties and
  `TypeOK`. What a call that runs alone has done by its return follows from what
  it has done so far, at each of its system calls, to the position and the file
  it began with (`Effect`), and from which call a process is in (`CallsInv`).
* `RequestsOutliveUse`: `NoUseAfterFree`. The invariant names who may use a
  request: its thread (`Own`), the processing thread (`Reader`), and that a
  posted request, or one with an error once the lock is free, is out of the
  processing thread's hands (`Done`). `Done` is why `request_free` has to take
  the lock, and dropping that is the mutant of the run.
* `NoRequestLeaks`, `RequestTypes`: `NothingLeaks` is the other side: every
  request has somebody who will free it, its thread or, for the CLOSE nobody
  waits for, the processing thread (`Accounted`). That thread finds it because a
  CLOSE stays in the table until it is answered or cleaned up (`CloseListed`),
  and a table entry is being sent, is on the wire or belongs to a lost
  connection (`Outstanding`).
* `ChangesAreSeen`, `ExpiredGo`: `OwnChangesSeen` with the replies under way
  (`UnderWay`), versions the server has (`Bounded`) and what a call holds at
  each point (`Progress`); `ExpiredAreCollected` with the date of the last
  cleaning (`Clean`). `CacheTypes` adds that no entry is valid for longer than
  the time-out from now on (`Bounds`).
* `CallsGetOwnReply`: `ReplyIsOwn` is about the past. It is carried by: who is
  in a call holds the mutex (`HeldByCall`), and what is on the wire belongs to
  the holder, which waits for it (`WireIsHolders`). `RpcTypes` needs that the
  main thread holds the mutex until the start is over (`Starting`): the worker
  shares the code of a call, but not its ways out during the start.

So every safety property that a run checks is proved. The liveness properties
(`ResolveEnds` of `Paths`, `CallsEnd` of `SshfsRequests` and of `HdfsRpc`, and
that the lease is renewed) are only model-checked: liveness under fairness is out
of the prover's reach.
The properties of the violated runs are refuted, not proved.

## 6. Not modelled

* Pass-through calls, the pass-through, cruise and avfs backends: one call each,
  no state of their own. The deprecated module, the FUSE examples, the rest of
  musl, generated protocol buffers: not code of this system.
* Calls by handle of sshfs (read with read-ahead, write, fsync, fstat,
  ftruncate, close). The `usfs_*` functions pass `&fh`, the address of their
  parameter (`sshfs_wrap.c:4260-4312`), and `get_sshfs_file` (2513) takes that
  address for the file object. What follows is undefined, and a model of the
  code below would describe a program that does not exist. For the same reason
  `write_ctr` of the cache never changes.
* HDFS files: write and ftruncate do the same; the rest is a sequence of calls
  by one thread whose outcome is the servers'. The namenode connection below it
  is `HdfsRpc`.
* musl's `dup_common`: `defuse_dup` and `defuse_dup2` have no caller, and the
  function ends without a return value. The table operation it is built on is
  `musl_duplicate_file_handle`. The other musl ports are copies of modelled
  code.
* The kernel module `defuse_wrap_module`: every line of it is about the kernel's
  dentry and inode caches and their reference counts; a model would have to
  invent them.
* Loading of mounts: runs once, before threads. A failing `init_shared_space`
  and close-on-exec: nothing can be promised after them (see the hazards).

Hazards of this code that no property covers, beside those `PROJECT.json` lists
with a note:

* The CLOSE after a failed open may carry a handle of an earlier connection
  (`sshfs_wrap.c:2728`), and `do_write` uses `conn->wfd` without the lock while
  `close_conn` closes it (1275). Server handles and descriptor numbers are not
  told apart in `SshfsRequests`.
* The reply to a truncate is lost after the server carried it out
  (`cache.c:528`): the old attributes stay until they expire. In `AttrCache`
  this is a change by another client and a refusal.
* After a FATAL response, HDFS calls go on to use the number of the closed
  socket (`hadooprpc.c:232`), and a connect that fails early cancels a worker
  that was never created (372). The model has them as failing calls and as the
  end of the process.
* The kernel module recognises a reused inode by the last component of its path
  (`inode.c:658`) and goes on with the dentry after a failed create (163).

What would extend this development: several sshfs connections (`max_conns`),
once calls by handle work; the hand-over of `ExecHandoff` over the bytes of
`SpaceLayout` in one specification.
