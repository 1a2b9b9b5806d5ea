# A verification project for the multi-threaded file storage server

TLA+ models of the server in this repository (`main.c`, `file_locks.c`,
`queue.c`, ...), TLC configurations that check them on small instances, and
TLAPS proofs of theorems about them for instances of any size. Line references
are to the sources at the root of the repository.

## 1. The system

| component | state it keeps | operations | made correct by |
|---|---|---|---|
| **File lock table** `file_locks.c` | `MAX_FILE_LOCKS` = 1024 slots (path, mutex, `ref_count`, `in_use`), `count`, `table_lock` | `acquire_file_lock`, `release_file_lock`, init, destroy | one mutex per path while anybody uses it; a slot is recycled only when nobody does; counts exact; no worker stuck |
| **Thread pools, hand-off, shutdown** `main.c`, `task.h`, `client.h` | `ServerRunning`, two queues with a mutex and a condition variable each, four client threads, four worker threads, one `task` (own mutex, condition variable, `done`) per command in flight | `main` (accept, enqueue, join), `handle_client`, `handle_worker`, `handle_signint` | no task lost, duplicated or used after free; no lost wake-up; each command executed once before it is answered; shutdown terminates |
| **Queue** `queue.c` | linked list `front`/`rear`/`size` | enqueue (may fail), dequeue, peek, destroy | FIFO; unchanged by a failed enqueue |
| **Command execution and quotas** `main.c:12-260` | files below `<username><user_id>/`, quota rows | UPLOAD, DOWNLOAD, DELETE, LIST | `used_bytes` is the sum of the file sizes and within the quota; operations on a file serialized |
| **Storage** `storage.c` | SQLite tables `users`, `quotas` | signup, login, `get_user_id`, quota reads and updates; a connection per call | a user has one id, a quota row and a folder; updates atomic |
| **Session** `main.c:287-406` | the `client` of the connection | SIGNUP/LOGIN, parsing of a command | commands only after authentication, for that user |
| **Wire protocol and client** `utility.c`, `test_client.c` | bytes in flight | length-prefixed commands, uploads, responses | both ends agree where a message starts |

How they interact: `main` accepts a connection and passes a `client` by value
through `ClntQue` to a client thread, which serves that connection until it ends. For
each command it allocates a `task`, passes its *pointer* through `TaskQue`,
and waits on the task's own condition variable. A worker dequeues the pointer,
executes the command (taking file locks and opening the database), sets
`done` and signals. The client thread sends the response, destroys the mutex
and condition variable and frees the task. `handle_signint` runs on main's
stack, clears `ServerRunning`, closes the listening socket and broadcasts on
both queue condition variables; main then joins both pools and destroys
queues and lock table.

What is hard: a mutex awaited outside the lock that protects its slot; the
free of a task racing with the worker's last use of it; wake-ups that can be
lost; a signal handler that uses no mutex; shutdown in the middle of sessions;
ignored results of `queue_enqueue`; the check of a quota long before its
update; three separate persistent steps for a sign-up, which several threads take at
once; a byte stream on which both ends must count alike. `PROJECT.json` lists
each of these hazards at its line with the properties that watch it, or the
reason why none does.

## 2. The modules

```
PathLocks  <--implements--  FileLockTable  <--  MCFileLockTable
                                           <--  FileLockTableProofs
CommandService  <--implements--  ThreadPools  <--  MCThreadPools
                                              <--  ThreadPoolsProofs  <--  CommandServiceProofs
PathLocks  <--uses--  ExecuteTask  <--  MCExecuteTask
                                   <--  ExecuteTaskProofs  <--  AccountingProofs
SignupLogin  <--  MCSignupLogin
             <--  SignupLoginProofs
Fifo  <--implements--  Queue  <--  MCQueue
                              <--  QueueProofs
Wire  <--  WireProofs
```

`ThreadPools` is the frame; the other modules open one of its steps or
variables each. `ExecuteTask` opens its `Execute` (several workers at once) and
forgets where the tasks come from; it uses the lock table through what
`FileLockTable` is shown to implement, so what it says holds as long as all paths are
shorter than `FILEPATH_MAX`. `SignupLogin` opens `Authenticate` (several client threads
at once), `Wire` the socket `link[c]` with the program at its other end, and
`Queue` the sequences `ClntQue` and `TaskQue`.

### FileLockTable (file_locks.c)

Variables have the names of the C fields; `lock[s]` is the thread that owns a
slot's mutex and `table_lock` the one that owns the table's. A thread runs
`Call`, `LockTable`, `Register` or `TableFull`, `LockSlot`, (uses the file),
`LockTable`, `Unregister` or `LockNotFound`. Whatever the code does between
locking and unlocking `table_lock` is one action (nobody else touches the
table meanwhile); the two places where a thread can block, on `table_lock` and
on the slot's mutex, are actions of their own. `Unregister` unlocks the slot
and drops the reference in one action, as both happen under `table_lock`; a
waiter can get the slot's mutex a moment earlier in the program, but touches
nothing before it needs `table_lock` itself.

`Stored[p]` is what `strncpy(..., FILEPATH_MAX - 1)` leaves of path `p`: `p`
itself, or a prefix that `strcmp` does not find equal to `p`. The prefix may be
another member of `Paths`, one that fits: slots of either are then found for
that one (`Shared`), though never for the long path. `Unshared` paths are those
this does not happen to, `PathsFit` says that every path is stored whole.
`Paths` are the paths workers may ask for; "in use" means one of them.

`PathLocks` is the abstract specification: a thread requests a path, is
granted it when nobody holds it, may be refused only when `Capacity` other
paths are held or awaited, and releases it. The refinement mapping takes
`want` to `path`, and `mode` to idle / waiting / holding from the program
counter.

### ThreadPools (main.c, queue.c, task.h)

| in the model | in main.c |
|---|---|
| `main`, `client_fd`: `Accept`, `EnqueueClient`, `StopAccepting`, `JoinClients`, `JoinWorkers` | `main` 615-650 |
| `handler`: `HandlerStop`, `WakeClients`, `WakeWorkers` | `handle_signint` 547-553, one action per statement |
| `pc[t]` = check, sleep, asleep, exited: `FindEmpty`, `Sleep`, `Leave`, `WakeSpuriously` | the waiting loops 412-419 and 264-271 |
| `DequeueClient`, `Authenticate`, `HangUp`, `TakeCommand`, `RefuseCommand`, `Submit`, `AwaitResult`, `Respond`; `Gahak[t]`, `kaam[t]` | `handle_client` 420-541 |
| `DequeueTask`, `Execute`, `MarkDone`, `SignalDone` | `handle_worker` 273-282 |
| `conn[k]`, `done[k]` | the task at address `k`: the connection in it (`NoConn`: not allocated) and its `done` |
| `link[c]` | the socket of connection `c` |
| `sent`, `executed`, `answered` | history: how many valid commands of a connection were taken, executed, answered |
| `refused` | history: the tasks of commands that were not valid |

Mutexes are read off the program counters. A pool thread holds its queue's
mutex from finding the queue empty to `pthread_cond_wait` (pc `sleep`); this
window is kept apart because the handler, which takes no mutex, can run inside it.
All other sections under a queue's mutex read nothing the handler writes and are one
action, enabled while no thread of the pool is in `sleep`. A worker holds a
task's mutex from `done = 1` to the unlock (pc `signal`). A condition variable
is the set of threads at pc `asleep` (or `blocked`, for a task's); a signal
wakes any one of them, or is lost when there is none; a broadcast wakes all; a
woken thread must take the mutex again and re-test. `pthread_cond_wait` may
return spuriously.

Tasks are addresses: `TakeCommand` may reuse one the moment it has been freed,
and `done` at it is what the last owner left unless the code clears it. The task
is allocated (`AllocateTask`) before the command is looked at, so a command
that is not valid costs one too, and its branch (main.c:530-538) does not free
it: `RefuseCommand` leaves it allocated, in nobody's hands, and in `refused`. `queue_enqueue`
may fail when `OutOfMemory` is set, and both callers ignore it. The mutex and
condition variable of a task are taken to be initialized successfully
(`pthread_mutex_init` and `pthread_cond_init` of glibc do not fail).

SIGINT is delivered once (the build is `-std=c99` with `_POSIX_C_SOURCE`, so
`signal` resets the handler; a second SIGINT kills the process) and runs on
main's stack, where the kernel prefers to deliver it; main stands still meanwhile.
A handler that arrives while main is inside the section of `EnqueueClient`
has the same effect as one before or after it, since the threads it wakes
need the mutex main holds.

`CommandService` is the abstract specification: per connection, `Take` a command
when the previous one was answered, `Perform` it, `Answer` it, with
`answered <= executed <= sent`. The mapping is the identity on the three
history variables.

### ExecuteTask (main.c:12-260, the quota functions of storage.c)

| in the model | in the code |
|---|---|
| `size[f]` | the bytes of file `f` on disk, or `Absent` |
| `used[u]` | `used_bytes` of the quota row of `u` |
| `kaam[w]`, `pc[w]`, `old[w]` | the task of a worker, its place in `execute_task`, and `old_file_size`, `file_size` |
| `mode`, `want` | the lock table, as in `PathLocks` |
| `CheckQuota` | `check_quota` (main.c:28, storage.c:283), one action: `UsedRead` is every value its two SELECTs lead to |
| `AskLock`, `GetLock`, `NoLock`, `Release` | the calls of `acquire_file_lock` and `release_file_lock` in all four cases |
| `Stat`, `OpenForWriting`, `Write`, `UpdateUsed` | UPLOAD, main.c:57-97 |
| `Stat`, `Unlink`, `UpdateUsed` | DELETE, main.c:171-191 |
| `Measure`, `Read` | DOWNLOAD, main.c:118-153 |
| `ListFiles` | LIST, main.c:206-249, with the directory's path as the locked path |
| `Crash` | the process dies (a second SIGINT, a SIGPIPE from main.c:508) and is started again; files and database stay |
| `misread` | history: the users of whom an upload was admitted on a count that was too low because the SELECT was refused |
| `uncounted[u]` | history: the bytes of `u`'s files that `used_bytes` misses after an incomplete write, a lost update or a crash |

Each system call and each call of storage.c is one action, for another worker
can run between any two of them. The quota functions open a connection of
their own and run one transaction each, so SQLite isolates them; there is no
busy handler, so a call that meets another connection's lock fails at once, and
the model lets every call fail. A SELECT refused at `sqlite3_prepare_v2` gives -1
and the upload is rejected; one refused at `sqlite3_step` reads as 0
(storage.c:241); `misread` remembers the users of whom that let an upload pass.
`UpdateUsed` applies the
update or loses it, be it refused or rolled back after a failed COMMIT
(storage.c:273). `Write` is `fwrite` and `fclose`: any number of bytes up to the
payload arrives; if fewer than all, `fwrite` may have noticed or, when they were
still in the buffer, nobody has.

### SignupLogin (main.c:287-344, storage.c:11-201)

| in the model | in the code |
|---|---|
| `users`, `quotas`, `lastId` | the two tables and AUTOINCREMENT's memory |
| `folders` | the directories below the working directory |
| `call[t]`, `pc[t]`, `ok[t]`, `id[t]`, `home[t]` | per client thread: the line received, its place, `jaanDeyo`, the user id read last, the directory the session's commands will use |
| `CheckExists`, `InsertUser`, `QuotaUserId`, `InsertQuota` | `signup`, storage.c:76-148 |
| `GetUserId`, `MakeFolder` | the rest of SIGNUP, main.c:299-331 |
| `LoginUserId`, `CheckPassword` | LOGIN, main.c:335-337 |
| `Admit`, `TurnAway`, `HangUp` | AUTH SUCCESS, AUTH FAILED and `close`, the end of a session |
| `Crash` | the process is killed and started again: tables and folders stay |
| `welcomed`, `spoiled` | history: whose SIGNUP succeeded; which of quota row, folder and answer a new user lost to a failure, a crash or another SIGNUP |

Every call of the database opens it anew and is one action, so that other
sign-ups run in between; with `MayRefuse` each may be refused, with the effect
its error path has, and `mkdir` may fail for any reason; with `MayCrash` the
server may be killed at any moment. A `mkdir` of a folder that exists fails
whatever the constants say. Note what the code does and one might not expect: the
second half of SIGNUP runs whatever `signup` returned, so that a SIGNUP of a
name that exists calls `mkdir` too; a quota row that could not be inserted is only
printed; and LOGIN leaves `Gahak.username` without a terminator in a struct
`main` did not clear, so `home` may be `Nowhere`.

`folderOf[n][i]` is the text `<username><user_id>`. The model knows of texts only
what matters: one name with two ids, or two names with one id, make two texts.
The MC module lets `a` with id 2 and `a1` with id 1 make one, as `a` with 11
and `a1` with 1 do.

### Fifo, Queue (queue.c)

`heap[b]` is the block at address `b`: a node (`data`, `next`) or a copied
element; `live` the blocks in use. `Enqueue` takes any two free blocks, `EnqueueFails`
is either `malloc` failing, `Dequeue` and `Destroy` free, so that a pointer kept
too long meets a block with another use. Each call is one action, for callers hold
the queue's mutex. `Fifo` is the sequence with the values the calls return; the mapping
(`Contents`) reads the list from `front` by `size` steps. `ThreadPools` uses
the queues through that sequence.

### Wire (test_client.c, handle_client, handleCmd and upload of main.c)

The client program and the client thread serving it, on two streams. `c2s` is
a sequence of what was written (`len`, `text`, `size`, `data`, each with the command's
number and kind); `s2c` has, per response, the number of the command it is for. A
kind of command is what the two programs treat alike: an UPLOAD of a file, of an
empty one, of one that does not open, of one that cannot be read whole; DOWNLOAD;
SIGNUP or LOGIN; DELETE or LIST; nonsense. The sizes in the stream are not
numbers: a reader that meets another item than the one it is about to read,
or gets part of it (`ShortRead`, where the code has a plain `recv`), goes `astray`, and
from then on answers, keeps silent or hangs up by choice. The user may type
any command at any time he is asked, and the client may disappear at any moment.
`causes` is a history variable: what has upset the exchange.

All modules contain a few definitions no action uses (`FindFreeFirst`,
`MutexIgnored`, `NotCleared`, ...): each is a plausible slip in the definition
right after it, and `PROJECT.json` names the property that breaks when the
slip is made.

## 3. What the runs check

| run | instance | states | shows |
|---|---|---|---|
| `locks_refine` | 3 threads, 3 paths that fit, **2** slots | 49 000 | `CallsReturn`, and the table implements `PathLocks` |
| `locks_long` | 3 threads, 2 slots, 5 paths: `pa`, `pb`; `p511` and `p512`, which is cut to it; `plong`, cut to no path in use | 263 000 (symmetry) | `TypeOK`, `MutualExclusion`, `SlotNotRecycled`, `CountsExact`, `OneSlotPerPath`, while the long paths leak slots until the table is full |
| `locks_serialized` | 3 threads, a short and a long path | | `SerializedPerPath` is **violated** |
| `pools_safe` | 2 + 2 threads, 3 connections of up to 2 commands, 1 invalid one, 3 task addresses, SIGINT, failing `queue_enqueue` | 690 000 (symmetry) | `TypeOK`, `NoUseAfterFree`, `HandedOnce`, `WorkConserving`, `OneHolder`, `NothingLeftBehind`, and the pools implement `CommandService` |
| `pools_live` | 2 client threads, 1 worker, 3 connections of 1 command, SIGINT, no failing `queue_enqueue` | 278 000 | `NoLostTask`, `OneHolder`, `CommandsAnswered`, `ConnectionsServed` |
| `shutdown_join` | 1 + 1 threads, SIGINT | | `WorkersStop` is **violated** |
| `exec_tasks` | 2 workers, 1 user, 3 files, 3 tasks, payloads of 1-2, quota 2, **1** lock | 760 000 | `TypeOK`, `FileStable`, `Accounted`, `OvershootBounded`, `ExecutionEnds` |
| `exec_limit` | 2 workers, 2 users | | `QuotaRespected` is **violated** |
| `signups` | 2 client threads, 2 names, 2 passwords, 4 connections, 3 ids, refusals, crashes | 474 000 (symmetry) | `TypeOK`, `OneUserPerName`, `AuthSound`, `QuotaPromised`, `FolderPromised`, `CreatorWelcomed` |
| `signup_folder` | the same without refusals, failures of `mkdir` and crashes | | `FolderPrivate` is **violated** |
| `queue_list` | 6 blocks, 2 elements | 23 000 | `TypeOK`, `NoLeak`, and the list implements `Fifo` |
| `wire` | 3 commands of any kind | 132 000 | `FramingKept`, `OwnAnswer`, `Answered`, `ThreadFreed` |

The properties:

* `SlotNotRecycled`: the slot a worker awaits or holds keeps its path; the
  pointer taken under `table_lock` stays good after it is released.
* `CountsExact`: a reference count is the number of workers that await or hold
  the slot.
* `OneSlotPerPath`, `MutualExclusion`: no two mutexes for a path, no two
  holders.

  These four make an exception for a path a longer one in use is cut to
  (section 4, second list), and all but `SlotNotRecycled` for the long paths
  themselves: the program does not have them there. What `locks_long` shows is
  that no other path suffers.
* `CallsReturn`: no worker stays blocked on a slot or on `table_lock`.
* `NoUseAfterFree`: a task pointer workers can reach belongs to a client
  thread that still waits.
* `HandedOnce`, `NoLostTask`: a task is in one place, and one that is waited
  for is in some place (a failed `queue_enqueue` does lose its task, so this
  one is checked in `pools_live`, as is the part of `OneHolder` that says an
  open connection has a holder).
* `WorkConserving`: while a thread of a pool sleeps there is a woken one for
  every entry of its queue.
* `OneHolder`: a connection is held by main, by `ClntQue` or by one client
  thread, and is open exactly that long.
* `NothingLeftBehind`: at the end of main no task is queued, and none is
  allocated but those of invalid commands, which leak.
* `CommandsAnswered`: a command submitted while a worker is left is answered;
  also after SIGINT, however the broadcast falls.
* `ConnectionsServed`: a connection queued while a client thread is left is
  served to its end, unless a client thread waits for ever for a command no
  worker is left for. Both leave out what is queued after the last thread of its pool has gone
  (section 4, second list).
* `FileStable`: between a worker's look at its file (`stat`, `ftell`) and its
  action on it (`fopen("wb")`, `unlink`, `fread`) nobody else changes the file.
* `Accounted`: the bytes of a user's files are `used_bytes`, plus what workers
  are about to add, plus what a failure or a crash lost to the count. So the
  paths without failure, an overwrite, a delete, a failed open, never miscount.
* `OvershootBounded`: uploads checked together exceed the quota by one payload per other
  worker at most, whatever fails, for every user of whom no upload was admitted
  on a refused SELECT read as 0.
* `ExecutionEnds`: every command ends, because every path gives the lock back.
* `OneUserPerName`: sign-ups that all saw a name free make one user.
* `AuthSound`: a session is one of a user whose password was sent. Its id and its
  directory are that user's or none; one that a SIGNUP opened has both.
* `QuotaPromised`, `FolderPromised`, `CreatorWelcomed`: a new user has a
  quota row, a folder and AUTH SUCCESS, or his SIGNUP is still under way, or it lost that
  part to a refused call or a crash (the last also to a SIGNUP of the same name that
  made the folder first, or to a folder shared with another user).
* `NoLeak`: the blocks in use are those reachable from `front`, two per element.
* `ImplementsFifo`: each call returns what the sequence does, and `size` and
  `queue_is_empty` are about it, though blocks are reused and `rear` is a second pointer
  into the list.
* `FramingKept`: the server takes bytes for others only after a `recv` that
  returned a part, an upload the client announced and did not send, or one too
  large for the server's `malloc`.
* `OwnAnswer`: a response the client may read is for the command it sent last,
  while nothing upset the exchange. An empty upload does: the client does not
  wait for its answer, and from then on each command gets the one before's.
* `Answered`: a client that waits is answered or sees the connection close,
  unless the server went astray or the downloaded file was empty.
* `ThreadFreed`: when the client is gone its thread becomes free, unless
  SIGPIPE ended the server.

**Bounds.** Three lock users make a holder, a waiter and a newcomer; more
paths than slots make recycling and refusal happen. Two client threads and
three connections make a connection wait for a thread; two addresses and two
commands per connection make an address be reused, by the same connection and
by another; two workers make a signal choose and a task be stolen. `pools_live`
has a single worker, so that it can have SIGINT and three connections: what
another worker could upset, a wake-up or a task gone to the wrong one, is
`WorkConserving` and `NoLostTask`, proved for any number of workers. `MaxCmds` bounds the
commands of a connection (one is enough where two connections already share
the addresses), `Tasks` the addresses, and never fewer than client threads
and refused commands together, so that `malloc` is never the bottleneck (in
`shutdown_join` it may be, which does the worker in question no harm).
`MaxRefused` bounds the invalid commands: one is enough for a leaked task to be
met by everything else in `pools_safe`. It is 0 in `pools_live`,
whose properties a refused command cannot touch: it sends its
client thread back to the loop head, and leaves an address out of circulation.
`CHECK_DEADLOCK FALSE` appears in four kinds of run: with SIGINT, where the process
ends; in `locks_long`, where the program can block for ever
(section 4, second list); in `signup_folder`, which stops after `MaxCalls` connections;
and in `wire`, where the client is through. In `ExecuteTask`, `MaxTasks`
bounds the commands executed: three make two conflict after a first has put a
file there, or overrun a quota already partly used.
`MaxLength` = 2 tells a payload from a shorter one and from nothing, and the quota 2
is reached by two uploads. One entry in the lock table makes a refusal
possible as soon as two paths are in use. In `SignupLogin`, `MaxCalls` = 4
connections are two sign-ups of one name, one of another, and a login or a
retry after a crash; `MaxId` = 3 is one id more than names, so that a name
never runs out of ids. Six blocks hold three elements, or two and one that
fails half way. Three commands in `Wire` make one that upsets the exchange, the one
that suffers and the one after it, with SIGNUP or LOGIN as the first.

**Fairness.** In the lock table, a thread inside a call keeps running (weak
fairness of `Step(t)`); no fairness of the mutex hand-over is assumed beyond
that, and `CallsReturn` is stated for the time after the last `Call`, because
a pthread mutex need not be fair to a waiter while others keep coming. In the
pools, main, each client and each worker thread run when they can, and a
client that has nothing more to ask disconnects (`HangUp`): without the
latter, four idle sessions block the server for ever, as they do in the
program. Nobody has to connect, log in, send a command or press Ctrl-C. In
`ExecuteTask` a worker inside `execute_task` keeps running (weak fairness of
`Step(w)`): its system calls return, one way or the other. `ExecutionEnds` is
stated for the time after the last `Begin`, as `CallsReturn` is.
In `Wire`, the client program and the server thread go on when they can (weak
fairness of `ClientStep` and `ServerStep`); nobody makes the user type, and a
client may leave but need not.
Liveness of the pools is stated for runs in which spurious wake-ups eventually stop
(`FewSpuriousWakeups`): threads that keep waking without cause may keep a mutex busy.

## 4. Disagreements between the code and what is said of it

1. **Long paths are not serialized** (`locks_serialized`, `file_locks.c:77`).
   A path of 512 characters or more is stored cut off and compared whole, so
   each caller gets a slot and a mutex of its own, and `release_file_lock` finds
   nothing. README.md:46 promises per-path locks "to serialize conflicting
   operations on the same file or directory".
2. **Shutdown can hang** (`shutdown_join`, `main.c:551`). The handler sets
   the flag and broadcasts between a worker's test of `ServerRunning` and its
   `pthread_cond_wait`; the worker sleeps for ever and main never prints "All
   threads joined" (main.c:645). The same holds for client threads.
3. **The quota is not a limit** (`exec_limit`, `main.c:28`). Two uploads
   of one user are both checked before either is counted; together they exceed
   the quota, with no call failing. README.md:3 promises "per-user storage
   quotas".
4. **Two users may share a folder** (`signup_folder`, `main.c:315`). `a` with
   id 11 and `a1` with id 1 make one text. The one whose `mkdir` comes second is
   answered AUTH FAILED to his SIGNUP, but his row exists, and LOGIN lets him in.
   Nothing has to fail for this.
   README.md:75: "server creates per-user directories as
   `<username><user_id>`".

Seen while modelling, without a run of their own:

* A path that fits may not be serialized either (file_locks.c:77). A path of 511
  characters may be what is left of a longer one, and then `find_lock_slot` finds
  slots of both for it. While a worker holds it in slot 1, another registers the
  longer path in slot 0, freed meanwhile; the next worker on the 511-character
  path is given slot 0, and two workers hold it. The references go wrong too: a
  release drops one of the first slot with that name, so a slot may be freed
  under the worker that took it for the other path, and a mutex left locked in a
  slot nobody releases blocks all who ask for the shorter path for ever
  (file_locks.c:92). It breaks the promise of README.md:46 as point 1 does. The states are
  in `locks_long` (`p511`, `p512`), whose properties leave that path out.
* Workers leave on an empty queue while sessions go on (main.c:268): a command
  submitted after SIGINT may never be answered, and a connection enqueued then
  (main.c:629) never served. The properties of
  `pools_live` leave that out for this reason: they end with the last thread of a pool.
* The task of an invalid command leaks (main.c:465, 530-538), also that of the
  `quit` with which a session of `scripts/load_test.py` ends (line 137).
* LIST locks the directory's path, UPLOAD and DELETE the file's (main.c:199), so
  a listing runs while its files change.
* The result of `fclose` is ignored (main.c:77): what it cannot write is missing behind
  "UPLOAD SUCCESS", and is counted. `Accounted` has `uncounted` for it.
* An upload refused before its case frees the payload (main.c:50, 67) leaks it.
* Two sign-ups of one name, as `scripts/load_test.py` makes them, may both be answered
  AUTH FAILED: the one that lost the name may make the folder (main.c:319).

## 5. What is proved

The theorems hold for any finite set of threads and any paths, slots,
connections, commands, task addresses, users, files, sizes, names, passwords
and ids. Every invariant a run checks is one of them, and so are the three
refinements; what stays with TLC is liveness.

**File lock table.** Nothing is assumed about the lengths of paths, nor about
what long ones are cut to; the properties themselves name the paths they are
about (`Unshared`). The inductive invariant
(`IInv`) adds to the checked properties what ties them together: a slot in
use with a path's name belongs to exactly the threads registered for it, the
owner of a slot's mutex is a holder of that slot, and a thread inside the table
section owns `table_lock`. `CountsExact` is what makes it inductive: the slot
is freed only when the last user leaves because the count is the number of
users. It is kept beside slots of shared names, of which it says nothing, because
who is registered for an unshared path never finds, releases or frees one of
those. From it: `TypeCorrect`, `Exclusion` (`MutualExclusion`), `SlotsStable`
(`SlotNotRecycled`), `UniqueSlot` (`OneSlotPerPath`), `Counts` (`CountsExact`).
Under the assumption `PathsFit`: `Refinement` (`Spec => ImplementsPathLocks`, one case
per action, the refusal by counting the distinct paths of the slots in use)
and `NeverFull` (`NeverRefused`: with a slot per worker, as with 4 workers and
1024 slots, the table is never full; by counting users against slots. No run is
spent on it, for `locks_refine` has the stronger bound of `Refuse`).

**Pools.** `HInv` says where each task is: `Owning` client threads have
distinct allocated tasks; a task is in `TaskQue`, with one worker, or with
neither, and only a client thread still waiting owns one that workers can
reach; a client thread can pass `await` only after `done`, and `done` is set
only by the worker that then holds the task's mutex, so the client's free comes
after the worker's unlock. It gives `TypeCorrect`, `TasksSafe`
(`NoUseAfterFree`) and `OneWorkerPerTask` (`HandedOnce`), with SIGINT and
failing allocations included. `NoLostWakeup` (`WorkConserving`) needs in addition
`EmptyWhileHeld`, that nothing is enqueued between finding the queue empty and
waiting; its argument counts, per pool, the woken threads against the entries:
an enqueue adds an entry and wakes a sleeper if there is one, a dequeue takes
an entry and one awake thread.

`CommandServiceProofs` goes on from `HInv` to what a client sees. `SoleHolder`
(`OneHolder`) needs `Placed`, that a connection is with main, once in
`ClntQue`, or with one client thread, never two of them, and that a thread that
serves nobody keeps no connection; and `Linked`, that it is open while it is
there. `NothingForgotten` (`NoLostTask`) and `CleanShutdown`
(`NothingLeftBehind`) need that `done` stays set until the client thread has
freed the task (`DoneKept`), that every address in use has an owner or is that
of a refused command (`Allocated`), and that main passes the joins only when all
client threads have left (`Joined`): no owner is left then, so no other task
is, nor an entry of `TaskQue`. `Refinement` (`Spec => ImplementsCommandService`) needs to know how far
each command is (`Turns`): a connection whose thread owns a task is one
command ahead of its answers, and its `executed` has caught up exactly when
`done` is set or a worker is about to set it (`Performed`); for every other
connection the three counts are equal. The bounds of the abstract specification alone
are not inductive, for they do not say which worker the next `Execute` comes
from; and `Placed` is what makes the thread that counts the only one.

**Command execution.** `FilesStable` (`FileStable`) rests on `FInv`: a worker
is between `GetLock` and `Release` exactly when it holds its own path in the lock
table, and nobody shares a path, so a step that writes a file leaves what
others measured alone (`QuietStep`, `DiskStep`, `LockSteps`). `QuotaOvershoot`
(`OvershootBounded`) adds `QInv`. Let n uploads of a user be `Admitted`: past
`check_quota` and not yet counted. The one admitted last saw everything
counted until then; so for some admitted upload, `used_bytes`, its payload and
n - 1 times `MaxLength` stay within the quota plus its allowed excess (`Room`).
An admission makes the newcomer that upload, since n is at most the number of
workers (`RoomFound`); a count or a failure takes one away (`RoomKept`); a
DELETE only subtracts. `OvershootBounded` alone is not inductive: it does not
say that uploads under way were checked.

`AccountingProofs` keeps the books. `Pending` and `Total` are folds over workers
and files, and the provers have no induction. But finite sets are well-founded, so a
statement about sums that failed would fail for a smallest set (`SmallestSet`):
that way a finite set has a sum (`SumExists`), which depends on the summands only
(`SumsAgree`), not on the order (`AmountWithout`), and changes by what one
element contributes (`AmountChange`). `BooksSummed` ties the two folds to it.
Then `BInv` (`FInv`, the types, and `Accounted` itself) is inductive, with an
equation for each step: what the file gains, the quota row gains, or is owed, or
is lost to the count (`FileBooks`). `FileStable` is what makes it hold: the size a
worker subtracts is the size it truncates or removes. This gives `TypesKept` (`TypeOK`) and
`BooksBalance` (`Accounted`). `DiskOvershoot` puts both invariants together:
not only `used_bytes` but the bytes on the disk exceed the quota by at most one
payload per other worker, and what a failure or a crash kept out of the count
(`DiskBounded`), since the uploads stored and not yet counted are among those
`Room` has room for. No run is spent on it: it is a consequence of what
`exec_tasks` checks and `Room`.

**Sign-up and login.** `IInv` says of each thread, by where it is in the code
(`ThreadInv`), that the id it has read and the directory it has built are those
of a user of its name, and that what it accepts was the password of a row; with
ids never above `lastId` and one row per name. Rows and folders only come, so
a thread's part survives the steps of the others (`OtherThread`). It gives
`TypeCorrect`, `OneUser` and `SessionsSound`. `QuotaKept` and `FolderKept` follow
each new user's parts: what a thread owes him it still owes after a step, has
done, or has lost to a refused call or a crash (`OwedStep`, `DoesStep`,
`PromiseStep`). `CreatorsWelcomed` needs `CInv`: a name has at most one
creator, and he is not yet welcomed; every folder is that of some row; and a folder
that exists for a row was made by its creator, or by another SIGNUP of
the name, or is another row's as well (`FoldersExplained`), the only reasons
for which `mkdir` can turn the creator away.

**Queue.** `IInv` says that some sequence lists the nodes from `front` to
`rear` (`IsList`): all different, linked by `next`, each with a data block of
its own that is no node, and nothing else in use. An enqueue appends to it, a
dequeue drops its first, destroy reaches all of it. `node`, the walk along the
pointers, is a recursive function; `NodeIs` shows that it is this sequence, taking the
first place where they differ (`LeastNatural`, from the well-foundedness of the
natural numbers). From it: `TypeCorrect`, `NothingLeaks` (`NoLeak`) and
`Refinement` (`Spec => ImplementsFifo`).

**Wire.** A stream says nothing about where a command ends; the two programs
have to count alike. `FInv` says how, as long as nothing of `FramingKept`'s
list has happened (`Calm`): each item in the stream is followed by what comes
after it (`NextAfter`), the first is what the client thread wants to read, the
last is followed by what the client sends next, and on an empty stream the two
are the same (`Agreed`). Writing and reading keep the stream in order
(`OrderWritten`, `OrderRead`), so the thread never finds another thing
(`Framing`, for `FramingKept`). `OwnAnswer` needs whose turn it is (`OneAtATime`): one
command is under way at a time, on its way to the thread, with it, or its response on its
way back; so the items in the stream are that command's, the next command's length
is not among them, and a response is only sent when the stream is empty
(`AnswersMatch`). It holds while nothing but an unanswered empty download has
happened (`Tidy`): a client that does not wait for the answer to an empty file
breaks it, though not the framing.

The proofs use the assumptions named in the modules (`CapacityAssumption`,
`ThreadsAssumption`, `PathsAssumption`, `PoolsAssumption`, `DataAssumption`,
`SetsAssumption`, `SizesAssumption`, `FolderAssumption`, `NamesAssumption`,
`BlocksAssumption`) and the library's facts about finite sets and sequences.

**Only model-checked**: the liveness properties (`CallsReturn`,
`CommandsAnswered`, `ConnectionsServed`, `ExecutionEnds`, `Answered`,
`ThreadFreed`); liveness under fairness is beyond the prover.

## 6. What is not modelled

The contents of files and messages, SQL, the splitting of a command into words
(`firstWord`), the printing helpers, and the tests. In `ThreadPools`,
authentication succeeds or fails by choice, `Execute` only counts, and `Respond`
stands for sending the response, failing to send it, or (an empty download) having
nothing to send. An unchecked `malloc` or `strdup` that fails (main.c:429, 456,
465 and the answers of `execute_task`) ends the process and is left out. In `ExecuteTask` a file has one
path and one owner, every user has a quota row (`SignupLogin` says when not),
nobody else writes to the directories, `unlink` and `stat` see the same file, and
`used_bytes` is an unbounded integer (64 bits in SQLite). In `SignupLogin`
names and passwords are within storage.c:78's bounds and nobody removes a folder.
`set_user_quota` is called by nobody. `server_fd` is closed by the handler and again by
main (main.c:550, 635); descriptor numbers, and so the closing of another's,
are not modelled. The length of a listing against `file_list[4096]`
(main.c:238) is a matter of bytes no model here has.

## 7. Plan

Every component but the helpers is modelled, and every invariant and
refinement the runs check is proved. What is left:

1. An abstract file service in which UPLOAD, DOWNLOAD and DELETE are single
   steps, implemented by `ExecuteTask`; `FileStable` is most of what its
   refinement needs.
2. `ExecuteTask` for a user whose quota row is missing (`SignupLogin` says when).
3. That a `Wire` with `recv_all` for lengths and commands, and a client that announces
   only what it sends, would leave `malloc` as the one cause of a thread going astray.
