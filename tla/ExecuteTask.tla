---------------------------- MODULE ExecuteTask ----------------------------
(***************************************************************************)
(* execute_task of main.c: what worker threads do to the files, the lock   *)
(* table and the quota rows of users, with the quota functions of          *)
(* storage.c.  This is the Execute step of ThreadPools looked at closely;  *)
(* the lock table is the one PathLocks specifies.                          *)
(*                                                                         *)
(* A file is its size.  A call of the file system or of storage.c is one   *)
(* action: the database isolates them, and without a busy handler a call   *)
(* that meets another connection's lock fails at once.                     *)
(*                                                                         *)
(* A definition no action uses is a plausible slip in the definition that  *)
(* follows it, kept to show that a property would notice.                  *)
(***************************************************************************)
EXTENDS Integers, FiniteSets, FiniteSetsExt

CONSTANTS Workers,        \* the worker threads
          Users, Files,   \* the users, and the file paths they may name
          owner,          \* owner[f]: the user whose directory f is in
          MaxLength,      \* bound: the longest payload of an upload
          QuotaBytes,     \* DEFAULT_QUOTA_BYTES, which no code path changes
          MAX_FILE_LOCKS, \* the capacity of the lock table
          MaxTasks,       \* bound: how many tasks are executed
          NoPath, NoTask

ASSUME SetsAssumption ==
  /\ IsFiniteSet(Workers) /\ Workers # {} /\ IsFiniteSet(Files)
  /\ Files \cap Users = {} /\ owner \in [Files -> Users]
ASSUME SizesAssumption ==
  /\ MaxLength \in Nat \ {0} /\ QuotaBytes \in Nat
  /\ MAX_FILE_LOCKS \in Nat \ {0} /\ MaxTasks \in Nat
ASSUME NamesAssumption == NoPath \notin Files \cup Users

VARIABLES size,        \* size[f]: bytes on disk, or Absent
          used,        \* used[u]: used_bytes of the quota row of u
          uncounted,   \* history: bytes of u's files that used_bytes misses
                       \*   after a failure (less than 0: counts too many)
          misread,     \* history: the users of whom an upload was admitted
                       \*   although the SELECT of used_bytes was refused
          mode, want,  \* the lock table, as PathLocks has it
          pc, kaam,    \* per worker: where it is, its task
          old,         \* old_file_size or file_size, from stat or ftell
          started      \* how many tasks were started

disk   == <<size, used, uncounted, misread>>
locks  == <<mode, want>>
vars   == <<disk, locks, pc, kaam, old, started>>

Absent == -1

(* handleCmd rejects an empty upload. *)
Lengths == 1 .. MaxLength

(* A LIST locks the path of the user's directory, which the user stands for. *)
TaskSet == [cmd : {"UPLOAD"}, path : Files, len : Lengths]
             \cup [cmd : {"DOWNLOAD", "DELETE"}, path : Files, len : {0}]
             \cup [cmd : {"LIST"}, path : Users, len : {0}]

Cmd(w)  == kaam[w].cmd
Path(w) == kaam[w].path
User(w) == IF Path(w) \in Users THEN Path(w) ELSE owner[Path(w)]

Locks == INSTANCE PathLocks WITH Threads <- Workers, Paths <- Files \cup Users,
                                 Capacity <- MAX_FILE_LOCKS

Init == /\ size = [f \in Files |-> Absent]
        /\ used = [u \in Users |-> 0] /\ uncounted = [u \in Users |-> 0]
        /\ misread = {}
        /\ Locks!LockInit
        /\ pc   = [w \in Workers |-> "idle"]
        /\ kaam = [w \in Workers |-> NoTask]
        /\ old  = [w \in Workers |-> 0]
        /\ started = 0

Goto(w, from, to) == /\ pc[w] = from
                     /\ pc' = [pc EXCEPT ![w] = to]

(* What stat finds: 0 bytes for a file that is not there. *)
RawSize(f) == size[f]
Bytes(f)   == IF size[f] = Absent THEN 0 ELSE size[f]

Resize(f, n) == size' = [size EXCEPT ![f] = n]

Miscount(u, n) == uncounted' = [uncounted EXCEPT ![u] = @ + n]

(* What update_used_space has to add. *)
DeltaOfPayload(w) == kaam[w].len
Delta(w)          == kaam[w].len - old[w]
-----------------------------------------------------------------------------
(* A worker has dequeued a task and calls execute_task. *)
Begin(w) ==
  /\ pc[w] = "idle" /\ started < MaxTasks
  /\ \E k \in TaskSet :
       /\ kaam' = [kaam EXCEPT ![w] = k]
       /\ pc' = [pc EXCEPT ![w] = IF k.cmd = "UPLOAD" THEN "check" ELSE "lock"]
  /\ started' = started + 1
  /\ UNCHANGED <<disk, locks, old>>

(* The task has its answer; execute_task returns. *)
Return(w) == /\ pc'   = [pc EXCEPT ![w] = "idle"]
             /\ kaam' = [kaam EXCEPT ![w] = NoTask]
             /\ old'  = [old EXCEPT ![w] = 0]

(* get_used_space: -1 if the database cannot be opened or the prepare is   *)
(* refused; the initial 0 if only the step is.                             *)
UsedRead(u) == {used[u], -1, 0}

AdmitsAlone(seen, n) == seen # -1 /\ n <= QuotaBytes
Admits(seen, n)      == seen # -1 /\ n <= QuotaBytes - seen

(* check_quota, before the file is locked. *)
CheckQuota(w) ==
  /\ pc[w] = "check"
  /\ \E seen \in UsedRead(User(w)) :
       \/ /\ Admits(seen, kaam[w].len)
          /\ pc' = [pc EXCEPT ![w] = "lock"]
          /\ misread' = IF seen < used[User(w)] THEN misread \cup {User(w)}
                        ELSE misread
          /\ UNCHANGED <<kaam, old>>
       \/ ~Admits(seen, kaam[w].len) /\ Return(w) /\ UNCHANGED misread
  /\ UNCHANGED <<size, used, uncounted, locks, started>>

(* acquire_file_lock *)
AskLock(w) == /\ Goto(w, "lock", "blocked")
              /\ Locks!Request(w, Path(w))
              /\ UNCHANGED <<disk, kaam, old, started>>

GrantedShared(w) == /\ mode[w] = "waiting"
                    /\ mode' = [mode EXCEPT ![w] = "holding"]
                    /\ UNCHANGED want
Granted(w)       == Locks!Grant(w)

FirstStep == [UPLOAD |-> "stat", DELETE |-> "stat",
              DOWNLOAD |-> "measure", LIST |-> "list"]

GetLock(w) == /\ Goto(w, "blocked", FirstStep[Cmd(w)])
              /\ Granted(w)
              /\ UNCHANGED <<disk, kaam, old, started>>

NoLock(w) == /\ pc[w] = "blocked"
             /\ Locks!Refuse(w)
             /\ Return(w)
             /\ UNCHANGED <<disk, started>>

ForgetLock(w)  == Return(w) /\ UNCHANGED <<locks, disk, started>>
(* A failed open leads to release_file_lock like everything else. *)
OpenFailed(w) == /\ pc' = [pc EXCEPT ![w] = "release"]
                 /\ UNCHANGED <<disk, locks, kaam, old, started>>

Stat(w) == /\ Goto(w, "stat", IF Cmd(w) = "UPLOAD" THEN "open" ELSE "unlink")
           /\ old' = [old EXCEPT ![w] = Bytes(Path(w))]
           /\ UNCHANGED <<disk, locks, kaam, started>>

(* fopen(filepath, "wb") creates the file or truncates it, or fails. *)
OpenForWriting(w) ==
  \/ /\ Goto(w, "open", "write")
     /\ Resize(Path(w), 0)
     /\ UNCHANGED <<used, uncounted, misread, locks, kaam, old, started>>
  \/ pc[w] = "open" /\ OpenFailed(w)

(* fwrite and fclose.  What fwrite has only buffered is lost unnoticed     *)
(* when fclose, whose result is not looked at, cannot write it.            *)
Write(w) ==
  /\ pc[w] = "write"
  /\ \E stored \in 0 .. kaam[w].len :
       /\ Resize(Path(w), stored)
       /\ \/ /\ Goto(w, "write", "update")        \* UPLOAD SUCCESS
             /\ Miscount(User(w), stored - kaam[w].len)
          \/ /\ stored < kaam[w].len              \* Incomplete write
             /\ Goto(w, "write", "release")
             /\ Miscount(User(w), stored - old[w])
  /\ UNCHANGED <<used, misread, locks, kaam, old, started>>

Unlink(w) ==
  \/ /\ Goto(w, "unlink", "update")
     /\ size[Path(w)] # Absent
     /\ Resize(Path(w), Absent)
     /\ UNCHANGED <<used, uncounted, misread, locks, kaam, old, started>>
  \/ pc[w] = "unlink" /\ OpenFailed(w)

(* fopen(filepath, "rb") and ftell; the file may be absent or too large    *)
(* for malloc.                                                             *)
Measure(w) ==
  \/ /\ Goto(w, "measure", "read")
     /\ size[Path(w)] # Absent
     /\ old' = [old EXCEPT ![w] = size[Path(w)]]
     /\ UNCHANGED <<disk, locks, kaam, started>>
  \/ pc[w] = "measure" /\ OpenFailed(w)

(* fread and fclose. *)
Read(w) == /\ Goto(w, "read", "release")
           /\ UNCHANGED <<disk, locks, kaam, old, started>>

(* opendir, the readdir loop and closedir. *)
ListFiles(w) == /\ Goto(w, "list", "release")
                /\ UNCHANGED <<disk, locks, kaam, old, started>>

(* update_used_space: the UPDATE is applied, or it is refused and rolled   *)
(* back, or its COMMIT is refused and closing the database rolls it back.  *)
UpdateUsed(w) ==
  /\ Goto(w, "update", "release")
  /\ \/ /\ used' = [used EXCEPT ![User(w)] = @ + Delta(w)]
        /\ UNCHANGED uncounted
     \/ UNCHANGED used /\ Miscount(User(w), Delta(w))
  /\ UNCHANGED <<size, misread, locks, kaam, old, started>>

(* release_file_lock, and the end of the case. *)
Release(w) == /\ pc[w] = "release"
              /\ Locks!Release(w)
              /\ Return(w)
              /\ UNCHANGED <<disk, started>>

(* What w has done to its file and not yet told the quota row. *)
PendingOf(w) == IF pc[w] = "write" THEN -old[w]
                ELSE IF pc[w] = "update" THEN Delta(w) ELSE 0

Pending(u) ==
  MapThenSumSet(PendingOf, {w \in Workers : pc[w] # "idle" /\ User(w) = u})

(* The process is killed (a second SIGINT, SIGPIPE) and started again:     *)
(* files and database stay.                                                *)
Crash == /\ uncounted' = [u \in Users |-> uncounted[u] + Pending(u)]
         /\ mode' = [w \in Workers |-> "idle"]
         /\ want' = [w \in Workers |-> NoPath]
         /\ pc'   = [w \in Workers |-> "idle"]
         /\ kaam' = [w \in Workers |-> NoTask]
         /\ old'  = [w \in Workers |-> 0]
         /\ UNCHANGED <<size, used, misread, started>>

(* Everything inside execute_task. *)
Step(w) == \/ CheckQuota(w) \/ AskLock(w) \/ GetLock(w) \/ NoLock(w)
           \/ Stat(w) \/ OpenForWriting(w) \/ Write(w) \/ Unlink(w)
           \/ Measure(w) \/ Read(w) \/ ListFiles(w)
           \/ UpdateUsed(w) \/ Release(w)

Next == Crash \/ \E w \in Workers : Begin(w) \/ Step(w)

Spec == Init /\ [][Next]_vars

(* A worker inside execute_task keeps running. *)
FairSpec == Spec /\ \A w \in Workers : WF_vars(Step(w))
-----------------------------------------------------------------------------
(* Properties                                                              *)

Places == {"idle", "check", "lock", "blocked", "stat", "open", "write",
           "unlink", "measure", "read", "list", "update", "release"}

TypeOK == /\ size \in [Files -> Nat \cup {Absent}]
          /\ used \in [Users -> Int] /\ uncounted \in [Users -> Int]
          /\ misread \subseteq Users
          /\ mode \in [Workers -> {"idle", "waiting", "holding"}]
          /\ want \in [Workers -> Files \cup Users \cup {NoPath}]
          /\ pc   \in [Workers -> Places]
          /\ kaam \in [Workers -> TaskSet \cup {NoTask}]
          /\ old  \in [Workers -> Nat]
          /\ started \in Nat

(* Between looking at a file and acting on what was seen, the file stays   *)
(* as it was: the size an UPLOAD or DELETE will subtract is the size it    *)
(* truncates or removes, the file an UPLOAD fills is the one it emptied,   *)
(* and a DOWNLOAD reads as many bytes as ftell promised.                   *)
FileStable ==
  \A w \in Workers :
    /\ pc[w] \in {"open", "unlink"} => Bytes(Path(w)) = old[w]
    /\ pc[w] = "write" => size[Path(w)] = 0
    /\ pc[w] = "read"  => size[Path(w)] = old[w]

(* Every byte of a user's files is counted in used_bytes, about to be, or  *)
(* was lost to the count by an incomplete write, a refused update or a     *)
(* crash: overwriting, deleting and failing to open never miscount.        *)
Total(u) == MapThenSumSet(Bytes, {f \in Files : owner[f] = u})

Accounted == \A u \in Users : Total(u) = used[u] + Pending(u) + uncounted[u]

(* check_quota is not atomic with the update, but concurrent uploads can   *)
(* overrun the quota by one payload per other worker only, unless a        *)
(* refused SELECT was read as 0 and let an upload of that user pass.       *)
Overrun == (Cardinality(Workers) - 1) * MaxLength

OvershootBounded == \A u \in Users \ misread : used[u] <= QuotaBytes + Overrun

(* README.md:3, "per-user storage quotas": a user never stores more than   *)
(* the quota (with no failure in sight).                                   *)
QuotaRespected ==
  \A u \in Users \ misread :
    uncounted[u] = 0 /\ Pending(u) = 0 => Total(u) <= QuotaBytes

(* Once no more tasks come, every worker gets out of execute_task: no      *)
(* path through it forgets a lock another one waits for.                   *)
ExecutionEnds ==
  <>[][~\E w \in Workers : Begin(w)]_vars
    => \A w \in Workers : <>[](pc[w] = "idle")
=============================================================================
