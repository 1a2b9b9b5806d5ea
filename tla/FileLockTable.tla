--------------------------- MODULE FileLockTable ---------------------------
(***************************************************************************)
(* file_locks.c: a fixed array of named mutexes, found by path under       *)
(* table_lock and reference counted.  A worker thread of main.c calls      *)
(* acquire_file_lock, uses the file, and calls release_file_lock.          *)
(*                                                                         *)
(* Everything between pthread_mutex_lock and pthread_mutex_unlock of       *)
(* table_lock that touches only the table is one action; taking table_lock *)
(* and taking a slot's own mutex are actions of their own, because a       *)
(* thread can block there.                                                 *)
(*                                                                         *)
(* A definition no action uses (FindFreeFirst, AnyReference, ...) is a     *)
(* plausible slip in the definition that follows it, kept to show that a   *)
(* property would notice.                                                  *)
(***************************************************************************)
EXTENDS Integers, FiniteSets

CONSTANTS Threads,        \* the worker threads
          Paths,          \* the paths they ask for
          MAX_FILE_LOCKS, \* the number of slots
          Stored,         \* Stored[p]: what the slot's filepath holds after
                          \*   strncpy(..., FILEPATH_MAX - 1): p itself, or a
                          \*   proper prefix when p does not fit, which may
                          \*   be another path that does
          NoPath,         \* filepath[0] = '\0'
          NoThread        \* an unlocked mutex

ASSUME CapacityAssumption == MAX_FILE_LOCKS \in Nat \ {0}
ASSUME ThreadsAssumption  == IsFiniteSet(Threads) /\ NoThread \notin Threads
ASSUME PathsAssumption    == /\ NoPath \notin Paths
                             /\ DOMAIN Stored = Paths
                             /\ \A p \in Paths : Stored[p] # NoPath
                             /\ \A p \in Paths : Stored[p] \in Paths
                                  => Stored[Stored[p]] = Stored[p]

VARIABLES filepath, in_use, ref_count, lock,  \* the FileLock slots
          count, table_lock,                  \* the rest of FileLockTable
          pc, path, file_lock                 \* per thread: where it is, its
                                              \*   argument, its slot pointer
table == <<filepath, in_use, ref_count, count>>
vars  == <<filepath, in_use, ref_count, lock, count, table_lock,
           pc, path, file_lock>>

Slots == 0 .. MAX_FILE_LOCKS - 1
Names == {Stored[p] : p \in Paths} \cup {NoPath}

(* Every path fits in FILEPATH_MAX, so strcmp can find what was stored. *)
PathsFit == \A p \in Paths : Stored[p] = p

(* The name of slots is a path, and also what is left of a longer one: who *)
(* looks the path up finds the slots of both.                              *)
Shared(name) == /\ name \in Paths
                /\ \E p \in Paths : p # name /\ Stored[p] = name

(* A path whose slots are not found for another path. *)
Unshared(p) == ~Shared(Stored[p])

-----------------------------------------------------------------------------
First(S) == CHOOSE s \in S : \A r \in S : s <= r

Matching(p) == {s \in Slots : in_use[s] /\ filepath[s] = p}

FreeSlotsButLast == {s \in Slots : s < MAX_FILE_LOCKS - 1 /\ ~in_use[s]}
FreeSlots        == {s \in Slots : ~in_use[s]}

FindFreeFirst(p, create) ==
  IF create /\ FreeSlots # {} THEN First(FreeSlots)
  ELSE IF Matching(p) # {} THEN First(Matching(p))
  ELSE -1

find_lock_slot(p, create) ==
  IF Matching(p) # {} THEN First(Matching(p))
  ELSE IF create /\ FreeSlots # {} THEN First(FreeSlots)
  ELSE -1

Init == /\ filepath   = [s \in Slots |-> NoPath]
        /\ in_use     = [s \in Slots |-> FALSE]
        /\ ref_count  = [s \in Slots |-> 0]
        /\ lock       = [s \in Slots |-> NoThread]
        /\ count      = 0
        /\ table_lock = NoThread
        /\ pc         = [t \in Threads |-> "idle"]
        /\ path       = [t \in Threads |-> NoPath]
        /\ file_lock  = [t \in Threads |-> -1]

Goto(t, from, to) == /\ pc[t] = from
                     /\ pc' = [pc EXCEPT ![t] = to]

(* A worker calls acquire_file_lock(GlobalFileLockTable, p). *)
Call(t, p) == /\ Goto(t, "idle", "acquire")
              /\ path' = [path EXCEPT ![t] = p]
              /\ UNCHANGED <<table, lock, table_lock, file_lock>>

(* pthread_mutex_lock(&table->table_lock), in either function. *)
LockTable(t) == /\ table_lock = NoThread
                /\ table_lock' = t
                /\ \/ Goto(t, "acquire", "register")
                   \/ Goto(t, "critical", "unregister")
                /\ UNCHANGED <<table, lock, path, file_lock>>

AddReferenceUntruncated(s, p) ==
  /\ filepath'  = [filepath EXCEPT ![s] = p]
  /\ ref_count' = [ref_count EXCEPT ![s] = @ + 1]
  /\ in_use'    = [in_use EXCEPT ![s] = TRUE]
  /\ count'     = IF in_use[s] THEN count ELSE count + 1

AddReferenceOnlyNew(s, p) ==
  IF in_use[s]
  THEN UNCHANGED <<filepath, ref_count, in_use, count>>
  ELSE AddReferenceUntruncated(s, p)

(* A slot found in use keeps its name and count and gains a reference; a   *)
(* free one is named, marked and counted first.                            *)
AddReference(s, p) ==
  IF in_use[s]
  THEN /\ ref_count' = [ref_count EXCEPT ![s] = @ + 1]
       /\ UNCHANGED <<filepath, in_use, count>>
  ELSE /\ filepath'  = [filepath EXCEPT ![s] = Stored[p]]
       /\ ref_count' = [ref_count EXCEPT ![s] = 1]
       /\ in_use'    = [in_use EXCEPT ![s] = TRUE]
       /\ count'     = count + 1

(* The table section of acquire_file_lock; table_lock is released before   *)
(* the slot's mutex is awaited.                                            *)
Register(t) ==
  LET s == find_lock_slot(path[t], TRUE)
  IN  /\ s # -1
      /\ Goto(t, "register", "blocked")
      /\ AddReference(s, path[t])
      /\ file_lock'  = [file_lock EXCEPT ![t] = s]
      /\ table_lock' = NoThread
      /\ UNCHANGED <<lock, path>>

(* acquire_file_lock returns NULL: "File lock table full!" *)
TableFull(t) == /\ find_lock_slot(path[t], TRUE) = -1
                /\ Goto(t, "register", "idle")
                /\ table_lock' = NoThread
                /\ UNCHANGED <<table, lock, path, file_lock>>

(* pthread_mutex_lock(&file_lock->lock); acquire_file_lock returns. *)
LockSlot(t) == /\ Goto(t, "blocked", "critical")
               /\ lock[file_lock[t]] = NoThread
               /\ lock' = [lock EXCEPT ![file_lock[t]] = t]
               /\ UNCHANGED <<table, table_lock, path, file_lock>>

AnyReference(s) == TRUE

(* The reference release_file_lock drops is the last one. *)
LastReference(s) == ref_count[s] = 1

DropReference(s) ==
  /\ ref_count' = [ref_count EXCEPT ![s] = @ - 1]
  /\ IF LastReference(s)
     THEN /\ in_use'   = [in_use EXCEPT ![s] = FALSE]
          /\ filepath' = [filepath EXCEPT ![s] = NoPath]
          /\ count'    = count - 1
     ELSE UNCHANGED <<in_use, filepath, count>>

UnlockSlotIfLast(s) ==
  lock' = IF LastReference(s) THEN [lock EXCEPT ![s] = NoThread] ELSE lock

UnlockSlot(s) == lock' = [lock EXCEPT ![s] = NoThread]

(* The table section of release_file_lock: unlock the slot found by path,  *)
(* then drop the reference.                                                *)
Unregister(t) ==
  LET s == find_lock_slot(path[t], FALSE)
  IN  /\ s # -1
      /\ Goto(t, "unregister", "idle")
      /\ UnlockSlot(s)
      /\ DropReference(s)
      /\ table_lock' = NoThread
      /\ UNCHANGED <<path, file_lock>>

(* "release_file_lock: Lock not found": nothing is unlocked. *)
LockNotFound(t) == /\ find_lock_slot(path[t], FALSE) = -1
                   /\ Goto(t, "unregister", "idle")
                   /\ table_lock' = NoThread
                   /\ UNCHANGED <<table, lock, path, file_lock>>

(* Everything a thread does once it has called acquire_file_lock. *)
Step(t) == \/ LockTable(t)
           \/ Register(t) \/ TableFull(t) \/ LockSlot(t)
           \/ Unregister(t) \/ LockNotFound(t)

Next == \E t \in Threads : (\E p \in Paths : Call(t, p)) \/ Step(t)

Spec == Init /\ [][Next]_vars

(* A thread inside a call keeps running; nobody has to call. *)
FairSpec == Spec /\ \A t \in Threads : WF_vars(Step(t))
-----------------------------------------------------------------------------
(* Properties                                                              *)

(* Holding a reference: between ref_count++ and ref_count--. *)
Registered(t) == pc[t] \in {"blocked", "critical", "unregister"}

(* Holding the slot's mutex. *)
Holding(t) == pc[t] \in {"critical", "unregister"}

(* The threads registered in a slot under the name it bears. *)
Users(s) == {t \in Threads : /\ Registered(t) /\ file_lock[t] = s
                             /\ Stored[path[t]] = filepath[s]}

TypeOK == /\ filepath   \in [Slots -> Names]
          /\ in_use     \in [Slots -> BOOLEAN]
          /\ ref_count  \in [Slots -> Int]
          /\ lock       \in [Slots -> Threads \cup {NoThread}]
          /\ count      \in Int
          /\ table_lock \in Threads \cup {NoThread}
          /\ pc   \in [Threads -> {"idle", "acquire", "register", "blocked",
                                   "critical", "unregister"}]
          /\ path \in [Threads -> Paths \cup {NoPath}]
          /\ file_lock \in [Threads -> Slots \cup {-1}]

(* Two workers are never both between the return of acquire_file_lock and  *)
(* the unlock in release_file_lock for one path, whatever slots were       *)
(* recycled meanwhile (README: per-path locks "serialize conflicting       *)
(* operations on the same file").  Stated for the paths that fit and that  *)
(* no path in use is cut to: the others do not have this, but do these no  *)
(* harm, even where slots of the others are recycled under their users.    *)
MutualExclusion ==
  \A t, u \in Threads :
    /\ Holding(t) /\ Holding(u) /\ path[t] = path[u]
    /\ Stored[path[t]] = path[t] /\ Unshared(path[t])
    => t = u

(* The slot whose mutex a worker awaits or holds is not freed or renamed   *)
(* under it: the pointer taken inside the table section of                 *)
(* acquire_file_lock stays good after table_lock is released.  (It does    *)
(* not for a path and another that is cut to it: a release of the one      *)
(* drops references of the other.)                                         *)
SlotNotRecycled ==
  \A t \in Threads : Registered(t) /\ Unshared(path[t]) =>
    /\ in_use[file_lock[t]]
    /\ filepath[file_lock[t]] = Stored[path[t]]

(* Every reference count is the number of workers that await or hold the   *)
(* slot, so the slot is given back exactly when the last of them leaves;   *)
(* stated for the slots of a path that fits and no other is cut to (the    *)
(* release of one that does not fit drops no reference) and the free ones. *)
(* count is the number of slots in use, whatever their names.              *)
CountsExact ==
  /\ \A s \in Slots :
       filepath[s] \in Paths \cup {NoPath} /\ ~Shared(filepath[s])
         => ref_count[s] = Cardinality(Users(s))
  /\ count = Cardinality({s \in Slots : in_use[s]})

(* No path has two slots, which would be two independent mutexes, unless a *)
(* longer path is cut to it.                                               *)
OneSlotPerPath ==
  \A s, r \in Slots :
    /\ in_use[s] /\ in_use[r] /\ filepath[s] = filepath[r]
    /\ filepath[s] \in Paths /\ ~Shared(filepath[s])
    => s = r

(* README.md:46 as it stands, with no exception for long paths: workers    *)
(* using one path exclude each other.                                      *)
SerializedPerPath ==
  \A t, u \in Threads : Holding(t) /\ Holding(u) /\ path[t] = path[u] => t = u

(* When workers stop making calls, every call in progress returns: no      *)
(* worker is left blocked on a slot or on table_lock.                      *)
CallsReturn ==
  <>[][~\E t \in Threads, p \in Paths : Call(t, p)]_vars
    => \A t \in Threads : <>[](pc[t] = "idle")

(* The server has fewer workers than slots (ThreadPoolSize is 4,           *)
(* MAX_FILE_LOCKS 1024): as long as no slot leaks, acquire_file_lock never *)
(* finds the table full.  Stated for any table with a slot per worker.     *)
NeverRefused ==
  [][Cardinality(Threads) <= MAX_FILE_LOCKS
       => \A t \in Threads : ~TableFull(t)]_vars

(* The table implements the abstract per-path locks: a lock is granted     *)
(* only when nobody holds the path, and NULL is returned only when         *)
(* MAX_FILE_LOCKS other paths are in use.                                  *)
mode == [t \in Threads |-> IF pc[t] = "idle" THEN "idle"
                           ELSE IF Holding(t) THEN "holding" ELSE "waiting"]

PL == INSTANCE PathLocks WITH want <- path, Capacity <- MAX_FILE_LOCKS

ImplementsPathLocks == PL!LockSpec
=============================================================================
