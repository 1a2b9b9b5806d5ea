----------------------------- MODULE PathLocks -----------------------------
(***************************************************************************)
(* What the file-lock table promises its callers, without slots, counters  *)
(* or mutexes: a worker asks for a path, is granted it when nobody else    *)
(* holds that path, may be refused only when Capacity other paths are in   *)
(* use, and gives the path back.  FileLockTable implements this module.    *)
(***************************************************************************)
EXTENDS Naturals, FiniteSets

CONSTANTS Threads,   \* the threads that call the lock table
          Paths,     \* the paths they lock
          NoPath,    \* the argument of a thread that never called
          Capacity   \* how many paths can be locked or awaited at a time

VARIABLES mode,      \* mode[t]: "idle", "waiting" or "holding"
          want       \* want[t]: the path of t's current or last request

lockVars == <<mode, want>>

(* The paths threads other than t hold or wait for. *)
OtherPaths(t) == {want[u] : u \in {v \in Threads \ {t} : mode[v] # "idle"}}

(* No thread holds the path. *)
Unheld(p) == \A u \in Threads : ~(mode[u] = "holding" /\ want[u] = p)

LockInit == /\ mode = [t \in Threads |-> "idle"]
            /\ want = [t \in Threads |-> NoPath]

Request(t, p) == /\ mode[t] = "idle"
                 /\ mode' = [mode EXCEPT ![t] = "waiting"]
                 /\ want' = [want EXCEPT ![t] = p]

Grant(t) == /\ mode[t] = "waiting"
            /\ Unheld(want[t])
            /\ mode' = [mode EXCEPT ![t] = "holding"]
            /\ UNCHANGED want

Refuse(t) == /\ mode[t] = "waiting"
             /\ Cardinality(OtherPaths(t)) >= Capacity
             /\ mode' = [mode EXCEPT ![t] = "idle"]
             /\ UNCHANGED want

Release(t) == /\ mode[t] = "holding"
              /\ mode' = [mode EXCEPT ![t] = "idle"]
              /\ UNCHANGED want

LockNext == \E t \in Threads :
              \/ \E p \in Paths : Request(t, p)
              \/ Grant(t) \/ Refuse(t) \/ Release(t)

LockSpec == LockInit /\ [][LockNext]_lockVars
=============================================================================
