--------------------------- MODULE MCThreadPools ---------------------------
EXTENDS ThreadPools, TLC

(* The threads of a pool, the connections and the addresses of tasks are   *)
(* interchangeable.                                                        *)
MCSymmetry == Permutations(ClientThreads) \cup Permutations(WorkerThreads)
              \cup Permutations(Conns) \cup Permutations(Tasks)
=============================================================================
