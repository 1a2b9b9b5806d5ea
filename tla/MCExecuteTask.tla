--------------------------- MODULE MCExecuteTask ---------------------------
EXTENDS ExecuteTask, TLC

CONSTANTS u, v,  \* two users
          g      \* the file of v, if it is one of Files

MCOwner == [f \in Files |-> IF f = g THEN v ELSE u]

(* Workers are interchangeable, and so are the files of u. *)
MCSymmetry == Permutations(Workers) \cup Permutations(Files \ {g})
=============================================================================
