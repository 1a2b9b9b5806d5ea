-------------------------- MODULE MCFileLockTable --------------------------
EXTENDS FileLockTable, TLC

CONSTANTS LongPaths,  \* the paths of 512 characters or more
          CutToPath,  \* those of them whose first 511 are a path in use,
          ShortPath,  \*   namely this one
          Prefix      \* the first 511 characters of the other long paths

(* strncpy(file_lock->filepath, filepath, FILEPATH_MAX - 1) *)
MCStored == [p \in Paths |-> IF p \in CutToPath THEN ShortPath
                             ELSE IF p \in LongPaths THEN Prefix ELSE p]

(* Threads are interchangeable, and so are the paths that fit and that no  *)
(* other is cut to.                                                        *)
MCSymmetry == Permutations(Threads)
              \cup Permutations(Paths \ (LongPaths \cup {ShortPath}))
=============================================================================
