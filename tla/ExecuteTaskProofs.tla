------------------------- MODULE ExecuteTaskProofs -------------------------
(***************************************************************************)
(* Proofs about ExecuteTask for any number of workers, users and files,    *)
(* with failing calls and crashes.                                         *)
(***************************************************************************)
EXTENDS ExecuteTask, FiniteSetTheorems, TLAPS

(* Where a worker is once it has the lock of its path. *)
Inside == {"stat", "open", "write", "unlink", "measure", "read", "list",
           "update", "release"}

(* Where it works on one file, not on a directory. *)
OnFile == {"check", "stat", "open", "write", "unlink", "measure", "read",
           "update"}

Shape == /\ size \in [Files -> Nat \cup {Absent}]
         /\ mode \in [Workers -> {"idle", "waiting", "holding"}]
         /\ want \in [Workers -> Files \cup Users \cup {NoPath}]
         /\ pc   \in [Workers -> Places]
         /\ old  \in [Workers -> Nat]
         /\ kaam \in [Workers -> TaskSet \cup {NoTask}]
         /\ \A w \in Workers : pc[w] # "idle" => kaam[w] \in TaskSet

OnFiles == \A w \in Workers : pc[w] \in OnFile => Path(w) \in Files

(* The program counters agree with the lock table. *)
Locked == \A w \in Workers :
            /\ pc[w] \in Inside => mode[w] = "holding" /\ want[w] = Path(w)
            /\ pc[w] = "blocked" => want[w] = Path(w)
            /\ pc[w] \notin Inside => mode[w] # "holding"

(* Nobody shares a path. *)
Exclusive == \A v, w \in Workers :
               mode[v] = "holding" /\ mode[w] = "holding" /\ want[v] = want[w]
                 => v = w

FInv == Shape /\ OnFiles /\ Locked /\ Exclusive /\ FileStable

LEMMA TaskShape ==
  /\ \A k \in TaskSet : /\ k.cmd \in {"UPLOAD", "DOWNLOAD", "DELETE", "LIST"}
                        /\ k.path \in Files \cup Users /\ k.len \in Nat
                        /\ k.cmd # "LIST" => k.path \in Files
                        /\ k.cmd = "UPLOAD" => k.len \in Lengths
  /\ Lengths \subseteq Nat /\ 0 \in Nat
  BY SizesAssumption DEF TaskSet, Lengths

(* Steps that change neither the disk nor the lock table, and leave alone  *)
(* what other workers have measured.                                       *)
LEMMA QuietStep ==
  ASSUME FInv, NEW w \in Workers, NEW to \in Places,
         pc' = [pc EXCEPT ![w] = to], UNCHANGED <<size, mode, want>>,
         \A v \in Workers \ {w} : kaam'[v] = kaam[v] /\ old'[v] = old[v],
         kaam' \in [Workers -> TaskSet \cup {NoTask}],
         old' \in [Workers -> Nat],
         to # "idle" => kaam'[w] \in TaskSet,
         to \in OnFile => Path(w)' \in Files,
         to = "blocked" => want[w] = Path(w)',
         to \in Inside <=> pc[w] \in Inside,
         pc[w] \in Inside => kaam'[w] = kaam[w],
         to \in {"open", "unlink"} => Bytes(Path(w)') = old'[w],
         to = "write" => size[Path(w)'] = 0,
         to = "read" => size[Path(w)'] = old'[w]
  PROVE  FInv'
<1>1. \A v \in Workers \ {w} : pc'[v] = pc[v] /\ Path(v)' = Path(v)
  BY DEF FInv, Shape, Path
<1>2. pc'[w] = to
  BY DEF FInv, Shape
<1>3. Shape'
  BY <1>1, <1>2 DEF FInv, Shape
<1>4. OnFiles'
  BY <1>1, <1>2 DEF FInv, OnFiles
<1>5. Locked'
  <2>1. pc[w] \in Inside => Path(w)' = Path(w)
    BY DEF Path
  <2>2. "blocked" \notin Inside
    BY DEF Inside
  <2> QED
    BY <1>1, <1>2, <2>1, <2>2 DEF FInv, Locked
<1>6. Exclusive'
  BY DEF FInv, Exclusive
<1>7. FileStable'
  <2>1. \A f : Bytes(f)' = Bytes(f)
    BY DEF Bytes
  <2> QED
    BY <1>1, <1>2, <2>1 DEF FInv, FileStable
<1> QED
  BY <1>3, <1>4, <1>5, <1>6, <1>7 DEF FInv

LEMMA QuietSteps ==
  ASSUME FInv, NEW w \in Workers,
         \/ Begin(w) \/ CheckQuota(w) \/ Stat(w) \/ Read(w) \/ ListFiles(w)
         \/ UpdateUsed(w)
         \/ pc[w] \in {"open", "unlink", "measure"} /\ OpenFailed(w)
  PROVE  FInv'
<1> USE DEF Goto, disk, locks, Path, Cmd
<1>1. Shape /\ kaam \in [Workers -> TaskSet \cup {NoTask}]
      /\ old \in [Workers -> Nat]
  BY DEF FInv, Shape
<1>2. /\ pc[w] # "idle" => kaam[w] \in TaskSet
      /\ pc[w] \in OnFile => kaam[w].path \in Files
  BY DEF FInv, Shape, OnFiles
<1>3. \A f \in Files : Bytes(f) \in Nat
  BY <1>1 DEF Bytes, Shape, Absent
<1>4. CASE Begin(w)
  <2>1. PICK k \in TaskSet :
          /\ kaam' = [kaam EXCEPT ![w] = k]
          /\ pc' = [pc EXCEPT ![w] = IF k.cmd = "UPLOAD" THEN "check" ELSE "lock"]
    BY <1>4 DEF Begin
  <2>2. k.cmd = "UPLOAD" => k.path \in Files
    BY TaskShape
  <2> QED
    BY <1>1, <1>4, <2>1, <2>2, QuietStep DEF Begin, Places, Inside, OnFile
<1>5. CASE CheckQuota(w)
  <2>1. CASE Return(w)
    BY <1>1, <1>5, <2>1, QuietStep DEF CheckQuota, Return, Places, Inside, OnFile
  <2>2. CASE pc' = [pc EXCEPT ![w] = "lock"] /\ UNCHANGED <<kaam, old>>
    BY <1>1, <1>2, <1>5, <2>2, QuietStep DEF CheckQuota, Places, Inside, OnFile
  <2> QED
    BY <1>5, <2>1, <2>2 DEF CheckQuota
<1>6. CASE Stat(w)
  <2>1. kaam[w].path \in Files /\ kaam[w] \in TaskSet
    BY <1>2, <1>6 DEF Stat, OnFile
  <2>2. old' \in [Workers -> Nat] /\ old'[w] = Bytes(kaam[w].path)
        /\ \A v \in Workers \ {w} : old'[v] = old[v]
    BY <1>1, <1>3, <1>6, <2>1 DEF Stat
  <2>3. PICK to \in {"open", "unlink"} : pc' = [pc EXCEPT ![w] = to]
    BY <1>6 DEF Stat
  <2> QED
    BY <1>1, <1>6, <2>1, <2>2, <2>3, QuietStep DEF Stat, Places, Inside, OnFile
<1>7. CASE \/ Read(w) \/ ListFiles(w) \/ UpdateUsed(w)
           \/ pc[w] \in {"open", "unlink", "measure"} /\ OpenFailed(w)
  <2>1. /\ pc' = [pc EXCEPT ![w] = "release"]
        /\ pc[w] \in {"read", "list", "update", "open", "unlink", "measure"}
        /\ UNCHANGED <<size, mode, want, kaam, old>>
    BY <1>7 DEF Read, ListFiles, UpdateUsed, OpenFailed
  <2>2. kaam[w].path \in Files \/ pc[w] = "list"
    BY <1>2, <2>1 DEF OnFile
  <2> QED
    BY <1>1, <1>2, <2>1, <2>2, QuietStep DEF Places, Inside, OnFile
<1> QED
  BY <1>4, <1>5, <1>6, <1>7

LEMMA MeasureInv ==
  ASSUME FInv, NEW w \in Workers, Measure(w), pc'[w] = "read"
  PROVE  FInv'
<1> USE DEF Goto, disk, locks, Path
<1>1. Shape /\ kaam[w] \in TaskSet /\ kaam[w].path \in Files /\ pc[w] = "measure"
  BY DEF FInv, Shape, OnFiles, OnFile, Measure, OpenFailed
<1>2. /\ pc' = [pc EXCEPT ![w] = "read"]
      /\ size[kaam[w].path] # Absent
      /\ old' = [old EXCEPT ![w] = size[kaam[w].path]]
      /\ UNCHANGED <<size, mode, want, kaam>>
  BY <1>1 DEF Measure, OpenFailed, Shape
<1>3. /\ old' \in [Workers -> Nat] /\ old'[w] = size[kaam[w].path]
      /\ \A v \in Workers \ {w} : old'[v] = old[v]
  BY <1>1, <1>2 DEF Shape
<1> QED
  BY <1>1, <1>2, <1>3, QuietStep DEF Shape, Places, Inside, OnFile

(* Steps that write the worker's own file: nobody else measured it.        *)
LEMMA DiskStep ==
  ASSUME FInv, NEW w \in Workers, NEW to \in {"write", "update", "release"},
         NEW n \in Nat \cup {Absent}, pc[w] \in {"open", "write", "unlink"},
         pc' = [pc EXCEPT ![w] = to], size' = [size EXCEPT ![Path(w)] = n],
         UNCHANGED <<mode, want, kaam, old>>, to = "write" => n = 0
  PROVE  FInv'
<1>1. Shape /\ kaam[w] \in TaskSet /\ Path(w) \in Files /\ pc[w] \in Inside
  BY DEF FInv, Shape, OnFiles, OnFile, Inside
<1>2. /\ pc'[w] = to /\ \A v \in Workers \ {w} : pc'[v] = pc[v]
      /\ \A v \in Workers : Path(v)' = Path(v)
      /\ size'[Path(w)] = n
      /\ \A f \in Files \ {Path(w)} : size'[f] = size[f] /\ Bytes(f)' = Bytes(f)
  BY <1>1 DEF Shape, Path, Bytes
<1>3. Shape'
  BY <1>1, <1>2 DEF Shape, Places
<1>4. OnFiles' /\ Exclusive'
  BY <1>1, <1>2 DEF FInv, OnFiles, Exclusive, OnFile
<1>5. Locked'
  BY <1>1, <1>2 DEF FInv, Locked, Inside
<1>6. \A v \in Workers \ {w} :
        pc[v] \in {"open", "unlink", "write", "read"}
          => Path(v) \in Files \ {Path(w)}
  BY <1>1 DEF FInv, Locked, Exclusive, OnFiles, Inside, OnFile
<1>7. FileStable'
  BY <1>2, <1>6 DEF FInv, FileStable
<1> QED
  BY <1>3, <1>4, <1>5, <1>7 DEF FInv

LEMMA DiskSteps ==
  ASSUME FInv, NEW w \in Workers, OpenForWriting(w) \/ Write(w) \/ Unlink(w)
  PROVE  FInv'
<1> USE DEF Goto, disk, locks, Resize
<1>1. CASE OpenForWriting(w)
  BY <1>1, DiskStep, QuietSteps DEF OpenForWriting
<1>2. CASE Write(w)
  <2>1. kaam[w] \in TaskSet
    BY <1>2 DEF FInv, Shape, Write
  <2>2. \A stored \in 0 .. kaam[w].len : stored \in Nat
    BY <2>1, TaskShape
  <2> QED
    BY <1>2, <2>2, DiskStep DEF Write
<1>3. CASE Unlink(w)
  BY <1>3, DiskStep, QuietSteps DEF Unlink
<1> QED
  BY <1>1, <1>2, <1>3

(* Only a path nobody holds is granted. *)
LEMMA LockSteps ==
  ASSUME FInv, NEW w \in Workers,
         AskLock(w) \/ GetLock(w) \/ NoLock(w) \/ Release(w)
  PROVE  FInv'
<1> USE DEF Goto, disk, locks
<1>1. Shape
  BY DEF FInv
<1>2. CASE AskLock(w)
  <2>1. /\ pc' = [pc EXCEPT ![w] = "blocked"] /\ pc[w] = "lock"
        /\ mode' = [mode EXCEPT ![w] = "waiting"]
        /\ want' = [want EXCEPT ![w] = Path(w)]
        /\ UNCHANGED <<size, kaam, old>>
    BY <1>2 DEF AskLock, Locks!Request
  <2>2. Path(w) \in Files \cup Users
    BY <1>1, <2>1, TaskShape DEF Shape, Path
  <2>3. /\ \A v \in Workers : Path(v)' = Path(v)
        /\ \A f : Bytes(f)' = Bytes(f)
    BY <2>1 DEF Path, Bytes
  <2>4. Shape'
    BY <1>1, <2>1, <2>2 DEF Shape, Places
  <2>5. OnFiles' /\ Locked' /\ Exclusive' /\ FileStable'
    BY <1>1, <2>1, <2>3 DEF FInv, Shape, OnFiles, Locked, Exclusive, FileStable,
                           Inside, OnFile
  <2> QED
    BY <2>4, <2>5 DEF FInv
<1>3. CASE GetLock(w)
  <2>1. PICK to \in {"stat", "measure", "list"} :
          /\ pc' = [pc EXCEPT ![w] = to] /\ pc[w] = "blocked"
          /\ to # "list" => Path(w) \in Files
    <3>1. kaam[w] \in TaskSet /\ pc[w] = "blocked"
      BY <1>1, <1>3 DEF GetLock, Shape
    <3>2. /\ FirstStep[kaam[w].cmd] \in {"stat", "measure", "list"}
          /\ FirstStep[kaam[w].cmd] # "list" => kaam[w].path \in Files
      <4>1. /\ kaam[w].cmd \in {"UPLOAD", "DOWNLOAD", "DELETE", "LIST"}
            /\ kaam[w].cmd # "LIST" => kaam[w].path \in Files
        BY <3>1, TaskShape
      <4>2. /\ FirstStep["UPLOAD"] = "stat" /\ FirstStep["DELETE"] = "stat"
            /\ FirstStep["DOWNLOAD"] = "measure" /\ FirstStep["LIST"] = "list"
        BY DEF FirstStep
      <4> QED
        BY <4>1, <4>2
    <3>3. pc' = [pc EXCEPT ![w] = FirstStep[kaam[w].cmd]]
      BY <1>3 DEF GetLock, Cmd
    <3> QED
      BY <3>1, <3>2, <3>3 DEF Path
  <2>2. /\ mode' = [mode EXCEPT ![w] = "holding"]
        /\ \A v \in Workers : ~(mode[v] = "holding" /\ want[v] = want[w])
        /\ UNCHANGED <<want, size, kaam, old>>
    BY <1>3 DEF GetLock, Granted, Locks!Grant, Locks!Unheld
  <2>3. /\ \A v \in Workers : Path(v)' = Path(v)
        /\ \A f : Bytes(f)' = Bytes(f)
    BY <2>2 DEF Path, Bytes
  <2>4. Shape'
    BY <1>1, <2>1, <2>2 DEF Shape, Places
  <2>5. OnFiles' /\ Locked' /\ Exclusive' /\ FileStable'
    BY <1>1, <2>1, <2>2, <2>3 DEF FInv, Shape, OnFiles, Locked, Exclusive,
                                 FileStable, Inside, OnFile
  <2> QED
    BY <2>4, <2>5 DEF FInv
<1>4. CASE NoLock(w) \/ Release(w)
  <2>1. /\ pc' = [pc EXCEPT ![w] = "idle"]
        /\ mode' = [mode EXCEPT ![w] = "idle"]
        /\ kaam' = [kaam EXCEPT ![w] = NoTask] /\ old' = [old EXCEPT ![w] = 0]
        /\ UNCHANGED <<want, size>>
    BY <1>4 DEF NoLock, Release, Return, Locks!Refuse, Locks!Release
  <2>2. /\ \A v \in Workers \ {w} : Path(v)' = Path(v)
        /\ \A f : Bytes(f)' = Bytes(f)
    BY <1>1, <2>1 DEF Path, Bytes, Shape
  <2>3. Shape'
    BY <1>1, <2>1 DEF Shape, Places
  <2>4. OnFiles' /\ Locked' /\ Exclusive' /\ FileStable'
    BY <1>1, <2>1, <2>2 DEF FInv, Shape, OnFiles, Locked, Exclusive,
                           FileStable, Inside, OnFile
  <2> QED
    BY <2>3, <2>4 DEF FInv
<1> QED
  BY <1>2, <1>3, <1>4

LEMMA FilesInitially == Init => FInv
  BY DEF Init, FInv, Shape, OnFiles, Locked, Exclusive, FileStable, Inside,
         OnFile, Places, Locks!LockInit, Absent

LEMMA FilesNext == FInv /\ [Next]_vars => FInv'
<1> SUFFICES ASSUME FInv, [Next]_vars PROVE FInv'
  OBVIOUS
<1>1. CASE Crash
  BY <1>1 DEF Crash, FInv, Shape, OnFiles, Locked, Exclusive, FileStable,
              Inside, OnFile, Places
<1>2. ASSUME NEW w \in Workers, Begin(w) \/ Step(w)
      PROVE  FInv'
  <2>1. CASE Measure(w)
    BY <1>2, <2>1, MeasureInv, QuietSteps DEF Measure, Goto, FInv, Shape
  <2> QED
    BY <1>2, <2>1, QuietSteps, DiskSteps, LockSteps DEF Step
<1>3. CASE UNCHANGED vars
  BY <1>3 DEF vars, disk, locks, FInv, Shape, OnFiles, Locked, Exclusive,
              FileStable, Path, Bytes
<1> QED
  BY <1>1, <1>2, <1>3 DEF Next

(* What a worker saw of its file stays true until it acts on it, for any   *)
(* number of workers, users and files: every look and every act is inside  *)
(* one hold of the file's lock, also on the error paths.                   *)
THEOREM FilesStable == Spec => []FileStable
<1>1. FInv => FileStable
  BY DEF FInv
<1> QED
  BY <1>1, FilesInitially, FilesNext, PTL DEF Spec
-----------------------------------------------------------------------------
(* The uploads of u that have passed check_quota and are not yet counted. *)
Past == {"lock", "blocked", "stat", "open", "write", "update"}

Admitted(u) == {w \in Workers : /\ pc[w] \in Past /\ Cmd(w) = "UPLOAD"
                               /\ User(w) = u}

Limit == QuotaBytes + Overrun

(* The upload that was admitted last saw all that was counted before; each *)
(* of the others adds one payload at most.                                 *)
Room(u) ==
  /\ used[u] <= Limit
  /\ Admitted(u) # {} =>
       \E w \in Admitted(u) :
         used[u] + kaam[w].len + (Cardinality(Admitted(u)) - 1) * MaxLength <= Limit

(* No upload is on the way of a DELETE to the quota row. *)
Routed == \A w \in Workers : pc[w] = "unlink" => Cmd(w) # "UPLOAD"

QInv == /\ FInv /\ Routed
        /\ used \in [Users -> Int] /\ \A u \in Users \ misread : Room(u)

(* A product of two variables is more than the solver takes in one step.    *)
LEMMA Products ==
  /\ Cardinality(Workers) \in Nat /\ Cardinality(Workers) >= 1
  /\ MaxLength \in Nat /\ Limit \in Int /\ QuotaBytes <= Limit
  /\ \A n \in Int : /\ n * MaxLength \in Int
                    /\ (n - 1) * MaxLength + MaxLength = n * MaxLength
  /\ \A n \in Nat : n < Cardinality(Workers) => QuotaBytes + n * MaxLength <= Limit
<1> DEFINE c == Cardinality(Workers)
<1>1. c \in Nat /\ c >= 1
  BY SetsAssumption, FS_CardinalityType, FS_EmptySet
<1>2. MaxLength \in Nat /\ QuotaBytes \in Nat
  BY SizesAssumption
<1>3. \A n \in Int : /\ n * MaxLength \in Int
                     /\ (n - 1) * MaxLength + MaxLength = n * MaxLength
  BY <1>2
<1>4. ASSUME NEW n \in Nat, n < c
      PROVE  n * MaxLength <= (c - 1) * MaxLength
  <2>1. (c - 1) * MaxLength = n * MaxLength + (c - 1 - n) * MaxLength
    BY <1>1, <1>2
  <2>2. (c - 1 - n) \in Nat
    BY <1>1, <1>4
  <2>3. \A k \in Nat : k * MaxLength \in Nat
    BY <1>2
  <2> QED
    BY <1>2, <1>4, <2>1, <2>2, <2>3
<1>5. (c - 1) * MaxLength \in Nat
  BY <1>1, <1>2
<1> QED
  BY <1>1, <1>2, <1>3, <1>4, <1>5 DEF Limit, Overrun

LEMMA AdmittedFacts ==
  ASSUME FInv, NEW u \in Users
  PROVE  /\ IsFiniteSet(Admitted(u)) /\ Cardinality(Admitted(u)) \in Nat
         /\ Cardinality(Admitted(u)) = 0 <=> Admitted(u) = {}
         /\ \A w \in Admitted(u) : kaam[w] \in TaskSet /\ kaam[w].len \in 1 .. MaxLength
         /\ \A w \in Admitted(u) :
              Cardinality(Admitted(u) \ {w}) = Cardinality(Admitted(u)) - 1
<1>1. IsFiniteSet(Admitted(u))
  BY SetsAssumption, FS_Subset DEF Admitted
<1>2. \A w \in Admitted(u) : kaam[w] \in TaskSet /\ kaam[w].len \in Lengths
  BY TaskShape DEF FInv, Shape, Admitted, Past, Cmd
<1> QED
  BY <1>1, <1>2, FS_CardinalityType, FS_EmptySet, FS_RemoveElement DEF Lengths

(* A worker leaves, its upload counted or not, or nobody does. *)
LEMMA RoomKept ==
  ASSUME QInv, NEW w \in Workers, NEW u \in Users \ misread,
         \/ Admitted(u)' = Admitted(u) /\ used'[u] <= used[u]
         \/ /\ w \in Admitted(u) /\ Admitted(u)' = Admitted(u) \ {w}
            /\ used'[u] <= used[u] + kaam[w].len,
         \A v \in Admitted(u)' : kaam'[v] = kaam[v],
         used'[u] \in Int
  PROVE  Room(u)'
<1> DEFINE A == Admitted(u)
           n == Cardinality(A)
<1>1. Room(u) /\ used[u] \in Int
  BY DEF QInv
<1>2. /\ n \in Nat
      /\ n = 0 <=> A = {}
      /\ \A v \in A : kaam[v].len \in 1 .. MaxLength /\ Cardinality(A \ {v}) = n - 1
  BY AdmittedFacts DEF QInv
<1>3. Limit' = Limit
  BY DEF Limit, Overrun
<1>4. CASE A' = A /\ used'[u] <= used[u]
  <2>1. CASE A = {}
    BY <1>1, <1>3, <1>4, <2>1, Products DEF Room
  <2>2. CASE A # {}
    <3>1. PICK v \in A : used[u] + kaam[v].len + (n - 1) * MaxLength <= Limit
      BY <1>1, <2>2 DEF Room
    <3>2. used'[u] + kaam'[v].len + (n - 1) * MaxLength <= Limit /\ used'[u] <= Limit
      <4>1. kaam'[v] = kaam[v] /\ kaam[v].len \in Nat
        <5>1. v \in A'
          BY <1>4
        <5>2. kaam'[v] = kaam[v]
          BY <5>1
        <5>3. kaam[v].len \in 1 .. MaxLength
          BY <1>2
        <5>4. \A i \in 1 .. MaxLength : i \in Nat
          BY SizesAssumption
        <5> QED
          BY <5>2, <5>3, <5>4
      <4>2. (n - 1) * MaxLength \in Int /\ Limit \in Int
        BY <1>2, Products
      <4>3. used[u] <= Limit
        BY <1>1 DEF Room
      <4> QED
        BY <1>1, <1>4, <3>1, <4>1, <4>2, <4>3
    <3> QED
      BY <1>3, <1>4, <3>2 DEF Room
  <2> QED
    BY <2>1, <2>2
<1>5. CASE w \in A /\ A' = A \ {w} /\ used'[u] <= used[u] + kaam[w].len
  <2>1. PICK v \in A : used[u] + kaam[v].len + (n - 1) * MaxLength <= Limit
    BY <1>1, <1>5 DEF Room
  <2> DEFINE m == (n - 2) * MaxLength
  <2>2. /\ m \in Int /\ (n - 1) * MaxLength = m + MaxLength
        /\ Limit \in Int /\ MaxLength \in Nat
    <3>1. n - 1 \in Int /\ n - 2 \in Int /\ (n - 1) - 1 = n - 2
      BY <1>2
    <3> QED
      BY <3>1, Products
  <2>3. Cardinality(A') = n - 1
    BY <1>2, <1>5
  <2>4. CASE A' = {}
    <3>1. n = 1
      BY <1>2, <2>3, <2>4, FS_EmptySet
    <3>2. v = w
      BY <1>5, <2>4
    <3>3. (n - 1) * MaxLength = 0
      BY <2>2, <3>1
    <3>4. kaam[w].len \in Nat
      BY <1>2, <1>5
    <3>5. used[u] + kaam[w].len <= Limit
      BY <1>1, <2>1, <2>2, <3>2, <3>3, <3>4
    <3>6. used'[u] <= Limit
      BY <1>1, <1>5, <2>2, <3>4, <3>5
    <3> QED
      BY <1>3, <2>4, <3>6 DEF Room
  <2>5. CASE A' # {}
    <3>1. n - 2 \in Nat
      <4>1. PICK x \in A' : TRUE
        BY <2>5
      <4>2. x \in A /\ x # w
        BY <1>5, <4>1
      <4>3. IsFiniteSet(A \ {w})
        BY AdmittedFacts, FS_Subset DEF QInv
      <4>4. Cardinality(A \ {w}) # 0
        BY <4>2, <4>3, FS_EmptySet
      <4> QED
        BY <1>2, <1>5, <4>4
    <3>2. m \in Nat
      BY <3>1, Products
    <3>3. PICK x \in A' : v # w => x = v
      BY <1>5, <2>1, <2>5
    <3>4. x \in A /\ x # w /\ kaam'[x] = kaam[x] /\ kaam[x].len \in 1 .. MaxLength
          /\ kaam[v].len \in 1 .. MaxLength /\ kaam[w].len \in 1 .. MaxLength
      BY <1>2, <1>5, <3>3
    <3>5. used'[u] + kaam[x].len + m <= Limit
      <4>1. used[u] + kaam[v].len + (m + MaxLength) <= Limit
        BY <2>1, <2>2
      <4>2. kaam[w].len + kaam[x].len <= kaam[v].len + MaxLength
        BY <2>2, <3>3, <3>4
      <4> QED
        BY <1>1, <1>5, <2>2, <3>4, <4>1, <4>2
    <3>6. used'[u] <= Limit
      BY <2>2, <3>2, <3>4, <3>5
    <3>7. (Cardinality(A') - 1) * MaxLength = m
      BY <1>2, <2>3
    <3> QED
      BY <1>3, <3>3, <3>4, <3>5, <3>6, <3>7 DEF Room
  <2> QED
    BY <2>4, <2>5
<1> QED
  BY <1>4, <1>5

(* A worker is admitted by what was counted then. *)
LEMMA RoomFound ==
  ASSUME QInv, NEW w \in Workers, NEW u \in Users, w \notin Admitted(u),
         Admitted(u)' = Admitted(u) \cup {w}, kaam[w].len \in Nat,
         UNCHANGED <<used, kaam>>, used[u] + kaam[w].len <= QuotaBytes
  PROVE  Room(u)'
<1> DEFINE n == Cardinality(Admitted(u))
<1>1. IsFiniteSet(Admitted(u)) /\ n \in Nat /\ used[u] \in Int /\ QuotaBytes \in Nat
  BY AdmittedFacts, SizesAssumption DEF QInv
<1>2. Cardinality(Admitted(u) \cup {w}) = n + 1
  BY <1>1, FS_AddElement
<1>3. n + 1 <= Cardinality(Workers)
  <2>1. Admitted(u) \cup {w} \subseteq Workers
    BY DEF Admitted
  <2> QED
    BY <1>2, <2>1, SetsAssumption, FS_Subset
<1>4. QuotaBytes + n * MaxLength <= Limit /\ QuotaBytes <= Limit
      /\ n * MaxLength \in Int /\ Limit \in Int
  BY <1>1, <1>3, Products
<1>5. used[u] + kaam[w].len + n * MaxLength <= Limit /\ used[u] <= Limit
  BY <1>1, <1>4
<1>6. (Cardinality(Admitted(u) \cup {w}) - 1) * MaxLength = n * MaxLength
  BY <1>1, <1>2
<1>7. Limit' = Limit /\ w \in Admitted(u)'
  BY DEF Limit, Overrun
<1> QED
  BY <1>5, <1>6, <1>7 DEF Room

(* Where nobody passes check_quota or is counted. *)
LEMMA UncountedSteps ==
  ASSUME QInv, NEW w \in Workers, NEW u \in Users \ misread,
         \/ Begin(w) \/ AskLock(w) \/ GetLock(w) \/ NoLock(w) \/ Stat(w)
         \/ OpenForWriting(w) \/ Write(w) \/ Unlink(w) \/ Measure(w)
         \/ Read(w) \/ ListFiles(w) \/ Release(w)
  PROVE  Room(u)'
<1> USE DEF Goto
<1>1. Shape /\ used \in [Users -> Int]
  BY DEF QInv, FInv
<1>2. UNCHANGED used
  BY DEF Begin, AskLock, GetLock, NoLock, Stat, OpenForWriting, OpenFailed, Write,
         Unlink, Measure, Read, ListFiles, Release, disk
<1>3. \A v \in Workers \ {w} : pc'[v] = pc[v] /\ kaam'[v] = kaam[v]
  BY <1>1 DEF Begin, AskLock, GetLock, NoLock, Stat, OpenForWriting, OpenFailed,
              Write, Unlink, Measure, Read, ListFiles, Release, Return, Shape
<1>4. \A v \in Workers \ {w} : v \in Admitted(u)' <=> v \in Admitted(u)
  BY <1>3 DEF Admitted, Cmd, User, Path
<1>5. w \in Admitted(u)' => w \in Admitted(u) /\ kaam'[w] = kaam[w]
  <2>1. CASE Begin(w)
    <3>1. PICK k \in TaskSet :
            /\ kaam' = [kaam EXCEPT ![w] = k]
            /\ pc' = [pc EXCEPT ![w] = IF k.cmd = "UPLOAD" THEN "check" ELSE "lock"]
      BY <2>1 DEF Begin
    <3> QED
      BY <1>1, <3>1 DEF Admitted, Past, Cmd, Shape
  <2>2. CASE NoLock(w) \/ Release(w)
    BY <1>1, <2>2 DEF NoLock, Release, Return, Admitted, Past, Shape
  <2>3. CASE \/ AskLock(w) \/ GetLock(w) \/ Stat(w) \/ OpenForWriting(w)
             \/ Write(w) \/ Unlink(w) \/ Measure(w) \/ Read(w) \/ ListFiles(w)
    <3>1. kaam'[w] = kaam[w]
      BY <2>3 DEF AskLock, GetLock, Stat, OpenForWriting, OpenFailed, Write,
                  Unlink, Measure, Read, ListFiles
    <3>2. pc'[w] \in Past => pc[w] \in Past \/ Cmd(w) # "UPLOAD"
      BY <1>1, <2>3 DEF AskLock, GetLock, Stat, OpenForWriting, OpenFailed, Write,
                        Unlink, Measure, Read, ListFiles, Past, QInv, Routed, Shape
    <3> QED
      BY <3>1, <3>2 DEF Admitted, Cmd, User, Path
  <2> QED
    BY <2>1, <2>2, <2>3
<1>6. \/ Admitted(u)' = Admitted(u)
      \/ w \in Admitted(u) /\ Admitted(u)' = Admitted(u) \ {w}
  BY <1>4, <1>5 DEF Admitted
<1>7. \A v \in Admitted(u)' : kaam'[v] = kaam[v]
  BY <1>3, <1>5 DEF Admitted
<1>8. w \in Admitted(u) => kaam[w].len \in Nat
  BY AdmittedFacts, Products DEF QInv
<1>9. used'[u] \in Int /\ used'[u] <= used[u]
      /\ (w \in Admitted(u) => used'[u] <= used[u] + kaam[w].len)
  BY <1>1, <1>2, <1>8
<1> QED
  BY <1>6, <1>7, <1>9, RoomKept

LEMMA CheckSteps ==
  ASSUME QInv, NEW w \in Workers, NEW u \in Users, u \notin misread', CheckQuota(w)
  PROVE  Room(u)'
<1>1. /\ Shape /\ used \in [Users -> Int] /\ UNCHANGED used /\ pc[w] = "check"
      /\ kaam[w] \in TaskSet /\ kaam[w].len \in Nat /\ QuotaBytes \in Nat
  BY TaskShape, SizesAssumption DEF QInv, FInv, Shape, CheckQuota
<1>2. w \notin Admitted(u) /\ u \notin misread
  BY <1>1 DEF Admitted, Past, CheckQuota
<1>3. CASE Return(w)
  <2>1. Admitted(u)' = Admitted(u)
    BY <1>1, <1>2, <1>3 DEF Return, Admitted, Past, Cmd, User, Path, Shape
  <2>2. \A v \in Admitted(u)' : kaam'[v] = kaam[v]
    BY <1>1, <1>2, <1>3, <2>1 DEF Return, Admitted, Shape
  <2> QED
    BY <1>1, <1>2, <2>1, <2>2, RoomKept
<1>4. ASSUME NEW seen \in UsedRead(User(w)), Admits(seen, kaam[w].len),
             pc' = [pc EXCEPT ![w] = "lock"], UNCHANGED <<kaam, old>>,
             seen < used[User(w)] => misread' = misread \cup {User(w)}
      PROVE  Room(u)'
  <2>1. Admitted(u)' = IF Cmd(w) = "UPLOAD" /\ User(w) = u
                         THEN Admitted(u) \cup {w} ELSE Admitted(u)
    BY <1>1, <1>2, <1>4 DEF Admitted, Past, Cmd, User, Path, Shape
  <2>2. CASE Admitted(u)' = Admitted(u)
    BY <1>1, <1>2, <1>4, <2>2, RoomKept
  <2>3. CASE User(w) = u /\ Admitted(u)' = Admitted(u) \cup {w}
    <3>1. seen \in Int /\ used[u] <= seen
      BY <1>1, <1>4, <2>3 DEF UsedRead
    <3>2. used[u] + kaam[w].len <= QuotaBytes
      BY <1>1, <1>4, <3>1 DEF Admits
    <3> QED
      BY <1>1, <1>2, <1>4, <2>3, <3>2, RoomFound
  <2> QED
    BY <2>1, <2>2, <2>3
<1> QED
  BY <1>3, <1>4 DEF CheckQuota

LEMMA UpdateInts ==
  ASSUME QInv, NEW w \in Workers, UpdateUsed(w)
  PROVE  used' \in [Users -> Int]
<1>1. used \in [Users -> Int] /\ kaam[w] \in TaskSet /\ old[w] \in Nat
  BY DEF QInv, FInv, Shape, UpdateUsed, Goto
<1>2. Delta(w) \in Int
  BY <1>1, TaskShape DEF Delta
<1> QED
  BY <1>1, <1>2 DEF UpdateUsed

LEMMA CountSteps ==
  ASSUME QInv, NEW w \in Workers, NEW u \in Users \ misread, UpdateUsed(w)
  PROVE  Room(u)'
<1>1. /\ Shape /\ used \in [Users -> Int] /\ UNCHANGED kaam
      /\ pc[w] = "update" /\ pc' = [pc EXCEPT ![w] = "release"]
      /\ kaam[w] \in TaskSet /\ old[w] \in Nat
  BY DEF QInv, FInv, Shape, UpdateUsed, Goto
<1>2. kaam[w].len \in Nat /\ (Cmd(w) # "UPLOAD" => kaam[w].len = 0)
  BY <1>1, TaskShape DEF TaskSet, Cmd
<1>3. Delta(w) \in Int /\ Delta(w) <= kaam[w].len
  BY <1>1, <1>2 DEF Delta
<1>4. /\ used' \in [Users -> Int]
      /\ used'[u] <= used[u] + kaam[w].len
      /\ User(w) # u \/ Cmd(w) # "UPLOAD" => used'[u] <= used[u]
  BY <1>1, <1>2, <1>3 DEF UpdateUsed
<1>5. Admitted(u)' = Admitted(u) \ {w}
  BY <1>1 DEF Admitted, Past, Cmd, User, Path, Shape
<1>6. CASE w \in Admitted(u)
  BY <1>1, <1>4, <1>5, <1>6, RoomKept
<1>7. CASE w \notin Admitted(u)
  <2>1. used'[u] <= used[u]
    BY <1>1, <1>4, <1>7 DEF Admitted, Past
  <2> QED
    BY <1>1, <1>4, <1>5, <1>7, <2>1, RoomKept
<1> QED
  BY <1>4, <1>6, <1>7

LEMMA RouteKept ==
  ASSUME FInv, Routed, NEW w \in Workers, Begin(w) \/ Step(w)
  PROVE  Routed'
<1> USE DEF Goto, Cmd
<1>1. Shape
  BY DEF FInv
<1>2. \A v \in Workers \ {w} : pc'[v] = pc[v] /\ kaam'[v] = kaam[v]
  BY <1>1 DEF Step, Begin, CheckQuota, AskLock, GetLock, NoLock, Stat,
              OpenForWriting, OpenFailed, Write, Unlink, Measure, Read, ListFiles,
              UpdateUsed, Release, Return, Shape
<1>3. pc'[w] = "unlink" => Stat(w)
  <2>1. CASE GetLock(w)
    <3>1. kaam[w] \in TaskSet /\ pc'[w] = FirstStep[kaam[w].cmd]
      BY <1>1, <2>1 DEF GetLock, Shape
    <3>2. kaam[w].cmd \in {"UPLOAD", "DOWNLOAD", "DELETE", "LIST"}
      BY <3>1, TaskShape
    <3> QED
      BY <3>1, <3>2 DEF FirstStep
  <2> QED
    BY <1>1, <2>1 DEF Step, Begin, CheckQuota, AskLock, NoLock, OpenForWriting,
                      OpenFailed, Write, Unlink, Measure, Read, ListFiles,
                      UpdateUsed, Release, Return, Shape
<1>4. pc'[w] = "unlink" => kaam'[w].cmd # "UPLOAD"
  BY <1>1, <1>3 DEF Stat, Shape
<1> QED
  BY <1>2, <1>4 DEF Routed

LEMMA QuotaAlways == Spec => []QInv
<1>1. Init => QInv
  <2> SUFFICES ASSUME Init PROVE QInv
    OBVIOUS
  <2>1. FInv
    BY FilesInitially
  <2>2. \A w \in Workers : pc[w] = "idle"
    BY DEF Init
  <2>3. \A u \in Users : Admitted(u) = {}
    BY <2>2 DEF Admitted, Past
  <2>4. \A u \in Users : used[u] = 0
    BY DEF Init
  <2>5. QuotaBytes \in Nat /\ QuotaBytes <= Limit /\ Limit \in Int
    BY SizesAssumption, Products
  <2>6. used \in [Users -> Int]
    BY DEF Init
  <2>7. \A u \in Users \ misread : Room(u)
    BY <2>3, <2>4, <2>5 DEF Room
  <2> QED
    BY <2>1, <2>2, <2>6, <2>7 DEF QInv, Routed
<1>2. QInv /\ [Next]_vars => QInv'
  <2> SUFFICES ASSUME QInv, [Next]_vars PROVE QInv'
    OBVIOUS
  <2>1. FInv'
    BY FilesNext DEF QInv
  <2>2. CASE Crash
    <3>1. /\ UNCHANGED <<used, misread>>
         /\ \A w \in Workers : pc'[w] = "idle"
      BY <2>2 DEF Crash
    <3>2. \A u \in Users : Admitted(u)' = {}
      BY <3>1 DEF Admitted, Past
    <3>3. \A u \in Users \ misread' : Room(u)'
      BY <3>1, <3>2 DEF QInv, Room, Limit, Overrun
    <3> QED
      BY <2>1, <3>1, <3>3 DEF QInv, Routed
  <2>3. ASSUME NEW w \in Workers, Begin(w) \/ Step(w)
        PROVE  QInv'
    <3>1. Routed'
      BY <2>3, RouteKept DEF QInv
    <3>2. \A u \in Users \ misread' : Room(u)'
      <4>1. misread \subseteq misread'
        BY <2>3 DEF Step, Begin, CheckQuota, AskLock, GetLock, NoLock, Stat,
                OpenForWriting, OpenFailed, Write, Unlink, Measure, Read,
                ListFiles, UpdateUsed, Release, disk
      <4> QED
        BY <2>3, <4>1, UncountedSteps, CheckSteps, CountSteps DEF Step
    <3>3. used' \in [Users -> Int]
      <4>1. CASE UpdateUsed(w)
        BY <4>1, UpdateInts DEF QInv
      <4>2. CASE ~UpdateUsed(w)
        BY <2>3, <4>2 DEF Step, Begin, CheckQuota, AskLock, GetLock, NoLock, Stat,
                OpenForWriting, OpenFailed, Write, Unlink, Measure, Read,
                ListFiles, Release, disk, QInv
      <4> QED
        BY <4>1, <4>2
    <3> QED
      BY <2>1, <3>1, <3>2, <3>3 DEF QInv
  <2>4. CASE UNCHANGED vars
    <3>1. UNCHANGED <<used, misread, pc, kaam>>
      BY <2>4 DEF vars, disk
    <3>2. \A u \in Users \ misread' : Room(u)'
      BY <3>1 DEF QInv, Room, Limit, Overrun, Admitted, Cmd, User, Path
    <3> QED
      BY <2>1, <3>1, <3>2 DEF QInv, Routed, Cmd
  <2> QED
    BY <2>2, <2>3, <2>4 DEF Next
<1> QED
  BY <1>1, <1>2, PTL DEF Spec

(* The quota is exceeded by at most one payload per other worker, for any  *)
(* number of workers, users and files and any sizes, with failing calls    *)
(* and crashes, for every user none of whose uploads passed on a refused   *)
(* SELECT that was read as 0.                                              *)
THEOREM QuotaOvershoot == Spec => []OvershootBounded
<1>1. QInv => OvershootBounded
  BY DEF QInv, Room, Limit, OvershootBounded
<1> QED
  BY <1>1, QuotaAlways, PTL
=============================================================================
