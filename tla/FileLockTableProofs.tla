------------------------ MODULE FileLockTableProofs ------------------------
EXTENDS FileLockTable, FiniteSetTheorems, TLAPS

Pointers == \A t \in Threads : Registered(t) => file_lock[t] \in Slots

Named == \A s \in Slots : in_use[s] <=> filepath[s] # NoPath

Referenced == \A s \in Slots : in_use[s] => ref_count[s] >= 1

RefsExact == \A s \in Slots :
               filepath[s] \in Paths \cup {NoPath} /\ ~Shared(filepath[s])
                 => ref_count[s] = Cardinality(Users(s))

Owned == \A t \in Threads :
           Holding(t) /\ Unshared(path[t]) => lock[file_lock[t]] = t

Counted == count = Cardinality({s \in Slots : in_use[s]})

Called == \A t \in Threads : pc[t] # "idle" => path[t] \in Paths

IInv == /\ TypeOK /\ Called /\ Pointers /\ SlotNotRecycled /\ Named
        /\ Referenced /\ RefsExact /\ OneSlotPerPath /\ Owned /\ Counted

-----------------------------------------------------------------------------
(* The lowest index of a nonempty set of slots is one of them. *)
LEMMA FirstIn == ASSUME NEW S, S \subseteq Slots, S # {}
                 PROVE  First(S) \in S
<1>1. S \subseteq Nat
  BY CapacityAssumption DEF Slots
<1>2. PICK x \in S : \A y \in S : ~(<<y, x>> \in OpToRel(<, Nat))
  BY <1>1, NatLessThanWellFounded, WFMin
<1>3. \A y \in S : ~(y < x)
  BY <1>1, <1>2 DEF OpToRel
<1>4. \A r \in S : x <= r
  BY <1>1, <1>3
<1> QED
  BY <1>4 DEF First

(* find_lock_slot returns a slot that bears the path, or, when asked to    *)
(* create one and none does, a free slot, or -1.                           *)
LEMMA FindSlot ==
  ASSUME NEW p
  PROVE  /\ find_lock_slot(p, TRUE) \in Matching(p) \cup FreeSlots \cup {-1}
         /\ find_lock_slot(p, FALSE) \in Matching(p) \cup {-1}
         /\ Matching(p) # {} => /\ find_lock_slot(p, TRUE) \in Matching(p)
                                /\ find_lock_slot(p, FALSE) \in Matching(p)
         /\ find_lock_slot(p, TRUE) = -1 => FreeSlots = {}
<1>1. Matching(p) \subseteq Slots /\ FreeSlots \subseteq Slots
  BY DEF Matching, FreeSlots
<1>2. Matching(p) # {} => First(Matching(p)) \in Matching(p)
  BY <1>1, FirstIn
<1>3. FreeSlots # {} => First(FreeSlots) \in FreeSlots
  BY <1>1, FirstIn
<1>4. -1 \notin Slots
  BY CapacityAssumption DEF Slots
<1> QED
  BY <1>1, <1>2, <1>3, <1>4 DEF find_lock_slot

LEMMA UsersFinite == \A s : IsFiniteSet(Users(s))
  BY ThreadsAssumption, FS_Subset DEF Users

LEMMA SlotsFinite == IsFiniteSet(Slots) /\ Cardinality(Slots) = MAX_FILE_LOCKS
  BY CapacityAssumption, FS_Interval DEF Slots

LEMMA InUseFinite == IsFiniteSet({s \in Slots : in_use[s]})
  BY SlotsFinite, FS_Subset

-----------------------------------------------------------------------------
(* What one conjunct of IInv says about one path or slot. *)

(* A slot that bears a path bears one that fits. *)
LEMMA NameFits ==
  ASSUME IInv, NEW s \in Slots, filepath[s] \in Paths
  PROVE  Stored[filepath[s]] = filepath[s]
<1>1. filepath[s] \in Names
  BY DEF IInv, TypeOK
<1>2. PICK q \in Paths : Stored[q] = filepath[s]
  BY <1>1, PathsAssumption DEF Names
<1> QED
  BY <1>2, PathsAssumption

(* The slot of a registered thread whose path is unshared bears the path   *)
(* exactly when the path fits.                                             *)
LEMMA FitsIffFound ==
  ASSUME IInv, NEW t \in Threads, Registered(t), Unshared(path[t])
  PROVE  /\ path[t] \in Paths
         /\ file_lock[t] \in Slots
         /\ Stored[path[t]] = path[t] => Matching(path[t]) = {file_lock[t]}
         /\ Stored[path[t]] # path[t] =>
              /\ Matching(path[t]) = {}
              /\ filepath[file_lock[t]] \notin Paths \cup {NoPath}
<1>1. path[t] \in Paths
  BY DEF IInv, Called, Registered
<1>2. file_lock[t] \in Slots /\ in_use[file_lock[t]]
      /\ filepath[file_lock[t]] = Stored[path[t]]
  BY DEF IInv, Pointers, SlotNotRecycled
<1>3. Stored[path[t]] = path[t] => Matching(path[t]) = {file_lock[t]}
  BY <1>1, <1>2 DEF IInv, OneSlotPerPath, Matching, Unshared
<1>4. Stored[path[t]] # path[t] => Matching(path[t]) = {}
  BY <1>1, NameFits DEF Matching
<1>5. Stored[path[t]] # path[t] => Stored[path[t]] \notin Paths \cup {NoPath}
  BY <1>1, PathsAssumption DEF Unshared, Shared
<1> QED
  BY <1>1, <1>2, <1>3, <1>4, <1>5

(* Nobody whose path is unshared is registered in a free slot. *)
LEMMA FreeUnused ==
  ASSUME IInv, NEW s \in Slots, ~in_use[s],
         NEW u \in Threads, Registered(u), file_lock[u] = s
  PROVE  Shared(Stored[path[u]])
  BY DEF IInv, SlotNotRecycled, Unshared

LEMMA UnmatchedSlot ==
  ASSUME IInv, NEW t \in Threads, pc[t] = "register",
         find_lock_slot(path[t], TRUE) # -1
  PROVE  LET s == find_lock_slot(path[t], TRUE)
         IN  /\ s \in Slots
             /\ path[t] \in Paths
             /\ in_use[s] => filepath[s] = path[t] /\ Stored[path[t]] = path[t]
             /\ ~in_use[s] => Matching(path[t]) = {}
<1> DEFINE s == find_lock_slot(path[t], TRUE)
<1>1. path[t] \in Paths
  BY DEF IInv, Called
<1>2. s \in Matching(path[t]) \cup FreeSlots
  BY FindSlot
<1>3. s \in Slots
  BY <1>2 DEF Matching, FreeSlots
<1>4. in_use[s] => filepath[s] = path[t] /\ Stored[path[t]] = path[t]
  BY <1>1, <1>2, <1>3, NameFits DEF Matching, FreeSlots
<1>5. ~in_use[s] => Matching(path[t]) = {}
  BY FindSlot DEF Matching
<1> QED
  BY <1>1, <1>3, <1>4, <1>5

-----------------------------------------------------------------------------
(* Every action preserves IInv. *)

LEMMA InitInv == Init => IInv
<1> SUFFICES ASSUME Init PROVE IInv
  OBVIOUS
<1>1. \A s \in Slots : Users(s) = {}
  BY DEF Init, Users, Registered
<1>2. {s \in Slots : in_use[s]} = {}
  BY DEF Init
<1>3. TypeOK
  BY DEF Init, TypeOK, Names
<1>4. Counted /\ RefsExact
  BY <1>1, <1>2, FS_EmptySet DEF Init, Counted, RefsExact
<1>5. /\ Called /\ Pointers /\ SlotNotRecycled /\ Named
      /\ Referenced /\ OneSlotPerPath /\ Owned
  BY DEF Init, Called, Pointers, SlotNotRecycled, Named, Referenced,
         OneSlotPerPath, Owned, Registered, Holding
<1> QED
  BY <1>3, <1>4, <1>5 DEF IInv

(* Calling, taking table_lock and finding the table full change no slot    *)
(* and no thread's registration.                                           *)
LEMMA QuietInv ==
  ASSUME IInv, NEW t \in Threads,
         (\E p \in Paths : Call(t, p)) \/ LockTable(t) \/ TableFull(t)
  PROVE  IInv'
<1> USE DEF Goto, table
<1>1. UNCHANGED <<filepath, in_use, ref_count, lock, count, file_lock>>
  BY DEF Call, LockTable, TableFull
<1>2. TypeOK'
  BY DEF IInv, TypeOK, Call, LockTable, TableFull, Slots, Names
<1>3. \A u \in Threads : /\ Registered(u)' <=> Registered(u)
                         /\ Holding(u)' <=> Holding(u)
                         /\ Registered(u) => path'[u] = path[u]
  BY DEF IInv, TypeOK, Call, LockTable, TableFull, Registered, Holding
<1>4. \A s : Users(s)' = Users(s)
  BY <1>1, <1>3 DEF Users
<1>5. Called'
  BY DEF IInv, TypeOK, Called, Call, LockTable, TableFull
<1>6. Pointers' /\ SlotNotRecycled' /\ Owned'
  BY <1>1, <1>3 DEF IInv, Pointers, SlotNotRecycled, Owned, Registered,
                    Holding, Slots
<1>7. Named' /\ Referenced' /\ OneSlotPerPath' /\ Counted'
  BY <1>1 DEF IInv, Named, Referenced, OneSlotPerPath, Counted, Slots
<1>8. RefsExact'
  BY <1>1, <1>4 DEF IInv, RefsExact, Slots
<1> QED
  BY <1>2, <1>5, <1>6, <1>7, <1>8 DEF IInv

LEMMA LockSlotInv == ASSUME IInv, NEW t \in Threads, LockSlot(t)
                     PROVE  IInv'
<1> USE DEF Goto, table
<1>1. UNCHANGED <<filepath, in_use, ref_count, count, path, file_lock>>
  BY DEF LockSlot
<1>2. file_lock[t] \in Slots
  BY DEF IInv, Pointers, LockSlot, Registered
<1>3. TypeOK'
  BY <1>2 DEF IInv, TypeOK, LockSlot, Slots, Names
<1>4. \A u \in Threads : Registered(u)' <=> Registered(u)
  BY DEF IInv, TypeOK, LockSlot, Registered
<1>5. Owned'
  <2> SUFFICES ASSUME NEW u \in Threads, Holding(u)', Unshared(path[u])
               PROVE  lock'[file_lock[u]] = u
    BY <1>1 DEF Owned, Unshared, Shared
  <2>1. CASE u = t
    BY <1>2, <2>1 DEF IInv, TypeOK, LockSlot
  <2>2. CASE u # t
    <3>1. Holding(u)
      BY <2>2 DEF IInv, TypeOK, LockSlot, Holding
    <3>2. lock[file_lock[u]] = u
      BY <3>1 DEF IInv, Owned
    <3>3. file_lock[u] # file_lock[t]
      BY <3>2, ThreadsAssumption DEF LockSlot
    <3> QED
      BY <3>2, <3>3 DEF LockSlot, IInv, TypeOK
  <2> QED
    BY <2>1, <2>2
<1>6. \A s : Users(s)' = Users(s)
  BY <1>1, <1>4 DEF Users
<1>7. Called' /\ Pointers' /\ SlotNotRecycled'
  BY <1>1, <1>4 DEF IInv, Called, TypeOK, Pointers, SlotNotRecycled, LockSlot,
                    Slots
<1>8. Named' /\ Referenced' /\ OneSlotPerPath' /\ Counted' /\ RefsExact'
  BY <1>1, <1>6 DEF IInv, Named, Referenced, OneSlotPerPath, Counted,
                    RefsExact, Slots
<1> QED
  BY <1>3, <1>5, <1>7, <1>8 DEF IInv

LEMMA LockNotFoundInv ==
  ASSUME IInv, NEW t \in Threads, LockNotFound(t)
  PROVE  IInv'
<1> USE DEF Goto, table
<1>1. UNCHANGED <<filepath, in_use, ref_count, lock, count, path, file_lock>>
  BY DEF LockNotFound
<1>2. Registered(t)
  BY DEF LockNotFound, Registered
<1>3. -1 \notin Slots
  BY CapacityAssumption DEF Slots
<1>4. Matching(path[t]) = {}
  BY <1>3, FindSlot DEF LockNotFound, Matching
<1>5. ASSUME NEW s \in Slots, t \in Users(s),
             filepath[s] \in Paths, ~Shared(filepath[s])
      PROVE  FALSE
  <2>1. Unshared(path[t]) /\ file_lock[t] = s
    BY <1>5 DEF Users, Unshared
  <2> QED
    BY <1>2, <1>4, <1>5, <2>1, FitsIffFound
<1>6. \A u \in Threads : /\ Registered(u)' => Registered(u)
                         /\ Registered(u) /\ u # t => Registered(u)'
                         /\ Holding(u)' => Holding(u)
  BY DEF IInv, TypeOK, LockNotFound, Registered, Holding
<1>7. ASSUME NEW s \in Slots, filepath[s] \in Paths \cup {NoPath},
             ~Shared(filepath[s])
      PROVE  Users(s)' = Users(s)
  <2>1. t \notin Users(s)
    BY <1>5, <1>7, PathsAssumption DEF Users, IInv, Called, Registered
  <2> QED
    BY <1>1, <1>6, <2>1 DEF Users
<1>8. TypeOK'
  BY DEF IInv, TypeOK, LockNotFound, Slots, Names
<1>9. Called' /\ Pointers' /\ SlotNotRecycled' /\ Owned'
  BY <1>1, <1>6 DEF IInv, TypeOK, Called, Pointers, SlotNotRecycled, Owned,
                    LockNotFound, Slots
<1>10. Named' /\ Referenced' /\ OneSlotPerPath' /\ Counted'
  BY <1>1 DEF IInv, Named, Referenced, OneSlotPerPath, Counted, Slots
<1>11. RefsExact'
  BY <1>1, <1>7 DEF IInv, RefsExact, Slots
<1> QED
  BY <1>8, <1>9, <1>10, <1>11 DEF IInv

LEMMA RegisterInv == ASSUME IInv, NEW t \in Threads, Register(t)
                     PROVE  IInv'
<1> USE DEF Goto
<1>1. PICK s \in Slots :
        /\ pc[t] = "register"
        /\ path[t] \in Paths
        /\ in_use[s] => filepath[s] = path[t] /\ Stored[path[t]] = path[t]
        /\ ~in_use[s] => Matching(path[t]) = {}
        /\ AddReference(s, path[t])
        /\ pc' = [pc EXCEPT ![t] = "blocked"]
        /\ file_lock' = [file_lock EXCEPT ![t] = s]
        /\ table_lock' = NoThread
        /\ UNCHANGED <<lock, path>>
  BY UnmatchedSlot DEF Register
<1>2. path[t] \in Paths
  BY <1>1
<1>3. /\ filepath' = [filepath EXCEPT ![s] = Stored[path[t]]]
      /\ in_use' = [in_use EXCEPT ![s] = TRUE]
  BY <1>1, <1>2 DEF AddReference, IInv, TypeOK
<1>4. /\ ref_count' = [ref_count EXCEPT ![s] = IF in_use[s] THEN @ + 1 ELSE 1]
      /\ count' = IF in_use[s] THEN count ELSE count + 1
  BY <1>1, <1>2 DEF AddReference, IInv, TypeOK
<1>5. TypeOK'
  <2>1. Stored[path[t]] \in Names
    BY <1>2 DEF Names
  <2> QED
    BY <1>1, <1>2, <1>3, <1>4, <2>1 DEF IInv, TypeOK, Slots, Names
<1>6. \A u \in Threads : /\ Registered(u)' <=> Registered(u) \/ u = t
                         /\ Holding(u)' <=> Holding(u)
                         /\ u # t => file_lock'[u] = file_lock[u]
  BY <1>1 DEF IInv, TypeOK, Registered, Holding
<1>7. file_lock'[t] = s /\ ~Registered(t)
  BY <1>1 DEF IInv, TypeOK, Registered
<1>8. Called' /\ Pointers'
  BY <1>1, <1>2, <1>6, <1>7 DEF IInv, TypeOK, Called, Pointers, Slots
<1>9. SlotNotRecycled'
  <2> SUFFICES ASSUME NEW u \in Threads, Registered(u)', Unshared(path[u])
               PROVE  /\ in_use'[file_lock'[u]]
                      /\ filepath'[file_lock'[u]] = Stored[path[u]]
    BY <1>1 DEF SlotNotRecycled, Unshared, Shared
  <2>1. CASE u = t
    BY <1>3, <1>7, <2>1 DEF IInv, TypeOK
  <2>2. CASE u # t
    <3>1. /\ in_use[file_lock[u]] /\ file_lock[u] \in Slots
          /\ filepath[file_lock[u]] = Stored[path[u]]
      BY <1>6, <2>2 DEF IInv, SlotNotRecycled, Pointers
    <3>2. CASE file_lock[u] = s
      BY <1>1, <1>3, <1>6, <2>2, <3>1, <3>2 DEF IInv, TypeOK
    <3>3. CASE file_lock[u] # s
      BY <1>3, <1>6, <2>2, <3>1, <3>3 DEF IInv, TypeOK
    <3> QED
      BY <3>2, <3>3
  <2> QED
    BY <2>1, <2>2
<1>10. Named'
  BY <1>2, <1>3, PathsAssumption DEF IInv, TypeOK, Named, Slots
<1>11. Referenced'
  BY <1>2, <1>3, <1>4 DEF IInv, TypeOK, Referenced, Slots
<1>12. OneSlotPerPath'
  <2>1. \A r \in Slots : r # s =>
          in_use'[r] = in_use[r] /\ filepath'[r] = filepath[r]
    BY <1>3 DEF IInv, TypeOK
  <2>2. filepath'[s] = Stored[path[t]]
    BY <1>3 DEF IInv, TypeOK
  <2>3. ASSUME NEW r \in Slots, r # s, in_use[r], filepath[r] = filepath'[s],
               filepath'[s] \in Paths, ~Shared(filepath'[s])
        PROVE  FALSE
    <3>1. Stored[path[t]] = path[t]
      BY <1>2, <2>2, <2>3 DEF Shared
    <3>2. in_use[s] => filepath[s] = path[t]
      BY <1>1
    <3>3. r \in Matching(path[t])
      BY <2>2, <2>3, <3>1 DEF Matching
    <3>4. in_use[s] /\ filepath[s] = filepath[r] /\ filepath[r] \in Paths
          /\ ~Shared(filepath[r])
      BY <1>1, <2>2, <2>3, <3>1, <3>3
    <3> QED
      BY <2>3, <3>4 DEF IInv, OneSlotPerPath
  <2>4. /\ Slots' = Slots
        /\ \A r, q \in Slots : in_use[r] /\ in_use[q]
             /\ filepath[r] = filepath[q] /\ filepath[r] \in Paths
             /\ ~Shared(filepath[r]) => r = q
    BY DEF Slots, IInv, OneSlotPerPath
  <2>5. ASSUME NEW r \in Slots, NEW q \in Slots, in_use'[r], in_use'[q],
               filepath'[r] = filepath'[q], filepath'[r] \in Paths,
               ~Shared(filepath'[r])
        PROVE  r = q
    BY <2>1, <2>3, <2>4, <2>5
  <2> QED
    BY <2>4, <2>5 DEF OneSlotPerPath, Shared
<1>13. Owned'
  <2> SUFFICES ASSUME NEW u \in Threads, Holding(u)', Unshared(path[u])
               PROVE  lock[file_lock'[u]] = u
    BY <1>1 DEF Owned, Unshared, Shared
  <2> QED
    BY <1>6, <1>7 DEF IInv, Owned, Holding, Registered
<1>14. Counted'
  <2>1. {r \in Slots : in_use'[r]} = {r \in Slots : in_use[r]} \cup {s}
    BY <1>2, <1>3 DEF IInv, TypeOK
  <2>2. Slots' = Slots
    BY DEF Slots
  <2> QED
    BY <1>2, <1>4, <2>1, <2>2, InUseFinite, FS_AddElement DEF IInv, Counted
<1>15. RefsExact'
  <2> SUFFICES ASSUME NEW r \in Slots, filepath'[r] \in Paths \cup {NoPath},
                      ~Shared(filepath'[r])
               PROVE  ref_count'[r] = Cardinality(Users(r)')
    BY DEF RefsExact, Slots, Shared
  <2>1. CASE r # s
    <3>1. filepath'[r] = filepath[r]
      BY <1>3, <2>1 DEF IInv, TypeOK
    <3>2. Users(r)' = Users(r)
      BY <1>1, <1>6, <1>7, <2>1, <3>1 DEF Users
    <3> QED
      BY <1>4, <2>1, <3>1, <3>2 DEF IInv, TypeOK, RefsExact
  <2>2. CASE r = s
    <3>1. filepath'[s] = Stored[path[t]] /\ path'[t] = path[t]
      BY <1>1, <1>3 DEF IInv, TypeOK
    <3>2. t \in Users(s)' /\ t \notin Users(s)
      BY <1>6, <1>7, <3>1 DEF Users
    <3>3. CASE in_use[s]
      <4>1. filepath'[s] = filepath[s]
        BY <1>1, <3>1, <3>3
      <4>2. Users(s)' = Users(s) \cup {t}
        BY <1>1, <1>6, <1>7, <3>2, <4>1 DEF Users
      <4>3. Cardinality(Users(s)') = Cardinality(Users(s)) + 1
        BY <3>2, <4>2, UsersFinite, FS_AddElement
      <4>4. ref_count[s] = Cardinality(Users(s))
        BY <2>2, <4>1 DEF IInv, RefsExact
      <4> QED
        BY <1>4, <2>2, <3>3, <4>3, <4>4 DEF IInv, TypeOK
    <3>4. CASE ~in_use[s]
      <4>1. ASSUME NEW u \in Users(s)', u # t PROVE FALSE
        <5>1. /\ u \in Threads /\ Registered(u) /\ file_lock[u] = s
              /\ Stored[path[u]] = filepath'[s]
          BY <1>1, <1>6, <4>1 DEF Users
        <5> QED
          BY <2>2, <3>4, <5>1, FreeUnused
      <4>2. Users(s)' = {t}
        BY <3>2, <4>1
      <4> QED
        BY <1>4, <2>2, <3>4, <4>2, FS_Singleton DEF IInv, TypeOK
    <3> QED
      BY <3>3, <3>4
  <2> QED
    BY <2>1, <2>2
<1> QED
  BY <1>5, <1>8, <1>9, <1>10, <1>11, <1>12, <1>13, <1>14, <1>15 DEF IInv

LEMMA UnregisterInv ==
  ASSUME IInv, NEW t \in Threads, Unregister(t)
  PROVE  IInv'
<1> USE DEF Goto
<1>1. Registered(t) /\ Holding(t)
  BY DEF Unregister, Registered, Holding
<1>2. PICK s \in Slots :
        /\ s \in Matching(path[t])
        /\ UnlockSlot(s) /\ DropReference(s)
        /\ pc' = [pc EXCEPT ![t] = "idle"]
        /\ table_lock' = NoThread
        /\ UNCHANGED <<path, file_lock>>
  BY FindSlot DEF Unregister, Matching
<1>3. /\ in_use[s] /\ filepath[s] = path[t] /\ path[t] \in Paths
      /\ Stored[path[t]] = path[t]
  BY <1>1, <1>2, NameFits DEF IInv, Called, Registered, Matching
<1>4. /\ lock' = [lock EXCEPT ![s] = NoThread]
      /\ ref_count' = [ref_count EXCEPT ![s] = @ - 1]
      /\ IF ref_count[s] = 1
         THEN /\ in_use' = [in_use EXCEPT ![s] = FALSE]
              /\ filepath' = [filepath EXCEPT ![s] = NoPath]
              /\ count' = count - 1
         ELSE UNCHANGED <<in_use, filepath, count>>
  BY <1>2 DEF UnlockSlot, DropReference, LastReference
<1>5. ~Shared(path[t]) =>
        /\ s = file_lock[t] /\ lock[s] = t /\ t \in Users(s)
        /\ ref_count[s] = Cardinality(Users(s))
        /\ ref_count[s] = 1 => Users(s) = {t}
  <2> SUFFICES ASSUME ~Shared(path[t])
               PROVE  /\ s = file_lock[t] /\ lock[s] = t /\ t \in Users(s)
                      /\ ref_count[s] = Cardinality(Users(s))
                      /\ ref_count[s] = 1 => Users(s) = {t}
    OBVIOUS
  <2>1. Unshared(path[t])
    BY <1>3 DEF Unshared
  <2>2. s = file_lock[t]
    BY <1>1, <1>2, <1>3, <2>1, FitsIffFound
  <2>3. lock[s] = t /\ t \in Users(s)
    BY <1>1, <1>3, <2>1, <2>2 DEF IInv, Owned, Users
  <2>4. ref_count[s] = Cardinality(Users(s))
    BY <1>3 DEF IInv, RefsExact
  <2> QED
    BY <2>2, <2>3, <2>4, UsersFinite, FS_Singleton
<1>6. TypeOK'
  <2>1. /\ filepath' \in [Slots -> Names] /\ in_use' \in [Slots -> BOOLEAN]
        /\ count' \in Int
    <3>1. NoPath \in Names
      BY DEF Names
    <3>2. CASE ref_count[s] = 1
      <4>1. filepath' \in [Slots -> Names]
        BY <1>4, <3>1, <3>2 DEF IInv, TypeOK
      <4>2. in_use' = [in_use EXCEPT ![s] = FALSE]
        BY <1>4, <3>2
      <4>3. in_use' \in [Slots -> BOOLEAN]
        BY <4>2, Zenon DEF IInv, TypeOK
      <4>4. count' \in Int
        BY <1>4, <3>2 DEF IInv, TypeOK
      <4> QED
        BY <4>1, <4>3, <4>4
    <3>3. CASE ref_count[s] # 1
      BY <1>4, <3>3 DEF IInv, TypeOK
    <3> QED
      BY <3>2, <3>3
  <2>2. /\ ref_count' \in [Slots -> Int]
        /\ lock' \in [Slots -> Threads \cup {NoThread}]
    BY <1>4 DEF IInv, TypeOK
  <2> QED
    BY <1>2, <2>1, <2>2 DEF IInv, TypeOK, Slots, Names
<1>7. \A u \in Threads : /\ Registered(u)' <=> Registered(u) /\ u # t
                         /\ Holding(u)' <=> Holding(u) /\ u # t
  BY <1>2 DEF IInv, TypeOK, Registered, Holding
<1>8. Called' /\ Pointers'
  BY <1>2, <1>7 DEF IInv, TypeOK, Called, Pointers, Slots
<1>9. SlotNotRecycled'
  <2> SUFFICES ASSUME NEW u \in Threads, Registered(u)', Unshared(path[u])
               PROVE  /\ in_use'[file_lock[u]]
                      /\ filepath'[file_lock[u]] = Stored[path[u]]
    BY <1>2 DEF SlotNotRecycled, Unshared, Shared
  <2>1. /\ u # t /\ file_lock[u] \in Slots /\ in_use[file_lock[u]]
        /\ filepath[file_lock[u]] = Stored[path[u]]
    BY <1>7 DEF IInv, Pointers, SlotNotRecycled
  <2>2. file_lock[u] = s => ref_count[s] # 1
    BY <1>3, <1>5, <1>7, <2>1 DEF Users, Unshared
  <2> QED
    BY <1>4, <2>1, <2>2 DEF IInv, TypeOK
<1>10. Named'
  BY <1>4 DEF IInv, TypeOK, Named, Slots
<1>11. Referenced'
  <2> SUFFICES ASSUME NEW r \in Slots, in_use'[r] PROVE ref_count'[r] >= 1
    BY DEF Referenced, Slots
  <2>1. ref_count[s] \in Int /\ ref_count[r] \in Int /\ ref_count[s] >= 1
    BY <1>3 DEF IInv, TypeOK, Referenced
  <2>2. CASE r = s
    BY <1>4, <2>1, <2>2 DEF IInv, TypeOK
  <2>3. CASE r # s
    BY <1>4, <2>3 DEF IInv, TypeOK, Referenced
  <2> QED
    BY <2>2, <2>3
<1>12. OneSlotPerPath'
  <2>1. \A r \in Slots : in_use'[r] => in_use[r] /\ filepath'[r] = filepath[r]
    <3> SUFFICES ASSUME NEW r \in Slots, in_use'[r]
                 PROVE  in_use[r] /\ filepath'[r] = filepath[r]
      OBVIOUS
    <3>1. CASE ref_count[s] = 1
      BY <1>4, <3>1 DEF IInv, TypeOK
    <3>2. CASE ref_count[s] # 1
      BY <1>4, <3>2
    <3> QED
      BY <3>1, <3>2
  <2> QED
    BY <2>1 DEF IInv, OneSlotPerPath, Slots
<1>13. Owned'
  <2> SUFFICES ASSUME NEW u \in Threads, Holding(u)', Unshared(path[u])
               PROVE  lock'[file_lock[u]] = u
    BY <1>2 DEF Owned, Unshared, Shared
  <2>1. u # t /\ lock[file_lock[u]] = u /\ file_lock[u] \in Slots
    BY <1>7 DEF IInv, Owned, Pointers, Holding, Registered
  <2>2. ASSUME file_lock[u] = s PROVE FALSE
    <3>1. Registered(u)
      BY <1>7 DEF Holding, Registered
    <3>2. path[t] = Stored[path[u]]
      BY <1>3, <2>2, <3>1 DEF IInv, SlotNotRecycled
    <3>3. ~Shared(path[t])
      BY <3>2 DEF Unshared
    <3> QED
      BY <1>5, <2>1, <2>2, <3>3
  <2> QED
    BY <1>4, <2>1, <2>2 DEF IInv, TypeOK
<1>14. Counted'
  <2> DEFINE InUse == {r \in Slots : in_use[r]}
  <2>1. {r \in Slots : in_use'[r]} = IF ref_count[s] = 1 THEN InUse \ {s}
                                                         ELSE InUse
    BY <1>3, <1>4 DEF IInv, TypeOK
  <2>2. Cardinality(InUse \ {s}) = Cardinality(InUse) - 1
    BY <1>3, InUseFinite, FS_RemoveElement
  <2>3. Slots' = Slots
    BY DEF Slots
  <2> QED
    BY <1>4, <2>1, <2>2, <2>3 DEF IInv, Counted
<1>15. RefsExact'
  <2> SUFFICES ASSUME NEW r \in Slots, filepath'[r] \in Paths \cup {NoPath},
                      ~Shared(filepath'[r])
               PROVE  ref_count'[r] = Cardinality(Users(r)')
    BY DEF RefsExact, Slots, Shared
  <2>1. CASE r # s
    <3>1. filepath'[r] = filepath[r] /\ ref_count'[r] = ref_count[r]
      BY <1>4, <2>1 DEF IInv, TypeOK
    <3>2. t \notin Users(r)
      BY <1>3, <1>5, <2>1, <3>1 DEF Users
    <3>3. Users(r)' = Users(r)
      BY <1>2, <1>7, <3>1, <3>2 DEF Users
    <3> QED
      BY <3>1, <3>3 DEF IInv, RefsExact
  <2>2. CASE r = s /\ ref_count[s] = 1
    <3>1. filepath'[s] = NoPath /\ ref_count'[s] = 0
      BY <1>4, <2>2 DEF IInv, TypeOK
    <3>2. \A u \in Threads : Registered(u)' => Stored[path'[u]] # NoPath
      BY <1>2, <1>7, PathsAssumption DEF IInv, Called, Registered
    <3>3. Users(s)' = {}
      BY <3>1, <3>2 DEF Users
    <3> QED
      BY <2>2, <3>1, <3>3, FS_EmptySet
  <2>3. CASE r = s /\ ref_count[s] # 1
    <3>1. filepath'[s] = filepath[s]
      BY <1>4, <2>3
    <3>2. t \in Users(s) /\ ref_count[s] = Cardinality(Users(s))
      BY <1>3, <1>5, <2>3, <3>1
    <3>3. Users(s)' = Users(s) \ {t}
      BY <1>2, <1>7, <3>1 DEF Users
    <3>4. Cardinality(Users(s)') = Cardinality(Users(s)) - 1
      BY <3>2, <3>3, UsersFinite, FS_RemoveElement
    <3>5. ref_count'[s] = ref_count[s] - 1
      BY <1>4 DEF IInv, TypeOK
    <3> QED
      BY <2>3, <3>2, <3>4, <3>5
  <2> QED
    BY <2>1, <2>2, <2>3
<1> QED
  BY <1>6, <1>8, <1>9, <1>10, <1>11, <1>12, <1>13, <1>14, <1>15 DEF IInv

-----------------------------------------------------------------------------
(* IInv holds in every reachable state, for every number of threads, paths *)
(* and slots, whether or not the paths fit or are cut to one another.      *)
THEOREM Inductive == Spec => []IInv
<1>1. Init => IInv
  BY InitInv
<1>2. IInv /\ [Next]_vars => IInv'
  <2> SUFFICES ASSUME IInv, [Next]_vars PROVE IInv'
    OBVIOUS
  <2>1. CASE UNCHANGED vars
    BY <2>1 DEF vars, IInv, TypeOK, Called, Pointers, SlotNotRecycled, Named,
                Referenced, RefsExact, OneSlotPerPath, Owned, Counted, Users,
                Registered, Holding, Slots, Names
  <2>2. ASSUME NEW t \in Threads, (\E p \in Paths : Call(t, p)) \/ Step(t)
        PROVE  IInv'
    BY <2>2, QuietInv, LockSlotInv, RegisterInv, UnregisterInv,
       LockNotFoundInv DEF Step
  <2> QED
    BY <2>1, <2>2 DEF Next
<1> QED
  BY <1>1, <1>2, PTL DEF Spec

(* Every variable keeps its type; in particular a thread only ever awaits  *)
(* or holds a slot of the table.                                           *)
THEOREM TypeCorrect == Spec => []TypeOK
<1>1. IInv => TypeOK
  BY DEF IInv
<1> QED
  BY <1>1, Inductive, PTL

(* Workers that use one path exclude each other if it fits in              *)
(* FileLock.filepath and no longer path in use is cut to it.               *)
THEOREM Exclusion == Spec => []MutualExclusion
<1>1. ASSUME IInv PROVE MutualExclusion
  <2> SUFFICES ASSUME NEW t \in Threads, NEW u \in Threads,
                      Holding(t), Holding(u), path[t] = path[u],
                      Stored[path[t]] = path[t], Unshared(path[t])
               PROVE  t = u
    BY DEF MutualExclusion
  <2>1. file_lock[t] = file_lock[u]
    BY <1>1, FitsIffFound DEF Holding, Registered
  <2> QED
    BY <1>1, <2>1 DEF IInv, Owned
<1> QED
  BY <1>1, Inductive, PTL

(* A slot is neither freed nor renamed while a worker awaits or holds its  *)
(* mutex, unless its name is both a path in use and what is left of a      *)
(* longer one.                                                             *)
THEOREM SlotsStable == Spec => []SlotNotRecycled
<1>1. IInv => SlotNotRecycled
  BY DEF IInv
<1> QED
  BY <1>1, Inductive, PTL

(* No path has two slots, so all who ask for a path meet at one mutex,     *)
(* unless a longer path in use is cut to it.                               *)
THEOREM UniqueSlot == Spec => []OneSlotPerPath
<1>1. IInv => OneSlotPerPath
  BY DEF IInv
<1> QED
  BY <1>1, Inductive, PTL

(* The table's count is exact, and so are the reference counts of the free *)
(* slots and of those of a path that no longer path in use is cut to.      *)
THEOREM Counts == Spec => []CountsExact
<1>1. IInv => CountsExact
  BY DEF IInv, RefsExact, Counted, CountsExact
<1> QED
  BY <1>1, Inductive, PTL

-----------------------------------------------------------------------------
(* What each action of the table is in the abstract specification. *)

LEMMA FitUnshared == PathsFit => /\ \A p : ~Shared(p)
                                 /\ \A p : Unshared(p)
  BY DEF PathsFit, Shared, Unshared

(* acquire_file_lock gives up only when every slot serves another path.    *)
LEMMA FullMeansBusy ==
  ASSUME PathsFit, IInv, NEW t \in Threads, TableFull(t)
  PROVE  Cardinality(PL!OtherPaths(t)) >= MAX_FILE_LOCKS
<1> DEFINE Others == {u \in Threads \ {t} : mode[u] # "idle"}
           Used   == {path[u] : u \in Others}
<1>1. PL!OtherPaths(t) = Used
  BY DEF PL!OtherPaths
<1>2. ~Registered(t) /\ FreeSlots = {}
  BY FindSlot DEF TableFull, Goto, Registered
<1>3. ASSUME NEW s \in Slots PROVE filepath[s] \in Used
  <2>1. in_use[s]
    BY <1>2 DEF FreeSlots
  <2>2. filepath[s] \in Paths
    BY <2>1 DEF IInv, Named, TypeOK, Names, PathsFit
  <2>3. ref_count[s] = Cardinality(Users(s)) /\ ref_count[s] >= 1
    BY <2>1, <2>2, FitUnshared DEF IInv, RefsExact, Referenced
  <2>4. PICK u \in Threads : Registered(u) /\ file_lock[u] = s
    BY <2>3, FS_EmptySet DEF Users
  <2>5. path[u] \in Paths /\ filepath[s] = Stored[path[u]]
    BY <2>4, FitUnshared DEF IInv, SlotNotRecycled, Called, Registered
  <2>6. u # t /\ mode[u] # "idle" /\ filepath[s] = path[u]
    BY <1>2, <2>4, <2>5 DEF PathsFit, mode, Registered, Holding
  <2> QED
    BY <2>6
<1>4. ASSUME NEW s \in Slots, NEW r \in Slots, filepath[s] = filepath[r]
      PROVE  s = r
  <2>1. in_use[s] /\ in_use[r]
    BY <1>2 DEF FreeSlots
  <2>2. filepath[s] \in Paths
    BY <2>1 DEF IInv, Named, TypeOK, Names, PathsFit
  <2> QED
    BY <1>4, <2>1, <2>2, FitUnshared DEF IInv, OneSlotPerPath
<1>5. IsFiniteSet(Used)
  <2>1. IsFiniteSet(Others)
    BY ThreadsAssumption, FS_Subset
  <2>2. [u \in Others |-> path[u]] \in Surjection(Others, Used)
    BY DEF Surjection
  <2> QED
    BY <2>1, <2>2, FS_Surjection
<1>6. [s \in Slots |-> filepath[s]] \in Injection(Slots, Used)
  <2> HIDE DEF Used
  <2> QED
    BY <1>3, <1>4 DEF Injection, IsInjective
<1>7. Cardinality(Slots) <= Cardinality(Used)
  <2> HIDE DEF Used
  <2> QED
    BY <1>5, <1>6, FS_Injection
<1> QED
  BY <1>1, <1>7, SlotsFinite, <1>5, FS_CardinalityType, CapacityAssumption

(* How a step moves the abstract mode. *)
LEMMA ModeStep ==
  ASSUME TypeOK, NEW t \in Threads, NEW to, pc' = [pc EXCEPT ![t] = to]
  PROVE  /\ to = "idle" => mode' = [mode EXCEPT ![t] = "idle"]
         /\ to \in {"critical", "unregister"}
              => mode' = [mode EXCEPT ![t] = "holding"]
         /\ to \in {"acquire", "register", "blocked"}
              => mode' = [mode EXCEPT ![t] = "waiting"]
<1>1. \A u \in Threads : pc'[u] = IF u = t THEN to ELSE pc[u]
  BY DEF TypeOK
<1> QED
  BY <1>1 DEF mode, Holding

LEMMA StepRefines ==
  ASSUME PathsFit, IInv, NEW t \in Threads,
         (\E p \in Paths : Call(t, p)) \/ Step(t)
  PROVE  [PL!LockNext]_<<mode, path>>
<1> USE DEF Goto
<1>1. TypeOK /\ \A p : Unshared(p)
  BY FitUnshared DEF IInv
<1>2. ASSUME NEW p \in Paths, Call(t, p) PROVE PL!Request(t, p)
  <2>1. pc' = [pc EXCEPT ![t] = "acquire"]
    BY <1>2 DEF Call
  <2>2. TypeOK
    BY <1>1
  <2>3. mode' = [mode EXCEPT ![t] = "waiting"]
    BY <2>1, <2>2, ModeStep
  <2> QED
    BY <1>2, <2>3 DEF Call, PL!Request, mode
<1>3. CASE LockTable(t)
  <2>1. mode' = [mode EXCEPT ![t] = mode[t]]
    BY <1>1, <1>3, ModeStep DEF LockTable, mode, Holding
  <2>2. mode' = mode
    BY <2>1 DEF mode
  <2> QED
    BY <1>3, <2>2 DEF LockTable
<1>4. CASE Register(t)
  <2>1. mode' = [mode EXCEPT ![t] = mode[t]]
    BY <1>1, <1>4, ModeStep DEF Register, mode, Holding
  <2>2. mode' = mode
    BY <2>1 DEF mode
  <2> QED
    BY <1>4, <2>2 DEF Register
<1>5. CASE TableFull(t)
  <2>1. mode' = [mode EXCEPT ![t] = "idle"]
    BY <1>1, <1>5, ModeStep DEF TableFull
  <2>2. mode[t] = "waiting"
    BY <1>5 DEF TableFull, mode, Holding
  <2>3. PL!Cardinality(PL!OtherPaths(t)) = Cardinality(PL!OtherPaths(t))
    BY DEF PL!Cardinality, Cardinality
  <2>4. Cardinality(PL!OtherPaths(t)) >= MAX_FILE_LOCKS
    BY <1>5, FullMeansBusy
  <2>5. PL!Refuse(t)
    BY <1>5, <2>1, <2>2, <2>3, <2>4 DEF TableFull, PL!Refuse
  <2> QED
    BY <2>5 DEF PL!LockNext
<1>6. CASE LockSlot(t)
  <2>1. mode' = [mode EXCEPT ![t] = "holding"]
    BY <1>1, <1>6, ModeStep DEF LockSlot
  <2>2. mode[t] = "waiting" /\ Registered(t)
    BY <1>6 DEF LockSlot, mode, Holding, Registered
  <2>3. ASSUME NEW u \in Threads, mode[u] = "holding", path[u] = path[t]
        PROVE  FALSE
    <3>1. Holding(u) /\ Registered(u)
      BY <2>3 DEF mode, Holding, Registered
    <3>2. file_lock[u] = file_lock[t]
      BY <1>1, <2>2, <2>3, <3>1, FitsIffFound DEF PathsFit
    <3> QED
      BY <1>1, <1>6, <3>1, <3>2, ThreadsAssumption DEF LockSlot, IInv, Owned
  <2> QED
    BY <1>6, <2>1, <2>2, <2>3 DEF LockSlot, PL!Unheld, PL!Grant, PL!LockNext
<1>7. CASE Unregister(t) \/ LockNotFound(t)
  <2>1. mode' = [mode EXCEPT ![t] = "idle"]
    BY <1>1, <1>7, ModeStep DEF Unregister, LockNotFound
  <2>2. mode[t] = "holding"
    BY <1>7 DEF Unregister, LockNotFound, mode, Holding
  <2> QED
    BY <1>7, <2>1, <2>2 DEF Unregister, LockNotFound, PL!Release, PL!LockNext
<1> QED
  BY <1>2, <1>3, <1>4, <1>5, <1>6, <1>7 DEF Step, PL!LockNext

(* The table of slots implements per-path locks: for any number of         *)
(* threads, paths and slots, a worker gets a path only when nobody holds   *)
(* it and is turned away only when MAX_FILE_LOCKS others are in use.       *)
THEOREM Refinement == ASSUME PathsFit PROVE Spec => ImplementsPathLocks
<1>1. Init => PL!LockInit
  BY DEF Init, PL!LockInit, mode
<1>2. IInv /\ [Next]_vars => [PL!LockNext]_<<mode, path>>
  <2> SUFFICES ASSUME IInv, [Next]_vars PROVE [PL!LockNext]_<<mode, path>>
    OBVIOUS
  <2>1. CASE UNCHANGED vars
    BY <2>1 DEF vars, mode, Holding
  <2>2. CASE Next
    BY <2>2, StepRefines DEF Next
  <2> QED
    BY <2>1, <2>2
<1>3. Spec => []IInv
  BY Inductive
<1> QED
  BY <1>1, <1>2, <1>3, PTL
     DEF Spec, ImplementsPathLocks, PL!LockSpec, PL!lockVars

(* With no more workers than slots (the server's ThreadPoolSize is 4 and   *)
(* its MAX_FILE_LOCKS 1024) acquire_file_lock never returns NULL.          *)
THEOREM NeverFull == ASSUME PathsFit PROVE Spec => NeverRefused
<1>1. ASSUME IInv, Cardinality(Threads) <= MAX_FILE_LOCKS,
             NEW t \in Threads, TableFull(t)
      PROVE  FALSE
  <2> DEFINE Others == {u \in Threads \ {t} : mode[u] # "idle"}
             Used   == {path[u] : u \in Others}
  <2>1. MAX_FILE_LOCKS <= Cardinality(Used)
    BY <1>1, FullMeansBusy DEF PL!OtherPaths
  <2>2. IsFiniteSet(Others) /\ Cardinality(Others) <= Cardinality(Threads \ {t})
    BY ThreadsAssumption, FS_Subset
  <2>3. [u \in Others |-> path[u]] \in Surjection(Others, Used)
    BY DEF Surjection
  <2>4. IsFiniteSet(Used) /\ Cardinality(Used) <= Cardinality(Others)
    BY <2>2, <2>3, FS_Surjection
  <2>5. Cardinality(Threads \ {t}) = Cardinality(Threads) - 1
    BY ThreadsAssumption, FS_RemoveElement
  <2>6. /\ Cardinality(Threads) \in Nat /\ Cardinality(Threads \ {t}) \in Nat
        /\ Cardinality(Others) \in Nat /\ Cardinality(Used) \in Nat
    BY <2>2, <2>4, ThreadsAssumption, FS_CardinalityType, FS_Subset
  <2> HIDE DEF Others, Used
  <2> QED
    BY <1>1, <2>1, <2>2, <2>4, <2>5, <2>6, CapacityAssumption
<1>2. Spec => []IInv
  BY Inductive
<1>3. IInv /\ [Next]_vars => [Cardinality(Threads) <= MAX_FILE_LOCKS
                               => \A t \in Threads : ~TableFull(t)]_vars
  BY <1>1
<1> QED
  BY <1>2, <1>3, PTL DEF Spec, NeverRefused
=============================================================================
