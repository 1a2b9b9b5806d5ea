-------------------------- MODULE AccountingProofs --------------------------
(***************************************************************************)
(* The books of ExecuteTask: what is on disk, what the quota rows say, and *)
(* what the workers have done and not yet told them, summed over any       *)
(* number of files and workers.                                            *)
(***************************************************************************)
EXTENDS ExecuteTaskProofs, WellFoundedInduction

(***************************************************************************)
(* The sums of the model are folds: a function h on the subsets of a set   *)
(* that takes one element after the other away.  The provers have no       *)
(* induction; what they have is that finite sets are well-founded, so a    *)
(* statement that failed would fail for a smallest set.                    *)
(***************************************************************************)

One(s) == CHOOSE x \in s : TRUE

Sums(h, g, S) ==
  h = [s \in SUBSET S |->
         IF s = {} THEN 0 ELSE g[One(s)] + h[s \ {One(s)}]]

Amount(g, S) == (CHOOSE h : Sums(h, g, S))[S]

Same(g, f, S) == \A x \in S : g[x] = f[x]

LEMMA SmallestSet ==
  ASSUME NEW S, IsFiniteSet(S), NEW B \in SUBSET (SUBSET S), B # {}
  PROVE  \E s \in B : \A t \in B : t \subseteq s => t = s
<1> DEFINE R == StrictSubsetOrdering(S)
<1>1. IsWellFoundedOn(R, SUBSET S)
  BY FS_StrictSubsetOrderingWellFounded, FS_FiniteSubsetsOfFinite
<1>2. \A s, t \in SUBSET S : t \subseteq s /\ t # s => <<t, s>> \in R
  BY DEF StrictSubsetOrdering
<1> HIDE DEF R
<1>3. PICK s \in B : \A t \in B : ~ (<<t, s>> \in R)
  BY <1>1, WFMin
<1> QED
  BY <1>2, <1>3

LEMMA OneIn ==
  ASSUME NEW s, s # {}
  PROVE  One(s) \in s /\ s \ {One(s)} \subseteq s /\ s \ {One(s)} # s
<1>1. One(s) \in s
  BY DEF One
<1> QED
  BY <1>1

LEMMA SumOf ==
  ASSUME NEW S, NEW g, NEW h, Sums(h, g, S), NEW s \in SUBSET S
  PROVE  /\ s = {} => h[s] = 0
         /\ s # {} => h[s] = g[One(s)] + h[s \ {One(s)}]
BY DEF Sums

(* What a sum is depends on the summands only. *)
LEMMA SumsAgree ==
  ASSUME NEW S, NEW T, IsFiniteSet(S), NEW g, NEW f, NEW h, NEW i,
         Sums(h, g, S), Sums(i, f, T),
         NEW s \in SUBSET S, s \in SUBSET T, Same(g, f, s)
  PROVE  h[s] = i[s]
<1> DEFINE B == {t \in SUBSET s : h[t] # i[t]}
<1>1. SUFFICES ASSUME B # {} PROVE FALSE
  OBVIOUS
<1>2. B \in SUBSET (SUBSET S)
  OBVIOUS
<1> HIDE DEF B
<1>3. PICK t \in B : \A u \in B : u \subseteq t => u = t
  BY <1>1, <1>2, SmallestSet
<1>4. t \in SUBSET s /\ t \in SUBSET S /\ t \in SUBSET T /\ h[t] # i[t]
  BY <1>3 DEF B
<1>5. CASE t = {}
  BY <1>4, <1>5, SumOf
<1>6. CASE t # {}
  <2>1. One(t) \in t /\ t \ {One(t)} \subseteq t /\ t \ {One(t)} # t
    BY <1>6, OneIn
  <2>2. h[t \ {One(t)}] = i[t \ {One(t)}]
    <3>1. t \ {One(t)} \notin B /\ t \ {One(t)} \in SUBSET s
      BY <1>3, <1>4, <2>1
    <3> QED
      BY <3>1 DEF B
  <2>3. g[One(t)] = f[One(t)]
    BY <1>4, <2>1 DEF Same
  <2>4. h[t] = g[One(t)] + h[t \ {One(t)}]
    BY <1>4, <1>6, SumOf
  <2>5. i[t] = f[One(t)] + i[t \ {One(t)}]
    BY <1>4, <1>6, SumOf
  <2> QED
    BY <1>4, <2>2, <2>3, <2>4, <2>5
<1> QED
  BY <1>5, <1>6

LEMMA SumsRestrict ==
  ASSUME NEW S, NEW g, NEW h, Sums(h, g, S), NEW s \in SUBSET S
  PROVE  Sums([t \in SUBSET s |-> h[t]], g, s)
<1> DEFINE k == [t \in SUBSET s |-> h[t]]
<1>1. ASSUME NEW t \in SUBSET s
      PROVE  k[t] = IF t = {} THEN 0 ELSE g[One(t)] + k[t \ {One(t)}]
  <2>1. t \in SUBSET S /\ t \ {One(t)} \in SUBSET s
    OBVIOUS
  <2>2. k[t] = h[t] /\ k[t \ {One(t)}] = h[t \ {One(t)}]
    BY <2>1
  <2>3. /\ t = {} => h[t] = 0
        /\ t # {} => h[t] = g[One(t)] + h[t \ {One(t)}]
    BY <2>1, SumOf
  <2> QED
    BY <2>2, <2>3
<1> QED
  BY <1>1 DEF Sums

(* Every finite set has its sum. *)
LEMMA SumExists ==
  ASSUME NEW S, IsFiniteSet(S), NEW g
  PROVE  \E h : Sums(h, g, S)
<1> DEFINE Has(s) == \E h : Sums(h, g, s)
           B == {s \in SUBSET S : ~ Has(s)}
<1>1. SUFFICES ASSUME B # {} PROVE FALSE
  <2>1. S \in SUBSET S
    OBVIOUS
  <2> QED
    BY <2>1
<1>2. B \in SUBSET (SUBSET S) /\ \A s \in SUBSET S : s \notin B => Has(s)
  OBVIOUS
<1>3. \A s \in B : ~ Has(s)
  OBVIOUS
<1> HIDE DEF B
<1>4. PICK s \in B : \A t \in B : t \subseteq s => t = s
  BY <1>1, <1>2, SmallestSet
<1>5. ASSUME NEW t \in SUBSET s, t # s
      PROVE  Has(t)
  BY <1>2, <1>4, <1>5
<1> DEFINE k == [t \in SUBSET s |->
                   IF t # s THEN Amount(g, t)
                   ELSE IF s = {} THEN 0
                   ELSE g[One(s)] + Amount(g, s \ {One(s)})]
<1>6. ASSUME NEW t \in SUBSET s, t # s, t # {}
      PROVE  Amount(g, t) = g[One(t)] + Amount(g, t \ {One(t)})
  <2> DEFINE r == t \ {One(t)}
             h == CHOOSE h : Sums(h, g, t)
             i == CHOOSE i : Sums(i, g, r)
  <2>1. r \in SUBSET t /\ r \in SUBSET s /\ r # s
    BY <1>6, OneIn
  <2>2. Has(t) /\ Has(r)
    BY <1>5, <1>6, <2>1
  <2>3. Sums(h, g, t) /\ Sums(i, g, r)
    BY <2>2 DEF Has
  <2>4. Amount(g, t) = h[t] /\ Amount(g, r) = i[r]
    BY DEF Amount
  <2> HIDE DEF h, i
  <2>5. h[t] = g[One(t)] + h[r]
    BY <1>6, <2>3, SumOf
  <2>6. IsFiniteSet(t)
    BY <1>2, FS_Subset
  <2>7. h[r] = i[r]
    <3>1. r \in SUBSET r /\ Same(g, g, r)
      BY DEF Same
    <3> HIDE DEF r
    <3> QED
      BY <2>1, <2>3, <2>6, <3>1, SumsAgree
  <2> QED
    BY <2>4, <2>5, <2>7
<1>7. ASSUME NEW t \in SUBSET s
      PROVE  k[t] = IF t = {} THEN 0 ELSE g[One(t)] + k[t \ {One(t)}]
  <2>1. t # {} => /\ t \ {One(t)} \in SUBSET s
                  /\ k[t \ {One(t)}] = Amount(g, t \ {One(t)})
    BY OneIn
  <2>2. CASE t = s
    BY <2>1, <2>2
  <2>3. CASE t # s /\ t # {}
    BY <1>6, <2>1, <2>3
  <2>4. CASE t # s /\ t = {}
    <3>1. k[t] = Amount(g, {})
      BY <2>4
    <3>2. \E h : Sums(h, g, {})
      BY <1>5, <2>4
    <3>3. Sums(CHOOSE h : Sums(h, g, {}), g, {})
      BY <3>2
    <3>4. Amount(g, {}) = 0
      BY <3>3, SumOf DEF Amount
    <3> QED
      BY <2>4, <3>1, <3>4
  <2> QED
    BY <2>2, <2>3, <2>4
<1>8. Sums(k, g, s)
  BY <1>7 DEF Sums
<1> QED
  BY <1>3, <1>4, <1>8

(* Amount is the sum whatever function computes it. *)
LEMMA AmountIs ==
  ASSUME NEW S, IsFiniteSet(S), NEW f, NEW T, NEW g, NEW h, Sums(h, g, T),
         S \in SUBSET T, Same(g, f, S)
  PROVE  Amount(f, S) = h[S]
<1> DEFINE i == CHOOSE i : Sums(i, f, S)
<1>1. Sums(i, f, S) /\ Amount(f, S) = i[S]
  BY SumExists DEF Amount
<1> HIDE DEF i
<1>2. Same(f, g, S) /\ S \in SUBSET S
  BY DEF Same
<1>3. i[S] = h[S]
  BY <1>1, <1>2, SumsAgree
<1> QED
  BY <1>1, <1>3

LEMMA AmountSame ==
  ASSUME NEW S, IsFiniteSet(S), NEW g, NEW f, Same(g, f, S)
  PROVE  Amount(g, S) = Amount(f, S)
<1>1. PICK h : Sums(h, g, S)
  BY SumExists
<1>2. S \in SUBSET S /\ Same(g, g, S)
  BY DEF Same
<1>3. Amount(g, S) = h[S]
  BY <1>1, <1>2, AmountIs
<1>4. Amount(f, S) = h[S]
  BY <1>1, <1>2, AmountIs
<1> QED
  BY <1>3, <1>4

LEMMA AmountUnfolds ==
  ASSUME NEW S, IsFiniteSet(S), NEW g
  PROVE  /\ S = {} => Amount(g, S) = 0
         /\ S # {} => Amount(g, S) = g[One(S)] + Amount(g, S \ {One(S)})
<1>1. PICK h : Sums(h, g, S)
  BY SumExists
<1> DEFINE r == S \ {One(S)}
<1>2. /\ S \in SUBSET S /\ r \in SUBSET S
      /\ Same(g, g, S) /\ Same(g, g, r) /\ IsFiniteSet(r)
  BY FS_Subset DEF Same
<1> HIDE DEF r
<1>3. Amount(g, S) = h[S] /\ Amount(g, r) = h[r]
  BY <1>1, <1>2, AmountIs
<1>4. /\ S = {} => h[S] = 0
      /\ S # {} => h[S] = g[One(S)] + h[r]
  BY <1>1, <1>2, SumOf DEF r
<1> QED
  BY <1>3, <1>4 DEF r

Integers(g, S) == \A x \in S : g[x] \in Int

LEMMA AmountInt ==
  ASSUME NEW S, IsFiniteSet(S), NEW g, Integers(g, S)
  PROVE  Amount(g, S) \in Int
<1> DEFINE B == {s \in SUBSET S : Amount(g, s) \notin Int}
<1>1. SUFFICES ASSUME B # {} PROVE FALSE
  <2>1. S \in SUBSET S
    OBVIOUS
  <2> QED
    BY <2>1
<1>2. B \in SUBSET (SUBSET S)
  OBVIOUS
<1> HIDE DEF B
<1>3. PICK s \in B : \A t \in B : t \subseteq s => t = s
  BY <1>1, <1>2, SmallestSet
<1>4. s \in SUBSET S /\ Amount(g, s) \notin Int /\ IsFiniteSet(s)
  <2>1. s \in SUBSET S /\ Amount(g, s) \notin Int
    BY <1>3 DEF B
  <2> QED
    BY <2>1, FS_Subset
<1>5. s # {}
  <2>1. s = {} => Amount(g, s) = 0
    BY <1>4, AmountUnfolds
  <2>2. 0 \in Int
    OBVIOUS
  <2> QED
    BY <1>4, <2>1, <2>2
<1>6. One(s) \in s /\ s \ {One(s)} \subseteq s /\ s \ {One(s)} # s
  BY <1>5, OneIn
<1>7. Amount(g, s \ {One(s)}) \in Int
  <2>1. s \ {One(s)} \notin B /\ s \ {One(s)} \in SUBSET S
    BY <1>3, <1>4, <1>6
  <2> QED
    BY <2>1 DEF B
<1>8. g[One(s)] \in Int
  BY <1>4, <1>6 DEF Integers
<1>9. Amount(g, s) = g[One(s)] + Amount(g, s \ {One(s)})
  BY <1>4, <1>5, AmountUnfolds
<1> QED
  BY <1>4, <1>7, <1>8, <1>9

(* It does not matter in what order a sum is taken. *)
LEMMA AmountWithout ==
  ASSUME NEW S, IsFiniteSet(S), NEW g, Integers(g, S), NEW z \in S
  PROVE  Amount(g, S) = g[z] + Amount(g, S \ {z})
<1> DEFINE Off(s, x) == Amount(g, s) # g[x] + Amount(g, s \ {x})
           B == {s \in SUBSET S : \E x \in s : Off(s, x)}
<1>1. SUFFICES ASSUME B # {} PROVE FALSE
  <2>1. S \in SUBSET S
    OBVIOUS
  <2> QED
    BY <2>1
<1>2. B \in SUBSET (SUBSET S)
  OBVIOUS
<1>3. /\ \A s \in B : \E x \in s : Off(s, x)
      /\ \A s \in SUBSET S : s \notin B => \A x \in s : ~ Off(s, x)
  OBVIOUS
<1> HIDE DEF B
<1>4. PICK s \in B : \A t \in B : t \subseteq s => t = s
  BY <1>1, <1>2, SmallestSet
<1>5. PICK x \in s : Off(s, x)
  BY <1>3, <1>4
<1>6. s \in SUBSET S /\ IsFiniteSet(s)
  BY <1>2, <1>4, FS_Subset
<1> DEFINE y == One(s)
           s1 == s \ {y}
           s2 == s \ {x}
           s3 == s1 \ {x}
<1>7. y \in s
  BY <1>5, OneIn
<1>8. Amount(g, s) = g[y] + Amount(g, s1)
  BY <1>5, <1>6, AmountUnfolds
<1>9. x # y
  BY <1>5, <1>8
<1> HIDE DEF y
<1>10. /\ s1 \in SUBSET S /\ s2 \in SUBSET S /\ s3 \in SUBSET S
       /\ s1 \subseteq s /\ s1 # s /\ s2 \subseteq s /\ s2 # s
       /\ x \in s1 /\ y \in s2 /\ s3 = s2 \ {y}
  BY <1>5, <1>6, <1>7, <1>9
<1>11. g[x] \in Int /\ g[y] \in Int /\ Amount(g, s3) \in Int
  <2>1. IsFiniteSet(s3) /\ Integers(g, s3)
    BY <1>10, FS_Subset DEF Integers
  <2>2. Amount(g, s3) \in Int
    BY <2>1, AmountInt
  <2> QED
    BY <1>5, <1>6, <1>7, <2>2 DEF Integers
<1>12. Amount(g, s1) = g[x] + Amount(g, s3)
  BY <1>3, <1>4, <1>10
<1>13. Amount(g, s2) = g[y] + Amount(g, s3)
  BY <1>3, <1>4, <1>10
<1> HIDE DEF s1, s2, s3
<1>14. Amount(g, s) # g[x] + Amount(g, s2)
  BY <1>5 DEF s2
<1> QED
  BY <1>8, <1>11, <1>12, <1>13, <1>14

(* A sum changes by what one of its elements contributes. *)
Share(g, S, x) == IF x \in S THEN g[x] ELSE 0

LEMMA AmountSplit ==
  ASSUME NEW S, IsFiniteSet(S), NEW g, Integers(g, S), NEW x
  PROVE  /\ Amount(g, S) = Share(g, S, x) + Amount(g, S \ {x})
         /\ Share(g, S, x) \in Int /\ Amount(g, S \ {x}) \in Int
<1>1. IsFiniteSet(S \ {x}) /\ Integers(g, S \ {x})
  BY FS_Subset DEF Integers
<1>2. Amount(g, S \ {x}) \in Int
  BY <1>1, AmountInt
<1>3. Share(g, S, x) \in Int
  BY DEF Share, Integers
<1>4. CASE x \in S
  BY <1>2, <1>3, <1>4, AmountWithout DEF Share
<1>5. CASE x \notin S
  <2>1. S \ {x} = S
    BY <1>5
  <2>2. Amount(g, S) = Amount(g, S \ {x})
    BY <2>1
  <2>3. Share(g, S, x) = 0
    BY <1>5 DEF Share
  <2> QED
    BY <1>2, <1>3, <2>2, <2>3
<1> QED
  BY <1>2, <1>3, <1>4, <1>5

LEMMA AmountChange ==
  ASSUME NEW S, IsFiniteSet(S), NEW g, Integers(g, S),
         NEW T, IsFiniteSet(T), NEW f, Integers(f, T),
         NEW x, S \ {x} = T \ {x}, Same(g, f, S \ {x})
  PROVE  Amount(f, T) = Amount(g, S) - Share(g, S, x) + Share(f, T, x)
<1> DEFINE r == S \ {x}
<1>1. IsFiniteSet(r)
  BY FS_Subset
<1>2. Amount(g, r) = Amount(f, r)
  BY <1>1, AmountSame
<1>3. /\ Amount(g, S) = Share(g, S, x) + Amount(g, r)
      /\ Share(g, S, x) \in Int /\ Amount(g, r) \in Int
  BY AmountSplit
<1>4. /\ Amount(f, T) = Share(f, T, x) + Amount(f, r)
      /\ Share(f, T, x) \in Int
  BY AmountSplit
<1> HIDE DEF r
<1> QED
  BY <1>2, <1>3, <1>4

-----------------------------------------------------------------------------
(* The two sums of the model: what the workers of a user have not told the *)
(* quota row, and the bytes of the user's files.                           *)

Owed    == [w \in Workers |-> PendingOf(w)]
Busy(u) == {w \in Workers : pc[w] # "idle" /\ User(w) = u}
Stored  == [f \in Files |-> Bytes(f)]
Own(u)  == {f \in Files : owner[f] = u}

BooksAreSums == \A u : /\ Pending(u) = Amount(Owed, Busy(u))
                       /\ Total(u) = Amount(Stored, Own(u))

LEMMA FiniteBooks ==
  \A u : IsFiniteSet(Busy(u)) /\ IsFiniteSet(Own(u))
BY SetsAssumption, FS_Subset DEF Busy, Own

LEMMA BooksSummed == BooksAreSums
<1> SUFFICES ASSUME NEW u
             PROVE  /\ Pending(u) = Amount(Owed, Busy(u))
                    /\ Total(u) = Amount(Stored, Own(u))
  BY DEF BooksAreSums
<1>1. Pending(u) = Amount(Owed, Busy(u))
  <2> DEFINE S == Busy(u)
             Fold(i) == i = [s \in SUBSET S |->
                               IF s = {} THEN 0
                               ELSE PendingOf(One(s)) + i[s \ {One(s)}]]
  <2>1. Pending(u) = (CHOOSE i : Fold(i))[S]
    BY DEF Pending, Busy, MapThenSumSet, MapThenFoldSet, One
  <2>2. \A i : Fold(i) <=> Sums(i, Owed, S)
    <3>1. ASSUME NEW i, NEW s \in SUBSET S
          PROVE  (IF s = {} THEN 0 ELSE PendingOf(One(s)) + i[s \ {One(s)}])
                   = IF s = {} THEN 0 ELSE Owed[One(s)] + i[s \ {One(s)}]
      <4>1. s # {} => One(s) \in Workers
        BY OneIn DEF Busy
      <4> QED
        BY <4>1 DEF Owed
    <3>2. ASSUME NEW i
          PROVE  [s \in SUBSET S |->
                    IF s = {} THEN 0 ELSE PendingOf(One(s)) + i[s \ {One(s)}]]
                   = [s \in SUBSET S |->
                        IF s = {} THEN 0 ELSE Owed[One(s)] + i[s \ {One(s)}]]
      BY <3>1
    <3> QED
      BY <3>2 DEF Sums
  <2> HIDE DEF S, Fold
  <2>3. \E i : Fold(i)
    BY <2>2, FiniteBooks, SumExists DEF S
  <2>4. Fold(CHOOSE i : Fold(i))
    BY <2>3
  <2>5. Sums(CHOOSE i : Fold(i), Owed, S)
    BY <2>2, <2>4
  <2>6. IsFiniteSet(S) /\ S \in SUBSET S /\ Same(Owed, Owed, S)
    BY FiniteBooks DEF S, Same
  <2> QED
    BY <2>1, <2>5, <2>6, AmountIs DEF S
<1>2. Total(u) = Amount(Stored, Own(u))
  <2> DEFINE S == Own(u)
             Fold(i) == i = [s \in SUBSET S |->
                               IF s = {} THEN 0
                               ELSE Bytes(One(s)) + i[s \ {One(s)}]]
  <2>1. Total(u) = (CHOOSE i : Fold(i))[S]
    BY DEF Total, Own, MapThenSumSet, MapThenFoldSet, One
  <2>2. \A i : Fold(i) <=> Sums(i, Stored, S)
    <3>1. ASSUME NEW i, NEW s \in SUBSET S
          PROVE  (IF s = {} THEN 0 ELSE Bytes(One(s)) + i[s \ {One(s)}])
                   = IF s = {} THEN 0 ELSE Stored[One(s)] + i[s \ {One(s)}]
      <4>1. s # {} => One(s) \in Files
        BY OneIn DEF Own
      <4> QED
        BY <4>1 DEF Stored
    <3>2. ASSUME NEW i
          PROVE  [s \in SUBSET S |->
                    IF s = {} THEN 0 ELSE Bytes(One(s)) + i[s \ {One(s)}]]
                   = [s \in SUBSET S |->
                        IF s = {} THEN 0 ELSE Stored[One(s)] + i[s \ {One(s)}]]
      BY <3>1
    <3> QED
      BY <3>2 DEF Sums
  <2> HIDE DEF S, Fold
  <2>3. \E i : Fold(i)
    BY <2>2, FiniteBooks, SumExists DEF S
  <2>4. Fold(CHOOSE i : Fold(i))
    BY <2>3
  <2>5. Sums(CHOOSE i : Fold(i), Stored, S)
    BY <2>2, <2>4
  <2>6. IsFiniteSet(S) /\ S \in SUBSET S /\ Same(Stored, Stored, S)
    BY FiniteBooks DEF S, Same
  <2> QED
    BY <2>1, <2>5, <2>6, AmountIs DEF S
<1> QED
  BY <1>1, <1>2

LEMMA TaskLengths ==
  \A k \in TaskSet : k.len \in Nat /\ (k.cmd # "UPLOAD" => k.len = 0)
BY TaskShape DEF TaskSet

LEMMA OwedInt ==
  ASSUME FInv, NEW w \in Workers, pc[w] # "idle"
  PROVE  PendingOf(w) \in Int /\ Delta(w) \in Int
<1>1. kaam[w] \in TaskSet /\ old[w] \in Nat
  BY DEF FInv, Shape
<1> QED
  BY <1>1, TaskLengths DEF PendingOf, Delta

LEMMA BytesNat ==
  ASSUME FInv, NEW f \in Files
  PROVE  Bytes(f) \in Nat
BY DEF FInv, Shape, Bytes, Absent

BooksAreIntegers == FInv => \A u : /\ Integers(Owed, Busy(u))
                                   /\ Integers(Stored, Own(u))

LEMMA IntegerBooks == BooksAreIntegers
<1> SUFFICES ASSUME FInv, NEW u
             PROVE  Integers(Owed, Busy(u)) /\ Integers(Stored, Own(u))
  BY DEF BooksAreIntegers
<1>1. Integers(Owed, Busy(u))
  BY OwedInt DEF Integers, Owed, Busy
<1>2. Integers(Stored, Own(u))
  BY BytesNat DEF Integers, Stored, Own
<1> QED
  BY <1>1, <1>2

LEMMA BooksInt ==
  ASSUME FInv, NEW u
  PROVE  Pending(u) \in Int /\ Total(u) \in Int
<1>1. /\ Integers(Owed, Busy(u)) /\ Integers(Stored, Own(u))
      /\ IsFiniteSet(Busy(u)) /\ IsFiniteSet(Own(u))
  BY IntegerBooks, FiniteBooks DEF BooksAreIntegers
<1>2. Amount(Owed, Busy(u)) \in Int /\ Amount(Stored, Own(u)) \in Int
  BY <1>1, AmountInt
<1> QED
  BY <1>2, BooksSummed DEF BooksAreSums

(* What worker w owes to the quota row of u. *)
Debt(w, u) == IF pc[w] # "idle" /\ User(w) = u THEN PendingOf(w) ELSE 0

LEMMA DebtIs ==
  ASSUME NEW w \in Workers, NEW u
  PROVE  Share(Owed, Busy(u), w) = Debt(w, u)
BY DEF Share, Owed, Busy, Debt

DebtsAreShares ==
  \A w \in Workers, u \in Users : Share(Owed, Busy(u), w) = Debt(w, u)

LEMMA Debts == DebtsAreShares
BY DebtIs DEF DebtsAreShares

LEMMA PendingMoves ==
  ASSUME FInv, FInv', NEW w \in Workers, NEW u \in Users,
         \A v \in Workers \ {w} : /\ pc'[v] = pc[v] /\ kaam'[v] = kaam[v]
                                  /\ old'[v] = old[v]
  PROVE  Pending(u)' = Pending(u) - Debt(w, u) + Debt(w, u)'
<1>1. Busy(u) \ {w} = Busy(u)' \ {w}
  BY DEF Busy, User, Path
<1>2. \A v \in Workers \ {w} : Owed[v] = Owed'[v]
  <2>1. \A v \in Workers : Owed[v] = PendingOf(v)
    BY DEF Owed
  <2>2. \A v \in Workers : Owed'[v] = PendingOf(v)'
    BY DEF Owed
  <2>3. \A v \in Workers \ {w} : PendingOf(v) = PendingOf(v)'
    BY DEF PendingOf, Delta
  <2> QED
    BY <2>1, <2>2, <2>3
<1>3. Same(Owed, Owed', Busy(u) \ {w})
  BY <1>2 DEF Same, Busy
<1>4. /\ Integers(Owed, Busy(u)) /\ Integers(Owed', Busy(u)')
      /\ IsFiniteSet(Busy(u)) /\ IsFiniteSet(Busy(u)')
  <2>1. BooksAreIntegers'
    BY IntegerBooks, PTL
  <2>2. Integers(Owed', Busy(u)')
    BY <2>1 DEF BooksAreIntegers
  <2>3. IsFiniteSet(Busy(u)')
    BY SetsAssumption, FS_Subset DEF Busy
  <2> QED
    BY <2>2, <2>3, IntegerBooks, FiniteBooks DEF BooksAreIntegers
<1>5. Amount(Owed', Busy(u)') = Amount(Owed, Busy(u))
        - Share(Owed, Busy(u), w) + Share(Owed', Busy(u)', w)
  BY <1>1, <1>3, <1>4, AmountChange
<1>6. Pending(u) = Amount(Owed, Busy(u)) /\ Pending(u)' = Amount(Owed', Busy(u)')
  <2>1. BooksAreSums /\ BooksAreSums'
    BY BooksSummed, PTL
  <2> QED
    BY <2>1 DEF BooksAreSums
<1>7. /\ Share(Owed, Busy(u), w) = Debt(w, u)
      /\ Share(Owed', Busy(u)', w) = Debt(w, u)'
  <2>1. DebtsAreShares /\ DebtsAreShares'
    BY Debts, PTL
  <2> QED
    BY <2>1 DEF DebtsAreShares
<1> QED
  BY <1>5, <1>6, <1>7

LEMMA TotalMoves ==
  ASSUME FInv, FInv', NEW f \in Files, NEW u \in Users,
         \A e \in Files \ {f} : size'[e] = size[e]
  PROVE  Total(u)' = IF owner[f] = u THEN Total(u) - Bytes(f) + Bytes(f)'
                                     ELSE Total(u)
<1>1. Own(u)' = Own(u)
  BY DEF Own
<1>2. \A e \in Files : Stored[e] = Bytes(e) /\ Stored'[e] = Bytes(e)'
  BY DEF Stored
<1>3. \A e \in Files \ {f} : Stored[e] = Stored'[e]
  BY <1>2 DEF Bytes
<1>4. Same(Stored, Stored', Own(u) \ {f})
  BY <1>3 DEF Same, Own
<1>5. /\ Integers(Stored, Own(u)) /\ Integers(Stored', Own(u))
      /\ IsFiniteSet(Own(u))
  <2>1. BooksAreIntegers'
    BY IntegerBooks, PTL
  <2>2. Integers(Stored', Own(u)')
    BY <2>1 DEF BooksAreIntegers
  <2> QED
    BY <1>1, <2>2, IntegerBooks, FiniteBooks DEF BooksAreIntegers
<1>6. Amount(Stored', Own(u)) = Amount(Stored, Own(u))
        - Share(Stored, Own(u), f) + Share(Stored', Own(u), f)
  BY <1>4, <1>5, AmountChange
<1>7. Total(u) = Amount(Stored, Own(u)) /\ Total(u)' = Amount(Stored', Own(u))
  <2>1. BooksAreSums /\ BooksAreSums'
    BY BooksSummed, PTL
  <2> QED
    BY <1>1, <2>1 DEF BooksAreSums
<1>8. /\ Share(Stored, Own(u), f) = IF owner[f] = u THEN Bytes(f) ELSE 0
      /\ Share(Stored', Own(u), f) = IF owner[f] = u THEN Bytes(f)' ELSE 0
  BY <1>2 DEF Share, Own
<1>9. Total(u) \in Int
  BY BooksInt
<1> QED
  BY <1>6, <1>7, <1>8, <1>9

-----------------------------------------------------------------------------
(* The books balance, step by step.                                        *)

Ledger == /\ used \in [Users -> Int] /\ uncounted \in [Users -> Int]
          /\ misread \subseteq Users /\ started \in Nat

BInv == FInv /\ Routed /\ Ledger /\ Accounted

Alone(w) == \A v \in Workers \ {w} : /\ pc'[v] = pc[v] /\ kaam'[v] = kaam[v]
                                     /\ old'[v] = old[v]

LEMMA UserIs ==
  ASSUME FInv, NEW w \in Workers, pc[w] # "idle"
  PROVE  /\ User(w) \in Users
         /\ Path(w) \in Files => User(w) = owner[Path(w)]
<1>1. Path(w) \in Files \cup Users
  BY TaskShape DEF FInv, Shape, Path
<1> QED
  BY <1>1, SetsAssumption DEF User

(* A worker that neither changes a file nor owes anything. *)
LEMMA QuietBooks ==
  ASSUME BInv, FInv', NEW w \in Workers, Alone(w),
         UNCHANGED <<size, used, uncounted>>,
         pc[w] \notin {"write", "update"}, pc'[w] \notin {"write", "update"}
  PROVE  Accounted'
<1> SUFFICES ASSUME NEW u \in Users
             PROVE  Total(u)' = used'[u] + Pending(u)' + uncounted'[u]
  BY DEF Accounted
<1>1. Debt(w, u) = 0 /\ Debt(w, u)' = 0
  BY DEF Debt, PendingOf
<1>2. Pending(u)' = Pending(u) - Debt(w, u) + Debt(w, u)'
  BY PendingMoves DEF BInv, Alone
<1>3. Total(u)' = Total(u)
  <2>1. BooksAreSums /\ BooksAreSums'
    BY BooksSummed, PTL
  <2>2. Stored' = Stored /\ Own(u)' = Own(u)
    BY DEF Stored, Own, Bytes
  <2> QED
    BY <2>1, <2>2 DEF BooksAreSums
<1>4. Total(u) = used[u] + Pending(u) + uncounted[u] /\ Pending(u) \in Int
  BY BooksInt DEF BInv, Accounted
<1> QED
  BY <1>1, <1>2, <1>3, <1>4

(* A worker at its file: what the file gains, the quota row gains, or is   *)
(* owed, or is lost to the count.                                          *)
LEMMA FileBooks ==
  ASSUME BInv, FInv', NEW w \in Workers, Alone(w), NEW f \in Files,
         f = Path(w), pc[w] # "idle", pc'[w] # "idle", kaam'[w] = kaam[w],
         \A e \in Files \ {f} : size'[e] = size[e], Ledger',
         \A u \in Users \ {owner[f]} : /\ used'[u] = used[u]
                                       /\ uncounted'[u] = uncounted[u],
         Bytes(f)' - Bytes(f)
           = (used'[owner[f]] - used[owner[f]])
             + (PendingOf(w)' - PendingOf(w))
             + (uncounted'[owner[f]] - uncounted[owner[f]])
  PROVE  Accounted'
<1> SUFFICES ASSUME NEW u \in Users
             PROVE  Total(u)' = used'[u] + Pending(u)' + uncounted'[u]
  BY DEF Accounted
<1>1. /\ User(w) = owner[f] /\ User(w)' = owner[f]
  <2>1. User(w) = owner[f]
    BY UserIs DEF BInv
  <2> QED
    BY <2>1 DEF User, Path
<1>2. /\ Debt(w, u)  = IF owner[f] = u THEN PendingOf(w) ELSE 0
      /\ Debt(w, u)' = IF owner[f] = u THEN PendingOf(w)' ELSE 0
  BY <1>1 DEF Debt
<1>3. Pending(u)' = Pending(u) - Debt(w, u) + Debt(w, u)'
  BY PendingMoves DEF BInv, Alone
<1>4. Total(u)' = IF owner[f] = u THEN Total(u) - Bytes(f) + Bytes(f)'
                                  ELSE Total(u)
  BY TotalMoves DEF BInv
<1>5. /\ Total(u) = used[u] + Pending(u) + uncounted[u]
      /\ Total(u) \in Int /\ Pending(u) \in Int
      /\ used[u] \in Int /\ used'[u] \in Int
      /\ uncounted[u] \in Int /\ uncounted'[u] \in Int
  BY BooksInt DEF BInv, Accounted, Ledger
<1>6. PendingOf(w) \in Int /\ PendingOf(w)' \in Int
  <2>1. PendingOf(w) \in Int
    BY OwedInt DEF BInv
  <2>2. kaam'[w] \in TaskSet /\ old'[w] \in Nat
    BY DEF FInv, Shape
  <2>3. PendingOf(w)' \in Int
    BY <2>2, TaskLengths DEF PendingOf, Delta
  <2> QED
    BY <2>1, <2>3
<1>7. Bytes(f) \in Nat /\ Bytes(f)' \in Nat
  <2>1. Bytes(f) \in Nat
    BY BytesNat DEF BInv
  <2>2. Bytes(f)' \in Nat
    BY DEF FInv, Shape, Bytes, Absent
  <2> QED
    BY <2>1, <2>2
<1>8. CASE owner[f] = u
  BY <1>2, <1>3, <1>4, <1>5, <1>6, <1>7, <1>8
<1>9. CASE owner[f] # u
  BY <1>2, <1>3, <1>4, <1>5, <1>9
<1> QED
  BY <1>8, <1>9

LEMMA StepAlone ==
  ASSUME FInv, NEW w \in Workers, Begin(w) \/ Step(w)
  PROVE  Alone(w)
BY DEF Alone, FInv, Shape, Step, Begin, CheckQuota, AskLock, GetLock, NoLock,
       Stat, OpenForWriting, OpenFailed, Write, Unlink, Measure, Read,
       ListFiles, UpdateUsed, Release, Return, Goto

LEMMA QuietOnes ==
  ASSUME BInv, FInv', NEW w \in Workers,
         \/ Begin(w) \/ CheckQuota(w) \/ AskLock(w) \/ GetLock(w) \/ NoLock(w)
         \/ Stat(w) \/ Measure(w) \/ Read(w) \/ ListFiles(w) \/ Release(w)
         \/ pc[w] \in {"open", "unlink"} /\ OpenFailed(w)
  PROVE  Accounted' /\ Ledger'
<1> USE DEF Goto
<1>1. Shape
  BY DEF BInv, FInv
<1>2. UNCHANGED <<size, used, uncounted>>
  BY DEF Begin, CheckQuota, AskLock, GetLock, NoLock, Stat, OpenFailed,
         Measure, Read, ListFiles, Release, disk
<1>3. pc[w] \notin {"write", "update"}
  BY DEF Begin, CheckQuota, AskLock, GetLock, NoLock, Stat, OpenFailed,
         Measure, Read, ListFiles, Release
<1>4. pc'[w] \notin {"write", "update"}
  <2>1. CASE GetLock(w)
    <3>1. kaam[w] \in TaskSet /\ pc'[w] = FirstStep[kaam[w].cmd]
      BY <1>1, <2>1 DEF GetLock, Shape, Cmd
    <3>2. kaam[w].cmd \in {"UPLOAD", "DOWNLOAD", "DELETE", "LIST"}
      BY <3>1, TaskShape
    <3> QED
      BY <3>1, <3>2 DEF FirstStep
  <2> QED
    BY <1>1, <2>1 DEF Shape, Begin, CheckQuota, AskLock, NoLock, Stat,
       OpenFailed, Measure, Read, ListFiles, Release, Return
<1>5. Alone(w)
  BY <1>1 DEF Alone, Shape, Begin, CheckQuota, AskLock, GetLock, NoLock, Stat,
     OpenFailed, Measure, Read, ListFiles, Release, Return
<1>6. Ledger'
  <2>1. misread' \subseteq Users
    <3>1. CASE CheckQuota(w)
      <4>1. User(w) \in Users
        BY <3>1, UserIs DEF BInv, CheckQuota
      <4>2. misread' \in {misread, misread \cup {User(w)}}
        BY <3>1 DEF CheckQuota
      <4> QED
        BY <4>1, <4>2 DEF BInv, Ledger
    <3> QED
      BY <3>1 DEF BInv, Ledger, Begin, AskLock, GetLock, NoLock, Stat,
         OpenFailed, Measure, Read, ListFiles, Release, disk
  <2>2. started' \in Nat
    BY DEF BInv, Ledger, Begin, CheckQuota, AskLock, GetLock, NoLock, Stat,
       OpenFailed, Measure, Read, ListFiles, Release
  <2> QED
    BY <1>2, <2>1, <2>2 DEF BInv, Ledger
<1> QED
  BY <1>2, <1>3, <1>4, <1>5, <1>6, QuietBooks

(* What the three steps that deal with the file itself start from. *)
LEMMA AtFile ==
  ASSUME BInv, NEW w \in Workers,
         pc[w] \in {"open", "write", "unlink", "update"}
  PROVE  /\ Path(w) \in Files /\ owner[Path(w)] \in Users
         /\ User(w) = owner[Path(w)]
         /\ kaam[w] \in TaskSet /\ kaam[w].len \in Nat /\ old[w] \in Nat
         /\ pc[w] \in {"open", "unlink"} => Bytes(Path(w)) = old[w]
         /\ pc[w] = "write" => size[Path(w)] = 0
         /\ pc[w] = "unlink" => kaam[w].len = 0
<1>1. Path(w) \in Files
  BY DEF BInv, FInv, OnFiles, OnFile
<1>2. owner[Path(w)] \in Users /\ User(w) = owner[Path(w)]
  BY <1>1, UserIs, SetsAssumption DEF BInv
<1>3. kaam[w] \in TaskSet /\ kaam[w].len \in Nat /\ old[w] \in Nat
  BY TaskLengths DEF BInv, FInv, Shape
<1>4. pc[w] = "unlink" => kaam[w].len = 0
  BY <1>3, TaskLengths DEF BInv, Routed, Cmd
<1>5. /\ pc[w] \in {"open", "unlink"} => Bytes(Path(w)) = old[w]
      /\ pc[w] = "write" => size[Path(w)] = 0
  BY DEF BInv, FInv, FileStable
<1> QED
  BY <1>1, <1>2, <1>3, <1>4, <1>5

(* The old content goes, and is owed as a decrease. *)
LEMMA OpenBooks ==
  ASSUME BInv, FInv', NEW w \in Workers, OpenForWriting(w), pc'[w] = "write"
  PROVE  Accounted' /\ Ledger'
<1> USE DEF Goto
<1>0. PICK f \in Files : f = Path(w)
  BY AtFile DEF OpenForWriting, OpenFailed
<1>1. /\ pc[w] = "open" /\ size' = [size EXCEPT ![f] = 0]
      /\ UNCHANGED <<used, uncounted, misread, kaam, old, started>>
      /\ pc' = [pc EXCEPT ![w] = "write"]
  BY <1>0 DEF OpenForWriting, OpenFailed, Resize, BInv, FInv, Shape
<1>2. Alone(w) /\ \A e \in Files \ {f} : size'[e] = size[e]
  BY <1>1 DEF Alone, BInv, FInv, Shape
<1>3. Bytes(f) = old[w] /\ old[w] \in Nat
  BY <1>0, <1>1, AtFile
<1>4. Bytes(f)' = 0
  BY <1>1 DEF Bytes, BInv, FInv, Shape, Absent
<1>5. PendingOf(w) = 0 /\ PendingOf(w)' = -old[w]
  BY <1>1 DEF PendingOf
<1>6. owner[f] \in Users /\ used[owner[f]] \in Int /\ uncounted[owner[f]] \in Int
  BY SetsAssumption DEF BInv, Ledger
<1>7. Bytes(f)' - Bytes(f)
        = (used'[owner[f]] - used[owner[f]])
          + (PendingOf(w)' - PendingOf(w))
          + (uncounted'[owner[f]] - uncounted[owner[f]])
  BY <1>1, <1>3, <1>4, <1>5, <1>6
<1>8. Ledger'
  BY <1>1 DEF BInv, Ledger
<1> QED
  BY <1>0, <1>1, <1>2, <1>7, <1>8, FileBooks

(* The new content comes.  It is owed when the write looked complete: what *)
(* of it did not reach the disk is lost to the count, and so is all of a   *)
(* write that was seen to be incomplete.                                   *)
LEMMA WriteBooks ==
  ASSUME BInv, FInv', NEW w \in Workers, Write(w)
  PROVE  Accounted' /\ Ledger'
<1> USE DEF Goto
<1>0. PICK f \in Files : f = Path(w)
  BY AtFile DEF Write
<1>1. PICK stored \in 0 .. kaam[w].len :
        /\ size' = [size EXCEPT ![f] = stored]
        /\ \/ /\ pc' = [pc EXCEPT ![w] = "update"]
              /\ uncounted' = [uncounted EXCEPT ![User(w)]
                                 = @ + (stored - kaam[w].len)]
           \/ /\ pc' = [pc EXCEPT ![w] = "release"]
              /\ uncounted' = [uncounted EXCEPT ![User(w)]
                                 = @ + (stored - old[w])]
  BY <1>0 DEF Write, Resize, Miscount
<1>2. /\ pc[w] = "write"
      /\ UNCHANGED <<used, misread, kaam, old, started>>
  BY DEF Write
<1>3. /\ Alone(w) /\ \A e \in Files \ {f} : size'[e] = size[e]
      /\ pc'[w] \in {"update", "release"}
  BY <1>1, <1>2 DEF Alone, BInv, FInv, Shape
<1>4. /\ User(w) = owner[f] /\ owner[f] \in Users /\ size[f] = 0
      /\ kaam[w].len \in Nat /\ old[w] \in Nat /\ stored \in Nat
  BY <1>0, <1>2, AtFile
<1>5. Bytes(f) = 0 /\ Bytes(f)' = stored
  BY <1>1, <1>4 DEF Bytes, BInv, FInv, Shape, Absent
<1>6. /\ used[owner[f]] \in Int /\ uncounted[owner[f]] \in Int
      /\ uncounted \in [Users -> Int]
  BY <1>4 DEF BInv, Ledger
<1>7. /\ uncounted' \in [Users -> Int]
      /\ \A u \in Users \ {owner[f]} : uncounted'[u] = uncounted[u]
  BY <1>1, <1>4, <1>6
<1>8. Ledger'
  BY <1>2, <1>7 DEF BInv, Ledger
<1>9. PendingOf(w) = -old[w]
  BY <1>2 DEF PendingOf
<1>10. Bytes(f)' - Bytes(f)
         = (used'[owner[f]] - used[owner[f]])
           + (PendingOf(w)' - PendingOf(w))
           + (uncounted'[owner[f]] - uncounted[owner[f]])
  <2>1. CASE pc' = [pc EXCEPT ![w] = "update"]
             /\ uncounted' = [uncounted EXCEPT ![User(w)]
                                = @ + (stored - kaam[w].len)]
    <3>1. pc'[w] = "update"
      BY <2>1 DEF BInv, FInv, Shape
    <3>2. PendingOf(w)' = kaam[w].len - old[w]
      BY <1>2, <3>1 DEF PendingOf, Delta
    <3>3. uncounted'[owner[f]] = uncounted[owner[f]] + (stored - kaam[w].len)
      BY <1>4, <1>6, <2>1
    <3> QED
      BY <1>2, <1>4, <1>5, <1>6, <1>9, <3>2, <3>3
  <2>2. CASE pc' = [pc EXCEPT ![w] = "release"]
             /\ uncounted' = [uncounted EXCEPT ![User(w)]
                                = @ + (stored - old[w])]
    <3>1. pc'[w] = "release"
      BY <2>2 DEF BInv, FInv, Shape
    <3>2. PendingOf(w)' = 0
      BY <3>1 DEF PendingOf
    <3>3. uncounted'[owner[f]] = uncounted[owner[f]] + (stored - old[w])
      BY <1>4, <1>6, <2>2
    <3> QED
      BY <1>2, <1>4, <1>5, <1>6, <1>9, <3>2, <3>3
  <2> QED
    BY <1>1, <2>1, <2>2
<1> QED
  BY <1>0, <1>2, <1>3, <1>7, <1>8, <1>10, FileBooks

LEMMA UnlinkBooks ==
  ASSUME BInv, FInv', NEW w \in Workers, Unlink(w), pc'[w] = "update"
  PROVE  Accounted' /\ Ledger'
<1> USE DEF Goto
<1>0. PICK f \in Files : f = Path(w)
  BY AtFile DEF Unlink, OpenFailed
<1>1. /\ pc[w] = "unlink" /\ size' = [size EXCEPT ![f] = Absent]
      /\ UNCHANGED <<used, uncounted, misread, kaam, old, started>>
      /\ pc' = [pc EXCEPT ![w] = "update"]
  BY <1>0 DEF Unlink, OpenFailed, Resize, BInv, FInv, Shape
<1>2. Alone(w) /\ \A e \in Files \ {f} : size'[e] = size[e]
  BY <1>1 DEF Alone, BInv, FInv, Shape
<1>3. Bytes(f) = old[w] /\ old[w] \in Nat /\ kaam[w].len = 0
  BY <1>0, <1>1, AtFile
<1>4. Bytes(f)' = 0
  BY <1>1 DEF Bytes, BInv, FInv, Shape
<1>5. PendingOf(w) = 0 /\ PendingOf(w)' = 0 - old[w]
  BY <1>1, <1>3 DEF PendingOf, Delta
<1>6. owner[f] \in Users /\ used[owner[f]] \in Int /\ uncounted[owner[f]] \in Int
  BY SetsAssumption DEF BInv, Ledger
<1>7. Bytes(f)' - Bytes(f)
        = (used'[owner[f]] - used[owner[f]])
          + (PendingOf(w)' - PendingOf(w))
          + (uncounted'[owner[f]] - uncounted[owner[f]])
  BY <1>1, <1>3, <1>4, <1>5, <1>6
<1>8. Ledger'
  BY <1>1 DEF BInv, Ledger
<1> QED
  BY <1>0, <1>1, <1>2, <1>7, <1>8, FileBooks

(* What was owed is counted, or lost to the count. *)
LEMMA UpdateBooks ==
  ASSUME BInv, FInv', NEW w \in Workers, UpdateUsed(w)
  PROVE  Accounted' /\ Ledger'
<1> USE DEF Goto
<1>0. PICK f \in Files : f = Path(w)
  BY AtFile DEF UpdateUsed
<1>1. /\ pc[w] = "update" /\ pc' = [pc EXCEPT ![w] = "release"]
      /\ UNCHANGED <<size, misread, kaam, old, started>>
      /\ \/ /\ used' = [used EXCEPT ![User(w)] = @ + Delta(w)]
            /\ UNCHANGED uncounted
         \/ /\ uncounted' = [uncounted EXCEPT ![User(w)] = @ + Delta(w)]
            /\ UNCHANGED used
  BY DEF UpdateUsed, Miscount
<1>2. Alone(w) /\ pc'[w] = "release"
  BY <1>1 DEF Alone, BInv, FInv, Shape
<1>3. /\ User(w) = owner[f] /\ owner[f] \in Users
      /\ Delta(w) \in Int
  BY <1>0, <1>1, AtFile, OwedInt DEF BInv
<1>4. Bytes(f)' = Bytes(f) /\ Bytes(f) \in Nat
  BY <1>1, BytesNat DEF Bytes, BInv
<1>5. PendingOf(w) = Delta(w) /\ PendingOf(w)' = 0
  BY <1>1, <1>2 DEF PendingOf
<1>6. used \in [Users -> Int] /\ uncounted \in [Users -> Int]
  BY DEF BInv, Ledger
<1>7. /\ used' \in [Users -> Int] /\ uncounted' \in [Users -> Int]
      /\ \A u \in Users \ {owner[f]} : /\ used'[u] = used[u]
                                       /\ uncounted'[u] = uncounted[u]
      /\ \/ /\ used'[owner[f]] = used[owner[f]] + Delta(w)
            /\ uncounted'[owner[f]] = uncounted[owner[f]]
         \/ /\ uncounted'[owner[f]] = uncounted[owner[f]] + Delta(w)
            /\ used'[owner[f]] = used[owner[f]]
  BY <1>1, <1>3, <1>6
<1>8. Ledger'
  BY <1>1, <1>7 DEF BInv, Ledger
<1>9. used[owner[f]] \in Int /\ uncounted[owner[f]] \in Int
  BY <1>3, <1>6
<1>10. Bytes(f)' - Bytes(f)
         = (used'[owner[f]] - used[owner[f]])
           + (PendingOf(w)' - PendingOf(w))
           + (uncounted'[owner[f]] - uncounted[owner[f]])
  BY <1>3, <1>4, <1>5, <1>7, <1>9
<1> QED
  BY <1>0, <1>1, <1>2, <1>7, <1>8, <1>10, FileBooks

(* A crash forgets what was owed. *)
LEMMA CrashBooks ==
  ASSUME BInv, FInv', Crash
  PROVE  Accounted' /\ Ledger'
<1>1. \A u \in Users : Pending(u) \in Int /\ Total(u) \in Int
  BY BooksInt DEF BInv
<1>2. /\ UNCHANGED <<size, used, misread, started>>
      /\ \A u \in Users : uncounted'[u] = uncounted[u] + Pending(u)
      /\ uncounted' \in [Users -> Int]
  <2>1. uncounted' = [u \in Users |-> uncounted[u] + Pending(u)]
    BY DEF Crash
  <2>2. \A u \in Users : uncounted[u] + Pending(u) \in Int
    BY <1>1 DEF BInv, Ledger
  <2> QED
    BY <2>1, <2>2 DEF Crash
<1>3. BooksAreSums /\ BooksAreSums'
  BY BooksSummed, PTL
<1>4. ASSUME NEW u \in Users
      PROVE  Pending(u)' = 0 /\ Total(u)' = Total(u)
  <2>1. Busy(u)' = {}
    BY DEF Crash, Busy
  <2>2. IsFiniteSet({})
    BY FS_EmptySet
  <2>3. Amount(Owed', Busy(u)') = 0
    BY <2>1, <2>2, AmountUnfolds
  <2>4. Stored' = Stored /\ Own(u)' = Own(u)
    BY <1>2 DEF Stored, Own, Bytes
  <2> QED
    BY <1>3, <2>3, <2>4 DEF BooksAreSums
<1>5. Ledger'
  BY <1>2 DEF BInv, Ledger
<1>6. ASSUME NEW u \in Users
      PROVE  Total(u)' = used'[u] + Pending(u)' + uncounted'[u]
  <2>1. Total(u) = used[u] + Pending(u) + uncounted[u]
    BY DEF BInv, Accounted
  <2>2. used[u] \in Int /\ uncounted[u] \in Int
    BY DEF BInv, Ledger
  <2> QED
    BY <1>1, <1>2, <1>4, <2>1, <2>2
<1> QED
  BY <1>5, <1>6 DEF Accounted

LEMMA BooksNext ==
  ASSUME BInv, [Next]_vars
  PROVE  BInv'
<1>1. FInv'
  BY FilesNext DEF BInv
<1>2. CASE Crash
  <2>1. Routed'
    BY <1>2 DEF Crash, Routed
  <2> QED
    BY <1>1, <1>2, <2>1, CrashBooks DEF BInv
<1>3. ASSUME NEW w \in Workers, Begin(w) \/ Step(w)
      PROVE  BInv'
  <2>1. Routed'
    BY <1>3, RouteKept DEF BInv
  <2>2. Accounted' /\ Ledger'
    <3>1. CASE OpenForWriting(w)
      <4>1. \/ pc'[w] = "write"
            \/ pc[w] \in {"open", "unlink"} /\ OpenFailed(w)
        BY <3>1 DEF OpenForWriting, Goto, BInv, FInv, Shape
      <4> QED
        BY <1>1, <3>1, <4>1, OpenBooks, QuietOnes
    <3>2. CASE Unlink(w)
      <4>1. \/ pc'[w] = "update"
            \/ pc[w] \in {"open", "unlink"} /\ OpenFailed(w)
        BY <3>2 DEF Unlink, Goto, BInv, FInv, Shape
      <4> QED
        BY <1>1, <3>2, <4>1, UnlinkBooks, QuietOnes
    <3> QED
      BY <1>1, <1>3, <3>1, <3>2, QuietOnes, WriteBooks, UpdateBooks DEF Step
  <2> QED
    BY <1>1, <2>1, <2>2 DEF BInv
<1>4. CASE UNCHANGED vars
  <2>1. UNCHANGED <<size, used, uncounted, misread, pc, kaam, old, started>>
    BY <1>4 DEF vars, disk
  <2>2. BooksAreSums /\ BooksAreSums'
    BY BooksSummed, PTL
  <2>3. \A w : PendingOf(w)' = PendingOf(w)
    BY <2>1 DEF PendingOf, Delta
  <2>4. \A u : Owed' = Owed /\ Busy(u)' = Busy(u) /\ Stored' = Stored
               /\ Own(u)' = Own(u)
    BY <2>1, <2>3 DEF Owed, Busy, Stored, Own, User, Path, Bytes
  <2>5. \A u : Pending(u)' = Pending(u) /\ Total(u)' = Total(u)
    BY <2>2, <2>4 DEF BooksAreSums
  <2> QED
    BY <1>1, <2>1, <2>5 DEF BInv, Routed, Ledger, Accounted, Cmd
<1> QED
  BY <1>2, <1>3, <1>4 DEF Next

LEMMA BooksInit ==
  ASSUME Init
  PROVE  BInv
<1>1. FInv
  BY FilesInitially
<1>2. Routed /\ Ledger
  BY DEF Init, Routed, Ledger
<1>3. ASSUME NEW u \in Users
      PROVE  Total(u) = used[u] + Pending(u) + uncounted[u]
  <2>1. Busy(u) = {}
    BY DEF Init, Busy
  <2>2. Pending(u) = 0
    BY <2>1, FS_EmptySet, AmountUnfolds, BooksSummed DEF BooksAreSums
  <2>3. \A f \in Files : Stored[f] = 0
    BY DEF Init, Stored, Bytes
  <2>4. Total(u) = 0
    <3> DEFINE S == Own(u)
               h == [s \in SUBSET S |-> 0]
    <3>1. ASSUME NEW s \in SUBSET S
          PROVE  h[s] = IF s = {} THEN 0 ELSE Stored[One(s)] + h[s \ {One(s)}]
      <4>1. s # {} => /\ One(s) \in Files /\ s \ {One(s)} \in SUBSET S
        BY OneIn DEF Own
      <4> QED
        BY <2>3, <4>1
    <3>2. Sums(h, Stored, S)
      BY <3>1 DEF Sums
    <3>3. S \in SUBSET S /\ Same(Stored, Stored, S) /\ h[S] = 0
      BY DEF Same
    <3> HIDE DEF h
    <3>4. Amount(Stored, S) = 0
      BY <3>2, <3>3, FiniteBooks, AmountIs
    <3> QED
      BY <3>4, BooksSummed DEF BooksAreSums
  <2> QED
    BY <2>2, <2>4 DEF Init
<1> QED
  BY <1>1, <1>2, <1>3 DEF BInv, Accounted

LEMMA BooksAlways == Spec => []BInv
<1>1. Init => BInv
  BY BooksInit
<1>2. BInv /\ [Next]_vars => BInv'
  BY BooksNext
<1> QED
  BY <1>1, <1>2, PTL DEF Spec

(* Every variable of execute_task keeps its type, whatever calls fail and  *)
(* whenever the process is killed (main.c:12-260 and the quota functions   *)
(* of storage.c).                                                          *)
THEOREM TypesKept == Spec => []TypeOK
<1>1. BInv => TypeOK
  BY DEF BInv, FInv, Shape, Ledger, TypeOK
<1> QED
  BY <1>1, BooksAlways, PTL

(* Every byte of a user's files is counted in used_bytes, owed to it by a  *)
(* worker on its way, or was lost to the count by an incomplete write, a   *)
(* refused update or a crash; for any number of workers, users and files   *)
(* (main.c:57-97 and 171-191, update_used_space in storage.c).             *)
THEOREM BooksBalance == Spec => []Accounted
<1>1. BInv => Accounted
  BY DEF BInv
<1> QED
  BY <1>1, BooksAlways, PTL

-----------------------------------------------------------------------------
(* What the quota is worth on the disk.                                    *)

(* A product of two variables is more than the solver takes in one step.   *)
LEMMA OneTimesMore ==
  ASSUME NEW m \in Nat, NEW k \in Nat
  PROVE  k * m \in Nat /\ (k + 1) * m = k * m + m
OBVIOUS

(* A sum is at most as many times m as there are elements in A, when those *)
(* contribute m at most and the others nothing.                            *)
LEMMA AmountAtMost ==
  ASSUME NEW S, IsFiniteSet(S), NEW g, Integers(g, S), NEW A, NEW m \in Nat,
         \A x \in S : g[x] <= IF x \in A THEN m ELSE 0
  PROVE  Amount(g, S) <= Cardinality(S \cap A) * m
<1> DEFINE Off(s) == ~ (Amount(g, s) <= Cardinality(s \cap A) * m)
           B == {s \in SUBSET S : Off(s)}
<1>1. SUFFICES ASSUME B # {} PROVE FALSE
  <2>1. S \in SUBSET S
    OBVIOUS
  <2> QED
    BY <2>1
<1>2. /\ B \in SUBSET (SUBSET S) /\ \A s \in B : Off(s)
      /\ \A s \in SUBSET S : s \notin B => ~ Off(s)
  OBVIOUS
<1> HIDE DEF B
<1>3. PICK s \in B : \A t \in B : t \subseteq s => t = s
  BY <1>1, <1>2, SmallestSet
<1>4. s \in SUBSET S /\ IsFiniteSet(s) /\ Off(s)
  BY <1>2, <1>3, FS_Subset
<1>5. s # {}
  <2>1. ASSUME s = {} PROVE FALSE
    <3>1. Amount(g, s) = 0
      BY <1>4, <2>1, AmountUnfolds
    <3>2. s \cap A = {}
      BY <2>1
    <3>3. Cardinality(s \cap A) = 0
      BY <3>2, FS_EmptySet
    <3> QED
      BY <1>4, <3>1, <3>3
  <2> QED
    BY <2>1
<1> DEFINE y == One(s)
           r == s \ {y}
<1>6. y \in s /\ r \subseteq s /\ r # s
  BY <1>5, OneIn
<1>7. Amount(g, s) = g[y] + Amount(g, r)
  BY <1>4, <1>5, AmountUnfolds
<1> HIDE DEF y
<1>8. r \in SUBSET S /\ IsFiniteSet(r) /\ IsFiniteSet(r \cap A) /\ IsFiniteSet(s \cap A)
  <2>1. r \in SUBSET S /\ r \in SUBSET s /\ r \cap A \in SUBSET s /\ s \cap A \in SUBSET s
    BY <1>4
  <2> QED
    BY <1>4, <2>1, FS_Subset
<1>9. Amount(g, r) <= Cardinality(r \cap A) * m
  BY <1>2, <1>3, <1>6, <1>8
<1>10. Amount(g, r) \in Int /\ g[y] \in Int
  <2>1. Integers(g, r)
    BY <1>8 DEF Integers
  <2> QED
    BY <1>4, <1>6, <1>8, <2>1, AmountInt DEF Integers
<1> DEFINE k == Cardinality(r \cap A)
<1>11. k \in Nat /\ k * m \in Nat /\ (k + 1) * m = k * m + m
  <2>1. k \in Nat
    BY <1>8, FS_CardinalityType
  <2> QED
    BY <2>1, OneTimesMore
<1>12. Cardinality(s \cap A) = IF y \in A THEN k + 1 ELSE k
  <2>1. CASE y \in A
    <3>1. s \cap A = (r \cap A) \cup {y} /\ y \notin r \cap A
      BY <1>6, <2>1
    <3> QED
      BY <1>8, <2>1, <3>1, FS_AddElement
  <2>2. CASE y \notin A
    <3>1. s \cap A = r \cap A
      BY <2>2
    <3> QED
      BY <2>2, <3>1
  <2> QED
    BY <2>1, <2>2
<1>13. g[y] <= IF y \in A THEN m ELSE 0
  BY <1>4, <1>6
<1> HIDE DEF k, r
<1>14. Amount(g, r) <= k * m
  BY <1>9 DEF k
<1> QED
  BY <1>4, <1>7, <1>10, <1>11, <1>12, <1>13, <1>14

(* An upload owes its payload at most, and everybody else nothing.         *)
LEMMA OwedAtMost ==
  ASSUME BInv, NEW u, NEW w \in Busy(u)
  PROVE  /\ Owed[w] \in Int
         /\ Owed[w] <= IF w \in Admitted(u) THEN kaam[w].len ELSE 0
         /\ w \in Admitted(u) => kaam[w].len \in Nat /\ kaam[w].len <= MaxLength
<1>1. w \in Workers /\ pc[w] # "idle" /\ User(w) = u
  BY DEF Busy
<1>2. /\ kaam[w] \in TaskSet /\ old[w] \in Nat /\ kaam[w].len \in Nat
      /\ Cmd(w) # "UPLOAD" => kaam[w].len = 0
      /\ Cmd(w) = "UPLOAD" => kaam[w].len \in Lengths
  BY <1>1, TaskLengths, TaskShape DEF BInv, FInv, Shape, Cmd
<1>3. Owed[w] = PendingOf(w)
  BY <1>1 DEF Owed
<1>4. /\ PendingOf(w) \in Int
      /\ PendingOf(w) <= IF pc[w] = "update" THEN kaam[w].len ELSE 0
  BY <1>2 DEF PendingOf, Delta
<1>5. pc[w] = "update" /\ Cmd(w) = "UPLOAD" => w \in Admitted(u)
  BY <1>1 DEF Admitted, Past
<1>6. w \in Admitted(u) => kaam[w].len <= MaxLength
  BY <1>2, SizesAssumption DEF Admitted, Lengths
<1> QED
  BY <1>2, <1>3, <1>4, <1>5, <1>6

LEMMA PendingAtMost ==
  ASSUME BInv, QInv, NEW u \in Users, Room(u)
  PROVE  used[u] + Pending(u) <= Limit
<1> DEFINE S == Busy(u)
           A == Admitted(u)
<1>1. IsFiniteSet(S) /\ Integers(Owed, S) /\ Pending(u) = Amount(Owed, S)
  BY IntegerBooks, FiniteBooks, BooksSummed
  DEF BInv, BooksAreIntegers, BooksAreSums
<1>2. /\ A \subseteq S /\ IsFiniteSet(A) /\ Cardinality(A) \in Nat
      /\ \A w \in A : Cardinality(A \ {w}) = Cardinality(A) - 1
  <2>1. A \subseteq S
    BY DEF Admitted, Busy, Past
  <2> QED
    BY <2>1, AdmittedFacts DEF QInv
<1>3. \A w \in S : /\ Owed[w] \in Int
                   /\ Owed[w] <= IF w \in A THEN kaam[w].len ELSE 0
                   /\ w \in A => /\ kaam[w].len \in Nat
                                 /\ kaam[w].len <= MaxLength
  BY OwedAtMost
<1>4. used[u] \in Int /\ MaxLength \in Nat /\ Limit \in Int
  BY Products DEF QInv
<1> HIDE DEF S, A
<1>5. CASE A = {}
  <2>1. \A w \in S : Owed[w] <= IF w \in A THEN 0 ELSE 0
    BY <1>3, <1>5
  <2>2. Amount(Owed, S) <= Cardinality(S \cap A) * 0
    BY <1>1, <2>1, AmountAtMost
  <2>3. Cardinality(S \cap A) = 0
    BY <1>5, FS_EmptySet
  <2>4. used[u] <= Limit
    BY DEF Room
  <2>5. Amount(Owed, S) \in Int
    BY <1>1, AmountInt
  <2> QED
    BY <1>1, <1>4, <2>2, <2>3, <2>4, <2>5
<1>6. CASE A # {}
  <2>1. PICK w \in A : used[u] + kaam[w].len
                         + (Cardinality(A) - 1) * MaxLength <= Limit
    BY <1>6 DEF Room, A
  <2> DEFINE r == S \ {w}
             k == Cardinality(A) - 1
  <2>2. w \in S /\ IsFiniteSet(r) /\ Integers(Owed, r)
    BY <1>1, <1>2, FS_Subset DEF Integers
  <2>3. Amount(Owed, S) = Owed[w] + Amount(Owed, r)
    BY <1>1, <2>2, AmountWithout
  <2>4. Amount(Owed, r) <= Cardinality(r \cap A) * MaxLength
    <3>1. \A x \in r : Owed[x] <= IF x \in A THEN MaxLength ELSE 0
      <4>1. ASSUME NEW x \in r
            PROVE  Owed[x] <= IF x \in A THEN MaxLength ELSE 0
        <5>1. x \in S
          OBVIOUS
        <5> QED
          BY <1>3, <1>4, <5>1
      <4> QED
        BY <4>1
    <3> HIDE DEF r
    <3> QED
      BY <1>4, <2>2, <3>1, AmountAtMost
  <2>5. Cardinality(r \cap A) = k
    <3>1. r \cap A = A \ {w}
      BY <1>2
    <3> QED
      BY <1>2, <3>1
  <2>6. Amount(Owed, r) \in Int
    BY <2>2, AmountInt
  <2>7. Owed[w] \in Int /\ Owed[w] <= kaam[w].len /\ kaam[w].len \in Nat
    BY <1>3, <2>2
  <2>8. k * MaxLength \in Int
    <3>1. k \in Int
      BY <1>2
    <3> QED
      BY <3>1, Products
  <2> HIDE DEF r, k
  <2>9. used[u] + kaam[w].len + k * MaxLength <= Limit
    BY <2>1 DEF k
  <2>10. Amount(Owed, r) <= k * MaxLength
    BY <2>4, <2>5
  <2> QED
    BY <1>1, <1>4, <2>3, <2>6, <2>7, <2>8, <2>9, <2>10
<1> QED
  BY <1>5, <1>6

(* Not only the count, the disk too holds one payload per other worker     *)
(* more than the quota at most, and what a failure or a crash kept out of  *)
(* the count: uploads that are stored and not yet counted are within the   *)
(* same bound (main.c:28-97).                                              *)
DiskBounded ==
  \A u \in Users \ misread : Total(u) <= QuotaBytes + Overrun + uncounted[u]

THEOREM DiskOvershoot == Spec => []DiskBounded
<1>1. ASSUME BInv, QInv, NEW u \in Users \ misread
      PROVE  Total(u) <= QuotaBytes + Overrun + uncounted[u]
  <2>1. used[u] + Pending(u) <= Limit
    BY <1>1, PendingAtMost DEF QInv
  <2>2. Total(u) = used[u] + Pending(u) + uncounted[u]
    BY <1>1 DEF BInv, Accounted
  <2>3. /\ used[u] \in Int /\ uncounted[u] \in Int /\ Pending(u) \in Int
        /\ Limit \in Int
    BY <1>1, BooksInt, Products DEF BInv, Ledger
  <2> QED
    BY <2>1, <2>2, <2>3 DEF Limit
<1>2. BInv /\ QInv => DiskBounded
  BY <1>1 DEF DiskBounded
<1> QED
  BY <1>2, BooksAlways, QuotaAlways, PTL
=============================================================================
