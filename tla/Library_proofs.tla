--------------------------- MODULE Library_proofs ---------------------------
(***************************************************************************)
(* Proofs about the two parts every one of the programs is built from.     *)
(*                                                                         *)
(* First FlaggedArraySet, for every set of elements, every flag and both   *)
(* limits.  Then connection.cpp: Connection, for every limit, every size   *)
(* of messages and any number of messages in both directions, and at the   *)
(* end Keepalive, the connection that is made again when lost.             *)
(***************************************************************************)
EXTENDS FlaggedArraySet, Connection, Keepalive, ListTheorems

----------------------------------------------------------------------------
(***************************************************************************)
(* FlaggedArraySet.                                                        *)
(***************************************************************************)
FlagCountInv == flag_count = FlagSum(indexMap)

NothingNoted == to_be_removed = <<>> => flags_to_remove = 0

\* The inductive invariant.
IndInv == TypeOK /\ PositionsInv /\ PendingInv /\ FlagCountInv /\ NothingNoted

ListType ==
  /\ indexMap \in Seq(Elem)
  /\ DOMAIN backingMap \subseteq Elem
  /\ \A e \in DOMAIN backingMap : backingMap[e] \in Nat
  /\ offset \in Nat /\ flag_count \in Int

----------------------------------------------------------------------------

\* The flags of a list, and how their sum follows the list.
FlagsOf(l) == [k \in 1..Len(l) |-> Flag[l[k]]]

LEMMA FlagsOfFacts ==
  ASSUME FASAssumption, NEW l \in Seq(Elem)
  PROVE  /\ FlagsOf(l) \in Seq(Nat) /\ FlagsOf(l) \in Seq(Int) /\ Len(FlagsOf(l)) = Len(l)
         /\ \A k \in 1..Len(l) : FlagsOf(l)[k] = Flag[l[k]] /\ Flag[l[k]] \in Nat
         /\ FlagSum(l) = SumSeq(FlagsOf(l)) /\ FlagSum(l) \in Nat
<1>1. Len(l) \in Nat /\ \A k \in 1..Len(l) : l[k] \in Elem
  OBVIOUS
<1>2. \A k \in 1..Len(l) : Flag[l[k]] \in Nat
  BY <1>1 DEF FASAssumption
<1>3. FlagsOf(l) \in [1..Len(l) -> Nat]
  BY <1>2 DEF FlagsOf
<1>4. FlagsOf(l) \in Seq(Nat)
  BY <1>1, <1>3, SeqDef
<1>5. FlagsOf(l) \in Seq(Int)
  BY <1>4, SeqOfLarger, Nat \subseteq Int
<1>6. Len(FlagsOf(l)) = Len(l)
  <2>1. DOMAIN FlagsOf(l) = 1..Len(l)
    BY DEF FlagsOf
  <2> QED
    BY <1>1, <1>4, <2>1, LenProperties
<1>7. \A k \in 1..Len(l) : FlagsOf(l)[k] = Flag[l[k]]
  BY DEF FlagsOf
<1>8. FlagSum(l) = SumSeq(FlagsOf(l))
  BY DEF FlagSum, FlagsOf
<1>9. FlagSum(l) \in Nat
  BY <1>4, <1>8, SumNat
<1> QED
  BY <1>2, <1>4, <1>5, <1>6, <1>7, <1>8, <1>9

LEMMA FlagSumEmpty == FlagSum(<<>>) = 0
<1>1. [k \in 1..Len(<<>>) |-> Flag[<<>>[k]]] = <<>>
  OBVIOUS
<1> QED
  BY <1>1, SumEmpty DEF FlagSum

LEMMA FlagSumRemove ==
  ASSUME FASAssumption, NEW l \in Seq(Elem), NEW k \in 1..Len(l)
  PROVE  /\ FlagSum(RemoveAt(l, k)) = FlagSum(l) - Flag[l[k]]
         /\ FlagSum(RemoveAt(l, k)) <= FlagSum(l)
<1> DEFINE r == RemoveAt(l, k)
<1>0. Len(l) \in Nat
  OBVIOUS
<1>1. /\ r \in Seq(Elem) /\ Len(r) = Len(l) - 1 /\ Len(l) \in Nat
      /\ \A j \in 1..(Len(l) - 1) : r[j] = IF j < k THEN l[j] ELSE l[j + 1]
  BY <1>0, RemoveAtFacts, Zenon
<1> HIDE DEF r
<1>2. /\ FlagsOf(l) \in Seq(Int) /\ FlagsOf(r) \in Seq(Int)
      /\ Len(FlagsOf(l)) = Len(l) /\ Len(FlagsOf(r)) = Len(l) - 1
      /\ FlagSum(l) = SumSeq(FlagsOf(l)) /\ FlagSum(r) = SumSeq(FlagsOf(r))
      /\ FlagSum(l) \in Nat
      /\ \A j \in 1..Len(l) : FlagsOf(l)[j] = Flag[l[j]] /\ Flag[l[j]] \in Nat
      /\ \A j \in 1..(Len(l) - 1) : FlagsOf(r)[j] = Flag[r[j]]
  <2>1. /\ FlagsOf(r) \in Seq(Int) /\ Len(FlagsOf(r)) = Len(r) /\ FlagSum(r) = SumSeq(FlagsOf(r))
        /\ \A j \in 1..Len(r) : FlagsOf(r)[j] = Flag[r[j]]
    BY <1>1, FlagsOfFacts
  <2>2. /\ FlagsOf(l) \in Seq(Int) /\ Len(FlagsOf(l)) = Len(l)
        /\ FlagSum(l) = SumSeq(FlagsOf(l)) /\ FlagSum(l) \in Nat
        /\ \A j \in 1..Len(l) : FlagsOf(l)[j] = Flag[l[j]] /\ Flag[l[j]] \in Nat
    BY FlagsOfFacts
  <2> QED
    BY <1>1, <2>1, <2>2
<1>3. ASSUME NEW j \in 1..(Len(l) - 1)
      PROVE  FlagsOf(r)[j] = IF j < k THEN FlagsOf(l)[j] ELSE FlagsOf(l)[j + 1]
  <2>1. j \in 1..Len(l) /\ j + 1 \in 1..Len(l)
    BY <1>1
  <2> QED
    BY <1>1, <1>2, <2>1, ZenonT(60)
<1>4. SumSeq(FlagsOf(r)) = SumSeq(FlagsOf(l)) - FlagsOf(l)[k]
  BY <1>1, <1>2, <1>3, SumWithout, SMTT(30)
<1>5. FlagSum(r) = FlagSum(l) - Flag[l[k]] /\ Flag[l[k]] \in Nat
  BY <1>2, <1>4
<1> QED
  BY <1>2, <1>5 DEF r

LEMMA FlagSumAppend ==
  ASSUME FASAssumption, NEW l \in Seq(Elem), NEW e \in Elem
  PROVE  FlagSum(Append(l, e)) = FlagSum(l) + Flag[e]
<1> DEFINE a == Append(l, e)
<1>1. /\ a \in Seq(Elem) /\ Len(a) = Len(l) + 1 /\ Len(l) \in Nat
      /\ a[Len(l) + 1] = e /\ \A k \in 1..Len(l) : a[k] = l[k]
  OBVIOUS
<1> HIDE DEF a
<1>2. /\ FlagsOf(l) \in Seq(Int) /\ FlagsOf(a) \in Seq(Int)
      /\ Len(FlagsOf(l)) = Len(l) /\ Len(FlagsOf(a)) = Len(l) + 1
      /\ FlagSum(l) = SumSeq(FlagsOf(l)) /\ FlagSum(a) = SumSeq(FlagsOf(a))
      /\ \A j \in 1..Len(l) : FlagsOf(l)[j] = Flag[l[j]]
      /\ \A j \in 1..(Len(l) + 1) : FlagsOf(a)[j] = Flag[a[j]]
  <2>1. /\ FlagsOf(a) \in Seq(Int) /\ Len(FlagsOf(a)) = Len(a) /\ FlagSum(a) = SumSeq(FlagsOf(a))
        /\ \A j \in 1..Len(a) : FlagsOf(a)[j] = Flag[a[j]]
    BY <1>1, FlagsOfFacts
  <2>2. /\ FlagsOf(l) \in Seq(Int) /\ Len(FlagsOf(l)) = Len(l) /\ FlagSum(l) = SumSeq(FlagsOf(l))
        /\ \A j \in 1..Len(l) : FlagsOf(l)[j] = Flag[l[j]]
    BY FlagsOfFacts
  <2> QED
    BY <1>1, <2>1, <2>2
<1>3. Flag[e] \in Int
  BY DEF FASAssumption
<1>4. /\ Append(FlagsOf(l), Flag[e]) \in Seq(Int) /\ Len(Append(FlagsOf(l), Flag[e])) = Len(l) + 1
      /\ Append(FlagsOf(l), Flag[e])[Len(l) + 1] = Flag[e]
      /\ \A j \in 1..Len(l) : Append(FlagsOf(l), Flag[e])[j] = FlagsOf(l)[j]
  BY <1>2, <1>3, AppendProperties
<1>5. ASSUME NEW j \in 1..(Len(l) + 1) PROVE FlagsOf(a)[j] = Append(FlagsOf(l), Flag[e])[j]
  <2>1. CASE j = Len(l) + 1
    BY <1>1, <1>2, <1>4, <2>1
  <2>2. CASE j \in 1..Len(l)
    BY <1>1, <1>2, <1>4, <2>2, SMTT(30)
  <2>3. Len(l) \in Nat => j = Len(l) + 1 \/ j \in 1..Len(l)
    OBVIOUS
  <2> QED
    BY <1>1, <2>1, <2>2, <2>3, Zenon
<1>6. FlagsOf(a) = Append(FlagsOf(l), Flag[e])
  BY <1>2, <1>4, <1>5, SeqEqual
<1>7. SumSeq(Append(FlagsOf(l), Flag[e])) = SumSeq(FlagsOf(l)) + Flag[e]
  BY <1>2, <1>3, SumAppend
<1> QED
  BY <1>2, <1>6, <1>7 DEF a

\* remove_ keeps the stored positions right on both sides of the hole.
LEMMA RemovePositions ==
  ASSUME FASAssumption, ListType, PositionsInv,
         NEW index \in 0..(Len(indexMap) - 1), remove_(index)
  PROVE  /\ indexMap' \in Seq(Elem)
         /\ Len(indexMap') = Len(indexMap) - 1
         /\ \A j \in 1..(Len(indexMap) - 1) :
              indexMap'[j] = IF j < index + 1 THEN indexMap[j] ELSE indexMap[j + 1]
         /\ offset' \in Nat
         /\ PositionsInv'
<1> DEFINE n == Len(indexMap)
<1>0. n \in Nat /\ n > 0 /\ index \in Nat /\ index + 1 \in 1..n
      /\ DOMAIN indexMap = 1..n /\ offset \in Nat
  BY DEF ListType
<1>1. /\ indexMap' \in Seq(Elem)
      /\ Len(indexMap') = n - 1
      /\ \A j \in 1..(n - 1) :
           indexMap'[j] = IF j < index + 1 THEN indexMap[j] ELSE indexMap[j + 1]
  BY <1>0, RemoveAtFacts DEF remove_, ListType
<1>2. ASSUME NEW j \in 1..n, NEW k \in 1..n, indexMap[j] = indexMap[k]
      PROVE  j = k
  <2>1. backingMap[indexMap[j]] = (j - 1) + offset /\ backingMap[indexMap[k]] = (k - 1) + offset
    BY <1>0 DEF PositionsInv
  <2> QED
    BY <1>0, <1>2, <2>1
<1>3. /\ DOMAIN backingMap' = DOMAIN backingMap \ {indexMap[index + 1]}
      /\ \A e \in DOMAIN backingMap' :
           backingMap'[e] = IF index < n \div 2 /\ (\E k \in 1..index : indexMap[k] = e)
                            THEN backingMap[e] + 1
                            ELSE IF ~(index < n \div 2) /\ (\E k \in (index + 2)..n : indexMap[k] = e)
                            THEN backingMap[e] - 1
                            ELSE backingMap[e]
  BY DEF remove_
<1>4. offset' = IF index < n \div 2 THEN offset + 1 ELSE offset
  BY DEF remove_
<1>5. offset' \in Nat
  BY <1>0, <1>4
<1>6. ASSUME NEW e \in DOMAIN backingMap'
      PROVE  \E k \in DOMAIN indexMap' : indexMap'[k] = e
  <2>1. PICK k \in 1..n : indexMap[k] = e /\ k # index + 1
    BY <1>0, <1>3, <1>6 DEF PositionsInv
  <2>2. DOMAIN indexMap' = 1..(n - 1)
    BY <1>0, <1>1
  <2>3. CASE k < index + 1
    BY <1>0, <1>1, <2>1, <2>2, <2>3, SMTT(30)
  <2>4. CASE k > index + 1
    <3>1. k - 1 \in 1..(n - 1) /\ ~(k - 1 < index + 1) /\ (k - 1) + 1 = k
      BY <1>0, <2>4
    <3> QED
      BY <1>1, <2>1, <2>2, <3>1
  <2> QED
    BY <1>0, <2>1, <2>3, <2>4
<1>7. ASSUME NEW j \in DOMAIN indexMap'
      PROVE  /\ indexMap'[j] \in DOMAIN backingMap'
             /\ backingMap'[indexMap'[j]] = (j - 1) + offset'
  <2>0. j \in 1..(n - 1)
    BY <1>0, <1>1, <1>7
  <2>1. CASE j < index + 1
    <3>1. indexMap'[j] = indexMap[j] /\ j \in 1..n /\ j \in 1..index
      BY <1>0, <1>1, <2>0, <2>1, SMTT(30)
    <3>2. indexMap[j] # indexMap[index + 1] /\ ~(\E k \in (index + 2)..n : indexMap[k] = indexMap[j])
      BY <1>0, <1>2, <2>1, <3>1
    <3>3. indexMap[j] \in DOMAIN backingMap /\ backingMap[indexMap[j]] = (j - 1) + offset
      BY <1>0, <3>1 DEF PositionsInv
    <3>4. indexMap[j] \in DOMAIN backingMap'
      BY <1>3, <3>2, <3>3
    <3>5. backingMap'[indexMap[j]] = IF index < n \div 2 THEN backingMap[indexMap[j]] + 1
                                                         ELSE backingMap[indexMap[j]]
      BY <1>3, <3>1, <3>2, <3>4
    <3> QED
      BY <1>0, <1>4, <3>1, <3>3, <3>4, <3>5
  <2>2. CASE ~(j < index + 1)
    <3>0. j + 1 \in 1..n /\ j + 1 \in (index + 2)..n
      BY <1>0, <2>0, <2>2
    <3>1. indexMap'[j] = indexMap[j + 1] /\ j + 1 \in 1..n /\ j + 1 \in (index + 2)..n
      BY <1>1, <2>0, <2>2, <3>0
    <3>2. indexMap[j + 1] # indexMap[index + 1] /\ ~(\E k \in 1..index : indexMap[k] = indexMap[j + 1])
      BY <1>0, <1>2, <2>2, <3>1
    <3>3. indexMap[j + 1] \in DOMAIN backingMap /\ backingMap[indexMap[j + 1]] = j + offset
      BY <1>0, <2>0, <3>1 DEF PositionsInv
    <3>4. indexMap[j + 1] \in DOMAIN backingMap'
      BY <1>3, <3>2, <3>3
    <3>5. backingMap'[indexMap[j + 1]] = IF ~(index < n \div 2) THEN backingMap[indexMap[j + 1]] - 1
                                                             ELSE backingMap[indexMap[j + 1]]
      BY <1>3, <3>1, <3>2, <3>4
    <3> QED
      BY <1>0, <1>4, <2>0, <3>1, <3>3, <3>4, <3>5
  <2> QED
    BY <2>1, <2>2
<1>8. PositionsInv'
  BY <1>6, <1>7 DEF PositionsInv
<1> QED
  BY <1>0, <1>1, <1>5, <1>8

\* remove_ keeps the list well typed: a position that is stored is a position plus
\* offset, so never negative.
LEMMA RemoveType ==
  ASSUME FASAssumption, ListType, PositionsInv,
         NEW index \in 0..(Len(indexMap) - 1), remove_(index)
  PROVE  ListType'
<1>1. /\ indexMap' \in Seq(Elem) /\ offset' \in Nat /\ PositionsInv'
  BY RemovePositions
<1>2. DOMAIN backingMap' \subseteq Elem
  BY DEF remove_, ListType
<1>3. ASSUME NEW e \in DOMAIN backingMap' PROVE backingMap'[e] \in Nat
  <2>1. PICK k \in DOMAIN indexMap' : indexMap'[k] = e
    BY <1>1, <1>3 DEF PositionsInv
  <2>2. backingMap'[e] = (k - 1) + offset'
    BY <1>1, <2>1 DEF PositionsInv
  <2>3. k \in 1..Len(indexMap')
    BY <1>1
  <2> QED
    BY <1>1, <2>2, <2>3
<1>4. flag_count' \in Int
  <2>1. index + 1 \in 1..Len(indexMap) /\ indexMap[index + 1] \in Elem
    BY DEF ListType
  <2> QED
    BY <2>1 DEF remove_, ListType, FASAssumption
<1> QED
  BY <1>1, <1>2, <1>3, <1>4 DEF ListType

\* remove_ takes the flag of the element that leaves off the count.
LEMMA RemoveFlags ==
  ASSUME FASAssumption, ListType, FlagCountInv,
         NEW index \in 0..(Len(indexMap) - 1), remove_(index)
  PROVE  FlagCountInv'
<1>1. index + 1 \in 1..Len(indexMap) /\ indexMap \in Seq(Elem)
  BY DEF ListType
<1>2. FlagSum(RemoveAt(indexMap, index + 1)) = FlagSum(indexMap) - Flag[indexMap[index + 1]]
  BY <1>1, FlagSumRemove
<1>3. /\ indexMap' = RemoveAt(indexMap, index + 1)
      /\ flag_count' = flag_count - Flag[indexMap[index + 1]]
  BY DEF remove_
<1>4. FlagSum(indexMap)' = FlagSum(indexMap')
  BY DEF FlagSum
<1> QED
  BY <1>2, <1>3, <1>4 DEF FlagCountInv

\* backingMap holds as many elements as indexMap: the list is a bijection onto it.
LEMMA SameSize ==
  ASSUME ListType, PositionsInv
  PROVE  Cardinality(DOMAIN backingMap) = Len(indexMap)
<1> DEFINE n == Len(indexMap)
<1>0. n \in Nat /\ DOMAIN indexMap = 1..n /\ offset \in Nat
      /\ indexMap \in [1..n -> Elem]
  BY DEF ListType
<1>1. indexMap \in [1..n -> DOMAIN backingMap]
  BY <1>0 DEF PositionsInv
<1>2. ASSUME NEW j \in 1..n, NEW k \in 1..n, indexMap[j] = indexMap[k]
      PROVE  j = k
  <2>1. backingMap[indexMap[j]] = (j - 1) + offset /\ backingMap[indexMap[k]] = (k - 1) + offset
    BY <1>0 DEF PositionsInv
  <2> QED
    BY <1>0, <1>2, <2>1
<1>3. \A e \in DOMAIN backingMap : \E k \in 1..n : indexMap[k] = e
  BY <1>0 DEF PositionsInv
<1>4. ExistsBijection(1..n, DOMAIN backingMap)
  BY <1>1, <1>2, <1>3 DEF ExistsBijection, Bijection, Injection, Surjection, IsInjective
<1> QED
  BY <1>0, <1>4, FS_CountingElements

----------------------------------------------------------------------------

LEMMA InitIndInv ==
  ASSUME FASAssumption, Init
  PROVE  IndInv
<1>1. DOMAIN backingMap = {} /\ DOMAIN indexMap = {} /\ Len(indexMap) = 0
      /\ Len(to_be_removed) = 0 /\ DOMAIN to_be_removed = {}
  BY DEF Init
<1>2. TypeOK
  BY <1>1 DEF Init, TypeOK, Op, Idle
<1>3. PositionsInv
  BY <1>1 DEF PositionsInv
<1>4. PendingInv
  BY <1>1 DEF Init, PendingInv, Waiting
<1>5. FlagCountInv
  BY FlagSumEmpty DEF FlagCountInv, Init
<1>6. NothingNoted
  BY DEF Init, NothingNoted
<1> QED
  BY <1>2, <1>3, <1>4, <1>5, <1>6 DEF IndInv

\* A step that leaves the list alone leaves what is said of it true.
LEMMA ListUnchanged ==
  ASSUME IndInv, UNCHANGED list
  PROVE  ListType' /\ PositionsInv' /\ FlagCountInv'
<1>1. backingMap' = backingMap /\ indexMap' = indexMap /\ offset' = offset
      /\ flag_count' = flag_count
  BY DEF list
<1>2. ListType'
  BY <1>1 DEF IndInv, TypeOK, ListType
<1>3. PositionsInv'
  BY <1>1 DEF IndInv, PositionsInv
<1>4. FlagCountInv'
  BY <1>1 DEF IndInv, FlagCountInv, FlagSum
<1> QED
  BY <1>2, <1>3, <1>4

\* The same for the noted removals, between operations and in their bodies.
LEMMA LazyType ==
  ASSUME TypeOK, UNCHANGED lazy
  PROVE  /\ to_be_removed' \in Seq(Nat) /\ max_remove' \in Nat /\ flags_to_remove' \in Nat
         /\ to_be_removed' = to_be_removed /\ max_remove' = max_remove
         /\ flags_to_remove' = flags_to_remove
  BY DEF TypeOK, lazy

\* Every operation, and every iteration of its loops, keeps the invariant.
LEMMA NextIndInv ==
  ASSUME FASAssumption, IndInv, [Next]_vars
  PROVE  IndInv'
<1> USE FASAssumption
<1>0. TypeOK /\ PositionsInv /\ PendingInv /\ FlagCountInv /\ NothingNoted /\ ListType
  BY DEF IndInv, TypeOK, ListType
<1>t. Len(to_be_removed) \in Nat /\ Len(indexMap) \in Nat /\ i \in Nat /\ op \in Op
      /\ DOMAIN to_be_removed = 1..Len(to_be_removed)
      /\ DOMAIN indexMap = 1..Len(indexMap)
  BY <1>0 DEF TypeOK
<1>1. CASE Begin
  <2>1. ListType' /\ PositionsInv' /\ FlagCountInv'
    BY <1>1, ListUnchanged DEF Begin
  <2>2. TypeOK'
    BY <1>0, <1>1, <2>1, LazyType DEF Begin, TypeOK, ListType
  <2>3. PendingInv'
    <3>1. i = 0
      BY <1>0, <1>1 DEF PendingInv, Begin
    <3>2. i' = 0 /\ UNCHANGED <<indexMap, to_be_removed, max_remove>>
      BY <1>1 DEF Begin, list, lazy
    <3>3. /\ pc' \in {"body", "cleanup"}
          /\ pc' = "body" => op'.name = "remove_index" /\ op'.arg >= max_remove
      BY <1>1 DEF Begin
    <3> QED
      BY <1>0, <1>t, <3>1, <3>2, <3>3 DEF PendingInv, Waiting
  <2>4. NothingNoted'
    BY <1>0, <1>1 DEF Begin, NothingNoted, lazy
  <2> QED
    BY <2>1, <2>2, <2>3, <2>4 DEF IndInv
<1>2. CASE CleanupStep
  <2> DEFINE index == to_be_removed[i + 1]
  <2>1. index \in 0..(Len(indexMap) - 1) /\ remove_(index)
    BY <1>0, <1>t, <1>2 DEF CleanupStep, PendingInv, Waiting, TypeOK
  <2>2. ListType' /\ PositionsInv' /\ FlagCountInv' /\ Len(indexMap') = Len(indexMap) - 1
    BY <1>0, <2>1, RemoveType, RemovePositions, RemoveFlags
  <2>3. TypeOK'
    BY <1>0, <1>2, <2>2, LazyType DEF CleanupStep, TypeOK, ListType
  <2>4. PendingInv'
    <3>1. i' = i + 1 /\ i + 1 <= Len(to_be_removed) /\ pc = "cleanup" /\ pc' = pc
          /\ UNCHANGED <<to_be_removed, max_remove>>
      BY <1>0, <1>t, <1>2 DEF CleanupStep, lazy
    <3>2. ASSUME NEW m \in (i + 2)..Len(to_be_removed)
          PROVE  to_be_removed[m] + (m - (i + 1)) <= Len(indexMap) - 1
      <4>1. m \in (i + 1)..Len(to_be_removed) /\ to_be_removed[m] \in Nat
        BY <1>0, <1>t DEF TypeOK
      <4>2. to_be_removed[m] + (m - i) <= Len(indexMap)
        BY <1>0, <4>1 DEF PendingInv, Waiting
      <4> QED
        BY <1>t, <4>1, <4>2
    <3>3. \A m \in Waiting' : to_be_removed'[m] + (m - i') <= Len(indexMap')
      BY <1>t, <2>2, <3>1, <3>2 DEF Waiting
    <3> QED
      BY <1>0, <1>t, <3>1, <3>3 DEF PendingInv
  <2>5. NothingNoted'
    BY <1>0, <1>2 DEF CleanupStep, NothingNoted, lazy
  <2> QED
    BY <2>2, <2>3, <2>4, <2>5 DEF IndInv
<1>3. CASE CleanupDone
  <2>1. ListType' /\ PositionsInv' /\ FlagCountInv'
    BY <1>3, ListUnchanged DEF CleanupDone
  <2>2. TypeOK'
    BY <1>0, <1>3, <2>1 DEF CleanupDone, TypeOK, ListType
  <2>3. PendingInv'
    BY <1>t, <1>3 DEF CleanupDone, PendingInv, Waiting, Op
  <2>4. NothingNoted'
    BY <1>3 DEF CleanupDone, NothingNoted
  <2> QED
    BY <2>1, <2>2, <2>3, <2>4 DEF IndInv
<1>4. CASE Add
  <2>0. UNCHANGED lazy /\ i' = i /\ i = 0 /\ op.name = "add" /\ op.arg \in Elem
        /\ to_be_removed = <<>> /\ Len(to_be_removed) = 0
    BY <1>0, <1>t, <1>4 DEF Add, PendingInv, Op
  <2>1. CASE op.arg \in DOMAIN backingMap
    <3>1. UNCHANGED list /\ pc' = "idle" /\ op' = Idle
      BY <1>4, <2>1 DEF Add, Return
    <3>2. ListType' /\ PositionsInv' /\ FlagCountInv'
      BY <3>1, ListUnchanged
    <3>3. TypeOK'
      BY <1>0, <2>0, <3>1, <3>2, LazyType DEF TypeOK, ListType, Op, Idle
    <3>4. PendingInv' /\ NothingNoted'
      BY <1>0, <1>t, <2>0, <3>1 DEF PendingInv, Waiting, NothingNoted, lazy, list
    <3> QED
      BY <3>2, <3>3, <3>4 DEF IndInv
  <2>2. CASE op.arg \notin DOMAIN backingMap
    <3> DEFINE n == Len(indexMap)
    <3>1. /\ DOMAIN backingMap' = DOMAIN backingMap \cup {op.arg}
          /\ \A e \in DOMAIN backingMap : backingMap'[e] = backingMap[e]
          /\ backingMap'[op.arg] = size + offset
          /\ indexMap' = Append(indexMap, op.arg)
          /\ flag_count' = flag_count + Flag[op.arg]
          /\ pc' = "evict" /\ UNCHANGED <<offset, op>>
      BY <1>4, <2>2 DEF Add
    <3>2. size = n
      BY <1>0, <1>t, <2>0, SameSize DEF size
    <3>3. /\ indexMap' \in Seq(Elem) /\ Len(indexMap') = n + 1
          /\ \A k \in 1..n : indexMap'[k] = indexMap[k]
          /\ indexMap'[n + 1] = op.arg
      BY <1>0, <1>t, <2>0, <3>1 DEF ListType
    <3>4. ListType'
      BY <1>0, <1>t, <2>0, <3>1, <3>2, <3>3 DEF ListType, FASAssumption
    <3>5. PositionsInv'
      <4>1. \A e \in DOMAIN backingMap' : \E k \in 1..(n + 1) : indexMap'[k] = e
        BY <1>0, <1>t, <3>1, <3>3 DEF PositionsInv
      <4>2. ASSUME NEW k \in 1..(n + 1)
            PROVE  indexMap'[k] \in DOMAIN backingMap'
                   /\ backingMap'[indexMap'[k]] = (k - 1) + offset'
        <5>1. CASE k = n + 1
          BY <1>0, <1>t, <3>1, <3>2, <3>3, <5>1 DEF ListType
        <5>2. CASE k \in 1..n
          <6>1. indexMap[k] \in DOMAIN backingMap /\ backingMap[indexMap[k]] = (k - 1) + offset
            BY <1>0, <1>t, <5>2 DEF PositionsInv
          <6>2. indexMap'[k] = indexMap[k]
            BY <3>3, <5>2
          <6> QED
            BY <3>1, <6>1, <6>2
        <5> QED
          BY <1>t, <5>1, <5>2
      <4>3. DOMAIN indexMap' = 1..(n + 1)
        BY <3>3
      <4> QED
        BY <4>1, <4>2, <4>3 DEF PositionsInv
    <3>6. FlagCountInv'
      <4>1. FlagSum(Append(indexMap, op.arg)) = FlagSum(indexMap) + Flag[op.arg]
        BY <1>0, <2>0, FlagSumAppend DEF ListType
      <4>2. FlagSum(indexMap)' = FlagSum(indexMap')
        BY DEF FlagSum
      <4> QED
        BY <1>0, <3>1, <4>1, <4>2 DEF FlagCountInv
    <3>7. TypeOK'
      BY <1>0, <1>t, <2>0, <3>1, <3>4, LazyType DEF TypeOK, ListType
    <3>8. PendingInv' /\ NothingNoted'
      BY <1>0, <1>t, <2>0, <3>1 DEF PendingInv, Waiting, NothingNoted, lazy
    <3> QED
      BY <3>5, <3>6, <3>7, <3>8 DEF IndInv
  <2> QED
    BY <2>1, <2>2
<1>5. CASE EvictStep
  <2>0. /\ UNCHANGED lazy /\ pc' = pc /\ op' = op /\ i' = i /\ pc = "evict" /\ i = 0
        /\ to_be_removed = <<>> /\ Len(to_be_removed) = 0 /\ flags_to_remove = 0
    BY <1>0, <1>t, <1>5 DEF EvictStep, PendingInv, NothingNoted
  <2>1. Len(indexMap) # 0
    <3>1. SUFFICES ASSUME Len(indexMap) = 0 PROVE FALSE
      OBVIOUS
    <3>2. flag_count = 0
      <4>1. indexMap = <<>>
        BY <1>0, <3>1, EmptySeq DEF ListType
      <4> QED
        BY <1>0, <4>1, FlagSumEmpty DEF FlagCountInv
    <3>3. size = 0
      BY <1>0, <2>0, <3>1, SameSize DEF size
    <3> QED
      BY <1>5, <2>0, <3>2, <3>3 DEF EvictStep, OverLimit, flagCount, FASAssumption
  <2>2. 0 \in 0..(Len(indexMap) - 1) /\ remove_(0)
    BY <1>t, <1>5, <2>1 DEF EvictStep
  <2>3. ListType' /\ PositionsInv' /\ FlagCountInv'
    BY <1>0, <2>2, RemoveType, RemovePositions, RemoveFlags
  <2>4. TypeOK'
    BY <1>0, <2>0, <2>3, LazyType DEF TypeOK, ListType
  <2>5. PendingInv' /\ NothingNoted'
    BY <1>0, <1>t, <2>0 DEF PendingInv, Waiting, NothingNoted, lazy
  <2> QED
    BY <2>3, <2>4, <2>5 DEF IndInv
<1>6. CASE EvictDone
  <2>1. UNCHANGED <<list, lazy, i>> /\ pc' = "idle" /\ op' = Idle
    BY <1>6 DEF EvictDone, Return
  <2>2. ListType' /\ PositionsInv' /\ FlagCountInv'
    BY <2>1, ListUnchanged
  <2>3. TypeOK'
    BY <1>0, <2>1, <2>2, LazyType DEF TypeOK, ListType, Op, Idle
  <2>4. PendingInv' /\ NothingNoted'
    BY <1>0, <1>t, <1>6, <2>1 DEF EvictDone, PendingInv, Waiting, NothingNoted, lazy, list
  <2> QED
    BY <2>2, <2>3, <2>4 DEF IndInv
<1>7. CASE RemoveElem
  <2>0. /\ UNCHANGED <<lazy, i>> /\ i = 0 /\ pc' = "idle" /\ op' = Idle
        /\ to_be_removed = <<>> /\ Len(to_be_removed) = 0
    BY <1>0, <1>t, <1>7 DEF RemoveElem, Return, PendingInv
  <2>1. ListType' /\ PositionsInv' /\ FlagCountInv'
    <3>1. CASE op.arg \notin DOMAIN backingMap
      BY <1>7, <3>1, ListUnchanged DEF RemoveElem
    <3>2. CASE op.arg \in DOMAIN backingMap
      <4> DEFINE index == backingMap[op.arg] - offset
      <4>1. PICK k \in 1..Len(indexMap) : indexMap[k] = op.arg
        BY <1>0, <1>t, <3>2 DEF PositionsInv
      <4>2. backingMap[op.arg] = (k - 1) + offset
        BY <1>0, <1>t, <4>1 DEF PositionsInv
      <4>3. index \in 0..(Len(indexMap) - 1) /\ remove_(index)
        BY <1>0, <1>t, <1>7, <3>2, <4>2 DEF RemoveElem, ListType
      <4> QED
        BY <1>0, <4>3, RemoveType, RemovePositions, RemoveFlags
    <3> QED
      BY <3>1, <3>2
  <2>2. TypeOK'
    BY <1>0, <2>0, <2>1, LazyType DEF TypeOK, ListType, Op, Idle
  <2>3. PendingInv' /\ NothingNoted'
    BY <1>0, <1>t, <2>0 DEF PendingInv, Waiting, NothingNoted, lazy
  <2> QED
    BY <2>1, <2>2, <2>3 DEF IndInv
<1>8. CASE RemoveIndex
  <2> DEFINE len == Len(to_be_removed)
  <2>0. /\ UNCHANGED <<list, i>> /\ i = 0 /\ pc' = "idle" /\ op' = Idle
        /\ op.arg \in Nat /\ op.arg >= max_remove /\ max_remove \in Nat
    BY <1>0, <1>t, <1>8 DEF RemoveIndex, Return, PendingInv, Op, TypeOK
  <2>1. ListType' /\ PositionsInv' /\ FlagCountInv' /\ indexMap' = indexMap
    BY <2>0, ListUnchanged DEF list
  <2>2. CASE op.arg + len >= Len(indexMap)
    <3>1. UNCHANGED lazy
      BY <1>t, <1>8, <2>0, <2>2 DEF RemoveIndex
    <3>2. TypeOK'
      BY <1>0, <2>0, <2>1, <3>1, LazyType DEF TypeOK, ListType, Op, Idle
    <3>3. PendingInv' /\ NothingNoted'
      BY <1>0, <1>t, <2>0, <2>1, <3>1 DEF PendingInv, Waiting, NothingNoted, lazy
    <3> QED
      BY <2>1, <3>2, <3>3 DEF IndInv
  <2>3. CASE op.arg + len < Len(indexMap)
    <3>1. /\ to_be_removed' = Append(to_be_removed, op.arg) /\ max_remove' = op.arg
          /\ flags_to_remove' = flags_to_remove + Flag[indexMap[op.arg + len + 1]]
      BY <1>t, <1>8, <2>0, <2>3 DEF RemoveIndex
    <3>2. /\ to_be_removed' \in Seq(Nat) /\ Len(to_be_removed') = len + 1
          /\ \A m \in 1..len : to_be_removed'[m] = to_be_removed[m]
          /\ to_be_removed'[len + 1] = op.arg
      BY <1>0, <1>t, <2>0, <3>1 DEF TypeOK
    <3>3. flags_to_remove' \in Nat
      <4>1. op.arg + len + 1 \in 1..Len(indexMap)
        BY <1>t, <2>0, <2>3
      <4>2. Flag[indexMap[op.arg + len + 1]] \in Nat
        BY <1>0, <4>1 DEF ListType, FASAssumption
      <4> QED
        BY <1>0, <3>1, <4>2 DEF TypeOK
    <3>4. TypeOK'
      BY <1>0, <2>0, <2>1, <3>1, <3>2, <3>3 DEF TypeOK, ListType, Op, Idle
    <3>5. PendingInv'
      <4>1. \A m \in 1..len : /\ to_be_removed[m] \in Nat
                              /\ to_be_removed[m] <= max_remove
                              /\ to_be_removed[m] + m <= Len(indexMap)
        <5>1. TAKE m \in 1..len
        <5>2. to_be_removed[m] \in Nat
          BY <1>0 DEF TypeOK
        <5>3. Waiting = 1..len /\ m - i = m
          BY <1>t, <2>0 DEF Waiting
        <5> QED
          BY <1>0, <1>t, <5>2, <5>3 DEF PendingInv
      <4>2. \A m \in 1..(len + 1) : /\ to_be_removed'[m] <= op.arg
                                    /\ to_be_removed'[m] + m <= Len(indexMap)
        <5>1. TAKE m \in 1..(len + 1)
        <5>2. CASE m = len + 1
          BY <1>t, <2>0, <2>3, <3>2, <5>2
        <5>3. CASE m \in 1..len
          BY <1>t, <2>0, <3>2, <4>1, <5>3
        <5> QED
          BY <1>t, <5>2, <5>3
      <4>3. \A m, o \in 1..(len + 1) : m <= o => to_be_removed'[m] <= to_be_removed'[o]
        <5>1. TAKE m, o \in 1..(len + 1)
        <5>2. HAVE m <= o
        <5>3. CASE o = len + 1
          BY <1>t, <3>2, <4>2, <5>3
        <5>4. CASE o \in 1..len
          <6>1. m \in 1..len
            BY <1>t, <5>2, <5>4
          <6> QED
            BY <1>0, <1>t, <3>2, <5>2, <5>4, <6>1 DEF PendingInv
        <5> QED
          BY <1>t, <5>3, <5>4
      <4>4. DOMAIN to_be_removed' = 1..(len + 1) /\ Waiting' = 1..(len + 1)
        BY <1>t, <2>0, <3>2 DEF Waiting
      <4> QED
        BY <1>t, <2>0, <2>1, <3>1, <3>2, <4>2, <4>3, <4>4, SMTT(30) DEF PendingInv
    <3>6. NothingNoted'
      BY <1>t, <3>2 DEF NothingNoted
    <3> QED
      BY <2>1, <3>4, <3>5, <3>6 DEF IndInv
  <2> QED
    BY <1>t, <2>0, <2>2, <2>3
<1>9. CASE Lookup \/ ForAllTxn
  <2>1. UNCHANGED <<list, lazy, i>> /\ pc' = "idle" /\ op' = Idle /\ i = 0
    BY <1>0, <1>9 DEF Lookup, ForAllTxn, Return, PendingInv
  <2>2. ListType' /\ PositionsInv' /\ FlagCountInv'
    BY <2>1, ListUnchanged
  <2>3. TypeOK'
    BY <1>0, <2>1, <2>2, LazyType DEF TypeOK, ListType, Op, Idle
  <2>4. PendingInv' /\ NothingNoted'
    BY <1>0, <1>t, <2>1 DEF PendingInv, Waiting, NothingNoted, lazy, list
  <2> QED
    BY <2>2, <2>3, <2>4 DEF IndInv
<1>10. CASE Clear
  <2>1. DOMAIN backingMap' = {} /\ DOMAIN indexMap' = {} /\ Len(indexMap') = 0
        /\ Len(to_be_removed') = 0 /\ DOMAIN to_be_removed' = {}
        /\ pc' = "idle" /\ op' = op /\ i' = i /\ i = 0
    BY <1>0, <1>10 DEF Clear, PendingInv
  <2>2. TypeOK'
    BY <1>0, <1>10, <2>1 DEF Clear, TypeOK
  <2>3. PositionsInv'
    BY <2>1 DEF PositionsInv
  <2>4. PendingInv' /\ NothingNoted'
    BY <1>t, <1>10, <2>1 DEF Clear, PendingInv, Waiting, NothingNoted
  <2>5. FlagCountInv'
    <3>1. FlagSum(indexMap)' = FlagSum(indexMap')
      BY DEF FlagSum
    <3> QED
      BY <1>10, <3>1, FlagSumEmpty DEF FlagCountInv, Clear
  <2> QED
    BY <2>2, <2>3, <2>4, <2>5 DEF IndInv
<1>11. CASE UNCHANGED vars
  <2>1. UNCHANGED <<list, lazy, pc, op, i>>
    BY <1>11 DEF vars
  <2>2. ListType' /\ PositionsInv' /\ FlagCountInv'
    BY <2>1, ListUnchanged
  <2>3. TypeOK'
    BY <1>0, <2>1, <2>2, LazyType DEF TypeOK, ListType
  <2>4. PendingInv' /\ NothingNoted'
    BY <1>0, <2>1 DEF PendingInv, Waiting, NothingNoted, lazy, list
  <2> QED
    BY <2>2, <2>3, <2>4 DEF IndInv
<1> QED
  BY <1>1, <1>2, <1>3, <1>4, <1>5, <1>6, <1>7, <1>8, <1>9, <1>10, <1>11 DEF Next

----------------------------------------------------------------------------

\* The set keeps its inductive invariant through every sequence of operations.
THEOREM Invariance == Spec => []IndInv
<1>1. Init => IndInv
  BY FASAssumption, InitIndInv
<1>2. IndInv /\ [Next]_vars => IndInv'
  BY FASAssumption, NextIndInv
<1> QED
  BY <1>1, <1>2, PTL DEF Spec

\* Types: no stored position goes below zero, whatever is removed from the front
\* or the back (flaggedarrayset.cpp:248-254).
THEOREM TypeCorrect == Spec => []TypeOK
<1>1. IndInv => TypeOK
  BY DEF IndInv
<1> QED
  BY <1>1, Invariance, PTL

\* The position stored with an element, less offset, is where it stands in the list:
\* the index remove(start, end) returns, which the sender puts into a BLOCK message,
\* is the element's (flaggedarrayset.cpp:221, 319).
THEOREM PositionsCorrect == Spec => []PositionsInv
<1>1. IndInv => PositionsInv
  BY DEF IndInv
<1> QED
  BY <1>1, Invariance, PTL

\* The noted removals are in order and each finds its element inside the list, before
\* and during cleanup_late_remove (flaggedarrayset.cpp:230, 263).
THEOREM PendingCorrect == Spec => []PendingInv
<1>1. IndInv => PendingInv
  BY DEF IndInv
<1> QED
  BY <1>1, Invariance, PTL

----------------------------------------------------------------------------
(***************************************************************************)
(* RemoveAll: the list that a sequence of removals leaves.                 *)
(***************************************************************************)

\* c lists what is left of l after none, one, ... of the removals.
Chain(l, ps, c) ==
  c = [k \in 0..Len(ps) |-> IF k = 0 THEN l ELSE RemoveAt(c[k - 1], ps[k] + 1)]

LEMMA ChainExists ==
  ASSUME NEW l, NEW ps \in Seq(Nat)
  PROVE  \E c : Chain(l, ps, c)
<1> DEFINE Upto(n, c) == c = [k \in 0..n |-> IF k = 0 THEN l ELSE RemoveAt(c[k - 1], ps[k] + 1)]
           S == {n \in Nat : n <= Len(ps) => \E c : Upto(n, c)}
<1>0. Len(ps) \in Nat
  OBVIOUS
<1>1. 0 \in S
  <2>1. Upto(0, [k \in 0..0 |-> l])
    OBVIOUS
  <2> HIDE DEF Upto
  <2> QED
    BY <2>1
<1> HIDE DEF Upto
<1>2. ASSUME NEW n \in Nat, n \in S PROVE n + 1 \in S
  <2> SUFFICES ASSUME n + 1 <= Len(ps) PROVE \E c : Upto(n + 1, c)
    OBVIOUS
  <2>1. PICK c : Upto(n, c)
    BY <1>0, <1>2
  <2> DEFINE d == [k \in 0..(n + 1) |-> IF k = n + 1 THEN RemoveAt(c[n], ps[n + 1] + 1) ELSE c[k]]
  <2>2. ASSUME NEW k \in 0..(n + 1)
        PROVE  d[k] = IF k = 0 THEN l ELSE RemoveAt(d[k - 1], ps[k] + 1)
    <3>1. CASE k = 0
      <4>1. d[0] = c[0] /\ c[0] = l
        BY <2>1 DEF Upto
      <4> QED
        BY <3>1, <4>1
    <3>2. CASE k = n + 1
      <4>1. k # 0 /\ k - 1 = n /\ d[n] = c[n]
        BY <3>2
      <4> QED
        BY <3>2, <4>1
    <3>3. CASE k \in 1..n
      <4>1. k # 0 /\ k \in 0..n /\ k - 1 \in 0..n /\ d[k] = c[k] /\ d[k - 1] = c[k - 1]
        BY <3>3
      <4>2. c[k] = RemoveAt(c[k - 1], ps[k] + 1)
        BY <2>1, <4>1 DEF Upto
      <4> QED
        BY <4>1, <4>2
    <3> QED
      BY <3>1, <3>2, <3>3
  <2>3. d = [k \in 0..(n + 1) |-> d[k]]
    OBVIOUS
  <2> HIDE DEF d
  <2>4. Upto(n + 1, d)
    BY <2>2, <2>3 DEF Upto
  <2> QED
    BY <2>4
<1> HIDE DEF S
<1>3. Len(ps) \in S
  BY <1>0, <1>1, <1>2, SetInduction
<1> QED
  BY <1>0, <1>3 DEF S, Upto, Chain

LEMMA ChainFacts ==
  ASSUME NEW l, NEW ps \in Seq(Nat), NEW c, Chain(l, ps, c)
  PROVE  c[0] = l /\ \A k \in 1..Len(ps) : c[k] = RemoveAt(c[k - 1], ps[k] + 1)
<1>0. Len(ps) \in Nat
  OBVIOUS
<1> QED
  BY <1>0, SMTT(30) DEF Chain

\* RemoveAll is the last list of the chain, whichever way the chain was found.
LEMMA RemoveAllIsLast ==
  ASSUME NEW l, NEW ps \in Seq(Nat), NEW c, c[0] = l,
         \A k \in 1..Len(ps) : c[k] = RemoveAt(c[k - 1], ps[k] + 1)
  PROVE  RemoveAll(l, ps) = c[Len(ps)]
<1>0. Len(ps) \in Nat
  OBVIOUS
<1>1. PICK left : Chain(l, ps, left) /\ RemoveAll(l, ps) = left[Len(ps)]
  <2> DEFINE h == CHOOSE h : Chain(l, ps, h)
  <2>1. Chain(l, ps, h)
    BY ChainExists
  <2>2. RemoveAll(l, ps) = h[Len(ps)]
    BY DEF RemoveAll, h, Chain
  <2> HIDE DEF h
  <2> QED
    BY <2>1, <2>2
<1>2. RemoveAll(l, ps) = left[Len(ps)]
  BY <1>1
<1>3. left[0] = l /\ \A k \in 1..Len(ps) : left[k] = RemoveAt(left[k - 1], ps[k] + 1)
  <2>1. left = [k \in 0..Len(ps) |-> IF k = 0 THEN l ELSE RemoveAt(left[k - 1], ps[k] + 1)]
    BY <1>1 DEF Chain
  <2>2. 0 \in 0..Len(ps) /\ \A k \in 1..Len(ps) : k \in 0..Len(ps) /\ k # 0
    BY <1>0
  <2> QED
    BY <2>1, <2>2, Zenon
<1> DEFINE S == {n \in Nat : n <= Len(ps) => left[n] = c[n]}
<1>4. 0 \in S
  BY <1>3
<1>5. ASSUME NEW n \in Nat, n \in S PROVE n + 1 \in S
  <2> SUFFICES ASSUME n + 1 <= Len(ps) PROVE left[n + 1] = c[n + 1]
    OBVIOUS
  <2>1. n + 1 \in 1..Len(ps) /\ (n + 1) - 1 = n /\ n <= Len(ps)
    BY <1>0
  <2> QED
    BY <1>3, <1>5, <2>1
<1> HIDE DEF S
<1>6. Len(ps) \in S
  BY <1>0, <1>4, <1>5, SetInduction
<1> QED
  BY <1>0, <1>2, <1>6 DEF S

LEMMA RemoveNone == ASSUME NEW l PROVE RemoveAll(l, <<>>) = l
<1>1. <<>> \in Seq(Nat) /\ Len(<<>>) = 0
  OBVIOUS
<1> DEFINE c == [k \in 0..0 |-> l]
<1>2. c[0] = l /\ \A k \in 1..Len(<<>>) : c[k] = RemoveAt(c[k - 1], <<>>[k] + 1)
  BY <1>1
<1> HIDE DEF c
<1>3. RemoveAll(l, <<>>) = c[Len(<<>>)]
  BY <1>1, <1>2, RemoveAllIsLast
<1> QED
  BY <1>1, <1>2, <1>3

\* One removal more, at the end of the sequence.
LEMMA RemoveOneMore ==
  ASSUME NEW l, NEW ps \in Seq(Nat), NEW p \in Nat
  PROVE  RemoveAll(l, Append(ps, p)) = RemoveAt(RemoveAll(l, ps), p + 1)
<1> DEFINE qs == Append(ps, p)  n == Len(ps)
<1>1. /\ qs \in Seq(Nat) /\ Len(qs) = n + 1 /\ n \in Nat
      /\ qs[n + 1] = p /\ \A k \in 1..n : qs[k] = ps[k]
  OBVIOUS
<1> HIDE DEF qs
<1>2. PICK c : Chain(l, qs, c)
  BY <1>1, ChainExists
<1>3. c[0] = l /\ \A k \in 1..(n + 1) : c[k] = RemoveAt(c[k - 1], qs[k] + 1)
  BY <1>1, <1>2, ChainFacts, SMTT(30)
<1>4. \A k \in 1..n : c[k] = RemoveAt(c[k - 1], ps[k] + 1)
  BY <1>1, <1>3
<1>5. RemoveAll(l, ps) = c[n]
  BY <1>3, <1>4, RemoveAllIsLast
<1>6. RemoveAll(l, qs) = c[n + 1]
  BY <1>1, <1>3, RemoveAllIsLast, SMTT(30)
<1>7. c[n + 1] = RemoveAt(c[n], p + 1)
  <2>1. n + 1 \in 1..(n + 1) /\ (n + 1) - 1 = n
    BY <1>1
  <2> QED
    BY <1>1, <1>3, <2>1
<1> QED
  BY <1>5, <1>6, <1>7 DEF qs

\* The first of the removals, done.
LEMMA FirstRemoved ==
  ASSUME NEW l, NEW ps \in Seq(Nat), ps # <<>>
  PROVE  RemoveAll(l, ps) = RemoveAll(RemoveAt(l, ps[1] + 1), Tail(ps))
<1> DEFINE qs == Tail(ps)  n == Len(ps)
<1>1. /\ qs \in Seq(Nat) /\ Len(qs) = n - 1 /\ n \in Nat /\ n > 0
      /\ \A k \in 1..(n - 1) : qs[k] = ps[k + 1]
  OBVIOUS
<1> HIDE DEF qs
<1>2. PICK c : Chain(l, ps, c)
  BY ChainExists
<1>3. c[0] = l /\ \A k \in 1..n : c[k] = RemoveAt(c[k - 1], ps[k] + 1)
  BY <1>2, ChainFacts
<1> HIDE DEF n
<1> DEFINE d == [k \in 0..(n - 1) |-> c[k + 1]]
<1>4. d[0] = RemoveAt(l, ps[1] + 1)
  <2>1. d[0] = c[1] /\ 1 \in 1..n /\ 1 - 1 = 0
    BY <1>1
  <2> QED
    BY <1>3, <2>1
<1>5. ASSUME NEW k \in 1..(n - 1) PROVE d[k] = RemoveAt(d[k - 1], qs[k] + 1)
  <2>1. d[k] = c[k + 1] /\ d[k - 1] = c[k] /\ k + 1 \in 1..n /\ (k + 1) - 1 = k
    BY <1>1
  <2>2. c[k + 1] = RemoveAt(c[(k + 1) - 1], ps[k + 1] + 1)
    BY <1>3, <2>1
  <2> QED
    BY <1>1, <2>1, <2>2
<1>6. d[n - 1] = c[n]
  BY <1>1
<1> HIDE DEF d
<1>7. RemoveAll(RemoveAt(l, ps[1] + 1), qs) = d[n - 1]
  <2>1. qs \in Seq(Nat) /\ \A k \in 1..Len(qs) : d[k] = RemoveAt(d[k - 1], qs[k] + 1)
    BY <1>1, <1>5
  <2>2. RemoveAll(RemoveAt(l, ps[1] + 1), qs) = d[Len(qs)]
    BY <1>4, <2>1, RemoveAllIsLast, Zenon
  <2> QED
    BY <1>1, <2>2
<1>8. RemoveAll(l, ps) = c[n]
  BY <1>3, RemoveAllIsLast DEF n
<1> QED
  BY <1>6, <1>7, <1>8 DEF qs

\* Positions that are noted in order, and lie in the list they are noted for.
InOrder(l, ps) ==
  /\ \A m \in 1..Len(ps) : ps[m] + m <= Len(l)
  /\ \A m, n \in 1..Len(ps) : m <= n => ps[m] <= ps[n]

\* From the last noted position on, the list that is left is the old one, displaced by
\* the number of removals: the reason that remove(index) may look up index plus the
\* number of noted removals, and what sums of flags go with them.
LEMMA RemoveAllFacts ==
  ASSUME FASAssumption, NEW l \in Seq(Elem), NEW ps \in Seq(Nat), InOrder(l, ps)
  PROVE  /\ RemoveAll(l, ps) \in Seq(Elem) /\ Len(RemoveAll(l, ps)) = Len(l) - Len(ps)
         /\ \A j \in Nat : (\A m \in 1..Len(ps) : ps[m] <= j) /\ j + Len(ps) < Len(l) =>
              RemoveAll(l, ps)[j + 1] = l[j + Len(ps) + 1]
         /\ FlagSum(RemoveAll(l, ps))
              = FlagSum(l) - FlagSum([m \in 1..Len(ps) |-> l[ps[m] + m]])
<1> DEFINE N == Len(ps)  x == [m \in 1..N |-> l[ps[m] + m]]
<1>0. /\ N \in Nat /\ Len(l) \in Nat /\ (\A m \in 1..N : ps[m] \in Nat)
      /\ (\A m \in 1..N : ps[m] + m <= Len(l))
      /\ \A m, n \in 1..N : m <= n => ps[m] <= ps[n]
  BY DEF InOrder
<1>1. PICK c : Chain(l, ps, c)
  BY ChainExists
<1>2. c[0] = l /\ \A k \in 1..N : c[k] = RemoveAt(c[k - 1], ps[k] + 1)
  BY <1>1, ChainFacts
<1>3. RemoveAll(l, ps) = c[N]
  BY <1>2, RemoveAllIsLast
<1>4. \A m \in 1..N : ps[m] + m \in 1..Len(l) /\ x[m] = l[ps[m] + m] /\ x[m] \in Elem
  BY <1>0
<1>5. x \in Seq(Elem) /\ Len(x) = N
  <2>1. x \in [1..N -> Elem] /\ DOMAIN x = 1..N
    BY <1>4
  <2> HIDE DEF N, x
  <2>2. x \in Seq(Elem)
    BY <1>0, <2>1, SeqDef
  <2> QED
    BY <1>0, <2>1, <2>2, LenProperties
<1> HIDE DEF N, x
<1>6. /\ FlagsOf(x) \in Seq(Int) /\ Len(FlagsOf(x)) = N /\ FlagSum(x) = SumSeq(FlagsOf(x))
      /\ \A m \in 1..N : FlagsOf(x)[m] = Flag[x[m]] /\ Flag[x[m]] \in Nat
  BY <1>5, FlagsOfFacts
<1>7. PICK g : PartialSums(FlagsOf(x), g)
  BY <1>6, PartialSumsExist
<1>8. /\ g \in [0..N -> Int] /\ g[0] = 0
      /\ \A m \in 1..N : g[m] = g[m - 1] + Flag[x[m]]
  BY <1>6, <1>7 DEF PartialSums
<1>9. FlagSum(x) = g[N]
  BY <1>6, <1>7, SumIsLastPartialSum
<1> DEFINE P(n) ==
      /\ c[n] \in Seq(Elem) /\ Len(c[n]) = Len(l) - n
      /\ \A j \in Nat : (n > 0 => ps[n] <= j) /\ j + n < Len(l) => c[n][j + 1] = l[j + n + 1]
      /\ FlagSum(c[n]) = FlagSum(l) - g[n]
    S == {n \in Nat : n <= N => P(n)}
<1>10. P(0)
  <2>1. FlagSum(l) \in Nat
    BY FlagsOfFacts
  <2>2. FlagSum(l) - 0 = FlagSum(l) /\ Len(l) - 0 = Len(l) /\ \A j \in Nat : j + 0 = j
    BY <1>0, <2>1
  <2> QED
    BY <1>2, <1>8, <2>2
<1> HIDE DEF P
<1>11. ASSUME NEW n \in Nat, n + 1 <= N, P(n) PROVE P(n + 1)
  <2>p. /\ c[n] \in Seq(Elem) /\ Len(c[n]) = Len(l) - n
        /\ \A j \in Nat : (n > 0 => ps[n] <= j) /\ j + n < Len(l) => c[n][j + 1] = l[j + n + 1]
        /\ FlagSum(c[n]) = FlagSum(l) - g[n]
    BY <1>11 DEF P
  <2>0. /\ n + 1 \in 1..N /\ (n + 1) - 1 = n /\ n \in 0..N /\ (n > 0 => n \in 1..N)
        /\ n + 1 > 0
    BY <1>0, <1>11
  <2> DEFINE p == ps[n + 1]
  <2>1. /\ p \in Nat /\ p + (n + 1) <= Len(l) /\ (n > 0 => ps[n] <= p) /\ (n > 0 => ps[n] \in Nat)
    BY <1>0, <2>0, SMTT(30)
  <2>2. c[n + 1] = RemoveAt(c[n], p + 1)
    BY <1>2, <2>0
  <2> HIDE DEF p
  <2>3. p + 1 \in 1..Len(c[n]) /\ Len(c[n]) = Len(l) - n
    BY <1>0, <2>p, <2>1
  <2>4. /\ c[n + 1] \in Seq(Elem) /\ Len(c[n + 1]) = Len(c[n]) - 1
        /\ \A k \in 1..(Len(c[n]) - 1) : c[n + 1][k] = IF k < p + 1 THEN c[n][k] ELSE c[n][k + 1]
    BY <2>p, <2>2, <2>3, RemoveAtFacts, ZenonT(60)
  <2>5. FlagSum(c[n + 1]) = FlagSum(c[n]) - Flag[c[n][p + 1]]
    BY <2>p, <2>2, <2>3, FlagSumRemove
  <2>6. c[n][p + 1] = x[n + 1]
    <3>1. c[n][p + 1] = l[p + n + 1]
      <4>1. p + n < Len(l)
        BY <1>0, <2>1
      <4> QED
        BY <2>p, <2>1, <4>1
    <3>2. x[n + 1] = l[p + (n + 1)]
      BY <1>4, <2>0 DEF p
    <3>3. p + (n + 1) = p + n + 1
      BY <2>1
    <3> QED
      BY <3>1, <3>2, <3>3
  <2>7. FlagSum(c[n + 1]) = FlagSum(l) - g[n + 1]
    <3>1. g[n + 1] = g[n] + Flag[x[n + 1]]
      BY <1>8, <2>0
    <3>2. g[n] \in Int /\ Flag[x[n + 1]] \in Int /\ FlagSum(l) \in Int
      <4>1. FlagSum(l) \in Nat
        BY FlagsOfFacts
      <4>2. Flag[x[n + 1]] \in Nat
        BY <1>6, <2>0
      <4>3. g[n] \in Int
        BY <1>8, <2>0
      <4> QED
        BY <4>1, <4>2, <4>3
    <3>3. FlagSum(c[n + 1]) = (FlagSum(l) - g[n]) - Flag[x[n + 1]]
      BY <2>p, <2>5, <2>6
    <3> QED
      BY <3>1, <3>2, <3>3
  <2>8. ASSUME NEW j \in Nat, p <= j, j + (n + 1) < Len(l)
        PROVE  c[n + 1][j + 1] = l[j + (n + 1) + 1]
    <3>1. j + 1 \in 1..(Len(c[n]) - 1) /\ ~(j + 1 < p + 1)
      BY <1>0, <2>1, <2>3, <2>8
    <3>2. c[n + 1][j + 1] = c[n][(j + 1) + 1]
      BY <2>4, <3>1
    <3>3. j + 1 \in Nat /\ (n > 0 => ps[n] <= j + 1) /\ (j + 1) + n < Len(l)
      BY <1>0, <2>1, <2>8
    <3>4. c[n][(j + 1) + 1] = l[(j + 1) + n + 1]
      BY <2>p, <3>3
    <3>5. (j + 1) + n + 1 = j + (n + 1) + 1
      OBVIOUS
    <3> QED
      BY <3>2, <3>4, <3>5
  <2>9. Len(c[n + 1]) = Len(l) - (n + 1)
    BY <1>0, <2>3, <2>4
  <2> QED
    BY <2>0, <2>4, <2>7, <2>8, <2>9 DEF P, p
<1>12. \A n \in Nat : n \in S
  <2>1. 0 \in S
    BY <1>10
  <2>2. ASSUME NEW n \in Nat, n \in S PROVE n + 1 \in S
    BY <1>0, <1>11, <2>2
  <2> HIDE DEF S
  <2> QED
    BY <2>1, <2>2, SetInduction
<1>13. P(N)
  BY <1>0, <1>12
<1>14. ASSUME NEW j \in Nat, \A m \in 1..N : ps[m] <= j, j + N < Len(l)
       PROVE  c[N][j + 1] = l[j + N + 1]
  <2>1. N > 0 => ps[N] <= j
    BY <1>0, <1>14
  <2> QED
    BY <1>13, <1>14, <2>1 DEF P
<1>15. FlagSum(c[N]) = FlagSum(l) - FlagSum(x)
  BY <1>9, <1>13 DEF P
<1>16. c[N] \in Seq(Elem) /\ Len(c[N]) = Len(l) - N
  BY <1>13 DEF P
<1> HIDE DEF P
<1>17. RemoveAll(l, ps) \in Seq(Elem) /\ Len(RemoveAll(l, ps)) = Len(l) - Len(ps)
  BY <1>3, <1>16 DEF N
<1>18. \A j \in Nat : (\A m \in 1..Len(ps) : ps[m] <= j) /\ j + Len(ps) < Len(l) =>
         RemoveAll(l, ps)[j + 1] = l[j + Len(ps) + 1]
  <2> SUFFICES ASSUME NEW j \in Nat, \A m \in 1..Len(ps) : ps[m] <= j, j + Len(ps) < Len(l)
               PROVE  RemoveAll(l, ps)[j + 1] = l[j + Len(ps) + 1]
    OBVIOUS
  <2>1. (\A m \in 1..N : ps[m] <= j) /\ j + N < Len(l)
    BY DEF N
  <2>2. c[N][j + 1] = l[j + N + 1]
    BY <1>14, <2>1
  <2> QED
    BY <1>3, <2>2 DEF N
<1>19. FlagSum(RemoveAll(l, ps)) = FlagSum(l) - FlagSum([m \in 1..Len(ps) |-> l[ps[m] + m]])
  <2>1. x = [m \in 1..Len(ps) |-> l[ps[m] + m]]
    BY DEF x, N
  <2> QED
    BY <1>3, <1>15, <2>1, Zenon
<1> QED
  BY <1>17, <1>18, <1>19

----------------------------------------------------------------------------
(***************************************************************************)
(* The list the callers reckon with.                                       *)
(***************************************************************************)
Rest == SubSeq(to_be_removed, i + 1, Len(to_be_removed))

\* The elements whose removal is noted are those the counter of their flags stands for.
NotedInv == pc # "cleanup" => flags_to_remove = FlagSum(Noted)

\* Whatever removals are waiting, the list is within its limits, but while add evicts.
WithinInv == pc # "evict" => Len(View) <= maxSize /\ FlagSum(View) <= maxFlagCount

EvictInv ==
  pc = "evict" => /\ op.name = "add"
                  /\ Len(indexMap) <= maxSize + 1
                  /\ FlagSum(indexMap) <= maxFlagCount + Flag[op.arg]

FullInv == IndInv /\ NotedInv /\ WithinInv /\ EvictInv

LEMMA Priming ==
  /\ FlagSum(View)' = FlagSum(View') /\ FlagSum(Noted)' = FlagSum(Noted')
  /\ FlagSum(indexMap)' = FlagSum(indexMap')
  /\ View' = RemoveAll(indexMap', SubSeq(to_be_removed', i' + 1, Len(to_be_removed')))
BY DEF FlagSum, View, RemoveAll

LEMMA Frame ==
  ASSUME UNCHANGED <<indexMap, to_be_removed, i>>
  PROVE  /\ View' = View /\ Noted' = Noted
         /\ FlagSum(View)' = FlagSum(View) /\ FlagSum(Noted)' = FlagSum(Noted)
         /\ FlagSum(indexMap)' = FlagSum(indexMap)
<1>1. View' = View
  BY Priming DEF View
<1>2. Noted' = Noted
  BY DEF Noted
<1> QED
  BY <1>1, <1>2, Priming

LEMMA RestFacts ==
  ASSUME IndInv
  PROVE  /\ Rest \in Seq(Nat) /\ Len(Rest) = Len(to_be_removed) - i /\ Len(to_be_removed) \in Nat
         /\ i \in Nat /\ i <= Len(to_be_removed)
         /\ \A m \in 1..Len(Rest) : Rest[m] = to_be_removed[m + i]
         /\ InOrder(indexMap, Rest)
<1>0. /\ to_be_removed \in Seq(Nat) /\ i \in Nat /\ i <= Len(to_be_removed)
      /\ indexMap \in Seq(Elem) /\ Len(to_be_removed) \in Nat /\ Len(indexMap) \in Nat
  BY DEF IndInv, TypeOK, PendingInv
<1>1. /\ Rest \in Seq(Nat) /\ Len(Rest) = Len(to_be_removed) - i
      /\ \A m \in 1..(Len(to_be_removed) - i) : Rest[m] = to_be_removed[m + i]
  <2>1. /\ SubSeq(to_be_removed, i + 1, Len(to_be_removed)) \in Seq(Nat)
        /\ Len(SubSeq(to_be_removed, i + 1, Len(to_be_removed))) = Len(to_be_removed) - i
    BY <1>0
  <2>2. \A m \in 1..(Len(to_be_removed) - i) :
          SubSeq(to_be_removed, i + 1, Len(to_be_removed))[m] = to_be_removed[m + i]
    BY <1>0
  <2> QED
    BY <2>1, <2>2 DEF Rest
<1>2. ASSUME NEW m \in 1..Len(Rest) PROVE Rest[m] + m <= Len(indexMap)
  <2>1. m + i \in Waiting /\ (m + i) - i = m
    BY <1>0, <1>1, SMTT(30) DEF Waiting
  <2>2. to_be_removed[m + i] + ((m + i) - i) <= Len(indexMap)
    BY <2>1 DEF IndInv, PendingInv
  <2> QED
    BY <1>1, <2>1, <2>2
<1>3. ASSUME NEW m \in 1..Len(Rest), NEW n \in 1..Len(Rest), m <= n PROVE Rest[m] <= Rest[n]
  <2>1. m + i \in DOMAIN to_be_removed /\ n + i \in DOMAIN to_be_removed /\ m + i <= n + i
    BY <1>0, <1>1, <1>3
  <2>2. to_be_removed[m + i] <= to_be_removed[n + i]
    BY <2>1 DEF IndInv, PendingInv
  <2> QED
    BY <1>1, <2>2
<1>4. InOrder(indexMap, Rest)
  BY <1>2, <1>3 DEF InOrder
<1> QED
  BY <1>0, <1>1, <1>4

LEMMA ViewFacts ==
  ASSUME FASAssumption, IndInv
  PROVE  /\ View \in Seq(Elem) /\ Len(View) = Len(indexMap) - (Len(to_be_removed) - i)
         /\ FlagSum(View) \in Nat /\ FlagSum(indexMap) \in Nat
         /\ i = Len(to_be_removed) => View = indexMap
<1>1. /\ Rest \in Seq(Nat) /\ Len(Rest) = Len(to_be_removed) - i /\ Len(to_be_removed) \in Nat
      /\ InOrder(indexMap, Rest) /\ indexMap \in Seq(Elem)
  BY RestFacts DEF IndInv, TypeOK
<1>2. View = RemoveAll(indexMap, Rest)
  BY DEF View, Rest
<1>3. View \in Seq(Elem) /\ Len(View) = Len(indexMap) - Len(Rest)
  BY <1>1, <1>2, RemoveAllFacts
<1>4. FlagSum(View) \in Nat /\ FlagSum(indexMap) \in Nat
  BY <1>1, <1>3, FlagsOfFacts
<1>5. ASSUME i = Len(to_be_removed) PROVE View = indexMap
  <2>1. Len(Rest) = 0
    BY <1>1, <1>5
  <2>2. Rest = <<>>
    BY <1>1, <2>1, EmptySeq
  <2> QED
    BY <1>2, <2>2, RemoveNone
<1> QED
  BY <1>1, <1>3, <1>4, <1>5

\* Between operations: what is noted, and where an element stands behind it.
LEMMA NotedFacts ==
  ASSUME FASAssumption, IndInv, i = 0
  PROVE  /\ View = RemoveAll(indexMap, to_be_removed)
         /\ Noted \in Seq(Elem) /\ Len(Noted) = Len(to_be_removed)
         /\ FlagSum(Noted) \in Nat
         /\ FlagSum(View) = FlagSum(indexMap) - FlagSum(Noted)
         /\ \A j \in Nat : j >= max_remove /\ j + Len(to_be_removed) < Len(indexMap) =>
              View[j + 1] = indexMap[j + Len(to_be_removed) + 1]
<1>0. /\ to_be_removed \in Seq(Nat) /\ indexMap \in Seq(Elem) /\ Len(to_be_removed) \in Nat
      /\ Len(indexMap) \in Nat
      /\ (\A m \in 1..Len(to_be_removed) : to_be_removed[m] \in Nat)
  BY DEF IndInv, TypeOK
<1>1. Rest = to_be_removed
  <2>1. Rest \in Seq(Nat) /\ Len(Rest) = Len(to_be_removed)
        /\ \A m \in 1..Len(Rest) : Rest[m] = to_be_removed[m]
    BY <1>0, RestFacts
  <2> QED
    BY <1>0, <2>1, SeqEqual
<1>2. View = RemoveAll(indexMap, to_be_removed) /\ InOrder(indexMap, to_be_removed)
  BY <1>1, RestFacts DEF View, Rest
<1>3. /\ FlagSum(View) = FlagSum(indexMap) - FlagSum(Noted)
      /\ \A j \in Nat :
           (\A m \in 1..Len(to_be_removed) : to_be_removed[m] <= j)
              /\ j + Len(to_be_removed) < Len(indexMap)
           => View[j + 1] = indexMap[j + Len(to_be_removed) + 1]
  BY <1>0, <1>2, RemoveAllFacts DEF Noted
<1>4. Noted \in Seq(Elem) /\ Len(Noted) = Len(to_be_removed)
  <2>1. \A m \in 1..Len(to_be_removed) : to_be_removed[m] + m \in 1..Len(indexMap)
    BY <1>0, <1>2 DEF InOrder
  <2>2. Noted \in [1..Len(to_be_removed) -> Elem] /\ DOMAIN Noted = 1..Len(to_be_removed)
    BY <1>0, <2>1 DEF Noted
  <2>n. Len(to_be_removed) \in Nat /\ Noted \in [1..Len(to_be_removed) -> Elem]
    BY <1>0, <2>2
  <2>3. Noted \in Seq(Elem)
    BY <2>n, SeqDef
  <2> QED
    BY <1>0, <2>2, <2>3, LenProperties
<1>5. ASSUME NEW j \in Nat, j >= max_remove, NEW m \in 1..Len(to_be_removed)
      PROVE  to_be_removed[m] <= j
  <2>1. to_be_removed[m] <= max_remove /\ max_remove \in Nat
    BY <1>0 DEF IndInv, PendingInv, TypeOK
  <2> QED
    BY <1>0, <1>5, <2>1
<1>6. FlagSum(Noted) \in Nat
  BY <1>4, FlagsOfFacts
<1> QED
  BY <1>2, <1>3, <1>4, <1>5, <1>6

\* size() and flagCount(), and so the limits, speak of that list.
LEMMA LimitFacts ==
  ASSUME FASAssumption, IndInv, i = 0, flags_to_remove = FlagSum(Noted)
  PROVE  /\ size = Len(View) /\ flagCount = FlagSum(View)
         /\ OverLimit <=> ~(Len(View) <= maxSize /\ FlagSum(View) <= maxFlagCount)
<1>0. /\ Len(View) \in Nat /\ FlagSum(View) \in Nat /\ maxSize \in Nat /\ maxFlagCount \in Nat
      /\ Len(to_be_removed) \in Nat /\ Len(indexMap) \in Nat
      /\ Len(View) = Len(indexMap) - (Len(to_be_removed) - i)
  <2>1. View \in Seq(Elem) /\ FlagSum(View) \in Nat
        /\ Len(View) = Len(indexMap) - (Len(to_be_removed) - i)
    BY ViewFacts
  <2> QED
    BY <2>1 DEF FASAssumption, IndInv, TypeOK
<1>1. size = Len(View)
  <2>1. Cardinality(DOMAIN backingMap) = Len(indexMap)
    BY SameSize DEF IndInv, TypeOK, ListType
  <2> QED
    BY <1>0, <2>1 DEF size
<1>2. flagCount = FlagSum(View)
  <2>1. FlagSum(View) = FlagSum(indexMap) - FlagSum(Noted)
    BY NotedFacts
  <2> QED
    BY <2>1 DEF flagCount, IndInv, FlagCountInv
<1> QED
  BY <1>0, <1>1, <1>2 DEF OverLimit

\* The abstract list counts the same flags.
LEMMA CacheWithin == Cache!Within <=> Len(View) <= maxSize /\ FlagSum(View) <= maxFlagCount
<1>1. ASSUME NEW q PROVE Cache!SumSeq(q) = SumSeq(q)
  BY DEF Cache!SumSeq, SumSeq
<1>2. Cache!FlagSum(View) = FlagSum(View)
  BY <1>1 DEF Cache!FlagSum, FlagSum
<1> QED
  BY <1>2 DEF Cache!Within

LEMMA CacheOps ==
  ASSUME NEW s, NEW k, NEW e
  PROVE  /\ Cache!RemoveAt(s, k) = RemoveAt(s, k)
         /\ e \in Cache!ToSet(s) <=> \E j \in DOMAIN s : s[j] = e
BY DEF Cache!RemoveAt, RemoveAt, Cache!ToSet

----------------------------------------------------------------------------
(***************************************************************************)
(* Every step is one of the eager list, or changes nothing of it.          *)
(***************************************************************************)
StepGoal == NotedInv' /\ WithinInv' /\ EvictInv' /\ [Cache!Next]_Cache!vars

LEMMA RefineBegin ==
  ASSUME FASAssumption, FullInv, Begin PROVE StepGoal
<1>1. /\ UNCHANGED <<indexMap, to_be_removed, flags_to_remove, res>> /\ i' = 0
      /\ pc = "idle" /\ pc' \in {"body", "cleanup"}
  BY DEF Begin, list, lazy
<1>2. i = 0
  BY <1>1 DEF FullInv, IndInv, PendingInv
<1>3. /\ View' = View /\ Noted' = Noted
      /\ FlagSum(View)' = FlagSum(View) /\ FlagSum(Noted)' = FlagSum(Noted)
  BY <1>1, <1>2, Frame
<1>4. NotedInv' /\ WithinInv' /\ EvictInv'
  BY <1>1, <1>3 DEF FullInv, NotedInv, WithinInv, EvictInv
<1> QED
  BY <1>1, <1>3, <1>4 DEF StepGoal, Cache!vars

\* One iteration of the cleanup takes the first of the waiting removals.
LEMMA RefineCleanupStep ==
  ASSUME FASAssumption, FullInv, CleanupStep PROVE StepGoal
<1>1. /\ UNCHANGED <<to_be_removed, flags_to_remove, res>> /\ i' = i + 1
      /\ pc = "cleanup" /\ pc' = "cleanup" /\ i < Len(to_be_removed)
      /\ indexMap' = RemoveAt(indexMap, to_be_removed[i + 1] + 1)
  BY DEF CleanupStep, lazy, remove_
<1>2. /\ Rest \in Seq(Nat) /\ Len(Rest) = Len(to_be_removed) - i /\ Len(to_be_removed) \in Nat
      /\ i \in Nat /\ to_be_removed \in Seq(Nat)
      /\ \A m \in 1..Len(Rest) : Rest[m] = to_be_removed[m + i]
  BY RestFacts DEF FullInv, IndInv, TypeOK
<1>3. Rest # <<>> /\ Rest[1] = to_be_removed[i + 1]
  <2>1. 1 \in 1..Len(Rest) /\ 1 + i = i + 1 /\ Len(Rest) # 0
    BY <1>1, <1>2
  <2> QED
    BY <1>2, <2>1
<1> DEFINE r == SubSeq(to_be_removed, (i + 1) + 1, Len(to_be_removed))
<1>4. r = Tail(Rest)
  <2>1. r \in Seq(Nat) /\ Len(r) = Len(to_be_removed) - (i + 1)
    BY <1>1, <1>2, SMTT(30)
  <2>2. \A m \in 1..(Len(to_be_removed) - (i + 1)) : r[m] = to_be_removed[m + (i + 1)]
    BY <1>1, <1>2
  <2>3. /\ Tail(Rest) \in Seq(Nat) /\ Len(Tail(Rest)) = Len(Rest) - 1
        /\ \A m \in 1..(Len(Rest) - 1) : Tail(Rest)[m] = Rest[m + 1]
    BY <1>2, <1>3
  <2>4. ASSUME NEW m \in 1..(Len(to_be_removed) - (i + 1)) PROVE r[m] = Tail(Rest)[m]
    <3>1. m \in 1..(Len(Rest) - 1) /\ m + 1 \in 1..Len(Rest) /\ (m + 1) + i = m + (i + 1)
      BY <1>2
    <3> HIDE DEF r
    <3> QED
      BY <1>2, <2>2, <2>3, <3>1
  <2> HIDE DEF r
  <2>5. Len(Tail(Rest)) = Len(r)
    BY <1>2, <2>1, <2>3
  <2> QED
    BY <2>1, <2>3, <2>4, <2>5, SeqEqual
<1>5. View' = RemoveAll(indexMap', r)
  BY <1>1, Priming
<1> HIDE DEF r
<1>6. RemoveAll(indexMap, Rest) = RemoveAll(RemoveAt(indexMap, Rest[1] + 1), Tail(Rest))
  BY <1>2, <1>3, FirstRemoved, Zenon
<1>7. View' = View
  BY <1>1, <1>3, <1>4, <1>5, <1>6 DEF View, Rest
<1>8. NotedInv' /\ WithinInv' /\ EvictInv'
  BY <1>1, <1>7, Priming DEF FullInv, NotedInv, WithinInv, EvictInv
<1> QED
  BY <1>1, <1>7, <1>8 DEF StepGoal, Cache!vars

LEMMA NothingLeft ==
  ASSUME to_be_removed' = <<>>, i' = 0
  PROVE  View' = indexMap' /\ Noted' = <<>> /\ FlagSum(Noted)' = 0
<1>1. SubSeq(to_be_removed', i' + 1, Len(to_be_removed')) = <<>>
  OBVIOUS
<1>2. View' = indexMap'
  BY <1>1, Priming, RemoveNone
<1>3. Noted' = <<>>
  BY DEF Noted
<1> QED
  BY <1>2, <1>3, Priming, FlagSumEmpty

LEMMA RefineCleanupDone ==
  ASSUME FASAssumption, FullInv, CleanupDone PROVE StepGoal
<1>1. /\ to_be_removed' = <<>> /\ i' = 0 /\ flags_to_remove' = 0 /\ UNCHANGED <<indexMap, res>>
      /\ pc = "cleanup" /\ pc' = "body" /\ i = Len(to_be_removed)
  BY DEF CleanupDone, list
<1>2. View = indexMap
  BY <1>1, ViewFacts DEF FullInv
<1>3. View' = View /\ FlagSum(Noted)' = 0
  BY <1>1, <1>2, NothingLeft
<1>4. NotedInv' /\ WithinInv' /\ EvictInv'
  BY <1>1, <1>3, Priming DEF FullInv, NotedInv, WithinInv, EvictInv
<1> QED
  BY <1>1, <1>3, <1>4 DEF StepGoal, Cache!vars

\* In the body of an operation other than remove(index) nothing is waiting.
LEMMA BodyFacts ==
  ASSUME FASAssumption, FullInv, pc = "evict" \/ (pc = "body" /\ op.name # "remove_index")
  PROVE  /\ i = 0 /\ to_be_removed = <<>> /\ View = indexMap /\ flags_to_remove = 0
         /\ indexMap \in Seq(Elem) /\ Len(indexMap) \in Nat /\ DOMAIN indexMap = 1..Len(indexMap)
         /\ FlagSum(indexMap) \in Nat /\ Noted = <<>>
<1>1. i = 0 /\ to_be_removed = <<>> /\ pc # "cleanup"
  BY DEF FullInv, IndInv, PendingInv
<1>2. View = indexMap /\ FlagSum(indexMap) \in Nat
  BY <1>1, ViewFacts DEF FullInv
<1>3. Noted = <<>>
  BY <1>1 DEF Noted
<1>4. flags_to_remove = 0
  BY <1>1, <1>3, FlagSumEmpty DEF FullInv, NotedInv
<1> QED
  BY <1>1, <1>2, <1>3, <1>4 DEF FullInv, IndInv, TypeOK

\* An element is in the list if backingMap has it.
LEMMA Membership ==
  ASSUME IndInv, NEW e
  PROVE  (\E k \in DOMAIN indexMap : indexMap[k] = e) <=> e \in DOMAIN backingMap
BY DEF IndInv, PositionsInv

LEMMA RefineAdd ==
  ASSUME FASAssumption, FullInv, Add PROVE StepGoal
<1>0. /\ i = 0 /\ to_be_removed = <<>> /\ View = indexMap /\ flags_to_remove = 0
      /\ indexMap \in Seq(Elem) /\ Len(indexMap) \in Nat
      /\ FlagSum(indexMap) \in Nat /\ Noted = <<>> /\ pc = "body"
      /\ op.name = "add" /\ op.arg \in Elem
      /\ UNCHANGED <<to_be_removed, flags_to_remove, i>> /\ res' = <<"none">>
  BY BodyFacts DEF Add, Return, lazy, FullInv, IndInv, TypeOK, Op
<1>1. Cache!Within /\ Len(indexMap) <= maxSize /\ FlagSum(indexMap) <= maxFlagCount
  BY <1>0, CacheWithin DEF FullInv, WithinInv
<1>2. View' = indexMap' /\ FlagSum(Noted)' = 0 /\ flags_to_remove' = 0
  BY <1>0, NothingLeft
<1>3. CASE op.arg \in DOMAIN backingMap
  <2>1. UNCHANGED indexMap /\ pc' = "idle"
    BY <1>3 DEF Add, Return, list
  <2>2. NotedInv' /\ WithinInv' /\ EvictInv'
    BY <1>0, <1>1, <1>2, <2>1, Priming DEF NotedInv, WithinInv, EvictInv
  <2>3. op.arg \in Cache!ToSet(View)
    BY <1>0, <1>3, Membership, CacheOps DEF FullInv
  <2>4. Cache!Add(op.arg)
    BY <1>0, <1>1, <1>2, <2>1, <2>3 DEF Cache!Add
  <2> QED
    BY <1>0, <2>2, <2>4 DEF StepGoal, Cache!Next
<1>4. CASE op.arg \notin DOMAIN backingMap
  <2>1. indexMap' = Append(indexMap, op.arg) /\ pc' = "evict" /\ op' = op
    BY <1>4 DEF Add
  <2>2. FlagSum(indexMap') = FlagSum(indexMap) + Flag[op.arg] /\ Len(indexMap') = Len(indexMap) + 1
    BY <1>0, <2>1, FlagSumAppend
  <2>3. Flag[op.arg] \in Nat /\ maxSize \in Nat /\ maxFlagCount \in Nat
    BY <1>0 DEF FASAssumption
  <2>4. Len(indexMap') <= maxSize + 1 /\ FlagSum(indexMap') <= maxFlagCount + Flag[op.arg]
    BY <1>0, <1>1, <2>2, <2>3
  <2>5. NotedInv' /\ WithinInv' /\ EvictInv'
    BY <1>0, <1>2, <2>1, <2>4, Priming DEF NotedInv, WithinInv, EvictInv
  <2>6. op.arg \notin Cache!ToSet(View)
    BY <1>0, <1>4, Membership, CacheOps DEF FullInv
  <2>7. Cache!Add(op.arg)
    BY <1>0, <1>1, <1>2, <2>1, <2>6 DEF Cache!Add
  <2> QED
    BY <1>0, <2>5, <2>7 DEF StepGoal, Cache!Next
<1> QED
  BY <1>3, <1>4

LEMMA RemoveFront ==
  ASSUME NEW s \in Seq(Elem), s # <<>>
  PROVE  RemoveAt(s, 1) = Tail(s)
<1>1. Len(s) \in Nat /\ Len(s) # 0 /\ 1 \in 1..Len(s)
  OBVIOUS
<1>2. /\ RemoveAt(s, 1) \in Seq(Elem) /\ Len(RemoveAt(s, 1)) = Len(s) - 1
      /\ \A j \in 1..(Len(s) - 1) : RemoveAt(s, 1)[j] = IF j < 1 THEN s[j] ELSE s[j + 1]
  BY <1>1, RemoveAtFacts
<1>3. /\ Tail(s) \in Seq(Elem) /\ Len(Tail(s)) = Len(s) - 1
      /\ \A j \in 1..(Len(s) - 1) : Tail(s)[j] = s[j + 1]
  OBVIOUS
<1>4. \A j \in 1..(Len(s) - 1) : RemoveAt(s, 1)[j] = Tail(s)[j]
  BY <1>1, <1>2, <1>3
<1> QED
  BY <1>2, <1>3, <1>4, SeqEqual

LEMMA RefineEvictStep ==
  ASSUME FASAssumption, FullInv, EvictStep PROVE StepGoal
<1>0. /\ i = 0 /\ to_be_removed = <<>> /\ View = indexMap /\ flags_to_remove = 0
      /\ indexMap \in Seq(Elem) /\ Len(indexMap) \in Nat
      /\ FlagSum(indexMap) \in Nat /\ Noted = <<>> /\ pc = "evict" /\ pc' = "evict"
      /\ op' = op /\ op.name = "add" /\ op.arg \in Elem
      /\ UNCHANGED <<to_be_removed, flags_to_remove, i, res>>
      /\ indexMap' = RemoveAt(indexMap, 0 + 1)
  BY BodyFacts DEF EvictStep, remove_, lazy, FullInv, EvictInv, IndInv, TypeOK, Op
<1>1. OverLimit <=> ~(Len(View) <= maxSize /\ FlagSum(View) <= maxFlagCount)
  BY <1>0, LimitFacts, FlagSumEmpty DEF FullInv
<1>2. ~(Len(indexMap) <= maxSize /\ FlagSum(indexMap) <= maxFlagCount) /\ ~Cache!Within
  BY <1>0, <1>1, CacheWithin DEF EvictStep
<1>3. indexMap # <<>>
  BY <1>0, <1>2, FlagSumEmpty DEF FASAssumption
<1>4. 1 \in 1..Len(indexMap) /\ 0 + 1 = 1
  BY <1>0, <1>3
<1>5. /\ Len(indexMap') = Len(indexMap) - 1 /\ FlagSum(indexMap') <= FlagSum(indexMap)
      /\ FlagSum(indexMap') \in Nat
  <2>1. indexMap' = RemoveAt(indexMap, 1)
    BY <1>0, <1>4
  <2>2. indexMap' \in Seq(Elem) /\ Len(indexMap') = Len(indexMap) - 1
    BY <1>0, <1>4, <2>1, RemoveAtFacts
  <2>3. FlagSum(indexMap') <= FlagSum(indexMap)
    BY <1>0, <1>4, <2>1, FlagSumRemove
  <2>4. FlagSum(indexMap') \in Nat
    BY <2>2, FlagsOfFacts
  <2> QED
    BY <2>2, <2>3, <2>4
<1>6. View' = indexMap' /\ FlagSum(Noted)' = 0 /\ flags_to_remove' = 0
  BY <1>0, NothingLeft
<1>7. Len(indexMap') <= maxSize + 1 /\ FlagSum(indexMap') <= maxFlagCount + Flag[op.arg]
  <2>1. Len(indexMap) <= maxSize + 1 /\ FlagSum(indexMap) <= maxFlagCount + Flag[op.arg]
    BY <1>0 DEF FullInv, EvictInv
  <2>2. Flag[op.arg] \in Nat /\ maxSize \in Nat /\ maxFlagCount \in Nat
    BY <1>0 DEF FASAssumption
  <2> QED
    BY <1>0, <1>5, <2>1, <2>2
<1>8. NotedInv' /\ WithinInv' /\ EvictInv'
  BY <1>0, <1>6, <1>7, Priming DEF NotedInv, WithinInv, EvictInv
<1>9. View' = Tail(View)
  BY <1>0, <1>3, <1>4, <1>6, RemoveFront
<1>10. Cache!EvictOldest
  BY <1>0, <1>2, <1>9 DEF Cache!EvictOldest
<1> QED
  BY <1>8, <1>10 DEF StepGoal, Cache!Next

LEMMA RefineEvictDone ==
  ASSUME FASAssumption, FullInv, EvictDone PROVE StepGoal
<1>0. /\ i = 0 /\ to_be_removed = <<>> /\ View = indexMap /\ flags_to_remove = 0
      /\ FlagSum(indexMap) \in Nat /\ Noted = <<>> /\ pc = "evict" /\ pc' = "idle"
      /\ UNCHANGED <<indexMap, to_be_removed, flags_to_remove, i, res>>
  BY BodyFacts DEF EvictDone, Return, list, lazy
<1>1. OverLimit <=> ~(Len(View) <= maxSize /\ FlagSum(View) <= maxFlagCount)
  BY <1>0, LimitFacts, FlagSumEmpty DEF FullInv
<1>2. Len(View) <= maxSize /\ FlagSum(View) <= maxFlagCount
  BY <1>1 DEF EvictDone
<1>3. View' = View /\ FlagSum(Noted)' = 0 /\ flags_to_remove' = 0
  BY <1>0, NothingLeft
<1>4. NotedInv' /\ WithinInv' /\ EvictInv'
  BY <1>0, <1>2, <1>3, Priming DEF NotedInv, WithinInv, EvictInv
<1> QED
  BY <1>0, <1>3, <1>4 DEF StepGoal, Cache!vars

LEMMA RefineRemoveElem ==
  ASSUME FASAssumption, FullInv, RemoveElem PROVE StepGoal
<1>0. /\ i = 0 /\ to_be_removed = <<>> /\ View = indexMap /\ flags_to_remove = 0
      /\ indexMap \in Seq(Elem) /\ Len(indexMap) \in Nat /\ DOMAIN indexMap = 1..Len(indexMap)
      /\ FlagSum(indexMap) \in Nat /\ Noted = <<>> /\ pc = "body" /\ pc' = "idle"
      /\ op.name = "remove_elem" /\ op.arg \in Elem
      /\ UNCHANGED <<to_be_removed, flags_to_remove, i>>
  BY BodyFacts DEF RemoveElem, Return, lazy, FullInv, IndInv, TypeOK, Op
<1>1. Cache!Within /\ Len(indexMap) <= maxSize /\ FlagSum(indexMap) <= maxFlagCount
  BY <1>0, CacheWithin DEF FullInv, WithinInv
<1>2. View' = indexMap' /\ FlagSum(Noted)' = 0 /\ flags_to_remove' = 0
  BY <1>0, NothingLeft
<1>3. CASE op.arg \notin DOMAIN backingMap
  <2>1. UNCHANGED indexMap /\ res' = <<"index", -1>>
    BY <1>3 DEF RemoveElem, Return, list
  <2>2. NotedInv' /\ WithinInv' /\ EvictInv'
    BY <1>0, <1>1, <1>2, <2>1, Priming DEF NotedInv, WithinInv, EvictInv
  <2>3. op.arg \notin Cache!ToSet(View)
    BY <1>0, <1>3, Membership, CacheOps DEF FullInv
  <2>4. Cache!RemoveElem(op.arg)
    BY <1>0, <1>1, <1>2, <2>1, <2>3 DEF Cache!RemoveElem
  <2> QED
    BY <1>0, <2>2, <2>4 DEF StepGoal, Cache!Next
<1>4. CASE op.arg \in DOMAIN backingMap
  <2>1. PICK k \in 1..Len(indexMap) : indexMap[k] = op.arg
    BY <1>0, <1>4, Membership DEF FullInv
  <2>2. backingMap[op.arg] - offset = k - 1 /\ (k - 1) + 1 = k
    <3>1. backingMap[op.arg] = (k - 1) + offset /\ offset \in Nat
      BY <1>0, <2>1 DEF FullInv, IndInv, PositionsInv, TypeOK
    <3> QED
      BY <1>0, <3>1
  <2>3. res' = <<"index", k - 1>> /\ indexMap' = RemoveAt(indexMap, k)
    BY <1>4, <2>2 DEF RemoveElem, Return, remove_
  <2>4. /\ Len(indexMap') = Len(indexMap) - 1 /\ FlagSum(indexMap') <= FlagSum(indexMap)
        /\ FlagSum(indexMap') \in Nat
    <3>1. indexMap' \in Seq(Elem) /\ Len(indexMap') = Len(indexMap) - 1
      BY <1>0, <2>3, RemoveAtFacts
    <3>2. FlagSum(indexMap') <= FlagSum(indexMap)
      BY <1>0, <2>3, FlagSumRemove
    <3>3. FlagSum(indexMap') \in Nat
      BY <3>1, FlagsOfFacts
    <3> QED
      BY <3>1, <3>2, <3>3
  <2>5. Len(indexMap') <= maxSize /\ FlagSum(indexMap') <= maxFlagCount
    BY <1>0, <1>1, <2>4 DEF FASAssumption
  <2>6. NotedInv' /\ WithinInv' /\ EvictInv'
    BY <1>0, <1>2, <2>5, Priming DEF NotedInv, WithinInv, EvictInv
  <2>7. View' = Cache!RemoveAt(View, k)
    BY <1>0, <1>2, <2>3, CacheOps
  <2>8. Cache!RemoveElem(op.arg)
    BY <1>0, <1>1, <2>1, <2>3, <2>7 DEF Cache!RemoveElem
  <2> QED
    BY <1>0, <2>6, <2>8 DEF StepGoal, Cache!Next
<1> QED
  BY <1>3, <1>4

\* remove(index) reads behind the noted removals, and notes one more.
LEMMA RefineRemoveIndex ==
  ASSUME FASAssumption, FullInv, RemoveIndex PROVE StepGoal
<1> DEFINE len == Len(to_be_removed)
<1>0. /\ pc = "body" /\ pc' = "idle" /\ i = 0 /\ i' = 0 /\ UNCHANGED indexMap
      /\ op.name = "remove_index" /\ op.arg \in 0..maxSize /\ op.arg \in Nat /\ op.arg >= max_remove
      /\ flags_to_remove = FlagSum(Noted)
  <2>1. /\ pc = "body" /\ pc' = "idle" /\ UNCHANGED <<indexMap, i>> /\ op.name = "remove_index"
    BY DEF RemoveIndex, Return, list
  <2>2. i = 0 /\ op.arg >= max_remove /\ op.arg \in 0..maxSize /\ flags_to_remove = FlagSum(Noted)
    BY <2>1 DEF FullInv, IndInv, PendingInv, TypeOK, Op, NotedInv
  <2> QED
    BY <2>1, <2>2 DEF FASAssumption
<1>1. /\ View \in Seq(Elem) /\ Len(View) = Len(indexMap) - len /\ FlagSum(View) \in Nat
      /\ len \in Nat /\ Len(indexMap) \in Nat /\ to_be_removed \in Seq(Nat)
      /\ indexMap \in Seq(Elem)
  <2>1. /\ View \in Seq(Elem) /\ FlagSum(View) \in Nat
        /\ Len(View) = Len(indexMap) - (Len(to_be_removed) - i)
    BY ViewFacts DEF FullInv
  <2>2. /\ to_be_removed \in Seq(Nat) /\ indexMap \in Seq(Elem)
        /\ len \in Nat /\ Len(indexMap) \in Nat
    BY DEF FullInv, IndInv, TypeOK
  <2>3. len - i = len
    BY <1>0, <2>2
  <2> QED
    BY <2>1, <2>2, <2>3
<1>2. Cache!Within /\ Len(View) <= maxSize /\ FlagSum(View) <= maxFlagCount
  BY <1>0, CacheWithin DEF FullInv, WithinInv
<1>3. CASE op.arg + len >= Len(indexMap)
  <2>1. UNCHANGED <<to_be_removed, flags_to_remove>> /\ res' = <<"absent">>
    BY <1>0, <1>1, <1>3 DEF RemoveIndex, Return, lazy
  <2>2. /\ View' = View /\ Noted' = Noted
        /\ FlagSum(View)' = FlagSum(View) /\ FlagSum(Noted)' = FlagSum(Noted)
    BY <1>0, <2>1, Frame
  <2>3. NotedInv' /\ WithinInv' /\ EvictInv'
    BY <1>0, <1>2, <2>1, <2>2 DEF NotedInv, WithinInv, EvictInv
  <2>4. op.arg >= Len(View)
    BY <1>0, <1>1, <1>3
  <2>5. Cache!RemoveIndex(op.arg)
    BY <1>2, <2>1, <2>2, <2>4 DEF Cache!RemoveIndex
  <2> QED
    BY <1>0, <2>3, <2>5 DEF StepGoal, Cache!Next
<1>4. CASE op.arg + len < Len(indexMap)
  <2> DEFINE x == indexMap[op.arg + len + 1]
  <2>1. /\ to_be_removed' = Append(to_be_removed, op.arg)
        /\ flags_to_remove' = flags_to_remove + Flag[x]
        /\ res' = <<"elem", x>>
    BY <1>0, <1>1, <1>4 DEF RemoveIndex, Return
  <2>2. x \in Elem /\ x = View[op.arg + 1]
    <3>1. op.arg + len + 1 \in 1..Len(indexMap)
      BY <1>0, <1>1, <1>4, SMTT(30)
    <3>2. View[op.arg + 1] = indexMap[op.arg + len + 1]
      BY <1>0, <1>4, NotedFacts DEF FullInv
    <3> QED
      BY <1>1, <3>1, <3>2
  <2> HIDE DEF x
  <2>3. op.arg + 1 \in 1..Len(View) /\ op.arg < Len(View) /\ ~(op.arg >= Len(View))
    BY <1>0, <1>1, <1>4, SMTT(30)
  <2>4. View' = RemoveAt(View, op.arg + 1)
    <3>1. SubSeq(to_be_removed', i' + 1, Len(to_be_removed')) = to_be_removed'
      <4>1. to_be_removed' \in Seq(Nat)
        BY <1>0, <1>1, <2>1
      <4> QED
        BY <1>0, <4>1
    <3>2. RemoveAll(indexMap, Append(to_be_removed, op.arg))
            = RemoveAt(RemoveAll(indexMap, to_be_removed), op.arg + 1)
      BY <1>0, <1>1, RemoveOneMore
    <3>3. View = RemoveAll(indexMap, to_be_removed)
      BY <1>0, NotedFacts DEF FullInv
    <3>4. View' = RemoveAll(indexMap', to_be_removed')
      BY <3>1, Priming
    <3> QED
      BY <1>0, <2>1, <3>2, <3>3, <3>4
  <2>5. Noted' = Append(Noted, x)
    <3>1. Noted \in Seq(Elem) /\ Len(Noted) = len
      BY <1>0, NotedFacts DEF FullInv
    <3>2. /\ Append(Noted, x) \in Seq(Elem) /\ Len(Append(Noted, x)) = len + 1
          /\ Append(Noted, x)[len + 1] = x
          /\ \A m \in 1..len : Append(Noted, x)[m] = Noted[m]
      BY <2>2, <3>1, AppendProperties
    <3>3. /\ Len(to_be_removed') = len + 1 /\ to_be_removed'[len + 1] = op.arg
          /\ \A m \in 1..len : to_be_removed'[m] = to_be_removed[m]
      BY <1>0, <1>1, <2>1
    <3>4. Noted' = [m \in 1..(len + 1) |-> indexMap[to_be_removed'[m] + m]]
      BY <1>0, <3>3 DEF Noted
    <3>5. ASSUME NEW m \in 1..(len + 1)
          PROVE  indexMap[to_be_removed'[m] + m] = Append(Noted, x)[m]
      <4>1. CASE m = len + 1
        <5>1. to_be_removed'[m] + m = op.arg + len + 1
          <6>1. to_be_removed'[m] = op.arg /\ len \in Nat /\ op.arg \in Nat
            BY <1>0, <1>1, <3>3, <4>1
          <6> HIDE DEF len
          <6>2. op.arg + (len + 1) = op.arg + len + 1
            BY <6>1
          <6> QED
            BY <4>1, <6>1, <6>2, Zenon
        <5> QED
          BY <3>2, <4>1, <5>1 DEF x
      <4>2. CASE m \in 1..len
        <5>1. Noted[m] = indexMap[to_be_removed[m] + m]
          BY <4>2 DEF Noted
        <5> QED
          BY <3>2, <3>3, <4>2, <5>1
      <4>3. len \in Nat => m = len + 1 \/ m \in 1..len
        OBVIOUS
      <4> QED
        BY <1>1, <4>1, <4>2, <4>3
    <3>6. Append(Noted, x) = [m \in 1..(len + 1) |-> Append(Noted, x)[m]]
      <4>1. Append(Noted, x) \in [1..(len + 1) -> Elem]
        BY <3>2, LenProperties
      <4> HIDE DEF len
      <4> QED
        BY <4>1, Zenon
    <3> QED
      BY <3>4, <3>5, <3>6, Zenon
  <2>6. FlagSum(Noted)' = flags_to_remove'
    <3>1. Noted \in Seq(Elem)
      BY <1>0, NotedFacts DEF FullInv
    <3>2. FlagSum(Append(Noted, x)) = FlagSum(Noted) + Flag[x]
      BY <2>2, <3>1, FlagSumAppend
    <3> QED
      BY <1>0, <2>1, <2>5, <3>2, Priming
  <2>7. Len(View') <= maxSize /\ FlagSum(View') <= maxFlagCount
    <3>1. /\ View' \in Seq(Elem) /\ Len(View') = Len(View) - 1
      BY <1>1, <2>3, <2>4, RemoveAtFacts
    <3>2. FlagSum(View') <= FlagSum(View)
      BY <1>1, <2>3, <2>4, FlagSumRemove
    <3>3. FlagSum(View') \in Nat /\ Len(View) \in Nat
      BY <1>1, <3>1, FlagsOfFacts
    <3>4. maxSize \in Nat /\ maxFlagCount \in Nat
      BY DEF FASAssumption
    <3> QED
      BY <1>1, <1>2, <3>1, <3>2, <3>3, <3>4, SMTT(30)
  <2>8. NotedInv' /\ WithinInv' /\ EvictInv'
    BY <1>0, <2>6, <2>7, Priming DEF NotedInv, WithinInv, EvictInv
  <2>9. Cache!RemoveIndex(op.arg)
    <3>1. View' = Cache!RemoveAt(View, op.arg + 1)
      BY <2>4, CacheOps
    <3> QED
      BY <1>2, <2>1, <2>2, <2>3, <3>1 DEF Cache!RemoveIndex
  <2> QED
    BY <1>0, <2>8, <2>9 DEF StepGoal, Cache!Next
<1> QED
  BY <1>0, <1>1, <1>3, <1>4

LEMMA RefineReads ==
  ASSUME FASAssumption, FullInv, Lookup \/ ForAllTxn PROVE StepGoal
<1>0. /\ pc = "body" /\ pc' = "idle" /\ op.name \in {"contains", "contains_hash", "for_all_txn"}
      /\ UNCHANGED <<indexMap, to_be_removed, flags_to_remove, i>>
  BY DEF Lookup, ForAllTxn, Return, list, lazy
<1>1. /\ i = 0 /\ to_be_removed = <<>> /\ View = indexMap /\ flags_to_remove = 0
  BY <1>0, BodyFacts
<1>2. Cache!Within /\ Len(View) <= maxSize /\ FlagSum(View) <= maxFlagCount
  BY <1>0, CacheWithin DEF FullInv, WithinInv
<1>3. View' = View /\ FlagSum(Noted)' = 0 /\ flags_to_remove' = 0
  BY <1>0, <1>1, NothingLeft
<1>4. NotedInv' /\ WithinInv' /\ EvictInv'
  BY <1>0, <1>2, <1>3, Priming DEF NotedInv, WithinInv, EvictInv
<1>5. CASE Lookup
  <2>1. op.arg \in Elem
    BY <1>5 DEF Lookup, FullInv, IndInv, TypeOK, Op
  <2>2. \/ res' = <<"found", op.arg \in DOMAIN backingMap>>
        \/ res' = <<"found", op.arg \in ToSet(indexMap)>>
    BY <1>5 DEF Lookup, Return
  <2>3. (op.arg \in DOMAIN backingMap) = (op.arg \in Cache!ToSet(View))
    <3>1. op.arg \in DOMAIN backingMap <=> op.arg \in Cache!ToSet(View)
      BY <1>1, Membership, CacheOps DEF FullInv
    <3> QED
      BY <3>1
  <2>4. ToSet(indexMap) = Cache!ToSet(View)
    BY <1>1 DEF ToSet, Cache!ToSet
  <2>6. res' = <<"found", op.arg \in Cache!ToSet(View)>>
    BY <2>2, <2>3, <2>4
  <2>5. Cache!Lookup(op.arg)
    BY <1>2, <1>3, <2>6 DEF Cache!Lookup
  <2> QED
    BY <1>4, <2>1, <2>5 DEF StepGoal, Cache!Next
<1>6. CASE ForAllTxn
  <2>1. Cache!ForAll
    BY <1>1, <1>2, <1>3, <1>6 DEF Cache!ForAll, ForAllTxn, Return
  <2> QED
    BY <1>4, <2>1 DEF StepGoal, Cache!Next
<1> QED
  BY <1>5, <1>6

LEMMA RefineClear ==
  ASSUME FASAssumption, FullInv, Clear PROVE StepGoal
<1>0. /\ pc' = "idle" /\ indexMap' = <<>> /\ to_be_removed' = <<>> /\ flags_to_remove' = 0
      /\ i' = 0 /\ res' = <<"none">>
  BY DEF Clear, FullInv, IndInv, PendingInv
<1>1. View' = <<>> /\ FlagSum(Noted)' = 0
  BY <1>0, NothingLeft
<1>2. NotedInv' /\ WithinInv' /\ EvictInv'
  <2>1. FlagSum(View)' = 0
    BY <1>1, Priming, FlagSumEmpty
  <2> QED
    BY <1>0, <1>1, <2>1 DEF NotedInv, WithinInv, EvictInv, FASAssumption
<1>3. Cache!Clear
  BY <1>0, <1>1 DEF Cache!Clear
<1> QED
  BY <1>2, <1>3 DEF StepGoal, Cache!Next

LEMMA NextRefines ==
  ASSUME FullInv, [Next]_vars
  PROVE  FullInv' /\ [Cache!Next]_Cache!vars
<1>1. IndInv'
  BY FASAssumption, NextIndInv DEF FullInv
<1>2. StepGoal
  <2>1. CASE Next
    BY <2>1, FASAssumption, RefineBegin, RefineCleanupStep, RefineCleanupDone, RefineAdd,
       RefineEvictStep, RefineEvictDone, RefineRemoveElem, RefineRemoveIndex, RefineReads,
       RefineClear DEF Next
  <2>2. CASE UNCHANGED vars
    <3>1. UNCHANGED <<indexMap, to_be_removed, flags_to_remove, pc, op, i, res>>
      BY <2>2 DEF vars, list, lazy
    <3>2. /\ View' = View /\ Noted' = Noted
          /\ FlagSum(View)' = FlagSum(View) /\ FlagSum(Noted)' = FlagSum(Noted)
          /\ FlagSum(indexMap)' = FlagSum(indexMap)
      BY <3>1, Frame
    <3> QED
      BY <3>1, <3>2 DEF StepGoal, FullInv, NotedInv, WithinInv, EvictInv, Cache!vars
  <2> QED
    BY <2>1, <2>2
<1> QED
  BY <1>1, <1>2 DEF FullInv, StepGoal

LEMMA InitRefines ==
  ASSUME Init
  PROVE  FullInv /\ Cache!Init
<1>1. IndInv
  BY FASAssumption, InitIndInv
<1>2. View = indexMap
  BY <1>1, FASAssumption, ViewFacts DEF Init
<1>3. Noted = <<>>
  BY DEF Noted, Init
<1>4. NotedInv /\ WithinInv /\ EvictInv
  BY <1>2, <1>3, FASAssumption, FlagSumEmpty DEF Init, NotedInv, WithinInv, EvictInv
<1> QED
  BY <1>1, <1>2, <1>4 DEF FullInv, Cache!Init, Init

\* The counters are the sums they stand for and both limits hold between operations,
\* after any operations, evictions and removals, early or late.
THEOREM FlagsCorrect == Spec => []FlagsInv
<1>1. FullInv => FlagsInv
  <2> SUFFICES ASSUME FullInv PROVE FlagsInv
    OBVIOUS
  <2> USE FASAssumption
  <2>1. flag_count = FlagSum(indexMap)
    BY DEF FullInv, IndInv, FlagCountInv
  <2>2. ASSUME pc = "idle" PROVE flags_to_remove = FlagSum(Noted) /\ ~OverLimit
    <3>1. i = 0 /\ flags_to_remove = FlagSum(Noted)
      BY <2>2 DEF FullInv, IndInv, PendingInv, NotedInv
    <3> QED
      BY <2>2, <3>1, LimitFacts DEF FullInv, WithinInv
  <2>3. ASSUME pc = "evict"
        PROVE  size <= maxSize + 1 /\ flagCount <= maxFlagCount + Flag[op.arg]
    <3>1. i = 0 /\ flags_to_remove = FlagSum(Noted) /\ View = indexMap
      BY <2>3, BodyFacts, FlagSumEmpty DEF FullInv
    <3> QED
      BY <2>3, <3>1, LimitFacts DEF FullInv, EvictInv
  <2> QED
    BY <2>1, <2>2, <2>3 DEF FlagsInv
<1>2. Init => FullInv
  BY InitRefines
<1>3. FullInv /\ [Next]_vars => FullInv'
  BY NextRefines
<1> QED
  BY <1>1, <1>2, <1>3, PTL DEF Spec

\* FlaggedArraySet implements TxCache: with its removals noted and run later, it gives
\* every answer that the eager list of the callers would give.
THEOREM Refinement == Spec => ImplementsTxCache
<1>1. Init => FullInv /\ Cache!Init
  BY InitRefines
<1>2. FullInv /\ [Next]_vars => FullInv' /\ [Cache!Next]_Cache!vars
  BY NextRefines
<1> QED
  BY <1>1, <1>2, PTL DEF Spec, ImplementsTxCache, Cache!Spec

----------------------------------------------------------------------------
(***************************************************************************)
(* Connection.                                                             *)
(***************************************************************************)
\* The counter of the inbound queue is right, too.
Counted == total_inbound_size = Unread

\* The select thread works on a connection only while it is in fd_map.
KnownToSelect ==
  /\ select.rd \/ select.wr \/ remove_set => fd_map
  /\ select.pc = "prepare" => ~select.rd /\ ~select.wr /\ ~remove_set

\* The end of the input is queued when the connection is forgotten, and not before.
Ended == \E k \in 1..Len(inbound_queue) : inbound_queue[k] = "end"

EndInv ==
  /\ Ended => "GLOBAL_THREAD_DONE" \in disconnectFlags
  /\ user = "setup" => ~fd_map /\ disconnectFlags \cap {"GLOBAL_THREAD_DONE", "COMPLETE"} = {}

\* The inductive invariant.
ConnectionInv ==
  /\ ConnectionTypeOK /\ Counted /\ WholeMessages /\ BufferBounded /\ NoLostWakeup
  /\ KnownToSelect /\ EndInv /\ SafeToDelete

----------------------------------------------------------------------------
(***************************************************************************)
(* Queues and their sums.                                                  *)
(***************************************************************************)
Size == 1..MaxMsgSize

LEMMA QueueFacts ==
  ASSUME NEW q \in Seq(Size)
  PROVE  /\ q \in Seq(Int) /\ q \in Seq(Nat) /\ SumSeq(q) \in Nat
         /\ q # <<>> => /\ Head(q) \in Size /\ Tail(q) \in Seq(Size)
                        /\ SumSeq(Tail(q)) = SumSeq(q) - Head(q)
         /\ \A x \in Size : /\ Append(q, x) \in Seq(Size) /\ Append(q, x) # <<>>
                            /\ q # <<>> => Head(Append(q, x)) = Head(q)
                            /\ SumSeq(Append(q, x)) = SumSeq(q) + x
<1>0. Size \subseteq Nat /\ Size \subseteq Int
  BY ConnectionAssumption DEF Size
<1>1. q \in Seq(Int) /\ q \in Seq(Nat)
  BY <1>0, SeqOfLarger
<1>2. SumSeq(q) \in Nat
  BY <1>1, SumNat
<1>3. ASSUME q # <<>> PROVE /\ Head(q) \in Size /\ Tail(q) \in Seq(Size)
                            /\ SumSeq(Tail(q)) = SumSeq(q) - Head(q)
  <2> DEFINE r == Tail(q)
  <2>1. /\ Head(q) \in Size /\ r \in Seq(Size) /\ Len(r) = Len(q) - 1 /\ 1 \in 1..Len(q)
        /\ \A k \in 1..(Len(q) - 1) : r[k] = q[k + 1]
        /\ Head(q) = q[1]
    BY <1>3
  <2>2. r \in Seq(Int)
    BY <1>0, <2>1, SeqOfLarger
  <2>3. \A k \in 1..(Len(q) - 1) : r[k] = IF k < 1 THEN q[k] ELSE q[k + 1]
    BY <2>1
  <2> HIDE DEF r
  <2>4. SumSeq(r) = SumSeq(q) - q[1]
    BY <1>1, <2>1, <2>2, <2>3, SumWithout
  <2> QED
    BY <2>1, <2>4 DEF r
<1>4. ASSUME NEW x \in Size
      PROVE  /\ Append(q, x) \in Seq(Size) /\ Append(q, x) # <<>>
             /\ q # <<>> => Head(Append(q, x)) = Head(q)
             /\ SumSeq(Append(q, x)) = SumSeq(q) + x
  <2>1. x \in Int
    BY <1>0
  <2>2. SumSeq(Append(q, x)) = SumSeq(q) + x
    BY <1>1, <2>1, SumAppend
  <2> QED
    BY <2>2, SMTT(30)
<1> QED
  BY <1>1, <1>2, <1>3, <1>4

\* A write advances in the front message, or takes it from the queue and begins anew.
LEMMA WrittenFacts ==
  ASSUME NEW q \in Seq(Size), q # <<>>, NEW pos \in 0..(MaxMsgSize - 1), NEW count \in Size,
         pos + count <= Head(q)
  PROVE  LET w == Written(q, pos, count) IN
         /\ w.queue \in Seq(Size) /\ w.pos \in 0..(MaxMsgSize - 1) /\ w.size \in Nat
         /\ w.pos > 0 => w.queue # <<>> /\ w.pos < Head(w.queue)
         /\ SumSeq(w.queue) = SumSeq(q) - w.size
<1> DEFINE w == Written(q, pos, count)
<1>0. /\ Head(q) \in Size /\ Tail(q) \in Seq(Size) /\ SumSeq(q) \in Nat
      /\ SumSeq(Tail(q)) = SumSeq(q) - Head(q)
  BY QueueFacts
<1>1. MaxMsgSize \in Nat /\ Head(q) \in 1..MaxMsgSize /\ count \in 1..MaxMsgSize
  BY <1>0, ConnectionAssumption DEF Size
<1>2. CASE pos + count = Head(q)
  <2>1. w.queue = Tail(q) /\ w.pos = 0 /\ w.size = Head(q)
    BY <1>2 DEF Written
  <2> QED
    BY <1>0, <1>1, <2>1
<1>3. CASE pos + count # Head(q)
  <2>1. w.queue = q /\ w.pos = pos + count /\ w.size = 0
    BY <1>3 DEF Written
  <2> QED
    BY <1>0, <1>1, <1>3, <2>1
<1> QED
  BY <1>2, <1>3

\* Unread counts the data in the queue.
Marks(q) == [k \in 1..Len(q) |-> IF q[k] = "data" THEN 1 ELSE 0]

LEMMA UnreadFacts ==
  ASSUME NEW q \in Seq({"data", "end"})
  PROVE  /\ SumSeq(Marks(q)) \in Nat
         /\ SumSeq(Marks(Append(q, "data"))) = SumSeq(Marks(q)) + 1
         /\ SumSeq(Marks(Append(q, "end"))) = SumSeq(Marks(q))
         /\ q # <<>> /\ Head(q) = "data" => SumSeq(Marks(Tail(q))) = SumSeq(Marks(q)) - 1
<1>1. ASSUME NEW r \in Seq({"data", "end"})
      PROVE  Marks(r) \in Seq(Nat) /\ Len(Marks(r)) = Len(r)
  <2>1. Len(r) \in Nat /\ Marks(r) \in [1..Len(r) -> Nat]
    BY DEF Marks
  <2>2. Marks(r) \in Seq(Nat)
    BY <2>1, SeqDef
  <2>3. DOMAIN Marks(r) = 1..Len(r)
    BY DEF Marks
  <2> QED
    BY <2>1, <2>2, <2>3, LenProperties
<1>2. SumSeq(Marks(q)) \in Nat
  BY <1>1, SumNat
<1>3. ASSUME NEW x \in {"data", "end"}
      PROVE  Marks(Append(q, x)) = Append(Marks(q), IF x = "data" THEN 1 ELSE 0)
  <2> DEFINE y == IF x = "data" THEN 1 ELSE 0
             l == Marks(Append(q, x))  r == Append(Marks(q), y)
  <2>0. Append(q, x) \in Seq({"data", "end"}) /\ Len(Append(q, x)) = Len(q) + 1 /\ Len(q) \in Nat
        /\ (\A k \in 1..Len(q) : Append(q, x)[k] = q[k]) /\ Append(q, x)[Len(q) + 1] = x
    OBVIOUS
  <2>1. Len(l) = Len(q) + 1 /\ l \in Seq(Nat)
    BY <1>1, <2>0
  <2>2. /\ Len(r) = Len(q) + 1 /\ r \in Seq(Nat) /\ r[Len(q) + 1] = y
        /\ \A k \in 1..Len(q) : r[k] = Marks(q)[k]
    BY <1>1, AppendProperties
  <2>3. ASSUME NEW k \in 1..(Len(q) + 1) PROVE l[k] = r[k]
    <3>1. l[k] = IF Append(q, x)[k] = "data" THEN 1 ELSE 0
      BY <2>0 DEF Marks
    <3>2. CASE k = Len(q) + 1
      BY <2>0, <2>2, <3>1, <3>2
    <3>3. CASE k # Len(q) + 1
      <4>1. k \in 1..Len(q)
        BY <2>0, <3>3
      <4>2. Marks(q)[k] = IF q[k] = "data" THEN 1 ELSE 0
        BY <4>1 DEF Marks
      <4> QED
        BY <2>0, <2>2, <3>1, <4>1, <4>2
    <3> QED
      BY <3>2, <3>3
  <2> HIDE DEF l, r, y
  <2>4. l = r
    BY <2>1, <2>2, <2>3, SeqEqual
  <2> QED
    BY <2>4 DEF l, r, y
<1>4. /\ SumSeq(Marks(Append(q, "data"))) = SumSeq(Marks(q)) + 1
      /\ SumSeq(Marks(Append(q, "end"))) = SumSeq(Marks(q))
  <2>1. Marks(q) \in Seq(Int)
    BY <1>1, SeqOfLarger, Nat \subseteq Int
  <2>2. SumSeq(Append(Marks(q), 1)) = SumSeq(Marks(q)) + 1 /\ SumSeq(Append(Marks(q), 0)) = SumSeq(Marks(q)) + 0
    BY <2>1, SumAppend
  <2>3. Marks(Append(q, "data")) = Append(Marks(q), 1) /\ Marks(Append(q, "end")) = Append(Marks(q), 0)
    BY <1>3
  <2>4. SumSeq(Marks(q)) + 0 = SumSeq(Marks(q))
    BY <1>2
  <2> QED
    BY <2>2, <2>3, <2>4, Zenon
<1>5. ASSUME q # <<>>, Head(q) = "data" PROVE SumSeq(Marks(Tail(q))) = SumSeq(Marks(q)) - 1
  <2>0. /\ Tail(q) \in Seq({"data", "end"}) /\ Len(Tail(q)) = Len(q) - 1 /\ 1 \in 1..Len(q)
        /\ q[1] = "data" /\ \A k \in 1..(Len(q) - 1) : Tail(q)[k] = q[k + 1]
    BY <1>5
  <2>1. /\ Marks(q) \in Seq(Int) /\ Len(Marks(q)) = Len(q)
        /\ Marks(Tail(q)) \in Seq(Int) /\ Len(Marks(Tail(q))) = Len(q) - 1
    BY <1>1, <2>0, SeqOfLarger, Nat \subseteq Int
  <2>2. Marks(q)[1] = 1
    BY <2>0 DEF Marks
  <2>3. ASSUME NEW k \in 1..(Len(q) - 1) PROVE Marks(Tail(q))[k] = IF k < 1 THEN Marks(q)[k] ELSE Marks(q)[k + 1]
    <3>1. k \in 1..Len(Tail(q)) /\ k + 1 \in 1..Len(q) /\ ~(k < 1)
      BY <2>0
    <3> QED
      BY <2>0, <3>1 DEF Marks
  <2>4. SumSeq(Marks(Tail(q))) = SumSeq(Marks(q)) - Marks(q)[1]
    BY <2>0, <2>1, <2>3, SumWithout
  <2> QED
    BY <2>2, <2>4
<1> QED
  BY <1>2, <1>4, <1>5

----------------------------------------------------------------------------
(***************************************************************************)
(* What the select thread and the senders do to the outbound queues.       *)
(***************************************************************************)
OutType ==
  /\ primary \in Seq(Size) /\ secondary \in Seq(Size)
  /\ primary_writepos \in 0..(MaxMsgSize - 1) /\ secondary_writepos \in 0..(MaxMsgSize - 1)
  /\ initial_outbound_bytes \in Nat /\ total_waiting_size \in Nat
  /\ initial_outbound_throttle \in BOOLEAN /\ delayed \in BOOLEAN

\* A message that has been begun is at the front of its queue, and only one has.
Begun ==
  /\ primary_writepos = 0 \/ secondary_writepos = 0
  /\ primary_writepos > 0 => primary # <<>> /\ primary_writepos < Head(primary)
  /\ secondary_writepos > 0 => secondary # <<>> /\ secondary_writepos < Head(secondary)

SomethingToWrite ==
  select.pc \in {"sleep", "read", "write"} /\ select.wr => primary # <<>> \/ secondary # <<>>

QueuesInv == OutType /\ Begun /\ BufferBounded

\* Where the state of the queues stays as it is, so does what is known of it; the bound
\* grows when the throttle begins.
LEMMA QueuesFrame ==
  ASSUME QueuesInv,
         UNCHANGED <<primary, secondary, primary_writepos, secondary_writepos,
                     initial_outbound_bytes, total_waiting_size>>,
         initial_outbound_throttle' \in BOOLEAN, delayed' \in BOOLEAN,
         initial_outbound_throttle => initial_outbound_throttle'
  PROVE  QueuesInv'
<1>1. OutType' /\ Begun'
  BY DEF QueuesInv, OutType, Begun
<1>2. WaitingBytes' = WaitingBytes
  BY DEF WaitingBytes
<1>3. total_waiting_size \in Nat /\ initial_outbound_bytes \in Nat
      /\ max_outbound_buffer_size \in Nat /\ MaxMsgSize \in Nat
  BY ConnectionAssumption DEF QueuesInv, OutType
<1>4. BufferBounded'
  BY <1>2, <1>3 DEF QueuesInv, OutType, BufferBounded
<1> QED
  BY <1>1, <1>4 DEF QueuesInv

\* A message is queued, or the connection shut down.
LEMMA QueueStep ==
  ASSUME QueuesInv, NEW queue \in {"primary", "secondary"}, NEW len \in Size, NEW bytes \in Nat,
         Queue(queue, len, bytes), initial_outbound_bytes' = bytes,
         bytes >= initial_outbound_bytes
  PROVE  /\ QueuesInv'
         /\ primary # <<>> => primary' # <<>>
         /\ secondary # <<>> => secondary' # <<>>
<1>0. /\ primary \in Seq(Size) /\ secondary \in Seq(Size)
      /\ SumSeq(primary) \in Nat /\ SumSeq(secondary) \in Nat
      /\ max_outbound_buffer_size \in Nat /\ MaxMsgSize \in Nat /\ len \in 1..MaxMsgSize
      /\ total_waiting_size = SumSeq(primary) + SumSeq(secondary)
  BY QueueFacts, ConnectionAssumption DEF QueuesInv, OutType, Size, BufferBounded, WaitingBytes
<1>1. UNCHANGED <<primary_writepos, secondary_writepos, initial_outbound_throttle, delayed>>
  BY DEF Queue
<1>2. CASE Full(bytes)
  <2>1. UNCHANGED <<primary, secondary, total_waiting_size>>
    BY <1>2 DEF Queue
  <2>2. OutType' /\ Begun'
    BY <1>1, <2>1 DEF QueuesInv, OutType, Begun
  <2>3. BufferBounded'
    BY <1>0, <1>1, <2>1 DEF QueuesInv, OutType, BufferBounded, WaitingBytes
  <2> QED
    BY <2>1, <2>2, <2>3 DEF QueuesInv
<1>3. CASE ~Full(bytes)
  <2>1. /\ total_waiting_size' = total_waiting_size + len
        /\ \/ primary' = Append(primary, len) /\ UNCHANGED secondary
           \/ secondary' = Append(secondary, len) /\ UNCHANGED primary
    BY <1>3 DEF Queue
  <2>2. /\ primary' \in Seq(Size) /\ secondary' \in Seq(Size)
        /\ primary # <<>> => primary' # <<>> /\ Head(primary') = Head(primary)
        /\ secondary # <<>> => secondary' # <<>> /\ Head(secondary') = Head(secondary)
    BY <1>0, <2>1, QueueFacts
  <2>3. SumSeq(primary') + SumSeq(secondary') = SumSeq(primary) + SumSeq(secondary) + len
    <3>1. CASE primary' = Append(primary, len) /\ UNCHANGED secondary
      <4>1. SumSeq(primary') = SumSeq(primary) + len /\ SumSeq(secondary') = SumSeq(secondary)
        BY <1>0, <3>1, QueueFacts
      <4> QED
        BY <1>0, <4>1
    <3>2. CASE secondary' = Append(secondary, len) /\ UNCHANGED primary
      <4>1. SumSeq(secondary') = SumSeq(secondary) + len /\ SumSeq(primary') = SumSeq(primary)
        BY <1>0, <3>2, QueueFacts
      <4> QED
        BY <1>0, <4>1
    <3> QED
      BY <2>1, <3>1, <3>2
  <2>4. OutType' /\ Begun'
    <3>1. total_waiting_size' \in Nat
      BY <1>0, <2>1
    <3>2. OutType'
      BY <1>1, <2>2, <3>1 DEF QueuesInv, OutType
    <3>3. Begun'
      BY <1>1, <2>2 DEF QueuesInv, Begun
    <3> QED
      BY <3>2, <3>3
  <2>5. total_waiting_size - (IF initial_outbound_throttle THEN bytes ELSE 0) <= max_outbound_buffer_size
    BY <1>0, <1>3 DEF Full, QueuesInv, OutType
  <2>6. total_waiting_size + len <= max_outbound_buffer_size + MaxMsgSize
                                       + IF initial_outbound_throttle THEN bytes ELSE 0
    BY <1>0, <2>5
  <2>7. BufferBounded'
    BY <1>0, <1>1, <2>1, <2>3, <2>6 DEF BufferBounded, WaitingBytes
  <2> QED
    BY <2>2, <2>4, <2>7 DEF QueuesInv
<1> QED
  BY <1>2, <1>3

\* Bytes are written.
LEMMA SendStepQueues ==
  ASSUME QueuesInv, SomethingToWrite, SendStep
  PROVE  QueuesInv'
<1>0. /\ primary \in Seq(Size) /\ secondary \in Seq(Size)
      /\ SumSeq(primary) \in Nat /\ SumSeq(secondary) \in Nat
      /\ max_outbound_buffer_size \in Nat /\ MaxMsgSize \in Nat
      /\ total_waiting_size = SumSeq(primary) + SumSeq(secondary)
      /\ initial_outbound_bytes \in Nat
      /\ primary_writepos \in 0..(MaxMsgSize - 1) /\ secondary_writepos \in 0..(MaxMsgSize - 1)
      /\ initial_outbound_throttle \in BOOLEAN /\ delayed \in BOOLEAN
  BY QueueFacts, ConnectionAssumption DEF QueuesInv, OutType, BufferBounded, WaitingBytes
<1>1. CASE UNCHANGED out
  <2>1. /\ UNCHANGED <<primary, secondary, primary_writepos, secondary_writepos,
                       initial_outbound_bytes, total_waiting_size>>
        /\ UNCHANGED <<initial_outbound_throttle, delayed>>
    BY <1>1 DEF out
  <2> QED
    BY <1>0, <2>1, QueuesFrame
<1>2. CASE /\ \E count \in Size :
                \/ LET w == Written(primary, primary_writepos, count) IN
                   /\ UsePrimary /\ primary_writepos + count <= Head(primary)
                   /\ primary' = w.queue /\ primary_writepos' = w.pos
                   /\ total_waiting_size' = total_waiting_size - w.size
                   /\ UNCHANGED <<secondary, secondary_writepos>>
                \/ LET w == Written(secondary, secondary_writepos, count) IN
                   /\ ~UsePrimary /\ secondary_writepos + count <= Head(secondary)
                   /\ secondary' = w.queue /\ secondary_writepos' = w.pos
                   /\ total_waiting_size' = total_waiting_size - w.size
                   /\ UNCHANGED <<primary, primary_writepos>>
           /\ initial_outbound_throttle' =
                (initial_outbound_throttle /\ (holder \/ total_waiting_size' # 0))
           /\ delayed' = (primary_writepos' = 0 /\ secondary_writepos' = 0
                            /\ initial_outbound_throttle')
           /\ UNCHANGED initial_outbound_bytes
  <2>1. initial_outbound_throttle' \in BOOLEAN /\ delayed' \in BOOLEAN
    BY <1>2
  <2>2. PICK s \in Nat :
          /\ primary' \in Seq(Size) /\ secondary' \in Seq(Size)
          /\ primary_writepos' \in 0..(MaxMsgSize - 1) /\ secondary_writepos' \in 0..(MaxMsgSize - 1)
          /\ Begun'
          /\ SumSeq(primary') + SumSeq(secondary') = SumSeq(primary) + SumSeq(secondary) - s
          /\ total_waiting_size' = total_waiting_size - s
    <3>1. PICK count \in Size :
            \/ LET w == Written(primary, primary_writepos, count) IN
               /\ UsePrimary /\ primary_writepos + count <= Head(primary)
               /\ primary' = w.queue /\ primary_writepos' = w.pos
               /\ total_waiting_size' = total_waiting_size - w.size
               /\ UNCHANGED <<secondary, secondary_writepos>>
            \/ LET w == Written(secondary, secondary_writepos, count) IN
               /\ ~UsePrimary /\ secondary_writepos + count <= Head(secondary)
               /\ secondary' = w.queue /\ secondary_writepos' = w.pos
               /\ total_waiting_size' = total_waiting_size - w.size
               /\ UNCHANGED <<primary, primary_writepos>>
      BY <1>2
    <3>2. CASE UsePrimary
      <4> DEFINE w == Written(primary, primary_writepos, count)
      <4>1. /\ primary # <<>> /\ secondary_writepos = 0 /\ primary_writepos + count <= Head(primary)
            /\ primary' = w.queue /\ primary_writepos' = w.pos
            /\ total_waiting_size' = total_waiting_size - w.size
            /\ UNCHANGED <<secondary, secondary_writepos>>
        BY <3>1, <3>2 DEF UsePrimary
      <4>2. /\ w.queue \in Seq(Size) /\ w.pos \in 0..(MaxMsgSize - 1) /\ w.size \in Nat
            /\ w.pos > 0 => w.queue # <<>> /\ w.pos < Head(w.queue)
            /\ SumSeq(w.queue) = SumSeq(primary) - w.size
        BY <1>0, <4>1, WrittenFacts
      <4> HIDE DEF w
      <4>3. Begun'
        BY <4>1, <4>2 DEF Begun
      <4>4. SumSeq(primary') = SumSeq(primary) - w.size /\ SumSeq(secondary') = SumSeq(secondary)
        BY <4>1, <4>2
      <4>5. SumSeq(primary') + SumSeq(secondary') = SumSeq(primary) + SumSeq(secondary) - w.size
        BY <1>0, <4>2, <4>4
      <4> QED
        BY <1>0, <4>1, <4>2, <4>3, <4>5
    <3>3. CASE ~UsePrimary
      <4> DEFINE w == Written(secondary, secondary_writepos, count)
      <4>1. /\ secondary_writepos # 0 \/ primary = <<>>
            /\ secondary_writepos + count <= Head(secondary)
            /\ secondary' = w.queue /\ secondary_writepos' = w.pos
            /\ total_waiting_size' = total_waiting_size - w.size
            /\ UNCHANGED <<primary, primary_writepos>>
        BY <3>1, <3>3 DEF UsePrimary
      <4>2. primary_writepos = 0 /\ secondary # <<>>
        BY <1>0, <4>1 DEF QueuesInv, Begun, SomethingToWrite, SendStep
      <4>3. /\ w.queue \in Seq(Size) /\ w.pos \in 0..(MaxMsgSize - 1) /\ w.size \in Nat
            /\ w.pos > 0 => w.queue # <<>> /\ w.pos < Head(w.queue)
            /\ SumSeq(w.queue) = SumSeq(secondary) - w.size
        BY <1>0, <4>1, <4>2, WrittenFacts
      <4> HIDE DEF w
      <4>4. Begun'
        BY <4>1, <4>2, <4>3 DEF Begun
      <4>5. SumSeq(secondary') = SumSeq(secondary) - w.size /\ SumSeq(primary') = SumSeq(primary)
        BY <4>1, <4>3
      <4>6. SumSeq(primary') + SumSeq(secondary') = SumSeq(primary) + SumSeq(secondary) - w.size
        BY <1>0, <4>3, <4>5
      <4> QED
        BY <1>0, <4>1, <4>3, <4>4, <4>6
    <3> QED
      BY <3>2, <3>3
  <2>3. SumSeq(primary') \in Nat /\ SumSeq(secondary') \in Nat
    BY <2>2, QueueFacts
  <2>4. total_waiting_size' \in Nat /\ total_waiting_size' = SumSeq(primary') + SumSeq(secondary')
        /\ total_waiting_size' <= total_waiting_size
    BY <1>0, <2>2, <2>3, SMTT(30)
  <2>5. OutType'
    BY <1>0, <1>2, <2>1, <2>2, <2>4 DEF OutType
  <2>6. total_waiting_size' <= max_outbound_buffer_size + MaxMsgSize
          + IF initial_outbound_throttle' THEN initial_outbound_bytes ELSE 0
    <3>1. CASE total_waiting_size' = 0
      BY <1>0, <3>1
    <3>2. CASE ~initial_outbound_throttle
      BY <1>0, <2>4, <3>2 DEF QueuesInv, BufferBounded, WaitingBytes
    <3>3. CASE initial_outbound_throttle /\ initial_outbound_throttle'
      BY <1>0, <2>4, <3>3 DEF QueuesInv, BufferBounded, WaitingBytes
    <3>4. CASE initial_outbound_throttle /\ total_waiting_size' # 0 /\ ~initial_outbound_throttle'
      BY <1>2, <3>4
    <3> QED
      BY <1>0, <3>1, <3>2, <3>3, <3>4
  <2>7. BufferBounded'
    BY <1>2, <2>4, <2>6 DEF BufferBounded, WaitingBytes
  <2> QED
    BY <2>2, <2>5, <2>7 DEF QueuesInv
<1> QED
  BY <1>1, <1>2 DEF SendStep, Size

\* The actions that touch neither queue leave all of this alone.
LEMMA QueuesStep ==
  ASSUME QueuesInv, SomethingToWrite, holder \in BOOLEAN, [ConnectionNext]_connection_vars
  PROVE  QueuesInv'
<1>0. /\ initial_outbound_bytes \in Nat /\ Size \subseteq Nat
      /\ initial_outbound_throttle \in BOOLEAN /\ delayed \in BOOLEAN
  BY ConnectionAssumption DEF QueuesInv, OutType, Size
<1>1. CASE UNCHANGED out
  <2>1. /\ UNCHANGED <<primary, secondary, primary_writepos, secondary_writepos,
                       initial_outbound_bytes, total_waiting_size>>
        /\ UNCHANGED <<initial_outbound_throttle, delayed>>
    BY <1>1 DEF out
  <2> QED
    BY <1>0, <2>1, QueuesFrame
<1>2. ASSUME NEW len \in Size, NEW token \in BOOLEAN, do_send_bytes(len, token)
      PROVE  QueuesInv'
  <2> DEFINE bytes == initial_outbound_bytes
                        + IF initial_outbound_throttle /\ token THEN len ELSE 0
  <2>1. bytes \in Nat /\ bytes >= initial_outbound_bytes
    BY <1>0
  <2>2. initial_outbound_bytes' = bytes /\ Queue("primary", len, bytes)
    BY <1>2 DEF do_send_bytes
  <2> HIDE DEF bytes
  <2> QED
    BY <2>1, <2>2, QueueStep
<1>3. ASSUME NEW len \in Size, maybe_send_bytes(len)
      PROVE  QueuesInv'
  <2>1. initial_outbound_bytes' = initial_outbound_bytes
        /\ Queue("secondary", len, initial_outbound_bytes)
    BY <1>3 DEF maybe_send_bytes
  <2>2. initial_outbound_bytes >= initial_outbound_bytes
    BY <1>0
  <2> QED
    BY <1>0, <2>1, <2>2, QueueStep
<1>4. CASE GetSendMutex
  <2>1. /\ UNCHANGED <<primary, secondary, primary_writepos, secondary_writepos,
                       initial_outbound_bytes, total_waiting_size>>
        /\ UNCHANGED delayed
        /\ \/ initial_outbound_throttle' = TRUE
           \/ initial_outbound_throttle' = initial_outbound_throttle
    BY <1>4 DEF GetSendMutex
  <2>2. /\ initial_outbound_throttle' \in BOOLEAN /\ delayed' \in BOOLEAN
        /\ initial_outbound_throttle => initial_outbound_throttle'
    BY <1>0, <2>1
  <2> QED
    BY <2>1, <2>2, QueuesFrame
<1>5. CASE DelayPasses
  <2>1. /\ UNCHANGED <<primary, secondary, primary_writepos, secondary_writepos,
                       initial_outbound_bytes, total_waiting_size>>
        /\ initial_outbound_throttle' = initial_outbound_throttle /\ delayed' \in BOOLEAN
    BY <1>0, <1>5 DEF DelayPasses
  <2> QED
    BY <1>0, <2>1, QueuesFrame
<1>6. CASE SendStep
  BY <1>6, SendStepQueues
<1>7. \/ UNCHANGED out
      \/ \E len \in Size : \/ \E token \in BOOLEAN : do_send_bytes(len, token)
                            \/ maybe_send_bytes(len)
      \/ GetSendMutex \/ DelayPasses \/ SendStep
  BY DEF ConnectionNext, UserThread, SelectThread, ReleaseSendMutex, NetProcessQuits, Setup, ReadAll,
         Disconnect, ReadsDone, Complete, Prepare, Wake, RecvStep, SkipSend, RemoveStep,
         PeerSends, PeerCloses, connection_vars, Size
<1> QED
  BY <1>1, <1>2, <1>3, <1>4, <1>5, <1>6, <1>7

----------------------------------------------------------------------------
(***************************************************************************)
(* The inbound queue.                                                      *)
(***************************************************************************)
InType ==
  /\ inbound_queue \in Seq({"data", "end"}) /\ total_inbound_size \in Nat
  /\ arrived \in 0..sentIn /\ sentIn \in 0..MaxIn

LEMMA InboundStep ==
  ASSUME InType, Counted, [ConnectionNext]_connection_vars
  PROVE  InType' /\ Counted'
<1>0. /\ inbound_queue \in Seq({"data", "end"}) /\ total_inbound_size \in Nat
      /\ total_inbound_size = SumSeq(Marks(inbound_queue))
      /\ arrived \in 0..sentIn /\ sentIn \in 0..MaxIn /\ MaxIn \in Nat
  BY ConnectionAssumption DEF InType, Counted, Unread, Marks
<1>1. \/ UNCHANGED <<inbound_queue, total_inbound_size>>
      \/ /\ inbound_queue # <<>> /\ Head(inbound_queue) = "data"
         /\ inbound_queue' = Tail(inbound_queue) /\ total_inbound_size' = total_inbound_size - 1
      \/ /\ inbound_queue' = Append(inbound_queue, "data")
         /\ total_inbound_size' = total_inbound_size + 1
      \/ inbound_queue' = Append(inbound_queue, "end") /\ UNCHANGED total_inbound_size
  BY DEF ConnectionNext, UserThread, SelectThread, do_send_bytes, maybe_send_bytes, Queue, GetSendMutex,
         ReleaseSendMutex, NetProcessQuits, Setup, ReadAll, Disconnect, ReadsDone, Complete,
         Prepare, Wake, RecvStep, SendStep, SkipSend, RemoveStep, DelayPasses, PeerSends,
         PeerCloses, connection_vars, in
<1>2. /\ inbound_queue' \in Seq({"data", "end"})
      /\ total_inbound_size' = SumSeq(Marks(inbound_queue'))
  <2>1. CASE UNCHANGED <<inbound_queue, total_inbound_size>>
    BY <1>0, <2>1
  <2>2. CASE /\ inbound_queue # <<>> /\ Head(inbound_queue) = "data"
             /\ inbound_queue' = Tail(inbound_queue)
             /\ total_inbound_size' = total_inbound_size - 1
    BY <1>0, <2>2, UnreadFacts
  <2>3. CASE /\ inbound_queue' = Append(inbound_queue, "data")
             /\ total_inbound_size' = total_inbound_size + 1
    BY <1>0, <2>3, UnreadFacts
  <2>4. CASE inbound_queue' = Append(inbound_queue, "end") /\ UNCHANGED total_inbound_size
    BY <1>0, <2>4, UnreadFacts
  <2> QED
    BY <1>1, <2>1, <2>2, <2>3, <2>4
<1>3. total_inbound_size' \in Nat
  BY <1>2, UnreadFacts
<1>4. arrived' \in 0..sentIn' /\ sentIn' \in 0..MaxIn
  <2>1. \/ UNCHANGED <<arrived, sentIn>>
        \/ arrived > 0 /\ arrived' = arrived - 1 /\ UNCHANGED sentIn
        \/ sentIn < MaxIn /\ sentIn' = sentIn + 1 /\ arrived' = arrived + 1
    BY DEF ConnectionNext, UserThread, SelectThread, do_send_bytes, maybe_send_bytes, Queue, GetSendMutex,
           ReleaseSendMutex, NetProcessQuits, Setup, ReadAll, Disconnect, ReadsDone, Complete,
           Prepare, Wake, RecvStep, SendStep, SkipSend, RemoveStep, DelayPasses, PeerSends,
           PeerCloses, connection_vars, in
  <2> QED
    BY <1>0, <2>1
<1> QED
  BY <1>2, <1>3, <1>4 DEF InType, Counted, Unread, Marks

----------------------------------------------------------------------------
(***************************************************************************)
(* The select thread, and the threads that talk to it.                     *)
(***************************************************************************)
SelectType == select \in [pc : {"prepare", "sleep", "read", "write", "remove"},
                          rd : BOOLEAN, wr : BOOLEAN, woken : BOOLEAN, soon : BOOLEAN]

DownType ==
  /\ disconnectFlags \subseteq Flags /\ fd_map \in BOOLEAN /\ shut \in BOOLEAN
  /\ user \in {"setup", "reading", "closing", "closed", "waiting", "done"}
  /\ remove_set \in BOOLEAN /\ pipe \in BOOLEAN /\ holder \in BOOLEAN

\* What a step of the select thread does to its own state.
LEMMA SelectStep ==
  ASSUME SelectType, DownType, [ConnectionNext]_connection_vars
  PROVE  /\ SelectType'
         /\ \/ select' = select
            \/ Prepare /\ select'.pc = "sleep"
            \/ Wake /\ select'.pc = "read" /\ (select'.rd => select.rd) /\ (select'.wr => select.wr)
            \/ /\ RecvStep /\ select.pc = "read" /\ select'.pc = "write"
               /\ select'.rd = select.rd /\ select'.wr = select.wr
            \/ /\ SendStep \/ SkipSend
               /\ select.pc = "write" /\ select'.pc = "remove"
               /\ select'.rd = select.rd /\ select'.wr = select.wr
            \/ RemoveStep /\ select'.pc = "prepare" /\ ~select'.rd /\ ~select'.wr
<1> DEFINE S == [pc : {"prepare", "sleep", "read", "write", "remove"},
                 rd : BOOLEAN, wr : BOOLEAN, woken : BOOLEAN, soon : BOOLEAN]
<1>0. /\ select \in S /\ fd_map \in BOOLEAN /\ shut \in BOOLEAN /\ pipe \in BOOLEAN
      /\ select.rd \in BOOLEAN /\ select.wr \in BOOLEAN /\ select.soon \in BOOLEAN
      /\ select.woken \in BOOLEAN
  BY DEF SelectType, DownType
<1>1. CASE select' = select
  BY <1>1 DEF SelectType
<1>2. CASE Prepare
  <2>1. PICK rd \in BOOLEAN, wr \in BOOLEAN, soon \in BOOLEAN :
          select' = [pc |-> "sleep", woken |-> FALSE, rd |-> rd, wr |-> wr, soon |-> soon]
    BY <1>2 DEF Prepare
  <2> QED
    BY <1>2, <2>1 DEF SelectType
<1>3. CASE Wake
  <2>1. PICK rd \in BOOLEAN, wr \in BOOLEAN :
          /\ select' = [pc |-> "read", rd |-> rd, wr |-> wr, woken |-> pipe, soon |-> select.soon]
          /\ rd => select.rd
          /\ wr => select.wr
    BY <1>3 DEF Wake
  <2> QED
    BY <1>0, <1>3, <2>1 DEF SelectType
<1>4. CASE RecvStep
  <2>1. select' = [select EXCEPT !.pc = "write"] /\ select.pc = "read"
    BY <1>4 DEF RecvStep
  <2> QED
    BY <1>0, <1>4, <2>1 DEF SelectType
<1>5. CASE SendStep \/ SkipSend
  <2>1. select' = [select EXCEPT !.pc = "remove"] /\ select.pc = "write"
    BY <1>5 DEF SendStep, SkipSend
  <2> QED
    BY <1>0, <1>5, <2>1 DEF SelectType
<1>6. CASE RemoveStep
  <2>1. select' = [pc |-> "prepare", rd |-> FALSE, wr |-> FALSE,
                   woken |-> select.woken, soon |-> select.soon]
    BY <1>6 DEF RemoveStep
  <2> QED
    BY <1>0, <1>6, <2>1 DEF SelectType
<1>7. \/ select' = select
      \/ Prepare \/ Wake \/ RecvStep \/ SendStep \/ SkipSend \/ RemoveStep
  BY DEF ConnectionNext, UserThread, SelectThread, do_send_bytes, maybe_send_bytes, Queue, GetSendMutex,
         ReleaseSendMutex, NetProcessQuits, Setup, ReadAll, Disconnect, ReadsDone, Complete,
         DelayPasses, PeerSends, PeerCloses, connection_vars, loop
<1> QED
  BY <1>1, <1>2, <1>3, <1>4, <1>5, <1>6, <1>7

\* When the select thread comes to write, there is something to write: only the select
\* thread takes messages from the queues.
LEMMA SomethingToWriteStep ==
  ASSUME QueuesInv, SomethingToWrite, SelectType, DownType, [ConnectionNext]_connection_vars
  PROVE  SomethingToWrite'
<1> SUFFICES ASSUME select'.pc \in {"sleep", "read", "write"}, select'.wr
             PROVE  primary' # <<>> \/ secondary' # <<>>
  BY DEF SomethingToWrite
<1>0. primary \in Seq(Size) /\ secondary \in Seq(Size)
  BY DEF QueuesInv, OutType
<1>1. CASE Prepare
  <2>1. total_waiting_size > 0 /\ UNCHANGED <<primary, secondary>>
    BY <1>1 DEF Prepare, out
  <2>2. total_waiting_size = SumSeq(primary) + SumSeq(secondary)
    BY DEF QueuesInv, BufferBounded, WaitingBytes
  <2>3. primary = <<>> /\ secondary = <<>> => total_waiting_size = 0
    <3>1. SumSeq(<<>>) = 0
      BY SumEmpty
    <3> QED
      BY <2>2, <3>1
  <2> QED
    BY <2>1, <2>3
<1>2. CASE (Wake \/ RecvStep) /\ select.pc \in {"sleep", "read", "write"} /\ select.wr
  <2>1. UNCHANGED <<primary, secondary>>
    BY <1>2 DEF Wake, RecvStep, out
  <2> QED
    BY <1>2, <2>1 DEF SomethingToWrite
<1>3. CASE select' = select
  <2>1. primary # <<>> \/ secondary # <<>>
    BY <1>3 DEF SomethingToWrite
  <2>2. \/ UNCHANGED <<primary, secondary>>
        \/ \E len \in Size : primary' = Append(primary, len) /\ UNCHANGED secondary
        \/ \E len \in Size : secondary' = Append(secondary, len) /\ UNCHANGED primary
        \/ SelectThread
    BY DEF ConnectionNext, UserThread, do_send_bytes, maybe_send_bytes, Queue, GetSendMutex,
           ReleaseSendMutex, NetProcessQuits, Setup, ReadAll, Disconnect, ReadsDone, Complete,
           DelayPasses, PeerSends, PeerCloses, connection_vars, out, Size
  <2>3. ~SelectThread
    BY <1>3 DEF SelectThread, Prepare, Wake, RecvStep, SendStep, SkipSend, RemoveStep, SelectType
  <2> QED
    BY <1>0, <2>1, <2>2, <2>3, QueueFacts
<1> QED
  BY <1>1, <1>2, <1>3, SelectStep DEF Wake

LEMMA DownTypeStep ==
  ASSUME SelectType, DownType, [ConnectionNext]_connection_vars
  PROVE  DownType'
<1>0. /\ disconnectFlags \subseteq Flags /\ fd_map \in BOOLEAN /\ shut \in BOOLEAN
      /\ user \in {"setup", "reading", "closing", "closed", "waiting", "done"}
      /\ remove_set \in BOOLEAN /\ pipe \in BOOLEAN /\ holder \in BOOLEAN
  BY DEF DownType
<1>1. \/ disconnectFlags' = disconnectFlags
      \/ \E f \in SUBSET Flags : disconnectFlags' = disconnectFlags \cup f
  BY DEF Flags, ConnectionNext, UserThread, SelectThread, do_send_bytes, maybe_send_bytes, Queue, GetSendMutex,
         ReleaseSendMutex, NetProcessQuits, Setup, ReadAll, Disconnect, ReadsDone, Complete,
         Prepare, Wake, RecvStep, SendStep, SkipSend, RemoveStep, DelayPasses, PeerSends,
         PeerCloses, connection_vars, down
<1>2. /\ fd_map' = fd_map \/ fd_map' = TRUE \/ fd_map' = FALSE
      /\ shut' = shut \/ shut' = TRUE
      /\ remove_set' = remove_set \/ remove_set' = TRUE \/ remove_set' = FALSE
      /\ holder' = holder \/ holder' = TRUE \/ holder' = FALSE
      /\ user' = user \/ user' \in {"reading", "closing", "closed", "waiting", "done"}
  BY DEF ConnectionNext, UserThread, SelectThread, do_send_bytes, maybe_send_bytes, Queue, GetSendMutex,
         ReleaseSendMutex, NetProcessQuits, Setup, ReadAll, Disconnect, ReadsDone, Complete,
         Prepare, Wake, RecvStep, SendStep, SkipSend, RemoveStep, DelayPasses, PeerSends,
         PeerCloses, connection_vars, down, loop, lock
<1>3. pipe' = pipe \/ pipe' \in BOOLEAN
  BY DEF ConnectionNext, UserThread, SelectThread, do_send_bytes, maybe_send_bytes, Queue, GetSendMutex,
         ReleaseSendMutex, NetProcessQuits, Setup, ReadAll, Disconnect, ReadsDone, Complete,
         Prepare, Wake, RecvStep, SendStep, SkipSend, RemoveStep, DelayPasses, PeerSends,
         PeerCloses, connection_vars
<1>4. disconnectFlags' \subseteq Flags
  BY <1>0, <1>1
<1>5. /\ fd_map' \in BOOLEAN /\ shut' \in BOOLEAN /\ remove_set' \in BOOLEAN
      /\ holder' \in BOOLEAN /\ pipe' \in BOOLEAN
  BY <1>0, <1>2, <1>3
<1>6. user' \in {"setup", "reading", "closing", "closed", "waiting", "done"}
  BY <1>0, <1>2
<1> QED
  BY <1>4, <1>5, <1>6 DEF DownType

----------------------------------------------------------------------------
(***************************************************************************)
(* Teardown.                                                               *)
(***************************************************************************)

\* The steps that have to do with the teardown, or with the inbound queue.
LEMMA DownCases ==
  ASSUME [ConnectionNext]_connection_vars
  PROVE  \/ /\ UNCHANGED <<inbound_queue, user, fd_map, remove_set>>
            /\ disconnectFlags' = disconnectFlags \/ disconnectFlags' = disconnectFlags \cup {"PRINT_AND_CLOSE"}
         \/ Setup \/ ReadAll \/ NetProcessQuits \/ Disconnect \/ ReadsDone \/ Complete
         \/ RecvStep \/ SendStep \/ RemoveStep
BY DEF ConnectionNext, UserThread, SelectThread, do_send_bytes, maybe_send_bytes, Queue, GetSendMutex,
       ReleaseSendMutex, Prepare, Wake, SkipSend, DelayPasses, PeerSends,
       PeerCloses, connection_vars, down, in, loop

LEMMA KnownToSelectStep ==
  ASSUME KnownToSelect, SelectType, DownType, [ConnectionNext]_connection_vars
  PROVE  KnownToSelect'
<1>0. /\ select.rd \/ select.wr \/ remove_set => fd_map
      /\ select.pc = "prepare" => ~select.rd /\ ~select.wr /\ ~remove_set
      /\ fd_map \in BOOLEAN /\ remove_set \in BOOLEAN
  BY DEF KnownToSelect, DownType
<1>1. CASE Prepare
  <2>1. /\ ~remove_set /\ UNCHANGED <<remove_set, fd_map>>
        /\ select'.rd => fd_map
        /\ select'.wr => fd_map
        /\ select'.pc = "sleep"
    BY <1>0, <1>1 DEF Prepare, down
  <2> QED
    BY <2>1 DEF KnownToSelect
<1>2. CASE Wake /\ select'.pc = "read" /\ (select'.rd => select.rd) /\ (select'.wr => select.wr)
  <2>1. UNCHANGED <<remove_set, fd_map>>
    BY <1>2 DEF Wake, down
  <2> QED
    BY <1>0, <1>2, <2>1 DEF KnownToSelect
<1>3. CASE RecvStep /\ select'.pc = "write" /\ select'.rd = select.rd /\ select'.wr = select.wr
  <2>1. /\ UNCHANGED fd_map
        /\ remove_set' = remove_set \/ select.rd
    BY <1>3 DEF RecvStep, down
  <2> QED
    BY <1>0, <1>3, <2>1 DEF KnownToSelect
<1>4. CASE /\ SendStep \/ SkipSend
           /\ select'.pc = "remove" /\ select'.rd = select.rd /\ select'.wr = select.wr
  <2>1. /\ UNCHANGED fd_map
        /\ remove_set' = remove_set \/ select.wr
    BY <1>4 DEF SendStep, SkipSend, down
  <2> QED
    BY <1>0, <1>4, <2>1 DEF KnownToSelect
<1>5. CASE RemoveStep /\ select'.pc = "prepare" /\ ~select'.rd /\ ~select'.wr
  <2>1. remove_set' = FALSE
    BY <1>5 DEF RemoveStep
  <2> QED
    BY <1>5, <2>1 DEF KnownToSelect
<1>6. CASE select' = select
  <2>1. ~SelectThread
    BY <1>6 DEF SelectThread, Prepare, Wake, RecvStep, SendStep, SkipSend, RemoveStep, SelectType
  <2>2. UNCHANGED remove_set /\ (fd_map => fd_map')
    BY <2>1 DEF ConnectionNext, UserThread, do_send_bytes, maybe_send_bytes, Queue, GetSendMutex,
           ReleaseSendMutex, NetProcessQuits, Setup, ReadAll, Disconnect, ReadsDone, Complete,
           DelayPasses, PeerSends, PeerCloses, connection_vars, down, loop
  <2> QED
    BY <1>0, <1>6, <2>2 DEF KnownToSelect
<1> QED
  BY <1>1, <1>2, <1>3, <1>4, <1>5, <1>6, SelectStep

\* The end of the input is the last element, if it is there, also after a step.
EndLast == \A k \in DOMAIN inbound_queue : inbound_queue[k] = "end" => k = Len(inbound_queue)

TeardownInv == EndInv /\ SafeToDelete

LEMMA TeardownStep ==
  ASSUME TeardownInv, KnownToSelect, InType, SelectType, DownType, [ConnectionNext]_connection_vars
  PROVE  TeardownInv'
<1>0. /\ inbound_queue \in Seq({"data", "end"})
      /\ select.rd \/ select.wr \/ remove_set => fd_map
      /\ Ended => "GLOBAL_THREAD_DONE" \in disconnectFlags
      /\ user = "setup" => /\ ~fd_map /\ "GLOBAL_THREAD_DONE" \notin disconnectFlags
                           /\ "COMPLETE" \notin disconnectFlags
      /\ "COMPLETE" \in disconnectFlags => ~fd_map /\ ~remove_set
      /\ fd_map => "GLOBAL_THREAD_DONE" \notin disconnectFlags
      /\ "GLOBAL_THREAD_DONE" \in disconnectFlags /\ user = "reading" =>
           inbound_queue # <<>> /\ inbound_queue[Len(inbound_queue)] = "end"
      /\ EndLast
      /\ fd_map \in BOOLEAN /\ remove_set \in BOOLEAN
  BY DEF TeardownInv, EndInv, SafeToDelete, KnownToSelect, InType, DownType, EndLast
<1> DEFINE Goal(q, flags, u, known, remove) ==
      /\ (\E k \in 1..Len(q) : q[k] = "end") => "GLOBAL_THREAD_DONE" \in flags
      /\ u = "setup" => /\ ~known /\ "GLOBAL_THREAD_DONE" \notin flags
                        /\ "COMPLETE" \notin flags
      /\ "COMPLETE" \in flags => ~known /\ ~remove
      /\ known => "GLOBAL_THREAD_DONE" \notin flags
      /\ "GLOBAL_THREAD_DONE" \in flags /\ u = "reading" => q # <<>> /\ q[Len(q)] = "end"
      /\ \A k \in DOMAIN q : q[k] = "end" => k = Len(q)
<1>1. Goal(inbound_queue, disconnectFlags, user, fd_map, remove_set)
  BY <1>0 DEF Ended, EndLast
<1> SUFFICES Goal(inbound_queue', disconnectFlags', user', fd_map', remove_set')
  BY DEF TeardownInv, EndInv, SafeToDelete, Ended
<1>2. CASE /\ UNCHANGED <<inbound_queue, user, fd_map, remove_set>>
           /\ \/ disconnectFlags' = disconnectFlags
              \/ disconnectFlags' = disconnectFlags \cup {"PRINT_AND_CLOSE"}
  BY <1>1, <1>2
<1>3. CASE Setup
  <2>1. /\ user = "setup" /\ UNCHANGED <<inbound_queue, remove_set>>
        /\ \/ fd_map' = TRUE /\ user' = "reading" /\ UNCHANGED disconnectFlags
           \/ /\ disconnectFlags' = disconnectFlags \cup {"GLOBAL_THREAD_DONE"}
              /\ user' = "closing" /\ UNCHANGED fd_map
    BY <1>3 DEF Setup, in, loop
  <2> QED
    BY <1>1, <2>1
<1>4. CASE ReadAll
  <2>1. CASE user' = "closing" /\ UNCHANGED inbound_queue
    <3>1. UNCHANGED <<disconnectFlags, fd_map, remove_set>>
      BY <1>4 DEF ReadAll, loop
    <3> QED
      BY <1>1, <2>1, <3>1
  <2>2. CASE /\ inbound_queue # <<>> /\ Head(inbound_queue) = "data"
             /\ inbound_queue' = Tail(inbound_queue) /\ UNCHANGED user
    <3>1. UNCHANGED <<disconnectFlags, fd_map, remove_set>>
      BY <1>4 DEF ReadAll, loop
    <3>2. /\ Len(inbound_queue) \in Nat /\ Len(inbound_queue) > 0
          /\ DOMAIN inbound_queue = 1..Len(inbound_queue)
          /\ inbound_queue[1] = "data"
          /\ DOMAIN inbound_queue' = 1..Len(inbound_queue')
          /\ Len(inbound_queue') = Len(inbound_queue) - 1
          /\ \A k \in 1..Len(inbound_queue') : inbound_queue'[k] = inbound_queue[k + 1]
          /\ Len(inbound_queue') > 0 => inbound_queue' # <<>>
      <4>1. Tail(inbound_queue) \in Seq({"data", "end"}) /\ inbound_queue[1] = "data"
        BY <1>0, <2>2
      <4>2. /\ Len(inbound_queue) \in Nat /\ Len(inbound_queue) > 0
            /\ Len(Tail(inbound_queue)) = Len(inbound_queue) - 1
            /\ \A k \in 1..(Len(inbound_queue) - 1) : Tail(inbound_queue)[k] = inbound_queue[k + 1]
        BY <1>0, <2>2
      <4>3. /\ DOMAIN inbound_queue = 1..Len(inbound_queue)
            /\ DOMAIN Tail(inbound_queue) = 1..Len(Tail(inbound_queue))
        BY <1>0, <4>1
      <4>4. inbound_queue' = <<>> => Len(inbound_queue') = 0
        OBVIOUS
      <4>5. inbound_queue' = Tail(inbound_queue)
        BY <2>2
      <4> QED
        BY <4>1, <4>2, <4>3, <4>4, <4>5
    <3>3. (\E k \in 1..Len(inbound_queue') : inbound_queue'[k] = "end")
             => \E k \in 1..Len(inbound_queue) : inbound_queue[k] = "end"
      BY <3>2
    <3>4. \A k \in DOMAIN inbound_queue' : inbound_queue'[k] = "end" => k = Len(inbound_queue')
      BY <1>1, <3>2
    <3>5. "GLOBAL_THREAD_DONE" \in disconnectFlags /\ user = "reading" =>
             inbound_queue' # <<>> /\ inbound_queue'[Len(inbound_queue')] = "end"
      <4>1. SUFFICES ASSUME inbound_queue[Len(inbound_queue)] = "end"
                     PROVE  inbound_queue' # <<>> /\ inbound_queue'[Len(inbound_queue')] = "end"
        BY <1>1
      <4>2. Len(inbound_queue) # 1
        BY <3>2, <4>1
      <4>3. Len(inbound_queue') \in 1..Len(inbound_queue')
        BY <3>2, <4>2
      <4> QED
        BY <3>2, <4>1, <4>3
    <3> QED
      BY <1>1, <2>2, <3>1, <3>3, <3>4, <3>5
  <2> QED
    BY <1>4, <2>1, <2>2 DEF ReadAll
<1>5. CASE NetProcessQuits
  BY <1>1, <1>5 DEF NetProcessQuits, in, loop
<1>6. CASE Disconnect
  BY <1>1, <1>6 DEF Disconnect, in, loop
<1>7. CASE ReadsDone
  BY <1>1, <1>7 DEF ReadsDone, in, loop
<1>8. CASE Complete
  <2>1. /\ "GLOBAL_THREAD_DONE" \in disconnectFlags /\ user' = "done"
        /\ disconnectFlags' = disconnectFlags \cup {"COMPLETE"}
        /\ UNCHANGED <<inbound_queue, fd_map, remove_set>>
    BY <1>8 DEF Complete, in, loop
  <2> QED
    BY <1>0, <1>1, <2>1
<1>9. CASE RecvStep
  <2>1. UNCHANGED <<disconnectFlags, user, fd_map>>
    BY <1>9 DEF RecvStep, down
  <2>2. CASE UNCHANGED <<inbound_queue, remove_set>>
    BY <1>1, <2>1, <2>2
  <2>3. CASE select.rd /\ UNCHANGED inbound_queue
    BY <1>0, <1>1, <2>1, <2>3
  <2>4. CASE select.rd /\ inbound_queue' = Append(inbound_queue, "data")
    <3>1. fd_map /\ \A k \in 1..Len(inbound_queue) : inbound_queue[k] # "end"
      BY <1>0, <2>4 DEF Ended
    <3>2. /\ Len(inbound_queue') = Len(inbound_queue) + 1 /\ Len(inbound_queue) \in Nat
          /\ DOMAIN inbound_queue' = 1..Len(inbound_queue')
          /\ \A k \in 1..Len(inbound_queue) : inbound_queue'[k] = inbound_queue[k]
          /\ inbound_queue'[Len(inbound_queue) + 1] = "data"
      BY <1>0, <2>4
    <3>3. \A k \in 1..Len(inbound_queue') : inbound_queue'[k] # "end"
      BY <3>1, <3>2
    <3> QED
      BY <1>1, <2>1, <3>1, <3>2, <3>3
  <2> QED
    BY <1>9, <2>2, <2>3, <2>4 DEF RecvStep
<1>10. CASE SendStep
  <2>1. /\ UNCHANGED <<disconnectFlags, user, fd_map, inbound_queue>>
        /\ remove_set' = remove_set \/ select.wr
    BY <1>10 DEF SendStep, down, in
  <2> QED
    BY <1>0, <1>1, <2>1
<1>11. CASE RemoveStep
  <2>1. remove_set' = FALSE /\ UNCHANGED user
    BY <1>11 DEF RemoveStep
  <2>2. CASE ~remove_set
    <3>1. UNCHANGED <<inbound_queue, disconnectFlags, fd_map>>
      BY <1>11, <2>2 DEF RemoveStep
    <3> QED
      BY <1>1, <2>1, <3>1
  <2>3. CASE remove_set
    <3>1. /\ inbound_queue' = Append(inbound_queue, "end") /\ fd_map' = FALSE
          /\ disconnectFlags' = disconnectFlags \cup {"GLOBAL_THREAD_DONE"}
      BY <1>11, <2>3 DEF RemoveStep
    <3>2. fd_map /\ \A k \in 1..Len(inbound_queue) : inbound_queue[k] # "end"
      BY <1>0, <2>3 DEF Ended
    <3>3. /\ Len(inbound_queue') = Len(inbound_queue) + 1 /\ Len(inbound_queue) \in Nat
          /\ DOMAIN inbound_queue' = 1..Len(inbound_queue')
          /\ \A k \in 1..Len(inbound_queue) : inbound_queue'[k] = inbound_queue[k]
          /\ inbound_queue'[Len(inbound_queue) + 1] = "end" /\ inbound_queue' # <<>>
      BY <1>0, <3>1
    <3>4. \A k \in DOMAIN inbound_queue' : inbound_queue'[k] = "end" => k = Len(inbound_queue')
      BY <3>2, <3>3
    <3> QED
      BY <1>1, <2>1, <3>1, <3>2, <3>3, <3>4
  <2> QED
    BY <2>2, <2>3
<1> QED
  BY DownCases, <1>2, <1>3, <1>4, <1>5, <1>6, <1>7, <1>8, <1>9, <1>10, <1>11

----------------------------------------------------------------------------
(***************************************************************************)
(* Wakeups.                                                                *)
(***************************************************************************)

\* NoLostWakeup in terms of the counters.
Awake ==
  select.pc = "sleep" /\ fd_map /\ ~pipe =>
    /\ total_waiting_size > 0 => select.wr \/ select.soon
    /\ total_inbound_size < InboundLimit => select.rd

LEMMA AwakeStep ==
  ASSUME Awake, EndInv, OutType, InType, SelectType, DownType, [ConnectionNext]_connection_vars
  PROVE  Awake'
<1>0. /\ total_waiting_size \in Nat /\ total_inbound_size \in Nat /\ InboundLimit \in Nat
      /\ fd_map \in BOOLEAN /\ pipe \in BOOLEAN
      /\ user = "setup" => ~fd_map
  BY ConnectionAssumption DEF OutType, InType, DownType, EndInv
<1>1. CASE select'.pc # "sleep"
  BY <1>1 DEF Awake
<1>2. CASE Prepare
  BY <1>0, <1>2 DEF Prepare, Awake, WantsRead, down, out, in
<1>3. ASSUME UNCHANGED select, NEW queue, NEW len \in Size, NEW bytes, Queue(queue, len, bytes)
      PROVE  Awake'
  <2>1. UNCHANGED <<total_inbound_size, fd_map>>
    BY <1>3 DEF Queue, in
  <2>2. CASE UNCHANGED <<total_waiting_size, pipe>>
    BY <1>3, <2>1, <2>2 DEF Awake
  <2>3. CASE /\ total_waiting_size' = total_waiting_size + len
             /\ pipe' = (pipe \/ total_waiting_size' = len)
    <3>1. len \in Nat
      BY ConnectionAssumption DEF Size
    <3>2. CASE total_waiting_size = 0
      <4>0. total_waiting_size' = len
        BY <2>3, <3>1, <3>2
      <4>1. pipe'
        BY <2>3, <4>0
      <4> QED
        BY <4>1 DEF Awake
    <3>3. CASE total_waiting_size > 0
      <4>1. pipe => pipe'
        BY <2>3
      <4> QED
        BY <1>3, <2>1, <3>3, <4>1 DEF Awake
    <3> QED
      BY <1>0, <3>2, <3>3
  <2> QED
    BY <1>3, <2>2, <2>3 DEF Queue
<1>4. CASE UNCHANGED select /\ Setup
  <2>1. pipe' = TRUE \/ UNCHANGED fd_map
    BY <1>4 DEF Setup
  <2>2. ~fd_map
    BY <1>0, <1>4 DEF Setup
  <2> QED
    BY <2>1, <2>2 DEF Awake
<1>5. CASE UNCHANGED select /\ ReadAll
  <2>1. UNCHANGED <<total_waiting_size, fd_map>>
    BY <1>5 DEF ReadAll, out
  <2>2. CASE UNCHANGED <<total_inbound_size, pipe>>
    BY <1>5, <2>1, <2>2 DEF Awake
  <2>3. CASE total_inbound_size' = total_inbound_size - 1 /\ pipe' = (pipe \/ Unpauses)
    <3>1. CASE total_inbound_size >= InboundLimit
      <4>1. pipe'
        BY <2>3, <3>1 DEF Unpauses
      <4> QED
        BY <4>1 DEF Awake
    <3>2. CASE total_inbound_size < InboundLimit
      <4>1. pipe => pipe'
        BY <2>3
      <4> QED
        BY <1>5, <2>1, <3>2, <4>1 DEF Awake
    <3> QED
      BY <1>0, <3>1, <3>2
  <2> QED
    BY <1>5, <2>2, <2>3 DEF ReadAll
<1>6. CASE UNCHANGED <<select, fd_map, pipe, total_waiting_size, total_inbound_size>>
  BY <1>6 DEF Awake
<1>7. CASE select' = select
  <2>1. ~SelectThread
    BY <1>7 DEF SelectThread, Prepare, Wake, RecvStep, SendStep, SkipSend, RemoveStep, SelectType
  <2>2. \/ \E queue \in {"primary", "secondary"}, len \in Size : \E bytes : Queue(queue, len, bytes)
        \/ Setup \/ ReadAll
        \/ UNCHANGED <<fd_map, pipe, total_waiting_size, total_inbound_size>>
    BY <2>1 DEF ConnectionNext, UserThread, do_send_bytes, maybe_send_bytes, GetSendMutex,
           ReleaseSendMutex, NetProcessQuits, Disconnect, ReadsDone, Complete,
           DelayPasses, PeerSends, PeerCloses, connection_vars, down, loop, out, in, Size
  <2> QED
    BY <1>3, <1>4, <1>5, <1>6, <1>7, <2>2
<1> QED
  BY <1>1, <1>2, <1>7, SelectStep

----------------------------------------------------------------------------
(***************************************************************************)
(* The theorems.                                                           *)
(***************************************************************************)

LEMMA TypeParts == ConnectionTypeOK <=> OutType /\ InType /\ SelectType /\ DownType
BY DEF ConnectionTypeOK, OutType, InType, SelectType, DownType, Size

LEMMA WholeParts == WholeMessages <=> Begun /\ SomethingToWrite
BY DEF WholeMessages, Begun, SomethingToWrite

LEMMA AwakeParts == ASSUME BufferBounded, Counted PROVE NoLostWakeup <=> Awake
BY DEF NoLostWakeup, Awake, BufferBounded, Counted

LEMMA InitInv == ASSUME ConnectionInit PROVE ConnectionInv
<1>0. MaxMsgSize \in Nat \ {0} /\ max_outbound_buffer_size \in Nat /\ MaxIn \in Nat
  BY ConnectionAssumption
<1>1. SumSeq(<<>>) = 0
  BY SumEmpty
<1>2. WaitingBytes = 0
  BY <1>1 DEF ConnectionInit, WaitingBytes
<1>3. Unread = 0
  <2>1. [k \in 1..Len(inbound_queue) |-> IF inbound_queue[k] = "data" THEN 1 ELSE 0] = <<>>
    BY DEF ConnectionInit
  <2> QED
    BY <1>1, <2>1 DEF Unread
<1>4. ConnectionTypeOK
  <2>1. OutType
    <3>1. <<>> \in Seq(Size) /\ 0 \in 0..(MaxMsgSize - 1) /\ 0 \in Nat
      BY <1>0
    <3> QED
      BY <3>1 DEF ConnectionInit, OutType
  <2>2. InType
    BY <1>0 DEF ConnectionInit, InType
  <2>3. SelectType
    BY DEF ConnectionInit, SelectType
  <2>4. DownType
    BY DEF ConnectionInit, DownType
  <2> QED
    BY <2>1, <2>2, <2>3, <2>4, TypeParts
<1>5. BufferBounded /\ Counted
  BY <1>0, <1>2, <1>3 DEF ConnectionInit, BufferBounded, Counted
<1>6. WholeMessages
  BY DEF ConnectionInit, WholeMessages
<1>7. NoLostWakeup /\ KnownToSelect
  BY DEF ConnectionInit, NoLostWakeup, KnownToSelect
<1>8. EndInv /\ SafeToDelete
  BY DEF ConnectionInit, EndInv, Ended, SafeToDelete
<1> QED
  BY <1>4, <1>5, <1>6, <1>7, <1>8 DEF ConnectionInv

LEMMA StepInv == ASSUME ConnectionInv, [ConnectionNext]_connection_vars PROVE ConnectionInv'
<1>0. /\ OutType /\ InType /\ SelectType /\ DownType /\ Begun /\ SomethingToWrite
      /\ QueuesInv /\ Counted /\ KnownToSelect /\ EndInv /\ TeardownInv /\ Awake
  BY TypeParts, WholeParts, AwakeParts DEF ConnectionInv, QueuesInv, TeardownInv
<1>1. QueuesInv'
  BY <1>0, QueuesStep DEF DownType
<1>2. InType' /\ Counted'
  BY <1>0, InboundStep
<1>3. SelectType'
  BY <1>0, SelectStep
<1>4. DownType'
  BY <1>0, DownTypeStep
<1>5. SomethingToWrite'
  BY <1>0, SomethingToWriteStep
<1>6. KnownToSelect'
  BY <1>0, KnownToSelectStep
<1>7. TeardownInv'
  BY <1>0, TeardownStep
<1>8. Awake'
  BY <1>0, AwakeStep
<1>9. ConnectionTypeOK' /\ WholeMessages' /\ NoLostWakeup'
  <2>1. OutType' /\ Begun' /\ BufferBounded'
    BY <1>1 DEF QueuesInv
  <2>2. ConnectionTypeOK'
    BY <1>2, <1>3, <1>4, <2>1 DEF ConnectionTypeOK, OutType, InType, SelectType, DownType, Size
  <2>3. WholeMessages'
    BY <1>5, <2>1 DEF WholeMessages, Begun, SomethingToWrite
  <2>4. NoLostWakeup'
    BY <1>2, <1>8, <2>1 DEF NoLostWakeup, Awake, BufferBounded, Counted
  <2> QED
    BY <2>2, <2>3, <2>4
<1> QED
  BY <1>1, <1>2, <1>6, <1>7, <1>9 DEF ConnectionInv, QueuesInv, TeardownInv

LEMMA ConnectionInvariance == ConnectionSpec => []ConnectionInv
<1>1. ConnectionInit => ConnectionInv
  BY InitInv
<1>2. ConnectionInv /\ [ConnectionNext]_connection_vars => ConnectionInv'
  BY StepInv
<1> QED
  BY <1>1, <1>2, PTL DEF ConnectionSpec

\* Every variable of the connection keeps its type; the positions stay within a message.
THEOREM ConnectionTypes == ConnectionSpec => []ConnectionTypeOK
<1>1. ConnectionInv => ConnectionTypeOK
  BY DEF ConnectionInv
<1> QED
  BY <1>1, ConnectionInvariance, PTL

\* Whatever the senders and the select thread do and in whatever order, the messages of
\* the two queues are not mixed on the wire, and the asserts of the sending branch of
\* do_net_process hold.
THEOREM MessagesStayWhole == ConnectionSpec => []WholeMessages
<1>1. ConnectionInv => WholeMessages
  BY DEF ConnectionInv
<1> QED
  BY <1>1, ConnectionInvariance, PTL

\* total_waiting_size is the size of the queues, and max_outbound_buffer_size bounds it
\* up to one message and the bytes sent with a token under the initial throttle.
THEOREM OutboundBounded == ConnectionSpec => []BufferBounded
<1>1. ConnectionInv => BufferBounded
  BY DEF ConnectionInv
<1> QED
  BY <1>1, ConnectionInvariance, PTL

\* The pipe and the two counters suffice: no order of the threads' steps leaves the
\* select thread asleep over something it was to send or to read.
THEOREM NoWakeupLost == ConnectionSpec => []NoLostWakeup
<1>1. ConnectionInv => NoLostWakeup
  BY DEF ConnectionInv
<1> QED
  BY <1>1, ConnectionInvariance, PTL

\* A completed connection is unknown to the select thread, which told its reader of the
\* end once, as the last thing.
THEOREM DeletionSafe == ConnectionSpec => []SafeToDelete
<1>1. ConnectionInv => SafeToDelete
  BY DEF ConnectionInv
<1> QED
  BY <1>1, ConnectionInvariance, PTL

----------------------------------------------------------------------------
(***************************************************************************)
(* Keepalive: the outbound connection that is made again and again, with   *)
(* its pings, for any number of connections and any sequence of nonces.    *)
(***************************************************************************)

\* The keepalive waits for the last nonce it made up or for none, and for none while it
\* does not count itself connected, which it never does before on_connect_keepalive.
WaitsForLast ==
  /\ ping_nonces_waiting \subseteq {next_nonce}
  /\ ~connected => ping_nonces_waiting = {}
  /\ phase \in {"connect", "setup"} => ~connected

\* What the peer of this connection has been sent: by a keepalive that is not connected
\* at most the ping that a timer noted for an earlier connection.
PeerPinged ==
  /\ phase = "setup" /\ ~scheduled => pinged = {}
  /\ phase \in {"setup", "up"} /\ ~connected => pinged \subseteq {next_nonce}
  /\ phase = "up" /\ connected =>
       /\ timer = "send" => pinged = {} /\ ping_nonces_waiting = {next_nonce} /\ asked = connection
       /\ timer # "send" => pinged = ping_nonces_waiting /\ (ping_nonces_waiting # {} => asked = connection)

\* The inductive invariant.
PingInv == KeepaliveTypeOK /\ WaitsForLast /\ PeerPinged

----------------------------------------------------------------------------

\* next_nonce stays a uint64_t: the product is taken modulo 2^64.
LEMMA NonceInRange ==
  ASSUME next_nonce \in 0..(NonceMod - 1)
  PROVE  (next_nonce * Multiplier) % NonceMod \in 0..(NonceMod - 1)
<1> DEFINE product == next_nonce * Multiplier
<1>1. product \in Nat /\ NonceMod \in Nat /\ NonceMod > 0
  BY KeepaliveAssumption
<1> HIDE DEF product
<1>2. product % NonceMod \in 0..(NonceMod - 1)
  BY <1>1
<1> QED
  BY <1>2 DEF product

LEMMA PingInit == ASSUME KeepaliveInit PROVE PingInv
<1> USE DEF KeepaliveInit
<1>1. made \in 0..MaxConn /\ asked \in 0..MaxConn
  BY KeepaliveAssumption
<1>2. next_nonce \in 0..(NonceMod - 1)
  BY KeepaliveAssumption
<1>3. KeepaliveTypeOK
  BY <1>1, <1>2 DEF KeepaliveTypeOK
<1>4. WaitsForLast /\ PeerPinged
  BY DEF WaitsForLast, PeerPinged
<1> QED
  BY <1>3, <1>4 DEF PingInv

\* Every step preserves the types and what is known of the phases.
LEMMA PingTypes == ASSUME KeepaliveTypeOK, [KeepaliveNext]_keepalive_vars PROVE KeepaliveTypeOK'
<1> USE DEF KeepaliveTypeOK, ping
<1>1. CASE DoConnect
  <2>1. made' \in 0..MaxConn /\ connection' \in {0, made'} /\ asked' \in 0..MaxConn
    BY <1>1, KeepaliveAssumption DEF DoConnect
  <2>2. phase' \in {"connect", "swapped"} <=> connection' = 0
    BY <1>1 DEF DoConnect
  <2>3. shut_down' \in BOOLEAN /\ pinged' \subseteq 0..(NonceMod - 1) /\ peer' \in {"live", "dead"}
    BY <1>1 DEF DoConnect
  <2> QED
    BY <1>1, <2>1, <2>2, <2>3 DEF DoConnect
<1>2. CASE OnConnect
  BY <1>2 DEF OnConnect
<1>3. CASE ConnectionLost
  BY <1>3 DEF ConnectionLost
<1>4. CASE Reconnect
  BY <1>4 DEF Reconnect
<1>5. CASE OnDisconnect
  BY <1>5 DEF OnDisconnect
<1>6. CASE TimerFires
  <2>1. next_nonce' \in 0..(NonceMod - 1) /\ ping_nonces_waiting' \subseteq 0..(NonceMod - 1)
    BY <1>6, NonceInRange DEF TimerFires
  <2>2. shut_down' \in BOOLEAN
    BY <1>6 DEF TimerFires
  <2>3. asked' \in 0..MaxConn
    <3>1. connection \in 0..MaxConn
      BY KeepaliveAssumption
    <3> QED
      BY <1>6, <3>1 DEF TimerFires
  <2>4. timer' \in {"set", "send"} /\ timer = "set" /\ UNCHANGED <<connected, scheduled>>
    BY <1>6 DEF TimerFires
  <2>5. UNCHANGED <<phase, connection, made, peer, pinged>>
    BY <1>6 DEF TimerFires
  <2> QED
    BY <2>1, <2>2, <2>3, <2>4, <2>5
<1>7. CASE SendPing
  BY <1>7 DEF SendPing
<1>8. CASE Pong
  BY <1>8 DEF Pong
<1>9. CASE PeerDies
  BY <1>9 DEF PeerDies
<1>10. CASE UNCHANGED keepalive_vars
  BY <1>10 DEF keepalive_vars
<1> QED
  BY <1>1, <1>2, <1>3, <1>4, <1>5, <1>6, <1>7, <1>8, <1>9, <1>10 DEF KeepaliveNext

\* Every step preserves what is waited for and what the peer was sent.
LEMMA PingSteps == ASSUME PingInv, [KeepaliveNext]_keepalive_vars PROVE PingInv'
<1>0. KeepaliveTypeOK'
  BY PingTypes DEF PingInv
<1> SUFFICES WaitsForLast' /\ PeerPinged'
  BY <1>0 DEF PingInv
<1> USE DEF PingInv, KeepaliveTypeOK, WaitsForLast, PeerPinged, ping
<1>1. CASE DoConnect
  BY <1>1 DEF DoConnect
<1>2. CASE OnConnect
  BY <1>2 DEF OnConnect
<1>3. CASE ConnectionLost
  BY <1>3 DEF ConnectionLost
<1>4. CASE Reconnect
  BY <1>4 DEF Reconnect
<1>5. CASE OnDisconnect
  BY <1>5 DEF OnDisconnect
<1>6. CASE TimerFires
  <2>1. CASE UNCHANGED <<ping, timer, asked>>
    BY <1>6, <2>1 DEF TimerFires
  <2>2. CASE ~UNCHANGED <<ping, timer, asked>>
    BY <1>6, <2>2 DEF TimerFires
  <2> QED
    BY <2>1, <2>2
<1>7. CASE SendPing
  <2>1. WaitsForLast'
    BY <1>7 DEF SendPing
  <2>2. scheduled /\ UNCHANGED <<ping, phase, connection, asked>>
    BY <1>7 DEF SendPing
  <2>3. CASE phase = "up"
    <3>1. connection # 0 /\ pinged' = pinged \cup {next_nonce} /\ timer = "send" /\ timer' = "set"
      BY <1>7, <2>3 DEF SendPing
    <3> QED
      BY <2>2, <2>3, <3>1
  <2>4. CASE phase # "up"
    BY <1>7, <2>2, <2>4 DEF SendPing
  <2> QED
    BY <2>1, <2>3, <2>4
<1>8. CASE Pong
  BY <1>8 DEF Pong
<1>9. CASE PeerDies
  BY <1>9 DEF PeerDies
<1>10. CASE UNCHANGED keepalive_vars
  BY <1>10 DEF keepalive_vars
<1> QED
  BY <1>1, <1>2, <1>3, <1>4, <1>5, <1>6, <1>7, <1>8, <1>9, <1>10 DEF KeepaliveNext

----------------------------------------------------------------------------

LEMMA PingInvariance == KeepaliveSpec => []PingInv
<1>1. KeepaliveInit => PingInv
  BY PingInit
<1>2. PingInv /\ [KeepaliveNext]_keepalive_vars => PingInv'
  BY PingSteps
<1> QED
  BY <1>1, <1>2, PTL DEF KeepaliveSpec

\* Types hold, the timer is in actions_map exactly when scheduled is set, and there is a
\* connection pointer exactly from do_connect to reconnect.
THEOREM KeepaliveTypes == KeepaliveSpec => []KeepaliveTypeOK
<1>1. PingInv => KeepaliveTypeOK
  BY DEF PingInv
<1> QED
  BY <1>1, PingInvariance, PTL

\* A peer is measured by its own ping only, although the ping is sent after ping_mutex
\* was released and on whatever connection there is by then
\* (connection.cpp:443-454 against 394-401).
THEOREM MeasuredByOwnPing == KeepaliveSpec => []OwnPing
<1>1. PingInv => OwnPing
  BY DEF PingInv, KeepaliveTypeOK, WaitsForLast, PeerPinged, OwnPing
<1> QED
  BY <1>1, PingInvariance, PTL

\* At most one ping is waited for and at most one is with the peer, although nonces
\* repeat (connection.cpp:451-452).
THEOREM OnePingOutstanding == KeepaliveSpec => []OnePing
<1>1. ASSUME NEW S, NEW x, S \subseteq {x} PROVE Cardinality(S) <= 1
  <2>1. S = {} \/ S = {x}
    BY <1>1
  <2>2. Cardinality({}) = 0 /\ Cardinality({x}) = 1
    BY FS_EmptySet, FS_Singleton
  <2> QED
    BY <2>1, <2>2
<1>2. PingInv => ping_nonces_waiting \subseteq {next_nonce}
  BY DEF PingInv, WaitsForLast
<1>3. PingInv /\ phase = "up" => pinged \subseteq {next_nonce}
  BY DEF PingInv, KeepaliveTypeOK, WaitsForLast, PeerPinged
<1>4. PingInv => OnePing
  BY <1>1, <1>2, <1>3 DEF OnePing
<1> QED
  BY <1>4, PingInvariance, PTL
=============================================================================
