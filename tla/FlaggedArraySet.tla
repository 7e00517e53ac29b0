-------------------------- MODULE FlaggedArraySet --------------------------
(***************************************************************************)
(* FlaggedArraySet (flaggedarrayset.h, flaggedarrayset.cpp): the ordered   *)
(* set of transactions each end of a relay connection keeps.               *)
(*                                                                         *)
(* backingMap maps every element to its position plus offset, indexMap is  *)
(* the list itself.  Removal by position is lazy: remove(index) only notes *)
(* index in to_be_removed, and the next operation that needs the real list *)
(* runs cleanup_late_remove first.  Every operation runs under the object's*)
(* mutex; its two loops (the cleanup, and add's eviction) are one action   *)
(* per iteration here, with pc saying where the holder of the mutex is.    *)
(*                                                                         *)
(* Positions are 0-based as in the code: position p is indexMap[p + 1].    *)
(***************************************************************************)
EXTENDS Integers, Sequences, SequencesExt, FiniteSets, Sums

CONSTANTS Elem,          \* transactions; == is equality of their bytes
          Flag,          \* the flag each is added with: its size, or oversize or not
          maxSize,       \* maxSize
          maxFlagCount,  \* maxFlagCount
          MaxOffset      \* bound of the model: offset is a 64-bit counter in the code

ASSUME FASAssumption ==
  /\ Flag \in [Elem -> Nat]
  /\ maxSize \in Nat /\ maxFlagCount \in Nat /\ MaxOffset \in Nat

VARIABLES
  backingMap,       \* element -> position + offset
  indexMap,         \* the elements in order, pending removals included
  offset,           \* number of removals served by shifting the front
  flag_count,       \* sum of the flags in indexMap
  to_be_removed,    \* positions noted by remove(index), in order
  max_remove,       \* the largest of them
  flags_to_remove,  \* sum of their flags
  pc,               \* "idle", or where the running operation is
  op,               \* the running operation, with its argument
  i,                \* the loop counter of cleanup_late_remove
  res               \* what the last operation answered

lazy == <<to_be_removed, max_remove, flags_to_remove>>
list == <<backingMap, indexMap, offset, flag_count>>
vars == <<list, lazy, pc, op, i, res>>

(***************************************************************************)
(* The operations and their arguments.                                     *)
(***************************************************************************)
Op == [name : {"add", "remove_elem", "contains", "contains_hash"}, arg : Elem]
        \cup [name : {"remove_index"}, arg : 0..maxSize]
        \cup [name : {"for_all_txn", "idle"}, arg : {0}]

Idle == [name |-> "idle", arg |-> 0]

\* size() and flagCount(): the removals that are only noted do not count.
size == Cardinality(DOMAIN backingMap) - Len(to_be_removed)
flagCount == flag_count - flags_to_remove

OverLimit == size > maxSize \/ flagCount > maxFlagCount

----------------------------------------------------------------------------

Init ==
  /\ backingMap = <<>> /\ indexMap = <<>> /\ offset = 0 /\ flag_count = 0
  /\ to_be_removed = <<>> /\ max_remove = 0 /\ flags_to_remove = 0
  /\ pc = "idle" /\ op = Idle /\ i = 0 /\ res = <<"none">>

\* Mutant of remove_: the front is shifted the wrong way.
remove_Mutant(index) ==
  LET rm    == indexMap[index + 1]
      front == index < Len(indexMap) \div 2
  IN /\ flag_count' = flag_count - Flag[rm]
     /\ offset' = IF front THEN offset + 1 ELSE offset
     /\ backingMap' = [e \in DOMAIN backingMap \ {rm} |->
                         IF front = (\E k \in 1..index : indexMap[k] = e)
                         THEN backingMap[e] - 1 ELSE backingMap[e]]
     /\ indexMap' = RemoveAt(indexMap, index + 1)

\* remove_(index): positions are repaired on the shorter side of the hole, by
\* shifting the front against offset or the back against the list.
remove_(index) ==
  LET rm    == indexMap[index + 1]
      front == index < Len(indexMap) \div 2
      Before(e) == \E k \in 1..index : indexMap[k] = e
      After(e)  == \E k \in (index + 2)..Len(indexMap) : indexMap[k] = e
  IN /\ flag_count' = flag_count - Flag[rm]
     /\ offset' = IF front THEN offset + 1 ELSE offset
     /\ backingMap' = [e \in DOMAIN backingMap \ {rm} |->
                         IF front /\ Before(e) THEN backingMap[e] + 1
                         ELSE IF ~front /\ After(e) THEN backingMap[e] - 1
                         ELSE backingMap[e]]
     /\ indexMap' = RemoveAt(indexMap, index + 1)

\* Mutant of Begin: remove(index) never runs the pending removals.
BeginMutant ==
  /\ pc = "idle"
  /\ offset + Len(indexMap) < MaxOffset
  /\ \E o \in Op \ {Idle} :
       /\ op' = o
       /\ pc' = IF o.name = "remove_index" THEN "body" ELSE "cleanup"
  /\ i' = 0
  /\ UNCHANGED <<list, lazy, res>>

\* An operation takes the mutex.  All but remove(index) of a position not
\* below the pending ones first run the pending removals.
Begin ==
  /\ pc = "idle"
  /\ offset + Len(indexMap) < MaxOffset
  /\ \E o \in Op \ {Idle} :
       /\ op' = o
       /\ pc' = IF o.name = "remove_index" /\ o.arg >= max_remove
                THEN "body" ELSE "cleanup"
  /\ i' = 0
  /\ UNCHANGED <<list, lazy, res>>

\* One iteration of cleanup_late_remove: the noted positions are those of the
\* list as it was when each was noted, so they are removed in that order.
CleanupStep ==
  /\ pc = "cleanup" /\ i < Len(to_be_removed)
  /\ remove_(to_be_removed[i + 1])
  /\ i' = i + 1
  /\ UNCHANGED <<lazy, pc, op, res>>

\* Mutant of CleanupDone: flags_to_remove is not reset.
CleanupDoneMutant ==
  /\ pc = "cleanup" /\ i = Len(to_be_removed)
  /\ to_be_removed' = <<>> /\ max_remove' = 0
  /\ i' = 0 /\ pc' = "body"
  /\ UNCHANGED <<list, flags_to_remove, op, res>>

CleanupDone ==
  /\ pc = "cleanup" /\ i = Len(to_be_removed)
  /\ to_be_removed' = <<>> /\ flags_to_remove' = 0 /\ max_remove' = 0
  /\ i' = 0 /\ pc' = "body"
  /\ UNCHANGED <<list, op, res>>

Return(r) == pc' = "idle" /\ op' = Idle /\ res' = r

\* add: a known element is left where it is; a new one goes to the end and
\* the eviction loop starts.
Add ==
  /\ pc = "body" /\ op.name = "add"
  /\ \/ /\ op.arg \in DOMAIN backingMap
        /\ Return(<<"none">>)
        /\ UNCHANGED list
     \/ /\ op.arg \notin DOMAIN backingMap
        /\ backingMap' = [e \in DOMAIN backingMap \cup {op.arg} |->
                            IF e = op.arg THEN size + offset ELSE backingMap[e]]
        /\ indexMap' = Append(indexMap, op.arg)
        /\ flag_count' = flag_count + Flag[op.arg]
        /\ pc' = "evict" /\ res' = <<"none">>
        /\ UNCHANGED <<offset, op>>
  /\ UNCHANGED <<lazy, i>>

EvictStep ==
  /\ pc = "evict" /\ OverLimit
  /\ remove_(0)
  /\ UNCHANGED <<lazy, pc, op, i, res>>

EvictDone ==
  /\ pc = "evict" /\ ~OverLimit
  /\ Return(res)
  /\ UNCHANGED <<list, lazy, i>>

\* remove(start, end): the element given by its bytes; answers its position.
RemoveElem ==
  /\ pc = "body" /\ op.name = "remove_elem"
  /\ \/ /\ op.arg \notin DOMAIN backingMap
        /\ Return(<<"index", -1>>)
        /\ UNCHANGED list
     \/ /\ op.arg \in DOMAIN backingMap
        /\ Return(<<"index", backingMap[op.arg] - offset>>)
        /\ remove_(backingMap[op.arg] - offset)
  /\ UNCHANGED <<lazy, i>>

\* remove(index): the element is handed out and its position noted.  (The code's
\* other branch, index below max_remove, is never taken: Begin has cleaned up.)
RemoveIndex ==
  LET lookup_index == op.arg + Len(to_be_removed) IN
  /\ pc = "body" /\ op.name = "remove_index"
  /\ \/ /\ lookup_index >= Len(indexMap)
        /\ Return(<<"absent">>)
        /\ UNCHANGED lazy
     \/ /\ lookup_index < Len(indexMap)
        /\ Return(<<"elem", indexMap[lookup_index + 1]>>)
        /\ to_be_removed' = Append(to_be_removed, op.arg)
        /\ max_remove' = op.arg
        /\ flags_to_remove' = flags_to_remove + Flag[indexMap[lookup_index + 1]]
  /\ UNCHANGED <<list, i>>

\* contains by element looks in backingMap, contains by hash walks indexMap.
Lookup ==
  /\ pc = "body"
  /\ \/ /\ op.name = "contains"
        /\ Return(<<"found", op.arg \in DOMAIN backingMap>>)
     \/ /\ op.name = "contains_hash"
        /\ Return(<<"found", op.arg \in ToSet(indexMap)>>)
  /\ UNCHANGED <<list, lazy, i>>

ForAllTxn ==
  /\ pc = "body" /\ op.name = "for_all_txn"
  /\ Return(<<"all", indexMap>>)
  /\ UNCHANGED <<list, lazy, i>>

\* clear() drops the pending removals without running them.
Clear ==
  /\ pc = "idle"
  /\ backingMap' = <<>> /\ indexMap' = <<>> /\ offset' = 0 /\ flag_count' = 0
  /\ to_be_removed' = <<>> /\ max_remove' = 0 /\ flags_to_remove' = 0
  /\ res' = <<"none">>
  /\ UNCHANGED <<pc, op, i>>

Next ==
  \/ Begin \/ CleanupStep \/ CleanupDone
  \/ Add \/ EvictStep \/ EvictDone
  \/ RemoveElem \/ RemoveIndex \/ Lookup \/ ForAllTxn \/ Clear

Spec == Init /\ [][Next]_vars

----------------------------------------------------------------------------
(***************************************************************************)
(* Properties.                                                             *)
(***************************************************************************)

\* Every variable keeps its type: a stored position is never negative (it is a
\* uint64_t in flaggedarrayset.h), and the running operation is a real one.
TypeOK ==
  /\ indexMap \in Seq(Elem)
  /\ DOMAIN backingMap \subseteq Elem
  /\ \A e \in DOMAIN backingMap : backingMap[e] \in Nat
  /\ offset \in Nat /\ flag_count \in Int
  /\ to_be_removed \in Seq(Nat) /\ max_remove \in Nat /\ flags_to_remove \in Nat
  /\ pc \in {"idle", "cleanup", "body", "evict"}
  /\ op \in Op
  /\ i \in Nat

\* sanity_check: indexMap and backingMap hold the same elements, each once, and
\* the position stored for an element, less offset, is where it stands, after
\* every single removal (flaggedarrayset.cpp:219-223).
PositionsInv ==
  /\ \A e \in DOMAIN backingMap : \E k \in DOMAIN indexMap : indexMap[k] = e
  /\ \A k \in DOMAIN indexMap :
       /\ indexMap[k] \in DOMAIN backingMap
       /\ backingMap[indexMap[k]] = (k - 1) + offset

\* The removals still to be run: from the one after the i the loop has done.
Waiting == (i + 1)..Len(to_be_removed)

\* sanity_check: the m-th noted position finds its element, in the list with the
\* earlier ones still present, m - 1 places further on; it lies in the list, and
\* running the removals in order never leaves it (flaggedarrayset.cpp:230, 263).
PendingInv ==
  /\ i <= Len(to_be_removed)
  /\ \A m \in Waiting : to_be_removed[m] + (m - i) <= Len(indexMap)
  /\ \A m, n \in DOMAIN to_be_removed : m <= n => to_be_removed[m] <= to_be_removed[n]
  /\ \A m \in DOMAIN to_be_removed : to_be_removed[m] <= max_remove
  /\ pc = "cleanup" \/ i = 0
  /\ pc = "evict" => to_be_removed = <<>>
  /\ pc = "body" /\ op.name # "remove_index" => to_be_removed = <<>>
  /\ pc = "body" /\ op.name = "remove_index" => op.arg >= max_remove

FlagSum(l) == SumSeq([k \in 1..Len(l) |-> Flag[l[k]]])

\* The elements whose removal is noted.
Noted == [m \in 1..Len(to_be_removed) |-> indexMap[to_be_removed[m] + m]]

\* sanity_check and the asserts of add: both flag counters are the sums they stand
\* for, and between operations the set is within both limits
\* (flaggedarrayset.cpp:226-236, 303-306).
FlagsInv ==
  /\ flag_count = FlagSum(indexMap)
  /\ pc = "idle" => flags_to_remove = FlagSum(Noted) /\ ~OverLimit
  /\ pc = "evict" => size <= maxSize + 1 /\ flagCount <= maxFlagCount + Flag[op.arg]

\* What a list is once positions are removed from it one by one, each a position in
\* what the ones before it have left.
RemoveAll(l, positions) ==
  LET left[k \in 0..Len(positions)] ==
        IF k = 0 THEN l ELSE RemoveAt(left[k - 1], positions[k] + 1)
  IN  left[Len(positions)]

\* The list the callers reckon with: the one the waiting removals will leave.
View == RemoveAll(indexMap, SubSeq(to_be_removed, i + 1, Len(to_be_removed)))

Cache == INSTANCE TxCache WITH cache <- View

\* Every operation, however late its removals are run, changes the list and
\* answers as the eager list of TxCache does.
ImplementsTxCache == Cache!Spec
=============================================================================
