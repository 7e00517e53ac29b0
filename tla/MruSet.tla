------------------------------ MODULE MruSet ------------------------------
(***************************************************************************)
(* mruset and vectormruset (mruset.h): sets that remember the most recent  *)
(* elements only.  The std::set always has the elements of the deque, so a *)
(* set is here the sequence of its elements, the oldest first.             *)
(***************************************************************************)
EXTENDS Integers, SequencesExt

\* Mutant of insert: nothing is ever forgotten.
insertMutant(queue, x, nMaxSize) ==
  [second |-> x \notin ToSet(queue),
   queue  |-> IF x \in ToSet(queue) THEN queue ELSE Append(queue, x)]

\* mruset::insert: limit_size runs before x enters the deque, x being in the set.
insert(queue, x, nMaxSize) ==
  [second |-> x \notin ToSet(queue),
   queue  |-> IF x \in ToSet(queue) THEN queue
              ELSE Append(IF Len(queue) + 1 > nMaxSize THEN Tail(queue) ELSE queue, x)]

\* vectormruset::insert, where the limit is on bytes and every element is a hash of
\* the same size: nMaxElements of them fit.
vectorInsert(queue, x, nMaxElements) ==
  LET longer == Append(queue, x) IN
  IF x \in ToSet(queue) THEN queue
  ELSE IF Len(longer) > nMaxElements THEN Tail(longer) ELSE longer
===========================================================================
