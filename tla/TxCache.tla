------------------------------ MODULE TxCache ------------------------------
(***************************************************************************)
(* What a FlaggedArraySet promises to its callers: an ordered list of      *)
(* distinct elements, oldest first, in which elements are named by their   *)
(* current position.  Both ends of a relay connection keep one, and block  *)
(* messages name transactions by position, so the two lists have to answer *)
(* every operation as this eager list does, whatever bookkeeping the       *)
(* implementation postpones (flaggedarrayset.h).                           *)
(***************************************************************************)
EXTENDS Integers, Sequences, SequencesExt, Sums

CONSTANTS Elem,          \* the elements (transactions)
          Flag,          \* the flag every element is added with
          maxSize,       \* at most this many elements
          maxFlagCount   \* at most this sum of flags

VARIABLES cache,   \* the list, oldest element first
          res      \* the answer of the last operation

vars == <<cache, res>>

FlagSum(l) == SumSeq([k \in 1..Len(l) |-> Flag[l[k]]])

Within == Len(cache) <= maxSize /\ FlagSum(cache) <= maxFlagCount

Init == cache = <<>> /\ res = <<"none">>

\* A new element goes to the end; a known one changes nothing.
Add(e) ==
  /\ Within
  /\ cache' = IF e \in ToSet(cache) THEN cache ELSE Append(cache, e)
  /\ res' = <<"none">>

\* While a limit is exceeded the oldest element goes, and nothing else happens.
EvictOldest ==
  /\ ~Within
  /\ cache' = Tail(cache)
  /\ UNCHANGED res

\* Removing an element by value answers with the position it had (from 0).
RemoveElem(e) ==
  /\ Within
  /\ \/ /\ e \notin ToSet(cache)
        /\ res' = <<"index", -1>>
        /\ UNCHANGED cache
     \/ \E k \in DOMAIN cache :
          /\ cache[k] = e
          /\ res' = <<"index", k - 1>>
          /\ cache' = RemoveAt(cache, k)

\* Removing by position answers with the element that stood there.
RemoveIndex(n) ==
  /\ Within
  /\ \/ /\ n >= Len(cache)
        /\ res' = <<"absent">>
        /\ UNCHANGED cache
     \/ /\ n < Len(cache)
        /\ res' = <<"elem", cache[n + 1]>>
        /\ cache' = RemoveAt(cache, n + 1)

Lookup(e) ==
  /\ Within
  /\ res' = <<"found", e \in ToSet(cache)>>
  /\ UNCHANGED cache

ForAll ==
  /\ Within
  /\ res' = <<"all", cache>>
  /\ UNCHANGED cache

Clear == cache' = <<>> /\ res' = <<"none">>

Next ==
  \/ \E e \in Elem : Add(e) \/ RemoveElem(e) \/ Lookup(e)
  \/ \E n \in 0..maxSize : RemoveIndex(n)
  \/ EvictOldest \/ ForAll \/ Clear

Spec == Init /\ [][Next]_vars
=============================================================================
