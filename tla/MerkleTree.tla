---------------------------- MODULE MerkleTree ----------------------------
(***************************************************************************)
(* MerkleTreeBuilder (relayprocess.cpp): whether a list of transactions    *)
(* has the merkle root a block header names.  The tree is folded in place: *)
(* the nodes of a row stand stepCount slots apart in hashlist.  An odd row *)
(* pairs its last node with itself, so that several lists share one root;  *)
(* the comparison at the start of each row is there to refuse all of them  *)
(* but the list without repetition.                                        *)
(*                                                                         *)
(* Hashes are symbolic: a pair is its own hash, no two inputs collide.     *)
(*                                                                         *)
(* A list may be empty.  The loop then does nothing, and the root is       *)
(* compared with slot 0 of a list that has none.                           *)
(***************************************************************************)
EXTENDS Integers, Sequences

VARIABLES leaves,                         \* the list the block header has the root of, empty
                                          \* if it has the root of none
          candidate,                      \* the list that was received
          hashlist,                       \* slots 0..txcount - 1
          rowSize, stepCount, lastMax, i,
          pc                              \* "off", "row", "pair", "accept", "reject" or "crash"

\* double_sha256_two_32_inputs
Hash(a, b) == <<a, b>>

txcount == Len(candidate)

\* The merkle root as Bitcoin defines it: rows of half the length, the last node of an
\* odd one paired with itself, until one node is left.
RowAbove(row) ==
  LET Right(k) == IF 2 * k <= Len(row) THEN row[2 * k] ELSE row[2 * k - 1]
  IN IF Len(row) = 1 THEN row
     ELSE [k \in 1..((Len(row) + 1) \div 2) |-> Hash(row[2 * k - 1], Right(k))]

Root(list) ==
  LET row[h \in 0..Len(list)] == IF h = 0 THEN list ELSE RowAbove(row[h - 1])
  IN row[Len(list)][1]

Off ==
  /\ leaves = <<>> /\ hashlist = <<>>
  /\ rowSize = 0 /\ stepCount = 0 /\ lastMax = 0 /\ i = 0 /\ pc = "off"

\* merkleRootMatches is called, with the root of L.  (Of an empty list lastMax wraps
\* around to 2^32 - 1, here -1; nothing reads it.)
Begin(L) ==
  /\ leaves' = L /\ UNCHANGED candidate
  /\ hashlist' = [k \in 0..(txcount - 1) |-> candidate[k + 1]]
  /\ rowSize' = txcount /\ stepCount' = 1 /\ lastMax' = txcount - 1
  /\ i' = 0 /\ pc' = "row"

\* Mutant of CheckRow: a repeated end is not refused.
CheckRowMutant ==
  /\ pc = "row" /\ rowSize > 1
  /\ pc' = "pair" /\ i' = 0
  /\ UNCHANGED <<leaves, candidate, hashlist, rowSize, stepCount, lastMax>>

\* The start of a row: its last two nodes must differ.
CheckRow ==
  /\ pc = "row" /\ rowSize > 1
  /\ pc' = IF hashlist[lastMax - stepCount] = hashlist[lastMax] THEN "reject" ELSE "pair"
  /\ i' = 0
  /\ UNCHANGED <<leaves, candidate, hashlist, rowSize, stepCount, lastMax>>

\* One iteration of the inner loop.
HashPair ==
  LET other == (i + 1) * stepCount IN
  /\ pc = "pair" /\ i < rowSize
  /\ hashlist' = [hashlist EXCEPT ![i * stepCount] =
                    Hash(@, hashlist[IF other < lastMax THEN other ELSE lastMax])]
  /\ i' = i + 2
  /\ UNCHANGED <<leaves, candidate, rowSize, stepCount, lastMax, pc>>

\* Mutant of NextRow: the last node is taken to stand at an even place already.
NextRowMutant ==
  /\ pc = "pair" /\ i >= rowSize
  /\ lastMax' = (rowSize - 1) * stepCount
  /\ stepCount' = stepCount * 2
  /\ rowSize' = (rowSize + 1) \div 2
  /\ pc' = "row"
  /\ UNCHANGED <<leaves, candidate, hashlist, i>>

\* Mutant of NextRow: the place of the last node is rounded up instead of down.
NextRowUpMutant ==
  /\ pc = "pair" /\ i >= rowSize
  /\ lastMax' = ((rowSize \div 2) * 2) * stepCount
  /\ stepCount' = stepCount * 2
  /\ rowSize' = (rowSize + 1) \div 2
  /\ pc' = "row"
  /\ UNCHANGED <<leaves, candidate, hashlist, i>>

NextRow ==
  /\ pc = "pair" /\ i >= rowSize
  /\ lastMax' = (((rowSize - 1) \div 2) * 2) * stepCount
  /\ stepCount' = stepCount * 2
  /\ rowSize' = (rowSize + 1) \div 2
  /\ pc' = "row"
  /\ UNCHANGED <<leaves, candidate, hashlist, i>>

Compare ==
  /\ pc = "row" /\ rowSize = 1
  /\ pc' = IF leaves # <<>> /\ hashlist[0] = Root(leaves) THEN "accept" ELSE "reject"
  /\ UNCHANGED <<leaves, candidate, hashlist, rowSize, stepCount, lastMax, i>>

\* The same comparison for an empty list: it reads where the vector has no element, so
\* the code defines neither its answer nor that there is one.  A vector without storage
\* has a null address, and the process ends.
CompareNothing ==
  /\ pc = "row" /\ rowSize = 0
  /\ pc' \in {"accept", "reject", "crash"}
  /\ UNCHANGED <<leaves, candidate, hashlist, rowSize, stepCount, lastMax, i>>

Step == CheckRow \/ HashPair \/ NextRow \/ Compare \/ CompareNothing

----------------------------------------------------------------------------

\* The assert of the inner loop, and what it leaves out: of a list with at least one
\* transaction every slot read or written lies in hashlist, the one before the last node
\* included (relayprocess.cpp:91, 95), so that the undefined comparison is never made.
\* Of an empty list this does not hold: CompareNothing reads slot 0, which is not there.
SlotsInRange ==
  pc # "off" /\ candidate # <<>> =>
    /\ rowSize \in 1..txcount /\ lastMax \in 0..(txcount - 1) /\ pc # "crash"
    /\ pc = "row" /\ rowSize > 1 => lastMax - stepCount >= 0
    /\ pc = "pair" /\ i < rowSize => i * stepCount \in 0..lastMax

\* At the start of a row the nodes it consists of, stepCount slots apart and with the
\* last one at lastMax, have the merkle root of the whole list (relayprocess.cpp:94-99).
\* An empty list has no root.
RowKeepsRoot ==
  pc = "row" /\ candidate # <<>> =>
    /\ lastMax = (rowSize - 1) * stepCount
    /\ Root([k \in 1..rowSize |-> hashlist[(k - 1) * stepCount]]) = Root(candidate)

\* The very transactions the header commits to are accepted, whatever their number from
\* one on, and nothing else is: not a list that has the same root because its end is
\* repeated (relayprocess.cpp:90-101).  What happens to an empty list is undefined.
OnlyTheBlock ==
  candidate # <<>> =>
    /\ pc = "accept" => candidate = leaves
    /\ pc = "reject" => candidate # leaves
===========================================================================
