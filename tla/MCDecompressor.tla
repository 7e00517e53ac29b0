-------------------------- MODULE MCDecompressor --------------------------
EXTENDS Decompressor, TLC

CONSTANTS x1, x2, x3, x4, x5, x6, x7, x8, x9

MCSize == [x \in Tx |-> 1]

\* Transactions are only told apart, so one list stands for all of its length: an
\* empty one, a short one that references overrun and a longer one.
Caches == {<<>>, <<x1, x2>>, <<x1, x2, x3, x4>>}

\* On the client messages of at most five entries, on the server of at most four, on both
\* also of none, and on the server longer ones, of which none refers to the cache.
MaxShort == 5
MaxLong  == 12

MCCase == (Caches \X (0..MaxShort) \X {FALSE}) \cup (Caches \X (0..(MaxShort - 1)) \X {TRUE})
            \cup ({<<>>} \X ((MaxShort + 1)..(MaxLong + 1)) \X {TRUE})

Fresh == <<x1, x2, x3, x4, x5, x6, x7, x8, x9>>

New(X) == {[index |-> Mark, tx |-> x] : x \in X}

Txs(data) == [k \in DOMAIN data |-> data[k].tx]

\* A short message has any entries.  A long one has five to nine different transactions
\* and then up to three more, which repeat some of them.
MCMayFollow(size, data) ==
  LET n == Len(data)
      inOrder == n <= 9 /\ Txs(data) = SubSeq(Fresh, 1, n)
  IN IF size <= MaxShort THEN {e \in Entry : e.tx \in {x1, x2, x3, x4, NoTx}}
     ELSE (IF inOrder /\ n < 9 THEN New({Fresh[n + 1]}) ELSE {})
            \cup (IF n >= 5 /\ (inOrder => size - n <= 3) THEN New(ToSet(Txs(data))) ELSE {})
===========================================================================
