---------------------------- MODULE RelayCodec ----------------------------
(***************************************************************************)
(* RelayNodeCompressor (relayprocess.h, relayprocess.cpp) as operators on  *)
(* its caches: how a transaction enters the sender's and the receiver's    *)
(* cache, how a block is compressed against the one and rebuilt from the   *)
(* other.                                                                  *)
(*                                                                         *)
(* A cache is the list TxCache specifies, oldest transaction first.  The   *)
(* compressor's two modes are its type t, as in server.cpp's compressors:  *)
(* 0 counts bytes, 1 (useOldFlags) counts oversize transactions.           *)
(*                                                                         *)
(* A compressed block is a sequence of entries [index, tx]: the position   *)
(* of the transaction in the cache at that point, or Mark and the          *)
(* transaction itself.                                                     *)
(***************************************************************************)
EXTENDS Sums, SequencesExt, FiniteSetsExt

CONSTANTS Tx, Size,                  \* transactions and their sizes in bytes
          MAX_TXN_IN_FAS,            \* 65000 in the code
          MAX_FAS_TOTAL_SIZE, MAX_RELAY_TRANSACTION_BYTES,
          OLD_MAX_TXN_IN_FAS, OLD_MAX_RELAY_TRANSACTION_BYTES,
          OLD_MAX_RELAY_OVERSIZE_TRANSACTION_BYTES,
          OLD_MAX_EXTRA_OVERSIZE_TRANSACTIONS,
          IndexMod,                  \* 2^16: an index is a uint16_t
          SizeMod,                   \* 2^64: positions are size_t
          NoTx                       \* the tx field of an entry that is an index

CompressorType == {0, 1}

\* 0xffff announces a transaction in full.
Mark == IndexMod - 1

\* No position a full cache can have is taken for the mark, and a transaction that may
\* be sent fits into the cache.
ASSUME CodecAssumption ==
  /\ Size \in [Tx -> Nat] /\ NoTx \notin Tx
  /\ IndexMod \in Nat /\ SizeMod \in Nat /\ IndexMod <= SizeMod
  /\ MAX_TXN_IN_FAS \in 1..Mark /\ OLD_MAX_TXN_IN_FAS \in 1..Mark
  /\ MAX_FAS_TOTAL_SIZE \in Nat /\ MAX_RELAY_TRANSACTION_BYTES \in 0..MAX_FAS_TOTAL_SIZE
  /\ OLD_MAX_RELAY_TRANSACTION_BYTES \in Nat /\ OLD_MAX_RELAY_OVERSIZE_TRANSACTION_BYTES \in Nat
  /\ OLD_MAX_EXTRA_OVERSIZE_TRANSACTIONS \in Nat

Entry == [index : 0..Mark - 1, tx : {NoTx}] \cup [index : {Mark}, tx : Tx]

----------------------------------------------------------------------------
(***************************************************************************)
(* The caches.                                                             *)
(***************************************************************************)
Oversize(x) == Size[x] > OLD_MAX_RELAY_TRANSACTION_BYTES

Flag(t, x) == IF t = 0 THEN Size[x] ELSE IF Oversize(x) THEN 1 ELSE 0

flagCount(t, cache) == SumSeq([k \in 1..Len(cache) |-> Flag(t, cache[k])])

\* The limits the compressor's caches are constructed with; the old mode has no
\* limit on the flags (uint32_t(-1)).
Within(t, cache) ==
  IF t = 0 THEN Len(cache) <= MAX_TXN_IN_FAS /\ flagCount(0, cache) <= MAX_FAS_TOTAL_SIZE
           ELSE Len(cache) <= OLD_MAX_TXN_IN_FAS

\* FlaggedArraySet::add: a known transaction stays where it is, a new one goes to
\* the end and as few as possible of the oldest leave.
CacheAdd(t, cache, x) ==
  IF x \in ToSet(cache) THEN cache
  ELSE LET longer == Append(cache, x)
           From(n) == SubSeq(longer, n + 1, Len(longer))
       IN From(Min({n \in 0..Len(longer) : Within(t, From(n))}))

\* get_relay_transaction: whether x is sent, and the send cache afterwards.
get_relay_transaction(t, cache, x) ==
  LET refused == \/ x \in ToSet(cache)
                 \/ t = 0 /\ Size[x] > MAX_RELAY_TRANSACTION_BYTES
                 \/ /\ t = 1 /\ Oversize(x)
                    /\ \/ flagCount(1, cache) >= OLD_MAX_EXTRA_OVERSIZE_TRANSACTIONS
                       \/ Size[x] > OLD_MAX_RELAY_OVERSIZE_TRANSACTION_BYTES
  IN [sent |-> ~refused, cache |-> IF refused THEN cache ELSE CacheAdd(t, cache, x)]

check_recv_tx(t, cache, x) ==
  \/ t = 0 /\ Size[x] <= MAX_RELAY_TRANSACTION_BYTES
  \/ t = 1 /\ \/ ~Oversize(x)
              \/ /\ flagCount(1, cache) < OLD_MAX_EXTRA_OVERSIZE_TRANSACTIONS
                 /\ Size[x] <= OLD_MAX_RELAY_OVERSIZE_TRANSACTION_BYTES

\* maybe_recv_tx_of_size and recv_tx, as the readers of both programs call them.
recv_tx(t, cache, x) ==
  IF check_recv_tx(t, cache, x) THEN [ok |-> TRUE, cache |-> CacheAdd(t, cache, x)]
                                ELSE [ok |-> FALSE, cache |-> cache]

----------------------------------------------------------------------------
(***************************************************************************)
(* Blocks.                                                                 *)
(***************************************************************************)

\* One turn of maybe_compress_block's loop: a transaction the cache holds leaves it
\* and is replaced by the position it had at that moment.
CompressTx(s, x) ==
  IF x \in ToSet(s.cache)
  THEN LET k == CHOOSE k \in 1..Len(s.cache) : s.cache[k] = x
       IN [cache |-> RemoveAt(s.cache, k), body |-> Append(s.body, [index |-> k - 1, tx |-> NoTx])]
  ELSE [cache |-> s.cache, body |-> Append(s.body, [index |-> Mark, tx |-> x])]

CompressBlock(cache, block) ==
  LET run[n \in 0..Len(block)] ==
        IF n = 0 THEN [cache |-> cache, body |-> <<>>] ELSE CompressTx(run[n - 1], block[n])
  IN run[Len(block)]

\* Mutant of MergeStep: positions are compared as they stand in the message.
MergeStepMutant(left, right, s) ==
  IF s.j <= Len(left) /\ (s.k > Len(right) \/ left[s.j].index <= right[s.k].index)
  THEN [s EXCEPT !.j = @ + 1,
                 !.out = Append(@, [left[s.j] EXCEPT !.index = (@ - (s.k - 1)) % IndexMod])]
  ELSE [s EXCEPT !.k = @ + 1, !.out = Append(@, right[s.k])]

\* One turn of tweak_sort's last loop.  The left half's removals come first in the
\* message, so one that is overtaken by d removals of the right half moves d positions
\* down.  left[j].index - (k - split) is a size_t, the index stored a uint16_t.
MergeStep(left, right, s) ==
  LET d == s.k - 1
      TakeLeft == /\ s.j <= Len(left)
                  /\ \/ s.k > Len(right)
                     \/ (left[s.j].index - d) % SizeMod <= right[s.k].index
  IN IF TakeLeft
     THEN [j |-> s.j + 1, k |-> s.k,
           out |-> Append(s.out, [index |-> (left[s.j].index - d) % IndexMod, pos |-> left[s.j].pos])]
     ELSE [j |-> s.j, k |-> s.k + 1, out |-> Append(s.out, right[s.k])]

Merge(left, right) ==
  LET run[n \in 0..Len(left) + Len(right)] ==
        IF n = 0 THEN [j |-> 1, k |-> 1, out |-> <<>>] ELSE MergeStep(left, right, run[n - 1])
  IN run[Len(left) + Len(right)].out

\* tweak_sort: the references to the cache, put into the order of their positions so
\* that the cache is walked once.  sort[n][start] is what tweak_sort(ptrs, start,
\* start + n) makes of that part.
tweak_sort(ptrs) ==
  LET sort[n \in 0..Len(ptrs)] ==
        [start \in 0..Len(ptrs) - n |->
           IF n <= 1 THEN SubSeq(ptrs, start + 1, start + n)
           ELSE LET half == n \div 2
                IN Merge(sort[half][start], sort[n - half][start + half])]
  IN sort[Len(ptrs)][0]

\* txn_ptrs: which entries of a message refer to the cache, in order.
txn_ptrs(body) ==
  LET run[n \in 0..Len(body)] ==
        IF n = 0 THEN <<>>
        ELSE IF body[n].index = Mark THEN run[n - 1]
             ELSE Append(run[n - 1], [index |-> body[n].index, pos |-> n])
  IN run[Len(body)]

\* Mutant of TakeFromCache: the transaction stays in the cache.
TakeFromCacheMutant(s, ptr) ==
  IF s.ok /\ ptr.index < Len(s.cache)
  THEN [s EXCEPT !.txs[ptr.pos] = s.cache[ptr.index + 1]]
  ELSE [s EXCEPT !.ok = FALSE]

\* One removal of decompress_relay_block's last loop, in s = [ok, cache, txs].
TakeFromCache(s, ptr) ==
  IF s.ok /\ ptr.index < Len(s.cache)
  THEN [ok |-> TRUE, cache |-> RemoveAt(s.cache, ptr.index + 1),
        txs |-> [s.txs EXCEPT ![ptr.pos] = s.cache[ptr.index + 1]]]
  ELSE [s EXCEPT !.ok = FALSE]

\* The whole loop, for references in the order given.
TakeEach(s, order) ==
  LET run[n \in 0..Len(order)] == IF n = 0 THEN s ELSE TakeFromCache(run[n - 1], order[n])
  IN run[Len(order)]

TakeAll(cache, body, order) ==
  TakeEach([ok |-> TRUE, cache |-> cache, txs |-> [m \in 1..Len(body) |-> body[m].tx]], order)

\* decompress_relay_block: the block, or ok = FALSE if a position is not in the
\* cache ("failed to find referenced transaction").
DecompressBlock(cache, body) == TakeAll(cache, body, tweak_sort(txn_ptrs(body)))
===========================================================================
