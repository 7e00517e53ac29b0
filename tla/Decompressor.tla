--------------------------- MODULE Decompressor ---------------------------
(***************************************************************************)
(* decompress_relay_block (relayprocess.cpp) against a peer that may send  *)
(* any message: the header, one entry after another as they come off the   *)
(* connection, the sort of the references, and one removal after another   *)
(* from the receive cache.  The sender counted positions while it removed  *)
(* transactions in block order; the receiver removes them in the order of  *)
(* their positions.  The server then has MerkleTree compare the root of    *)
(* what it has put together with the header's.                             *)
(***************************************************************************)
EXTENDS RelayCodec

CONSTANTS Case,            \* what a message may meet and announce: the cache, the number
                           \* of transactions, and whether the merkle root is checked
          MayFollow(_, _),  \* bound of the model: the entries that may follow those
                           \* read, of a message of the size given
          MaxTxnInBlock    \* 100000 in the code

\* A cache holds a transaction once (FlaggedArraySet::add).
ASSUME DecompressorAssumption ==
  \A c \in Case : /\ c[1] \in Seq(Tx) /\ IsInjective(c[1])
                  /\ c[2] \in Nat /\ c[3] \in BOOLEAN

VARIABLES
  recv_cache,
  check_merkle,
  blocksAlreadySeen,  \* whether this block's hash has been put there
  message_size,       \* transactions announced
  txn_data,           \* the entries read
  ptrs,               \* txn_ptrs, as read and then sorted
  removed,            \* removals done
  txs,                \* the transactions of the block, as they are filled in
  pc,                 \* "header", "read", "remove", "merkle", "done" or "failed"
  why,                \* the error returned, if pc = "failed"
  before,             \* history: the cache the message met
  leaves, hashlist, rowSize, stepCount, lastMax, mi, mpc    \* of MerkleTree

Merkle == INSTANCE MerkleTree WITH candidate <- txs, i <- mi, pc <- mpc

merkle == <<leaves, hashlist, rowSize, stepCount, lastMax, mi, mpc>>
decompressor_vars == <<recv_cache, check_merkle, blocksAlreadySeen, message_size, txn_data, ptrs,
                       removed, txs, pc, why, before, merkle>>

DecompressorInit ==
  /\ \E c \in Case : recv_cache = c[1] /\ message_size = c[2] /\ check_merkle = c[3]
  /\ before = recv_cache
  /\ blocksAlreadySeen = FALSE
  /\ Merkle!Off
  /\ txn_data = <<>> /\ ptrs = <<>> /\ removed = 0 /\ txs = <<>>
  /\ pc = "header" /\ why = "none"

Fail(reason) == pc' = "failed" /\ why' = reason

\* The checks before the first entry.  The hash is marked as seen once it is
\* known, before the work it must show is checked.
Header ==
  /\ pc = "header"
  /\ \/ /\ message_size > MaxTxnInBlock
        /\ Fail("too many transactions")
        /\ UNCHANGED blocksAlreadySeen
     \/ /\ message_size <= MaxTxnInBlock
        /\ \/ Fail("failed to read block header") /\ UNCHANGED blocksAlreadySeen
           \/ Fail("version < 4") /\ UNCHANGED blocksAlreadySeen
           \/ check_merkle /\ Fail("difficulty") /\ blocksAlreadySeen' = TRUE
           \/ pc' = "read" /\ blocksAlreadySeen' = TRUE /\ UNCHANGED why
  /\ UNCHANGED <<recv_cache, check_merkle, message_size, txn_data, ptrs, removed, txs, before,
                 merkle>>

\* The next entry comes off the connection, or the connection ends or announces
\* a transaction of unreasonable size.
ReadEntry ==
  /\ pc = "read" /\ Len(txn_data) < message_size
  /\ \/ \E e \in Entry : /\ e \in MayFollow(message_size, txn_data)
                        /\ txn_data' = Append(txn_data, e) /\ UNCHANGED <<pc, why>>
     \/ Fail("failed to read") /\ UNCHANGED txn_data
  /\ UNCHANGED <<recv_cache, check_merkle, blocksAlreadySeen, message_size, ptrs, removed, txs,
                 before, merkle>>

Sort ==
  /\ pc = "read" /\ Len(txn_data) = message_size
  /\ ptrs' = tweak_sort(txn_ptrs(txn_data))
  /\ txs' = [n \in DOMAIN txn_data |-> txn_data[n].tx]
  /\ pc' = "remove"
  /\ UNCHANGED <<recv_cache, check_merkle, blocksAlreadySeen, message_size, txn_data, removed, why,
                 before, merkle>>

RemoveNext ==
  LET s == TakeFromCache([ok |-> TRUE, cache |-> recv_cache, txs |-> txs], ptrs[removed + 1]) IN
  /\ pc = "remove" /\ removed < Len(ptrs)
  /\ recv_cache' = s.cache /\ txs' = s.txs
  /\ \/ s.ok /\ removed' = removed + 1 /\ UNCHANGED <<pc, why>>
     \/ ~s.ok /\ Fail("failed to find referenced transaction") /\ UNCHANGED removed
  /\ UNCHANGED <<check_merkle, blocksAlreadySeen, message_size, txn_data, ptrs, before, merkle>>

\* The lists the header may have the root of: of what was received, a beginning
\* without repetition.  No other list can have the root of what was received; the empty
\* one stands for a root that is not of these.
Committed ==
  {L \in {SubSeq(txs, 1, n) : n \in 0..message_size} : Cardinality(ToSet(L)) = Len(L)}

\* The block is put together.
Assemble ==
  /\ pc = "remove" /\ removed = Len(ptrs)
  /\ \/ ~check_merkle /\ pc' = "done" /\ UNCHANGED <<txs, merkle>>
     \/ check_merkle /\ pc' = "merkle" /\ \E L \in Committed : Merkle!Begin(L)
  /\ UNCHANGED <<recv_cache, check_merkle, blocksAlreadySeen, message_size, txn_data, ptrs, removed,
                 why, before>>

\* merkleRootMatches goes on, ...
MerkleStep ==
  /\ pc = "merkle" /\ Merkle!Step
  /\ UNCHANGED <<recv_cache, check_merkle, blocksAlreadySeen, message_size, txn_data, ptrs, removed,
                 pc, why, before>>

\* ... and returns.  If it has crashed, nothing more happens.
Verdict ==
  /\ pc = "merkle"
  /\ \/ mpc = "accept" /\ pc' = "done" /\ UNCHANGED why
     \/ mpc = "reject" /\ Fail("merkle tree root did not match")
  /\ UNCHANGED <<recv_cache, check_merkle, blocksAlreadySeen, message_size, txn_data, ptrs, removed,
                 txs, before, merkle>>

DecompressorNext == Header \/ ReadEntry \/ Sort \/ RemoveNext \/ Assemble \/ MerkleStep \/ Verdict

DecompressorSpec == DecompressorInit /\ [][DecompressorNext]_decompressor_vars

----------------------------------------------------------------------------

DecompressorTypeOK ==
  /\ recv_cache \in Seq(Tx) /\ before \in Seq(Tx)
  /\ blocksAlreadySeen \in BOOLEAN
  /\ txn_data \in Seq(Entry)
  /\ \A n \in DOMAIN ptrs : ptrs[n].index \in 0..Mark /\ ptrs[n].pos \in DOMAIN txn_data
  /\ txs \in Seq(Tx \cup {NoTx})
  /\ removed \in 0..Len(ptrs)
  /\ pc \in {"header", "read", "remove", "merkle", "done", "failed"}

\* What the sender meant: its references taken one by one in block order.
InBlockOrder == TakeAll(before, txn_data, txn_ptrs(txn_data))

\* Removing in sorted order finds, for every message and every cache, the same
\* transaction for each reference and leaves the same cache as removing in block
\* order, and it fails to find one exactly when that does; on the way positions never
\* go down, as the loop asserts, so that the cache's late removal never has to run in
\* the middle of a block (relayprocess.cpp:214-230, 305-311).
DecodesAsSent ==
  /\ pc = "remove" => \A m, n \in DOMAIN ptrs : m <= n => ptrs[m].index <= ptrs[n].index
  /\ pc = "done" \/ why = "merkle tree root did not match" =>
       InBlockOrder = [ok |-> TRUE, cache |-> recv_cache, txs |-> txs]
  /\ why = "failed to find referenced transaction" => ~InBlockOrder.ok

\* Two references of one message never take the same transaction, and none is
\* lost: what the message took from the cache and what is left of it make up the
\* cache it met, also when the message turns out to be wrong half-way.
NothingLost ==
  LET Taken == {n \in DOMAIN txs : txs[n] # NoTx /\ txn_data[n].index # Mark} IN
  /\ \A m, n \in Taken : txs[m] = txs[n] => m = n
  /\ {txs[n] : n \in Taken} \cup ToSet(recv_cache) = ToSet(before)
  /\ Cardinality(Taken) + Len(recv_cache) = Len(before)

\* Given a list of at least one transaction, MerkleTree's fold touches no slot outside it
\* (relayprocess.cpp:91-99) ...
SlotsInRange == Merkle!SlotsInRange

\* ... each of its rows has the root of that list (relayprocess.cpp:94-99) ...
RowKeepsRoot == Merkle!RowKeepsRoot

\* ... and it accepts the list exactly if the header commits to it (relayprocess.cpp:90-101).
OnlyTheBlock == Merkle!OnlyTheBlock
===========================================================================
