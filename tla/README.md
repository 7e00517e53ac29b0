# RelayNode in TLA+

RelayNode (`src/c++`) relays Bitcoin blocks and transactions between bitcoinds
over a network of its own. A relay *server* holds one trusted bitcoind
connection and many relay *clients*; a client runs beside a miner's bitcoind.
Transactions are sent ahead of the blocks that hold them, both ends keep them in
equal caches, and a block is then sent as a list of cache positions. Everything
rests on the two caches being *equal, position by position*, and it is threads,
lost connections and lazy bookkeeping that put this at risk.

## 1. Inventory

| Part | State | Operations | Talks to |
|---|---|---|---|
| `FlaggedArraySet` (`flaggedarrayset.*`) | `indexMap` (list), `backingMap` (element -> position), `offset`, `flag_count`, `to_be_removed`, `max_remove` | `add`, `contains`, `remove(int)` (lazy), `remove(element)`, `cleanup_late_remove`, eviction | used by the compressor; the Deduper shares memory between sets |
| `RelayNodeCompressor` (`relayprocess.*`) | send and receive cache, seen blocks | `get_relay_transaction`, `maybe_compress_block`, `recv_tx`, `decompress_relay_block` with `tweak_sort`, `for_each_sent_tx`, `reset` | server and client, each under the compressor's mutex |
| `MerkleTreeBuilder` (`relayprocess.cpp`) | one array of hashes | `merkleRootMatches`, in place | block decompression on the server |
| `Connection`, `GlobalNetProcess` (`connection.*`) | two outbound queues, inbound queue, throttle, disconnect flags; the select thread's map and wakeup pipe | `do_send_bytes`, `maybe_send_bytes`, `read_all`, `disconnect`, `do_net_process` | every network program |
| `OutboundPersistentConnection`, keepalive (`connection.*`) | connection pointer, scheduled timer, nonces waited for | `do_connect`, `reconnect`, ping timer, `pong_received` | client, P2PRelayer, mempool client |
| Server (`server.cpp`) | map of clients, one shared compressor per type, transactions waited for | accept, cull, VERSION, initial transactions, relay of a transaction or block, headers, mempool hashes | all of the above |
| Client (`client.cpp`) | one compressor, `connected` | VERSION, relay up, receive, reconnect | server, local bitcoind |
| `P2PRelayer` (`p2pclient.*`), `mruset` | `connected` (0, 1, 2), sets of the last hashes seen | handshake, `inv`/`getdata`, headers, `receive_block`, `receive_transaction`, `request_transaction` | a bitcoind; the server has two, the client one |
| RPC client (`rpcclient.*`) | `connected`, `awaiting_response`; per answer the entries, who depends on whom, the heap | poll, read an answer, select by fee, reconnect | bitcoind; its owner's callback |
| Mempool server (`mempoolserver.cpp`) | set of hashes handed out, map of clients | gather and send new hashes, accept and send the pool, cull | RPC client, the relay server's mempool connection |
| `P2PPipe`, bent pipe (`p2ppipe.*`, `p2p-bent-pipe.cpp`) | `connected`, the map `statefulMessagesSent` of messages to repeat | handshake, `send_hashed_message`, repetition, reconnect | two bitcoinds, each pipe the other |
| Terminator, Deduper | seen sets, sets of connections; locks | forwarding; memory sharing | bitcoinds; the caches |

What is hard here:

* **Interleaving.** One server thread relays to everyone while each client's own
  thread sends it the initial cache; two client threads share one compressor and
  send after unlocking it; the ping timer runs on the select thread while a
  reconnection takes place.
* **Ordering.** A message means something only against the cache its receiver has
  at that moment, so a swap of two messages is as bad as a loss.
* **Failure.** Connections end at any point, with messages in flight, with a
  message half written, with the reader paused; each teardown involves two threads.
* **Laziness.** `FlaggedArraySet` delays removals and adjusts positions by an
  offset; the decompressor sorts and shifts positions instead of removing one by one.
* **Limits.** Caches evict by count and by oversize flags; buffers have limits with
  exceptions; nonces are multiplied modulo 2^64.

Properties that make the parts correct: the cache behaves as a plain ordered list
whatever is pending (`FlaggedArraySet`); a decoded message takes exactly the
transactions its sender took (`RelayNodeCompressor`); only the block the header
commits to is accepted (`MerkleTreeBuilder`); both ends of a relay connection stay
equal (server, client); what is queued is sent whole, in order, without a lost
wakeup, and a connection is deleted only when no thread uses it (`Connection`); a
dead peer is found (keepalive); the selection is the best one whatever the order of an
answer, and no client misses a hash (mempool server); two bitcoinds meet each other's
version and last word although either connection may be a new one (bent pipe); no wait
is forever.

## 2. Modules

| Module | Models | How it corresponds |
|---|---|---|
| `TxCache` | the promise of `FlaggedArraySet` | an ordered list; add, remove, evict at once |
| `FlaggedArraySet` | `flaggedarrayset.h/.cpp` | `pc` marks that a lazy clean-up is under way, one removal per step; refines `TxCache` with the list *as it will be* when the pending removals are done |
| `RelayCodec` | compressor operations, both compressor types | pure operators over caches (sequences of transactions), used by the relay modules |
| `Decompressor` | `decompress_relay_block`, with and without `check_merkle` | the entries of a message are read one by one, any within the bound; the sort is a pure operator, the removals are one step each; then an instance of `MerkleTree` runs on what was put together |
| `MerkleTree` | `merkleRootMatches` | the in-place fold, one pair per step; a reference definition `Root`, row by row |
| `ServerRelay` | `server.cpp`, the receiving half of `client.cpp` | a client's connection is the sequence of messages sent and not read; the relaying thread is a record `relay` that holds `map_mutex` unless idle |
| `ClientRelay` | the sending half of `client.cpp`, the server's reading of it | two sender threads with a step between *make* and *send*; reconnection phases |
| `Keepalive` | `OutboundPersistentConnection`, `KeepaliveOutboundPersistentConnection` | `phase` is the thread that connects, reads, reconnects; `timer` the select thread's action |
| `Connection` | `Connection`, `GlobalNetProcess` | bytes counted in units; the user's thread, the select thread in its five stages, senders, the peer |
| `MruSet` | `mruset.h` | a set is the sequence of its elements, oldest first |
| `RPCClient` | `rpcclient.*` | the polling thread in three steps (check, claim, send) and the connection's thread; an answer is a sequence of entries in any order, each with any part of what it depends on; an entry put into the tables, and one selected, is a step |
| `MempoolServer` | `mempoolserver.cpp`, on top of `RPCClient` | the callback in two steps, one per mutex; the acceptor, which holds `map_mutex` from the entry in the map to the end of the pool |
| `BentPipe` | `p2ppipe.*`, `p2p-bent-pipe.cpp` | two pipes, one thread each; `send_hashed_message` runs on the other pipe's thread in the steps check, send, record, or keep, cut; versions are told apart by what the code compares; the bitcoinds are external |
| `P2PRelay` | `p2pclient.*` and the callbacks of `server.cpp` | both connections to one bitcoind; what another thread has decided to send is `push`, sent in a later step; the bitcoind is external |
| `Sums` | | the sum of a sequence of numbers, for the flags of a cache and the bytes of a queue |
| `X_proofs`, `ListTheorems` | | the theorems, section 5, and the facts about lists they share; `Library_proofs` is about `FlaggedArraySet`, `Connection` and `Keepalive`, `RelayMessages_proofs` about `ClientRelay` and `Decompressor` with its `MerkleTree`, the others about the module they are named after |

A lock is not a variable of its own where holding it coincides with a stage of a
thread: `map_mutex` is `relay.pc # "idle"`, a client's `send_mutex` is
`net[c] = "locked"`. Steps that the code does under one lock are one action, and
what it does after releasing the lock is another one.

Locks are taken in the order `map_mutex`, a compressor's mutex (released before
the next), `send_mutex`, `send_bytes_mutex`; a client's thread takes `send_mutex`,
then the compressor's; the select thread `fd_map_mutex`, then `ping_mutex` or a
connection's. There is no cycle in this; `MapMutexHolderGoesOn` checks the part in which
one thread waits for others while it holds a lock. What is done under the mutex of a shared
compressor is one step: the only lock taken meanwhile is the `send_bytes_mutex` of a client
whose `send_mutex` is already held (`relay_node_connected`), and its holders wait for
nothing. The place of the compressor's mutex in the order is so argued, not checked.

An operator `XMutant` stands before the definition `X` it is a faulty form of. No
specification uses it: with its body in the place of X's, the property named in
`PROJECT.json` fails, which shows that the property depends on that part of the code.

## 3. Runs

`tlc -workers 2 -config X.cfg M`, each within two minutes on two cores. Bounds of the
model are CONSTANTS, named in the modules ("bound of the model").

| Run | Bounds | What it shows |
|---|---|---|
| `flagged_array_set` | 6 elements, room for 4, flags that overflow either limit, `offset` up to 6 | After every single removal the positions and counters are those of the list (`PositionsInv`, `PendingInv`, `FlagsInv`), and every operation changes and answers as the eager list `TxCache` does (`ImplementsTxCache`, a refinement) |
| `decompressor` | messages of 0 to 5 entries (4 with the merkle check), caches of 0, 2 and 4; `IndexMod` = 6 so that positions wrap; with the check also 5 to 9 new transactions with any continuation of up to 3 | Removing in sorted order yields the transactions that removing one by one, in the sender's order, does, and fails exactly when that fails; positions to be removed never fall back, so the cache never has to clean up half-way (`DecodesAsSent`). No transaction is taken twice, and what was taken and what is left make up the cache, also after an error half-way (`NothingLost`). The in-place fold keeps the root from row to row (`RowKeepsRoot`) within the array (`SlotsInRange`), accepts the block and nothing else, repeated ends included (`OnlyTheBlock`); these three are about lists of at least one transaction, see below. Nine leaves give odd rows at four heights |
| `server_relay` | 2 clients (symmetric) of either type, 3 transactions, 3 blocks of which one is of an old version, caches of 3 and 2, one message waiting when the next is relayed | The shared send cache is what each connected client will have (`InSync`) and only a client that connected between making and sending can fail (`OnlyRacedFail`); a block reaches all types or none, whatever headers arrive (`AllTypesOrNone`); the holder of `map_mutex`, or the client's thread it waits for, can always go on (`MapMutexHolderGoesOn`). Since every step of the holder leaves it less to do, the mutex is released |
| `server_relay_race` | 1 client | *Violated*: `BlocksRebuilt`, see the findings |
| `client_relay` | 3 transactions, 2 blocks, 2 connections, 3 messages on the way | The server's cache follows the client's over a reconnection (`InSync`), a block is refused only after messages were sent in another order than made, or made for the last connection (`OnlyDisorderRefused`); nothing precedes VERSION except from a thread that checked `connected` on the last connection (`VersionFirst`) |
| `client_relay_race` | as above, one connection | *Violated*: `BlocksAccepted` |
| `keepalive` | 3 connections, nonces modulo 8 with an even multiplier (they reach 0 as the code's do modulo 2^64) | A peer is judged by its own ping (`OwnPing`), there is one at a time (`OnePing`), and while the keepalive counts itself connected a dead peer is found (`DeadPeerFound`) |
| `keepalive_reconnect` | the same | *Violated*: `DeadPeerDropped` |
| `connection` | 2 messages of 1 or 2 units, buffer of 1, inbound limit of 1, 2 units from the peer | No message is cut by one of the other queue (`WholeMessages`), waiting bytes keep to the limit (`BufferBounded`), the select thread does not sleep on work (`NoLostWakeup`), nothing is deleted that it still knows (`SafeToDelete`), and a connection that ends is taken down (`TeardownCompletes`) |
| `p2p_relay` | 2 blocks, one from a relay client; 2 transactions, of which the bitcoind gets one; seen sets of 1, so that every limit is met; the receiving connection made twice | The handshake is kept on both ends over reconnections (`ConnectedHere`, `InOrder`); an announced block, and a transaction waited for, is relayed, on its way, or lost for a reason the code shows (`BlocksAccounted`, `RequestsAccounted`) |
| `mempool_server` | 4 transactions, one with two parents and one too large, in any order and with any of their dependencies; a pool of 2 hashes, gathering that stops at once, half-way or not at all; 1 client | Whatever the order of an answer, the selection takes the best transaction whose parents are all selected, until none or no room is left (`SelectsBest`), and however early gathering stops a hash is handed out with its parents', in one batch, or after them (`ParentsHandedOut`). A client that connects at any moment has the whole pool (`ClientsToldAll`). There is one request at a time, but for a poll overtaken by a reconnection, which makes it two and never more (`RequestsBounded`), and no claim of the flag ends polling for good (`ClaimGivenUp`) |
| `bent_pipe` | 2 kept messages, one of two values, one message per connection; two faults: a refused or broken connection, a message out of turn or malformed, a bitcoind with a new version | An open connection introduced itself with the version kept for it, or is about to be cut (`VersionCurrent`); nothing precedes the handshake except from a thread that slept through a reconnection (`HandshakeFirst`); after it the bitcoind has the last word of every kept message, except one passed on at the moment the handshake ended (`KeptDelivered`); when the faults are over both are connected with each other's version for good (`Settles`) |

Why small is enough: transactions and blocks are only compared, clients of one type
are treated alike, and each limit is set so low that it is reached and passed. What is
lost is named: longer chains of reconnections, and more than two clients at once.

Deadlock is not checked where the system may come to its end: a message has been
decided, the connections the bound allows have been made, both bitcoinds of the bent
pipe have said what they had to say.

`TypeOK` is a run's property where it says more than the types: that counters of waiting
bytes and positions are never negative, that a set keeps to its limit. Elsewhere it
documents the state.

### Findings

* **A client that connects during a relay** (`server_relay_race`, `server.cpp:342`).
  `do_relay` compresses a block, which changes the shared send cache, and then sends it
  to whoever is in the map. A client whose thread sends it the initial transactions
  between the two has not got those the block refers to. It fails to decode the block
  and reconnects, or, since it does not check the merkle root, rebuilds a wrong one.
  `OnlyRacedFail` shows that this window is the only way.
* **Made in order, sent out of order** (`client_relay_race`, `client.cpp:206`). The
  client's two threads make messages under the compressor's mutex and send them after
  releasing it. A block may overtake the transaction it refers to; the server then
  refuses it. `OnlyDisorderRefused` shows this to be the only way within a connection.
* **No pings after a reconnection** (`keepalive_reconnect`, `connection.cpp:461`).
  `on_connect_keepalive` returns early when the timer is already scheduled, and never
  sets `connected` again. From the second connection on a dead peer is not noticed.

`BlocksAccounted` and `RequestsAccounted` hold with losses spelled out. A block whose
connection ends between `inv` and `block` is not asked for again, since its hash is in
`blocksAlreadySeen`; one whose header arrives first on the other connection counts as
sent and is not relayed; a transaction requested while the connection is down is not
requested again. Nothing in the repository says otherwise, so these are no findings.
The same holds for what `RequestsBounded`, `HandshakeFirst` and `KeptDelivered` except:
each is a check of a flag that is acted upon on the next connection, or, in
`send_hashed_message`, a message that is neither sent (the handshake was not over) nor
repeated (it was not yet recorded). These properties do not say that the losses do not
happen, but that there are no others.

A BLOCK message may announce no transaction: `decompress_relay_block` limits their number
only from above, while `maybe_compress_block` refuses a block without any, so that no peer
running this code sends one. On the server `merkleRootMatches` then compares the header's
root with `&hashlist[0]` of an empty vector (`relayprocess.cpp:263`, `89`, `101`), which is
undefined; where such a vector has no storage the address is null and the process ends.
`MerkleTree` models the comparison as a step of its own, `CompareNothing`, that may answer
either way or crash, and the run reaches it. `SlotsInRange`, `RowKeepsRoot`, `OnlyTheBlock`
and their theorems exclude the empty list explicitly: of that list the first is false and the
others say nothing. `DecodesAsSent` and `NothingLost` hold for it too.

## 4. Fairness and assumptions

Fairness says that threads run, and is weak but for one mutex:

* `Keepalive`: the timer fires, threads go on, a connection shut from outside is
  noticed by its thread, a live peer answers. That a connection is *made* is not
  assumed.
* `Connection`: the select thread runs, also when `select` times out, the user's thread
  runs, the delay of a throttled write passes. Nothing is assumed of the peer.
* `MempoolServer`: the connection's thread runs, its callback and the acceptor included.
  It waits at most ten seconds for a header; the body of an answer is read without a
  limit, so that an answer once begun is assumed to come to its end. For `map_mutex` in
  the callback fairness is strong: whoever waits for a mutex gets it in the end, however
  many clients come and go. That polls are made, or clients come, is not assumed.
* `BentPipe`: both threads run, connecting included (the bound allows two refusals), and
  a bitcoind answers a version with its own. That it says anything else is not assumed.
* All other specifications are checked for safety only.

Assumptions about what is outside the code or left out of a module:

* The trusted bitcoind's blocks can be parsed to their end; it has one chain, reads
  what it is sent at once and announces nothing before the handshake (`P2PRelay`).
* A client sends VERSION once per connection. Clients of type 1 are older programs,
  modelled by the same compressor in its old mode.
* The seen sets of the compressors (1,000,000 blocks) do not fill in `ServerRelay` and
  `ClientRelay`; the send cache forgets nothing in `P2PRelay`.
* `FlaggedArraySet::operator=` is used on empty sets only, and is no action.
* The one second that `reconnect` waits before it deletes a connection is long enough
  for a thread that has loaded its pointer. An untimed model cannot say more.
* In `Decompressor` the header has the merkle root of a beginning, without repetition, of
  what was received. No other list without repetition has the root of what was received
  (`RootCommits`), and the empty beginning stands for a root that is of none of them. A
  cache holds no transaction twice (`DecompressorAssumption`), which `add` sees to.
* In `RPCClient` the characters of an answer are abstracted to the entry they make, or
  to an error. Every entry has a size, a fee and a priority: the code would notice a
  missing size only, since the fee is unsigned and the priority is not reset.
* Operations on the unlocked map of `P2PPipe` are atomic, the iteration over it is not.
* `main` of the bent pipe has set `one` before its second pipe passes on anything.
* Hashes are injective (`MerkleTree` uses pairs, blocks and transactions are values).

## 5. What is proved

Every theorem holds for all values of the constants that the module's named assumption
(`FASAssumption`, `ConnectionAssumption`, ...) admits: those give the constants their
types, the limits their signs, and in `RPCAssumption` say that a transaction depends on
finitely many others and never on itself, in `CodecAssumption` that no position of a full
cache is the mark of a transaction sent in full and that a transaction that may be sent
fits into the cache, in `DecompressorAssumption` that a message meets a cache without
repetition. TLC evaluates them in every run. `TheBlockOnly` and `RootCommits` have one more
hypothesis, `HashesApart`: no transaction is the hash of two nodes. It speaks of all values,
so TLC cannot evaluate it; it is true of the runs, where transactions are model values. No
other theorem has a hypothesis of its own.

| Module | Theorems: `Spec =>` | Inductive invariant |
|---|---|---|
| `Library_proofs`, of `FlaggedArraySet` | `[]TypeOK`, `[]PositionsInv`, `[]PendingInv`, `[]FlagsInv`, and the refinement `ImplementsTxCache` | `FullInv` |
| of `Connection` (`ConnectionSpec`) | `[]ConnectionTypeOK`, `[]WholeMessages`, `[]BufferBounded`, `[]NoLostWakeup`, `[]SafeToDelete` | these, `Counted`, `KnownToSelect`, `EndInv` |
| of `Keepalive` (`KeepaliveSpec`) | `[]KeepaliveTypeOK`, `[]OwnPing`, `[]OnePing` | `PingInv`: `KeepaliveTypeOK`, `WaitsForLast`, `PeerPinged` |
| `BentPipe_proofs` | `[]TypeOK`, `[]VersionCurrent`, `[]HandshakeFirst`, `[]KeptDelivered` | `TypeOK`, `HandshakeInv`, `VersionCurrent`, `KeptInv` |
| `MempoolServer_proofs` | `[]TypeOK`, `[]SelectsBest`, `[]RequestsBounded`, `[]ClientsToldAll`, `[]ParentsHandedOut` | `RPCInv`, `PoolInv`, the last two |
| `P2PRelay_proofs` | `[]TypeOK`, `[]ConnectedHere`, `[]InOrder`, `[]BlocksAccounted`, `[]RequestsAccounted` | `CoreInv`, `DataInv` |
| `RelayCodec_proofs` | `RoundTrip`, `TakenInOrder`: of operators, without `Spec` | |
| `ServerRelay_proofs` | `[]AllTypesOrNone` | `IndInv`: `RelayInv`, `AllTypesOrNone`, `RoundInv` |
| | `[]TypeOK`, `[]InSync`, `[]OnlyRacedFail` | `SyncInv`: these, `RelayInv`, `ConnInv`, `OwedInv`, `CacheInv` |
| | `[]HolderReady`: the guards behind `MapMutexHolderGoesOn` | `SyncInv`, `SomeLeft` |
| `RelayMessages_proofs`, of `ClientRelay` | `[]InSync`, `[]OnlyDisorderRefused`, `[]VersionFirst` | `ClientInv`: `ThreadInv`, `UnsentInv`, `SyncInv` |
| of `Decompressor` (`DecompressorSpec`) | `[]DecodesAsSent`, `[]NothingLost` | `DecodeInv`; `LeftInv` |
| of `MerkleTree`, in `DecompressorSpec` | `[]SlotsInRange`, `[]RowKeepsRoot`, `[]OnlyTheBlock`; `RootCommits`, of operators | `FoldInv` |

`ListTheorems` holds what several of them need: sums of sequences (`SumSeq` of the
module `Sums`), what a list is after it grew or lost one element or two, which elements
of a list of numbers lie beyond one of them, and induction on lists (`ListInduction`).

**Induction.** The library's induction theorems take a predicate as a parameter, which
the provers cannot instantiate. `SetInduction` says the same of a *set*: one that has 0
and all successors has every number. It follows from a fact about finite sets (for a
missing number, the successor would map the members below it into themselves without 0).
A recursion such as a sum, `RemoveAll` or the loop over an `inv` is then treated in one
way: say what a table of its first results is (`PartialSums`, `Chain`, `Turns`), show by
`SetInduction` on the set of lengths that such tables exist, and take the last entry.

**`FlaggedArraySet`.** `IndInv` is the three properties with `FlagCountInv`
(`flag_count` is the sum of the flags) and `NothingNoted` (with nothing noted,
`flags_to_remove` is 0). Both are needed where `add` evicts: the loop calls
`remove_(0)` while the set is over a limit, and only if both flag counters are right is a
set over its flag limit not empty. `RemovePositions` takes `remove_`, in both its halves
(shift the front and raise `offset`, or shift the back), to the positions afterwards. In
`CleanupStep` the first noted removal shortens the list and brings every other one place
nearer, which is why `PendingInv` speaks of `to_be_removed[m] + (m - i)`.

The refinement maps the list to `View`, what is left when the noted removals are
done one after another. `RemoveAllFacts` says which elements those are: noted positions
that never fall back, each shifted by how many were noted before it, are distinct positions
of the list as it was. Hence a step of the clean-up leaves `View` alone (`FirstRemoved`),
a noted removal takes from it just the element the caller means (`RemoveOneMore`), and its
flags are those of the list less the noted ones (`NotedFacts`). `FullInv` adds that
`flags_to_remove` is what is noted, that the view is within the limits unless `add`
is evicting, and what it is then. `NextRefines` has one case per action.

**`Connection`.** The sums of the two queues are followed through `do_send_bytes` and
`do_throttle_outbound` (`QueueStep`), the units that wait to be read through
`UnreadFacts`. `SafeToDelete` rests on `EndInv`: the end of the input is queued when the
select thread forgets the connection, not before, and the connection's thread takes
nothing down until it has read it. `NoLostWakeup` is inductive once the limit is written with the
counters (`Awake`), which `AwakeParts` shows to be the same.

**`Keepalive`.** `OwnPing` needs that the nonce waited for is the last one made up, that
a keepalive that does not count itself connected waits for none (`WaitsForLast`), and what
the peer of this connection has been sent while a timer that noted its
ping for an earlier connection is still to send it (`PeerPinged`).

**`BentPipe`.** `HandshakeInv` ties the counter `connected` to what the bitcoind of this
connection has met, and a thread between its check and its send to the connection it
checked. `Kept` says of every kept message how far the repetition has come, and that one
being recorded for a pipe that was ready all along has been sent to it.

**`MempoolServer`.** `RequestsInv` counts a claim as a request that is still to be made;
only a claim that a reconnection has overtaken makes it two. `TablesInv` says what the four tables
contain when the entries have come in an arbitrary order, `HeapInv` that the
heap has exactly the entries whose dependencies are all selected, but for those dropped
for their size; `BestInv` and `DoneInv` follow step by step. The callback's loop
(`Gathered`) is followed entry by entry: `GoodAfter` says that what has been handed
out contains, for everything in it, its parents.

**`P2PRelay`.** `HandshakeInv` speaks of both sides *and the wire*: with `connected`
at 0 the wire holds version and verack, at 1 verack first and nothing of
the handshake behind it, at 2 nothing of the handshake. `PushInv` relates a thread that is
about to send to the connection it checked. `BlocksAccounted` further needs that the
bitcoind has what it announces (`HaveInv`), or a `getdata` would go unanswered, and that a block that
is remembered as seen has been asked for (`SeenInv`), or skipping it would lose it. The loop
over an `inv` (`NotedAll`) is the recursion; `NotedAllFacts` says that what is asked for is
just what was new.

**`RelayCodec`.** A message names a cached transaction by the position it has when
its turn comes in the block; the receiver sorts the positions first, correcting each by what is
taken before it. That this changes nothing rests on two takes exchanged (`TakeTwo`): to take
at `i` and then at `j` is to take at `j`, or `j + 1`, and then at `i`, or `i - 1`. From it,
one take passes over a list of takes (`TakeOverList`), one step of the merge keeps what the
two halves and the output take together (`MergeStepSame`), and so do the merge and the sort
(`MergeFacts`, `SortFacts`). `LowerPtr` shows that no corrected position wraps around. That
must also hold of takes that find nothing: two lists of references are `Alike` from a state
if both fail, or neither does and they lead to the same state, and what is carried through
the sort is that the lists are alike from every state. Hence `TakenInOrder`, for every
message: the decoder fails exactly if the sender's order does. `CompressedFacts` says what compression leaves in the
body, and `RoundTrip` puts the two together.

What the caches need is `Good`: without repetition, of transactions that may be sent
(`Sound`), within the limits (`Within`). `SentFacts` says that a transaction that is sent
is accepted with the same eviction by a receiver with the same cache, `BuiltUp` that a cache sent from the
front builds itself up again, `SentAgain` that sending what is there changes nothing.

**`ServerRelay`.** `RoundInv` carries over the loop over the clients, which other threads
interleave with, that a block type 0 has let pass is one that type 1 has neither seen
nor refuses, so that a header arriving in between cannot split the two.

`InSync` speaks of the cache a client will have once it has read its wire and what the
round under way still owes it. `ReplayFacts` describes that replay message by message:
`ReadOne` takes one from the front, `ReadLast` adds one at the end. To make it
inductive, `ConnInv` says that a client which is not ready, or not there any more, has
nothing to read and an empty cache; `OwedInv` that what a round has in hand is a message
the caches of its type take; `CacheInv` that the send caches are `Good`. Each
action has a lemma. A transaction or a block is owed to every client of the round at the
moment it changes the send cache (`MadeSync`, with `TxDelivered` and `BlockDelivered`, the
latter `RoundTrip`); a client that becomes ready is sent the whole cache, from which its own is built up
(`SendInitialSync`, `DumpReplayed`); the steps that touch no ready client are
`OthersInStep`. `OnlyRacedFail` follows as a client in step never meets a block it cannot
decode.

`HolderReady` replaces the `ENABLED` of `MapMutexHolderGoesOn` by the guards of the steps it
names: that a round has clients left while it sends (`SomeLeft`), and that they are still in
the map, since the cull thread needs the mutex.

**`ClientRelay`.** Two threads make messages under the compressor's mutex and send them later.
The history variable `unsent` has what is made and not sent, in the order it was made;
`UnsentInv` says that it is what the threads have in hand, in one order or the other.
`ThreadInv` says for which connections that may be: the connection's own thread only ever has
a message for the present one, bitcoind's thread also for an earlier one, and *only* for an
earlier one as long as nobody has found the present one connected (`Unused`). `SyncInv` is
`InSync` made inductive. While there is no disorder, the server can read what is on the wire,
then the oldest message not sent; if all of them are for this connection (`Fresh`) they leave
it with the client's cache. The one not for this connection counts as disorder the moment it
is sent, which is why the implication may start from `Fresh`. Between connecting and VERSION
it says instead that both caches are empty. `ReadsFacts` adds a message at the end of the wire,
`ReadOne` takes one from its front; `ReadFacts` and `RoundTrip` say what one message does.

**`Decompressor`.** `DecodeInv`: the removals done so far are the first `removed` takes of the
sorted references, from the cache the message met (`Reached` is `TakeEach` of that many); if
one has failed, it is the next of them. With `TakenInOrder` this is `DecodesAsSent`;
`FailedStays` is needed because the loop stops at the first reference that is not found while
the operator goes through all. `LeftInv` is `NothingLost` with what makes it inductive: what
has been taken is no longer in the cache, the cache has no repetition, and the references still
to come are to places still empty, each to another one. One removal then moves one transaction
(`OneMoved`).

**`MerkleTree`.** `Root` is a recursion over rows. A table of the rows of a list exists
(`RowsExist`), rows get shorter until one node is left (`Climb`), then they stay (`Settled`);
so a row and the row above it have the same root (`RootAbove`). `FoldInv` says what stands in
the slots: at the start of a row its nodes, `stepCount` apart up to `lastMax`; within a row the
first `mi / 2` pairs hashed and the nodes from `mi` on untouched (`Half`), for a row whose last
two nodes differ. `HalfNext` and `HalfAll` are one iteration of the inner and of the outer
loop. All this is of a list that is not empty (`Folded`); of an empty one `FoldInv` says that
there is no row and no pair, so that only `CompareNothing` is left. Products of a place and a distance hide behind `At`, of which the provers need only
`AtFacts` and `AtOrder`.

For `OnlyTheBlock` every row carries (`Kept`) that it has no repetition if the list is the one
the header commits to, so that it is never refused, and otherwise that it differs from a row of
the other list's tree that is not longer and not higher (`Differs`). `DiffersAbove`: two such
rows have different rows above them, since hashes are injective, unless the longer one
repeats its last node, which the comparison at its start excludes; and a root is not a node of
a higher row, since counting left children down to a transaction gives the height (`Above`,
`AboveOnce`; this uses `HashesApart`). `RootCommits` is the same argument for two lists of
which one has no repetition (`Parted`).

**Only model-checked**: liveness (`DeadPeerFound`, `TeardownCompletes`, `ClaimGivenUp`,
`Settles`) and what speaks of `ENABLED` (`MapMutexHolderGoesOn`, but see `HolderReady`): the
prover has no rules for them. Every other property of a passing run is a theorem.

## 6. What is not modelled

* Deduper, `WaitCountMutex`: they share memory between equal transactions, with a lock
  order of their own; they change no answer of a cache.
* `bitcoindterminator`: a program of its own. Its handshake, `inv` handling and seen sets
  repeat those of `P2PRelayer` from the listening side, its sets of connections and their
  culling those of the server.
* `p2poutbound`, `relayproxy`: thin programs around modelled components.
* Byte formats, address lookup, printing (`utils`), the choice of a server by ping
  time (`client.cpp`): pure functions and I/O. Hash functions are vendored.
* The sponsor message of `server.cpp`: text for a human reader.

## 7. Plan

The models cover the programs that run the relay network. Left, if they are ever
needed: `bitcoindterminator`, and the Deduper's lock with a waiting count. To ask new
questions of the server, `ServerRelay` has room for a third client or message only at
the price of transactions or blocks.

Proofs are complete but for liveness, which this prover cannot reach. What would be worth
proving next if it could: that `ClaimGivenUp` and `Settles` hold for any number of polls and
faults.
