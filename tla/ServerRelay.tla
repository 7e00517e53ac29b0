---------------------------- MODULE ServerRelay ----------------------------
(***************************************************************************)
(* The relay server (server.cpp) and its clients (client.cpp): one send    *)
(* cache per compressor type, shared by all clients of that type, must at  *)
(* every moment be what each of them will have in its receive cache once   *)
(* it has read what is on its connection.                                  *)
(*                                                                         *)
(* Threads of the server: the one of the trusted bitcoind's connection,    *)
(* which relays transactions and blocks and holds map_mutex while it does  *)
(* (relay); one per client, which answers VERSION and sends the new client *)
(* the current cache (net); the acceptor, the cull thread, the mempool     *)
(* connection and the second bitcoind connection.  A client's connection   *)
(* is the sequence of messages sent on it and not yet read by the client.  *)
(***************************************************************************)
EXTENDS RelayCodec

CONSTANTS Client,
          Block, BlockTxs,   \* blocks, and the transactions of each
          SmallVersion,      \* blocks of version < 4
          MaxWire            \* bound of the model: nothing new is relayed while
                             \* this many messages wait on some connection

ASSUME ServerAssumption ==
  /\ BlockTxs \in [Block -> Seq(Tx)] /\ SmallVersion \subseteq Block
  /\ MaxWire \in Nat

VARIABLES
  send_tx_cache,     \* compressors[t].send_tx_cache
  seen,              \* compressors[t].blocksAlreadySeen
  waiting,           \* txnWaitingToBroadcast
  clientMap,         \* clients in the map
  gone,              \* of those, the ones with a disconnect flag set
  compressor_type,   \* -1 before VERSION
  net,               \* where a client's thread is: "start", "typed" (type known),
                     \* "locked" (connected = 2, send_mutex held), "ready"
  wire,              \* messages sent to a client and not yet read
  relay,             \* the relaying thread; map_mutex is held unless pc = "idle"
  recv_tx_cache,     \* the client's own compressor
  failed,            \* history: clients that could not follow the server
  raced              \* history: clients whose initial transactions were sent between
                     \* the making of a message and its sending to them (but for a
                     \* transaction of type 0, which may safely be sent twice)

server == <<send_tx_cache, seen, waiting>>
conns  == <<clientMap, gone, compressor_type, net>>
vars   == <<server, conns, wire, relay, recv_tx_cache, failed, raced>>

Msg == [kind : {"tx"}, tx : Tx] \cup [kind : {"block"}, block : Block, body : Seq(Entry)]

Idle == [pc |-> "idle"]

mapMutexFree == relay.pc = "idle"

Live == clientMap \ gone

Init ==
  /\ send_tx_cache = [t \in CompressorType |-> <<>>]
  /\ seen = [t \in CompressorType |-> {}]
  /\ waiting = {}
  /\ clientMap = {} /\ gone = {}
  /\ compressor_type = [c \in Client |-> -1]
  /\ net = [c \in Client |-> "start"]
  /\ wire = [c \in Client |-> <<>>]
  /\ relay = Idle
  /\ recv_tx_cache = [c \in Client |-> <<>>]
  /\ failed = {} /\ raced = {}

----------------------------------------------------------------------------
(***************************************************************************)
(* Connections.                                                            *)
(***************************************************************************)

\* The acceptor: a host already in the map is turned away.
Accept(c) ==
  /\ mapMutexFree /\ c \notin clientMap
  /\ clientMap' = clientMap \cup {c}
  /\ UNCHANGED <<server, gone, compressor_type, net, wire, relay, recv_tx_cache, failed, raced>>

\* The cull thread deletes connections whose own thread has ended (DISCONNECT_COMPLETE),
\* which it does not in the middle of VERSION.  The client's next connection starts
\* with a new object here and with reset caches there.
Cull(c) ==
  /\ mapMutexFree /\ c \in gone /\ net[c] \in {"start", "ready"}
  /\ clientMap' = clientMap \ {c} /\ gone' = gone \ {c}
  /\ compressor_type' = [compressor_type EXCEPT ![c] = -1]
  /\ net' = [net EXCEPT ![c] = "start"]
  /\ failed' = failed \ {c} /\ raced' = raced \ {c}
  /\ UNCHANGED <<server, wire, relay, recv_tx_cache>>

\* A connection ends: what is on it is lost, and the client resets its compressor.
Broken(C) ==
  /\ gone' = gone \cup C
  /\ wire' = [c \in Client |-> IF c \in C THEN <<>> ELSE wire[c]]
  /\ recv_tx_cache' = [c \in Client |-> IF c \in C THEN <<>> ELSE recv_tx_cache[c]]

\* The connection breaks; a thread in the middle of VERSION goes on regardless.
Drop(c) ==
  /\ c \in Live
  /\ Broken({c})
  /\ UNCHANGED <<server, clientMap, compressor_type, net, relay, failed, raced>>

\* VERSION: the type is published before the client counts as connected.
Version(c) ==
  /\ c \in Live /\ net[c] = "start"
  /\ \E t \in CompressorType : compressor_type' = [compressor_type EXCEPT ![c] = t]
  /\ net' = [net EXCEPT ![c] = "typed"]
  /\ UNCHANGED <<server, clientMap, gone, wire, relay, recv_tx_cache, failed, raced>>

\* send_mutex is taken, then connected = 2.
Connected(c) ==
  /\ c \in clientMap /\ net[c] = "typed"
  /\ net' = [net EXCEPT ![c] = "locked"]
  /\ UNCHANGED <<server, clientMap, gone, compressor_type, wire, relay, recv_tx_cache, failed, raced>>

\* A message made for the clients of type t that c has not been sent yet.
Owed(c) == /\ relay.pc = "send" /\ c \in relay.todo
           /\ relay.type = compressor_type[c]

\* Mutant of SendInitial: it takes map_mutex while it holds send_mutex.
SendInitialMutant(c) ==
  LET cache == send_tx_cache[compressor_type[c]] IN
  /\ c \in clientMap /\ net[c] = "locked" /\ mapMutexFree
  /\ wire' = IF c \in gone THEN wire
             ELSE [wire EXCEPT ![c] = @ \o [k \in 1..Len(cache) |-> [kind |-> "tx", tx |-> cache[k]]]]
  /\ net' = [net EXCEPT ![c] = "ready"]
  /\ UNCHANGED <<server, clientMap, gone, compressor_type, relay, recv_tx_cache, failed, raced>>

\* relay_node_connected: everything in the send cache, oldest first, and then
\* send_mutex is released.
SendInitial(c) ==
  LET cache == send_tx_cache[compressor_type[c]] IN
  /\ c \in clientMap /\ net[c] = "locked"
  /\ wire' = IF c \in gone THEN wire
             ELSE [wire EXCEPT ![c] = @ \o [k \in 1..Len(cache) |-> [kind |-> "tx", tx |-> cache[k]]]]
  /\ net' = [net EXCEPT ![c] = "ready"]
  /\ raced' = IF Owed(c) /\ ~(relay.msg.kind = "tx" /\ relay.type = 0)
              THEN raced \cup {c} ELSE raced
  /\ UNCHANGED <<server, clientMap, gone, compressor_type, relay, recv_tx_cache, failed>>

----------------------------------------------------------------------------
(***************************************************************************)
(* Relaying.                                                               *)
(***************************************************************************)
Room == \A c \in Client : Len(wire[c]) <= MaxWire

\* A hash from the mempool server is noted and asked for, unless type 0 has
\* the transaction already.
MempoolHash(x) ==
  /\ mapMutexFree
  /\ x \notin ToSet(send_tx_cache[0])
  /\ waiting' = waiting \cup {x}
  /\ UNCHANGED <<send_tx_cache, seen, conns, wire, relay, recv_tx_cache, failed, raced>>

\* The bitcoind sends a transaction that is waited for, or a block.
StartTx(x) ==
  /\ mapMutexFree /\ Room /\ x \in waiting
  /\ relay' = [pc |-> "make", what |-> "tx", tx |-> x, type |-> 0]
  /\ UNCHANGED <<server, conns, wire, recv_tx_cache, failed, raced>>

StartBlock(b) ==
  /\ mapMutexFree /\ Room
  /\ relay' = [pc |-> "make", what |-> "block", block |-> b, type |-> 0]
  /\ UNCHANGED <<server, conns, wire, recv_tx_cache, failed, raced>>

\* The loop over the compressor types goes on, or ends and map_mutex is released.
NextType(r) == IF r.type + 1 \in CompressorType
               THEN [r EXCEPT !.type = @ + 1] ELSE Idle

\* The loop over the clients that remain, within the round r of the loop above.
SendingTo(todo, msg, r) ==
  IF todo = {} THEN NextType(r)
  ELSE [pc |-> "send", type |-> r.type, msg |-> msg, todo |-> todo, round |-> r]

\* get_relay_transaction for one type, under that compressor's mutex.
MakeTx ==
  LET t == relay.type
      r == get_relay_transaction(t, send_tx_cache[t], relay.tx) IN
  /\ relay.pc = "make" /\ relay.what = "tx"
  /\ send_tx_cache' = [send_tx_cache EXCEPT ![t] = r.cache]
  /\ relay' = SendingTo(IF r.sent THEN clientMap ELSE {}, [kind |-> "tx", tx |-> relay.tx], relay)
  /\ UNCHANGED <<seen, waiting, conns, wire, recv_tx_cache, failed, raced>>

\* maybe_compress_block for one type: a block seen before or of an old version
\* ends the whole relay.
MakeBlock ==
  LET t == relay.type
      b == relay.block
      r == CompressBlock(send_tx_cache[t], BlockTxs[b]) IN
  /\ relay.pc = "make" /\ relay.what = "block"
  /\ \/ /\ b \in seen[t] \/ b \in SmallVersion
        /\ relay' = Idle
        /\ UNCHANGED <<send_tx_cache, seen>>
     \/ /\ b \notin seen[t] /\ b \notin SmallVersion
        /\ send_tx_cache' = [send_tx_cache EXCEPT ![t] = r.cache]
        /\ seen' = [seen EXCEPT ![t] = @ \cup {b}]
        /\ relay' = SendingTo(clientMap, [kind |-> "block", block |-> b, body |-> r.body], relay)
  /\ UNCHANGED <<waiting, conns, wire, recv_tx_cache, failed, raced>>

\* Mutant of Addressed: that the client is connected is not checked.
AddressedMutant(c) == c \notin gone /\ compressor_type[c] = relay.type

\* receive_transaction and receive_block skip a client that is going away, of another
\* type or not connected.
Addressed(c) ==
  /\ c \notin gone /\ compressor_type[c] = relay.type
  /\ net[c] \in {"locked", "ready"}

\* The message is sent to one client, once its send_mutex is free, or skips it.
SendTo(c) ==
  /\ relay.pc = "send" /\ c \in relay.todo
  /\ Addressed(c) => net[c] # "locked"
  /\ wire' = IF Addressed(c) THEN [wire EXCEPT ![c] = Append(@, relay.msg)] ELSE wire
  /\ relay' = SendingTo(relay.todo \ {c}, relay.msg, relay.round)
  /\ UNCHANGED <<server, conns, recv_tx_cache, failed, raced>>

\* Mutant of HeadersSeen: every type is marked.
HeadersSeenMutant(b) ==
  /\ seen' = [t \in CompressorType |-> seen[t] \cup {b}]
  /\ UNCHANGED <<send_tx_cache, waiting, conns, wire, relay, recv_tx_cache, failed, raced>>

\* Headers from the second connection mark blocks as known, for type 0.
HeadersSeen(b) ==
  /\ seen' = [seen EXCEPT ![0] = @ \cup {b}]
  /\ UNCHANGED <<send_tx_cache, waiting, conns, wire, relay, recv_tx_cache, failed, raced>>

----------------------------------------------------------------------------
(***************************************************************************)
(* The client reads one message; an error ends the connection.             *)
(***************************************************************************)
Deliver(t, cache, msg) ==
  IF msg.kind = "tx"
  THEN LET r == recv_tx(t, cache, msg.tx) IN [ok |-> r.ok, cache |-> r.cache, right |-> TRUE]
  ELSE LET r == DecompressBlock(cache, msg.body)
       IN [ok |-> r.ok, cache |-> r.cache, right |-> r.txs = BlockTxs[msg.block]]

\* The client does not check the merkle root: a block rebuilt from the wrong
\* transactions is handed on and the connection stays.
Receive(c) ==
  LET r == Deliver(compressor_type[c], recv_tx_cache[c], Head(wire[c])) IN
  /\ c \in Live /\ wire[c] # <<>>
  /\ \/ /\ r.ok
        /\ wire' = [wire EXCEPT ![c] = Tail(@)]
        /\ recv_tx_cache' = [recv_tx_cache EXCEPT ![c] = r.cache]
        /\ UNCHANGED gone
     \/ ~r.ok /\ Broken({c})
  /\ failed' = IF r.ok /\ r.right THEN failed ELSE failed \cup {c}
  /\ UNCHANGED <<server, clientMap, compressor_type, net, relay, raced>>

Next ==
  \/ \E c \in Client : \/ Accept(c) \/ Cull(c) \/ Drop(c) \/ Version(c)
                       \/ Connected(c) \/ SendInitial(c) \/ SendTo(c) \/ Receive(c)
  \/ \E x \in Tx : MempoolHash(x) \/ StartTx(x)
  \/ \E b \in Block : StartBlock(b)
  \/ \E b \in Block \ SmallVersion : HeadersSeen(b)   \* an old block is refused in any case
  \/ MakeTx \/ MakeBlock

Spec == Init /\ [][Next]_vars

----------------------------------------------------------------------------
(***************************************************************************)
(* Properties.                                                             *)
(***************************************************************************)
TypeOK ==
  /\ send_tx_cache \in [CompressorType -> Seq(Tx)] /\ recv_tx_cache \in [Client -> Seq(Tx)]
  /\ \A t \in CompressorType : Within(t, send_tx_cache[t])
  /\ seen \in [CompressorType -> SUBSET Block] /\ waiting \subseteq Tx
  /\ clientMap \subseteq Client /\ gone \subseteq clientMap
  /\ compressor_type \in [Client -> {-1, 0, 1}]
  /\ net \in [Client -> {"start", "typed", "locked", "ready"}]
  /\ wire \in [Client -> Seq(Msg)]
  /\ relay.pc \in {"idle", "make", "send"}
  /\ failed \subseteq Client /\ raced \subseteq Client

\* What the client's cache will be when it has read msgs.
Replay(t, cache, msgs) ==
  LET run[n \in 0..Len(msgs)] ==
        IF n = 0 THEN [ok |-> TRUE, cache |-> cache, right |-> TRUE]
        ELSE LET s == run[n - 1]
                 r == Deliver(t, s.cache, msgs[n])
             IN [ok |-> s.ok /\ r.ok, cache |-> r.cache, right |-> s.right /\ r.right]
  IN run[Len(msgs)]

\* The shared send cache is what every connected client of its type will have once
\* it has read its connection and the message still owed to it, and on the way it
\* meets no error and rebuilds every block right (server.cpp:337-356, 402-420,
\* 249-254 against client.cpp:114-140).
InSync ==
  \A c \in Live \ raced :
    net[c] = "ready" =>
      Replay(compressor_type[c], recv_tx_cache[c],
             wire[c] \o IF Owed(c) THEN <<relay.msg>> ELSE <<>>)
        = [ok |-> TRUE, cache |-> send_tx_cache[compressor_type[c]], right |-> TRUE]

\* A client is given a wrong block, or one it cannot decode, or a transaction it
\* must refuse, only if it connected between the making of a message and its
\* sending (server.cpp:342-348 against 127-131).
OnlyRacedFail == failed \subseteq raced

\* The block a client is about to read is the one that was sent: it decodes, and
\* into the same transactions, as the round-trip test demands of the compressor
\* (test.cpp:88-90, 170-173).
BlocksRebuilt ==
  \A c \in Live :
    wire[c] # <<>> /\ Head(wire[c]).kind = "block" =>
      LET r == Deliver(compressor_type[c], recv_tx_cache[c], Head(wire[c])) IN r.ok /\ r.right

\* do_relay stops at the first type that refuses the block: never at type 1 after
\* type 0 has already sent it, whatever headers arrive in between
\* (server.cpp:341-354, 374).
AllTypesOrNone ==
  /\ seen[1] \subseteq seen[0]
  /\ relay.pc = "make" /\ relay.what = "block" /\ relay.type = 1 =>
       relay.block \in seen[0] \ (seen[1] \cup SmallVersion)

\* Whoever holds map_mutex can go on, or waits for a client's send_mutex whose holder
\* can: the acceptor, the cull thread and the mempool connection, which all wait for
\* map_mutex, never wait on a cycle (server.cpp:339, 410, 127, 216).
MapMutexHolderGoesOn ==
  ~mapMutexFree => ENABLED (MakeTx \/ MakeBlock \/ \E c \in Client : SendTo(c) \/ SendInitial(c))
============================================================================
