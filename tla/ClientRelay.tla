---------------------------- MODULE ClientRelay ----------------------------
(***************************************************************************)
(* The way up: a client's RelayNetworkClient (client.cpp) and the server's *)
(* end of its connection (server.cpp).  Two threads of the client share    *)
(* its compressor: the bitcoind connection's, which relays blocks, and the *)
(* relay connection's own, which sends back the transactions the server    *)
(* relays.  Each makes its message under the compressor's mutex and sends  *)
(* it after releasing that.                                                *)
(*                                                                         *)
(* A connection that is lost is made again (phase); the thread of the new  *)
(* connection resets the compressor before it sends VERSION.               *)
(***************************************************************************)
EXTENDS RelayCodec

CONSTANTS Block, BlockTxs,
          MaxWire,      \* bound of the model: messages the server has not read yet
          MaxConn       \* bound of the model: connections made

ASSUME ClientAssumption ==
  /\ BlockTxs \in [Block -> Seq(Tx)] /\ MaxWire \in Nat /\ MaxConn \in Nat \ {0}

VARIABLES
  send_tx_cache, seen,   \* the client's compressor
  connected,             \* the client's flag
  phase,                 \* "up", "down", "swapped" (no connection), "connecting",
                         \* "setup" (its thread starts),
                         \* "reset" (compressor reset, VERSION not sent), "versioned"
  conn,                  \* number of the connection
  p2p, own,              \* the two threads: [pc, ...], pc "idle", "make" or "send"
  wire,                  \* sent and not yet read by the server
  recv_tx_cache,         \* the server's compressor for this connection
  version,               \* the server has read VERSION
  unsent,                \* history: messages made and not sent, oldest first
  disorder,              \* history: on this connection a message was sent that is not
                         \* the oldest unsent one, or by a thread that had found an
                         \* earlier connection connected
  refused                \* history: the server could not make sense of a message

compressor == <<send_tx_cache, seen>>
serverEnd  == <<recv_tx_cache, version, refused>>
vars == <<compressor, connected, phase, conn, p2p, own, wire, serverEnd, unsent, disorder>>

Idle == [pc |-> "idle"]

hasConnection == phase \notin {"swapped", "connecting"}

Init ==
  /\ send_tx_cache = <<>> /\ seen = {}
  /\ connected = FALSE /\ phase = "connecting" /\ conn = 0
  /\ p2p = Idle /\ own = Idle
  /\ wire = <<>> /\ recv_tx_cache = <<>> /\ version = FALSE
  /\ unsent = <<>> /\ disorder = FALSE /\ refused = FALSE

----------------------------------------------------------------------------
(***************************************************************************)
(* The two senders.                                                        *)
(***************************************************************************)

\* receive_block and receive_transaction: nothing is done while not connected.
BlockFromBitcoind(b) ==
  /\ p2p = Idle /\ connected /\ Len(wire) < MaxWire
  /\ p2p' = [pc |-> "make", block |-> b, since |-> conn]
  /\ UNCHANGED <<compressor, connected, phase, conn, own, wire, serverEnd, unsent, disorder>>

TxFromServer(x) ==
  /\ own = Idle /\ phase = "up" /\ connected /\ Len(wire) < MaxWire
  /\ own' = [pc |-> "make", tx |-> x, since |-> conn]
  /\ UNCHANGED <<compressor, connected, phase, conn, p2p, wire, serverEnd, unsent, disorder>>

\* A block from the server is marked as seen and so never sent back.
BlockFromServer(b) ==
  /\ own = Idle /\ phase = "up"
  /\ seen' = seen \cup {b}
  /\ UNCHANGED <<send_tx_cache, connected, phase, conn, p2p, own, wire, serverEnd, unsent, disorder>>

MakeBlock ==
  LET r   == CompressBlock(send_tx_cache, BlockTxs[p2p.block])
      msg == [kind |-> "block", block |-> p2p.block, body |-> r.body, since |-> p2p.since] IN
  /\ p2p.pc = "make"
  /\ \/ p2p.block \in seen /\ p2p' = Idle /\ UNCHANGED <<compressor, unsent>>
     \/ /\ p2p.block \notin seen
        /\ send_tx_cache' = r.cache /\ seen' = seen \cup {p2p.block}
        /\ p2p' = [pc |-> "send", msg |-> msg]
        /\ unsent' = Append(unsent, msg)
  /\ UNCHANGED <<connected, phase, conn, own, wire, serverEnd, disorder>>

MakeTx ==
  LET r   == get_relay_transaction(0, send_tx_cache, own.tx)
      msg == [kind |-> "tx", tx |-> own.tx, since |-> own.since] IN
  /\ own.pc = "make"
  /\ send_tx_cache' = r.cache
  /\ own' = IF r.sent THEN [pc |-> "send", msg |-> msg] ELSE Idle
  /\ unsent' = IF r.sent THEN Append(unsent, msg) ELSE unsent
  /\ UNCHANGED <<seen, connected, phase, conn, p2p, wire, serverEnd, disorder>>

\* maybe_do_send_bytes: on the connection there is now, or not at all.
Send(msg) ==
  /\ wire' = IF hasConnection THEN Append(wire, msg) ELSE wire
  /\ unsent' = RemoveAt(unsent, CHOOSE n \in DOMAIN unsent : unsent[n] = msg)
  /\ disorder' = (disorder \/ (hasConnection /\ (msg # Head(unsent) \/ msg.since # conn)))

SendBlock ==
  /\ p2p.pc = "send" /\ Send(p2p.msg) /\ p2p' = Idle
  /\ UNCHANGED <<compressor, connected, phase, conn, own, serverEnd>>

SendTx ==
  /\ own.pc = "send" /\ Send(own.msg) /\ own' = Idle
  /\ UNCHANGED <<compressor, connected, phase, conn, p2p, serverEnd>>

----------------------------------------------------------------------------
(***************************************************************************)
(* Losing and making the connection.                                       *)
(***************************************************************************)
Break ==
  /\ phase \in {"setup", "up"} /\ own = Idle
  /\ phase' = "down"
  /\ UNCHANGED <<compressor, connected, conn, p2p, own, wire, serverEnd, unsent, disorder>>

\* reconnect: the pointer goes first, then on_disconnect clears the flag.
Reconnect ==
  /\ phase = "down" /\ phase' = "swapped"
  /\ wire' = <<>>
  /\ UNCHANGED <<compressor, connected, conn, p2p, own, serverEnd, unsent, disorder>>

\* Mutant of OnDisconnect: the flag stays.
OnDisconnectMutant ==
  /\ phase = "swapped" /\ phase' = "connecting"
  /\ UNCHANGED <<compressor, connected, conn, p2p, own, wire, serverEnd, unsent, disorder>>

OnDisconnect ==
  /\ phase = "swapped" /\ phase' = "connecting"
  /\ connected' = FALSE
  /\ UNCHANGED <<compressor, conn, p2p, own, wire, serverEnd, unsent, disorder>>

\* The new connection: at the server a new object.
Connect ==
  /\ phase = "connecting" /\ conn < MaxConn
  /\ phase' = "setup" /\ conn' = conn + 1
  /\ wire' = <<>> /\ recv_tx_cache' = <<>> /\ version' = FALSE /\ refused' = FALSE
  /\ disorder' = FALSE
  /\ UNCHANGED <<compressor, connected, p2p, own, unsent>>

\* Mutant of Reset: the send cache is kept.
ResetMutant ==
  /\ phase = "setup" /\ phase' = "reset"
  /\ UNCHANGED <<compressor, connected, conn, p2p, own, wire, serverEnd, unsent, disorder>>

\* net_process: reset, VERSION, connected = true.
Reset ==
  /\ phase = "setup" /\ phase' = "reset"
  /\ send_tx_cache' = <<>>
  /\ UNCHANGED <<seen, connected, conn, p2p, own, wire, serverEnd, unsent, disorder>>

SendVersion ==
  /\ phase = "reset" /\ phase' = "versioned"
  /\ wire' = Append(wire, [kind |-> "version"])
  /\ UNCHANGED <<compressor, connected, conn, p2p, own, serverEnd, unsent, disorder>>

SetConnected ==
  /\ phase = "versioned" /\ phase' = "up"
  /\ connected' = TRUE
  /\ UNCHANGED <<compressor, conn, p2p, own, wire, serverEnd, unsent, disorder>>

----------------------------------------------------------------------------
(***************************************************************************)
(* The server's thread.                                                    *)
(***************************************************************************)

\* One message: ok unless the server disconnects.  The merkle root is checked here,
\* so a block rebuilt from the wrong transactions is refused (module MerkleTree).
Deliver(s, msg) ==
  CASE msg.kind = "version" -> [ok |-> TRUE, cache |-> s.cache, version |-> TRUE]
    [] msg.kind = "tx" ->
         LET r == recv_tx(0, s.cache, msg.tx)
         IN [ok |-> s.version /\ r.ok, cache |-> r.cache, version |-> s.version]
    [] msg.kind = "block" ->
         LET r == DecompressBlock(s.cache, msg.body)
         IN [ok |-> s.version /\ r.ok /\ r.txs = BlockTxs[msg.block],
             cache |-> r.cache, version |-> s.version]

ServerReads ==
  LET s == Deliver([ok |-> TRUE, cache |-> recv_tx_cache, version |-> version], Head(wire)) IN
  /\ wire # <<>> /\ ~refused
  /\ wire' = Tail(wire)
  /\ recv_tx_cache' = s.cache /\ version' = s.version /\ refused' = ~s.ok
  /\ UNCHANGED <<compressor, connected, phase, conn, p2p, own, unsent, disorder>>

Next ==
  \/ \E b \in Block : BlockFromBitcoind(b) \/ BlockFromServer(b)
  \/ \E x \in Tx : TxFromServer(x)
  \/ MakeBlock \/ MakeTx \/ SendBlock \/ SendTx
  \/ Break \/ Reconnect \/ OnDisconnect \/ Connect \/ Reset \/ SendVersion \/ SetConnected
  \/ ServerReads

Spec == Init /\ [][Next]_vars

----------------------------------------------------------------------------

TypeOK ==
  /\ send_tx_cache \in Seq(Tx) /\ recv_tx_cache \in Seq(Tx)
  /\ Within(0, send_tx_cache) /\ Within(0, recv_tx_cache)
  /\ seen \subseteq Block /\ connected \in BOOLEAN
  /\ phase \in {"up", "down", "swapped", "connecting", "setup", "reset", "versioned"}
  /\ p2p.pc \in {"idle", "make", "send"} /\ own.pc \in {"idle", "make", "send"}
  /\ conn \in 0..MaxConn
  /\ \A n \in DOMAIN wire : wire[n].kind \in {"version", "tx", "block"}

Replay(msgs) ==
  LET run[n \in 0..Len(msgs)] ==
        IF n = 0 THEN [ok |-> TRUE, cache |-> recv_tx_cache, version |-> version]
        ELSE LET s == run[n - 1]
                 r == Deliver(s, msgs[n])
             IN [ok |-> r.ok /\ s.ok, cache |-> r.cache, version |-> r.version]
  IN run[Len(msgs)]

\* Unless messages were sent out of order, the client's send cache is what the server
\* will have once it has read everything made for this connection, and nothing of it
\* will be refused (client.cpp:170-210 against server.cpp:147-175).
InSync ==
  phase = "up" /\ ~disorder /\ (\A n \in DOMAIN unsent : unsent[n].since = conn) =>
    Replay(wire \o unsent) = [ok |-> ~refused, cache |-> send_tx_cache, version |-> TRUE]

\* The server refuses a message only after such disorder (client.cpp:178-184, 196-206).
OnlyDisorderRefused == refused => disorder

\* VERSION comes first on every connection unless a sender that found the last one
\* connected sends on this one (client.cpp:69-73, 171, 190).
VersionFirst ==
  ~disorder /\ wire # <<>> /\ ~version => Head(wire).kind = "version"

\* Every block the client relays is rebuilt by the server, as the round-trip test
\* demands (test.cpp:88-90, 170-173).
BlocksAccepted ==
  wire # <<>> /\ Head(wire).kind = "block" /\ ~refused =>
    Deliver([ok |-> TRUE, cache |-> recv_tx_cache, version |-> version], Head(wire)).ok
============================================================================
