----------------------------- MODULE P2PRelay -----------------------------
(***************************************************************************)
(* The relay server's two connections to its trusted bitcoind, both a      *)
(* P2PRelayer (p2pclient.h, p2pclient.cpp) with the callbacks of           *)
(* server.cpp: "up" (trustedP2P), on which blocks and transactions of the  *)
(* relay clients go to the bitcoind and headers come back, and "recv"      *)
(* (trustedP2PRecv), on which the blocks to be relayed come in, and the    *)
(* transactions the mempool server has named.                              *)
(*                                                                         *)
(* Blocks are numbered by height; the bitcoind has one chain.  A block is  *)
(* an item <<"block", h>>, a transaction <<"tx", x>>.  The bitcoind reads  *)
(* what it is sent at once; its answers may take any time to be read here. *)
(* Pings are in module Keepalive, what relaying does in ServerRelay.       *)
(***************************************************************************)
EXTENDS MruSet, FiniteSetsExt, Functions, TLC

CONSTANTS Tx,
          MaxBlock,        \* bound of the model: blocks there will ever be
          TxSeenMax,       \* 2000: size of txnAlreadySeen
          BlockSeenMax,    \* 100: size of blocksAlreadySeen
          WaitingMax,      \* transactions in txnWaitingToBroadcast
          MaxHeaders,      \* 2000: headers in one message of the bitcoind
          MaxWire,         \* bound of the model: the bitcoind announces, and a hash
                           \* comes, only while fewer messages wait
          Theirs, Ours,    \* bounds of the model: items that come to the bitcoind from
                           \* elsewhere, and that relay clients have
          MaxConn          \* bound of the model: connections made by each relayer

Relayer == {"up", "recv"}

Block(h) == <<"block", h>>
Item == {Block(h) : h \in 1..MaxBlock} \cup ({"tx"} \X Tx)

ASSUME P2PAssumption ==
  /\ MaxBlock \in Nat /\ TxSeenMax \in Nat \ {0} /\ BlockSeenMax \in Nat \ {0}
  /\ WaitingMax \in Nat \ {0} /\ MaxHeaders \in Nat \ {0, 1}
  /\ MaxWire \in Nat \ {0} /\ MaxConn \in [Relayer -> Nat]
  /\ Theirs \subseteq Item /\ Ours \subseteq Item

VARIABLES
  phase,        \* "setup" (there is a connection), "up" (version sent), "swapped"
                \* (reconnect has taken the pointer), "down"
  conn,         \* number of the connection
  connected,    \* 0, 1 after version, 2 after verack
  seen,         \* by kind, "tx" and "block": txnAlreadySeen and blocksAlreadySeen
  push,         \* what another thread is about to send, having found connected = 2
  fromNode,     \* messages of the bitcoind that net_process has not read yet
  sent,         \* compressors[0].blocksAlreadySeen
  waiting,      \* txnWaitingToBroadcast
  height, pool, \* the bitcoind: its chain and its transactions
  greeted,      \* what it has read of a connection: "none", "version", "verack"
  fresh,        \* what it has yet to announce on a connection
  relayed,      \* items relayed to the clients
  asked,        \* history: blocks recv has asked for
  lost,         \* history: items that were asked for in vain
  early,        \* history: on this connection something came before version and verack
  stale         \* history: on this connection something was sent by a thread that
                \* had found an earlier one connected

relayers == <<phase, conn, connected, seen, push>>
server   == <<sent, waiting, relayed>>
node     == <<height, pool, greeted, fresh>>
history  == <<asked, lost, early, stale>>
vars     == <<relayers, fromNode, server, node, history>>

Nothing == [kind |-> "nothing"]

Kind(item) == item[1]
SeenMax(item) == IF Kind(item) = "tx" THEN TxSeenMax ELSE BlockSeenMax

Init ==
  /\ phase = [r \in Relayer |-> "down"] /\ conn = [r \in Relayer |-> 0]
  /\ connected = [r \in Relayer |-> 0]
  /\ seen = [r \in Relayer |-> [k \in {"tx", "block"} |-> <<>>]]
  /\ push = [r \in Relayer |-> Nothing]
  /\ fromNode = [r \in Relayer |-> <<>>]
  /\ sent = {} /\ waiting = <<>> /\ relayed = {}
  /\ height = 0 /\ pool = {}
  /\ greeted = [r \in Relayer |-> "none"] /\ fresh = [r \in Relayer |-> {}]
  /\ asked = {} /\ lost = {}
  /\ early = [r \in Relayer |-> FALSE] /\ stale = [r \in Relayer |-> FALSE]

----------------------------------------------------------------------------
(***************************************************************************)
(* The bitcoind: what it does with a message, and when it has something    *)
(* new.                                                                    *)
(***************************************************************************)
Has(item) == IF Kind(item) = "block" THEN item[2] <= height ELSE item \in pool

\* Items it has, each in a message of its own.
Data(items) == [n \in 1..Len(items) |-> [kind |-> "data", item |-> items[n]]]

\* The answer to getheaders.
HeadersAfter(from) ==
  <<[kind |-> "headers", from |-> from,
     last |-> IF from + MaxHeaders < height THEN from + MaxHeaders ELSE height]>>

\* New items are announced on connections that are set up, but not where they came
\* from.
News(items, source) ==
  fresh' = [r \in Relayer |-> IF greeted[r] = "verack" /\ r # source
                              THEN fresh[r] \cup items ELSE fresh[r]]

\* It takes a transaction, and a block that is the next one of its chain.
NodeTakes(item, source) ==
  LET new == ~Has(item) /\ (Kind(item) = "block" => item = Block(height + 1)) IN
  /\ height' = IF new /\ Kind(item) = "block" THEN height + 1 ELSE height
  /\ pool' = IF new /\ Kind(item) = "tx" THEN pool \cup {item} ELSE pool
  /\ News(IF new THEN {item} ELSE {}, source)

NodeMakes(item) ==
  /\ ~Has(item) /\ (Kind(item) = "block" => item = Block(height + 1))
  /\ NodeTakes(item, "")
  /\ UNCHANGED <<relayers, fromNode, server, greeted, history>>

Announce(r) ==
  /\ fresh[r] # {} /\ Len(fromNode[r]) < MaxWire
  /\ \E items \in SetToSeqs(fresh[r]) :
       fromNode' = [fromNode EXCEPT ![r] = Append(@, [kind |-> "inv", items |-> items])]
  /\ fresh' = [fresh EXCEPT ![r] = {}]
  /\ UNCHANGED <<relayers, server, height, pool, greeted, history>>

----------------------------------------------------------------------------
(***************************************************************************)
(* Making and losing a connection.                                         *)
(***************************************************************************)

Alive(r) == phase[r] \in {"setup", "up"}

Connect(r) ==
  /\ phase[r] = "down" /\ conn[r] < MaxConn[r]
  /\ phase' = [phase EXCEPT ![r] = "setup"] /\ conn' = [conn EXCEPT ![r] = @ + 1]
  /\ early' = [early EXCEPT ![r] = FALSE] /\ stale' = [stale EXCEPT ![r] = FALSE]
  /\ UNCHANGED <<connected, seen, push, fromNode, server, node, asked, lost>>

\* net_process sends version, and the bitcoind answers with its own and verack.
SendVersion(r) ==
  /\ phase[r] = "setup" /\ phase' = [phase EXCEPT ![r] = "up"]
  /\ connected' = [connected EXCEPT ![r] = 0]
  /\ greeted' = [greeted EXCEPT ![r] = "version"]
  /\ fromNode' = [fromNode EXCEPT ![r] = <<[kind |-> "version"], [kind |-> "verack"]>>]
  /\ UNCHANGED <<conn, seen, push, server, height, pool, fresh, history>>

\* The items on their way to recv.
OnTheWay == {msg.item : msg \in {m \in ToSet(fromNode["recv"]) : m.kind = "data"}}

\* The connection ends for whatever reason, an error of net_process included, and
\* reconnect takes the pointer.  What was under way is lost.  (A failed attempt to
\* connect changes nothing and is no step.)
Lose(r) ==
  /\ phase' = [phase EXCEPT ![r] = "swapped"]
  /\ fromNode' = [fromNode EXCEPT ![r] = <<>>]
  /\ fresh' = [fresh EXCEPT ![r] = {}] /\ greeted' = [greeted EXCEPT ![r] = "none"]
  /\ lost' = IF r = "recv" THEN lost \cup OnTheWay ELSE lost

Break(r) ==
  /\ Alive(r) /\ Lose(r)
  /\ UNCHANGED <<conn, connected, seen, push, server, height, pool, asked, early, stale>>

\* Mutant of on_disconnect: connected stays.
on_disconnectMutant(r) ==
  /\ phase[r] = "swapped" /\ phase' = [phase EXCEPT ![r] = "down"]
  /\ UNCHANGED <<conn, connected, seen, push, fromNode, server, node, history>>

on_disconnect(r) ==
  /\ phase[r] = "swapped" /\ phase' = [phase EXCEPT ![r] = "down"]
  /\ connected' = [connected EXCEPT ![r] = 0]
  /\ UNCHANGED <<conn, seen, push, fromNode, server, node, history>>

----------------------------------------------------------------------------
(***************************************************************************)
(* Other threads.  Each checks connected and sends later.                  *)
(***************************************************************************)
Pushes(r, item) == push' = [push EXCEPT ![r] = [item |-> item, since |-> conn[r]]]

\* receive_transaction and receive_block: a relay client's item goes up unless it is
\* known there.
Receive(item) ==
  LET r == insert(seen["up"][Kind(item)], item, SeenMax(item)) IN
  /\ connected["up"] = 2 /\ push["up"] = Nothing
  /\ Kind(item) = "block" => item[2] <= height + 1
  /\ seen' = [seen EXCEPT !["up"][Kind(item)] = r.queue]
  /\ IF r.second THEN Pushes("up", item) ELSE UNCHANGED push
  /\ UNCHANGED <<phase, conn, connected, fromNode, server, node, history>>

\* A transaction is asked for on recv if that is connected, or else not at all.
request_transaction(item) ==
  \/ connected["recv"] = 2 /\ Pushes("recv", item) /\ UNCHANGED lost
  \/ connected["recv"] # 2 /\ lost' = lost \cup {item} /\ UNCHANGED push

\* A hash from the mempool server: noted, then asked for.  txn_mutex and map_mutex are
\* held to the end.  (was_tx_sent: the send cache forgets nothing here.)
OnHash(x) ==
  LET item == <<"tx", x>> IN
  /\ push["recv"] = Nothing /\ Len(fromNode["recv"]) < MaxWire
  /\ item \notin relayed
  /\ waiting' = vectorInsert(waiting, item, WaitingMax)
  /\ request_transaction(item)
  /\ UNCHANGED <<phase, conn, connected, seen, fromNode, sent, relayed, node, asked, early, stale>>

\* maybe_do_send_bytes: on the connection there is now, or not at all.  The bitcoind
\* takes no notice of what comes before version and verack.
Send(r) ==
  LET item == push[r].item
      read == Alive(r) /\ greeted[r] = "verack" IN
  /\ push[r] # Nothing
  /\ \/ r = "up" /\ read /\ NodeTakes(item, "up") /\ UNCHANGED <<fromNode, lost>>
     \/ /\ r = "recv" /\ read
        /\ IF Has(item)
           THEN fromNode' = [fromNode EXCEPT ![r] = @ \o Data(<<item>>)] /\ UNCHANGED lost
           ELSE lost' = lost \cup {item} /\ UNCHANGED fromNode
        /\ UNCHANGED <<height, pool, fresh>>
     \/ /\ ~read /\ lost' = IF r = "recv" THEN lost \cup {item} ELSE lost
        /\ UNCHANGED <<fromNode, height, pool, fresh>>
  /\ early' = [early EXCEPT ![r] = @ \/ (Alive(r) /\ ~read)]
  /\ stale' = [stale EXCEPT ![r] = @ \/ push[r].since # conn[r]]
  /\ push' = [push EXCEPT ![r] = Nothing]
  /\ UNCHANGED <<phase, conn, connected, seen, server, greeted, asked>>

----------------------------------------------------------------------------
(***************************************************************************)
(* net_process handles one message, rest being what comes after it.        *)
(***************************************************************************)
Left(r, rest) == fromNode' = [fromNode EXCEPT ![r] = rest]

\* Mutant of ReadVersion: the handshake is over with the version.
ReadVersionMutant(r, msg, rest) ==
  /\ msg.kind = "version"
  /\ connected' = [connected EXCEPT ![r] = 2]
  /\ greeted' = [greeted EXCEPT ![r] = "verack"]
  /\ Left(r, rest)
  /\ UNCHANGED <<seen, server, asked, lost>>

\* version is answered with verack.
ReadVersion(r, msg, rest) ==
  /\ msg.kind = "version"
  /\ connected' = [connected EXCEPT ![r] = 1]
  /\ greeted' = [greeted EXCEPT ![r] = "verack"]
  /\ Left(r, rest)
  /\ UNCHANGED <<seen, server, asked, lost>>

\* verack is answered with getheaders.
ReadVerack(r, msg, rest) ==
  /\ msg.kind = "verack"
  /\ connected' = [connected EXCEPT ![r] = 2]
  /\ Left(r, rest \o HeadersAfter(0))
  /\ UNCHANGED <<seen, server, greeted, asked, lost>>

\* Mutant of Noted: what was noted last is all that is asked for.
NotedMutant(s, item) ==
  LET r == insert(s.seen[Kind(item)], item, SeenMax(item)) IN
  [seen |-> [s.seen EXCEPT ![Kind(item)] = r.queue],
   resp |-> IF r.second THEN <<item>> ELSE s.resp]

\* One turn of the loop over an inv: blocks are asked for before transactions.
Noted(s, item) ==
  LET r == insert(s.seen[Kind(item)], item, SeenMax(item)) IN
  [seen |-> [s.seen EXCEPT ![Kind(item)] = r.queue],
   resp |-> IF ~r.second THEN s.resp
            ELSE IF Kind(item) = "block" THEN <<item>> \o s.resp ELSE Append(s.resp, item)]

\* The loop over the items of an inv, from what was seen before.
NotedAll(before, items) ==
  LET s[k \in 0..Len(items)] ==
        IF k = 0 THEN [seen |-> before, resp |-> <<>>] ELSE Noted(s[k - 1], items[k])
  IN  s[Len(items)]

\* inv is answered with getdata, and that with the data: the bitcoind has what it
\* has announced.
ReadInv(r, msg, rest) ==
  LET s == NotedAll(seen[r], msg.items) IN
  /\ msg.kind = "inv"
  /\ seen' = [seen EXCEPT ![r] = s.seen]
  /\ Left(r, rest \o Data(s.resp))
  /\ asked' = asked \cup {i \in ToSet(msg.items) : r = "recv" /\ Kind(i) = "block"}
  /\ UNCHANGED <<connected, server, greeted, lost>>

\* do_relay: a block known from headers is not relayed.  The callback of up ignores it.
provide_block(r, msg, rest) ==
  /\ msg.kind = "data" /\ Kind(msg.item) = "block"
  /\ IF r = "recv" /\ msg.item \notin sent
     THEN relayed' = relayed \cup {msg.item} /\ sent' = sent \cup {msg.item}
     ELSE UNCHANGED <<relayed, sent>>
  /\ lost' = IF r = "recv" THEN lost \cup ({msg.item} \cap (sent \ relayed)) ELSE lost
  /\ Left(r, rest)
  /\ UNCHANGED <<connected, seen, waiting, greeted, asked>>

\* Mutant of provide_transaction: it looks into the wrong set.
provide_transactionMutant(r, msg, rest) ==
  /\ msg.kind = "data" /\ Kind(msg.item) = "tx"
  /\ relayed' = IF r = "recv" /\ msg.item \in ToSet(seen[r]["tx"])
                THEN relayed \cup {msg.item} ELSE relayed
  /\ Left(r, rest)
  /\ UNCHANGED <<connected, seen, sent, waiting, greeted, asked, lost>>

\* Only transactions that are waited for are relayed.
provide_transaction(r, msg, rest) ==
  /\ msg.kind = "data" /\ Kind(msg.item) = "tx"
  /\ relayed' = IF r = "recv" /\ msg.item \in ToSet(waiting)
                THEN relayed \cup {msg.item} ELSE relayed
  /\ Left(r, rest)
  /\ UNCHANGED <<connected, seen, sent, waiting, greeted, asked, lost>>

\* A message with less than two headers is taken for the last one and not looked at;
\* any other is answered with getheaders.  Only the callback of up does something.
ReadHeaders(r, msg, rest) ==
  /\ msg.kind = "headers"
  /\ \/ msg.last <= msg.from + 1 /\ Left(r, rest) /\ UNCHANGED sent
     \/ /\ msg.last > msg.from + 1
        /\ sent' = IF r = "up" THEN sent \cup {Block(h) : h \in (msg.from + 1)..msg.last} ELSE sent
        /\ Left(r, rest \o HeadersAfter(msg.last))
  /\ UNCHANGED <<connected, seen, waiting, relayed, greeted, asked, lost>>

\* Which messages net_process accepts, by connected; it disconnects at any other.
Expected(r, msg) ==
  connected[r] = CASE msg.kind = "version" -> 0 [] msg.kind = "verack" -> 1 [] OTHER -> 2

\* The callbacks of recv need txn_mutex or map_mutex, which OnHash holds while it sends.
net_process(r) ==
  LET msg  == Head(fromNode[r])
      rest == Tail(fromNode[r]) IN
  /\ phase[r] = "up" /\ fromNode[r] # <<>>
  /\ r = "recv" /\ msg.kind = "data" => push["recv"] = Nothing
  /\ IF Expected(r, msg)
     THEN /\ \/ ReadVersion(r, msg, rest) \/ ReadVerack(r, msg, rest)
             \/ ReadInv(r, msg, rest) \/ ReadHeaders(r, msg, rest)
             \/ provide_block(r, msg, rest) \/ provide_transaction(r, msg, rest)
          /\ UNCHANGED <<phase, fresh>>
     ELSE Lose(r) /\ UNCHANGED <<connected, seen, server, asked>>
  /\ UNCHANGED <<conn, push, height, pool, early, stale>>

Next ==
  \/ \E r \in Relayer : \/ Connect(r) \/ SendVersion(r) \/ Break(r) \/ on_disconnect(r)
                        \/ Send(r) \/ net_process(r) \/ Announce(r)
  \/ \E item \in Ours : Receive(item)
  \/ \E item \in Theirs : NodeMakes(item)
  \/ \E x \in Tx : OnHash(x)

Spec == Init /\ [][Next]_vars

----------------------------------------------------------------------------
(***************************************************************************)
(* Properties.                                                             *)
(***************************************************************************)
Remembers(queue, items, limit) ==
  queue \in Seq(items) /\ IsInjective(queue) /\ Len(queue) <= limit

TypeOK ==
  /\ \A r \in Relayer :
       /\ phase[r] \in {"setup", "up", "swapped", "down"} /\ conn[r] \in 0..MaxConn[r]
       /\ connected[r] \in 0..2 /\ greeted[r] \in {"none", "version", "verack"}
       /\ Remembers(seen[r]["tx"], Item, TxSeenMax) /\ Remembers(seen[r]["block"], Item, BlockSeenMax)
       /\ fresh[r] \subseteq Item
  /\ Remembers(waiting, Item, WaitingMax)
  /\ height \in 0..MaxBlock /\ pool \subseteq Item
  /\ sent \subseteq Item /\ relayed \subseteq Item /\ asked \subseteq Item /\ lost \subseteq Item

\* A relayer that counts itself connected has finished the handshake of the connection
\* it has, or is about to notice that it has none (p2pclient.cpp:28-33, 80-100 and
\* connection.cpp:394-402): a connected left over from the last one would let other
\* threads send before the version.
ConnectedHere ==
  \A r \in Relayer :
    connected[r] = 2 => phase[r] = "swapped" \/ (phase[r] = "up" /\ greeted[r] = "verack")

\* Both ends keep the order of the handshake: nothing a well behaved bitcoind sends
\* makes net_process disconnect, and the bitcoind is sent version, verack and then the
\* rest, unless a thread that found an earlier connection connected sends on this one
\* (p2pclient.cpp:80-114, 180-217).
InOrder ==
  \A r \in Relayer :
    /\ phase[r] = "up" /\ fromNode[r] # <<>> => Expected(r, Head(fromNode[r]))
    /\ early[r] => stale[r]

\* A block that was announced is relayed or on its way here, unless the connection was
\* lost in between, after which it is never asked for again, or the headers that came
\* on the other connection named it first (p2pclient.cpp:126-157, server.cpp:341-354,
\* 374).
BlocksAccounted == asked \subseteq relayed \cup lost \cup OnTheWay

\* A transaction that is waited for was relayed or is on its way here, unless it was
\* asked for while there was no connection, or lost with it, or unknown to the
\* bitcoind (server.cpp:402-420, 424-432).
RequestsAccounted ==
  ToSet(waiting) \subseteq
    relayed \cup lost \cup OnTheWay \cup {i \in Item : push["recv"] # Nothing /\ push["recv"].item = i}
============================================================================
