------------------------ MODULE RelayMessages_proofs ------------------------
(***************************************************************************)
(* Proofs about what the relay's messages mean to the side that reads them.*)
(*                                                                         *)
(* The way up, for any transactions, blocks and limits of the caches and   *)
(* any number of connections: as long as the client's threads send their   *)
(* messages in the order they made them, and on the connection they made   *)
(* them for, the server reads every one of them.                           *)
(*                                                                         *)
(* One block message, whatever it says and whatever cache it meets: what   *)
(* the decoder makes of it, what that leaves of the cache, and what the    *)
(* merkle check says to it.                                                *)
(***************************************************************************)
EXTENDS ClientRelay, Decompressor, RelayCodec_proofs

----------------------------------------------------------------------------
(***************************************************************************)
(* Reading a connection.                                                   *)
(***************************************************************************)

\* What is sent: by the thread of the connection, by that of bitcoind's, for a
\* connection whose number is in S.
VersionMsg  == [kind |-> "version"]
TxMsg(S)    == [kind : {"tx"}, tx : Tx, since : S]
BlockMsg(S) == [kind : {"block"}, block : Block, body : Seq(Entry), since : S]

Msg == {VersionMsg} \cup TxMsg(Nat) \cup BlockMsg(Nat)

\* One message, and one after another from the state s of the server's end.
Read(s, m) ==
  LET r == Deliver(s, m) IN [ok |-> r.ok /\ s.ok, cache |-> r.cache, version |-> r.version]

Reads(s, q) ==
  LET run[n \in 0..Len(q)] == IF n = 0 THEN s ELSE Read(run[n - 1], q[n])
  IN run[Len(q)]

\* The server's end now.
ServerNow == [ok |-> TRUE, cache |-> recv_tx_cache, version |-> version]

\* Replay is reading from there.
LEMMA ReplayReads == ASSUME NEW q PROVE Replay(q) = Reads(ServerNow, q)
BY DEF Replay, Reads, Read, ServerNow

\* The states on the way.
Reading(s, q, c) ==
  c = [n \in 0..Len(q) |-> IF n = 0 THEN s ELSE Read(c[n - 1], q[n])]

\* There is such a table.
LEMMA ReadingExists ==
  ASSUME NEW s, NEW q \in Seq(Msg) PROVE \E c : Reading(s, q, c)
<1> DEFINE UpTo(n, c) == c = [k \in 0..n |-> IF k = 0 THEN s ELSE Read(c[k - 1], q[k])]
           S == {n \in Nat : \E c : UpTo(n, c)}
<1>1. 0 \in S
  <2>1. UpTo(0, [k \in 0..0 |-> s])
    OBVIOUS
  <2> QED
    BY <2>1
<1>2. ASSUME NEW n \in Nat, n \in S PROVE n + 1 \in S
  <2>1. PICK c : UpTo(n, c)
    BY <1>2
  <2> DEFINE d == [k \in 0..(n + 1) |-> IF k = n + 1 THEN Read(c[n], q[n + 1]) ELSE c[k]]
  <2>2. ASSUME NEW k \in 0..(n + 1)
        PROVE  d[k] = IF k = 0 THEN s ELSE Read(d[k - 1], q[k])
    <3>1. CASE k = 0
      <4>1. d[0] = c[0] /\ c[0] = s
        BY <2>1
      <4> QED
        BY <3>1, <4>1
    <3>2. CASE k = n + 1
      <4>1. k # 0 /\ k - 1 = n /\ d[n] = c[n]
        BY <3>2
      <4> QED
        BY <3>2, <4>1
    <3>3. CASE k \in 1..n
      <4>1. k # 0 /\ k \in 0..n /\ k - 1 \in 0..n /\ d[k] = c[k] /\ d[k - 1] = c[k - 1]
        BY <3>3
      <4>2. c[k] = Read(c[k - 1], q[k])
        BY <2>1, <4>1
      <4> QED
        BY <4>1, <4>2
    <3> QED
      BY <3>1, <3>2, <3>3
  <2>3. d = [k \in 0..(n + 1) |-> d[k]]
    OBVIOUS
  <2> HIDE DEF d
  <2>4. UpTo(n + 1, d)
    BY <2>2, <2>3
  <2> QED
    BY <2>4, SMTT(30)
<1> HIDE DEF S
<1>3. Len(q) \in S
  BY <1>1, <1>2, SetInduction
<1> QED
  BY <1>3 DEF S, Reading

\* The server ends in its last entry.
LEMMA ReadingHolds ==
  ASSUME NEW s, NEW q \in Seq(Msg)
  PROVE  \E c : /\ Reads(s, q) = c[Len(q)] /\ c[0] = s
                /\ \A n \in 1..Len(q) : c[n] = Read(c[n - 1], q[n])
<1> DEFINE h == CHOOSE h : Reading(s, q, h)
<1>1. Reading(s, q, h)
  BY ReadingExists
<1>2. Reads(s, q) = h[Len(q)]
  BY DEF Reads, h, Reading
<1> HIDE DEF h
<1>3. Len(q) \in Nat
  OBVIOUS
<1>4. h[0] = s
  BY <1>1, <1>3 DEF Reading
<1>5. \A n \in 1..Len(q) : n \in 0..Len(q) /\ n # 0
  BY <1>3
<1>6. \A n \in 1..Len(q) : h[n] = Read(h[n - 1], q[n])
  BY <1>1, <1>5, Zenon DEF Reading
<1> QED
  BY <1>2, <1>4, <1>6

\* So one more message is one more turn.
LEMMA ReadsFacts ==
  ASSUME NEW s
  PROVE  /\ Reads(s, <<>>) = s
         /\ \A q \in Seq(Msg), m \in Msg : Reads(s, Append(q, m)) = Read(Reads(s, q), m)
<1>1. Reads(s, <<>>) = s
  <2>1. ASSUME NEW e \in Seq(Msg), Len(e) = 0 PROVE Reads(s, e) = s
    <3>1. PICK c : Reads(s, e) = c[Len(e)] /\ c[0] = s
      BY ReadingHolds
    <3> QED
      BY <2>1, <3>1
  <2>2. <<>> \in Seq(Msg) /\ Len(<<>>) = 0
    OBVIOUS
  <2> QED
    BY <2>1, <2>2
<1>2. ASSUME NEW q \in Seq(Msg), NEW m \in Msg
      PROVE  Reads(s, Append(q, m)) = Read(Reads(s, q), m)
  <2> DEFINE r == Append(q, m)
  <2>1. r \in Seq(Msg) /\ Len(r) = Len(q) + 1 /\ Len(q) \in Nat /\ r[Len(q) + 1] = m
        /\ \A n \in 1..Len(q) : r[n] = q[n]
    OBVIOUS
  <2> HIDE DEF r
  <2>2. PICK c : /\ Reads(s, q) = c[Len(q)] /\ c[0] = s
                 /\ \A n \in 1..Len(q) : c[n] = Read(c[n - 1], q[n])
    BY ReadingHolds
  <2>3. PICK d : /\ Reads(s, r) = d[Len(r)] /\ d[0] = s
                 /\ \A n \in 1..Len(r) : d[n] = Read(d[n - 1], r[n])
    BY <2>1, ReadingHolds
  <2> DEFINE S == {n \in Nat : n <= Len(q) => d[n] = c[n]}
  <2>4. 0 \in S
    BY <2>2, <2>3
  <2>5. ASSUME NEW n \in Nat, n \in S PROVE n + 1 \in S
    <3> SUFFICES ASSUME n + 1 <= Len(q) PROVE d[n + 1] = c[n + 1]
      OBVIOUS
    <3>1. n + 1 \in 1..Len(q) /\ n + 1 \in 1..Len(r) /\ (n + 1) - 1 = n /\ n <= Len(q)
      BY <2>1
    <3>2. d[n] = c[n] /\ r[n + 1] = q[n + 1]
      BY <2>1, <2>5, <3>1
    <3>3. c[n + 1] = Read(c[n], q[n + 1]) /\ d[n + 1] = Read(d[n], r[n + 1])
      BY <2>2, <2>3, <3>1
    <3> QED
      BY <3>2, <3>3
  <2> HIDE DEF S
  <2>6. Len(q) \in S
    BY <2>1, <2>4, <2>5, SetInduction
  <2>7. d[Len(q)] = c[Len(q)]
    BY <2>1, <2>6 DEF S
  <2>8. Len(q) + 1 \in 1..Len(r) /\ (Len(q) + 1) - 1 = Len(q)
    BY <2>1
  <2>9. d[Len(q) + 1] = Read(d[Len(q)], r[Len(q) + 1])
    BY <2>3, <2>8
  <2> QED
    BY <2>1, <2>2, <2>3, <2>7, <2>9 DEF r
<1> QED
  BY <1>1, <1>2

\* Reading the first message is the first step of reading them all.
LEMMA ReadsFirst ==
  ASSUME NEW s, NEW m \in Msg, NEW q \in Seq(Msg)
  PROVE  Reads(s, <<m>> \o q) = Reads(Read(s, m), q)
<1> DEFINE u == Read(s, m)
           P == {l \in Seq(Msg) : Reads(s, <<m>> \o l) = Reads(u, l)}
<1>0. <<m>> \in Seq(Msg) /\ <<m>> = Append(<<>>, m) /\ <<>> \in Seq(Msg)
  OBVIOUS
<1>1. <<>> \in P
  <2>1. Reads(u, <<>>) = u /\ Reads(s, <<>>) = s
    BY ReadsFacts
  <2>2. Reads(s, Append(<<>>, m)) = Read(Reads(s, <<>>), m)
    BY <1>0, ReadsFacts
  <2>3. <<m>> \o <<>> = <<m>>
    BY <1>0, ConcatEmptySeq
  <2> QED
    BY <1>0, <2>1, <2>2, <2>3
<1>2. ASSUME NEW l \in Seq(Msg), NEW x \in Msg, l \in P PROVE Append(l, x) \in P
  <2>0. Append(l, x) \in Seq(Msg)
    OBVIOUS
  <2>1. <<m>> \o Append(l, x) = Append(<<m>> \o l, x) /\ <<m>> \o l \in Seq(Msg)
    BY <1>0, AppendToConcat
  <2>2. Reads(s, Append(<<m>> \o l, x)) = Read(Reads(s, <<m>> \o l), x)
    BY <2>1, ReadsFacts
  <2>3. Reads(u, Append(l, x)) = Read(Reads(u, l), x)
    BY ReadsFacts
  <2> QED
    BY <1>2, <2>0, <2>1, <2>2, <2>3
<1> HIDE DEF P
<1>3. q \in P
  BY <1>1, <1>2, ListInduction
<1> QED
  BY <1>3 DEF P

\* The states of the server's end.
IsEnd(s) ==
  /\ s = [ok |-> s.ok, cache |-> s.cache, version |-> s.version]
  /\ s.ok \in BOOLEAN /\ s.version \in BOOLEAN

\* One message, by its kind.
LEMMA DeliverFacts ==
  ASSUME NEW s, NEW m \in Msg
  PROVE  /\ m = VersionMsg => Deliver(s, m) = [ok |-> TRUE, cache |-> s.cache, version |-> TRUE]
         /\ m \in TxMsg(Nat) =>
              LET r == recv_tx(0, s.cache, m.tx) IN
              Deliver(s, m) = [ok |-> s.version /\ r.ok, cache |-> r.cache, version |-> s.version]
         /\ m \in BlockMsg(Nat) =>
              LET r == DecompressBlock(s.cache, m.body) IN
              Deliver(s, m) = [ok |-> s.version /\ r.ok /\ r.txs = BlockTxs[m.block],
                               cache |-> r.cache, version |-> s.version]
<1>1. CASE m = VersionMsg
  <2>1. m.kind = "version" /\ m \notin TxMsg(Nat) /\ m \notin BlockMsg(Nat)
    BY <1>1 DEF VersionMsg, TxMsg, BlockMsg
  <2> QED
    BY <1>1, <2>1, Zenon DEF Deliver
<1>2. CASE m \in TxMsg(Nat)
  <2>1. m.kind = "tx" /\ m # VersionMsg /\ m \notin BlockMsg(Nat)
    BY <1>2 DEF TxMsg, VersionMsg, BlockMsg
  <2>2. "tx" # "version" /\ "tx" # "block"
    OBVIOUS
  <2>3. Deliver(s, m) = [ok |-> s.version /\ recv_tx(0, s.cache, m.tx).ok,
                         cache |-> recv_tx(0, s.cache, m.tx).cache, version |-> s.version]
    BY <2>1, <2>2 DEF Deliver
  <2> QED
    BY <2>1, <2>3, Zenon
<1>3. CASE m \in BlockMsg(Nat)
  <2>1. m.kind = "block" /\ m # VersionMsg /\ m \notin TxMsg(Nat)
    BY <1>3 DEF BlockMsg, VersionMsg, TxMsg
  <2>3. LET r == DecompressBlock(s.cache, m.body) IN
        Deliver(s, m) = [ok |-> s.version /\ r.ok /\ r.txs = BlockTxs[m.block],
                         cache |-> r.cache, version |-> s.version]
    BY <2>1 DEF Deliver
  <2> QED
    BY <2>1, <2>3, Zenon
<1> QED
  BY <1>1, <1>2, <1>3 DEF Msg

\* A message is refused by a server that has refused one before, or read no VERSION.
LEMMA ReadFacts ==
  ASSUME NEW s, IsEnd(s), NEW m \in Msg
  PROVE  LET u == Read(s, m) IN
         IsEnd(u) /\ (u.ok => s.ok) /\ (u.ok => s.version \/ m = VersionMsg)
<1> DEFINE d == Deliver(s, m)
<1>1. d.ok \in BOOLEAN /\ d.version \in BOOLEAN /\ (d.ok => s.version \/ m = VersionMsg)
  <2>1. CASE m = VersionMsg
    <3>1. d = [ok |-> TRUE, cache |-> s.cache, version |-> TRUE]
      BY <2>1, DeliverFacts
    <3> HIDE DEF d
    <3> QED
      BY <2>1, <3>1
  <2>2. CASE m \in TxMsg(Nat)
    <3> DEFINE r == recv_tx(0, s.cache, m.tx)
    <3>1. d = [ok |-> s.version /\ r.ok, cache |-> r.cache, version |-> s.version]
      BY <2>2, DeliverFacts
    <3> HIDE DEF d, r
    <3> QED
      BY <3>1 DEF IsEnd
  <2>3. CASE m \in BlockMsg(Nat)
    <3> DEFINE r == DecompressBlock(s.cache, m.body)
    <3>1. d = [ok |-> s.version /\ r.ok /\ r.txs = BlockTxs[m.block], cache |-> r.cache, version |-> s.version]
      BY <2>3, DeliverFacts
    <3> HIDE DEF d, r
    <3> QED
      BY <3>1 DEF IsEnd
  <2> QED
    BY <2>1, <2>2, <2>3 DEF Msg
<1>2. Read(s, m) = [ok |-> d.ok /\ s.ok, cache |-> d.cache, version |-> d.version]
  BY DEF Read
<1> HIDE DEF d
<1> QED
  BY <1>1, <1>2 DEF IsEnd

\* What a server has refused stays refused.
LEMMA OkBefore ==
  ASSUME NEW s, IsEnd(s), NEW q \in Seq(Msg)
  PROVE  IsEnd(Reads(s, q)) /\ (Reads(s, q).ok => s.ok)
<1> DEFINE P == {l \in Seq(Msg) : IsEnd(Reads(s, l)) /\ (Reads(s, l).ok => s.ok)}
<1>1. <<>> \in P
  <2>1. <<>> \in Seq(Msg) /\ Reads(s, <<>>) = s
    BY ReadsFacts
  <2> QED
    BY <2>1
<1>2. ASSUME NEW l \in Seq(Msg), NEW x \in Msg, l \in P PROVE Append(l, x) \in P
  <2>0. Append(l, x) \in Seq(Msg)
    OBVIOUS
  <2>1. Reads(s, Append(l, x)) = Read(Reads(s, l), x)
    BY ReadsFacts
  <2>2. IsEnd(Read(Reads(s, l), x)) /\ (Read(Reads(s, l), x).ok => Reads(s, l).ok)
    BY <1>2, ReadFacts
  <2> QED
    BY <1>2, <2>0, <2>1, <2>2
<1> HIDE DEF P
<1>3. q \in P
  BY <1>1, <1>2, ListInduction
<1> QED
  BY <1>3 DEF P

\* A server that can read all there is can read the first message, and the rest from
\* the state it is in then.
LEMMA ReadOne ==
  ASSUME NEW s, IsEnd(s), NEW w \in Seq(Msg), w # <<>>, NEW o \in Seq(Msg), Reads(s, w \o o).ok
  PROVE  LET u == Read(s, Head(w)) IN
         /\ u.ok /\ Reads(s, w \o o) = Reads(u, Tail(w) \o o)
<1> DEFINE m == Head(w)  q == Tail(w) \o o  u == Read(s, m)
<1>1. m \in Msg /\ q \in Seq(Msg)
  OBVIOUS
<1>2. w \o o = <<m>> \o q
  <2>1. w \o o \in Seq(Msg) /\ w \o o # <<>> /\ Head(w \o o) = m /\ Tail(w \o o) = q
    BY HeadTailOfConcat
  <2> QED
    BY <2>1, HeadThenTail
<1> HIDE DEF m, q
<1>3. Reads(s, w \o o) = Reads(u, q)
  BY <1>1, <1>2, ReadsFirst
<1>4. IsEnd(u)
  BY <1>1, ReadFacts
<1>5. u.ok
  BY <1>1, <1>3, <1>4, OkBefore
<1> QED
  BY <1>3, <1>5 DEF m, q

\* A server that has the client's cache and has read VERSION.
Ready(cache) == [ok |-> TRUE, cache |-> cache, version |-> TRUE]

\* Such a server reads a transaction the client sends ...
LEMMA TxRead ==
  ASSUME NEW cache, NEW nc, NEW m \in TxMsg(Nat), recv_tx(0, cache, m.tx) = [ok |-> TRUE, cache |-> nc]
  PROVE  Read(Ready(cache), m) = Ready(nc)
<1> DEFINE r == recv_tx(0, cache, m.tx)  s == Ready(cache)  d == Deliver(s, m)
<1>1. r.ok = TRUE /\ r.cache = nc
  OBVIOUS
<1>2. s.ok = TRUE /\ s.cache = cache /\ s.version = TRUE /\ m \in Msg
  BY DEF Ready, Msg
<1>3. d = [ok |-> s.version /\ recv_tx(0, s.cache, m.tx).ok, cache |-> recv_tx(0, s.cache, m.tx).cache,
           version |-> s.version]
  BY <1>2, DeliverFacts
<1> HIDE DEF s, d
<1>4. d.ok = (TRUE /\ r.ok) /\ d.cache = r.cache /\ d.version = TRUE
  BY <1>2, <1>3
<1> HIDE DEF r
<1>5. Read(s, m) = [ok |-> d.ok /\ s.ok, cache |-> d.cache, version |-> d.version]
  BY DEF Read, d
<1> QED
  BY <1>1, <1>2, <1>4, <1>5 DEF Ready, s

\* ... and a block.
LEMMA BlockRead ==
  ASSUME NEW cache, NEW nc, NEW m \in BlockMsg(Nat),
         DecompressBlock(cache, m.body) = [ok |-> TRUE, cache |-> nc, txs |-> BlockTxs[m.block]]
  PROVE  Read(Ready(cache), m) = Ready(nc)
<1> DEFINE r == DecompressBlock(cache, m.body)  s == Ready(cache)  d == Deliver(s, m)
           e == DecompressBlock(s.cache, m.body)
<1>1. r.ok = TRUE /\ r.cache = nc /\ (r.txs = BlockTxs[m.block]) = TRUE
  OBVIOUS
<1>2. s.ok = TRUE /\ s.cache = cache /\ s.version = TRUE /\ m \in Msg
  BY DEF Ready, Msg
<1>3. d = [ok |-> s.version /\ e.ok /\ e.txs = BlockTxs[m.block], cache |-> e.cache, version |-> s.version]
  BY <1>2, DeliverFacts
<1>4. e = r
  BY <1>2
<1> HIDE DEF s, d, e, r
<1>5. d.ok = TRUE /\ d.cache = nc /\ d.version = TRUE
  BY <1>1, <1>2, <1>3, <1>4
<1>6. Read(s, m) = [ok |-> d.ok /\ s.ok, cache |-> d.cache, version |-> d.version]
  BY DEF Read, d
<1> QED
  BY <1>2, <1>5, <1>6 DEF Ready, s

----------------------------------------------------------------------------
(***************************************************************************)
(* The invariant.                                                          *)
(***************************************************************************)

\* The threads: at rest, at the compressor, or about to send, for the connection of
\* that number, or one of those numbers.
OwnAt(n) == {Idle} \cup [pc : {"make"}, tx : Tx, since : {n}] \cup [pc : {"send"}, msg : TxMsg({n})]
P2PIn(S) == {Idle} \cup [pc : {"make"}, block : Block, since : S] \cup [pc : {"send"}, msg : BlockMsg(S)]

\* The connection there is has never been found connected.
Unused == phase \in {"setup", "reset", "versioned"} \/ (phase = "down" /\ ~connected)

\* What is made and not sent is what the threads are about to send.
UnsentInv ==
  \/ p2p.pc # "send" /\ own.pc # "send" /\ unsent = <<>>
  \/ p2p.pc = "send" /\ own.pc # "send" /\ unsent = <<p2p.msg>>
  \/ p2p.pc # "send" /\ own.pc = "send" /\ unsent = <<own.msg>>
  \/ p2p.pc = "send" /\ own.pc = "send" /\ unsent = <<p2p.msg, own.msg>>
  \/ p2p.pc = "send" /\ own.pc = "send" /\ unsent = <<own.msg, p2p.msg>>

ThreadInv ==
  /\ phase \in {"up", "down", "swapped", "connecting", "setup", "reset", "versioned"}
  /\ conn \in Nat /\ version \in BOOLEAN
  /\ connected => phase \in {"up", "down", "swapped"}
  /\ phase = "up" => connected
  /\ own \in OwnAt(conn) /\ (phase # "up" => own = Idle)
  /\ p2p \in P2PIn(0..conn)
  /\ Unused => p2p \in P2PIn(0..(conn - 1))
  /\ wire \in Seq(Msg) /\ (~hasConnection => wire = <<>>)
  /\ Good(0, send_tx_cache)

\* The connection has been found connected, or will be when a sender looks next.
Used == phase = "up" \/ (phase = "down" /\ connected)

\* All there is to be sent was made for the connection there is.
Fresh == \A n \in DOMAIN unsent : unsent[n].since = conn

\* Without disorder the server can read what is on its way, and then the oldest message
\* not sent; and all of them, if they are for this connection, leave it with the client's
\* cache.
SyncInv ==
  ~disorder =>
    /\ ~refused
    /\ Reads(ServerNow, wire).ok
    /\ phase \in {"setup", "reset"} => wire = <<>> /\ recv_tx_cache = <<>>
    /\ phase = "versioned" => Reads(ServerNow, wire) = Ready(<<>>)
    /\ phase \in {"reset", "versioned"} /\ Fresh => send_tx_cache = <<>>
    /\ Used /\ unsent # <<>> =>
         (Head(unsent).since = conn => Reads(ServerNow, wire \o <<Head(unsent)>>).ok)
    /\ Used /\ Fresh => Reads(ServerNow, wire \o unsent) = Ready(send_tx_cache)

\* The inductive invariant.
ClientInv == ThreadInv /\ UnsentInv /\ SyncInv

----------------------------------------------------------------------------
\* The messages of the threads.
LEMMA OwnFacts ==
  ASSUME NEW n, own \in OwnAt(n)
  PROVE  /\ own.pc = "make" => own.tx \in Tx /\ own.since = n
         /\ own.pc = "send" => own.msg \in TxMsg({n}) /\ own.msg.since = n /\ own.msg.kind = "tx"
         /\ own.pc \in {"idle", "make", "send"} /\ (own.pc = "idle" => own = Idle)
BY DEF OwnAt, Idle, TxMsg

LEMMA P2PFacts ==
  ASSUME NEW S, p2p \in P2PIn(S)
  PROVE  /\ p2p.pc = "make" => p2p.block \in Block /\ p2p.since \in S
         /\ p2p.pc = "send" => p2p.msg \in BlockMsg(S) /\ p2p.msg.since \in S /\ p2p.msg.kind = "block"
         /\ p2p.pc \in {"idle", "make", "send"} /\ (p2p.pc = "idle" => p2p = Idle)
BY DEF P2PIn, Idle, BlockMsg

\* They go on the connection.
LEMMA MsgFacts ==
  ASSUME NEW S \in SUBSET Nat PROVE TxMsg(S) \subseteq Msg /\ BlockMsg(S) \subseteq Msg /\ VersionMsg \in Msg
<1>1. TxMsg(S) \subseteq TxMsg(Nat)
  BY DEF TxMsg
<1>2. BlockMsg(S) \subseteq BlockMsg(Nat)
  BY DEF BlockMsg
<1> QED
  BY <1>1, <1>2 DEF Msg

\* What was made for an earlier connection was made for one of the connections so far.
LEMMA P2PMonotone ==
  ASSUME NEW S, NEW T, S \subseteq T PROVE P2PIn(S) \subseteq P2PIn(T)
<1>1. BlockMsg(S) \subseteq BlockMsg(T)
  BY DEF BlockMsg
<1> QED
  BY <1>1 DEF P2PIn

\* The lists of at most two messages.
LEMMA ShortLists ==
  ASSUME NEW a \in Msg, NEW b \in Msg
  PROVE  /\ <<>> \in Seq(Msg) /\ <<a>> \in Seq(Msg) /\ <<a, b>> \in Seq(Msg)
         /\ Append(<<>>, a) = <<a>> /\ Append(<<a>>, b) = <<a, b>>
         /\ Head(<<a>>) = a /\ Tail(<<a>>) = <<>> /\ Head(<<a, b>>) = a /\ Tail(<<a, b>>) = <<b>>
         /\ DOMAIN <<>> = {} /\ DOMAIN <<a>> = {1} /\ DOMAIN <<a, b>> = {1, 2}
         /\ <<a>> # <<>> /\ <<a, b>> # <<>>
<1>1. <<>> \in Seq(Msg) /\ <<a>> \in Seq(Msg) /\ <<a, b>> \in Seq(Msg)
  OBVIOUS
<1>2. Append(<<>>, a) = <<a>> /\ Append(<<a>>, b) = <<a, b>>
  <2> DEFINE l == <<a>>  p == Append(l, b)
  <2>1. l \in Seq(Msg) /\ Len(l) = 1 /\ l[1] = a
    OBVIOUS
  <2> HIDE DEF l
  <2>2. p \in Seq(Msg) /\ Len(p) = 2 /\ p[1] = a /\ p[2] = b
    <3>1. p \in Seq(Msg) /\ Len(p) = Len(l) + 1 /\ p[Len(l) + 1] = b /\ \A k \in 1..Len(l) : p[k] = l[k]
      BY <2>1, AppendProperties, ZenonT(60)
    <3>2. 1 + 1 = 2 /\ 1 \in 1..1
      OBVIOUS
    <3> HIDE DEF p
    <3> QED
      BY <2>1, <3>1, <3>2
  <2> HIDE DEF p
  <2>3. p = <<a, b>>
    BY <2>2
  <2>4. Append(<<>>, a) = <<a>>
    OBVIOUS
  <2> QED
    BY <2>3, <2>4 DEF p, l
<1>3. Head(<<a>>) = a /\ Head(<<a, b>>) = a
  OBVIOUS
<1>4. Tail(<<a>>) = <<>>
  OBVIOUS
<1>5. Tail(<<a, b>>) = <<b>>
  OBVIOUS
<1>6. DOMAIN <<>> = {}
  OBVIOUS
<1>7. DOMAIN <<a>> = {1}
  OBVIOUS
<1>8. DOMAIN <<a, b>> = {1, 2}
  OBVIOUS
<1>9. <<a>> # <<>> /\ <<a, b>> # <<>>
  OBVIOUS
<1> QED
  BY <1>1, <1>2, <1>3, <1>4, <1>5, <1>6, <1>7, <1>8, <1>9, Zenon

\* The first of them is sent, or the second.
LEMMA RemoveOne ==
  ASSUME NEW a \in Msg
  PROVE  LET u == <<a>> IN RemoveAt(u, CHOOSE n \in DOMAIN u : u[n] = a) = <<>>
<1> DEFINE u == <<a>>  k == CHOOSE n \in DOMAIN u : u[n] = a
<1>1. u \in Seq(Msg) /\ Len(u) = 1 /\ DOMAIN u = {1} /\ u[1] = a
  OBVIOUS
<1>2. k = 1
  BY <1>1
<1> HIDE DEF u, k
<1>3. RemoveAt(u, 1) \in Seq(Msg) /\ Len(RemoveAt(u, 1)) = 0
  <2>1. 1 \in 1..Len(u)
    BY <1>1
  <2>2. RemoveAt(u, 1) \in Seq(Msg) /\ Len(RemoveAt(u, 1)) = Len(u) - 1
    BY <1>1, <2>1, RemoveAtFacts
  <2> QED
    BY <1>1, <2>2
<1>4. RemoveAt(u, 1) = <<>>
  BY <1>3, EmptySeq
<1> QED
  BY <1>2, <1>4 DEF u, k

LEMMA RemoveOfTwo ==
  ASSUME NEW a \in Msg, NEW b \in Msg, a # b
  PROVE  LET u == <<a, b>> IN
         /\ RemoveAt(u, CHOOSE n \in DOMAIN u : u[n] = a) = <<b>>
         /\ RemoveAt(u, CHOOSE n \in DOMAIN u : u[n] = b) = <<a>>
<1> DEFINE u == <<a, b>>
<1>1. u \in Seq(Msg) /\ Len(u) = 2 /\ DOMAIN u = {1, 2} /\ u[1] = a /\ u[2] = b
  OBVIOUS
<1> HIDE DEF u
<1>2. (CHOOSE n \in DOMAIN u : u[n] = a) = 1 /\ (CHOOSE n \in DOMAIN u : u[n] = b) = 2
  BY <1>1
<1>3. ASSUME NEW k \in {1, 2} PROVE RemoveAt(u, k) = <<u[3 - k]>>
  <2> DEFINE v == RemoveAt(u, k)
  <2>0. k \in 1..Len(u) /\ Len(u) - 1 = 1
    BY <1>1
  <2>1. v \in Seq(Msg) /\ Len(v) = 1 /\ v[1] = IF 1 < k THEN u[1] ELSE u[2]
    <3>1. v \in Seq(Msg) /\ Len(v) = Len(u) - 1
          /\ \A j \in 1..(Len(u) - 1) : v[j] = IF j < k THEN u[j] ELSE u[j + 1]
      BY <1>1, <2>0, RemoveAtFacts
    <3> HIDE DEF v
    <3> QED
      BY <2>0, <3>1
  <2> HIDE DEF v
  <2>2. v = <<v[1]>>
    BY <2>1
  <2>3. v[1] = u[3 - k]
    BY <2>1
  <2> QED
    BY <2>2, <2>3 DEF v
<1> QED
  BY <1>1, <1>2, <1>3 DEF u

----------------------------------------------------------------------------
(***************************************************************************)
(* The threads.                                                            *)
(***************************************************************************)

\* The list of what is not sent.
LEMMA UnsentFacts ==
  ASSUME ThreadInv, UnsentInv
  PROVE  /\ unsent \in Seq(Msg)
         /\ p2p.pc = "send" => p2p.msg \in Msg /\ p2p.msg \in BlockMsg(0..conn)
         /\ own.pc = "send" => own.msg \in Msg /\ own.msg.since = conn /\ own.msg \in TxMsg({conn})
         /\ p2p.pc = "send" /\ own.pc = "send" => p2p.msg # own.msg
<1>1. p2p \in P2PIn(0..conn) /\ own \in OwnAt(conn) /\ conn \in Nat
  BY DEF ThreadInv
<1>2. p2p.pc = "send" => p2p.msg \in BlockMsg(0..conn) /\ p2p.msg.kind = "block"
  BY <1>1, P2PFacts
<1>3. own.pc = "send" => own.msg \in TxMsg({conn}) /\ own.msg.kind = "tx" /\ own.msg.since = conn
  BY <1>1, OwnFacts
<1>4. BlockMsg(0..conn) \subseteq Msg
  <2>1. 0..conn \in SUBSET Nat
    BY <1>1
  <2> QED
    BY <2>1, MsgFacts
<1>5. TxMsg({conn}) \subseteq Msg
  <2>1. {conn} \in SUBSET Nat
    BY <1>1
  <2> QED
    BY <2>1, MsgFacts
<1>6. unsent \in Seq(Msg)
  <2>1. (p2p.pc = "send" => p2p.msg \in Msg) /\ (own.pc = "send" => own.msg \in Msg)
    BY <1>2, <1>3, <1>4, <1>5
  <2>2. \A m \in Msg : <<m>> \in Seq(Msg)
    BY ShortLists
  <2>3. \A l, m \in Msg : <<l, m>> \in Seq(Msg)
    BY ShortLists
  <2>4. <<>> \in Seq(Msg)
    OBVIOUS
  <2> QED
    BY <2>1, <2>2, <2>3, <2>4 DEF UnsentInv
<1> QED
  BY <1>2, <1>3, <1>4, <1>5, <1>6

\* Neither thread has made anything, and one makes a message.
LEMMA P2PMakes ==
  ASSUME ThreadInv, UnsentInv, p2p.pc # "send", NEW m \in Msg,
         p2p' = [pc |-> "send", msg |-> m], own' = own, unsent' = Append(unsent, m)
  PROVE  UnsentInv'
<1>1. own.pc = "send" => own.msg \in Msg
  BY UnsentFacts
<1>2. p2p'.pc = "send" /\ p2p'.msg = m /\ own'.pc = own.pc /\ (own.pc = "send" => own'.msg = own.msg)
  OBVIOUS
<1>3. CASE own.pc = "send"
  <2>1. unsent = <<own.msg>>
    BY <1>3 DEF UnsentInv
  <2>2. unsent' = <<own.msg, m>>
    BY <1>1, <1>3, <2>1, ShortLists
  <2> QED
    BY <1>2, <1>3, <2>2 DEF UnsentInv
<1>4. CASE own.pc # "send"
  <2>1. unsent = <<>>
    BY <1>4 DEF UnsentInv
  <2>2. unsent' = <<m>>
    BY <2>1, ShortLists
  <2> QED
    BY <1>2, <1>4, <2>2 DEF UnsentInv
<1> QED
  BY <1>3, <1>4

LEMMA OwnMakes ==
  ASSUME ThreadInv, UnsentInv, own.pc # "send", NEW m \in Msg,
         own' = [pc |-> "send", msg |-> m], p2p' = p2p, unsent' = Append(unsent, m)
  PROVE  UnsentInv'
<1>1. p2p.pc = "send" => p2p.msg \in Msg
  BY UnsentFacts
<1>2. own'.pc = "send" /\ own'.msg = m /\ p2p'.pc = p2p.pc /\ (p2p.pc = "send" => p2p'.msg = p2p.msg)
  OBVIOUS
<1>3. CASE p2p.pc = "send"
  <2>1. unsent = <<p2p.msg>>
    BY <1>3 DEF UnsentInv
  <2>2. unsent' = <<p2p.msg, m>>
    BY <1>1, <1>3, <2>1, ShortLists
  <2> QED
    BY <1>2, <1>3, <2>2 DEF UnsentInv
<1>4. CASE p2p.pc # "send"
  <2>1. unsent = <<>>
    BY <1>4 DEF UnsentInv
  <2>2. unsent' = <<m>>
    BY <2>1, ShortLists
  <2> QED
    BY <1>2, <1>4, <2>2 DEF UnsentInv
<1> QED
  BY <1>3, <1>4

\* One sends: its message leaves the list, and if it was the first, what is left is the
\* tail.
LEMMA P2PSends ==
  ASSUME ThreadInv, UnsentInv, p2p.pc = "send", p2p' = Idle, own' = own,
         unsent' = RemoveAt(unsent, CHOOSE n \in DOMAIN unsent : unsent[n] = p2p.msg)
  PROVE  /\ UnsentInv' /\ unsent # <<>>
         /\ p2p.msg = Head(unsent) => unsent' = Tail(unsent)
<1>1. p2p.msg \in Msg /\ (own.pc = "send" => own.msg \in Msg /\ p2p.msg # own.msg)
  BY UnsentFacts
<1>2. p2p'.pc = "idle" /\ own'.pc = own.pc /\ (own.pc = "send" => own'.msg = own.msg)
  BY DEF Idle
<1>3. CASE own.pc # "send"
  <2>1. unsent = <<p2p.msg>>
    BY <1>3 DEF UnsentInv
  <2>2. unsent' = <<>>
    BY <1>1, <2>1, RemoveOne
  <2>3. unsent # <<>> /\ Tail(unsent) = <<>>
    BY <1>1, <2>1, ShortLists
  <2> QED
    BY <1>2, <1>3, <2>2, <2>3 DEF UnsentInv
<1>4. CASE own.pc = "send" /\ unsent = <<p2p.msg, own.msg>>
  <2>1. unsent' = <<own.msg>>
    BY <1>1, <1>4, RemoveOfTwo
  <2>2. unsent # <<>> /\ Tail(unsent) = <<own.msg>>
    BY <1>1, <1>4, ShortLists
  <2> QED
    BY <1>2, <1>4, <2>1, <2>2 DEF UnsentInv
<1>5. CASE own.pc = "send" /\ unsent = <<own.msg, p2p.msg>>
  <2>1. unsent' = <<own.msg>>
    BY <1>1, <1>5, RemoveOfTwo
  <2>2. unsent # <<>> /\ Head(unsent) = own.msg
    BY <1>1, <1>5, ShortLists
  <2> QED
    BY <1>1, <1>2, <1>5, <2>1, <2>2 DEF UnsentInv
<1> QED
  BY <1>3, <1>4, <1>5 DEF UnsentInv

LEMMA OwnSends ==
  ASSUME ThreadInv, UnsentInv, own.pc = "send", own' = Idle, p2p' = p2p,
         unsent' = RemoveAt(unsent, CHOOSE n \in DOMAIN unsent : unsent[n] = own.msg)
  PROVE  /\ UnsentInv' /\ unsent # <<>>
         /\ own.msg = Head(unsent) => unsent' = Tail(unsent)
<1>1. own.msg \in Msg /\ (p2p.pc = "send" => p2p.msg \in Msg /\ p2p.msg # own.msg /\ own.msg # p2p.msg)
  BY UnsentFacts
<1>2. own'.pc = "idle" /\ p2p'.pc = p2p.pc /\ (p2p.pc = "send" => p2p'.msg = p2p.msg)
  BY DEF Idle
<1>3. CASE p2p.pc # "send"
  <2>1. unsent = <<own.msg>>
    BY <1>3 DEF UnsentInv
  <2>2. unsent' = <<>>
    BY <1>1, <2>1, RemoveOne
  <2>3. unsent # <<>> /\ Tail(unsent) = <<>>
    BY <1>1, <2>1, ShortLists
  <2> QED
    BY <1>2, <1>3, <2>2, <2>3 DEF UnsentInv
<1>4. CASE p2p.pc = "send" /\ unsent = <<own.msg, p2p.msg>>
  <2>1. unsent' = <<p2p.msg>>
    <3> DEFINE u == <<own.msg, p2p.msg>>
    <3>1. RemoveAt(u, CHOOSE n \in DOMAIN u : u[n] = own.msg) = <<p2p.msg>>
      BY <1>1, <1>4, RemoveOfTwo
    <3>2. unsent = u
      BY <1>4
    <3> HIDE DEF u
    <3> QED
      BY <3>1, <3>2
  <2>2. unsent # <<>> /\ Tail(unsent) = <<p2p.msg>>
    BY <1>1, <1>4, ShortLists
  <2> QED
    BY <1>2, <1>4, <2>1, <2>2 DEF UnsentInv
<1>5. CASE p2p.pc = "send" /\ unsent = <<p2p.msg, own.msg>>
  <2>1. unsent' = <<p2p.msg>>
    BY <1>1, <1>5, RemoveOfTwo
  <2>2. unsent # <<>> /\ Head(unsent) = p2p.msg
    BY <1>1, <1>5, ShortLists
  <2> QED
    BY <1>1, <1>2, <1>5, <2>1, <2>2 DEF UnsentInv
<1> QED
  BY <1>3, <1>4, <1>5 DEF UnsentInv

\* Steps of the connection leave the threads alone.
LEMMA ThreadsKept ==
  ASSUME UnsentInv, UNCHANGED <<p2p, own, unsent>> PROVE UnsentInv'
BY DEF UnsentInv

\* A thread that finds the client connected.
LEMMA BlockFromBitcoindKeeps ==
  ASSUME ClientInv, NEW b \in Block, BlockFromBitcoind(b) PROVE ThreadInv' /\ UnsentInv'
<1> USE DEF BlockFromBitcoind, compressor, serverEnd
<1>1. ThreadInv /\ UnsentInv /\ p2p = Idle /\ connected /\ p2p' = [pc |-> "make", block |-> b, since |-> conn]
  BY DEF ClientInv
<1>2. p2p' \in P2PIn(0..conn) /\ p2p'.pc = "make" /\ p2p.pc = "idle"
  BY <1>1 DEF P2PIn, ThreadInv, Idle
<1>3. ~Unused /\ ~Unused'
  BY <1>1 DEF ThreadInv, Unused
<1>4. ThreadInv'
  BY <1>1, <1>2, <1>3 DEF ThreadInv, hasConnection
<1>5. UnsentInv'
  BY <1>1, <1>2 DEF UnsentInv
<1> QED
  BY <1>4, <1>5

LEMMA TxFromServerKeeps ==
  ASSUME ClientInv, NEW x \in Tx, TxFromServer(x) PROVE ThreadInv' /\ UnsentInv'
<1> USE DEF TxFromServer, compressor, serverEnd
<1>1. ThreadInv /\ UnsentInv /\ own = Idle /\ phase = "up" /\ own' = [pc |-> "make", tx |-> x, since |-> conn]
  BY DEF ClientInv
<1>2. own' \in OwnAt(conn) /\ own'.pc = "make" /\ own.pc = "idle"
  BY <1>1 DEF OwnAt, Idle
<1>3. ThreadInv'
  BY <1>1, <1>2 DEF ThreadInv, hasConnection, Unused
<1>4. UnsentInv'
  BY <1>1, <1>2 DEF UnsentInv
<1> QED
  BY <1>3, <1>4

\* The block and the cache after it.
LEMMA Compressed ==
  ASSUME ThreadInv, p2p.pc = "make"
  PROVE  LET r == CompressBlock(send_tx_cache, BlockTxs[p2p.block]) IN
         /\ r.body \in Seq(Entry) /\ Good(0, r.cache)
         /\ DecompressBlock(send_tx_cache, r.body) = [ok |-> TRUE, cache |-> r.cache, txs |-> BlockTxs[p2p.block]]
<1>1. p2p.block \in Block /\ Good(0, send_tx_cache) /\ 0 \in CompressorType
  BY P2PFacts DEF ThreadInv, CompressorType
<1>2. BlockTxs[p2p.block] \in Seq(Tx)
  BY <1>1, ClientAssumption
<1>3. send_tx_cache \in Cache
  BY <1>1, GoodCache
<1> DEFINE block == BlockTxs[p2p.block]  r == CompressBlock(send_tx_cache, block)
<1> HIDE DEF block
<1>4. Good(0, r.cache)
  BY <1>1, <1>2, CompressGood DEF block
<1>5. r.body \in Seq(Entry)
  <2>1. BodyOf(block, r)
    BY <1>2, <1>3, CompressedFacts DEF block
  <2> QED
    BY <2>1 DEF BodyOf
<1>6. DecompressBlock(send_tx_cache, r.body) = [ok |-> TRUE, cache |-> r.cache, txs |-> block]
  BY <1>2, <1>3, RoundTrip DEF block
<1> QED
  BY <1>4, <1>5, <1>6 DEF block

\* A block seen before ends the work on it, another one makes a message.
LEMMA MakeBlockKeeps == ASSUME ClientInv, MakeBlock PROVE ThreadInv' /\ UnsentInv'
<1> DEFINE r == CompressBlock(send_tx_cache, BlockTxs[p2p.block])
           m == [kind |-> "block", block |-> p2p.block, body |-> r.body, since |-> p2p.since]
<1>1. /\ ThreadInv /\ UnsentInv /\ p2p.pc = "make"
      /\ UNCHANGED <<connected, phase, conn, own, wire, recv_tx_cache, version, refused, disorder>>
      /\ \/ p2p' = Idle /\ UNCHANGED <<send_tx_cache, seen, unsent>>
         \/ send_tx_cache' = r.cache /\ p2p' = [pc |-> "send", msg |-> m] /\ unsent' = Append(unsent, m)
  BY DEF MakeBlock, ClientInv, compressor, serverEnd
<1>2. CASE p2p' = Idle /\ UNCHANGED <<send_tx_cache, seen, unsent>>
  <2>1. p2p'.pc = "idle" /\ p2p' \in P2PIn(0..conn) /\ p2p' \in P2PIn(0..(conn - 1))
    BY <1>2 DEF Idle, P2PIn
  <2>2. ThreadInv'
    BY <1>1, <1>2, <2>1 DEF ThreadInv, hasConnection, Unused
  <2>3. UnsentInv'
    BY <1>1, <1>2, <2>1 DEF UnsentInv
  <2> QED
    BY <2>2, <2>3
<1>3. CASE send_tx_cache' = r.cache /\ p2p' = [pc |-> "send", msg |-> m] /\ unsent' = Append(unsent, m)
  <2>1. r.body \in Seq(Entry) /\ Good(0, r.cache)
    BY <1>1, Compressed
  <2> HIDE DEF r
  <2>2. ASSUME NEW S, p2p \in P2PIn(S) PROVE m \in BlockMsg(S) /\ p2p' \in P2PIn(S)
    <3>1. p2p.block \in Block /\ p2p.since \in S
      BY <1>1, <2>2, P2PFacts
    <3>2. m \in BlockMsg(S)
      BY <2>1, <3>1 DEF BlockMsg
    <3> QED
      BY <1>3, <3>2 DEF P2PIn
  <2>3. conn \in Nat /\ p2p \in P2PIn(0..conn) /\ (Unused => p2p \in P2PIn(0..(conn - 1)))
    BY <1>1 DEF ThreadInv
  <2>4. p2p' \in P2PIn(0..conn) /\ (Unused => p2p' \in P2PIn(0..(conn - 1)))
    BY <2>2, <2>3
  <2>5. m \in Msg
    <3>1. 0..conn \in SUBSET Nat /\ m \in BlockMsg(0..conn)
      BY <2>2, <2>3
    <3> QED
      BY <3>1, MsgFacts
  <2> HIDE DEF m
  <2>6. ThreadInv'
    BY <1>1, <1>3, <2>1, <2>4 DEF ThreadInv, hasConnection, Unused
  <2>7. UnsentInv'
    BY <1>1, <1>3, <2>5, P2PMakes
  <2> QED
    BY <2>6, <2>7
<1> QED
  BY <1>1, <1>2, <1>3

\* A transaction makes a message or, if it is not to be sent, none.
LEMMA MakeTxKeeps == ASSUME ClientInv, MakeTx PROVE ThreadInv' /\ UnsentInv'
<1> DEFINE r == get_relay_transaction(0, send_tx_cache, own.tx)
           m == [kind |-> "tx", tx |-> own.tx, since |-> own.since]
<1>1. /\ ThreadInv /\ UnsentInv /\ own.pc = "make" /\ send_tx_cache' = r.cache
      /\ UNCHANGED <<seen, connected, phase, conn, p2p, wire, recv_tx_cache, version, refused, disorder>>
      /\ own' = IF r.sent THEN [pc |-> "send", msg |-> m] ELSE Idle
      /\ unsent' = IF r.sent THEN Append(unsent, m) ELSE unsent
  BY DEF MakeTx, ClientInv, serverEnd
<1>2. own.tx \in Tx /\ own.since = conn /\ conn \in Nat /\ Good(0, send_tx_cache) /\ phase = "up"
      /\ 0 \in CompressorType
  BY <1>1, OwnFacts DEF ThreadInv, CompressorType, Idle
<1>3. m \in TxMsg({conn})
  BY <1>2 DEF TxMsg
<1>4. m \in Msg
  <2>1. {conn} \in SUBSET Nat
    BY <1>2
  <2> QED
    BY <1>3, <2>1, MsgFacts
<1>5. Good(0, r.cache)
  BY <1>2, SentFacts, NotSent
<1>6. CASE r.sent
  <2>1. own' = [pc |-> "send", msg |-> m] /\ unsent' = Append(unsent, m)
    BY <1>1, <1>6
  <2>2. own' \in OwnAt(conn)
    BY <1>3, <2>1 DEF OwnAt
  <2> HIDE DEF r, m
  <2>3. ThreadInv'
    BY <1>1, <1>2, <1>5, <2>2 DEF ThreadInv, hasConnection, Unused
  <2>4. UnsentInv'
    BY <1>1, <1>4, <2>1, OwnMakes
  <2> QED
    BY <2>3, <2>4
<1>7. CASE ~r.sent
  <2>1. own' = Idle /\ unsent' = unsent
    BY <1>1, <1>7
  <2>2. own' \in OwnAt(conn) /\ own'.pc = "idle"
    BY <2>1 DEF OwnAt, Idle
  <2> HIDE DEF r, m
  <2>3. ThreadInv'
    BY <1>1, <1>2, <1>5, <2>2 DEF ThreadInv, hasConnection, Unused
  <2>4. UnsentInv'
    BY <1>1, <2>1, <2>2 DEF UnsentInv
  <2> QED
    BY <2>3, <2>4
<1> QED
  BY <1>6, <1>7

\* A thread that has sent its message is at rest.
LEMMA SendBlockKeeps == ASSUME ClientInv, SendBlock PROVE ThreadInv' /\ UnsentInv'
<1>1. /\ ThreadInv /\ UnsentInv /\ p2p.pc = "send" /\ p2p' = Idle
      /\ UNCHANGED <<send_tx_cache, connected, phase, conn, own, version>>
      /\ wire' = IF hasConnection THEN Append(wire, p2p.msg) ELSE wire
      /\ unsent' = RemoveAt(unsent, CHOOSE n \in DOMAIN unsent : unsent[n] = p2p.msg)
  BY DEF SendBlock, Send, ClientInv, compressor, serverEnd
<1>2. p2p.msg \in Msg
  BY <1>1, UnsentFacts
<1>3. wire' \in Seq(Msg) /\ (~hasConnection => wire' = wire)
  BY <1>1, <1>2 DEF ThreadInv
<1>4. p2p' \in P2PIn(0..conn) /\ p2p' \in P2PIn(0..(conn - 1))
  BY <1>1 DEF P2PIn
<1>5. ThreadInv'
  BY <1>1, <1>3, <1>4 DEF ThreadInv, hasConnection, Unused
<1> QED
  BY <1>1, <1>5, P2PSends

LEMMA SendTxKeeps == ASSUME ClientInv, SendTx PROVE ThreadInv' /\ UnsentInv'
<1>1. /\ ThreadInv /\ UnsentInv /\ own.pc = "send" /\ own' = Idle
      /\ UNCHANGED <<send_tx_cache, connected, phase, conn, p2p, version>>
      /\ wire' = IF hasConnection THEN Append(wire, own.msg) ELSE wire
      /\ unsent' = RemoveAt(unsent, CHOOSE n \in DOMAIN unsent : unsent[n] = own.msg)
  BY DEF SendTx, Send, ClientInv, compressor, serverEnd
<1>2. own.msg \in Msg
  BY <1>1, UnsentFacts
<1>3. wire' \in Seq(Msg) /\ (~hasConnection => wire' = wire)
  BY <1>1, <1>2 DEF ThreadInv
<1>4. own' \in OwnAt(conn)
  BY <1>1 DEF OwnAt
<1>5. ThreadInv'
  BY <1>1, <1>3, <1>4 DEF ThreadInv, hasConnection, Unused
<1> QED
  BY <1>1, <1>5, OwnSends

\* The connection goes down, and comes up again as another one.
LEMMA ConnectionKeeps ==
  ASSUME ClientInv, Break \/ Reconnect \/ OnDisconnect \/ Reset \/ SendVersion \/ SetConnected
  PROVE  ThreadInv' /\ UnsentInv'
<1> USE DEF compressor, serverEnd
<1>0. ThreadInv /\ UnsentInv /\ UNCHANGED <<p2p, own, unsent, conn, version>>
  BY DEF ClientInv, Break, Reconnect, OnDisconnect, Reset, SendVersion, SetConnected
<1>1. UnsentInv'
  BY <1>0, ThreadsKept
<1>2. CASE Break
  BY <1>0, <1>1, <1>2 DEF Break, ThreadInv, hasConnection, Unused
<1>3. CASE Reconnect
  <2>1. wire' = <<>> /\ <<>> \in Seq(Msg)
    BY <1>3 DEF Reconnect
  <2> QED
    BY <1>0, <1>1, <1>3, <2>1 DEF Reconnect, ThreadInv, hasConnection, Unused
<1>4. CASE OnDisconnect
  BY <1>0, <1>1, <1>4 DEF OnDisconnect, ThreadInv, hasConnection, Unused
<1>5. CASE Reset
  <2>1. Good(0, send_tx_cache')
    BY <1>5, EmptyGood DEF Reset, CompressorType
  <2> QED
    BY <1>0, <1>1, <1>5, <2>1 DEF Reset, ThreadInv, hasConnection, Unused
<1>6. CASE SendVersion
  <2>1. VersionMsg \in Msg /\ wire' = Append(wire, VersionMsg)
    BY <1>6 DEF SendVersion, VersionMsg, Msg
  <2>2. wire' \in Seq(Msg)
    BY <1>0, <2>1 DEF ThreadInv
  <2> QED
    BY <1>0, <1>1, <1>6, <2>2 DEF SendVersion, ThreadInv, hasConnection, Unused
<1>7. CASE SetConnected
  BY <1>0, <1>1, <1>7 DEF SetConnected, ThreadInv, hasConnection, Unused
<1> QED
  BY <1>2, <1>3, <1>4, <1>5, <1>6, <1>7

LEMMA ConnectKeeps == ASSUME ClientInv, Connect PROVE ThreadInv' /\ UnsentInv'
<1> USE DEF compressor, serverEnd
<1>0. ThreadInv /\ UnsentInv /\ UNCHANGED <<p2p, own, unsent, send_tx_cache, connected>> /\ conn' = conn + 1
      /\ phase = "connecting" /\ phase' = "setup" /\ version' = FALSE /\ wire' = <<>>
  BY DEF ClientInv, Connect
<1>1. UnsentInv'
  BY <1>0, ThreadsKept
<1>2. conn \in Nat /\ conn' - 1 = conn /\ 0..conn \subseteq 0..conn' /\ conn' \in Nat
  BY <1>0 DEF ThreadInv
<1>3. p2p \in P2PIn(0..conn) /\ own = Idle
  BY <1>0 DEF ThreadInv
<1>4. p2p' \in P2PIn(0..(conn' - 1)) /\ p2p' \in P2PIn(0..conn')
  BY <1>0, <1>2, <1>3, P2PMonotone
<1>5. own' \in OwnAt(conn') /\ own' = Idle /\ wire' \in Seq(Msg)
  BY <1>0, <1>3 DEF OwnAt
<1>6. ThreadInv'
  BY <1>0, <1>2, <1>4, <1>5 DEF ThreadInv, hasConnection, Unused
<1> QED
  BY <1>1, <1>6

\* The server's end.
LEMMA ServerNowFacts == ASSUME ThreadInv PROVE IsEnd(ServerNow) /\ ServerNow.ok
BY DEF ThreadInv, IsEnd, ServerNow

\* What the server has read, if it does not refuse it.
LEMMA ServerReadsFacts ==
  ASSUME ThreadInv, ServerReads
  PROVE  LET u == Read(ServerNow, Head(wire)) IN
         /\ wire # <<>> /\ Head(wire) \in Msg /\ wire' = Tail(wire) /\ Tail(wire) \in Seq(Msg)
         /\ version' \in BOOLEAN
         /\ u.ok => ~refused' /\ ServerNow' = u
<1> DEFINE h == Head(wire)  s == Deliver(ServerNow, h)  u == Read(ServerNow, h)
<1>1. wire # <<>> /\ wire' = Tail(wire) /\ wire \in Seq(Msg)
  BY DEF ServerReads, ThreadInv
<1>2. h \in Msg /\ Tail(wire) \in Seq(Msg)
  BY <1>1
<1>3. recv_tx_cache' = s.cache /\ version' = s.version /\ refused' = ~s.ok
  BY DEF ServerReads, ServerNow
<1>4. u = [ok |-> s.ok /\ ServerNow.ok, cache |-> s.cache, version |-> s.version]
  BY DEF Read
<1>5. IsEnd(u)
  BY <1>2, ReadFacts, ServerNowFacts
<1>6. ServerNow' = [ok |-> TRUE, cache |-> recv_tx_cache', version |-> version']
  BY DEF ServerNow
<1> HIDE DEF h, s, u
<1>7. version' \in BOOLEAN
  BY <1>3, <1>4, <1>5 DEF IsEnd
<1>8. ASSUME u.ok PROVE ~refused' /\ ServerNow' = u
  <2>1. s.ok
    BY <1>4, <1>8
  <2>2. u.cache = recv_tx_cache' /\ u.version = version'
    BY <1>3, <1>4
  <2>3. u.ok = TRUE
    BY <1>5, <1>8 DEF IsEnd
  <2> QED
    BY <1>3, <1>5, <1>6, <2>1, <2>2, <2>3 DEF IsEnd
<1> QED
  BY <1>1, <1>2, <1>7, <1>8 DEF h, u

LEMMA ServerReadsKeeps == ASSUME ClientInv, ServerReads PROVE ThreadInv' /\ UnsentInv'
<1>0. ThreadInv /\ UnsentInv /\ UNCHANGED <<send_tx_cache, connected, phase, conn, p2p, own, unsent>>
  BY DEF ClientInv, ServerReads, compressor
<1>1. wire # <<>> /\ wire' \in Seq(Msg) /\ version' \in BOOLEAN
  BY <1>0, ServerReadsFacts
<1>2. ThreadInv'
  BY <1>0, <1>1 DEF ThreadInv, hasConnection, Unused
<1> QED
  BY <1>0, <1>2, ThreadsKept

----------------------------------------------------------------------------
(***************************************************************************)
(* Client and server in step.                                              *)
(***************************************************************************)

\* A step that neither makes, sends nor reads a message.
LEMMA SyncKept ==
  ASSUME SyncInv,
         UNCHANGED <<send_tx_cache, connected, phase, conn, wire, recv_tx_cache, version, refused, unsent, disorder>>
  PROVE  SyncInv'
BY DEF SyncInv, ServerNow, Used, Fresh

\* A message is made: the oldest one stays the oldest, and the server will have the
\* cache the client has now.
LEMMA SyncMade ==
  ASSUME ClientInv, NEW m \in Msg, unsent' = Append(unsent, m),
         UNCHANGED <<connected, phase, conn, wire, recv_tx_cache, version, refused, disorder>>,
         Unused => m.since # conn,
         Read(Ready(send_tx_cache), m) = Ready(send_tx_cache')
  PROVE  SyncInv'
<1>0. ThreadInv /\ UnsentInv /\ SyncInv /\ unsent \in Seq(Msg) /\ wire \in Seq(Msg)
  BY UnsentFacts DEF ClientInv, ThreadInv
<1>1. /\ unsent' \in Seq(Msg) /\ unsent' # <<>> /\ DOMAIN unsent' = 1..(Len(unsent) + 1)
      /\ DOMAIN unsent = 1..Len(unsent) /\ Len(unsent) \in Nat
      /\ unsent'[Len(unsent) + 1] = m /\ \A n \in 1..Len(unsent) : unsent'[n] = unsent[n]
  BY <1>0
<1>2. Fresh' => Fresh /\ m.since = conn
  BY <1>1 DEF Fresh
<1>3. ServerNow' = ServerNow /\ (Used' <=> Used) /\ (Unused' <=> Unused)
  BY DEF ServerNow, Used, Unused
<1>4. wire \o unsent \in Seq(Msg) /\ wire' \o unsent' = Append(wire \o unsent, m)
  BY <1>0, AppendToConcat
<1> SUFFICES ASSUME ~disorder' PROVE SyncInv'
  BY DEF SyncInv
<1>5. ASSUME Used, Fresh PROVE Reads(ServerNow, Append(wire \o unsent, m)) = Ready(send_tx_cache')
  <2>1. Reads(ServerNow, wire \o unsent) = Ready(send_tx_cache)
    BY <1>0, <1>5 DEF SyncInv
  <2> DEFINE q == wire \o unsent
  <2>2. q \in Seq(Msg)
    BY <1>4
  <2>3. Reads(ServerNow, Append(q, m)) = Read(Reads(ServerNow, q), m)
    BY <2>2, ReadsFacts
  <2> QED
    BY <2>1, <2>3
<1>6. ASSUME Used, Head(unsent').since = conn PROVE Reads(ServerNow, wire \o <<Head(unsent')>>).ok
  <2>1. CASE unsent = <<>>
    <3>1. unsent' = <<m>> /\ Head(unsent') = m /\ Fresh
      BY <2>1, ShortLists DEF Fresh
    <3>2. wire \o <<m>> = Append(wire \o unsent, m)
      BY <1>4, <3>1
    <3>3. Reads(ServerNow, wire \o <<m>>) = Ready(send_tx_cache')
      BY <1>5, <1>6, <3>1, <3>2
    <3>4. Ready(send_tx_cache').ok
      BY DEF Ready
    <3> QED
      BY <3>1, <3>3, <3>4
  <2>2. CASE unsent # <<>>
    <3>1. Head(unsent') = Head(unsent)
      BY <1>0, <2>2
    <3> QED
      BY <1>0, <1>6, <2>2, <3>1 DEF SyncInv
  <2> QED
    BY <2>1, <2>2
<1>7. phase \in {"reset", "versioned"} => ~Fresh'
  BY <1>2 DEF Unused
<1> QED
  BY <1>0, <1>2, <1>3, <1>4, <1>5, <1>6, <1>7 DEF SyncInv

LEMMA MakeBlockSync == ASSUME ClientInv, MakeBlock PROVE SyncInv'
<1> DEFINE r == CompressBlock(send_tx_cache, BlockTxs[p2p.block])
           m == [kind |-> "block", block |-> p2p.block, body |-> r.body, since |-> p2p.since]
<1>1. /\ ThreadInv /\ UnsentInv /\ SyncInv /\ p2p.pc = "make"
      /\ UNCHANGED <<connected, phase, conn, wire, recv_tx_cache, version, refused, disorder>>
      /\ \/ UNCHANGED <<send_tx_cache, unsent>>
         \/ send_tx_cache' = r.cache /\ unsent' = Append(unsent, m)
  BY DEF MakeBlock, ClientInv, compressor, serverEnd
<1>2. CASE UNCHANGED <<send_tx_cache, unsent>>
  BY <1>1, <1>2, SyncKept
<1>3. CASE send_tx_cache' = r.cache /\ unsent' = Append(unsent, m)
  <2>1. /\ r.body \in Seq(Entry)
        /\ DecompressBlock(send_tx_cache, r.body) = [ok |-> TRUE, cache |-> r.cache, txs |-> BlockTxs[p2p.block]]
    BY <1>1, Compressed
  <2>2. conn \in Nat /\ p2p.block \in Block /\ p2p.since \in 0..conn
        /\ (Unused => p2p.since \in 0..(conn - 1))
    BY <1>1, P2PFacts DEF ThreadInv
  <2> HIDE DEF r
  <2>3. m \in BlockMsg(Nat) /\ m.since = p2p.since /\ m.body = r.body /\ m.block = p2p.block
    BY <2>1, <2>2 DEF BlockMsg
  <2> HIDE DEF m
  <2>4. Read(Ready(send_tx_cache), m) = Ready(send_tx_cache')
    BY <1>3, <2>1, <2>3, BlockRead
  <2>5. m \in Msg /\ (Unused => m.since # conn)
    BY <2>2, <2>3 DEF Msg
  <2> QED
    BY <1>1, <1>3, <2>4, <2>5, SyncMade
<1> QED
  BY <1>1, <1>2, <1>3

LEMMA MakeTxSync == ASSUME ClientInv, MakeTx PROVE SyncInv'
<1> DEFINE r == get_relay_transaction(0, send_tx_cache, own.tx)
           m == [kind |-> "tx", tx |-> own.tx, since |-> own.since]
<1>1. /\ ThreadInv /\ UnsentInv /\ SyncInv /\ own.pc = "make" /\ send_tx_cache' = r.cache
      /\ UNCHANGED <<connected, phase, conn, wire, recv_tx_cache, version, refused, disorder>>
      /\ unsent' = IF r.sent THEN Append(unsent, m) ELSE unsent
  BY DEF MakeTx, ClientInv, serverEnd
<1>2. own.tx \in Tx /\ own.since = conn /\ conn \in Nat /\ Good(0, send_tx_cache) /\ phase = "up"
      /\ 0 \in CompressorType
  BY <1>1, OwnFacts DEF ThreadInv, CompressorType, Idle
<1>3. CASE ~r.sent
  BY <1>1, <1>3, NotSent, SyncKept
<1>4. CASE r.sent
  <2>1. recv_tx(0, send_tx_cache, own.tx) = [ok |-> TRUE, cache |-> r.cache]
    BY <1>2, <1>4, SentFacts
  <2>2. unsent' = Append(unsent, m)
    BY <1>1, <1>4
  <2> HIDE DEF r
  <2>3. m \in TxMsg(Nat) /\ m.tx = own.tx
    BY <1>2 DEF TxMsg
  <2> HIDE DEF m
  <2>4. Read(Ready(send_tx_cache), m) = Ready(send_tx_cache')
    BY <1>1, <2>1, <2>3, TxRead
  <2>5. m \in Msg /\ ~Unused
    BY <1>2, <2>3 DEF Msg, Unused
  <2> QED
    BY <1>1, <2>2, <2>4, <2>5, SyncMade
<1> QED
  BY <1>3, <1>4

\* A message is sent, in order, on the connection it was made for: what is on its way and
\* what is still to be sent are together what they were.
LEMMA SyncSent ==
  ASSUME ClientInv, NEW m \in Msg, unsent # <<>>,
         UNCHANGED <<send_tx_cache, connected, phase, conn, recv_tx_cache, version, refused>>,
         wire' = IF hasConnection THEN Append(wire, m) ELSE wire,
         disorder' = (disorder \/ (hasConnection /\ (m # Head(unsent) \/ m.since # conn))),
         m = Head(unsent) => unsent' = Tail(unsent),
         Unused => m.since # conn
  PROVE  SyncInv'
<1>0. ThreadInv /\ UnsentInv /\ SyncInv /\ unsent \in Seq(Msg) /\ wire \in Seq(Msg)
  BY UnsentFacts DEF ClientInv, ThreadInv
<1>1. ServerNow' = ServerNow /\ (Used' <=> Used)
  BY DEF ServerNow, Used
<1> SUFFICES ASSUME ~disorder' PROVE SyncInv'
  BY DEF SyncInv
<1>2. CASE ~hasConnection
  <2>1. phase \in {"swapped", "connecting"} /\ wire' = wire /\ ~disorder
    BY <1>0, <1>2 DEF hasConnection
  <2> QED
    BY <1>0, <1>1, <2>1 DEF SyncInv, Used
<1>3. CASE hasConnection
  <2>1. ~disorder /\ m = Head(unsent) /\ m.since = conn /\ wire' = Append(wire, m) /\ unsent' = Tail(unsent)
    BY <1>3
  <2>2. Used /\ phase \in {"up", "down"}
    BY <1>0, <1>3, <2>1 DEF ThreadInv, hasConnection, Unused, Used
  <2>3. wire \o <<m>> = wire'
    BY <1>0, <2>1
  <2>4. Reads(ServerNow, wire').ok
    BY <1>0, <2>1, <2>2, <2>3 DEF SyncInv
  <2>5. Tail(unsent) \in Seq(Msg) /\ <<m>> \in Seq(Msg) /\ unsent = <<m>> \o Tail(unsent)
    BY <1>0, <2>1, HeadThenTail
  <2>6. wire' \o unsent' = wire \o unsent
    <3>1. (wire \o <<m>>) \o Tail(unsent) = wire \o (<<m>> \o Tail(unsent))
      BY <1>0, <2>5, ConcatAssociative
    <3> QED
      BY <2>1, <2>3, <2>5, <3>1
  <2>7. Fresh' => Fresh
    <3>1. /\ Len(unsent) \in Nat /\ DOMAIN unsent = 1..Len(unsent) /\ DOMAIN unsent' = 1..(Len(unsent) - 1)
          /\ unsent[1] = m /\ \A n \in 1..(Len(unsent) - 1) : unsent'[n] = unsent[n + 1]
      BY <1>0, <2>1
    <3>2. ASSUME Fresh', NEW n \in 1..Len(unsent) PROVE unsent[n].since = conn
      <4>1. CASE n = 1
        BY <2>1, <3>1, <4>1
      <4>2. CASE n # 1
        <5>1. n - 1 \in 1..(Len(unsent) - 1) /\ (n - 1) + 1 = n
          BY <3>1, <4>2
        <5>2. unsent'[n - 1] = unsent[n] /\ unsent'[n - 1].since = conn
          BY <3>1, <3>2, <5>1 DEF Fresh
        <5> QED
          BY <5>2
      <4> QED
        BY <4>1, <4>2
    <3> QED
      BY <3>1, <3>2 DEF Fresh
  <2>8. Fresh' => Reads(ServerNow, wire' \o unsent') = Ready(send_tx_cache)
    BY <1>0, <2>1, <2>2, <2>6, <2>7 DEF SyncInv
  <2>9. ASSUME unsent' # <<>>, Head(unsent').since = conn
        PROVE  Reads(ServerNow, wire' \o <<Head(unsent')>>).ok
    <3>1. unsent' = <<Head(unsent')>>
      <4>1. Len(unsent) <= 2 /\ unsent' \in Seq(Msg) /\ Len(unsent') = Len(unsent) - 1
        <5>1. \A a, b \in Msg : Len(<<a>>) = 1 /\ Len(<<a, b>>) = 2
          OBVIOUS
        <5>2. Len(unsent) = 0 \/ Len(unsent) = 1 \/ Len(unsent) = 2
          BY <1>0, <5>1, UnsentFacts DEF UnsentInv
        <5>3. Len(Tail(unsent)) = Len(unsent) - 1
          BY <1>0
        <5> QED
          BY <2>1, <2>5, <5>2, <5>3, SMTT(30)
      <4>2. Len(unsent') = 1
        BY <2>9, <4>1
      <4> QED
        BY <4>1, <4>2
    <3>2. Fresh'
      <4>1. DOMAIN unsent' = {1} /\ unsent'[1] = Head(unsent')
        BY <3>1
      <4> QED
        BY <2>9, <4>1 DEF Fresh
    <3>3. Ready(send_tx_cache).ok
      BY DEF Ready
    <3> QED
      BY <2>8, <3>1, <3>2, <3>3
  <2> QED
    BY <1>0, <1>1, <2>1, <2>2, <2>4, <2>8, <2>9 DEF SyncInv
<1> QED
  BY <1>2, <1>3

LEMMA SendBlockSync == ASSUME ClientInv, SendBlock PROVE SyncInv'
<1>0. /\ ThreadInv /\ UnsentInv /\ p2p.pc = "send" /\ p2p' = Idle
      /\ UNCHANGED <<send_tx_cache, connected, phase, conn, own, recv_tx_cache, version, refused>>
      /\ Send(p2p.msg)
  BY DEF SendBlock, ClientInv, compressor, serverEnd
<1>1. p2p.msg \in Msg
  BY <1>0, UnsentFacts
<1>2. unsent # <<>> /\ (p2p.msg = Head(unsent) => unsent' = Tail(unsent))
  BY <1>0, P2PSends DEF Send
<1>3. Unused => p2p.msg.since # conn
  <2>1. Unused => p2p.msg.since \in 0..(conn - 1)
    BY <1>0, P2PFacts DEF ThreadInv
  <2> QED
    BY <1>0, <2>1 DEF ThreadInv
<1> QED
  BY <1>0, <1>1, <1>2, <1>3, SyncSent DEF Send

LEMMA SendTxSync == ASSUME ClientInv, SendTx PROVE SyncInv'
<1>0. /\ ThreadInv /\ UnsentInv /\ own.pc = "send" /\ own' = Idle
      /\ UNCHANGED <<send_tx_cache, connected, phase, conn, p2p, recv_tx_cache, version, refused>>
      /\ Send(own.msg)
  BY DEF SendTx, ClientInv, compressor, serverEnd
<1>1. own.msg \in Msg
  BY <1>0, UnsentFacts
<1>2. unsent # <<>> /\ (own.msg = Head(unsent) => unsent' = Tail(unsent))
  BY <1>0, OwnSends DEF Send
<1>3. ~Unused
  BY <1>0 DEF ThreadInv, Unused, Idle
<1> QED
  BY <1>0, <1>1, <1>2, <1>3, SyncSent DEF Send

\* A connection that breaks takes with it what was on its way, the next one starts with
\* empty caches at both ends.
LEMMA LosingSync == ASSUME ClientInv, Break \/ Reconnect \/ OnDisconnect PROVE SyncInv'
<1> USE DEF compressor, serverEnd
<1>0. ThreadInv /\ UnsentInv /\ SyncInv /\ UNCHANGED <<unsent, conn, recv_tx_cache, version, refused, disorder, send_tx_cache>>
  BY DEF ClientInv, Break, Reconnect, OnDisconnect
<1>1. ServerNow' = ServerNow
  BY <1>0 DEF ServerNow
<1>2. CASE Break
  <2>1. phase \in {"setup", "up"} /\ phase' = "down" /\ UNCHANGED <<connected, wire>>
    BY <1>2 DEF Break
  <2>2. Used' => Used /\ (Fresh' <=> Fresh)
    BY <1>0, <2>1 DEF Used, ThreadInv, Fresh
  <2> QED
    BY <1>0, <1>1, <2>1, <2>2 DEF SyncInv
<1>3. CASE Reconnect \/ OnDisconnect
  <2>1. phase' \in {"swapped", "connecting"} /\ wire' = <<>>
    BY <1>0, <1>3 DEF Reconnect, OnDisconnect, ThreadInv, hasConnection
  <2>2. Reads(ServerNow, <<>>).ok
    BY <1>0, ReadsFacts, ServerNowFacts
  <2> QED
    BY <1>0, <1>1, <2>1, <2>2 DEF SyncInv, Used
<1> QED
  BY <1>2, <1>3

LEMMA ConnectSync == ASSUME ClientInv, Connect PROVE SyncInv'
<1>1. phase' = "setup" /\ wire' = <<>> /\ recv_tx_cache' = <<>> /\ ~refused'
  BY DEF Connect
<1>2. Reads(ServerNow', <<>>) = ServerNow' /\ ServerNow'.ok
  BY ReadsFacts DEF ServerNow
<1> QED
  BY <1>1, <1>2 DEF SyncInv, Used

LEMMA ResetSync == ASSUME ClientInv, Reset PROVE SyncInv'
<1>1. /\ SyncInv /\ phase = "setup" /\ phase' = "reset" /\ send_tx_cache' = <<>>
      /\ UNCHANGED <<unsent, conn, wire, recv_tx_cache, version, refused, disorder>>
  BY DEF ClientInv, Reset, serverEnd
<1>2. ServerNow' = ServerNow
  BY <1>1 DEF ServerNow
<1> QED
  BY <1>1, <1>2 DEF SyncInv, Used

LEMMA SendVersionSync == ASSUME ClientInv, SendVersion PROVE SyncInv'
<1>1. /\ ThreadInv /\ SyncInv /\ phase = "reset" /\ phase' = "versioned" /\ wire' = Append(wire, VersionMsg)
      /\ UNCHANGED <<send_tx_cache, unsent, conn, recv_tx_cache, version, refused, disorder>>
  BY DEF ClientInv, SendVersion, serverEnd, compressor, VersionMsg
<1>2. ServerNow' = ServerNow /\ (Fresh' <=> Fresh)
  BY <1>1 DEF ServerNow, Fresh
<1> SUFFICES ASSUME ~disorder' PROVE SyncInv'
  BY DEF SyncInv
<1>3. wire = <<>> /\ recv_tx_cache = <<>> /\ ~refused /\ (Fresh => send_tx_cache = <<>>)
  BY <1>1 DEF SyncInv
<1>4. VersionMsg \in Msg /\ <<>> \in Seq(Msg)
  BY DEF Msg
<1>5. Reads(ServerNow, Append(<<>>, VersionMsg)) = Read(ServerNow, VersionMsg)
  BY <1>4, ReadsFacts, ZenonT(60)
<1>6. Read(ServerNow, VersionMsg) = Ready(<<>>)
  <2> DEFINE d == Deliver(ServerNow, VersionMsg)
  <2>1. d = [ok |-> TRUE, cache |-> ServerNow.cache, version |-> TRUE]
    BY <1>4, DeliverFacts
  <2>2. Read(ServerNow, VersionMsg) = [ok |-> d.ok /\ ServerNow.ok, cache |-> d.cache, version |-> d.version]
    BY DEF Read
  <2> HIDE DEF d
  <2>3. d.ok = TRUE /\ ServerNow.ok = TRUE /\ d.cache = <<>> /\ d.version = TRUE
    BY <1>3, <2>1 DEF ServerNow
  <2> QED
    BY <2>2, <2>3 DEF Ready
<1>7. Ready(<<>>).ok
  BY DEF Ready
<1> QED
  BY <1>1, <1>2, <1>3, <1>5, <1>6, <1>7 DEF SyncInv, Used

\* A message for an earlier connection that is still to be sent is not fresh; without one
\* both ends are empty.
LEMMA SetConnectedSync == ASSUME ClientInv, SetConnected PROVE SyncInv'
<1>1. /\ ThreadInv /\ UnsentInv /\ SyncInv /\ phase = "versioned" /\ phase' = "up"
      /\ UNCHANGED <<send_tx_cache, unsent, conn, wire, recv_tx_cache, version, refused, disorder>>
  BY DEF ClientInv, SetConnected, serverEnd, compressor
<1>2. ServerNow' = ServerNow /\ (Fresh' <=> Fresh)
  BY <1>1 DEF ServerNow, Fresh
<1>3. unsent = <<>> \/ (unsent # <<>> /\ Head(unsent).since # conn /\ ~Fresh)
  <2>1. own.pc = "idle" /\ conn \in Nat /\ p2p \in P2PIn(0..(conn - 1))
    BY <1>1 DEF ThreadInv, Idle, Unused
  <2>2. CASE p2p.pc = "send"
    <3>1. unsent = <<p2p.msg>> /\ p2p.msg.since # conn /\ p2p.msg \in Msg
      BY <1>1, <2>1, <2>2, P2PFacts, UnsentFacts DEF UnsentInv
    <3>2. unsent # <<>> /\ Head(unsent) = p2p.msg /\ DOMAIN unsent = {1} /\ unsent[1] = p2p.msg
      BY <3>1
    <3> QED
      BY <3>1, <3>2 DEF Fresh
  <2>3. CASE p2p.pc # "send"
    BY <1>1, <2>1, <2>3 DEF UnsentInv
  <2> QED
    BY <2>2, <2>3
<1> SUFFICES ASSUME ~disorder' PROVE SyncInv'
  BY DEF SyncInv
<1>4. Reads(ServerNow, wire) = Ready(<<>>) /\ Reads(ServerNow, wire).ok /\ ~refused /\ (Fresh => send_tx_cache = <<>>)
  BY <1>1 DEF SyncInv
<1>5. Fresh => unsent = <<>> /\ wire \o unsent = wire
  BY <1>1, <1>3, ConcatEmptySeq DEF ThreadInv
<1> QED
  BY <1>1, <1>2, <1>3, <1>4, <1>5 DEF SyncInv

\* The server reads a message: it does not refuse it, and can read the rest.
LEMMA ServerReadsSync == ASSUME ClientInv, ServerReads PROVE SyncInv'
<1> DEFINE u == Read(ServerNow, Head(wire))
<1>1. /\ ThreadInv /\ UnsentInv /\ SyncInv
      /\ UNCHANGED <<send_tx_cache, connected, phase, conn, unsent, disorder>>
  BY DEF ClientInv, ServerReads, compressor
<1>2. /\ wire # <<>> /\ Head(wire) \in Msg /\ wire' = Tail(wire) /\ Tail(wire) \in Seq(Msg)
      /\ (u.ok => ~refused' /\ ServerNow' = u)
  BY <1>1, ServerReadsFacts
<1>3. wire \in Seq(Msg) /\ unsent \in Seq(Msg) /\ IsEnd(ServerNow)
  BY <1>1, UnsentFacts, ServerNowFacts DEF ThreadInv
<1>4. (Used' <=> Used) /\ (Fresh' <=> Fresh)
  BY <1>1 DEF Used, Fresh
<1> SUFFICES ASSUME ~disorder' PROVE SyncInv'
  BY DEF SyncInv
<1>5. ASSUME NEW o \in Seq(Msg), Reads(ServerNow, wire \o o).ok
      PROVE  u.ok /\ Reads(ServerNow, wire \o o) = Reads(u, wire' \o o)
  BY <1>2, <1>3, <1>5, ReadOne
<1> HIDE DEF u
<1>6. <<>> \in Seq(Msg) /\ wire \o <<>> = wire /\ wire' \o <<>> = wire'
  BY <1>2, <1>3, ConcatEmptySeq
<1>7. u.ok /\ Reads(ServerNow, wire) = Reads(u, wire')
  <2>1. Reads(ServerNow, wire).ok
    BY <1>1 DEF SyncInv
  <2> QED
    BY <1>5, <1>6, <2>1
<1>8. ~refused' /\ ServerNow' = u
  BY <1>2, <1>7
<1>9. Used /\ Fresh => Reads(u, wire' \o unsent) = Ready(send_tx_cache)
  <2> SUFFICES ASSUME Used, Fresh PROVE Reads(u, wire' \o unsent) = Ready(send_tx_cache)
    OBVIOUS
  <2>1. Reads(ServerNow, wire \o unsent) = Ready(send_tx_cache)
    BY <1>1 DEF SyncInv
  <2>2. Reads(ServerNow, wire \o unsent).ok
    BY <2>1 DEF Ready
  <2> QED
    BY <1>3, <1>5, <2>1, <2>2
<1>10. ASSUME Used, unsent # <<>>, Head(unsent).since = conn
       PROVE  Reads(u, wire' \o <<Head(unsent)>>).ok
  <2>1. <<Head(unsent)>> \in Seq(Msg)
    BY <1>3, <1>10
  <2>2. Reads(ServerNow, wire \o <<Head(unsent)>>).ok
    BY <1>1, <1>10 DEF SyncInv
  <2> QED
    BY <1>5, <2>1, <2>2
<1>11. phase \notin {"setup", "reset"}
  BY <1>1, <1>2 DEF SyncInv
<1> QED
  BY <1>1, <1>4, <1>7, <1>8, <1>9, <1>10, <1>11 DEF SyncInv

\* The invariant holds at the start and every step keeps it.
LEMMA ClientInvariance == Spec => []ClientInv
<1>1. Init => ClientInv
  <2> SUFFICES ASSUME Init PROVE ClientInv
    OBVIOUS
  <2>1. /\ phase = "connecting" /\ conn = 0 /\ connected = FALSE /\ p2p = Idle /\ own = Idle /\ wire = <<>>
        /\ version = FALSE /\ unsent = <<>> /\ refused = FALSE /\ send_tx_cache = <<>>
    BY DEF Init
  <2>2. Good(0, send_tx_cache)
    BY <2>1, EmptyGood DEF CompressorType
  <2>3. p2p \in P2PIn(0..conn) /\ own \in OwnAt(conn) /\ wire \in Seq(Msg) /\ p2p.pc = "idle" /\ own.pc = "idle"
    BY <2>1 DEF P2PIn, OwnAt, Idle
  <2>4. ThreadInv
    BY <2>1, <2>2, <2>3 DEF ThreadInv, Unused, hasConnection
  <2>5. Reads(ServerNow, <<>>) = ServerNow /\ ServerNow.ok
    BY ReadsFacts DEF ServerNow
  <2>6. SyncInv
    BY <2>1, <2>5 DEF SyncInv, Used
  <2> QED
    BY <2>1, <2>3, <2>4, <2>6 DEF ClientInv, UnsentInv
<1>2. ClientInv /\ [Next]_vars => ClientInv'
  <2> SUFFICES ASSUME ClientInv, [Next]_vars PROVE ClientInv'
    OBVIOUS
  <2>0. ThreadInv /\ UnsentInv /\ SyncInv
    BY DEF ClientInv
  <2>1. ASSUME NEW b \in Block, BlockFromBitcoind(b) PROVE ClientInv'
    BY <2>0, <2>1, BlockFromBitcoindKeeps, SyncKept DEF BlockFromBitcoind, compressor, serverEnd, ClientInv
  <2>2. ASSUME NEW b \in Block, BlockFromServer(b) PROVE ClientInv'
    <3>1. UNCHANGED <<send_tx_cache, connected, phase, conn, p2p, own, wire, recv_tx_cache, version, refused, unsent, disorder>>
      BY <2>2 DEF BlockFromServer, serverEnd
    <3>2. ThreadInv'
      BY <2>0, <3>1 DEF ThreadInv, hasConnection, Unused
    <3> QED
      BY <2>0, <3>1, <3>2, ThreadsKept, SyncKept DEF ClientInv
  <2>3. ASSUME NEW x \in Tx, TxFromServer(x) PROVE ClientInv'
    BY <2>0, <2>3, TxFromServerKeeps, SyncKept DEF TxFromServer, compressor, serverEnd, ClientInv
  <2>4. CASE MakeBlock
    BY <2>4, MakeBlockKeeps, MakeBlockSync DEF ClientInv
  <2>5. CASE MakeTx
    BY <2>5, MakeTxKeeps, MakeTxSync DEF ClientInv
  <2>6. CASE SendBlock
    BY <2>6, SendBlockKeeps, SendBlockSync DEF ClientInv
  <2>7. CASE SendTx
    BY <2>7, SendTxKeeps, SendTxSync DEF ClientInv
  <2>8. CASE Break \/ Reconnect \/ OnDisconnect
    BY <2>8, ConnectionKeeps, LosingSync DEF ClientInv
  <2>9. CASE Connect
    BY <2>9, ConnectKeeps, ConnectSync DEF ClientInv
  <2>10. CASE Reset \/ SendVersion \/ SetConnected
    BY <2>10, ConnectionKeeps, ResetSync, SendVersionSync, SetConnectedSync DEF ClientInv
  <2>11. CASE ServerReads
    BY <2>11, ServerReadsKeeps, ServerReadsSync DEF ClientInv
  <2>12. CASE UNCHANGED vars
    <3>1. UNCHANGED <<send_tx_cache, connected, phase, conn, p2p, own, wire, recv_tx_cache, version, refused, unsent, disorder>>
      BY <2>12 DEF vars, compressor, serverEnd
    <3>2. ThreadInv'
      BY <2>0, <3>1 DEF ThreadInv, hasConnection, Unused
    <3> QED
      BY <2>0, <3>1, <3>2, ThreadsKept, SyncKept DEF ClientInv
  <2> QED
    BY <2>1, <2>2, <2>3, <2>4, <2>5, <2>6, <2>7, <2>8, <2>9, <2>10, <2>11, <2>12 DEF Next
<1> QED
  BY <1>1, <1>2, PTL DEF Spec

\* Whatever the two threads of a client and its lost connections do: unless a message was
\* sent out of order or on another connection than it was made for, the server has the
\* client's cache once it has read all of them, and refuses none (client.cpp:170-210
\* against server.cpp:147-175).
THEOREM ClientInSync == Spec => []InSync
<1>1. ClientInv => InSync
  <2> SUFFICES ASSUME ClientInv, phase = "up", ~disorder, \A n \in DOMAIN unsent : unsent[n].since = conn
               PROVE  Replay(wire \o unsent) = [ok |-> ~refused, cache |-> send_tx_cache, version |-> TRUE]
    BY DEF InSync
  <2>1. Reads(ServerNow, wire \o unsent) = Ready(send_tx_cache) /\ ~refused
    BY DEF ClientInv, SyncInv, Used, Fresh
  <2>2. (~refused) = TRUE
    BY <2>1
  <2> QED
    BY <2>1, <2>2, ReplayReads DEF Ready
<1> QED
  BY <1>1, ClientInvariance, PTL

\* The server disconnects a client for what it sent only after such disorder
\* (client.cpp:178-184, 196-206).
THEOREM RefusedAfterDisorder == Spec => []OnlyDisorderRefused
<1>1. ClientInv => OnlyDisorderRefused
  BY DEF ClientInv, SyncInv, OnlyDisorderRefused
<1> QED
  BY <1>1, ClientInvariance, PTL

\* VERSION is the first message on every connection, unless a sender that found the last
\* one connected sends on this one (client.cpp:69-73, 171, 190).
THEOREM VersionBeforeAll == Spec => []VersionFirst
<1>1. ClientInv => VersionFirst
  <2> SUFFICES ASSUME ClientInv, ~disorder, wire # <<>>, ~version PROVE Head(wire).kind = "version"
    BY DEF VersionFirst
  <2>1. ThreadInv /\ wire \in Seq(Msg) /\ Reads(ServerNow, wire).ok
    BY DEF ClientInv, ThreadInv, SyncInv
  <2>2. Reads(ServerNow, wire \o <<>>).ok /\ <<>> \in Seq(Msg)
    BY <2>1, ConcatEmptySeq
  <2>3. IsEnd(ServerNow) /\ Head(wire) \in Msg
    BY <2>1, ServerNowFacts
  <2>4. Read(ServerNow, Head(wire)).ok
    BY <2>1, <2>2, <2>3, ReadOne
  <2>5. ServerNow.version \/ Head(wire) = VersionMsg
    BY <2>3, <2>4, ReadFacts
  <2> QED
    BY <2>5 DEF ServerNow, VersionMsg
<1> QED
  BY <1>1, ClientInvariance, PTL

----------------------------------------------------------------------------
(***************************************************************************)
(* The decoder, one removal after another.                                 *)
(***************************************************************************)

\* The references of any message are to places of it that are to be filled in.
LEMMA PtrsBlank ==
  ASSUME NEW body \in Seq(Entry)
  PROVE  \A n \in 1..Len(txn_ptrs(body)) :
           txn_ptrs(body)[n].pos \in 1..Len(body) /\ body[txn_ptrs(body)[n].pos].index # Mark
<1> DEFINE Blank(b, p) == \A n \in 1..Len(p) : p[n].pos \in 1..Len(b) /\ b[p[n].pos].index # Mark
           P == {b \in Seq(Entry) : Blank(b, txn_ptrs(b))}
<1>1. <<>> \in P
  <2>1. txn_ptrs(<<>>) = <<>> /\ <<>> \in Seq(Entry)
    BY txn_ptrs_Facts
  <2>2. Blank(<<>>, <<>>)
    OBVIOUS
  <2> QED
    BY <2>1, <2>2
<1>2. ASSUME NEW b \in Seq(Entry), NEW e \in Entry, b \in P PROVE Append(b, e) \in P
  <2> DEFINE a == Append(b, e)  p == txn_ptrs(b)  l == Len(b)  ptr == [index |-> e.index, pos |-> l + 1]
  <2>1. a \in Seq(Entry) /\ Len(a) = l + 1 /\ l \in Nat /\ a[l + 1] = e /\ \A n \in 1..l : a[n] = b[n]
    OBVIOUS
  <2>2. txn_ptrs(a) = NextPtr(p, e, l + 1)
    BY txn_ptrs_Facts
  <2>3. Blank(b, p) /\ p \in Seq(Ptr)
    BY <1>2, PtrsFacts
  <2> HIDE DEF a, p
  <2>4. Blank(a, p)
    <3> SUFFICES ASSUME NEW n \in 1..Len(p) PROVE p[n].pos \in 1..Len(a) /\ a[p[n].pos].index # Mark
      OBVIOUS
    <3>1. p[n].pos \in 1..l /\ b[p[n].pos].index # Mark
      BY <2>3
    <3> HIDE DEF l
    <3> QED
      BY <2>1, <3>1
  <2>5. CASE e.index = Mark
    BY <2>1, <2>2, <2>4, <2>5 DEF NextPtr, a
  <2>6. CASE e.index # Mark
    <3>1. txn_ptrs(a) = Append(p, ptr) /\ ptr.pos = l + 1
      BY <2>2, <2>6 DEF NextPtr
    <3>2. ptr \in Ptr
      BY <2>1, <2>6 DEF Ptr, Entry
    <3> HIDE DEF ptr, l
    <3>3. Len(Append(p, ptr)) = Len(p) + 1 /\ Append(p, ptr)[Len(p) + 1] = ptr /\ Len(p) \in Nat
          /\ \A n \in 1..Len(p) : Append(p, ptr)[n] = p[n]
      BY <2>3, <3>2
    <3>4. l + 1 \in 1..(l + 1)
      BY <2>1
    <3>5. ASSUME NEW n \in 1..(Len(p) + 1)
          PROVE Append(p, ptr)[n].pos \in 1..Len(a) /\ a[Append(p, ptr)[n].pos].index # Mark
      <4>1. CASE n = Len(p) + 1
        BY <2>1, <2>6, <3>1, <3>3, <3>4, <4>1
      <4>2. CASE n # Len(p) + 1
        <5>1. n \in 1..Len(p)
          BY <3>3, <4>2
        <5> QED
          BY <2>4, <3>3, <5>1
      <4> QED
        BY <4>1, <4>2
    <3>6. Blank(a, Append(p, ptr))
      BY <3>3, <3>5
    <3> QED
      BY <2>1, <3>1, <3>6 DEF a
  <2> QED
    BY <2>5, <2>6
<1> HIDE DEF P
<1>3. body \in P
  BY <1>1, <1>2, ListInduction
<1> QED
  BY <1>3 DEF P

\* The first references of a list, ...
FirstOf(q, n) == SubSeq(q, 1, n)

\* ... and one more.
LEMMA FirstSteps ==
  ASSUME NEW q \in Seq(Ptr), NEW n \in 0..Len(q)
  PROVE  /\ FirstOf(q, n) \in Seq(Ptr) /\ FirstOf(q, 0) = <<>> /\ FirstOf(q, Len(q)) = q
         /\ n < Len(q) => q[n + 1] \in Ptr /\ FirstOf(q, n + 1) = Append(FirstOf(q, n), q[n + 1])
<1>1. Len(q) \in Nat
  OBVIOUS
<1>2. ASSUME NEW m \in 0..Len(q)
      PROVE  /\ SubSeq(q, 1, m) \in Seq(Ptr) /\ Len(SubSeq(q, 1, m)) = m
             /\ \A k \in 1..m : SubSeq(q, 1, m)[k] = q[k]
  <2>1. 1 \in Int /\ m \in Int /\ \A k \in 1..m : q[k] \in Ptr
    BY <1>1
  <2>2. /\ SubSeq(q, 1, m) \in Seq(Ptr)
        /\ Len(SubSeq(q, 1, m)) = IF 1 <= m THEN m - 1 + 1 ELSE 0
        /\ \A k \in 1..(m - 1 + 1) : SubSeq(q, 1, m)[k] = q[1 + k - 1]
    BY <2>1, SubSeqProperties
  <2>3. m - 1 + 1 = m /\ \A k \in 1..m : 1 + k - 1 = k
    BY <1>1
  <2> QED
    BY <1>1, <2>2, <2>3
<1>3. SubSeq(q, 1, 0) = <<>>
  BY SubSeqEmpty
<1>4. SubSeq(q, 1, Len(q)) = q
  BY SubSeqFull
<1>5. ASSUME n < Len(q)
      PROVE  q[n + 1] \in Ptr /\ SubSeq(q, 1, n + 1) = Append(SubSeq(q, 1, n), q[n + 1])
  <2> DEFINE a == SubSeq(q, 1, n)  b == SubSeq(q, 1, n + 1)
  <2>1. n + 1 \in 0..Len(q) /\ n + 1 \in 1..Len(q)
    BY <1>1, <1>5
  <2>2. a \in Seq(Ptr) /\ Len(a) = n /\ \A k \in 1..n : a[k] = q[k]
    BY <1>2
  <2>3. b \in Seq(Ptr) /\ Len(b) = n + 1 /\ \A k \in 1..(n + 1) : b[k] = q[k]
    BY <1>2, <2>1
  <2> HIDE DEF a, b
  <2>4. Append(a, q[n + 1]) \in Seq(Ptr) /\ Len(Append(a, q[n + 1])) = n + 1
        /\ \A k \in 1..(n + 1) : Append(a, q[n + 1])[k] = q[k]
    BY <2>1, <2>2
  <2>5. b = Append(a, q[n + 1])
    BY <2>3, <2>4, SeqEqual
  <2> QED
    BY <2>1, <2>5 DEF a, b
<1> QED
  BY <1>2, <1>3, <1>4, <1>5 DEF FirstOf

\* One more reference is one more turn of the loop.
LEMMA TakeNext ==
  ASSUME NEW s, NEW q \in Seq(Ptr), NEW n \in 0..Len(q), n < Len(q)
  PROVE  TakeEach(s, FirstOf(q, n + 1)) = TakeFromCache(TakeEach(s, FirstOf(q, n)), q[n + 1])
<1> DEFINE l == FirstOf(q, n)  p == q[n + 1]
<1>1. l \in Seq(Ptr) /\ p \in Ptr /\ FirstOf(q, n + 1) = Append(l, p)
  BY FirstSteps
<1> HIDE DEF l, p
<1>2. TakeEach(s, Append(l, p)) = TakeFromCache(TakeEach(s, l), p)
  BY <1>1, TakeEachFacts
<1> QED
  BY <1>1, <1>2 DEF l, p

\* Once one is not found, the rest does not change that.
LEMMA FailedStays ==
  ASSUME NEW D, NEW s \in State(D), NEW q \in Seq(Ptr), NEW n \in 0..(Len(q) - 1),
         ~TakeFromCache(TakeEach(s, FirstOf(q, n)), q[n + 1]).ok
  PROVE  ~TakeEach(s, q).ok
<1>0. Len(q) \in Nat /\ n \in 0..Len(q) /\ n + 1 \in 1..(Len(q) + 1) /\ n + 1 \in 0..Len(q) /\ n < Len(q)
  OBVIOUS
<1> DEFINE a == FirstOf(q, n + 1)  P == {m \in Nat : n + 1 <= m /\ m <= Len(q) => ~TakeEach(s, FirstOf(q, m)).ok}
<1>1. ~TakeEach(s, a).ok /\ a \in Seq(Ptr)
  <2>1. a \in Seq(Ptr)
    BY <1>0, FirstSteps
  <2>2. TakeEach(s, a) = TakeFromCache(TakeEach(s, FirstOf(q, n)), q[n + 1])
    BY <1>0, TakeNext
  <2> QED
    BY <2>1, <2>2
<1>2. 0 \in P
  BY <1>0
<1>3. ASSUME NEW m \in Nat, m \in P PROVE m + 1 \in P
  <2> SUFFICES ASSUME n + 1 <= m + 1, m + 1 <= Len(q) PROVE ~TakeEach(s, FirstOf(q, m + 1)).ok
    OBVIOUS
  <2>1. CASE m = n
    BY <1>1, <2>1
  <2>2. CASE m # n
    <3>1. n + 1 <= m /\ m \in 0..Len(q) /\ m < Len(q)
      BY <1>0, <2>2
    <3>2. q[m + 1] \in Ptr /\ FirstOf(q, m) \in Seq(Ptr)
      BY <3>1, FirstSteps
    <3>3. ~TakeEach(s, FirstOf(q, m)).ok
      BY <1>3, <3>1
    <3>4. TakeEach(s, FirstOf(q, m + 1)) = TakeFromCache(TakeEach(s, FirstOf(q, m)), q[m + 1])
      BY <3>1, TakeNext
    <3> QED
      BY <3>2, <3>3, <3>4, TakeEachType, TakeFacts, ZenonT(60)
  <2> QED
    BY <2>1, <2>2
<1> HIDE DEF P
<1>4. Len(q) \in P
  BY <1>0, <1>2, <1>3, SetInduction
<1>5. FirstOf(q, Len(q)) = q
  BY <1>0, FirstSteps
<1> QED
  BY <1>0, <1>4, <1>5 DEF P

\* The state the removals start from, and the one they have reached.
Start == [ok |-> TRUE, cache |-> before, txs |-> [m \in 1..Len(txn_data) |-> txn_data[m].tx]]
Reached == [ok |-> TRUE, cache |-> recv_cache, txs |-> txs]

NotFound   == "failed to find referenced transaction"
RootDiffers == "merkle tree root did not match"

\* All entries have been read.
Decoding == pc \in {"remove", "merkle", "done"} \/ why \in {NotFound, RootDiffers}

\* The removals done are the first of the sorted references, all of them once the block
\* is put together, and if one has failed it is the next.
DecodeInv ==
  /\ before \in Seq(Tx) /\ IsInjective(before) /\ message_size \in Nat /\ txn_data \in Seq(Entry)
  /\ pc \in {"header", "read", "remove", "merkle", "done", "failed"}
  /\ why # "none" <=> pc = "failed"
  /\ ~Decoding => recv_cache = before /\ txs = <<>> /\ ptrs = <<>> /\ removed = 0
  /\ Decoding => /\ ptrs = tweak_sort(txn_ptrs(txn_data)) /\ removed \in 0..Len(ptrs)
                 /\ Reached = TakeEach(Start, FirstOf(ptrs, removed))
                 /\ why # NotFound /\ pc # "remove" => removed = Len(ptrs)
  /\ why = NotFound => removed < Len(ptrs) /\ ~TakeFromCache(Reached, ptrs[removed + 1]).ok

\* t holds the transactions of the message, b is the cache it met and c what is left of it:
\* what has been taken has left the cache and nothing else has, and the references from r on
\* are to places still to be filled.
LeftOf(b, c, t, body, q, r) ==
  LET T == {n \in DOMAIN t : t[n] # NoTx /\ body[n].index # Mark} IN
  /\ \A m, n \in T : t[m] = t[n] => m = n
  /\ {t[n] : n \in T} \cup ToSet(c) = ToSet(b)
  /\ Cardinality(T) + Len(c) = Len(b)
  /\ IsInjective(c) /\ \A n \in T : t[n] \notin ToSet(c)
  /\ \A n \in (r + 1)..Len(q) :
       q[n].pos \in DOMAIN t /\ t[q[n].pos] = NoTx /\ body[q[n].pos].index # Mark

LeftInv == LeftOf(before, recv_cache, txs, txn_data, ptrs, removed)

\* What the sort makes of the references of a message.
LEMMA SortedPtrs ==
  ASSUME NEW body \in Seq(Entry)
  PROVE  LET q == tweak_sort(txn_ptrs(body)) IN
         /\ q \in Seq(Ptr) /\ Sorted(q) /\ DistinctPoses(q)
         /\ \A n \in 1..Len(q) : q[n].pos \in 1..Len(body) /\ body[q[n].pos].index # Mark
<1> DEFINE p == txn_ptrs(body)  q == tweak_sort(p)
<1>1. p \in Seq(Ptr) /\ DistinctPoses(p)
  BY PtrsFacts
<1>2. \A n \in 1..Len(p) : p[n].pos \in 1..Len(body) /\ body[p[n].pos].index # Mark
  BY PtrsBlank
<1> HIDE DEF p
<1>3. SortedForm({}, p, q)
  BY <1>1, SortFacts
<1> HIDE DEF q
<1>4. q \in Seq(Ptr) /\ Sorted(q) /\ DistinctPoses(q) /\ Poses(q) \subseteq Poses(p)
  BY <1>3 DEF SortedForm
<1>5. ASSUME NEW n \in 1..Len(q) PROVE q[n].pos \in 1..Len(body) /\ body[q[n].pos].index # Mark
  <2>1. q[n].pos \in Poses(p)
    BY <1>4 DEF Poses
  <2> QED
    BY <1>2, <2>1 DEF Poses
<1> QED
  BY <1>4, <1>5 DEF q, p

\* The types of the removals' states.
LEMMA DecodeTypes ==
  ASSUME DecodeInv, Decoding
  PROVE  /\ Start \in State(1..Len(txn_data)) /\ Reached \in State(1..Len(txn_data))
         /\ recv_cache \in Seq(Tx) /\ txs \in [1..Len(txn_data) -> Tx \cup {NoTx}]
         /\ ptrs \in Seq(Ptr) /\ removed \in 0..Len(ptrs)
<1>1. txn_data \in Seq(Entry) /\ before \in Seq(Tx)
  BY DEF DecodeInv
<1>2. \A e \in Entry : e.tx \in Tx \cup {NoTx}
  BY DEF Entry
<1>3. Start \in State(1..Len(txn_data))
  BY <1>1, <1>2 DEF Start, State
<1>4. ptrs \in Seq(Ptr) /\ removed \in 0..Len(ptrs)
  BY <1>1, SortedPtrs DEF DecodeInv
<1>5. FirstOf(ptrs, removed) \in Seq(Ptr)
  BY <1>4, FirstSteps
<1>6. Reached \in State(1..Len(txn_data))
  <2>1. Reached = TakeEach(Start, FirstOf(ptrs, removed))
    BY DEF DecodeInv
  <2> QED
    BY <1>3, <1>5, <2>1, TakeEachType
<1>7. recv_cache \in Seq(Tx) /\ txs \in [1..Len(txn_data) -> Tx \cup {NoTx}]
  BY <1>6 DEF Reached, State
<1> QED
  BY <1>3, <1>4, <1>6, <1>7

\* A step that leaves the decoder's state alone.
LEMMA DecodeKept ==
  ASSUME DecodeInv,
         UNCHANGED <<recv_cache, message_size, txn_data, ptrs, removed, txs, pc, why, before>>
  PROVE  DecodeInv'
BY DEF DecodeInv, Decoding, Reached, Start

\* The merkle check changes nothing but its own state.
LEMMA MerkleSteps ==
  ASSUME Merkle!Step PROVE UNCHANGED txs
BY DEF Merkle!Step, Merkle!CheckRow, Merkle!HashPair, Merkle!NextRow, Merkle!Compare, Merkle!CompareNothing

\* One removal.
LEMMA RemoveDecodes ==
  ASSUME DecodeInv, RemoveNext PROVE DecodeInv'
<1> DEFINE p == ptrs[removed + 1]  s == TakeFromCache(Reached, p)
<1>1. /\ pc = "remove" /\ removed < Len(ptrs) /\ recv_cache' = s.cache /\ txs' = s.txs
      /\ \/ s.ok /\ removed' = removed + 1 /\ UNCHANGED <<pc, why>>
         \/ ~s.ok /\ pc' = "failed" /\ why' = NotFound /\ UNCHANGED removed
      /\ UNCHANGED <<message_size, txn_data, ptrs, before>>
  BY DEF RemoveNext, Fail, Reached, NotFound
<1>2. Decoding /\ why = "none"
  BY <1>1 DEF Decoding, DecodeInv
<1>3. /\ Start \in State(1..Len(txn_data)) /\ Reached \in State(1..Len(txn_data))
      /\ ptrs \in Seq(Ptr) /\ removed \in 0..Len(ptrs) /\ Len(ptrs) \in Nat
  BY <1>2, DecodeTypes
<1>4. p \in Ptr /\ removed + 1 \in 0..Len(ptrs)
  BY <1>1, <1>3
<1>5. s \in State(1..Len(txn_data))
  BY <1>3, <1>4, TakeFacts
<1>6. /\ ptrs = tweak_sort(txn_ptrs(txn_data)) /\ Reached = TakeEach(Start, FirstOf(ptrs, removed))
      /\ before \in Seq(Tx) /\ IsInjective(before) /\ message_size \in Nat /\ txn_data \in Seq(Entry)
  BY <1>2 DEF DecodeInv
<1>7. Start' = Start
  BY <1>1 DEF Start
<1>8. CASE s.ok
  <2>1. removed' = removed + 1 /\ pc' = "remove" /\ why' = "none"
    BY <1>1, <1>2, <1>8
  <2>2. Reached' = s
    <3>1. s.ok = TRUE
      BY <1>5, <1>8 DEF State
    <3>2. s = [ok |-> s.ok, cache |-> s.cache, txs |-> s.txs]
      BY <1>5 DEF State
    <3> HIDE DEF s
    <3> QED
      BY <1>1, <3>1, <3>2 DEF Reached
  <2>3. s = TakeEach(Start, FirstOf(ptrs, removed + 1))
    BY <1>1, <1>3, <1>6, TakeNext
  <2> HIDE DEF s
  <2>4. Reached' = TakeEach(Start', FirstOf(ptrs', removed'))
    BY <1>1, <1>7, <2>1, <2>2, <2>3
  <2>5. removed' \in 0..Len(ptrs')
    BY <1>1, <1>4, <2>1
  <2> QED
    BY <1>1, <1>6, <2>1, <2>4, <2>5 DEF DecodeInv, Decoding, NotFound, RootDiffers
<1>9. CASE ~s.ok
  <2>1. removed' = removed /\ pc' = "failed" /\ why' = NotFound
    BY <1>1, <1>9
  <2>2. s.cache = recv_cache /\ s.txs = txs
    <3>1. s = [Reached EXCEPT !.ok = FALSE]
      <4>1. ~(Reached.ok /\ p.index < Len(Reached.cache))
        <5> HIDE DEF p
        <5> QED
          BY <1>3, <1>4, <1>9, TakeFacts
      <4> QED
        BY <4>1 DEF TakeFromCache
    <3> QED
      BY <3>1 DEF Reached
  <2>3. Reached' = Reached
    BY <1>1, <2>2 DEF Reached
  <2>4. removed' < Len(ptrs') /\ ~TakeFromCache(Reached', ptrs'[removed' + 1]).ok
    BY <1>1, <1>9, <2>1, <2>3
  <2>5. Reached' = TakeEach(Start', FirstOf(ptrs', removed')) /\ removed' \in 0..Len(ptrs')
    BY <1>1, <1>3, <1>6, <1>7, <2>1, <2>3
  <2> HIDE DEF s, p
  <2> QED
    BY <1>1, <1>6, <2>1, <2>4, <2>5 DEF DecodeInv, Decoding, NotFound, RootDiffers
<1> QED
  BY <1>8, <1>9

\* The sort.
LEMMA SortDecodes ==
  ASSUME DecodeInv, Sort PROVE DecodeInv'
<1>1. /\ pc = "read" /\ ptrs' = tweak_sort(txn_ptrs(txn_data))
      /\ txs' = [n \in DOMAIN txn_data |-> txn_data[n].tx] /\ pc' = "remove"
      /\ UNCHANGED <<recv_cache, message_size, txn_data, removed, why, before>>
  BY DEF Sort
<1>2. /\ why = "none" /\ ~Decoding /\ recv_cache = before /\ removed = 0
      /\ before \in Seq(Tx) /\ IsInjective(before) /\ message_size \in Nat /\ txn_data \in Seq(Entry)
  BY <1>1 DEF DecodeInv, Decoding, NotFound, RootDiffers
<1>3. ptrs' \in Seq(Ptr) /\ Len(ptrs') \in Nat /\ 0 \in 0..Len(ptrs')
  BY <1>1, <1>2, SortedPtrs
<1>4. Reached' = Start'
  <2>1. DOMAIN txn_data = 1..Len(txn_data)
    BY <1>2
  <2> QED
    BY <1>1, <1>2, <2>1 DEF Reached, Start
<1>5. TakeEach(Start', FirstOf(ptrs', 0)) = Start'
  <2>1. FirstOf(ptrs', 0) = <<>>
    BY <1>3, FirstSteps
  <2> QED
    BY <2>1, TakeEachFacts
<1> QED
  BY <1>1, <1>2, <1>3, <1>4, <1>5 DEF DecodeInv, Decoding, NotFound, RootDiffers

\* Whatever arrives, the removals are those of the sorted references.
LEMMA DecodeInvariance == DecompressorSpec => []DecodeInv
<1>1. DecompressorInit => DecodeInv
  <2> SUFFICES ASSUME DecompressorInit PROVE DecodeInv
    OBVIOUS
  <2>1. /\ pc = "header" /\ why = "none" /\ removed = 0 /\ txs = <<>> /\ ptrs = <<>> /\ txn_data = <<>>
        /\ recv_cache = before
    BY DEF DecompressorInit
  <2>2. before \in Seq(Tx) /\ IsInjective(before) /\ message_size \in Nat
    BY DecompressorAssumption DEF DecompressorInit
  <2>3. txn_data \in Seq(Entry)
    BY <2>1
  <2> QED
    BY <2>1, <2>2, <2>3 DEF DecodeInv, Decoding, NotFound, RootDiffers
<1>2. DecodeInv /\ [DecompressorNext]_decompressor_vars => DecodeInv'
  <2> SUFFICES ASSUME DecodeInv, [DecompressorNext]_decompressor_vars PROVE DecodeInv'
    OBVIOUS
  <2>0. pc = "header" \/ pc = "read" => /\ ~Decoding /\ why = "none" /\ recv_cache = before /\ txs = <<>>
                                        /\ ptrs = <<>> /\ removed = 0
    BY DEF DecodeInv, Decoding, NotFound, RootDiffers
  <2>t. before \in Seq(Tx) /\ IsInjective(before) /\ message_size \in Nat /\ txn_data \in Seq(Entry)
    BY DEF DecodeInv
  <2>1. CASE Header
    <3>1. /\ UNCHANGED <<recv_cache, message_size, txn_data, ptrs, removed, txs, before>> /\ pc = "header"
          /\ \/ pc' = "failed" /\ why' \in {"too many transactions", "failed to read block header",
                                            "version < 4", "difficulty"}
             \/ pc' = "read" /\ why' = why
      BY <2>1 DEF Header, Fail
    <3> QED
      BY <2>0, <2>t, <3>1 DEF DecodeInv, Decoding, NotFound, RootDiffers
  <2>2. CASE ReadEntry
    <3>1. /\ UNCHANGED <<recv_cache, message_size, ptrs, removed, txs, before>> /\ pc = "read"
          /\ \/ pc' = "failed" /\ why' = "failed to read" /\ txn_data' = txn_data
             \/ (\E e \in Entry : txn_data' = Append(txn_data, e)) /\ UNCHANGED <<pc, why>>
      BY <2>2 DEF ReadEntry, Fail
    <3>2. txn_data' \in Seq(Entry)
      <4>1. CASE txn_data' = txn_data
        BY <2>t, <4>1
      <4>2. CASE \E e \in Entry : txn_data' = Append(txn_data, e)
        <5>1. PICK e \in Entry : txn_data' = Append(txn_data, e)
          BY <4>2
        <5>2. Append(txn_data, e) \in Seq(Entry)
          BY <2>t, AppendFacts
        <5> QED
          BY <5>1, <5>2
      <4> QED
        BY <3>1, <4>1, <4>2
    <3> QED
      BY <2>0, <2>t, <3>1, <3>2 DEF DecodeInv, Decoding, NotFound, RootDiffers
  <2>3. CASE Sort
    BY <2>3, SortDecodes
  <2>4. CASE RemoveNext
    BY <2>4, RemoveDecodes
  <2>5. CASE Assemble
    <3>1. /\ UNCHANGED <<recv_cache, message_size, txn_data, ptrs, removed, txs, why, before>>
          /\ pc = "remove" /\ removed = Len(ptrs) /\ pc' \in {"done", "merkle"}
      BY <2>5 DEF Assemble, Merkle!Begin
    <3>2. Decoding /\ Decoding' /\ why = "none" /\ Reached' = Reached /\ Start' = Start
      BY <3>1 DEF DecodeInv, Decoding, Reached, Start
    <3> QED
      BY <3>1, <3>2 DEF DecodeInv, NotFound
  <2>6. CASE MerkleStep
    <3>1. UNCHANGED txs
      BY <2>6, MerkleSteps DEF MerkleStep
    <3> QED
      BY <2>6, <3>1, DecodeKept DEF MerkleStep
  <2>7. CASE Verdict
    <3>1. /\ UNCHANGED <<recv_cache, message_size, txn_data, ptrs, removed, txs, before>> /\ pc = "merkle"
          /\ \/ pc' = "done" /\ why' = why
             \/ pc' = "failed" /\ why' = RootDiffers
      BY <2>7 DEF Verdict, Fail, RootDiffers
    <3>2. Decoding /\ Decoding' /\ why = "none" /\ Reached' = Reached /\ Start' = Start
      BY <3>1 DEF DecodeInv, Decoding, Reached, Start
    <3> QED
      BY <3>1, <3>2 DEF DecodeInv, NotFound, RootDiffers
  <2>8. CASE UNCHANGED decompressor_vars
    BY <2>8, DecodeKept DEF decompressor_vars
  <2> QED
    BY <2>1, <2>2, <2>3, <2>4, <2>5, <2>6, <2>7, <2>8 DEF DecompressorNext
<1> QED
  BY <1>1, <1>2, PTL DEF DecompressorSpec

\* For any message and any cache, removing in the order of positions finds what the sender
\* meant, or fails exactly if that cannot be found; and positions never go down on the way
\* (relayprocess.cpp:214-230, 305-311).
THEOREM MessageMeant == DecompressorSpec => []DecodesAsSent
<1>1. DecodeInv => DecodesAsSent
  <2> SUFFICES ASSUME DecodeInv PROVE DecodesAsSent
    OBVIOUS
  <2>0. /\ before \in Seq(Tx) /\ txn_data \in Seq(Entry)
        /\ why # "none" <=> pc = "failed"
    BY DEF DecodeInv
  <2>1. /\ DecompressBlock(before, txn_data).ok <=> InBlockOrder.ok
        /\ InBlockOrder.ok => DecompressBlock(before, txn_data) = InBlockOrder
    BY <2>0, TakenInOrder DEF InBlockOrder
  <2>2. ASSUME pc = "remove" PROVE \A m, n \in DOMAIN ptrs : m <= n => ptrs[m].index <= ptrs[n].index
    <3>1. Decoding /\ ptrs = tweak_sort(txn_ptrs(txn_data))
      BY <2>2 DEF DecodeInv, Decoding
    <3>2. ptrs \in Seq(Ptr) /\ Sorted(ptrs)
      BY <2>0, <3>1, SortedPtrs
    <3> SUFFICES ASSUME NEW m \in 1..Len(ptrs), NEW n \in 1..Len(ptrs), m <= n
                 PROVE  ptrs[m].index <= ptrs[n].index
      BY <3>2
    <3>3. ptrs[m].index \in Nat
      BY <3>2, PtrFacts
    <3>4. CASE m = n
      BY <3>3, <3>4
    <3>5. CASE m < n
      BY <3>2, <3>5 DEF Sorted
    <3> QED
      BY <3>4, <3>5
  <2>3. ASSUME Decoding
        PROVE  /\ DecompressBlock(before, txn_data) = TakeEach(Start, ptrs)
               /\ Start \in State(1..Len(txn_data)) /\ ptrs \in Seq(Ptr) /\ removed \in 0..Len(ptrs)
               /\ Reached = TakeEach(Start, FirstOf(ptrs, removed))
    BY <2>3, DecodeTypes DEF DecompressBlock, TakeAll, Start, DecodeInv
  <2>4. ASSUME pc = "done" \/ why = RootDiffers PROVE InBlockOrder = Reached
    <3>1. Decoding /\ removed = Len(ptrs)
      BY <2>0, <2>4 DEF DecodeInv, Decoding, NotFound, RootDiffers
    <3>2. FirstOf(ptrs, removed) = ptrs
      BY <2>3, <3>1, FirstSteps
    <3>3. DecompressBlock(before, txn_data) = Reached
      BY <2>3, <3>1, <3>2
    <3>4. Reached.ok
      BY DEF Reached
    <3> QED
      BY <2>1, <3>3, <3>4
  <2>5. ASSUME why = NotFound PROVE ~InBlockOrder.ok
    <3>1. Decoding /\ removed < Len(ptrs) /\ ~TakeFromCache(Reached, ptrs[removed + 1]).ok
      BY <2>5 DEF DecodeInv, Decoding
    <3>2. removed \in 0..(Len(ptrs) - 1)
      BY <2>3, <3>1
    <3>3. ~TakeEach(Start, ptrs).ok
      BY <2>3, <3>1, <3>2, FailedStays
    <3> QED
      BY <2>1, <2>3, <3>1, <3>3
  <2> QED
    BY <2>2, <2>4, <2>5 DEF DecodesAsSent, Reached, NotFound, RootDiffers
<1> QED
  BY <1>1, DecodeInvariance, PTL

\* What a removal does to the transactions taken, T, and those left, c: k is the place in the
\* cache, m the one in the message, B the places that are to be filled.
Moved(c, t, B, T, k, m) ==
  LET d == RemoveAt(c, k)
      u == [t EXCEPT ![m] = c[k]]
      U == {n \in B : u[n] # NoTx}
  IN /\ U = T \cup {m} /\ Cardinality(U) = Cardinality(T) + 1 /\ Cardinality(T) \in Nat
     /\ Len(d) = Len(c) - 1 /\ IsInjective(d)
     /\ \A a, b \in U : u[a] = u[b] => a = b
     /\ {u[n] : n \in U} \cup ToSet(d) = {t[n] : n \in T} \cup ToSet(c)
     /\ \A n \in U : u[n] \notin ToSet(d)

\* It moves one from the cache to the message.
LEMMA OneMoved ==
  ASSUME NEW N \in Nat, NEW c \in Seq(Tx), IsInjective(c), NEW t \in [1..N -> Tx \cup {NoTx}],
         NEW B, B \subseteq 1..N, NEW m \in B, t[m] = NoTx, NEW k \in 1..Len(c),
         NEW T, T = {n \in B : t[n] # NoTx}, \A n \in T : t[n] \notin ToSet(c),
         \A a, b \in T : t[a] = t[b] => a = b
  PROVE  Moved(c, t, B, T, k, m)
<1> DEFINE d == RemoveAt(c, k)  x == c[k]  u == [t EXCEPT ![m] = x]  U == {n \in B : u[n] # NoTx}
<1>1. /\ d \in Seq(Tx) /\ Len(d) = Len(c) - 1 /\ Len(c) \in Nat /\ x \in Tx
      /\ \A j \in 1..(Len(c) - 1) : d[j] = IF j < k THEN c[j] ELSE c[j + 1]
  BY RemoveAtFacts
<1>2. IsInjective(d)
  BY InjectiveWithout
<1>3. \A i, j \in 1..Len(c) : c[i] = c[j] => i = j
  BY DEF IsInjective
<1>x. x = c[k]
  OBVIOUS
<1> HIDE DEF d, x
<1>4. ToSet(c) = ToSet(d) \cup {x} /\ x \notin ToSet(d)
  <2>1. ToSet(c) = {c[j] : j \in 1..Len(c)} /\ ToSet(d) = {d[j] : j \in 1..(Len(c) - 1)}
    BY <1>1, SMTT(30) DEF ToSet
  <2>2. ASSUME NEW j \in 1..(Len(c) - 1) PROVE d[j] \in ToSet(c) /\ d[j] # x
    <3>1. CASE j < k
      BY <1>1, <1>3, <1>x, <2>1, <3>1
    <3>2. CASE ~(j < k)
      <4>1. j + 1 \in 1..Len(c) /\ j + 1 # k
        BY <1>1, <3>2
      <4> QED
        BY <1>1, <1>3, <1>x, <2>1, <3>2, <4>1
    <3> QED
      BY <3>1, <3>2
  <2>3. ASSUME NEW j \in 1..Len(c), j # k PROVE c[j] \in ToSet(d)
    <3>1. CASE j < k
      <4>1. j \in 1..(Len(c) - 1)
        BY <1>1, <3>1
      <4>2. d[j] = c[j]
        BY <1>1, <3>1, <4>1
      <4> QED
        BY <2>1, <4>1, <4>2
    <3>2. CASE ~(j < k)
      <4>1. j - 1 \in 1..(Len(c) - 1) /\ ~(j - 1 < k) /\ (j - 1) + 1 = j
        BY <1>1, <2>3, <3>2
      <4>2. d[j - 1] = c[j]
        BY <1>1, <4>1
      <4> QED
        BY <2>1, <4>1, <4>2
    <3> QED
      BY <3>1, <3>2
  <2>4. x \in ToSet(c)
    BY <1>x, <2>1
  <2>5. ToSet(d) \subseteq ToSet(c) /\ x \notin ToSet(d)
    <3>1. ToSet(d) = {d[j] : j \in 1..(Len(c) - 1)}
      BY <2>1
    <3> QED
      BY <2>2, <3>1, ZenonT(60)
  <2>6. ToSet(c) \subseteq ToSet(d) \cup {x}
    <3>1. \A j \in 1..Len(c) : c[j] \in ToSet(d) \cup {x}
      BY <1>x, <2>3
    <3> QED
      BY <2>1, <3>1
  <2> QED
    BY <2>4, <2>5, <2>6
<1>5. x # NoTx
  BY <1>1, CodecAssumption
<1>6. u \in [1..N -> Tx \cup {NoTx}] /\ u[m] = x /\ \A n \in 1..N : n # m => u[n] = t[n]
  BY <1>1
<1> HIDE DEF u
<1>7. U = T \cup {m} /\ m \notin T
  <2>1. m \notin T /\ m \in U
    BY <1>5, <1>6
  <2>2. ASSUME NEW n \in B, n # m PROVE n \in U <=> n \in T
    <3>1. u[n] = t[n]
      BY <1>6, <2>2
    <3> QED
      BY <3>1
  <2>3. U \subseteq B /\ T \subseteq B
    OBVIOUS
  <2> HIDE DEF U
  <2> QED
    BY <2>1, <2>2, <2>3, ZenonT(60)
<1> HIDE DEF U
<1>8. IsFiniteSet(T) /\ Cardinality(T) \in Nat
  <2>0. T \subseteq B
    OBVIOUS
  <2>1. T \in SUBSET (1..N)
    BY <2>0
  <2>3. 1 \in Int /\ N \in Int
    OBVIOUS
  <2>4. IsFiniteSet(1..N)
    BY <2>3, FS_Interval
  <2>2. IsFiniteSet(T)
    BY <2>1, <2>4, FS_Subset
  <2> QED
    BY <2>2, FS_CardinalityType
<1>9. Cardinality(U) = Cardinality(T) + 1
  BY <1>7, <1>8, FS_AddElement
<1>10. \A n \in T : u[n] = t[n]
  BY <1>6, <1>7
<1>11. \A n \in T : t[n] # x
  BY <1>4
<1>12. \A a, b \in U : u[a] = u[b] => a = b
  BY <1>6, <1>7, <1>10, <1>11
<1>13. {u[n] : n \in U} = {t[n] : n \in T} \cup {x}
  BY <1>6, <1>7, <1>10
<1>14. {u[n] : n \in U} \cup ToSet(d) = {t[n] : n \in T} \cup ToSet(c)
  BY <1>4, <1>13
<1>15. \A n \in U : u[n] \notin ToSet(d)
  BY <1>4, <1>6, <1>7, <1>10
<1> QED
  BY <1>1, <1>2, <1>7, <1>8, <1>9, <1>12, <1>14, <1>15 DEF Moved, d, x, u, U

\* Before the first removal nothing has been taken, ...
LEMMA LeftBefore ==
  ASSUME NEW b \in Seq(Tx), IsInjective(b), NEW body PROVE LeftOf(b, b, <<>>, body, <<>>, 0)
<1>1. DOMAIN <<>> = {} /\ Len(<<>>) = 0 /\ Len(b) \in Nat
  OBVIOUS
<1>2. {n \in DOMAIN <<>> : <<>>[n] # NoTx /\ body[n].index # Mark} = {}
  BY <1>1
<1>3. Cardinality({}) = 0
  BY FS_EmptySet
<1> QED
  BY <1>1, <1>2, <1>3 DEF LeftOf

\* ... also when what the message gives in full is in its place.
LEMMA LeftSorted ==
  ASSUME NEW b \in Seq(Tx), IsInjective(b), NEW body \in Seq(Entry)
  PROVE  LeftOf(b, b, [n \in DOMAIN body |-> body[n].tx], body, tweak_sort(txn_ptrs(body)), 0)
<1> DEFINE t == [n \in DOMAIN body |-> body[n].tx]  q == tweak_sort(txn_ptrs(body))
<1>1. DOMAIN t = 1..Len(body) /\ Len(b) \in Nat /\ \A n \in 1..Len(body) : t[n] = body[n].tx /\ body[n] \in Entry
  OBVIOUS
<1>2. \A e \in Entry : e.index # Mark => e.tx = NoTx
  BY DEF Entry
<1> HIDE DEF t
<1>3. {n \in DOMAIN t : t[n] # NoTx /\ body[n].index # Mark} = {}
  BY <1>1, <1>2
<1>4. Cardinality({}) = 0
  BY FS_EmptySet
<1>5. \A n \in 1..Len(q) : q[n].pos \in 1..Len(body) /\ body[q[n].pos].index # Mark
  BY SortedPtrs
<1> HIDE DEF q
<1>6. \A n \in (0 + 1)..Len(q) : q[n].pos \in DOMAIN t /\ t[q[n].pos] = NoTx /\ body[q[n].pos].index # Mark
  BY <1>1, <1>2, <1>5, SMTT(30)
<1>7. LeftOf(b, b, t, body, q, 0)
  <2>1. /\ {t[n] : n \in {}} \cup ToSet(b) = ToSet(b) /\ 0 + Len(b) = Len(b)
        /\ \A m, n \in {} : t[m] = t[n] => m = n
        /\ \A n \in {} : t[n] \notin ToSet(b)
    BY <1>1
  <2> QED
    BY <1>3, <1>4, <1>6, <2>1 DEF LeftOf
<1> QED
  BY <1>7 DEF t, q

\* A removal moves one transaction.
LEMMA LeftTaken ==
  ASSUME NEW b \in Seq(Tx), NEW body \in Seq(Entry), NEW q \in Seq(Ptr), DistinctPoses(q),
         NEW r \in 0..Len(q), r < Len(q), NEW s \in State(1..Len(body)),
         LeftOf(b, s.cache, s.txs, body, q, r), TakeFromCache(s, q[r + 1]).ok
  PROVE  LeftOf(b, TakeFromCache(s, q[r + 1]).cache, TakeFromCache(s, q[r + 1]).txs, body, q, r + 1)
<1> DEFINE p == q[r + 1]  v == TakeFromCache(s, p)  N == Len(body)  c == s.cache  t == s.txs
           k == p.index + 1  m == p.pos  B == {n \in 1..N : body[n].index # Mark}
           T == {n \in B : t[n] # NoTx}  d == RemoveAt(c, k)  u == [t EXCEPT ![m] = c[k]]
           U == {n \in B : u[n] # NoTx}
<1>1. N \in Nat /\ Len(q) \in Nat /\ r \in Nat /\ r + 1 \in 1..Len(q) /\ p \in Ptr /\ c \in Seq(Tx)
      /\ t \in [1..N -> Tx \cup {NoTx}] /\ DOMAIN t = 1..N /\ Len(c) \in Nat /\ Len(b) \in Nat
  BY DEF State
<1>0. v.ok
  OBVIOUS
<1>2. s.ok /\ k \in 1..Len(c)
  <2>1. s.ok /\ p.index < Len(c) /\ p.index \in Nat
    <3> HIDE DEF p
    <3>1. s.ok /\ p.index < Len(c)
      BY <1>0, <1>1, TakeFacts
    <3>2. p.index \in Nat
      BY <1>1, MarkFacts DEF Ptr
    <3> QED
      BY <3>1, <3>2
  <2> QED
    BY <1>1, <2>1
<1>3. v.cache = d /\ v.txs = u
  <2>1. p.index < Len(c)
    <3> HIDE DEF p
    <3> QED
      BY <1>0, <1>1, TakeFacts
  <2> QED
    BY <1>2, <2>1 DEF TakeFromCache
<1>4. {n \in DOMAIN t : t[n] # NoTx /\ body[n].index # Mark} = T
  BY <1>1
<1>5. /\ \A x, y \in T : t[x] = t[y] => x = y
      /\ {t[n] : n \in T} \cup ToSet(c) = ToSet(b)
      /\ Cardinality(T) + Len(c) = Len(b)
      /\ IsInjective(c) /\ \A n \in T : t[n] \notin ToSet(c)
  BY <1>4 DEF LeftOf
<1>6. \A n \in (r + 1)..Len(q) : q[n].pos \in DOMAIN t /\ t[q[n].pos] = NoTx /\ body[q[n].pos].index # Mark
  BY DEF LeftOf
<1>7. m \in B /\ t[m] = NoTx /\ m \in 1..N
  <2>1. r + 1 \in (r + 1)..Len(q)
    BY <1>1
  <2> QED
    BY <1>1, <1>6, <2>1
<1>8. DOMAIN u = 1..N
  BY <1>1
<1>9. {n \in DOMAIN u : u[n] # NoTx /\ body[n].index # Mark} = U
  BY <1>8
<1>10. ASSUME NEW n \in ((r + 1) + 1)..Len(q)
       PROVE  q[n].pos \in DOMAIN u /\ u[q[n].pos] = NoTx /\ body[q[n].pos].index # Mark
  <2>1. n \in (r + 1)..Len(q) /\ n \in 1..Len(q) /\ n # r + 1
    BY <1>1
  <2>2. q[n].pos # m
    BY <1>1, <2>1 DEF DistinctPoses
  <2>3. q[n].pos \in 1..N /\ t[q[n].pos] = NoTx /\ body[q[n].pos].index # Mark
    BY <1>1, <1>6, <2>1
  <2> HIDE DEF m
  <2>4. u[q[n].pos] = t[q[n].pos]
    BY <1>1, <2>2, <2>3
  <2> QED
    BY <1>8, <2>3, <2>4
<1>11. B \subseteq 1..N
  OBVIOUS
<1>12. /\ U = T \cup {m} /\ Cardinality(U) = Cardinality(T) + 1 /\ Cardinality(T) \in Nat
       /\ Len(d) = Len(c) - 1 /\ IsInjective(d)
       /\ \A x, y \in U : u[x] = u[y] => x = y
       /\ {u[n] : n \in U} \cup ToSet(d) = {t[n] : n \in T} \cup ToSet(c)
       /\ \A n \in U : u[n] \notin ToSet(d)
  <2>1. /\ T = {n \in B : t[n] # NoTx} /\ d = RemoveAt(c, k) /\ u = [t EXCEPT ![m] = c[k]]
        /\ U = {n \in B : u[n] # NoTx}
    OBVIOUS
  <2> HIDE DEF T, B, k, m, c, t, N
  <2>2. /\ N \in Nat /\ c \in Seq(Tx) /\ IsInjective(c) /\ t \in [1..N -> Tx \cup {NoTx}]
        /\ B \subseteq 1..N /\ m \in B /\ t[m] = NoTx /\ k \in 1..Len(c)
        /\ \A n \in T : t[n] \notin ToSet(c)
        /\ \A x, y \in T : t[x] = t[y] => x = y
    BY <1>1, <1>2, <1>5, <1>7, <1>11
  <2>3. Moved(c, t, B, T, k, m)
    BY <2>1, <2>2, OneMoved
  <2> QED
    BY <2>3 DEF Moved
<1>13. Cardinality(U) + Len(d) = Len(b)
  BY <1>1, <1>5, <1>12, SMTT(60)
<1>14. {u[n] : n \in U} \cup ToSet(d) = ToSet(b)
  BY <1>5, <1>12
<1> HIDE DEF U, u, d, T, v, p
<1>15. LeftOf(b, d, u, body, q, r + 1)
  BY <1>9, <1>10, <1>12, <1>13, <1>14 DEF LeftOf
<1> QED
  BY <1>3, <1>15 DEF v, p

\* A message never takes one transaction twice and loses none of them: what it has taken and
\* what is left of the cache make up the cache it met, also when it turns out to be
\* wrong half-way (relayprocess.cpp:305-311).
THEOREM NoneLost == DecompressorSpec => []NothingLost
<1>1. DecompressorInit => LeftInv
  <2> SUFFICES ASSUME DecompressorInit PROVE LeftInv
    OBVIOUS
  <2>1. removed = 0 /\ txs = <<>> /\ ptrs = <<>> /\ recv_cache = before
    BY DEF DecompressorInit
  <2>2. before \in Seq(Tx) /\ IsInjective(before)
    BY DecompressorAssumption DEF DecompressorInit
  <2> QED
    BY <2>1, <2>2, LeftBefore DEF LeftInv
<1>2. DecodeInv /\ LeftInv /\ [DecompressorNext]_decompressor_vars => LeftInv'
  <2> SUFFICES ASSUME DecodeInv, LeftInv, [DecompressorNext]_decompressor_vars PROVE LeftInv'
    OBVIOUS
  <2>t. before \in Seq(Tx) /\ IsInjective(before) /\ txn_data \in Seq(Entry)
    BY DEF DecodeInv
  <2>r. pc = "read" => recv_cache = before /\ txs = <<>> /\ ptrs = <<>> /\ removed = 0
    BY DEF DecodeInv, Decoding, NotFound, RootDiffers
  <2>0. ASSUME UNCHANGED <<recv_cache, txn_data, ptrs, removed, txs, before>> PROVE LeftInv'
    BY <2>0 DEF LeftInv
  <2>1. CASE Header
    BY <2>0, <2>1 DEF Header
  <2>2. CASE ReadEntry
    <3>1. pc = "read" /\ UNCHANGED <<recv_cache, ptrs, removed, txs, before>>
      BY <2>2 DEF ReadEntry
    <3>2. LeftOf(before, before, <<>>, txn_data', <<>>, 0)
      BY <2>t, LeftBefore
    <3> QED
      BY <2>r, <3>1, <3>2 DEF LeftInv
  <2>3. CASE Sort
    <3>1. /\ pc = "read" /\ ptrs' = tweak_sort(txn_ptrs(txn_data))
          /\ txs' = [n \in DOMAIN txn_data |-> txn_data[n].tx]
          /\ UNCHANGED <<recv_cache, txn_data, removed, before>>
      BY <2>3 DEF Sort
    <3>2. LeftOf(before, before, [n \in DOMAIN txn_data |-> txn_data[n].tx], txn_data,
                 tweak_sort(txn_ptrs(txn_data)), 0)
      BY <2>t, LeftSorted
    <3> QED
      BY <2>r, <3>1, <3>2 DEF LeftInv
  <2>4. CASE RemoveNext
    <3> DEFINE s == TakeFromCache(Reached, ptrs[removed + 1])
    <3>1. /\ pc = "remove" /\ removed < Len(ptrs) /\ recv_cache' = s.cache /\ txs' = s.txs
          /\ \/ s.ok /\ removed' = removed + 1
             \/ ~s.ok /\ UNCHANGED removed
          /\ UNCHANGED <<txn_data, ptrs, before>>
      BY <2>4 DEF RemoveNext, Reached
    <3>2. Decoding
      BY <3>1 DEF Decoding
    <3>3. Reached \in State(1..Len(txn_data)) /\ ptrs \in Seq(Ptr) /\ removed \in 0..Len(ptrs)
      BY <3>2, DecodeTypes
    <3>4. DistinctPoses(ptrs)
      BY <2>t, <3>2, SortedPtrs DEF DecodeInv
    <3>5. Reached.cache = recv_cache /\ Reached.txs = txs
      BY DEF Reached
    <3>6. CASE s.ok
      <4>1. LeftOf(before, Reached.cache, Reached.txs, txn_data, ptrs, removed)
        BY <3>5 DEF LeftInv
      <4>2. LeftOf(before, s.cache, s.txs, txn_data, ptrs, removed + 1)
        BY <2>t, <3>1, <3>3, <3>4, <3>6, <4>1, LeftTaken
      <4> HIDE DEF s
      <4> QED
        BY <3>1, <3>6, <4>2 DEF LeftInv
    <3>7. CASE ~s.ok
      <4>1. s = [Reached EXCEPT !.ok = FALSE]
        BY <3>7 DEF TakeFromCache
      <4>2. s.cache = recv_cache /\ s.txs = txs
        BY <4>1 DEF Reached
      <4> HIDE DEF s
      <4> QED
        BY <2>0, <3>1, <3>7, <4>2
    <3> QED
      BY <3>6, <3>7
  <2>5. CASE Assemble
    BY <2>0, <2>5 DEF Assemble, Merkle!Begin
  <2>6. CASE MerkleStep
    BY <2>0, <2>6, MerkleSteps DEF MerkleStep
  <2>7. CASE Verdict
    BY <2>0, <2>7 DEF Verdict
  <2>8. CASE UNCHANGED decompressor_vars
    BY <2>0, <2>8 DEF decompressor_vars
  <2> QED
    BY <2>1, <2>2, <2>3, <2>4, <2>5, <2>6, <2>7, <2>8 DEF DecompressorNext
<1>3. LeftInv => NothingLost
  BY DEF LeftInv, LeftOf, NothingLost
<1> QED
  BY <1>1, <1>2, <1>3, DecodeInvariance, PTL DEF DecompressorSpec

----------------------------------------------------------------------------
(***************************************************************************)
(* The merkle root.                                                        *)
(***************************************************************************)

\* A row of n nodes.
IsRow(r, n) == n \in Nat \ {0} /\ r = [k \in 1..n |-> r[k]]

\* It is a list of that length.
LEMMA RowLen ==
  ASSUME NEW r, NEW n, IsRow(r, n) PROVE Len(r) = n /\ DOMAIN r = 1..n
<1> DEFINE S == {r[k] : k \in 1..n}
<1>1. n \in Nat /\ r = [k \in 1..n |-> r[k]]
  BY DEF IsRow
<1>2. r \in [1..n -> S]
  BY <1>1
<1>3. r \in Seq(S)
  BY <1>1, <1>2, SeqDef
<1>4. Len(r) \in Nat /\ DOMAIN r = 1..Len(r)
  BY <1>3, LenProperties
<1>5. DOMAIN r = 1..n
  BY <1>2
<1> HIDE DEF S
<1>6. 1..Len(r) = 1..n
  BY <1>4, <1>5
<1>7. Len(r) = n
  BY <1>1, <1>4, <1>6
<1> QED
  BY <1>5, <1>7

\* Two rows with the same nodes.
LEMMA RowsEqual ==
  ASSUME NEW r, NEW s, NEW n, IsRow(r, n), IsRow(s, n), \A k \in 1..n : r[k] = s[k] PROVE r = s
BY DEF IsRow

\* The half of a number, rounded up.
LEMMA HalfUp ==
  ASSUME NEW n \in Nat, n > 1
  PROVE  LET m == (n + 1) \div 2 IN
         /\ m \in 1..(n - 1) /\ 2 * m \in n..(n + 1)
         /\ \A k \in 1..m : 2 * k - 1 \in 1..n /\ (2 * k <= n => 2 * k \in 1..n)
OBVIOUS

\* What one row has of the other.
LEMMA RowAboveFacts ==
  ASSUME NEW r, NEW n, IsRow(r, n), n > 1
  PROVE  LET m == (n + 1) \div 2 IN
         /\ IsRow(Merkle!RowAbove(r), m) /\ m \in 1..(n - 1)
         /\ \A k \in 1..m : Merkle!RowAbove(r)[k] = <<r[2 * k - 1], r[IF 2 * k <= n THEN 2 * k ELSE 2 * k - 1]>>
<1> DEFINE m == (n + 1) \div 2
           e(k) == <<r[2 * k - 1], r[IF 2 * k <= n THEN 2 * k ELSE 2 * k - 1]>>
           f == [k \in 1..m |-> e(k)]
<1>1. n \in Nat /\ Len(r) = n
  BY RowLen DEF IsRow
<1>2. m \in 1..(n - 1)
  BY <1>1, HalfUp
<1>3. Merkle!RowAbove(r) = f
  <2>1. n # 1
    BY <1>1
  <2>2. Merkle!RowAbove(r) = [k \in 1..m |-> <<r[2 * k - 1], IF 2 * k <= n THEN r[2 * k] ELSE r[2 * k - 1]>>]
    BY <1>1, <2>1 DEF Merkle!RowAbove, Merkle!Hash
  <2>3. \A k \in 1..m : <<r[2 * k - 1], IF 2 * k <= n THEN r[2 * k] ELSE r[2 * k - 1]>> = e(k)
    OBVIOUS
  <2> HIDE DEF m
  <2> QED
    BY <2>2, <2>3
<1> HIDE DEF m
<1>4. \A k \in 1..m : f[k] = e(k)
  OBVIOUS
<1>5. IsRow(f, m)
  <2>1. f = [k \in 1..m |-> f[k]]
    OBVIOUS
  <2> HIDE DEF f
  <2>2. m \in Nat \ {0}
    BY <1>1, <1>2
  <2> QED
    BY <2>1, <2>2 DEF IsRow
<1> HIDE DEF f
<1> QED
  BY <1>2, <1>3, <1>4, <1>5 DEF m

\* The root has nothing above it.
LEMMA RowAboveOne ==
  ASSUME NEW r, IsRow(r, 1) PROVE Merkle!RowAbove(r) = r
BY RowLen DEF Merkle!RowAbove

\* The rows of a list, N of them above it.
Rows(list, N, c) == c = [h \in 0..N |-> IF h = 0 THEN list ELSE Merkle!RowAbove(c[h - 1])]

\* There is such a table.
LEMMA RowsExist ==
  ASSUME NEW list, NEW N \in Nat PROVE \E c : Rows(list, N, c)
<1> DEFINE S == {n \in Nat : \E c : Rows(list, n, c)}
<1>1. 0 \in S
  <2>1. Rows(list, 0, [h \in 0..0 |-> list])
    BY DEF Rows
  <2> QED
    BY <2>1
<1>2. ASSUME NEW n \in Nat, n \in S PROVE n + 1 \in S
  <2>1. PICK c : Rows(list, n, c)
    BY <1>2
  <2> DEFINE d == [h \in 0..(n + 1) |-> IF h = n + 1 THEN Merkle!RowAbove(c[n]) ELSE c[h]]
  <2>0. c = [h \in 0..n |-> IF h = 0 THEN list ELSE Merkle!RowAbove(c[h - 1])]
    BY <2>1 DEF Rows
  <2>2. ASSUME NEW h \in 0..(n + 1)
        PROVE  d[h] = IF h = 0 THEN list ELSE Merkle!RowAbove(d[h - 1])
    <3>1. CASE h = 0
      <4>1. d[0] = c[0] /\ c[0] = list
        BY <2>0
      <4> QED
        BY <3>1, <4>1
    <3>2. CASE h = n + 1
      <4>1. h # 0 /\ h - 1 = n /\ d[n] = c[n]
        BY <3>2
      <4> QED
        BY <3>2, <4>1
    <3>3. CASE h \in 1..n
      <4>1. h # 0 /\ h \in 0..n /\ h - 1 \in 0..n /\ d[h] = c[h] /\ d[h - 1] = c[h - 1]
        BY <3>3
      <4>2. c[h] = Merkle!RowAbove(c[h - 1])
        BY <2>0, <4>1
      <4> QED
        BY <4>1, <4>2
    <3> QED
      BY <3>1, <3>2, <3>3
  <2>3. d = [h \in 0..(n + 1) |-> d[h]]
    OBVIOUS
  <2> HIDE DEF d
  <2>4. d = [h \in 0..(n + 1) |-> IF h = 0 THEN list ELSE Merkle!RowAbove(d[h - 1])]
    BY <2>2, <2>3
  <2>5. Rows(list, n + 1, d)
    BY <2>4 DEF Rows
  <2> QED
    BY <2>5
<1> HIDE DEF S
<1>3. N \in S
  BY <1>1, <1>2, SetInduction
<1> QED
  BY <1>3 DEF S

\* What it holds.
LEMMA RowsFacts ==
  ASSUME NEW list, NEW N \in Nat, NEW c, Rows(list, N, c)
  PROVE  c[0] = list /\ \A h \in 1..N : c[h] = Merkle!RowAbove(c[h - 1])
<1>1. c = [h \in 0..N |-> IF h = 0 THEN list ELSE Merkle!RowAbove(c[h - 1])]
  BY DEF Rows
<1>2. \A h \in 1..N : h \in 0..N /\ h # 0
  OBVIOUS
<1>3. 0 \in 0..N
  OBVIOUS
<1> QED
  BY <1>1, <1>2, <1>3, Zenon

\* The root is in its last row.
LEMMA RootHolds ==
  ASSUME NEW list, NEW n, IsRow(list, n)
  PROVE  \E c : Rows(list, n, c) /\ Merkle!Root(list) = c[n][1]
<1> DEFINE f == CHOOSE c : Rows(list, n, c)
<1>1. n \in Nat /\ Len(list) = n
  BY RowLen DEF IsRow
<1>2. Rows(list, n, f)
  BY <1>1, RowsExist
<1>3. Merkle!Root(list) = f[n][1]
  BY <1>1 DEF Merkle!Root, f, Rows
<1> HIDE DEF f
<1> QED
  BY <1>2, <1>3

\* Rows get shorter until one node is left.
LEMMA Climb ==
  ASSUME NEW list, NEW n, IsRow(list, n), NEW N \in Nat, NEW c,
         c[0] = list, \A h \in 1..N : c[h] = Merkle!RowAbove(c[h - 1])
  PROVE  \A h \in 0..N : \E m \in 1..n : IsRow(c[h], m) /\ (m = 1 \/ m <= n - h)
<1> DEFINE P(h) == \E m \in 1..n : IsRow(c[h], m) /\ (m = 1 \/ m <= n - h)
           S == {h \in Nat : h <= N => P(h)}
<1>0. n \in Nat \ {0}
  BY DEF IsRow
<1>1. 0 \in S
  <2>1. n \in 1..n /\ n <= n - 0
    BY <1>0
  <2> QED
    BY <2>1
<1>2. ASSUME NEW h \in Nat, h \in S PROVE h + 1 \in S
  <2> SUFFICES ASSUME h + 1 <= N PROVE P(h + 1)
    OBVIOUS
  <2>1. h + 1 \in 1..N /\ (h + 1) - 1 = h /\ h <= N
    OBVIOUS
  <2>2. c[h + 1] = Merkle!RowAbove(c[h])
    BY <2>1
  <2>3. PICK m \in 1..n : IsRow(c[h], m) /\ (m = 1 \/ m <= n - h)
    BY <1>2, <2>1
  <2>4. CASE m = 1
    <3>1. c[h + 1] = c[h]
      BY <2>2, <2>3, <2>4, RowAboveOne
    <3> QED
      BY <2>3, <2>4, <3>1
  <2>5. CASE m # 1
    <3> DEFINE l == (m + 1) \div 2
    <3>1. m \in Nat /\ m > 1 /\ m <= n /\ m <= n - h
      BY <1>0, <2>3, <2>5
    <3>2. IsRow(c[h + 1], l) /\ l \in 1..(m - 1)
      BY <2>2, <2>3, <3>1, RowAboveFacts
    <3> HIDE DEF l
    <3>3. l \in 1..n /\ l <= n - (h + 1)
      BY <1>0, <3>1, <3>2
    <3> QED
      BY <3>2, <3>3
  <2> QED
    BY <2>4, <2>5
<1> HIDE DEF S
<1>3. \A h \in Nat : h \in S
  BY <1>1, <1>2, SetInduction
<1> QED
  BY <1>3 DEF S

\* Then they stay as they are.
LEMMA Settled ==
  ASSUME NEW N \in Nat, NEW c, \A h \in 1..N : c[h] = Merkle!RowAbove(c[h - 1]),
         NEW a \in 0..N, IsRow(c[a], 1)
  PROVE  \A b \in a..N : c[b] = c[a]
<1> DEFINE S == {b \in Nat : a <= b /\ b <= N => c[b] = c[a]}
<1>1. 0 \in S
  OBVIOUS
<1>2. ASSUME NEW b \in Nat, b \in S PROVE b + 1 \in S
  <2> SUFFICES ASSUME a <= b + 1, b + 1 <= N PROVE c[b + 1] = c[a]
    OBVIOUS
  <2>1. CASE b + 1 = a
    BY <2>1
  <2>2. CASE b + 1 # a
    <3>1. a <= b /\ b <= N /\ b + 1 \in 1..N /\ (b + 1) - 1 = b
      BY <2>2
    <3>2. c[b] = c[a] /\ c[b + 1] = Merkle!RowAbove(c[b])
      BY <1>2, <3>1
    <3> QED
      BY <3>2, RowAboveOne
  <2> QED
    BY <2>1, <2>2
<1> HIDE DEF S
<1>3. \A b \in Nat : b \in S
  BY <1>1, <1>2, SetInduction
<1>4. \A b \in a..N : b \in Nat /\ a <= b /\ b <= N
  OBVIOUS
<1> QED
  BY <1>3, <1>4 DEF S

\* A row has the root of the one below it.
LEMMA RootAbove ==
  ASSUME NEW r, NEW n, IsRow(r, n) PROVE Merkle!Root(Merkle!RowAbove(r)) = Merkle!Root(r)
<1>0. n \in Nat \ {0}
  BY DEF IsRow
<1>1. CASE n = 1
  BY <1>1, RowAboveOne
<1>2. CASE n # 1
  <2> DEFINE u == Merkle!RowAbove(r)  m == (n + 1) \div 2
  <2>0. n \in Nat /\ n > 1
    BY <1>0, <1>2
  <2>1. IsRow(u, m) /\ m \in 1..(n - 1) /\ m \in Nat
    <3>1. IsRow(u, m) /\ m \in 1..(n - 1)
      BY <2>0, RowAboveFacts
    <3> QED
      BY <3>1 DEF IsRow
  <2> HIDE DEF m
  <2>2. PICK c : Rows(r, n, c) /\ Merkle!Root(r) = c[n][1]
    BY RootHolds
  <2>3. PICK d : Rows(u, m, d) /\ Merkle!Root(u) = d[m][1]
    BY <2>1, RootHolds
  <2>4. c[0] = r /\ \A h \in 1..n : c[h] = Merkle!RowAbove(c[h - 1])
    <3>1. n \in Nat /\ Rows(r, n, c)
      BY <2>0, <2>2
    <3> HIDE DEF u
    <3> QED
      BY <3>1, RowsFacts
  <2>5. d[0] = u /\ \A h \in 1..m : d[h] = Merkle!RowAbove(d[h - 1])
    <3> HIDE DEF u
    <3> QED
      BY <2>1, <2>3, RowsFacts
  <2> DEFINE S == {h \in Nat : h <= m => d[h] = c[h + 1]}
  <2>6. 0 \in S
    <3>1. 1 \in 1..n /\ 1 - 1 = 0 /\ 0 + 1 = 1
      BY <1>0
    <3>2. c[1] = u
      BY <2>4, <3>1
    <3> QED
      BY <2>5, <3>1, <3>2
  <2>7. ASSUME NEW h \in Nat, h \in S PROVE h + 1 \in S
    <3> SUFFICES ASSUME h + 1 <= m PROVE d[h + 1] = c[(h + 1) + 1]
      OBVIOUS
    <3>1. h <= m /\ h + 1 \in 1..m /\ (h + 1) - 1 = h /\ (h + 1) + 1 \in 1..n /\ ((h + 1) + 1) - 1 = h + 1
      BY <1>0, <2>1
    <3>2. d[h + 1] = Merkle!RowAbove(d[h])
      BY <2>5, <3>1
    <3>3. c[(h + 1) + 1] = Merkle!RowAbove(c[h + 1])
      BY <2>4, <3>1
    <3> QED
      BY <2>7, <3>1, <3>2, <3>3
  <2> HIDE DEF S, u
  <2>8. m \in Nat /\ m \in 0..m /\ m + 1 \in 0..n /\ n \in (m + 1)..n /\ m <= m /\ 1 <= m
    BY <1>0, <2>1
  <2>9. d[m] = c[m + 1]
    <3>1. m \in S
      BY <2>6, <2>7, <2>8, SetInduction
    <3> QED
      BY <2>8, <3>1 DEF S
  <2>10. IsRow(d[m], 1)
    <3>1. PICK l \in 1..m : IsRow(d[m], l) /\ (l = 1 \/ l <= m - m)
      BY <2>1, <2>5, <2>8, Climb
    <3>2. l = 1
      BY <2>8, <3>1
    <3> QED
      BY <3>1, <3>2
  <2>11. c[n] = c[m + 1]
    BY <1>0, <2>4, <2>8, <2>9, <2>10, Settled
  <2> QED
    BY <2>2, <2>3, <2>9, <2>11 DEF u
<1> QED
  BY <1>1, <1>2

\* The root of a single node is that node.
LEMMA RootOne ==
  ASSUME NEW r, IsRow(r, 1) PROVE Merkle!Root(r) = r[1]
<1>1. PICK c : Rows(r, 1, c) /\ Merkle!Root(r) = c[1][1]
  BY RootHolds
<1>2. c[0] = r /\ \A h \in 1..1 : c[h] = Merkle!RowAbove(c[h - 1])
  BY <1>1, RowsFacts
<1>3. c[1] = Merkle!RowAbove(r)
  BY <1>2
<1> QED
  BY <1>1, <1>3, RowAboveOne

\* No transaction is the hash of two others.
HashesApart == \A x \in Tx \cup {NoTx} : \A a, b : x # <<a, b>>

\* x is a node k rows above the leaves: its left child, the left child of that and so on, k
\* times, lead to a transaction.
Above(x, k) ==
  \E c : c[0] = x /\ c[k] \in Tx \cup {NoTx} /\ \A j \in 0..(k - 1) : \E b : c[j] = <<c[j + 1], b>>

\* A leaf is none.
LEMMA AboveNone == ASSUME NEW x \in Tx \cup {NoTx} PROVE Above(x, 0)
<1> DEFINE c == [j \in {0} |-> x]
<1>1. c[0] = x
  OBVIOUS
<1>2. \A j \in 0..(0 - 1) : \E b : c[j] = <<c[j + 1], b>>
  OBVIOUS
<1> HIDE DEF c
<1> QED
  BY <1>1, <1>2 DEF Above

\* Its parent is one row higher.
LEMMA AboveUp ==
  ASSUME NEW x, NEW y, NEW k \in Nat, Above(x, k) PROVE Above(<<x, y>>, k + 1)
<1>1. PICK c : c[0] = x /\ c[k] \in Tx \cup {NoTx} /\ \A j \in 0..(k - 1) : \E b : c[j] = <<c[j + 1], b>>
  BY DEF Above
<1> DEFINE d == [j \in 0..(k + 1) |-> IF j = 0 THEN <<x, y>> ELSE c[j - 1]]
<1>2. d[0] = <<x, y>> /\ \A j \in 1..(k + 1) : d[j] = c[j - 1]
  OBVIOUS
<1> HIDE DEF d
<1>3. d[k + 1] = c[k]
  <2>1. k + 1 \in 1..(k + 1) /\ (k + 1) - 1 = k
    OBVIOUS
  <2> QED
    BY <1>2, <2>1
<1>4. ASSUME NEW j \in 0..((k + 1) - 1) PROVE \E b : d[j] = <<d[j + 1], b>>
  <2>1. CASE j = 0
    <3>1. 0 + 1 = 1 /\ 1 \in 1..(k + 1) /\ 1 - 1 = 0
      OBVIOUS
    <3>2. d[1] = x
      BY <1>1, <1>2, <3>1
    <3> QED
      BY <1>2, <2>1, <3>1, <3>2
  <2>2. CASE j # 0
    <3>1. j \in 1..(k + 1) /\ j + 1 \in 1..(k + 1) /\ (j + 1) - 1 = (j - 1) + 1 /\ j - 1 \in 0..(k - 1)
      BY <2>2
    <3>2. d[j] = c[j - 1] /\ d[j + 1] = c[(j - 1) + 1]
      BY <1>2, <3>1
    <3>3. \E b : c[j - 1] = <<c[(j - 1) + 1], b>>
      BY <1>1, <3>1
    <3> QED
      BY <3>2, <3>3
  <2> QED
    BY <2>1, <2>2
<1> QED
  BY <1>1, <1>2, <1>3, <1>4 DEF Above

\* A node is as many rows above the leaves as it is.
LEMMA AboveOnce ==
  ASSUME HashesApart, NEW x, NEW g \in Nat, NEW h \in Nat, g < h, Above(x, g), Above(x, h) PROVE FALSE
<1>1. PICK c : c[0] = x /\ c[g] \in Tx \cup {NoTx} /\ \A j \in 0..(g - 1) : \E b : c[j] = <<c[j + 1], b>>
  BY DEF Above
<1>2. PICK d : d[0] = x /\ \A j \in 0..(h - 1) : \E b : d[j] = <<d[j + 1], b>>
  BY DEF Above
<1> DEFINE S == {j \in Nat : j <= g => c[j] = d[j]}
<1>3. 0 \in S
  BY <1>1, <1>2
<1>4. ASSUME NEW j \in Nat, j \in S PROVE j + 1 \in S
  <2> SUFFICES ASSUME j + 1 <= g PROVE c[j + 1] = d[j + 1]
    OBVIOUS
  <2>1. j \in 0..(g - 1) /\ j \in 0..(h - 1) /\ j <= g
    OBVIOUS
  <2>2. PICK a : c[j] = <<c[j + 1], a>>
    BY <1>1, <2>1
  <2>3. PICK b : d[j] = <<d[j + 1], b>>
    BY <1>2, <2>1
  <2>4. c[j] = d[j]
    BY <1>4, <2>1
  <2>5. <<c[j + 1], a>>[1] = <<d[j + 1], b>>[1]
    BY <2>2, <2>3, <2>4
  <2> QED
    BY <2>5
<1> HIDE DEF S
<1>5. g \in S
  BY <1>3, <1>4, SetInduction
<1>6. c[g] = d[g]
  BY <1>5 DEF S
<1>7. g \in 0..(h - 1)
  OBVIOUS
<1>8. PICK b : d[g] = <<d[g + 1], b>>
  BY <1>2, <1>7
<1> QED
  BY <1>1, <1>6, <1>8 DEF HashesApart

\* A row without repetition.
NoneTwice(r, n) == \A j, k \in 1..n : r[j] = r[k] => j = k

\* The row above it has no repetition either.
LEMMA NoneTwiceAbove ==
  ASSUME NEW r, NEW n, IsRow(r, n), n > 1, NoneTwice(r, n)
  PROVE  NoneTwice(Merkle!RowAbove(r), (n + 1) \div 2)
<1> DEFINE u == Merkle!RowAbove(r)  m == (n + 1) \div 2
<1>0. n \in Nat
  BY DEF IsRow
<1>1. \A k \in 1..m : 2 * k - 1 \in 1..n
  BY <1>0, HalfUp
<1>2. \A k \in 1..m : u[k] = <<r[2 * k - 1], r[IF 2 * k <= n THEN 2 * k ELSE 2 * k - 1]>>
  BY RowAboveFacts
<1> HIDE DEF u, m
<1>3. ASSUME NEW j \in 1..m, NEW k \in 1..m, u[j] = u[k] PROVE j = k
  <2>1. u[j][1] = r[2 * j - 1] /\ u[k][1] = r[2 * k - 1]
    BY <1>2
  <2>2. 2 * j - 1 = 2 * k - 1
    BY <1>1, <1>3, <2>1 DEF NoneTwice
  <2>3. j \in Int /\ k \in Int
    OBVIOUS
  <2> QED
    BY <2>2, <2>3
<1> QED
  BY <1>3 DEF NoneTwice, u, m

\* a is a row of the tree over another list, as high as r or, if it is the root, not higher.
Differs(r, n, a, l) ==
  /\ IsRow(a, l) /\ l <= n /\ a # r
  /\ \E g, h \in Nat : g <= h /\ Above(a[1], g) /\ Above(r[1], h)

\* Rows that differ have different rows above them, unless the longer one repeats its end.
LEMMA DiffersAbove ==
  ASSUME HashesApart, NEW r, NEW n, NEW a, NEW l, IsRow(r, n), n > 1, r[n - 1] # r[n], Differs(r, n, a, l)
  PROVE  Differs(Merkle!RowAbove(r), (n + 1) \div 2, Merkle!RowAbove(a),
                 IF l = 1 THEN 1 ELSE (l + 1) \div 2)
<1> DEFINE u == Merkle!RowAbove(r)  v == Merkle!RowAbove(a)  m == (n + 1) \div 2  p == (l + 1) \div 2
<1>0. n \in Nat /\ l \in Nat \ {0} /\ IsRow(a, l) /\ l <= n /\ a # r
  BY DEF IsRow, Differs
<1>1. PICK g \in Nat, h \in Nat : g <= h /\ Above(a[1], g) /\ Above(r[1], h)
  BY DEF Differs
<1>2. /\ IsRow(u, m) /\ m \in 1..(n - 1)
      /\ \A k \in 1..m : u[k] = <<r[2 * k - 1], r[IF 2 * k <= n THEN 2 * k ELSE 2 * k - 1]>>
  BY RowAboveFacts
<1>3. Above(u[1], h + 1)
  <2>1. 1 \in 1..m /\ 2 * 1 - 1 = 1
    BY <1>0, <1>2
  <2>2. PICK y : u[1] = <<r[1], y>>
    BY <1>2, <2>1
  <2> QED
    BY <1>1, <2>2, AboveUp
<1>4. CASE l = 1
  <2>1. v = a
    BY <1>0, <1>4, RowAboveOne
  <2>2. a # u
    <3>1. g < h + 1
      BY <1>1
    <3> QED
      BY <1>1, <1>3, <3>1, AboveOnce
  <2>3. 1 <= m
    BY <1>0, <1>2
  <2>4. g <= h + 1 /\ h + 1 \in Nat
    BY <1>1
  <2> HIDE DEF u, v, m, p
  <2>5. Differs(u, m, v, 1)
    BY <1>0, <1>1, <1>3, <1>4, <2>1, <2>2, <2>3, <2>4 DEF Differs
  <2> QED
    BY <1>4, <2>5 DEF u, v, m, p
<1>5. CASE l # 1
  <2>0. l > 1
    BY <1>0, <1>5
  <2>1. /\ IsRow(v, p) /\ p \in 1..(l - 1)
        /\ \A k \in 1..p : v[k] = <<a[2 * k - 1], a[IF 2 * k <= l THEN 2 * k ELSE 2 * k - 1]>>
    BY <1>0, <2>0, RowAboveFacts
  <2>2. Above(v[1], g + 1)
    <3>1. 1 \in 1..p /\ 2 * 1 - 1 = 1
      BY <1>0, <2>1
    <3>2. PICK y : v[1] = <<a[1], y>>
      BY <2>1, <3>1
    <3> QED
      BY <1>1, <3>2, AboveUp
  <2>3. p <= m /\ p \in Nat /\ m \in Nat
    BY <1>0
  <2>4. v # u
    <3> SUFFICES ASSUME v = u PROVE FALSE
      OBVIOUS
    <3>1. p = m
      <4> HIDE DEF u, v, m, p
      <4>1. Len(v) = p /\ Len(u) = m
        BY <1>2, <2>1, RowLen
      <4> QED
        BY <4>1
    <3>2. ASSUME NEW k \in 1..m
          PROVE  /\ a[2 * k - 1] = r[2 * k - 1]
                 /\ a[IF 2 * k <= l THEN 2 * k ELSE 2 * k - 1] = r[IF 2 * k <= n THEN 2 * k ELSE 2 * k - 1]
      <4> DEFINE q == IF 2 * k <= l THEN 2 * k ELSE 2 * k - 1
                 w == IF 2 * k <= n THEN 2 * k ELSE 2 * k - 1
      <4>1. v[k] = <<a[2 * k - 1], a[q]>> /\ u[k] = <<r[2 * k - 1], r[w]>>
        BY <1>2, <2>1, <3>1
      <4> HIDE DEF q, w, u, v
      <4>2. v[k] = u[k]
        OBVIOUS
      <4>3. a[2 * k - 1] = r[2 * k - 1] /\ a[q] = r[w]
        BY <4>1, <4>2
      <4> QED
        BY <4>3 DEF q, w
    <3>3. CASE l = n
      <4>1. ASSUME NEW k \in 1..n PROVE a[k] = r[k]
        <5>1. PICK i \in 1..m : k = 2 * i - 1 \/ k = 2 * i
          <6>1. (k + 1) \div 2 \in 1..m /\ (k = 2 * ((k + 1) \div 2) - 1 \/ k = 2 * ((k + 1) \div 2))
            BY <1>0
          <6> QED
            BY <6>1
        <5>2. CASE k = 2 * i - 1
          BY <3>2, <5>2
        <5>3. CASE k = 2 * i
          <6>1. 2 * i <= l /\ 2 * i <= n
            BY <3>3, <5>3
          <6> QED
            BY <3>2, <5>3, <6>1
        <5> QED
          BY <5>1, <5>2, <5>3
      <4> QED
        BY <1>0, <3>3, <4>1, RowsEqual
    <3>4. CASE l # n
      <4>1. n = 2 * m /\ l = n - 1 /\ m \in 1..m
        BY <1>0, <1>2, <3>1, <3>4
      <4>2. ~(2 * m <= l) /\ 2 * m <= n
        BY <1>0, <4>1
      <4> HIDE DEF m
      <4>3. a[2 * m - 1] = r[2 * m - 1] /\ a[2 * m - 1] = r[2 * m]
        BY <3>2, <4>1, <4>2
      <4> QED
        BY <4>1, <4>3
    <3> QED
      BY <3>3, <3>4
  <2>5. g + 1 <= h + 1 /\ g + 1 \in Nat /\ h + 1 \in Nat
    BY <1>1
  <2> HIDE DEF u, v, m, p
  <2>6. Differs(u, m, v, p)
    BY <1>3, <2>1, <2>2, <2>3, <2>4, <2>5 DEF Differs
  <2> QED
    BY <1>5, <2>6 DEF u, v, m, p
<1> QED
  BY <1>4, <1>5

\* What row r of the tree over the list w, compared with the list L, keeps of them.
Kept(r, n, w, L) ==
  /\ IsRow(r, n) /\ Merkle!Root(r) = Merkle!Root(w)
  /\ L = w => NoneTwice(r, n)
  /\ HashesApart /\ L # w /\ L # <<>> =>
       \E a, l : Differs(r, n, a, l) /\ Merkle!Root(a) = Merkle!Root(L)

\* The next row keeps it, ...
LEMMA KeptAbove ==
  ASSUME NEW r, NEW n, NEW w, NEW L, Kept(r, n, w, L), n > 1, r[n - 1] # r[n]
  PROVE  Kept(Merkle!RowAbove(r), (n + 1) \div 2, w, L)
<1> DEFINE u == Merkle!RowAbove(r)  m == (n + 1) \div 2
<1>0. IsRow(r, n) /\ n \in Nat /\ Merkle!Root(r) = Merkle!Root(w)
  BY DEF Kept, IsRow
<1>1. IsRow(u, m)
  BY <1>0, RowAboveFacts
<1>2. Merkle!Root(u) = Merkle!Root(w)
  BY <1>0, RootAbove
<1>3. L = w => NoneTwice(u, m)
  BY <1>0, NoneTwiceAbove DEF Kept
<1>4. ASSUME HashesApart, L # w, L # <<>>
      PROVE  \E a, l : Differs(u, m, a, l) /\ Merkle!Root(a) = Merkle!Root(L)
  <2>1. PICK a, l : Differs(r, n, a, l) /\ Merkle!Root(a) = Merkle!Root(L)
    BY <1>4 DEF Kept
  <2> DEFINE v == Merkle!RowAbove(a)  p == IF l = 1 THEN 1 ELSE (l + 1) \div 2
  <2>2. Differs(u, m, v, p)
    BY <1>0, <1>4, <2>1, DiffersAbove
  <2>3. IsRow(a, l)
    BY <2>1 DEF Differs
  <2>4. Merkle!Root(v) = Merkle!Root(L)
    BY <2>1, <2>3, RootAbove
  <2> HIDE DEF u, m, v, p
  <2> QED
    BY <2>2, <2>4
<1> HIDE DEF u, m
<1>5. Kept(u, m, w, L)
  BY <1>1, <1>2, <1>3, <1>4 DEF Kept
<1> QED
  BY <1>5 DEF u, m

\* ... the first has it, if L stands for no list ...
LEMMA KeptNone ==
  ASSUME NEW w, NEW n, IsRow(w, n) PROVE Kept(w, n, w, <<>>) /\ w # <<>>
<1>1. Len(w) = n /\ n # 0
  BY RowLen DEF IsRow
<1>2. Len(<<>>) = 0
  OBVIOUS
<1>3. w # <<>>
  BY <1>1, <1>2
<1> QED
  BY <1>3 DEF Kept

\* ... or is a beginning of w without repetition, ...
LEMMA KeptFirst ==
  ASSUME NEW w, NEW n, IsRow(w, n), w[1] \in Tx \cup {NoTx},
         NEW L, NEW l, IsRow(L, l), l <= n, L[1] = w[1], NoneTwice(L, l)
  PROVE  Kept(w, n, w, L)
<1>1. ASSUME L = w PROVE NoneTwice(w, n)
  <2>1. Len(L) = l /\ Len(w) = n
    BY RowLen
  <2>2. l = n
    BY <1>1, <2>1
  <2> QED
    BY <1>1, <2>2
<1>2. Above(w[1], 0)
  BY AboveNone
<1>3. ASSUME L # w PROVE Differs(w, n, L, l)
  <2>1. Above(L[1], 0) /\ 0 \in Nat /\ 0 <= 0
    BY <1>2
  <2> QED
    BY <1>2, <1>3, <2>1 DEF Differs
<1> QED
  BY <1>1, <1>3 DEF Kept

\* ... and the last tells whether they are the same.
LEMMA KeptLast ==
  ASSUME NEW r, NEW w, NEW L, Kept(r, 1, w, L)
  PROVE  /\ L = w => r[1] = Merkle!Root(L)
         /\ HashesApart /\ L # <<>> /\ r[1] = Merkle!Root(L) => L = w
<1>1. IsRow(r, 1) /\ Merkle!Root(r) = Merkle!Root(w)
  BY DEF Kept
<1>2. r[1] = Merkle!Root(w)
  BY <1>1, RootOne
<1>3. ASSUME HashesApart, r[1] = Merkle!Root(L), L # w, L # <<>> PROVE FALSE
  <2>1. PICK a, l : Differs(r, 1, a, l) /\ Merkle!Root(a) = Merkle!Root(L)
    BY <1>3 DEF Kept
  <2>2. IsRow(a, l) /\ l <= 1 /\ a # r
    BY <2>1 DEF Differs
  <2>3. l = 1
    BY <2>2 DEF IsRow
  <2>4. a[1] = Merkle!Root(L)
    BY <2>1, <2>2, <2>3, RootOne
  <2>5. \A k \in 1..1 : a[k] = r[k]
    BY <1>3, <2>4
  <2> QED
    BY <1>1, <2>2, <2>3, <2>5, RowsEqual
<1> QED
  BY <1>2, <1>3

----------------------------------------------------------------------------
(***************************************************************************)
(* The fold.                                                               *)
(***************************************************************************)

\* The slot of a row's j-th node.
At(j, s) == j * s

\* Slots are s apart, and every other one is of the row above.
LEMMA AtFacts ==
  ASSUME NEW s \in Nat \ {0}, NEW j \in Nat
  PROVE  /\ At(j, s) \in Nat /\ At(0, s) = 0 /\ At(j, 1) = j
         /\ At(j + 1, s) = At(j, s) + s
         /\ At(2 * j, s) = At(j, s * 2)
BY DEF At

\* They are in order, and each is one node's.
LEMMA AtOrder ==
  ASSUME NEW s \in Nat \ {0}, NEW j \in Nat, NEW k \in Nat
  PROVE  /\ j <= k => At(j, s) <= At(k, s)
         /\ j < k => At(j, s) < At(k, s)
         /\ At(j, s) = At(k, s) => j = k
<1>1. ASSUME NEW x \in Nat, NEW y \in Nat, x < y PROVE x * s < y * s
  BY <1>1
<1> QED
  BY <1>1 DEF At

\* The nodes of a row, s slots apart, ...
RowAt(f, n, s) == [k \in 1..n |-> f[At(k - 1, s)]]

\* ... and of one of which the first q pairs have been hashed.
Half(f, n, s, r, q) ==
  /\ \A k \in 1..((n + 1) \div 2) : k <= q => f[At(2 * k - 2, s)] = Merkle!RowAbove(r)[k]
  /\ \A j \in 0..(n - 1) : j >= 2 * q => f[At(j, s)] = r[j + 1]

\* The slots are those of the list.
Slots(f, N, n, s, last) ==
  /\ N \in Nat \ {0} /\ f = [k \in 0..(N - 1) |-> f[k]]
  /\ n \in 1..N /\ s \in Nat \ {0} /\ last = At(n - 1, s) /\ last <= N - 1

\* Every node of a row has its slot in the list.
LEMMA SlotFacts ==
  ASSUME NEW f, NEW N, NEW n, NEW s, NEW last, Slots(f, N, n, s, last)
  PROVE  /\ N \in Nat /\ n \in Nat /\ n >= 1 /\ s \in Nat \ {0} /\ last \in 0..(N - 1)
         /\ \A j \in 0..(n - 1) : At(j, s) \in 0..(N - 1) /\ At(j, s) <= last
         /\ n > 1 => last - s = At(n - 2, s)
<1>1. N \in Nat /\ n \in Nat /\ n >= 1 /\ s \in Nat \ {0} /\ n - 1 \in Nat /\ last = At(n - 1, s) /\ last <= N - 1
  BY DEF Slots
<1>2. last \in Nat
  BY <1>1, AtFacts
<1>3. ASSUME NEW j \in 0..(n - 1) PROVE At(j, s) \in 0..(N - 1) /\ At(j, s) <= last
  <2>1. j \in Nat /\ j <= n - 1
    BY <1>1
  <2>2. At(j, s) \in Nat /\ At(j, s) <= At(n - 1, s)
    BY <1>1, <2>1, AtFacts, AtOrder
  <2> QED
    BY <1>1, <1>2, <2>2
<1>4. ASSUME n > 1 PROVE last - s = At(n - 2, s)
  <2>1. n - 2 \in Nat /\ (n - 2) + 1 = n - 1
    BY <1>1, <1>4
  <2>2. At(n - 2, s) \in Nat /\ At(n - 1, s) = At(n - 2, s) + s
    BY <1>1, <2>1, AtFacts
  <2> QED
    BY <1>1, <2>2
<1> QED
  BY <1>1, <1>2, <1>3, <1>4

\* Before the first pair the row is as it was.
LEMMA HalfNone ==
  ASSUME NEW f, NEW n \in Nat, NEW s, NEW r, r = RowAt(f, n, s) PROVE Half(f, n, s, r, 0)
<1>1. ASSUME NEW j \in 0..(n - 1) PROVE f[At(j, s)] = r[j + 1]
  <2>1. j + 1 \in 1..n /\ (j + 1) - 1 = j
    OBVIOUS
  <2> QED
    BY <2>1 DEF RowAt
<1>2. \A k \in 1..((n + 1) \div 2) : ~(k <= 0)
  OBVIOUS
<1> QED
  BY <1>1, <1>2 DEF Half

\* One iteration of the inner loop hashes one pair.
LEMMA HalfNext ==
  ASSUME NEW f, NEW N, NEW n, NEW s, NEW last, Slots(f, N, n, s, last), n > 1,
         NEW r, IsRow(r, n), NEW q \in Nat, 2 * q < n, Half(f, n, s, r, q)
  PROVE  LET other == At(2 * q + 1, s)
             g == [f EXCEPT ![At(2 * q, s)] = <<@, f[IF other < last THEN other ELSE last]>>]
         IN Half(g, n, s, r, q + 1) /\ Slots(g, N, n, s, last)
<1> DEFINE other == At(2 * q + 1, s)  x == At(2 * q, s)  y == IF other < last THEN other ELSE last
           g == [f EXCEPT ![x] = <<@, f[y]>>]  u == Merkle!RowAbove(r)  m == (n + 1) \div 2
           e(k) == IF 2 * k <= n THEN 2 * k ELSE 2 * k - 1
<1>0. /\ N \in Nat /\ n \in Nat /\ n >= 1 /\ s \in Nat \ {0} /\ last \in 0..(N - 1)
      /\ \A j \in 0..(n - 1) : At(j, s) \in 0..(N - 1) /\ At(j, s) <= last
  BY SlotFacts
<1>1. DOMAIN f = 0..(N - 1) /\ last = At(n - 1, s)
  BY DEF Slots
<1>2. 2 * q \in 0..(n - 1) /\ q + 1 \in 1..m /\ 2 * (q + 1) - 1 = 2 * q + 1 /\ 2 * (q + 1) - 2 = 2 * q
  BY <1>0
<1>3. x \in DOMAIN f
  BY <1>0, <1>1, <1>2
<1>4. g[x] = <<f[x], f[y]>> /\ \A z \in 0..(N - 1) : z # x => g[z] = f[z]
  BY <1>1, <1>3
<1>5. g = [k \in 0..(N - 1) |-> g[k]]
  BY <1>1
<1>6. f[x] = r[2 * q + 1]
  BY <1>2 DEF Half
<1>7. f[y] = r[e(q + 1)]
  <2>1. CASE 2 * q + 1 <= n - 1
    <3>1. 2 * q + 1 \in 0..(n - 1) /\ 2 * q + 1 >= 2 * q /\ (2 * q + 1) + 1 = 2 * (q + 1) /\ 2 * (q + 1) <= n
      BY <1>0, <2>1
    <3>2. other <= last /\ other \in Nat /\ last \in Nat
      BY <1>0, <3>1
    <3>3. y = other
      BY <3>2
    <3>4. f[other] = r[2 * (q + 1)]
      BY <3>1 DEF Half
    <3> QED
      BY <3>1, <3>3, <3>4
  <2>2. CASE ~(2 * q + 1 <= n - 1)
    <3>1. 2 * q = n - 1 /\ 2 * q + 1 = n /\ ~(2 * (q + 1) <= n) /\ n - 1 \in 0..(n - 1) /\ n - 1 >= 2 * q /\ (n - 1) + 1 = n
      BY <1>0, <1>2, <2>2
    <3>2. other = last + s
      <4>1. n - 1 \in Nat /\ other = At((n - 1) + 1, s)
        BY <1>0, <3>1
      <4>2. At((n - 1) + 1, s) = At(n - 1, s) + s
        BY <1>0, <4>1, AtFacts
      <4> QED
        BY <1>1, <4>1, <4>2
    <3>3. ~(other < last)
      BY <1>0, <3>2
    <3>4. y = last
      BY <3>3
    <3>5. f[last] = r[n]
      BY <1>1, <3>1 DEF Half
    <3>6. e(q + 1) = n
      BY <1>2, <3>1
    <3> QED
      BY <3>4, <3>5, <3>6
  <2> QED
    BY <2>1, <2>2
<1>8. u[q + 1] = <<r[2 * q + 1], r[e(q + 1)]>>
  <2>1. \A k \in 1..m : u[k] = <<r[2 * k - 1], r[e(k)]>>
    BY RowAboveFacts
  <2> HIDE DEF u, m, e
  <2> QED
    BY <1>2, <2>1
<1>9. g[x] = u[q + 1]
  BY <1>4, <1>6, <1>7, <1>8
<1> HIDE DEF g, y, e, u
<1>10. ASSUME NEW j \in 0..(n - 1), j # 2 * q PROVE g[At(j, s)] = f[At(j, s)]
  <2>1. At(j, s) # x
    BY <1>0, <1>2, <1>10, AtOrder
  <2>2. At(j, s) \in 0..(N - 1)
    BY <1>0
  <2> HIDE DEF x
  <2> QED
    BY <1>4, <2>1, <2>2
<1>11. ASSUME NEW k \in 1..m, k <= q + 1 PROVE g[At(2 * k - 2, s)] = u[k]
  <2>1. CASE k = q + 1
    BY <1>2, <1>9, <2>1
  <2>2. CASE k # q + 1
    <3>1. 2 * k - 2 \in 0..(n - 1) /\ 2 * k - 2 # 2 * q /\ k <= q
      BY <1>0, <1>11, <2>2
    <3>2. f[At(2 * k - 2, s)] = u[k]
      BY <3>1 DEF Half, u
    <3> QED
      BY <1>10, <3>1, <3>2
  <2> QED
    BY <2>1, <2>2
<1>12. ASSUME NEW j \in 0..(n - 1), j >= 2 * (q + 1) PROVE g[At(j, s)] = r[j + 1]
  <2>1. j >= 2 * q /\ j # 2 * q
    BY <1>12
  <2> QED
    BY <1>10, <2>1 DEF Half
<1>13. Half(g, n, s, r, q + 1)
  BY <1>11, <1>12 DEF Half, u
<1>14. Slots(g, N, n, s, last)
  BY <1>5 DEF Slots
<1> QED
  BY <1>13, <1>14 DEF g, y

\* Numbers of pairs.
LEMMA HalfDown ==
  ASSUME NEW n \in Nat, n > 1, NEW q \in Nat, 2 * q >= n
  PROVE  LET m == (n + 1) \div 2  z == ((n - 1) \div 2) * 2 IN
         m \in Nat \ {0} /\ m < n /\ m <= q /\ z = 2 * (m - 1) /\ z \in 0..(n - 1) /\ m - 1 \in Nat
<1>1. (n + 1) \div 2 = ((n - 1) \div 2) + 1 /\ (n - 1) \div 2 \in Nat
  OBVIOUS
<1>2. ((n - 1) \div 2) * 2 <= n - 1 /\ n - 2 <= ((n - 1) \div 2) * 2
  OBVIOUS
<1> DEFINE d == (n - 1) \div 2
<1>3. d \in Nat /\ d * 2 <= n - 1 /\ n - 2 <= d * 2
  BY <1>1, <1>2
<1> HIDE DEF d
<1>4. d + 1 <= q /\ d + 1 < n
  BY <1>3
<1> QED
  BY <1>1, <1>3, <1>4 DEF d

\* After the last pair the row above stands in every other slot.
LEMMA HalfAll ==
  ASSUME NEW f, NEW N, NEW n, NEW s, NEW last, Slots(f, N, n, s, last), n > 1,
         NEW r, IsRow(r, n), NEW q \in Nat, 2 * q >= n, Half(f, n, s, r, q)
  PROVE  /\ RowAt(f, (n + 1) \div 2, s * 2) = Merkle!RowAbove(r)
         /\ Slots(f, N, (n + 1) \div 2, s * 2, At(((n - 1) \div 2) * 2, s))
<1> DEFINE m == (n + 1) \div 2  u == Merkle!RowAbove(r)  z == ((n - 1) \div 2) * 2
<1>0. /\ N \in Nat \ {0} /\ n \in Nat /\ n >= 1 /\ s \in Nat \ {0} /\ last \in 0..(N - 1) /\ n <= N
      /\ \A j \in 0..(n - 1) : At(j, s) \in 0..(N - 1) /\ At(j, s) <= last
      /\ f = [k \in 0..(N - 1) |-> f[k]]
  BY SlotFacts DEF Slots
<1>1. m \in Nat \ {0} /\ m < n /\ m <= q /\ z = 2 * (m - 1) /\ z \in 0..(n - 1) /\ m - 1 \in Nat
  BY <1>0, HalfDown
<1>2. IsRow(u, m)
  BY RowAboveFacts
<1> HIDE DEF m, z
<1>3. ASSUME NEW k \in 1..m PROVE RowAt(f, m, s * 2)[k] = u[k]
  <2>1. k - 1 \in Nat /\ 2 * (k - 1) = 2 * k - 2 /\ k <= q
    BY <1>0, <1>1, SMTT(30)
  <2>2. At(k - 1, s * 2) = At(2 * k - 2, s)
    BY <1>0, <2>1, AtFacts
  <2>3. f[At(2 * k - 2, s)] = u[k]
    BY <2>1 DEF Half, m
  <2> HIDE DEF u
  <2> QED
    BY <2>2, <2>3 DEF RowAt
<1>4. IsRow(RowAt(f, m, s * 2), m)
  BY <1>1 DEF IsRow, RowAt
<1>5. s * 2 \in Nat \ {0} /\ At(z, s) = At(m - 1, s * 2) /\ At(z, s) <= N - 1 /\ m \in 1..N
  <2>1. s * 2 \in Nat \ {0} /\ m \in 1..N
    BY <1>0, <1>1, SMTT(30)
  <2>2. At(z, s) = At(m - 1, s * 2)
    BY <1>0, <1>1, AtFacts
  <2>3. At(z, s) \in 0..(N - 1)
    BY <1>0, <1>1
  <2> QED
    BY <1>0, <2>1, <2>2, <2>3
<1> HIDE DEF u
<1>6. RowAt(f, m, s * 2) = u
  BY <1>2, <1>3, <1>4, RowsEqual
<1>7. Slots(f, N, m, s * 2, At(z, s))
  BY <1>0, <1>5 DEF Slots
<1> QED
  BY <1>6, <1>7 DEF m, u, z

\* A list with as many members as places has none twice.
LEMMA CountedOnce ==
  ASSUME NEW L, NEW n, IsRow(L, n), Cardinality(ToSet(L)) = Len(L) PROVE NoneTwice(L, n)
<1> DEFINE S == ToSet(L)
<1>1. Len(L) = n /\ DOMAIN L = 1..n /\ n \in Nat
  BY RowLen DEF IsRow
<1>2. S = {L[k] : k \in 1..n}
  BY <1>1 DEF ToSet
<1>3. IsFiniteSet(1..n) /\ Cardinality(1..n) = n
  <2>1. 1 \in Int /\ n \in Int /\ (1 > n => n = 0)
    BY <1>1
  <2>2. IsFiniteSet(1..n) /\ Cardinality(1..n) = IF 1 > n THEN 0 ELSE n - 1 + 1
    BY <2>1, FS_Interval
  <2> QED
    BY <1>1, <2>1, <2>2
<1> HIDE DEF S
<1>4. L \in [1..n -> S]
  BY <1>2 DEF IsRow
<1>5. L \in Surjection(1..n, S)
  BY <1>2, <1>4 DEF Surjection
<1>6. Cardinality(1..n) = Cardinality(S)
  BY <1>1, <1>3 DEF S
<1>7. L \in Injection(1..n, S)
  BY <1>3, <1>5, <1>6, FS_SurjSameCardinalityImpliesInj
<1> QED
  BY <1>1, <1>7 DEF Injection, IsInjective, NoneTwice

\* What the header may commit to is a beginning of the list, or none.
LEMMA CommittedFacts ==
  ASSUME NEW D, txs \in [1..message_size -> D], message_size \in Nat \ {0}, NEW L \in Committed
  PROVE  /\ IsRow(txs, message_size) /\ Len(txs) = message_size
         /\ \/ L = <<>>
            \/ \E n : IsRow(L, n) /\ n <= message_size /\ L[1] = txs[1] /\ NoneTwice(L, n)
<1>1. PICK n \in 0..message_size : L = SubSeq(txs, 1, n)
  BY DEF Committed
<1>2. Cardinality(ToSet(L)) = Len(L)
  BY DEF Committed
<1>3. IsRow(txs, message_size)
  BY DEF IsRow
<1>4. txs \in Seq(D) /\ Len(txs) = message_size
  BY <1>3, RowLen, SeqDef
<1>5. CASE n = 0
  <2>1. SubSeq(txs, 1, 0) = <<>>
    BY <1>4
  <2> QED
    BY <1>1, <1>3, <1>4, <1>5, <2>1
<1>6. CASE n # 0
  <2>1. n \in Nat \ {0} /\ n <= message_size /\ 1 \in 1..n /\ n \in Int /\ 1 \in Int
    BY <1>6
  <2>2. L \in Seq(D) /\ Len(L) = n /\ L[1] = txs[1]
    <3>1. \A k \in 1..n : txs[k] \in D
      BY <2>1
    <3>2. /\ SubSeq(txs, 1, n) \in Seq(D)
          /\ Len(SubSeq(txs, 1, n)) = IF 1 <= n THEN n - 1 + 1 ELSE 0
          /\ \A k \in 1..(n - 1 + 1) : SubSeq(txs, 1, n)[k] = txs[1 + k - 1]
      BY <1>4, <2>1, <3>1, SubSeqProperties
    <3>3. n - 1 + 1 = n /\ 1 + 1 - 1 = 1 /\ 1 <= n
      BY <2>1
    <3> QED
      BY <1>1, <2>1, <3>2, <3>3
  <2>3. IsRow(L, n) /\ L[1] = txs[1]
    <3>1. L \in [1..n -> D]
      BY <2>2, LenProperties
    <3> QED
      BY <2>1, <2>2, <3>1 DEF IsRow
  <2>4. NoneTwice(L, n)
    BY <1>2, <2>3, CountedOnce
  <2> QED
    BY <1>3, <1>4, <2>1, <2>3, <2>4
<1> QED
  BY <1>5, <1>6

\* The fold of a list that is not empty: the nodes of the current row, and of one of which
\* some pairs have been hashed.
Folded ==
  /\ mpc \in {"row", "pair", "accept", "reject"}
  /\ Slots(hashlist, Len(txs), rowSize, stepCount, lastMax)
  /\ mpc = "row" => Kept(RowAt(hashlist, rowSize, stepCount), rowSize, txs, leaves)
  /\ mpc = "pair" => /\ rowSize > 1
                     /\ \E r, q : /\ q \in Nat /\ mi = 2 * q /\ r[rowSize - 1] # r[rowSize]
                                  /\ Kept(r, rowSize, txs, leaves) /\ Half(hashlist, rowSize, stepCount, r, q)
  /\ mpc = "reject" => txs # leaves
  /\ mpc = "accept" /\ HashesApart => txs = leaves

\* The fold of an empty list is over before it has begun.
FoldInv ==
  /\ pc \in {"header", "read", "remove"} => mpc = "off"
  /\ pc = "remove" => Len(txn_data) = message_size
  /\ mpc # "off" /\ txs # <<>> => Folded
  /\ mpc # "off" /\ txs = <<>> => rowSize = 0 /\ mpc # "pair"

\* A step that leaves the fold alone.
LEMMA FoldAlone ==
  ASSUME FoldInv, UNCHANGED <<txs, merkle>>,
         pc' \notin {"header", "read", "remove"} \/ mpc = "off",
         pc' # "remove" \/ Len(txn_data)' = message_size'
  PROVE  FoldInv'
<1>1. UNCHANGED <<txs, leaves, hashlist, rowSize, stepCount, lastMax, mi, mpc>>
  BY DEF merkle
<1>2. Folded => Folded'
  BY <1>1 DEF Folded
<1> QED
  BY <1>1, <1>2 DEF FoldInv

\* merkleRootMatches is called.
LEMMA FoldBegins ==
  ASSUME DecodeInv, FoldInv, pc = "remove", NEW L \in Committed, Merkle!Begin(L), pc' = "merkle"
  PROVE  FoldInv'
<1> DEFINE N == message_size  D == Tx \cup {NoTx}
<1>1. /\ leaves' = L /\ txs' = txs /\ hashlist' = [k \in 0..(Len(txs) - 1) |-> txs[k + 1]]
      /\ rowSize' = Len(txs) /\ stepCount' = 1 /\ lastMax' = Len(txs) - 1 /\ mpc' = "row"
  BY DEF Merkle!Begin, Merkle!txcount
<1>2. txs \in [1..N -> D] /\ N \in Nat
  <2>1. Decoding
    BY DEF Decoding
  <2>2. Len(txn_data) = N
    BY DEF FoldInv
  <2> QED
    BY <2>1, <2>2, DecodeTypes DEF DecodeInv
<1>3. CASE N = 0
  <2>1. txs = <<>> /\ Len(txs) = 0
    BY <1>3, <1>2
  <2> QED
    BY <1>1, <2>1 DEF FoldInv
<1>4. CASE N # 0
  <2>1. /\ IsRow(txs, N) /\ Len(txs) = N
        /\ L = <<>> \/ \E n : IsRow(L, n) /\ n <= N /\ L[1] = txs[1] /\ NoneTwice(L, n)
    BY <1>2, <1>4, CommittedFacts
  <2>2. N \in Nat \ {0} /\ 1 \in 1..N /\ txs[1] \in D
    <3>1. N \in Nat \ {0}
      BY <2>1 DEF IsRow
    <3>2. 1 \in 1..N
      BY <3>1
    <3> QED
      BY <1>2, <3>1, <3>2
  <2>3. Kept(txs, N, txs, L) /\ txs # <<>>
    BY <2>1, <2>2, KeptNone, KeptFirst
  <2>4. RowAt(hashlist', N, 1) = txs
    <3>1. ASSUME NEW k \in 1..N PROVE hashlist'[At(k - 1, 1)] = txs[k]
      <4>1. k - 1 \in 0..(N - 1) /\ k - 1 \in Nat /\ (k - 1) + 1 = k
        BY <2>2
      <4>2. At(k - 1, 1) = k - 1
        BY <4>1, AtFacts
      <4> QED
        BY <1>1, <2>1, <4>1, <4>2
    <3>2. txs = [k \in 1..N |-> txs[k]]
      BY <2>1 DEF IsRow
    <3> QED
      BY <3>1, <3>2 DEF RowAt
  <2>5. Slots(hashlist', N, N, 1, N - 1)
    <3>1. N - 1 \in Nat /\ N \in 1..N /\ N - 1 <= N - 1 /\ 1 \in Nat \ {0}
      BY <2>2
    <3>2. At(N - 1, 1) = N - 1
      BY <3>1, AtFacts
    <3>3. hashlist' = [k \in 0..(N - 1) |-> hashlist'[k]]
      BY <1>1, <2>1
    <3> QED
      BY <2>2, <3>1, <3>2, <3>3 DEF Slots
  <2>6. /\ mpc' = "row" /\ pc' = "merkle"
        /\ Slots(hashlist', Len(txs'), rowSize', stepCount', lastMax')
        /\ Kept(RowAt(hashlist', rowSize', stepCount'), rowSize', txs', leaves')
    BY <1>1, <2>1, <2>3, <2>4, <2>5
  <2> QED
    BY <1>1, <2>3, <2>6 DEF FoldInv, Folded
<1> QED
  BY <1>3, <1>4

\* The last two nodes of a row are compared.
LEMMA FoldChecks ==
  ASSUME Folded, Merkle!CheckRow PROVE Folded'
<1> DEFINE r == RowAt(hashlist, rowSize, stepCount)
<1>1. /\ mpc = "row" /\ rowSize > 1 /\ mi' = 0
      /\ mpc' = IF hashlist[lastMax - stepCount] = hashlist[lastMax] THEN "reject" ELSE "pair"
      /\ UNCHANGED <<leaves, txs, hashlist, rowSize, stepCount, lastMax>>
  BY DEF Merkle!CheckRow
<1>2. Slots(hashlist, Len(txs), rowSize, stepCount, lastMax) /\ Kept(r, rowSize, txs, leaves)
  BY <1>1 DEF Folded
<1>3. /\ rowSize \in Nat /\ lastMax - stepCount = At(rowSize - 2, stepCount)
      /\ lastMax = At(rowSize - 1, stepCount)
  <2>1. rowSize \in Nat /\ (rowSize > 1 => lastMax - stepCount = At(rowSize - 2, stepCount))
    BY <1>2, SlotFacts
  <2>2. lastMax = At(rowSize - 1, stepCount)
    BY <1>2 DEF Slots
  <2> QED
    BY <1>1, <2>1, <2>2
<1>4. r[rowSize - 1] = hashlist[lastMax - stepCount] /\ r[rowSize] = hashlist[lastMax]
  <2>1. rowSize - 1 \in 1..rowSize /\ rowSize \in 1..rowSize /\ (rowSize - 1) - 1 = rowSize - 2
    BY <1>1, <1>3
  <2> QED
    BY <1>3, <2>1 DEF RowAt
<1>5. CASE hashlist[lastMax - stepCount] = hashlist[lastMax]
  <2>1. mpc' = "reject"
    BY <1>1, <1>5
  <2>2. txs # leaves
    <3> SUFFICES ASSUME txs = leaves PROVE FALSE
      OBVIOUS
    <3>1. NoneTwice(r, rowSize)
      BY <1>2 DEF Kept
    <3>2. rowSize - 1 \in 1..rowSize /\ rowSize \in 1..rowSize /\ rowSize - 1 # rowSize
      BY <1>1, <1>3
    <3> HIDE DEF r
    <3> QED
      BY <1>4, <1>5, <3>1, <3>2 DEF NoneTwice
  <2> QED
    BY <1>1, <1>2, <2>1, <2>2 DEF Folded
<1>6. CASE hashlist[lastMax - stepCount] # hashlist[lastMax]
  <2>1. mpc' = "pair"
    BY <1>1, <1>6
  <2>2. Half(hashlist, rowSize, stepCount, r, 0) /\ 0 \in Nat /\ 0 = 2 * 0
    BY <1>3, HalfNone
  <2>3. r[rowSize - 1] # r[rowSize]
    BY <1>4, <1>6
  <2> HIDE DEF r
  <2>4. \E x, q : /\ q \in Nat /\ mi' = 2 * q /\ x[rowSize' - 1] # x[rowSize']
                  /\ Kept(x, rowSize', txs', leaves') /\ Half(hashlist', rowSize', stepCount', x, q)
    BY <1>1, <1>2, <2>2, <2>3
  <2> QED
    BY <1>1, <1>2, <2>1, <2>4 DEF Folded
<1> QED
  BY <1>5, <1>6

\* A pair is hashed.
LEMMA FoldHashes ==
  ASSUME Folded, Merkle!HashPair PROVE Folded'
<1> DEFINE other == At(mi + 1, stepCount)
<1>1. /\ mpc = "pair" /\ mi < rowSize /\ mi' = mi + 2 /\ mpc' = "pair"
      /\ hashlist' = [hashlist EXCEPT ![At(mi, stepCount)] =
                        <<@, hashlist[IF other < lastMax THEN other ELSE lastMax]>>]
      /\ UNCHANGED <<leaves, txs, rowSize, stepCount, lastMax>>
  BY DEF Merkle!HashPair, Merkle!Hash, At
<1>2. Slots(hashlist, Len(txs), rowSize, stepCount, lastMax) /\ rowSize > 1
  BY <1>1 DEF Folded
<1>3. PICK r, q : /\ q \in Nat /\ mi = 2 * q /\ r[rowSize - 1] # r[rowSize]
                  /\ Kept(r, rowSize, txs, leaves) /\ Half(hashlist, rowSize, stepCount, r, q)
  BY <1>1 DEF Folded
<1>4. IsRow(r, rowSize) /\ 2 * q < rowSize
  BY <1>1, <1>3 DEF Kept
<1>5. /\ Half(hashlist', rowSize, stepCount, r, q + 1)
      /\ Slots(hashlist', Len(txs), rowSize, stepCount, lastMax)
  <2> DEFINE o == At(2 * q + 1, stepCount)
             g == [hashlist EXCEPT ![At(2 * q, stepCount)] =
                     <<@, hashlist[IF o < lastMax THEN o ELSE lastMax]>>]
  <2>1. Half(g, rowSize, stepCount, r, q + 1) /\ Slots(g, Len(txs), rowSize, stepCount, lastMax)
    BY <1>2, <1>3, <1>4, HalfNext
  <2>2. hashlist' = g
    BY <1>1, <1>3
  <2> HIDE DEF g
  <2> QED
    BY <2>1, <2>2
<1>6. q + 1 \in Nat /\ mi' = 2 * (q + 1)
  BY <1>1, <1>3
<1>7. \E x, y : /\ y \in Nat /\ mi' = 2 * y /\ x[rowSize' - 1] # x[rowSize']
                /\ Kept(x, rowSize', txs', leaves') /\ Half(hashlist', rowSize', stepCount', x, y)
  BY <1>1, <1>3, <1>5, <1>6
<1> QED
  BY <1>1, <1>2, <1>5, <1>7 DEF Folded

\* The row is done.
LEMMA FoldClimbs ==
  ASSUME Folded, Merkle!NextRow PROVE Folded'
<1>1. /\ mpc = "pair" /\ mi >= rowSize /\ mpc' = "row" /\ lastMax' = At(((rowSize - 1) \div 2) * 2, stepCount)
      /\ stepCount' = stepCount * 2 /\ rowSize' = (rowSize + 1) \div 2
      /\ UNCHANGED <<leaves, txs, hashlist, mi>>
  BY DEF Merkle!NextRow, At
<1>2. Slots(hashlist, Len(txs), rowSize, stepCount, lastMax) /\ rowSize > 1
  BY <1>1 DEF Folded
<1>3. PICK r, q : /\ q \in Nat /\ mi = 2 * q /\ r[rowSize - 1] # r[rowSize]
                  /\ Kept(r, rowSize, txs, leaves) /\ Half(hashlist, rowSize, stepCount, r, q)
  BY <1>1 DEF Folded
<1>4. IsRow(r, rowSize) /\ 2 * q >= rowSize
  BY <1>1, <1>3 DEF Kept
<1> DEFINE m == (rowSize + 1) \div 2  l == At(((rowSize - 1) \div 2) * 2, stepCount)
<1>5. /\ RowAt(hashlist, m, stepCount * 2) = Merkle!RowAbove(r)
      /\ Slots(hashlist, Len(txs), m, stepCount * 2, l)
  BY <1>2, <1>3, <1>4, HalfAll
<1>6. Kept(Merkle!RowAbove(r), m, txs, leaves)
  BY <1>2, <1>3, KeptAbove
<1>7. /\ Slots(hashlist', Len(txs'), rowSize', stepCount', lastMax')
      /\ Kept(RowAt(hashlist', rowSize', stepCount'), rowSize', txs', leaves')
  BY <1>1, <1>5, <1>6
<1> QED
  BY <1>1, <1>7 DEF Folded

\* The root is compared.
LEMMA FoldEnds ==
  ASSUME Folded, Merkle!Compare PROVE Folded'
<1> DEFINE r == RowAt(hashlist, rowSize, stepCount)
<1>1. /\ mpc = "row" /\ rowSize = 1
      /\ mpc' = IF leaves # <<>> /\ hashlist[0] = Merkle!Root(leaves) THEN "accept" ELSE "reject"
      /\ UNCHANGED <<leaves, txs, hashlist, rowSize, stepCount, lastMax, mi>>
  BY DEF Merkle!Compare
<1>2. Slots(hashlist, Len(txs), rowSize, stepCount, lastMax) /\ Kept(r, rowSize, txs, leaves)
  BY <1>1 DEF Folded
<1>3. r[1] = hashlist[0]
  <2>1. 1 \in 1..1 /\ 1 - 1 = 0
    OBVIOUS
  <2>2. At(0, stepCount) = 0
    BY <1>2, AtFacts DEF Slots
  <2> QED
    BY <1>1, <2>1, <2>2 DEF RowAt
<1> HIDE DEF r
<1>4. /\ leaves = txs => r[1] = Merkle!Root(leaves)
      /\ HashesApart /\ leaves # <<>> /\ r[1] = Merkle!Root(leaves) => leaves = txs
  BY <1>1, <1>2, KeptLast
<1>5. CASE leaves # <<>> /\ hashlist[0] = Merkle!Root(leaves)
  <2>1. mpc' = "accept" /\ (HashesApart => txs = leaves)
    BY <1>1, <1>3, <1>4, <1>5
  <2> QED
    BY <1>1, <1>2, <2>1 DEF Folded
<1>6. CASE hashlist[0] # Merkle!Root(leaves)
  <2>1. mpc' = "reject" /\ txs # leaves
    BY <1>1, <1>3, <1>4, <1>6
  <2> QED
    BY <1>1, <1>2, <2>1 DEF Folded
<1>7. CASE leaves = <<>>
  <2>1. txs # <<>>
    <3>1. Len(txs) \in Nat \ {0}
      BY <1>2 DEF Slots
    <3>2. Len(<<>>) = 0
      OBVIOUS
    <3> QED
      BY <3>1, <3>2
  <2>2. mpc' = "reject" /\ txs # leaves
    BY <1>1, <1>7, <2>1
  <2> QED
    BY <1>1, <1>2, <2>2 DEF Folded
<1> QED
  BY <1>5, <1>6, <1>7

\* So it is after every step of merkleRootMatches, of a list that is empty or not.
LEMMA FoldGoesOn ==
  ASSUME FoldInv, pc = "merkle", UNCHANGED pc, Merkle!Step PROVE FoldInv'
<1>1. mpc # "off" /\ txs' = txs
  BY MerkleSteps DEF Merkle!Step, Merkle!CheckRow, Merkle!HashPair, Merkle!NextRow, Merkle!Compare,
                     Merkle!CompareNothing
<1>2. CASE txs # <<>>
  <2>1. Folded
    BY <1>1, <1>2 DEF FoldInv
  <2>2. ~Merkle!CompareNothing
    <3>1. rowSize # 0
      BY <2>1, SlotFacts DEF Folded
    <3> QED
      BY <3>1 DEF Merkle!CompareNothing
  <2>3. Folded'
    BY <2>1, <2>2, FoldChecks, FoldHashes, FoldClimbs, FoldEnds DEF Merkle!Step
  <2> QED
    BY <1>1, <1>2, <2>3 DEF FoldInv
<1>3. CASE txs = <<>>
  <2>1. rowSize = 0 /\ mpc # "pair"
    BY <1>1, <1>3 DEF FoldInv
  <2>2. ~(0 > 1) /\ 0 # 1
    OBVIOUS
  <2>3. Merkle!CompareNothing
    BY <2>1, <2>2 DEF Merkle!Step, Merkle!CheckRow, Merkle!HashPair, Merkle!NextRow, Merkle!Compare
  <2>4. rowSize' = 0 /\ mpc' \in {"accept", "reject", "crash"}
    BY <2>1, <2>3 DEF Merkle!CompareNothing
  <2> QED
    BY <1>1, <1>3, <2>4 DEF FoldInv
<1> QED
  BY <1>2, <1>3

\* Whatever list the header commits to, the fold is as FoldInv says.
LEMMA FoldInvariance == DecompressorSpec => []FoldInv
<1>1. DecompressorInit => FoldInv
  BY DEF DecompressorInit, Merkle!Off, FoldInv
<1>2. DecodeInv /\ FoldInv /\ [DecompressorNext]_decompressor_vars => FoldInv'
  <2> SUFFICES ASSUME DecodeInv, FoldInv, [DecompressorNext]_decompressor_vars PROVE FoldInv'
    OBVIOUS
  <2>0. /\ pc \in {"header", "read", "remove"} => mpc = "off"
        /\ pc = "remove" => Len(txn_data) = message_size
    BY DEF FoldInv
  <2>1. CASE Header
    <3>1. UNCHANGED <<txs, merkle>> /\ pc = "header" /\ pc' \in {"failed", "read"}
      BY <2>1 DEF Header, Fail
    <3> QED
      BY <2>0, <3>1, FoldAlone
  <2>2. CASE ReadEntry
    <3>1. UNCHANGED <<txs, merkle>> /\ pc = "read" /\ pc' \in {"failed", "read"}
      BY <2>2 DEF ReadEntry, Fail
    <3> QED
      BY <2>0, <3>1, FoldAlone
  <2>3. CASE Sort
    <3>1. /\ pc = "read" /\ pc' = "remove" /\ Len(txn_data) = message_size
          /\ UNCHANGED <<txn_data, message_size, merkle>>
      BY <2>3 DEF Sort
    <3>2. mpc = "off" /\ mpc' = "off"
      BY <2>0, <3>1 DEF merkle
    <3> QED
      BY <3>1, <3>2 DEF FoldInv
  <2>4. CASE RemoveNext
    <3>1. /\ pc = "remove" /\ pc' \in {"failed", "remove"} /\ UNCHANGED <<txn_data, message_size, merkle>>
      BY <2>4 DEF RemoveNext, Fail
    <3>2. mpc = "off" /\ mpc' = "off"
      BY <2>0, <3>1 DEF merkle
    <3> QED
      BY <2>0, <3>1, <3>2 DEF FoldInv
  <2>5. CASE Assemble
    <3>1. /\ pc = "remove"
          /\ \/ pc' = "done" /\ UNCHANGED <<txs, merkle>>
             \/ pc' = "merkle" /\ \E L \in Committed : Merkle!Begin(L)
      BY <2>5 DEF Assemble
    <3>2. CASE pc' = "done" /\ UNCHANGED <<txs, merkle>>
      BY <2>0, <3>1, <3>2, FoldAlone
    <3>3. CASE pc' = "merkle" /\ \E L \in Committed : Merkle!Begin(L)
      BY <3>1, <3>3, FoldBegins
    <3> QED
      BY <3>1, <3>2, <3>3
  <2>6. CASE MerkleStep
    <3>1. pc = "merkle" /\ UNCHANGED pc /\ Merkle!Step
      BY <2>6 DEF MerkleStep
    <3> QED
      BY <3>1, FoldGoesOn
  <2>7. CASE Verdict
    <3>1. UNCHANGED <<txs, merkle>> /\ pc' \in {"done", "failed"}
      BY <2>7 DEF Verdict, Fail
    <3> QED
      BY <3>1, FoldAlone
  <2>8. CASE UNCHANGED decompressor_vars
    <3>1. UNCHANGED <<txs, merkle>> /\ UNCHANGED <<pc, txn_data, message_size>>
      BY <2>8 DEF decompressor_vars
    <3> QED
      BY <2>0, <3>1, FoldAlone
  <2> QED
    BY <2>1, <2>2, <2>3, <2>4, <2>5, <2>6, <2>7, <2>8 DEF DecompressorNext
<1> QED
  BY <1>1, <1>2, DecodeInvariance, PTL DEF DecompressorSpec

\* The fold of a list of at least one transaction reads and writes no slot outside it: neither
\* the inner loop, nor the comparison of the last two nodes, nor that with the header's root
\* does (relayprocess.cpp:91-101).  Of an empty list the last one does.
THEOREM FoldStaysInside == DecompressorSpec => []SlotsInRange
<1>1. FoldInv => SlotsInRange
  <2> SUFFICES ASSUME FoldInv PROVE SlotsInRange
    OBVIOUS
  <2>1. CASE mpc = "off" \/ txs = <<>>
    BY <2>1 DEF SlotsInRange, Merkle!SlotsInRange
  <2>2. CASE mpc # "off" /\ txs # <<>>
    <3>0. Folded
      BY <2>2 DEF FoldInv
    <3>1. Slots(hashlist, Len(txs), rowSize, stepCount, lastMax) /\ mpc # "crash"
      BY <3>0 DEF Folded
    <3>2. /\ Len(txs) \in Nat /\ rowSize \in Nat /\ stepCount \in Nat \ {0} /\ lastMax \in 0..(Len(txs) - 1)
          /\ \A j \in 0..(rowSize - 1) : At(j, stepCount) \in 0..(Len(txs) - 1) /\ At(j, stepCount) <= lastMax
          /\ rowSize > 1 => lastMax - stepCount = At(rowSize - 2, stepCount)
      BY <3>1, SlotFacts
    <3>3. rowSize \in 1..Len(txs)
      BY <3>1 DEF Slots
    <3>4. ASSUME rowSize > 1 PROVE lastMax - stepCount >= 0
      <4>1. rowSize - 2 \in 0..(rowSize - 1)
        BY <3>2, <3>4
      <4>2. At(rowSize - 2, stepCount) \in 0..(Len(txs) - 1)
        BY <3>2, <4>1
      <4> QED
        BY <3>2, <3>4, <4>2
    <3>5. ASSUME mpc = "pair", mi < rowSize PROVE mi * stepCount \in 0..lastMax
      <4>1. PICK q \in Nat : mi = 2 * q
        BY <3>0, <3>5 DEF Folded
      <4>2. mi \in 0..(rowSize - 1)
        BY <3>2, <3>5, <4>1
      <4>3. At(mi, stepCount) \in 0..(Len(txs) - 1) /\ At(mi, stepCount) <= lastMax
        BY <3>2, <4>2
      <4>4. At(mi, stepCount) \in 0..lastMax
        BY <3>2, <4>3
      <4> QED
        BY <4>4 DEF At
    <3> QED
      BY <3>1, <3>2, <3>3, <3>4, <3>5 DEF SlotsInRange, Merkle!SlotsInRange, Merkle!txcount
  <2> QED
    BY <2>1, <2>2
<1> QED
  BY <1>1, FoldInvariance, PTL

\* Each row that the fold of a list that is not empty starts with stands where the loop looks
\* for it and has the merkle root of the whole list (relayprocess.cpp:94-99).
THEOREM RootKept == DecompressorSpec => []RowKeepsRoot
<1>1. FoldInv => RowKeepsRoot
  <2> SUFFICES ASSUME FoldInv, mpc = "row", txs # <<>>
               PROVE  /\ lastMax = (rowSize - 1) * stepCount
                      /\ Merkle!Root([k \in 1..rowSize |-> hashlist[(k - 1) * stepCount]]) = Merkle!Root(txs)
    BY DEF RowKeepsRoot, Merkle!RowKeepsRoot
  <2>0. Folded
    BY DEF FoldInv
  <2>1. lastMax = At(rowSize - 1, stepCount)
    BY <2>0 DEF Folded, Slots
  <2>2. Merkle!Root(RowAt(hashlist, rowSize, stepCount)) = Merkle!Root(txs)
    BY <2>0 DEF Folded, Kept
  <2> QED
    BY <2>1, <2>2 DEF At, RowAt
<1> QED
  BY <1>1, FoldInvariance, PTL

\* If no transaction is the hash of two nodes, the check accepts the list the header commits
\* to, whatever its length from one on, and no other list but the empty one, for which the
\* comparison is undefined (relayprocess.cpp:90-101).
THEOREM TheBlockOnly == ASSUME HashesApart PROVE DecompressorSpec => []OnlyTheBlock
<1>1. FoldInv => OnlyTheBlock
  BY DEF FoldInv, Folded, OnlyTheBlock, Merkle!OnlyTheBlock
<1> QED
  BY <1>1, FoldInvariance, PTL

----------------------------------------------------------------------------
(***************************************************************************)
(* What a root commits to.                                                 *)
(***************************************************************************)

\* Row a is a beginning of row r.
Begins(a, l, r, n) == l <= n /\ \A k \in 1..l : a[k] = r[k]

\* If a row has no repetition and the row above it begins another one's, so does it.
LEMMA BeginsBelow ==
  ASSUME NEW a, NEW l, NEW r, NEW n, IsRow(a, l), IsRow(r, n), l > 1, n > 1, NoneTwice(a, l),
         Begins(Merkle!RowAbove(a), (l + 1) \div 2, Merkle!RowAbove(r), (n + 1) \div 2)
  PROVE  Begins(a, l, r, n)
<1> DEFINE p == (l + 1) \div 2  m == (n + 1) \div 2  v == Merkle!RowAbove(a)  u == Merkle!RowAbove(r)
           q(k) == IF 2 * k <= l THEN 2 * k ELSE 2 * k - 1
           w(k) == IF 2 * k <= n THEN 2 * k ELSE 2 * k - 1
<1>0. l \in Nat /\ n \in Nat
  BY DEF IsRow
<1>1. p \in 1..(l - 1) /\ \A k \in 1..p : v[k] = <<a[2 * k - 1], a[q(k)]>>
  BY RowAboveFacts
<1>2. m \in 1..(n - 1) /\ \A k \in 1..m : u[k] = <<r[2 * k - 1], r[w(k)]>>
  BY RowAboveFacts
<1>3. p <= m /\ \A k \in 1..p : v[k] = u[k]
  BY DEF Begins
<1>4. ASSUME NEW k \in 1..p PROVE a[2 * k - 1] = r[2 * k - 1] /\ a[q(k)] = r[w(k)]
  <2>1. k \in 1..m
    BY <1>0, <1>1, <1>2, <1>3
  <2>2. v[k] = <<a[2 * k - 1], a[q(k)]>> /\ u[k] = <<r[2 * k - 1], r[w(k)]>> /\ v[k] = u[k]
    BY <1>1, <1>2, <1>3, <2>1
  <2> HIDE DEF u, v, q, w, p, m
  <2> QED
    BY <2>2
<1>5. ASSUME NEW k \in 1..p, 2 * k <= l PROVE 2 * k <= n
  <2> SUFFICES ASSUME ~(2 * k <= n) PROVE FALSE
    OBVIOUS
  <2>1. q(k) = 2 * k /\ w(k) = 2 * k - 1
    BY <1>5
  <2>2. a[2 * k] = a[2 * k - 1]
    BY <1>4, <2>1
  <2>3. 2 * k \in 1..l /\ 2 * k - 1 \in 1..l /\ 2 * k # 2 * k - 1
    BY <1>0, <1>5
  <2> QED
    BY <2>2, <2>3 DEF NoneTwice
<1>6. ASSUME NEW j \in 1..l PROVE j <= n /\ a[j] = r[j]
  <2>1. PICK k \in 1..p : j = 2 * k - 1 \/ j = 2 * k
    <3>1. (j + 1) \div 2 \in 1..p /\ (j = 2 * ((j + 1) \div 2) - 1 \/ j = 2 * ((j + 1) \div 2))
      BY <1>0
    <3> QED
      BY <3>1
  <2>2. CASE j = 2 * k - 1
    <3>1. k \in Nat /\ k <= m
      BY <1>0, <1>1, <1>2, <1>3
    <3>2. 2 * m <= n + 1
      BY <1>0, HalfUp
    <3> HIDE DEF m
    <3>3. m \in Nat
      BY <1>2, <1>0
    <3>4. j <= n
      BY <1>0, <2>2, <3>1, <3>2, <3>3
    <3> QED
      BY <1>4, <2>2, <3>4
  <2>3. CASE j = 2 * k
    <3>1. 2 * k <= l /\ 2 * k <= n
      BY <1>5, <2>3
    <3>2. q(k) = 2 * k /\ w(k) = 2 * k
      BY <3>1
    <3> QED
      BY <1>4, <2>3, <3>1, <3>2
  <2> QED
    BY <2>1, <2>2, <2>3
<1>7. l \in 1..l
  BY <1>0
<1> QED
  BY <1>6, <1>7 DEF Begins

\* A row a without repetition that does not begin row r, which is as high unless one of
\* them is a root already.
Parted(a, l, r, n) ==
  /\ IsRow(a, l) /\ IsRow(r, n) /\ NoneTwice(a, l) /\ ~Begins(a, l, r, n)
  /\ \E g, h \in Nat : /\ Above(a[1], g) /\ Above(r[1], h)
                       /\ l = 1 /\ n > 1 => g <= h
                       /\ l > 1 /\ n = 1 => h <= g
                       /\ l > 1 /\ n > 1 => g = h

\* The length of the row above.
UpLen(n) == IF n = 1 THEN 1 ELSE (n + 1) \div 2

\* The row above as such, and how high it is.
LEMMA UpFacts ==
  ASSUME NEW r, NEW n, IsRow(r, n), NEW h \in Nat, Above(r[1], h)
  PROVE  /\ IsRow(Merkle!RowAbove(r), UpLen(n)) /\ UpLen(n) \in Nat \ {0}
         /\ n = 1 => Merkle!RowAbove(r) = r
         /\ n # 1 => UpLen(n) < n /\ Above(Merkle!RowAbove(r)[1], h + 1)
<1>0. n \in Nat \ {0}
  BY DEF IsRow
<1>1. CASE n = 1
  BY <1>1, RowAboveOne DEF UpLen
<1>2. CASE n # 1
  <2> DEFINE u == Merkle!RowAbove(r)  m == (n + 1) \div 2
  <2>0. n > 1
    BY <1>0, <1>2
  <2>1. /\ IsRow(u, m) /\ m \in 1..(n - 1)
        /\ \A k \in 1..m : u[k] = <<r[2 * k - 1], r[IF 2 * k <= n THEN 2 * k ELSE 2 * k - 1]>>
    BY <2>0, RowAboveFacts
  <2>2. 1 \in 1..m /\ 2 * 1 - 1 = 1 /\ m \in Nat \ {0} /\ m < n
    BY <1>0, <2>1
  <2>3. PICK y : u[1] = <<r[1], y>>
    BY <2>1, <2>2
  <2>4. Above(u[1], h + 1)
    BY <2>3, AboveUp
  <2> HIDE DEF u, m
  <2>5. UpLen(n) = m
    BY <1>2 DEF UpLen, m
  <2> QED
    BY <1>2, <2>1, <2>2, <2>4, <2>5 DEF u
<1> QED
  BY <1>1, <1>2

\* Rows that have parted stay so.
LEMMA PartedAbove ==
  ASSUME HashesApart, NEW a, NEW l, NEW r, NEW n, Parted(a, l, r, n), l # 1 \/ n # 1
  PROVE  Parted(Merkle!RowAbove(a), UpLen(l), Merkle!RowAbove(r), UpLen(n))
<1> DEFINE v == Merkle!RowAbove(a)  u == Merkle!RowAbove(r)  p == UpLen(l)  m == UpLen(n)
<1>0. /\ IsRow(a, l) /\ IsRow(r, n) /\ NoneTwice(a, l) /\ ~Begins(a, l, r, n)
      /\ l \in Nat \ {0} /\ n \in Nat \ {0}
  BY DEF Parted, IsRow
<1>1. PICK g \in Nat, h \in Nat : /\ Above(a[1], g) /\ Above(r[1], h)
                                  /\ l = 1 /\ n > 1 => g <= h
                                  /\ l > 1 /\ n = 1 => h <= g
                                  /\ l > 1 /\ n > 1 => g = h
  BY DEF Parted
<1>2. /\ IsRow(v, p) /\ p \in Nat \ {0}
      /\ l = 1 => v = a
      /\ l # 1 => p < l /\ Above(v[1], g + 1)
  BY <1>0, <1>1, UpFacts
<1>3. /\ IsRow(u, m) /\ m \in Nat \ {0}
      /\ n = 1 => u = r
      /\ n # 1 => m < n /\ Above(u[1], h + 1)
  BY <1>0, <1>1, UpFacts
<1>4. NoneTwice(v, p)
  <2>1. CASE l = 1
    BY <1>0, <1>2, <2>1 DEF p, UpLen
  <2>2. CASE l # 1
    <3>1. l > 1
      BY <1>0, <2>2
    <3> QED
      BY <1>0, <2>2, <3>1, NoneTwiceAbove DEF UpLen
  <2> QED
    BY <2>1, <2>2
<1>5. g + 1 \in Nat /\ h + 1 \in Nat
  OBVIOUS
<1> HIDE DEF u, v, p, m
<1>6. ASSUME v[1] # u[1] PROVE ~Begins(v, p, u, m)
  <2>1. 1 \in 1..p
    BY <1>2
  <2> QED
    BY <1>6, <2>1 DEF Begins
<1>7. CASE l = 1
  <2>0. n # 1 /\ n > 1 /\ p = 1 /\ v = a /\ Above(u[1], h + 1) /\ g <= h
    BY <1>0, <1>1, <1>2, <1>3, <1>7 DEF p, UpLen
  <2>1. v[1] # u[1]
    <3>1. g < h + 1 /\ Above(v[1], g)
      BY <1>1, <2>0
    <3> QED
      BY <1>1, <1>5, <2>0, <3>1, AboveOnce
  <2>2. g <= h + 1 /\ Above(v[1], g) /\ ~(p > 1)
    BY <1>1, <2>0
  <2> QED
    BY <1>2, <1>3, <1>4, <1>5, <1>6, <2>0, <2>1, <2>2 DEF Parted, u, v, p, m
<1>8. CASE n = 1
  <2>0. l # 1 /\ l > 1 /\ m = 1 /\ u = r /\ Above(v[1], g + 1) /\ h <= g
    BY <1>0, <1>1, <1>2, <1>3, <1>8 DEF m, UpLen
  <2>1. v[1] # u[1]
    <3>1. h < g + 1 /\ Above(u[1], h)
      BY <1>1, <2>0
    <3> QED
      BY <1>1, <1>5, <2>0, <3>1, AboveOnce
  <2>2. h <= g + 1 /\ Above(u[1], h) /\ ~(m > 1)
    BY <1>1, <2>0
  <2> QED
    BY <1>2, <1>3, <1>4, <1>5, <1>6, <2>0, <2>1, <2>2 DEF Parted, u, v, p, m
<1>9. CASE l # 1 /\ n # 1
  <2>0. l > 1 /\ n > 1 /\ Above(v[1], g + 1) /\ Above(u[1], h + 1) /\ g = h
    BY <1>0, <1>1, <1>2, <1>3, <1>9
  <2>1. ~Begins(v, p, u, m)
    BY <1>0, <1>9, <2>0, BeginsBelow DEF u, v, p, m, UpLen
  <2>2. g + 1 <= h + 1 /\ h + 1 <= g + 1 /\ g + 1 = h + 1
    BY <2>0
  <2> QED
    BY <1>2, <1>3, <1>4, <1>5, <2>0, <2>1, <2>2 DEF Parted, u, v, p, m
<1> QED
  BY <1>7, <1>8, <1>9

\* They have different roots.
LEMMA PartedRoots ==
  ASSUME HashesApart, NEW a, NEW l, NEW r, NEW n, Parted(a, l, r, n)
  PROVE  Merkle!Root(a) # Merkle!Root(r)
<1> DEFINE P(k) == \A b, i, s, j : Parted(b, i, s, j) /\ i <= k /\ j <= k => Merkle!Root(b) # Merkle!Root(s)
           S == {k \in Nat : P(k)}
<1>1. 0 \in S
  <2>1. ASSUME NEW b, NEW i, NEW s, NEW j, Parted(b, i, s, j), i <= 0 PROVE FALSE
    BY <2>1 DEF Parted, IsRow
  <2> QED
    BY <2>1
<1>2. ASSUME NEW k \in Nat, k \in S PROVE k + 1 \in S
  <2>1. ASSUME NEW b, NEW i, NEW s, NEW j, Parted(b, i, s, j), i <= k + 1, j <= k + 1
        PROVE  Merkle!Root(b) # Merkle!Root(s)
    <3>0. IsRow(b, i) /\ IsRow(s, j) /\ i \in Nat \ {0} /\ j \in Nat \ {0} /\ ~Begins(b, i, s, j)
      BY <2>1 DEF Parted, IsRow
    <3>1. CASE i = 1 /\ j = 1
      <4>1. Merkle!Root(b) = b[1] /\ Merkle!Root(s) = s[1]
        BY <3>0, <3>1, RootOne
      <4>2. b[1] # s[1]
        BY <3>0, <3>1 DEF Begins
      <4> QED
        BY <4>1, <4>2
    <3>2. CASE i # 1 \/ j # 1
      <4> DEFINE v == Merkle!RowAbove(b)  u == Merkle!RowAbove(s)  p == UpLen(i)  m == UpLen(j)
      <4>1. Parted(v, p, u, m)
        BY <2>1, <3>2, PartedAbove
      <4>2. PICK g \in Nat, h \in Nat : Above(b[1], g) /\ Above(s[1], h)
        BY <2>1 DEF Parted
      <4>3. p \in Nat /\ (i # 1 => p < i)
        BY <3>0, <4>2, UpFacts
      <4>4. m \in Nat /\ (j # 1 => m < j)
        BY <3>0, <4>2, UpFacts
      <4>5. (i = 1 => p = 1) /\ (j = 1 => m = 1)
        BY DEF UpLen
      <4> HIDE DEF p, m
      <4>6. p <= k /\ m <= k
        BY <2>1, <3>0, <3>2, <4>3, <4>4, <4>5
      <4>7. Merkle!Root(v) # Merkle!Root(u)
        BY <1>2, <4>1, <4>6
      <4>8. Merkle!Root(v) = Merkle!Root(b) /\ Merkle!Root(u) = Merkle!Root(s)
        BY <3>0, RootAbove
      <4> QED
        BY <4>7, <4>8
    <3> QED
      BY <3>1, <3>2
  <2> QED
    BY <2>1
<1> HIDE DEF S
<1>3. \A k \in Nat : k \in S
  BY <1>1, <1>2, SetInduction
<1>4. l \in Nat /\ n \in Nat /\ l <= l + n /\ n <= l + n /\ l + n \in Nat
  BY DEF Parted, IsRow
<1>5. l + n \in S
  BY <1>3, <1>4
<1> QED
  BY <1>4, <1>5 DEF S

\* If no transaction is the hash of two nodes, a list without repetition that has the merkle
\* root of another list is a beginning of it.  So the header of a block commits to one list of
\* distinct transactions, and of all the lists with that root the others only go on after its
\* end: what merkleRootMatches has to refuse beside a wrong root (relayprocess.cpp:77-101).
THEOREM RootCommits ==
  ASSUME HashesApart, NEW L \in Seq(Tx), NEW w \in Seq(Tx), L # <<>>, w # <<>>, IsInjective(L),
         Merkle!Root(L) = Merkle!Root(w)
  PROVE  Len(L) <= Len(w) /\ L = SubSeq(w, 1, Len(L))
<1> DEFINE l == Len(L)  n == Len(w)
<1>1. l \in Nat \ {0} /\ n \in Nat \ {0} /\ DOMAIN L = 1..l /\ DOMAIN w = 1..n /\ 1 \in 1..l /\ 1 \in 1..n
  BY EmptySeq
<1>2. IsRow(L, l) /\ IsRow(w, n)
  <2>1. L \in [1..l -> Tx] /\ w \in [1..n -> Tx]
    BY LenProperties
  <2> QED
    BY <1>1, <2>1 DEF IsRow
<1>3. NoneTwice(L, l)
  BY <1>1 DEF IsInjective, NoneTwice
<1>4. Above(L[1], 0) /\ Above(w[1], 0)
  BY <1>1, AboveNone
<1>5. Begins(L, l, w, n)
  <2> SUFFICES ASSUME ~Begins(L, l, w, n) PROVE FALSE
    OBVIOUS
  <2> HIDE DEF l, n
  <2>1. Parted(L, l, w, n)
    <3>1. 0 \in Nat /\ 0 <= 0 /\ 0 = 0
      OBVIOUS
    <3> QED
      BY <1>2, <1>3, <1>4, <3>1 DEF Parted
  <2> QED
    BY <2>1, PartedRoots
<1>6. l <= n /\ \A k \in 1..l : L[k] = w[k]
  BY <1>5 DEF Begins
<1>7. SubSeq(w, 1, l) \in Seq(Tx) /\ Len(SubSeq(w, 1, l)) = l /\ \A k \in 1..l : SubSeq(w, 1, l)[k] = w[k]
  <2>1. 1 \in Int /\ l \in Int /\ \A k \in 1..l : w[k] \in Tx
    BY <1>1, <1>6
  <2>2. /\ SubSeq(w, 1, l) \in Seq(Tx)
        /\ Len(SubSeq(w, 1, l)) = IF 1 <= l THEN l - 1 + 1 ELSE 0
        /\ \A k \in 1..(l - 1 + 1) : SubSeq(w, 1, l)[k] = w[1 + k - 1]
    BY <2>1, SubSeqProperties
  <2>3. l - 1 + 1 = l /\ 1 <= l /\ \A k \in 1..l : 1 + k - 1 = k
    BY <1>1
  <2> QED
    BY <2>2, <2>3
<1>8. L = SubSeq(w, 1, l)
  <2> HIDE DEF l, n
  <2>1. Len(L) = l
    BY DEF l
  <2> QED
    BY <1>6, <1>7, <2>1, SeqEqual
<1> QED
  BY <1>6, <1>8
=============================================================================
