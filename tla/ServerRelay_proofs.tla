------------------------- MODULE ServerRelay_proofs -------------------------
(***************************************************************************)
(* Proofs about the relay server, for any clients, transactions, blocks    *)
(* and limits of the caches: first about the relaying thread alone, then   *)
(* that the send caches stay in step with those of the clients.            *)
(***************************************************************************)
EXTENDS ServerRelay, RelayCodec_proofs

\* The rounds of the loop over the compressor types.
TxRound    == [pc : {"make"}, what : {"tx"}, tx : Tx, type : CompressorType]
BlockRound == [pc : {"make"}, what : {"block"}, block : Block, type : CompressorType]

\* The relaying thread: idle, at the start of a round, or in the loop over the clients
\* of the round.
RelayInv ==
  /\ seen \in [CompressorType -> SUBSET Block]
  /\ \/ relay.pc = "idle"
     \/ relay.pc = "make" /\ relay \in TxRound \cup BlockRound
     \/ /\ relay.pc = "send" /\ relay.round \in TxRound \cup BlockRound

\* A block that type 0 has let pass is one that type 1 will let pass.
PassedBy0(b) == b \in seen[0] \ (seen[1] \cup SmallVersion)

RoundInv ==
  relay.pc = "send" /\ relay.round.what = "block" /\ relay.round.type = 0 => PassedBy0(relay.round.block)

IndInv == RelayInv /\ AllTypesOrNone /\ RoundInv

----------------------------------------------------------------------------
\* The loop over the clients ends, or goes on, within its round.
LEMMA SendingFacts ==
  ASSUME NEW r \in TxRound \cup BlockRound, NEW todo, NEW msg
  PROVE  LET s == SendingTo(todo, msg, r) IN
         \/ s.pc = "idle"
         \/ /\ s.pc = "make" /\ s \in TxRound \cup BlockRound /\ s.what = r.what
            /\ r.type = 0 /\ s.type = 1 /\ (r.what = "block" => s.block = r.block)
         \/ s.pc = "send" /\ s.round = r
<1>1. CASE todo # {}
  BY <1>1 DEF SendingTo
<1>2. CASE todo = {}
  <2>1. SendingTo(todo, msg, r) = NextType(r)
    BY <1>2 DEF SendingTo
  <2>2. r.type \in {0, 1}
    BY DEF TxRound, BlockRound, CompressorType
  <2>3. CASE r.type = 1
    <3>1. NextType(r) = Idle
      BY <2>3 DEF NextType, CompressorType
    <3> QED
      BY <2>1, <3>1 DEF Idle
  <2>4. CASE r.type = 0
    <3>1. NextType(r) = [r EXCEPT !.type = 1]
      BY <2>4 DEF NextType, CompressorType
    <3>2. CASE r \in TxRound
      BY <2>1, <2>4, <3>1, <3>2 DEF TxRound, CompressorType
    <3>3. CASE r \in BlockRound
      BY <2>1, <2>4, <3>1, <3>3 DEF BlockRound, CompressorType
    <3> QED
      BY <3>2, <3>3
  <2> QED
    BY <2>2, <2>3, <2>4
<1> QED
  BY <1>1, <1>2

\* What the invariant needs of a step in which the thread goes on with its round.
LEMMA RoundGoesOn ==
  ASSUME NEW r \in TxRound \cup BlockRound, NEW todo, NEW msg, relay' = SendingTo(todo, msg, r),
         seen' \in [CompressorType -> SUBSET Block], seen'[1] \subseteq seen'[0],
         r.what = "block" /\ r.type = 0 => r.block \in seen'[0] \ (seen'[1] \cup SmallVersion)
  PROVE  IndInv'
<1> DEFINE s == SendingTo(todo, msg, r)
<1>1. \/ s.pc = "idle"
      \/ /\ s.pc = "make" /\ s \in TxRound \cup BlockRound /\ s.what = r.what
         /\ r.type = 0 /\ s.type = 1 /\ (r.what = "block" => s.block = r.block)
      \/ s.pc = "send" /\ s.round = r
  BY SendingFacts
<1>2. relay' = s
  OBVIOUS
<1> HIDE DEF s
<1>3. RelayInv'
  BY <1>1, <1>2 DEF RelayInv
<1>4. AllTypesOrNone'
  BY <1>1, <1>2 DEF AllTypesOrNone, PassedBy0
<1>5. RoundInv'
  BY <1>1, <1>2 DEF RoundInv, PassedBy0
<1> QED
  BY <1>3, <1>4, <1>5 DEF IndInv

\* Steps that touch neither the thread nor the blocks seen.
LEMMA RelayKept == ASSUME IndInv, UNCHANGED <<relay, seen>> PROVE IndInv'
BY DEF IndInv, RelayInv, AllTypesOrNone, RoundInv, PassedBy0

\* A type marks the block as seen, or ends the relay.
LEMMA MakeBlockKeeps == ASSUME IndInv, MakeBlock PROVE IndInv'
<1> DEFINE t == relay.type
           b == relay.block
<1>1. relay.pc = "make" /\ relay.what = "block"
  BY DEF MakeBlock
<1>2. relay \in BlockRound
  BY <1>1 DEF IndInv, RelayInv, TxRound
<1>3. t \in {0, 1} /\ b \in Block
  BY <1>2 DEF BlockRound, CompressorType
<1>4. \/ relay' = Idle /\ seen' = seen
      \/ /\ b \notin seen[t] /\ b \notin SmallVersion /\ seen' = [seen EXCEPT ![t] = @ \cup {b}]
         /\ \E todo, msg : relay' = SendingTo(todo, msg, relay)
  BY DEF MakeBlock
<1>5. CASE relay' = Idle /\ seen' = seen
  BY <1>5 DEF IndInv, RelayInv, AllTypesOrNone, RoundInv, PassedBy0, Idle
<1>6. CASE /\ b \notin seen[t] /\ b \notin SmallVersion /\ seen' = [seen EXCEPT ![t] = @ \cup {b}]
           /\ \E todo, msg : relay' = SendingTo(todo, msg, relay)
  <2>1. PICK todo, msg : relay' = SendingTo(todo, msg, relay)
    BY <1>6
  <2>2. seen \in [CompressorType -> SUBSET Block] /\ seen[1] \subseteq seen[0]
    BY DEF IndInv, RelayInv, AllTypesOrNone
  <2>3. seen' \in [CompressorType -> SUBSET Block]
    BY <1>3, <1>6, <2>2 DEF CompressorType
  <2>4. CASE t = 0
    <3>1. seen'[0] = seen[0] \cup {b} /\ seen'[1] = seen[1]
      BY <1>6, <2>2, <2>4 DEF CompressorType
    <3>2. b \in seen'[0] \ (seen'[1] \cup SmallVersion)
      BY <1>6, <2>2, <2>4, <3>1
    <3> QED
      BY <1>2, <2>1, <2>2, <2>3, <3>1, <3>2, RoundGoesOn
  <2>5. CASE t = 1
    <3>1. seen'[0] = seen[0] /\ seen'[1] = seen[1] \cup {b}
      BY <1>6, <2>2, <2>5 DEF CompressorType
    <3>2. b \in seen[0]
      BY <1>1, <2>5 DEF IndInv, AllTypesOrNone
    <3> QED
      BY <1>2, <2>1, <2>2, <2>3, <2>5, <3>1, <3>2, RoundGoesOn
  <2> QED
    BY <1>3, <2>4, <2>5
<1> QED
  BY <1>4, <1>5, <1>6

\* Transactions and the loop over the clients leave the blocks alone.
LEMMA MakeTxKeeps == ASSUME IndInv, MakeTx PROVE IndInv'
<1>1. relay.pc = "make" /\ relay.what = "tx" /\ seen' = seen
      /\ \E todo, msg : relay' = SendingTo(todo, msg, relay)
  BY DEF MakeTx
<1>2. relay \in TxRound \cup BlockRound
  BY <1>1 DEF IndInv, RelayInv
<1>3. seen' \in [CompressorType -> SUBSET Block] /\ seen'[1] \subseteq seen'[0]
  BY <1>1 DEF IndInv, RelayInv, AllTypesOrNone
<1> QED
  BY <1>1, <1>2, <1>3, RoundGoesOn

LEMMA SendToKeeps == ASSUME IndInv, NEW c \in Client, SendTo(c) PROVE IndInv'
<1>1. relay.pc = "send" /\ seen' = seen /\ relay' = SendingTo(relay.todo \ {c}, relay.msg, relay.round)
  BY DEF SendTo, server
<1>2. relay.round \in TxRound \cup BlockRound
  BY <1>1 DEF IndInv, RelayInv
<1>3. seen' \in [CompressorType -> SUBSET Block] /\ seen'[1] \subseteq seen'[0]
  BY <1>1 DEF IndInv, RelayInv, AllTypesOrNone
<1>4. relay.round.what = "block" /\ relay.round.type = 0 =>
        relay.round.block \in seen'[0] \ (seen'[1] \cup SmallVersion)
  BY <1>1 DEF IndInv, RoundInv, PassedBy0
<1> QED
  BY <1>1, <1>2, <1>3, <1>4, RoundGoesOn

\* Headers only add to what type 0 has seen.
LEMMA HeadersSeenKeeps == ASSUME IndInv, NEW b \in Block \ SmallVersion, HeadersSeen(b) PROVE IndInv'
<1>1. seen' = [seen EXCEPT ![0] = @ \cup {b}] /\ relay' = relay
  BY DEF HeadersSeen
<1>2. seen \in [CompressorType -> SUBSET Block]
  BY DEF IndInv, RelayInv
<1>3. seen' \in [CompressorType -> SUBSET Block] /\ seen'[0] = seen[0] \cup {b} /\ seen'[1] = seen[1]
  BY <1>1, <1>2 DEF CompressorType
<1> QED
  BY <1>1, <1>3 DEF IndInv, RelayInv, AllTypesOrNone, RoundInv, PassedBy0

\* A relay starts with type 0.
LEMMA StartKeeps ==
  ASSUME IndInv, seen' = seen, relay' \in TxRound \cup BlockRound, relay'.type = 0 PROVE IndInv'
<1>1. relay'.pc = "make"
  BY DEF TxRound, BlockRound
<1> QED
  BY <1>1 DEF IndInv, RelayInv, AllTypesOrNone, RoundInv

\* The invariant holds at the start and every step keeps it.
LEMMA Invariance == Spec => []IndInv
<1>1. Init => IndInv
  <2> SUFFICES ASSUME Init PROVE IndInv
    OBVIOUS
  <2>1. seen = [t \in CompressorType |-> {}] /\ relay.pc = "idle"
    BY DEF Init, Idle
  <2> QED
    BY <2>1 DEF IndInv, RelayInv, AllTypesOrNone, RoundInv, CompressorType
<1>2. IndInv /\ [Next]_vars => IndInv'
  <2> SUFFICES ASSUME IndInv, [Next]_vars PROVE IndInv'
    OBVIOUS
  <2>1. ASSUME NEW c \in Client,
               Accept(c) \/ Cull(c) \/ Drop(c) \/ Version(c) \/ Connected(c) \/ SendInitial(c) \/ Receive(c)
        PROVE  IndInv'
    <3>1. UNCHANGED <<relay, seen>>
      BY <2>1 DEF Accept, Cull, Drop, Version, Connected, SendInitial, Receive, server
    <3> QED
      BY <3>1, RelayKept
  <2>2. ASSUME NEW c \in Client, SendTo(c) PROVE IndInv'
    BY <2>2, SendToKeeps
  <2>3. ASSUME NEW x \in Tx, MempoolHash(x) PROVE IndInv'
    BY <2>3, RelayKept DEF MempoolHash
  <2>4. ASSUME NEW x \in Tx, StartTx(x) PROVE IndInv'
    <3>1. seen' = seen /\ relay' = [pc |-> "make", what |-> "tx", tx |-> x, type |-> 0]
      BY <2>4 DEF StartTx, server
    <3>2. relay' \in TxRound /\ relay'.type = 0
      BY <3>1 DEF TxRound, CompressorType
    <3> QED
      BY <3>1, <3>2, StartKeeps
  <2>5. ASSUME NEW b \in Block, StartBlock(b) PROVE IndInv'
    <3>1. seen' = seen /\ relay' = [pc |-> "make", what |-> "block", block |-> b, type |-> 0]
      BY <2>5 DEF StartBlock, server
    <3>2. relay' \in BlockRound /\ relay'.type = 0
      BY <3>1 DEF BlockRound, CompressorType
    <3> QED
      BY <3>1, <3>2, StartKeeps
  <2>6. ASSUME NEW b \in Block \ SmallVersion, HeadersSeen(b) PROVE IndInv'
    BY <2>6, HeadersSeenKeeps
  <2>7. CASE MakeTx
    BY <2>7, MakeTxKeeps
  <2>8. CASE MakeBlock
    BY <2>8, MakeBlockKeeps
  <2>9. CASE UNCHANGED vars
    BY <2>9, RelayKept DEF vars, server
  <2> QED
    BY <2>1, <2>2, <2>3, <2>4, <2>5, <2>6, <2>7, <2>8, <2>9 DEF Next
<1> QED
  BY <1>1, <1>2, PTL DEF Spec

\* A block reaches the clients of both types or of none: whatever headers the second
\* connection brings while do_relay goes from one type to the next, type 1 never
\* refuses what type 0 has sent (server.cpp:341-354, 374).
THEOREM BothTypesOrNone == Spec => []AllTypesOrNone
<1>1. IndInv => AllTypesOrNone
  BY DEF IndInv
<1> QED
  BY <1>1, Invariance, PTL

----------------------------------------------------------------------------
(***************************************************************************)
(* Reading a connection.                                                   *)
(***************************************************************************)
\* What a client has read: no error, its cache, and every block right.
Unread(cache) == [ok |-> TRUE, cache |-> cache, right |-> TRUE]

Read(t, s, msg) ==
  LET r == Deliver(t, s.cache, msg)
  IN [ok |-> s.ok /\ r.ok, cache |-> r.cache, right |-> s.right /\ r.right]

\* The states of a client that reads its connection.
Replaying(t, cache, q, c) ==
  c = [n \in 0..Len(q) |-> IF n = 0 THEN Unread(cache) ELSE Read(t, c[n - 1], q[n])]

\* There is such a table.
LEMMA ReplayingExists ==
  ASSUME NEW t, NEW cache, NEW q \in Seq(Msg) PROVE \E c : Replaying(t, cache, q, c)
<1> DEFINE UpTo(n, c) == c = [k \in 0..n |-> IF k = 0 THEN Unread(cache) ELSE Read(t, c[k - 1], q[k])]
           S == {n \in Nat : \E c : UpTo(n, c)}
<1>1. 0 \in S
  <2>1. UpTo(0, [k \in 0..0 |-> Unread(cache)])
    OBVIOUS
  <2> QED
    BY <2>1
<1>2. ASSUME NEW n \in Nat, n \in S PROVE n + 1 \in S
  <2>1. PICK c : UpTo(n, c)
    BY <1>2
  <2> DEFINE d == [k \in 0..(n + 1) |-> IF k = n + 1 THEN Read(t, c[n], q[n + 1]) ELSE c[k]]
  <2>2. ASSUME NEW k \in 0..(n + 1)
        PROVE  d[k] = IF k = 0 THEN Unread(cache) ELSE Read(t, d[k - 1], q[k])
    <3>1. CASE k = 0
      <4>1. d[0] = c[0] /\ c[0] = Unread(cache)
        BY <2>1
      <4> QED
        BY <3>1, <4>1
    <3>2. CASE k = n + 1
      <4>1. k # 0 /\ k - 1 = n /\ d[n] = c[n]
        BY <3>2
      <4> QED
        BY <3>2, <4>1
    <3>3. CASE k \in 1..n
      <4>1. k # 0 /\ k \in 0..n /\ k - 1 \in 0..n /\ d[k] = c[k] /\ d[k - 1] = c[k - 1]
        BY <3>3
      <4>2. c[k] = Read(t, c[k - 1], q[k])
        BY <2>1, <4>1
      <4> QED
        BY <4>1, <4>2
    <3> QED
      BY <3>1, <3>2, <3>3
  <2>3. d = [k \in 0..(n + 1) |-> d[k]]
    OBVIOUS
  <2> HIDE DEF d
  <2>4. UpTo(n + 1, d)
    BY <2>2, <2>3
  <2> QED
    BY <2>4, SMTT(30)
<1> HIDE DEF S
<1>3. Len(q) \in S
  BY <1>1, <1>2, SetInduction
<1> QED
  BY <1>3 DEF S, Replaying

\* The loop ends in its last entry.
LEMMA ReplayingHolds ==
  ASSUME NEW t, NEW cache, NEW q \in Seq(Msg)
  PROVE  \E c : /\ Replaying(t, cache, q, c) /\ Replay(t, cache, q) = c[Len(q)]
               /\ c[0] = Unread(cache) /\ \A n \in 1..Len(q) : c[n] = Read(t, c[n - 1], q[n])
<1> DEFINE h == CHOOSE h : Replaying(t, cache, q, h)
<1>1. Replaying(t, cache, q, h)
  BY ReplayingExists
<1>2. Replay(t, cache, q) = h[Len(q)]
  BY DEF Replay, h, Replaying, Unread, Read
<1> HIDE DEF h
<1>3. Len(q) \in Nat
  OBVIOUS
<1>4. h[0] = Unread(cache)
  BY <1>1, <1>3 DEF Replaying
<1>5. \A n \in 1..Len(q) : n \in 0..Len(q) /\ n # 0
  BY <1>3
<1>6. \A n \in 1..Len(q) : h[n] = Read(t, h[n - 1], q[n])
  BY <1>1, <1>5, Zenon DEF Replaying
<1> QED
  BY <1>1, <1>2, <1>4, <1>6

\* So one more message is one more turn.
LEMMA ReplayFacts ==
  ASSUME NEW t, NEW cache
  PROVE  /\ Replay(t, cache, <<>>) = Unread(cache)
         /\ \A q \in Seq(Msg), x \in Msg :
              Replay(t, cache, Append(q, x)) = Read(t, Replay(t, cache, q), x)
<1>1. Replay(t, cache, <<>>) = Unread(cache)
  <2>1. ASSUME NEW e \in Seq(Msg), Len(e) = 0 PROVE Replay(t, cache, e) = Unread(cache)
    <3>1. PICK c : /\ Replay(t, cache, e) = c[Len(e)] /\ c[0] = Unread(cache)
                   /\ \A n \in 1..Len(e) : c[n] = Read(t, c[n - 1], e[n])
      BY ReplayingHolds, SMTT(30)
    <3> QED
      BY <2>1, <3>1
  <2>2. <<>> \in Seq(Msg) /\ Len(<<>>) = 0
    OBVIOUS
  <2> QED
    BY <2>1, <2>2
<1>2. ASSUME NEW q \in Seq(Msg), NEW x \in Msg
      PROVE  Replay(t, cache, Append(q, x)) = Read(t, Replay(t, cache, q), x)
  <2> DEFINE r == Append(q, x)
  <2>1. r \in Seq(Msg) /\ Len(r) = Len(q) + 1 /\ Len(q) \in Nat /\ r[Len(q) + 1] = x
        /\ \A n \in 1..Len(q) : r[n] = q[n]
    OBVIOUS
  <2> HIDE DEF r
  <2>2. PICK c : /\ Replay(t, cache, q) = c[Len(q)] /\ c[0] = Unread(cache)
                 /\ \A n \in 1..Len(q) : c[n] = Read(t, c[n - 1], q[n])
    BY ReplayingHolds
  <2>3. PICK d : /\ Replay(t, cache, r) = d[Len(r)] /\ d[0] = Unread(cache)
                 /\ \A n \in 1..Len(r) : d[n] = Read(t, d[n - 1], r[n])
    BY <2>1, ReplayingHolds
  <2> DEFINE S == {n \in Nat : n <= Len(q) => d[n] = c[n]}
  <2>4. 0 \in S
    BY <2>2, <2>3
  <2>5. ASSUME NEW n \in Nat, n \in S PROVE n + 1 \in S
    <3> SUFFICES ASSUME n + 1 <= Len(q) PROVE d[n + 1] = c[n + 1]
      OBVIOUS
    <3>1. n + 1 \in 1..Len(q) /\ n + 1 \in 1..Len(r) /\ (n + 1) - 1 = n /\ n <= Len(q)
      BY <2>1
    <3>2. d[n] = c[n] /\ r[n + 1] = q[n + 1]
      BY <2>1, <2>5, <3>1
    <3>3. c[n + 1] = Read(t, c[n], q[n + 1]) /\ d[n + 1] = Read(t, d[n], r[n + 1])
      BY <2>2, <2>3, <3>1
    <3> QED
      BY <3>2, <3>3
  <2> HIDE DEF S
  <2>6. Len(q) \in S
    BY <2>1, <2>4, <2>5, SetInduction
  <2>7. d[Len(q)] = c[Len(q)]
    BY <2>1, <2>6 DEF S
  <2>8. Len(q) + 1 \in 1..Len(r) /\ (Len(q) + 1) - 1 = Len(q)
    BY <2>1
  <2>9. d[Len(q) + 1] = Read(t, d[Len(q)], r[Len(q) + 1])
    BY <2>3, <2>8
  <2> QED
    BY <2>1, <2>2, <2>3, <2>7, <2>9 DEF r
<1> QED
  BY <1>1, <1>2

\* The types of what is known of a reader.
LEMMA ReplayType ==
  ASSUME NEW t, NEW cache, NEW q \in Seq(Msg)
  PROVE  LET r == Replay(t, cache, q) IN
         r.ok \in BOOLEAN /\ r.right \in BOOLEAN /\ r = [ok |-> r.ok, cache |-> r.cache, right |-> r.right]
<1> DEFINE Fact(r) == r.ok \in BOOLEAN /\ r.right \in BOOLEAN /\ r = [ok |-> r.ok, cache |-> r.cache, right |-> r.right]
           P == {l \in Seq(Msg) : Fact(Replay(t, cache, l))}
<1>1. <<>> \in P
  <2>1. Replay(t, cache, <<>>) = Unread(cache) /\ <<>> \in Seq(Msg)
    BY ReplayFacts
  <2>2. Fact(Unread(cache))
    BY DEF Unread
  <2> QED
    BY <2>1, <2>2
<1>2. ASSUME NEW l \in Seq(Msg), NEW m \in Msg, l \in P PROVE Append(l, m) \in P
  <2>0. Append(l, m) \in Seq(Msg)
    OBVIOUS
  <2>1. Replay(t, cache, Append(l, m)) = Read(t, Replay(t, cache, l), m)
    BY ReplayFacts
  <2>2. Fact(Read(t, Replay(t, cache, l), m))
    BY DEF Read
  <2> QED
    BY <2>0, <2>1, <2>2
<1> HIDE DEF P
<1>3. q \in P
  BY <1>1, <1>2, ListInduction
<1> QED
  BY <1>3 DEF P

\* Reading the first message is the first step of reading them all.
LEMMA ReplayFirst ==
  ASSUME NEW t, NEW cache, NEW m \in Msg, NEW q \in Seq(Msg)
  PROVE  LET a == Replay(t, cache, <<m>> \o q)
             d == Deliver(t, cache, m)
             b == Replay(t, d.cache, q) IN
         a = [ok |-> d.ok /\ b.ok, cache |-> b.cache, right |-> d.right /\ b.right]
<1> DEFINE d == Deliver(t, cache, m)
           Fact(a, b) == a = [ok |-> d.ok /\ b.ok, cache |-> b.cache, right |-> d.right /\ b.right]
           P == {l \in Seq(Msg) : Fact(Replay(t, cache, <<m>> \o l), Replay(t, d.cache, l))}
<1>0. <<m>> \in Seq(Msg) /\ <<m>> = Append(<<>>, m) /\ <<>> \in Seq(Msg)
  OBVIOUS
<1>1. <<>> \in P
  <2>1. Replay(t, d.cache, <<>>) = Unread(d.cache)
    BY ReplayFacts
  <2>2. Replay(t, cache, <<m>>) = Read(t, Unread(cache), m)
    <3>1. Replay(t, cache, Append(<<>>, m)) = Read(t, Replay(t, cache, <<>>), m)
      BY <1>0, ReplayFacts
    <3>2. Replay(t, cache, <<>>) = Unread(cache)
      BY ReplayFacts
    <3> QED
      BY <1>0, <3>1, <3>2
  <2>3. <<m>> \o <<>> = <<m>>
    BY <1>0, ConcatEmptySeq
  <2>4. Read(t, Unread(cache), m) = [ok |-> d.ok /\ TRUE, cache |-> d.cache, right |-> d.right /\ TRUE]
    BY DEF Read, Unread
  <2>5. Unread(d.cache).ok = TRUE /\ Unread(d.cache).cache = d.cache /\ Unread(d.cache).right = TRUE
    BY DEF Unread
  <2> HIDE DEF d
  <2> QED
    BY <1>0, <2>1, <2>2, <2>3, <2>4, <2>5
<1>2. ASSUME NEW l \in Seq(Msg), NEW x \in Msg, l \in P PROVE Append(l, x) \in P
  <2>0. Append(l, x) \in Seq(Msg)
    OBVIOUS
  <2>1. <<m>> \o Append(l, x) = Append(<<m>> \o l, x) /\ <<m>> \o l \in Seq(Msg)
    BY <1>0, AppendToConcat
  <2> DEFINE a == Replay(t, cache, <<m>> \o l)  b == Replay(t, d.cache, l)
  <2>2. Replay(t, cache, Append(<<m>> \o l, x)) = Read(t, a, x)
    BY <2>1, ReplayFacts, ZenonT(60)
  <2>3. Replay(t, d.cache, Append(l, x)) = Read(t, b, x)
    BY ReplayFacts
  <2>4. a = [ok |-> d.ok /\ b.ok, cache |-> b.cache, right |-> d.right /\ b.right]
    BY <1>2
  <2> HIDE DEF a, b, d
  <2>5. Fact(Read(t, a, x), Read(t, b, x))
    BY <2>4 DEF Read
  <2> QED
    BY <2>0, <2>1, <2>2, <2>3, <2>5
<1> HIDE DEF P
<1>3. q \in P
  BY <1>1, <1>2, ListInduction
<1> QED
  BY <1>3 DEF P

\* A client that can read all there is and then has the cache sc can read the first
\* message, and the rest afterwards.
LEMMA ReadOne ==
  ASSUME NEW t, NEW cache, NEW sc, NEW w \in Seq(Msg), w # <<>>, NEW o \in Seq(Msg),
         Replay(t, cache, w \o o) = Unread(sc)
  PROVE  LET d == Deliver(t, cache, Head(w)) IN
         d.ok /\ d.right /\ Replay(t, d.cache, Tail(w) \o o) = Unread(sc)
<1> DEFINE m == Head(w)  q == Tail(w) \o o  d == Deliver(t, cache, m)  b == Replay(t, d.cache, q)
<1>1. m \in Msg /\ q \in Seq(Msg)
  OBVIOUS
<1>2. w \o o = <<m>> \o q
  <2>1. w \o o \in Seq(Msg) /\ w \o o # <<>> /\ Head(w \o o) = m /\ Tail(w \o o) = q
    BY HeadTailOfConcat
  <2> QED
    BY <2>1, HeadThenTail
<1> HIDE DEF m, q
<1>3. Unread(sc) = [ok |-> d.ok /\ b.ok, cache |-> b.cache, right |-> d.right /\ b.right]
  <2>1. Replay(t, cache, <<m>> \o q) = [ok |-> d.ok /\ b.ok, cache |-> b.cache, right |-> d.right /\ b.right]
    BY <1>1, ReplayFirst
  <2>2. Replay(t, cache, <<m>> \o q) = Unread(sc)
    BY <1>2
  <2> QED
    BY <2>1, <2>2, Zenon
<1>4. b.ok \in BOOLEAN /\ b.right \in BOOLEAN /\ b = [ok |-> b.ok, cache |-> b.cache, right |-> b.right]
  BY <1>1, ReplayType
<1> HIDE DEF d, b
<1>5. d.ok /\ b.ok /\ d.right /\ b.right /\ b.cache = sc
  BY <1>3 DEF Unread
<1>6. b = Unread(sc)
  BY <1>4, <1>5 DEF Unread
<1> QED
  BY <1>5, <1>6 DEF d, b, m, q

\* A message that leaves a client with sc in step with nc.
LEMMA ReadLast ==
  ASSUME NEW t, NEW cache, NEW sc, NEW nc, NEW w \in Seq(Msg), NEW m \in Msg,
         Replay(t, cache, w) = Unread(sc),
         Deliver(t, sc, m) = [ok |-> TRUE, cache |-> nc, right |-> TRUE]
  PROVE  Replay(t, cache, w \o <<m>>) = Unread(nc)
<1>1. w \o <<m>> = Append(w, m)
  OBVIOUS
<1>2. Replay(t, cache, Append(w, m)) = Read(t, Replay(t, cache, w), m)
  BY ReplayFacts
<1>3. Read(t, Unread(sc), m) = Unread(nc)
  <2>1. Unread(sc).ok = TRUE /\ Unread(sc).cache = sc /\ Unread(sc).right = TRUE
    BY DEF Unread
  <2> DEFINE d == Deliver(t, sc, m)
  <2>2. d.ok = TRUE /\ d.cache = nc /\ d.right = TRUE
    OBVIOUS
  <2>3. Read(t, Unread(sc), m) = [ok |-> TRUE /\ d.ok, cache |-> d.cache, right |-> TRUE /\ d.right]
    BY <2>1 DEF Read
  <2> HIDE DEF d
  <2> QED
    BY <2>2, <2>3 DEF Unread
<1> QED
  BY <1>1, <1>2, <1>3

\* A transaction makes a message.
LEMMA TxMsg ==
  ASSUME NEW x \in Tx
  PROVE  [kind |-> "tx", tx |-> x] \in Msg
BY DEF Msg

\* How a transaction is read, if it is accepted, ...
LEMMA TxDelivered ==
  ASSUME NEW t, NEW cache, NEW nc, NEW m, m.kind = "tx", recv_tx(t, cache, m.tx) = [ok |-> TRUE, cache |-> nc]
  PROVE  Deliver(t, cache, m) = [ok |-> TRUE, cache |-> nc, right |-> TRUE]
<1> DEFINE r == recv_tx(t, cache, m.tx)
<1>1. r.ok = TRUE /\ r.cache = nc
  OBVIOUS
<1>2. Deliver(t, cache, m) = [ok |-> r.ok, cache |-> r.cache, right |-> TRUE]
  BY DEF Deliver
<1> HIDE DEF r
<1> QED
  BY <1>1, <1>2

\* ... and a block, if it is rebuilt.
LEMMA BlockDelivered ==
  ASSUME NEW t, NEW cache, NEW nc, NEW m, m.kind = "block",
         DecompressBlock(cache, m.body) = [ok |-> TRUE, cache |-> nc, txs |-> BlockTxs[m.block]]
  PROVE  Deliver(t, cache, m) = [ok |-> TRUE, cache |-> nc, right |-> TRUE]
<1> DEFINE r == DecompressBlock(cache, m.body)
<1>1. r.ok = TRUE /\ r.cache = nc /\ (r.txs = BlockTxs[m.block]) = TRUE
  OBVIOUS
<1>2. Deliver(t, cache, m) = [ok |-> r.ok, cache |-> r.cache, right |-> r.txs = BlockTxs[m.block]]
  BY DEF Deliver
<1> HIDE DEF r
<1> QED
  BY <1>1, <1>2

\* relay_node_connected's messages build up the cache they are made from.
Dump(q) == [k \in 1..Len(q) |-> [kind |-> "tx", tx |-> q[k]]]

\* One message for each transaction in the cache.
LEMMA DumpFacts ==
  ASSUME NEW q \in Seq(Tx)
  PROVE  /\ Dump(q) \in Seq(Msg)
         /\ \A x \in Tx : Dump(Append(q, x)) = Append(Dump(q), [kind |-> "tx", tx |-> x])
<1>0. Len(q) \in Nat /\ \A k \in 1..Len(q) : q[k] \in Tx
  OBVIOUS
<1>1. Dump(q) \in [1..Len(q) -> Msg]
  BY <1>0, TxMsg DEF Dump
<1>2. Dump(q) \in Seq(Msg) /\ Len(Dump(q)) = Len(q)
  BY <1>0, <1>1, SeqDef, LenProperties
<1>3. ASSUME NEW x \in Tx PROVE Dump(Append(q, x)) = Append(Dump(q), [kind |-> "tx", tx |-> x])
  <2> DEFINE a == Append(q, x)  n == Len(q)  m == [kind |-> "tx", tx |-> x]  d == Append(Dump(q), m)
  <2>1. a \in Seq(Tx) /\ Len(a) = n + 1 /\ a[n + 1] = x /\ \A k \in 1..n : a[k] = q[k]
    OBVIOUS
  <2> HIDE DEF a
  <2>2. m \in Msg
    BY TxMsg
  <2>3. d \in Seq(Msg) /\ Len(d) = n + 1 /\ d[n + 1] = m /\ \A k \in 1..n : d[k] = Dump(q)[k]
    BY <1>2, <2>2
  <2> HIDE DEF d
  <2>4. d \in [1..(n + 1) -> Msg]
    BY <2>3, LenProperties
  <2>5. ASSUME NEW k \in 1..(n + 1) PROVE d[k] = [kind |-> "tx", tx |-> a[k]]
    <3>1. CASE k = n + 1
      BY <2>1, <2>3, <3>1
    <3>2. CASE k # n + 1
      <4>1. k \in 1..n
        BY <1>0, <3>2
      <4> QED
        BY <2>1, <2>3, <4>1 DEF Dump
    <3> QED
      BY <3>1, <3>2
  <2>6. d = [k \in 1..(n + 1) |-> [kind |-> "tx", tx |-> a[k]]]
    BY <2>4, <2>5
  <2> QED
    BY <2>1, <2>6 DEF Dump, d, a
<1> QED
  BY <1>2, <1>3

\* Reading them all gives the cache, without an error.
LEMMA DumpReplayed ==
  ASSUME NEW t \in CompressorType, NEW q \in Seq(Tx), Good(t, q)
  PROVE  Replay(t, <<>>, Dump(q)) = Unread(q)
<1> DEFINE P == {l \in Seq(Tx) : Good(t, l) => Replay(t, <<>>, Dump(l)) = Unread(l)}
<1>1. <<>> \in P
  <2>1. Dump(<<>>) = <<>> /\ <<>> \in Seq(Tx)
    BY DEF Dump
  <2>2. Replay(t, <<>>, <<>>) = Unread(<<>>)
    BY ReplayFacts
  <2> QED
    BY <2>1, <2>2
<1>2. ASSUME NEW l \in Seq(Tx), NEW x \in Tx, l \in P PROVE Append(l, x) \in P
  <2>0. Append(l, x) \in Seq(Tx)
    OBVIOUS
  <2>1. ASSUME Good(t, Append(l, x)) PROVE Replay(t, <<>>, Dump(Append(l, x))) = Unread(Append(l, x))
    <3> DEFINE m == [kind |-> "tx", tx |-> x]  a == Append(l, x)
    <3>1. Good(t, l) /\ recv_tx(t, l, x) = [ok |-> TRUE, cache |-> a]
      BY <2>1, BuiltUp
    <3>2. m \in Msg /\ m.kind = "tx" /\ m.tx = x /\ Dump(l) \in Seq(Msg) /\ Dump(a) = Append(Dump(l), m)
      BY TxMsg, DumpFacts
    <3> HIDE DEF m, a
    <3>3. Replay(t, <<>>, Dump(l)) = Unread(l)
      BY <1>2, <3>1
    <3>4. Deliver(t, l, m) = [ok |-> TRUE, cache |-> a, right |-> TRUE]
      BY <3>1, <3>2, TxDelivered
    <3>5. Replay(t, <<>>, Dump(l) \o <<m>>) = Unread(a)
      BY <3>2, <3>3, <3>4, ReadLast
    <3>6. Dump(l) \o <<m>> = Append(Dump(l), m)
      BY <3>2
    <3> QED
      BY <3>2, <3>5, <3>6 DEF a
  <2> QED
    BY <2>0, <2>1
<1> HIDE DEF P
<1>3. q \in P
  BY <1>1, <1>2, ListInduction
<1> QED
  BY <1>3 DEF P

----------------------------------------------------------------------------
(***************************************************************************)
(* The invariant.                                                          *)
(***************************************************************************)

\* Only a connected client has something to read or has read something.
ConnInv ==
  \A c \in Client :
    /\ c \notin clientMap => net[c] = "start"
    /\ net[c] # "start" => compressor_type[c] \in CompressorType
    /\ net[c] # "ready" \/ c \notin Live => wire[c] = <<>> /\ recv_tx_cache[c] = <<>>

\* The message on its way to the clients that are left of a round.
OwedInv ==
  relay.pc = "send" =>
    /\ relay.type = relay.round.type /\ relay.todo \subseteq clientMap /\ relay.msg \in Msg
    /\ relay.msg.kind = "tx" /\ relay.type = 0 =>
         relay.msg.tx \in ToSet(send_tx_cache[0]) /\ Acceptable(0, relay.msg.tx)

\* The send caches hold what clients accept, within their limits.
CacheInv == \A t \in CompressorType : Good(t, send_tx_cache[t])

\* The inductive invariant.
SyncInv == RelayInv /\ TypeOK /\ ConnInv /\ OwedInv /\ CacheInv /\ InSync /\ OnlyRacedFail

\* What InSync says of one client.
OwedMsgs(c) == IF Owed(c) THEN <<relay.msg>> ELSE <<>>

SyncAt(c) ==
  Replay(compressor_type[c], recv_tx_cache[c], wire[c] \o OwedMsgs(c))
    = Unread(send_tx_cache[compressor_type[c]])

\* InSync is that for every client it speaks of.
LEMMA SyncHere == ASSUME InSync, NEW c \in Live \ raced, net[c] = "ready" PROVE SyncAt(c)
BY DEF InSync, SyncAt, OwedMsgs, Unread

\* And so for the next state.
LEMMA SyncEverywhere ==
  ASSUME \A c \in Live' \ raced' : net'[c] = "ready" => SyncAt(c)'
  PROVE  InSync'
BY DEF InSync, SyncAt, OwedMsgs, Unread

\* A client of whom nothing changes stays in step.
LEMMA SyncKept ==
  ASSUME NEW c, SyncAt(c), compressor_type'[c] = compressor_type[c], recv_tx_cache'[c] = recv_tx_cache[c],
         wire'[c] = wire[c], send_tx_cache'[compressor_type[c]] = send_tx_cache[compressor_type[c]],
         OwedMsgs(c)' = OwedMsgs(c)
  PROVE  SyncAt(c)'
BY DEF SyncAt

\* What a client is owed changes only with the relaying thread.
LEMMA OwedKept ==
  ASSUME NEW c, relay' = relay, compressor_type'[c] = compressor_type[c]
  PROVE  OwedMsgs(c)' = OwedMsgs(c)
BY DEF OwedMsgs, Owed

\* While it is not sending, nobody is owed anything ...
LEMMA NothingOwed == ASSUME NEW c, relay.pc # "send" PROVE OwedMsgs(c) = <<>>
BY DEF OwedMsgs, Owed

\* ... and so for the next state.
LEMMA NothingOwedNext == ASSUME NEW c, relay'.pc # "send" PROVE OwedMsgs(c)' = <<>>
BY DEF OwedMsgs, Owed

----------------------------------------------------------------------------
(***************************************************************************)
(* Steps of the connections.                                               *)
(***************************************************************************)

\* What such a step leaves alone of the clients other than c.
OthersKept(c) ==
  \A d \in Client \ {c} :
    /\ compressor_type'[d] = compressor_type[d] /\ recv_tx_cache'[d] = recv_tx_cache[d]
    /\ wire'[d] = wire[d] /\ net'[d] = net[d]
    /\ d \in clientMap' <=> d \in clientMap
    /\ d \in gone' <=> d \in gone
    /\ d \in raced' <=> d \in raced

\* The others stay in step.
LEMMA OthersInStep ==
  ASSUME SyncInv, NEW c \in Client, OthersKept(c), UNCHANGED <<send_tx_cache, relay>>,
         NEW d \in Client \ {c}, d \in Live' \ raced', net'[d] = "ready"
  PROVE  SyncAt(d)'
<1>1. d \in Live \ raced /\ net[d] = "ready"
  BY DEF OthersKept, Live
<1>2. SyncAt(d)
  BY <1>1, SyncHere DEF SyncInv
<1>3. /\ compressor_type'[d] = compressor_type[d] /\ recv_tx_cache'[d] = recv_tx_cache[d]
      /\ wire'[d] = wire[d]
  BY DEF OthersKept
<1>4. OwedMsgs(d)' = OwedMsgs(d)
  BY <1>3, OwedKept
<1> QED
  BY <1>2, <1>3, <1>4, SyncKept

\* The parts of the type invariant that the steps need.
LEMMA TypeFacts ==
  ASSUME TypeOK
  PROVE  /\ send_tx_cache \in [CompressorType -> Seq(Tx)] /\ recv_tx_cache \in [Client -> Seq(Tx)]
         /\ clientMap \subseteq Client /\ gone \subseteq clientMap
         /\ compressor_type \in [Client -> {-1, 0, 1}]
         /\ net \in [Client -> {"start", "typed", "locked", "ready"}]
         /\ wire \in [Client -> Seq(Msg)]
         /\ failed \subseteq Client /\ raced \subseteq Client
BY DEF TypeOK

\* A new client has nothing on its connection.
LEMMA AcceptSync == ASSUME SyncInv, NEW c \in Client, Accept(c) PROVE SyncInv'
<1> USE DEF Accept, server
<1>1. RelayInv'
  BY DEF SyncInv, RelayInv
<1>2. TypeOK'
  BY DEF SyncInv, TypeOK, Within
<1>3. net[c] = "start" /\ c \notin gone
  BY DEF SyncInv, ConnInv, TypeOK
<1>4. ConnInv'
  BY <1>3 DEF SyncInv, ConnInv, Live
<1>5. OwedInv' /\ CacheInv' /\ OnlyRacedFail'
  BY DEF SyncInv, OwedInv, CacheInv, OnlyRacedFail, mapMutexFree
<1>6. InSync'
  <2>1. OthersKept(c)
    BY DEF OthersKept
  <2>2. ASSUME NEW d \in Live' \ raced', net'[d] = "ready" PROVE SyncAt(d)'
    <3>1. d \in Client \ {c}
      BY <1>3, <2>2, TypeFacts DEF SyncInv, Live
    <3> QED
      BY <2>1, <2>2, <3>1, OthersInStep
  <2> QED
    BY <2>2, SyncEverywhere
<1> QED
  BY <1>1, <1>2, <1>4, <1>5, <1>6 DEF SyncInv

\* A client that is gone is not among those InSync speaks of.
LEMMA CullSync == ASSUME SyncInv, NEW c \in Client, Cull(c) PROVE SyncInv'
<1> USE DEF Cull, server
<1>0. TypeOK
  BY DEF SyncInv
<1>1. RelayInv'
  BY DEF SyncInv, RelayInv
<1>2. TypeOK'
  BY <1>0 DEF TypeOK, Within
<1>3. /\ compressor_type' = [compressor_type EXCEPT ![c] = -1] /\ net' = [net EXCEPT ![c] = "start"]
      /\ net'[c] = "start" /\ c \notin Live /\ c \notin Live' /\ \A d \in Client \ {c} : net'[d] = net[d]
      /\ \A d \in Client \ {c} : compressor_type'[d] = compressor_type[d]
  BY <1>0, TypeFacts DEF Live
<1>4. ConnInv'
  BY <1>0, <1>3 DEF SyncInv, ConnInv, Live
<1>5. OwedInv' /\ CacheInv' /\ OnlyRacedFail'
  BY DEF SyncInv, OwedInv, CacheInv, OnlyRacedFail, mapMutexFree
<1>6. InSync'
  <2>1. OthersKept(c)
    BY <1>3 DEF OthersKept
  <2>2. ASSUME NEW d \in Live' \ raced', net'[d] = "ready" PROVE SyncAt(d)'
    <3>1. d \in Client \ {c}
      BY <1>0, <1>3, <2>2, TypeFacts DEF Live
    <3> QED
      BY <2>1, <2>2, <3>1, OthersInStep
  <2> QED
    BY <2>2, SyncEverywhere
<1> QED
  BY <1>1, <1>2, <1>4, <1>5, <1>6 DEF SyncInv

\* The connection of c breaks.
LEMMA BrokenFacts ==
  ASSUME TypeOK, NEW c \in Client, c \in clientMap, Broken({c})
  PROVE  /\ gone' = gone \cup {c} /\ gone' \subseteq clientMap
         /\ wire' \in [Client -> Seq(Msg)] /\ recv_tx_cache' \in [Client -> Seq(Tx)]
         /\ wire'[c] = <<>> /\ recv_tx_cache'[c] = <<>>
         /\ \A d \in Client \ {c} : wire'[d] = wire[d] /\ recv_tx_cache'[d] = recv_tx_cache[d]
<1>1. <<>> \in Seq(Msg) /\ <<>> \in Seq(Tx)
  OBVIOUS
<1>2. /\ wire' = [d \in Client |-> IF d \in {c} THEN <<>> ELSE wire[d]]
      /\ recv_tx_cache' = [d \in Client |-> IF d \in {c} THEN <<>> ELSE recv_tx_cache[d]]
      /\ gone' = gone \cup {c}
  BY DEF Broken
<1>3. wire \in [Client -> Seq(Msg)] /\ recv_tx_cache \in [Client -> Seq(Tx)] /\ gone \subseteq clientMap
  BY TypeFacts
<1>4. wire' \in [Client -> Seq(Msg)] /\ recv_tx_cache' \in [Client -> Seq(Tx)]
  BY <1>1, <1>2, <1>3
<1> QED
  BY <1>2, <1>3, <1>4

\* Nor is one whose connection breaks.
LEMMA DropSync == ASSUME SyncInv, NEW c \in Client, Drop(c) PROVE SyncInv'
<1>0. TypeOK /\ c \in Live /\ Broken({c})
      /\ UNCHANGED <<send_tx_cache, seen, waiting, clientMap, compressor_type, net, relay, failed, raced>>
  BY DEF SyncInv, Drop, server
<1>b. /\ gone' = gone \cup {c} /\ gone' \subseteq clientMap
      /\ wire' \in [Client -> Seq(Msg)] /\ recv_tx_cache' \in [Client -> Seq(Tx)]
      /\ wire'[c] = <<>> /\ recv_tx_cache'[c] = <<>>
      /\ \A d \in Client \ {c} : wire'[d] = wire[d] /\ recv_tx_cache'[d] = recv_tx_cache[d]
  BY <1>0, BrokenFacts DEF Live
<1>1. RelayInv'
  BY <1>0 DEF SyncInv, RelayInv
<1>2. TypeOK'
  BY <1>0, <1>b DEF TypeOK, Within
<1>4. ConnInv'
  BY <1>0, <1>b DEF SyncInv, ConnInv, Live
<1>5. OwedInv' /\ CacheInv' /\ OnlyRacedFail'
  BY <1>0 DEF SyncInv, OwedInv, CacheInv, OnlyRacedFail
<1>6. InSync'
  <2>1. OthersKept(c)
    BY <1>0, <1>b DEF OthersKept
  <2>2. ASSUME NEW d \in Live' \ raced', net'[d] = "ready" PROVE SyncAt(d)'
    <3>1. d \in Client \ {c}
      BY <1>0, <1>b, <2>2, TypeFacts DEF Live
    <3> QED
      BY <1>0, <2>1, <2>2, <3>1, OthersInStep
  <2> QED
    BY <2>2, SyncEverywhere
<1> QED
  BY <1>1, <1>2, <1>4, <1>5, <1>6 DEF SyncInv

\* Between VERSION and the initial transactions nothing is sent to a client.
LEMMA VersionSync == ASSUME SyncInv, NEW c \in Client, Version(c) PROVE SyncInv'
<1>0. /\ TypeOK /\ c \in Live /\ net[c] = "start"
      /\ UNCHANGED <<send_tx_cache, seen, waiting, clientMap, gone, wire, relay, recv_tx_cache, failed, raced>>
  BY DEF SyncInv, Version, server
<1>v. PICK t \in CompressorType : compressor_type' = [compressor_type EXCEPT ![c] = t]
  BY DEF Version
<1>n. net' = [net EXCEPT ![c] = "typed"]
  BY DEF Version
<1>b. /\ compressor_type' \in [Client -> {-1, 0, 1}] /\ compressor_type'[c] \in CompressorType
      /\ net' \in [Client -> {"start", "typed", "locked", "ready"}] /\ net'[c] = "typed"
      /\ \A d \in Client \ {c} : compressor_type'[d] = compressor_type[d] /\ net'[d] = net[d]
  BY <1>0, <1>v, <1>n, TypeFacts DEF CompressorType
<1>1. RelayInv'
  BY <1>0 DEF SyncInv, RelayInv
<1>2. TypeOK'
  BY <1>0, <1>b DEF TypeOK, Within
<1>4. ConnInv'
  BY <1>0, <1>b DEF SyncInv, ConnInv, Live
<1>5. OwedInv' /\ CacheInv' /\ OnlyRacedFail'
  BY <1>0 DEF SyncInv, OwedInv, CacheInv, OnlyRacedFail
<1>6. InSync'
  <2>1. OthersKept(c)
    BY <1>0, <1>b DEF OthersKept
  <2>2. ASSUME NEW d \in Live' \ raced', net'[d] = "ready" PROVE SyncAt(d)'
    <3>1. d \in Client \ {c}
      BY <1>0, <1>b, <2>2, TypeFacts DEF Live
    <3> QED
      BY <1>0, <2>1, <2>2, <3>1, OthersInStep
  <2> QED
    BY <2>2, SyncEverywhere
<1> QED
  BY <1>1, <1>2, <1>4, <1>5, <1>6 DEF SyncInv

\* The same of the client that is next in line for its initial transactions.
LEMMA ConnectedSync == ASSUME SyncInv, NEW c \in Client, Connected(c) PROVE SyncInv'
<1>0. /\ TypeOK /\ c \in clientMap /\ net[c] = "typed" /\ net' = [net EXCEPT ![c] = "locked"]
      /\ UNCHANGED <<send_tx_cache, seen, waiting, clientMap, gone, compressor_type, wire, relay, recv_tx_cache, failed, raced>>
  BY DEF SyncInv, Connected, server
<1>b. /\ net' \in [Client -> {"start", "typed", "locked", "ready"}] /\ net'[c] = "locked"
      /\ \A d \in Client \ {c} : net'[d] = net[d]
  BY <1>0, TypeFacts
<1>1. RelayInv'
  BY <1>0 DEF SyncInv, RelayInv
<1>2. TypeOK'
  BY <1>0, <1>b DEF TypeOK, Within
<1>4. ConnInv'
  BY <1>0, <1>b DEF SyncInv, ConnInv, Live
<1>5. OwedInv' /\ CacheInv' /\ OnlyRacedFail'
  BY <1>0 DEF SyncInv, OwedInv, CacheInv, OnlyRacedFail
<1>6. InSync'
  <2>1. OthersKept(c)
    BY <1>0, <1>b DEF OthersKept
  <2>2. ASSUME NEW d \in Live' \ raced', net'[d] = "ready" PROVE SyncAt(d)'
    <3>1. d \in Client \ {c}
      BY <1>0, <1>b, <2>2, TypeFacts DEF Live
    <3> QED
      BY <1>0, <2>1, <2>2, <3>1, OthersInStep
  <2> QED
    BY <2>2, SyncEverywhere
<1> QED
  BY <1>1, <1>2, <1>4, <1>5, <1>6 DEF SyncInv

----------------------------------------------------------------------------
(***************************************************************************)
(* Steps of the relaying thread.                                           *)
(***************************************************************************)

\* Nothing is made or sent.
LEMMA QuietSync ==
  ASSUME SyncInv, RelayInv', TypeOK', UNCHANGED <<send_tx_cache, conns, wire, recv_tx_cache, failed, raced>>,
         relay' = relay \/ (relay.pc # "send" /\ relay'.pc # "send")
  PROVE  SyncInv'
<1>0. UNCHANGED <<send_tx_cache, clientMap, gone, compressor_type, net, wire, recv_tx_cache, failed, raced>>
  BY DEF conns
<1>1. ConnInv' /\ CacheInv' /\ OnlyRacedFail'
  BY <1>0 DEF SyncInv, ConnInv, CacheInv, OnlyRacedFail, Live
<1>2. OwedInv'
  BY <1>0 DEF SyncInv, OwedInv
<1>3. InSync'
  <2>1. ASSUME NEW d \in Live' \ raced', net'[d] = "ready" PROVE SyncAt(d)'
    <3>1. d \in Live \ raced /\ net[d] = "ready"
      BY <1>0, <2>1 DEF Live
    <3>2. SyncAt(d)
      BY <3>1, SyncHere DEF SyncInv
    <3>3. OwedMsgs(d)' = OwedMsgs(d)
      <4>1. CASE relay' = relay
        BY <1>0, <4>1, OwedKept
      <4>2. CASE relay.pc # "send" /\ relay'.pc # "send"
        BY <4>2, NothingOwed, NothingOwedNext
      <4> QED
        BY <4>1, <4>2
    <3> QED
      BY <1>0, <3>2, <3>3, SyncKept
  <2> QED
    BY <2>1, SyncEverywhere
<1> QED
  BY <1>1, <1>2, <1>3 DEF SyncInv

\* Steps that do not touch a cache or a connection.
LEMMA QuietSteps ==
  ASSUME SyncInv
  PROVE  /\ \A x \in Tx : MempoolHash(x) => SyncInv'
         /\ \A x \in Tx : StartTx(x) => SyncInv'
         /\ \A b \in Block : StartBlock(b) => SyncInv'
         /\ \A b \in Block : HeadersSeen(b) => SyncInv'
         /\ UNCHANGED vars => SyncInv'
<1>0. RelayInv /\ TypeOK
  BY DEF SyncInv
<1>1. ASSUME NEW x \in Tx, MempoolHash(x) PROVE SyncInv'
  <2>1. RelayInv' /\ TypeOK'
    BY <1>0, <1>1 DEF MempoolHash, conns, RelayInv, TypeOK, Within
  <2> QED
    BY <1>1, <2>1, QuietSync DEF MempoolHash
<1>2. ASSUME NEW x \in Tx, StartTx(x) PROVE SyncInv'
  <2>1. relay' = [pc |-> "make", what |-> "tx", tx |-> x, type |-> 0] /\ UNCHANGED <<server, conns, wire, recv_tx_cache, failed, raced>>
        /\ relay.pc = "idle"
    BY <1>2 DEF StartTx, mapMutexFree
  <2>2. relay'.pc = "make" /\ relay' \in TxRound
    BY <2>1 DEF TxRound, CompressorType
  <2>3. RelayInv' /\ TypeOK'
    BY <1>0, <2>1, <2>2 DEF server, conns, RelayInv, TypeOK, Within
  <2>4. relay.pc # "send" /\ relay'.pc # "send"
    BY <2>1, <2>2
  <2> QED
    BY <2>1, <2>3, <2>4, QuietSync DEF server
<1>3. ASSUME NEW b \in Block, StartBlock(b) PROVE SyncInv'
  <2>1. relay' = [pc |-> "make", what |-> "block", block |-> b, type |-> 0] /\ UNCHANGED <<server, conns, wire, recv_tx_cache, failed, raced>>
        /\ relay.pc = "idle"
    BY <1>3 DEF StartBlock, mapMutexFree
  <2>2. relay'.pc = "make" /\ relay' \in BlockRound
    BY <2>1 DEF BlockRound, CompressorType
  <2>3. RelayInv' /\ TypeOK'
    BY <1>0, <2>1, <2>2 DEF server, conns, RelayInv, TypeOK, Within
  <2>4. relay.pc # "send" /\ relay'.pc # "send"
    BY <2>1, <2>2
  <2> QED
    BY <2>1, <2>3, <2>4, QuietSync DEF server
<1>4. ASSUME NEW b \in Block, HeadersSeen(b) PROVE SyncInv'
  <2>1. seen' = [seen EXCEPT ![0] = @ \cup {b}] /\ UNCHANGED <<send_tx_cache, waiting, conns, wire, relay, recv_tx_cache, failed, raced>>
    BY <1>4 DEF HeadersSeen
  <2>2. seen' \in [CompressorType -> SUBSET Block]
    BY <1>0, <2>1 DEF TypeOK
  <2>3. RelayInv' /\ TypeOK'
    BY <1>0, <2>1, <2>2 DEF conns, RelayInv, TypeOK, Within
  <2> QED
    BY <2>1, <2>3, QuietSync
<1>5. ASSUME UNCHANGED vars PROVE SyncInv'
  <2>1. UNCHANGED <<send_tx_cache, seen, waiting, conns, wire, relay, recv_tx_cache, failed, raced>>
    BY <1>5 DEF vars, server
  <2>2. RelayInv' /\ TypeOK'
    BY <1>0, <2>1 DEF conns, RelayInv, TypeOK, Within
  <2> QED
    BY <2>1, <2>2, QuietSync
<1> QED
  BY <1>1, <1>2, <1>3, <1>4, <1>5

\* The loop over the clients, and what it owes them.
LEMMA SendingShape ==
  ASSUME NEW r \in TxRound \cup BlockRound, NEW todo, NEW msg
  PROVE  LET s == SendingTo(todo, msg, r) IN
         /\ s.pc \in {"idle", "make", "send"}
         /\ s.pc = "make" => s \in TxRound \cup BlockRound
         /\ s.pc = "send" =>
              s.type = r.type /\ s.msg = msg /\ s.todo = todo /\ s.round = r
         /\ s.pc = "send" <=> todo # {}
<1>1. CASE todo # {}
  BY <1>1 DEF SendingTo
<1>2. CASE todo = {}
  <2>1. SendingTo(todo, msg, r) = NextType(r)
    BY <1>2 DEF SendingTo
  <2>2. r.type \in {0, 1}
    BY DEF TxRound, BlockRound, CompressorType
  <2>3. CASE r.type = 1
    <3>1. NextType(r) = Idle
      BY <2>3 DEF NextType, CompressorType
    <3> QED
      BY <1>2, <2>1, <3>1 DEF Idle
  <2>4. CASE r.type = 0
    <3>1. NextType(r) = [r EXCEPT !.type = 1]
      BY <2>4 DEF NextType, CompressorType
    <3>2. CASE r \in TxRound
      BY <1>2, <2>1, <2>4, <3>1, <3>2 DEF TxRound, CompressorType
    <3>3. CASE r \in BlockRound
      BY <1>2, <2>1, <2>4, <3>1, <3>3 DEF BlockRound, CompressorType
    <3> QED
      BY <3>2, <3>3
  <2> QED
    BY <2>2, <2>3, <2>4
<1> QED
  BY <1>1, <1>2

\* A message is made for the clients of type t: it brings a client that had the old
\* cache to the new one.
LEMMA MadeSync ==
  ASSUME SyncInv, relay.pc = "make", NEW t \in CompressorType, t = relay.type,
         NEW nc, Good(t, nc), send_tx_cache' = [send_tx_cache EXCEPT ![t] = nc],
         seen' \in [CompressorType -> SUBSET Block],
         UNCHANGED <<waiting, conns, wire, recv_tx_cache, failed, raced>>,
         NEW msg \in Msg, relay' = SendingTo(clientMap, msg, relay),
         Deliver(t, send_tx_cache[t], msg) = [ok |-> TRUE, cache |-> nc, right |-> TRUE],
         msg.kind = "tx" /\ t = 0 => msg.tx \in ToSet(nc) /\ Acceptable(0, msg.tx)
  PROVE  SyncInv'
<1>0. UNCHANGED <<clientMap, gone, compressor_type, net, wire, recv_tx_cache, failed, raced, waiting>>
      /\ TypeOK /\ relay \in TxRound \cup BlockRound
  BY DEF SyncInv, conns, RelayInv
<1>1. /\ relay'.pc \in {"idle", "make", "send"}
      /\ relay'.pc = "make" => relay' \in TxRound \cup BlockRound
      /\ relay'.pc = "send" =>
           relay'.type = t /\ relay'.msg = msg /\ relay'.todo = clientMap /\ relay'.round = relay
      /\ relay'.pc = "send" <=> clientMap # {}
  BY <1>0, SendingShape
<1>2. send_tx_cache'[t] = nc /\ (\A u \in CompressorType : u # t => send_tx_cache'[u] = send_tx_cache[u])
      /\ nc \in Seq(Tx) /\ send_tx_cache' \in [CompressorType -> Seq(Tx)]
  <2>1. nc \in Seq(Tx) /\ send_tx_cache \in [CompressorType -> Seq(Tx)]
    BY <1>0, TypeFacts DEF Good, Sound
  <2> QED
    BY <2>1
<1>3. CacheInv'
  <2>1. ASSUME NEW u \in CompressorType PROVE Good(u, send_tx_cache'[u])
    BY <1>2 DEF SyncInv, CacheInv
  <2> QED
    BY <2>1 DEF CacheInv, Good, Sound, Within
<1>4. RelayInv'
  BY <1>0, <1>1 DEF RelayInv
<1>5. TypeOK'
  <2>1. \A u \in CompressorType : Within(u, send_tx_cache'[u])
    BY <1>3 DEF CacheInv, Good, Within
  <2>2. \A u \in CompressorType : Within(u, send_tx_cache[u])'
    BY <2>1 DEF Within
  <2> QED
    BY <1>0, <1>1, <1>2, <2>2 DEF TypeOK
<1>6. ConnInv' /\ OnlyRacedFail'
  BY <1>0 DEF SyncInv, ConnInv, OnlyRacedFail, Live
<1>7. OwedInv'
  BY <1>0, <1>1, <1>2 DEF OwedInv, Acceptable
<1>8. InSync'
  <2>1. ASSUME NEW d \in Live' \ raced', net'[d] = "ready" PROVE SyncAt(d)'
    <3> DEFINE u == compressor_type[d]
    <3>1. d \in Live \ raced /\ net[d] = "ready" /\ d \in clientMap /\ d \in Client
      BY <1>0, <2>1, TypeFacts DEF Live
    <3>2. SyncAt(d) /\ OwedMsgs(d) = <<>>
      BY <3>1, SyncHere, NothingOwed DEF SyncInv
    <3>3. u \in CompressorType /\ wire[d] \in Seq(Msg)
      BY <1>0, <3>1, TypeFacts DEF SyncInv, ConnInv
    <3>4. Replay(u, recv_tx_cache[d], wire[d]) = Unread(send_tx_cache[u])
      <4>1. wire[d] \o <<>> = wire[d]
        BY <3>3, ConcatEmptySeq
      <4> QED
        BY <3>2, <4>1 DEF SyncAt
    <3>5. relay'.pc = "send" /\ relay'.type = t /\ relay'.msg = msg /\ d \in relay'.todo
      BY <1>1, <3>1
    <3>6. CASE u = t
      <4>1. OwedMsgs(d)' = <<msg>>
        BY <1>0, <3>5, <3>6 DEF OwedMsgs, Owed
      <4>2. Replay(t, recv_tx_cache[d], wire[d] \o <<msg>>) = Unread(nc)
        BY <3>3, <3>4, <3>6, ReadLast
      <4>3. Unread(nc)' = Unread(nc)
        OBVIOUS
      <4> QED
        BY <1>0, <1>2, <3>6, <4>1, <4>2 DEF SyncAt
    <3>7. CASE u # t
      <4>1. OwedMsgs(d)' = <<>>
        BY <1>0, <3>5, <3>7 DEF OwedMsgs, Owed
      <4>2. send_tx_cache'[u] = send_tx_cache[u]
        BY <1>2, <3>3, <3>7
      <4> QED
        BY <1>0, <3>2, <4>1, <4>2, SyncKept
    <3> QED
      BY <3>6, <3>7
  <2> QED
    BY <2>1, SyncEverywhere
<1> QED
  BY <1>3, <1>4, <1>5, <1>6, <1>7, <1>8 DEF SyncInv

\* A transaction that is sent is one that every client of the type accepts.
LEMMA MakeTxSync == ASSUME SyncInv, MakeTx PROVE SyncInv'
<1> DEFINE t == relay.type  x == relay.tx  q == send_tx_cache[t]  r == get_relay_transaction(t, q, x)
           msg == [kind |-> "tx", tx |-> x]
<1>0. /\ relay.pc = "make" /\ relay.what = "tx" /\ send_tx_cache' = [send_tx_cache EXCEPT ![t] = r.cache]
      /\ relay' = SendingTo(IF r.sent THEN clientMap ELSE {}, msg, relay)
      /\ UNCHANGED <<seen, waiting, conns, wire, recv_tx_cache, failed, raced>>
  BY DEF MakeTx
<1>1. TypeOK /\ RelayInv /\ relay \in TxRound \cup BlockRound
  BY <1>0 DEF SyncInv, RelayInv
<1>2. relay \in TxRound
  BY <1>0, <1>1 DEF BlockRound
<1>3. t \in CompressorType /\ x \in Tx
  BY <1>2 DEF TxRound
<1>4. Good(t, q)
  BY <1>3 DEF SyncInv, CacheInv
<1>5. seen' \in [CompressorType -> SUBSET Block]
  BY <1>0, <1>1 DEF TypeOK
<1>6. CASE r.sent
  <2> DEFINE nc == r.cache
  <2>1. recv_tx(t, q, x) = [ok |-> TRUE, cache |-> nc] /\ Good(t, nc) /\ x \in ToSet(nc) /\ Acceptable(t, x)
    BY <1>3, <1>4, <1>6, SentFacts
  <2>2. msg \in Msg /\ msg.kind = "tx" /\ msg.tx = x
    BY <1>3, TxMsg
  <2>3. relay' = SendingTo(clientMap, msg, relay)
    BY <1>0, <1>6
  <2> HIDE DEF msg, r, q
  <2>4. Deliver(t, q, msg) = [ok |-> TRUE, cache |-> nc, right |-> TRUE]
    <3> HIDE DEF t, x, nc
    <3>1. msg.kind = "tx"
      BY <2>2
    <3>2. recv_tx(t, q, msg.tx) = [ok |-> TRUE, cache |-> nc]
      BY <2>1, <2>2
    <3> QED
      BY <3>1, <3>2, TxDelivered
  <2>5. msg.kind = "tx" /\ t = 0 => msg.tx \in ToSet(nc) /\ Acceptable(0, msg.tx)
    BY <2>1, <2>2
  <2> HIDE DEF nc
  <2>6. send_tx_cache' = [send_tx_cache EXCEPT ![t] = nc]
    BY <1>0 DEF nc
  <2> QED
    BY <1>0, <1>3, <1>5, <2>1, <2>2, <2>3, <2>4, <2>5, <2>6, MadeSync DEF q
<1>7. CASE ~r.sent
  <2>1. r.cache = q
    BY <1>7, NotSent
  <2>2. send_tx_cache \in [CompressorType -> Seq(Tx)]
    BY <1>1, TypeFacts
  <2>3. send_tx_cache' = send_tx_cache
    BY <1>0, <1>3, <2>1, <2>2
  <2>4. relay' = SendingTo({}, msg, relay)
    BY <1>0, <1>7
  <2> HIDE DEF r, q, msg
  <2>5. /\ relay'.pc \in {"idle", "make", "send"} /\ relay'.pc # "send"
        /\ relay'.pc = "make" => relay' \in TxRound \cup BlockRound
    BY <1>1, <2>4, SendingShape
  <2>6. RelayInv'
    BY <1>5, <2>5 DEF RelayInv
  <2>7. TypeOK'
    BY <1>0, <1>1, <2>3, <2>5 DEF TypeOK, Within, conns
  <2>8. relay.pc # "send"
    BY <1>0
  <2> QED
    BY <1>0, <2>3, <2>5, <2>6, <2>7, <2>8, QuietSync
<1> QED
  BY <1>6, <1>7

\* A block is rebuilt from an equal cache: RoundTrip.
LEMMA MakeBlockSync == ASSUME SyncInv, MakeBlock PROVE SyncInv'
<1> DEFINE t == relay.type  b == relay.block  q == send_tx_cache[t]  r == CompressBlock(q, BlockTxs[b])
           msg == [kind |-> "block", block |-> b, body |-> r.body]
<1>0. /\ relay.pc = "make" /\ relay.what = "block"
      /\ UNCHANGED <<waiting, conns, wire, recv_tx_cache, failed, raced>>
  BY DEF MakeBlock
<1>1. TypeOK /\ RelayInv /\ relay \in TxRound \cup BlockRound
  BY <1>0 DEF SyncInv, RelayInv
<1>2. relay \in BlockRound
  BY <1>0, <1>1 DEF TxRound
<1>3. t \in CompressorType /\ b \in Block
  BY <1>2 DEF BlockRound
<1>4. Good(t, q)
  BY <1>3 DEF SyncInv, CacheInv
<1>c. \/ relay' = Idle /\ UNCHANGED <<send_tx_cache, seen>>
      \/ /\ send_tx_cache' = [send_tx_cache EXCEPT ![t] = r.cache] /\ seen' = [seen EXCEPT ![t] = @ \cup {b}]
         /\ relay' = SendingTo(clientMap, msg, relay)
  BY DEF MakeBlock
<1>5. CASE relay' = Idle /\ UNCHANGED <<send_tx_cache, seen>>
  <2>1. relay'.pc = "idle"
    BY <1>5 DEF Idle
  <2>2. RelayInv' /\ TypeOK'
    BY <1>0, <1>1, <1>5, <2>1 DEF RelayInv, TypeOK, Within, conns
  <2>3. relay.pc # "send" /\ relay'.pc # "send"
    BY <1>0, <2>1
  <2> QED
    BY <1>0, <1>5, <2>2, <2>3, QuietSync
<1>6. CASE /\ send_tx_cache' = [send_tx_cache EXCEPT ![t] = r.cache] /\ seen' = [seen EXCEPT ![t] = @ \cup {b}]
           /\ relay' = SendingTo(clientMap, msg, relay)
  <2> DEFINE nc == r.cache  txs == BlockTxs[b]
  <2>1. txs \in Seq(Tx)
    BY <1>3, ServerAssumption
  <2>2. q \in Cache
    BY <1>3, <1>4, GoodCache
  <2> HIDE DEF q, txs
  <2>3. Good(t, nc)
    BY <1>3, <1>4, <2>1, CompressGood DEF txs
  <2>4. DecompressBlock(q, r.body) = [ok |-> TRUE, cache |-> nc, txs |-> txs]
    BY <2>1, <2>2, RoundTrip DEF txs
  <2>5. r.body \in Seq(Entry)
    BY <2>1, <2>2, CompressedFacts DEF BodyOf, txs
  <2> HIDE DEF r
  <2>6. msg \in Msg /\ msg.kind = "block" /\ msg.block = b /\ msg.body = r.body
    BY <1>3, <2>5 DEF Msg
  <2> HIDE DEF msg
  <2>7. Deliver(t, q, msg) = [ok |-> TRUE, cache |-> nc, right |-> TRUE]
    <3> HIDE DEF t, b, nc
    <3>1. msg.kind = "block"
      BY <2>6
    <3>2. DecompressBlock(q, msg.body) = [ok |-> TRUE, cache |-> nc, txs |-> BlockTxs[msg.block]]
      <4>1. msg.block = b /\ msg.body = r.body
        BY <2>6
      <4> QED
        BY <2>4, <4>1 DEF txs
    <3> QED
      BY <3>1, <3>2, BlockDelivered, Zenon
  <2>8. msg.kind = "tx" /\ t = 0 => msg.tx \in ToSet(nc) /\ Acceptable(0, msg.tx)
    BY <2>6
  <2>9. seen' \in [CompressorType -> SUBSET Block]
    BY <1>1, <1>3, <1>6 DEF TypeOK
  <2> HIDE DEF nc
  <2>10. send_tx_cache' = [send_tx_cache EXCEPT ![t] = nc]
    BY <1>6 DEF nc
  <2> QED
    BY <1>0, <1>3, <1>6, <2>3, <2>6, <2>7, <2>8, <2>9, <2>10, MadeSync DEF q
<1> QED
  BY <1>c, <1>5, <1>6

----------------------------------------------------------------------------
(***************************************************************************)
(* Steps that send and read.                                               *)
(***************************************************************************)

\* The new client has all of the cache before it, and perhaps a message that the relaying
\* thread has made meanwhile.
LEMMA InitialInStep ==
  ASSUME SyncInv, NEW c \in Client, c \in clientMap, compressor_type[c] \in CompressorType,
         Owed(c) => relay.msg.kind = "tx" /\ relay.type = 0
  PROVE  LET t == compressor_type[c] IN
         Replay(t, <<>>, Dump(send_tx_cache[t]) \o OwedMsgs(c)) = Unread(send_tx_cache[t])
<1> DEFINE t == compressor_type[c]  q == send_tx_cache[t]
<1>0. q \in Seq(Tx) /\ Good(t, q)
  BY TypeFacts DEF SyncInv, CacheInv
<1>1. Dump(q) \in Seq(Msg) /\ Replay(t, <<>>, Dump(q)) = Unread(q)
  BY <1>0, DumpFacts, DumpReplayed
<1>2. CASE ~Owed(c)
  <2>1. OwedMsgs(c) = <<>>
    BY <1>2 DEF OwedMsgs
  <2>2. Dump(q) \o <<>> = Dump(q)
    BY <1>1, ConcatEmptySeq
  <2> QED
    BY <1>1, <2>1, <2>2
<1>3. CASE Owed(c)
  <2> DEFINE m == relay.msg
  <2>1. OwedMsgs(c) = <<m>> /\ relay.pc = "send" /\ relay.type = t /\ m.kind = "tx" /\ t = 0
    BY <1>3 DEF OwedMsgs, Owed
  <2>2. m \in Msg /\ m.tx \in ToSet(send_tx_cache[0]) /\ Acceptable(0, m.tx)
    BY <2>1 DEF SyncInv, OwedInv
  <2>3. m.tx \in ToSet(q)
    BY <2>1, <2>2
  <2> HIDE DEF q, t, m
  <2>4. recv_tx(0, q, m.tx) = [ok |-> TRUE, cache |-> q]
    BY <2>2, <2>3, SentAgain
  <2>5. recv_tx(t, q, m.tx) = [ok |-> TRUE, cache |-> q] /\ m.kind = "tx"
    BY <2>1, <2>4
  <2>6. Deliver(t, q, m) = [ok |-> TRUE, cache |-> q, right |-> TRUE]
    BY <2>5, TxDelivered
  <2>7. Replay(t, <<>>, Dump(q) \o <<m>>) = Unread(q)
    BY <1>1, <2>2, <2>6, ReadLast
  <2> QED
    BY <2>1, <2>7 DEF t, q
<1> QED
  BY <1>2, <1>3

\* A new client: what it is sent builds up the cache, and a message owed to it either is a
\* transaction that it already has or marks it as raced.
LEMMA SendInitialSync == ASSUME SyncInv, NEW c \in Client, SendInitial(c) PROVE SyncInv'
<1> DEFINE t == compressor_type[c]  q == send_tx_cache[t]
<1>0. /\ TypeOK /\ c \in clientMap /\ net[c] = "locked" /\ net' = [net EXCEPT ![c] = "ready"]
      /\ wire' = IF c \in gone THEN wire ELSE [wire EXCEPT ![c] = wire[c] \o Dump(q)]
      /\ raced' = IF Owed(c) /\ ~(relay.msg.kind = "tx" /\ relay.type = 0) THEN raced \cup {c} ELSE raced
      /\ UNCHANGED <<send_tx_cache, seen, waiting, clientMap, gone, compressor_type, relay, recv_tx_cache, failed>>
  BY DEF SyncInv, SendInitial, server, Dump
<1>a. /\ t \in CompressorType /\ wire[c] = <<>> /\ recv_tx_cache[c] = <<>>
      /\ q \in Seq(Tx) /\ wire \in [Client -> Seq(Msg)]
  BY <1>0, TypeFacts DEF SyncInv, ConnInv
<1>d. Dump(q) \in Seq(Msg)
  BY <1>a, DumpFacts
<1>e. wire[c] \o Dump(q) = Dump(q)
  BY <1>a, <1>d, ConcatEmptySeq
<1> HIDE DEF q
<1>b. /\ net' \in [Client -> {"start", "typed", "locked", "ready"}] /\ net'[c] = "ready"
      /\ \A d \in Client \ {c} : net'[d] = net[d]
  BY <1>0, TypeFacts
<1>w. /\ wire' \in [Client -> Seq(Msg)] /\ \A d \in Client \ {c} : wire'[d] = wire[d]
      /\ wire'[c] = IF c \in gone THEN <<>> ELSE Dump(q)
  BY <1>0, <1>a, <1>d, <1>e
<1>r. raced \subseteq raced' /\ raced' \subseteq raced \cup {c}
  BY <1>0
<1>1. RelayInv'
  BY <1>0 DEF SyncInv, RelayInv
<1>2. TypeOK'
  BY <1>0, <1>b, <1>w, <1>r DEF TypeOK, Within
<1>4. ConnInv'
  BY <1>0, <1>a, <1>b, <1>w DEF SyncInv, ConnInv, Live
<1>5. OwedInv' /\ CacheInv' /\ OnlyRacedFail'
  BY <1>0, <1>r DEF SyncInv, OwedInv, CacheInv, OnlyRacedFail
<1>6. InSync'
  <2>1. OthersKept(c)
    BY <1>0, <1>b, <1>w, <1>r DEF OthersKept
  <2>2. ASSUME NEW d \in Live' \ raced', net'[d] = "ready" PROVE SyncAt(d)'
    <3>1. d \in Client
      BY <1>0, <2>2, TypeFacts DEF Live
    <3>2. CASE d # c
      BY <1>0, <2>1, <2>2, <3>1, <3>2, OthersInStep
    <3>3. CASE d = c
      <4>1. c \notin gone /\ c \notin raced'
        BY <1>0, <2>2, <3>3 DEF Live
      <4>2. Owed(c) => relay.msg.kind = "tx" /\ relay.type = 0
        BY <1>0, <4>1
      <4>3. Replay(t, <<>>, Dump(q) \o OwedMsgs(c)) = Unread(q)
        BY <1>0, <1>a, <4>2, InitialInStep DEF q
      <4>4. OwedMsgs(c)' = OwedMsgs(c)
        BY <1>0, OwedKept
      <4>5. wire'[c] = Dump(q) /\ recv_tx_cache'[c] = <<>> /\ compressor_type'[c] = t /\ send_tx_cache'[t] = q
        BY <1>0, <1>a, <1>w, <4>1 DEF q
      <4>6. SyncAt(c)'
        BY <4>3, <4>4, <4>5 DEF SyncAt
      <4> QED
        BY <3>3, <4>6
    <3> QED
      BY <3>2, <3>3
  <2> QED
    BY <2>2, SyncEverywhere
<1> QED
  BY <1>1, <1>2, <1>4, <1>5, <1>6 DEF SyncInv

\* The message moves from what c is owed to what is on its connection.
LEMMA SendToSync == ASSUME SyncInv, NEW c \in Client, SendTo(c) PROVE SyncInv'
<1> DEFINE msg == relay.msg  todo == relay.todo \ {c}
<1>0. /\ TypeOK /\ relay.pc = "send" /\ c \in relay.todo /\ (Addressed(c) => net[c] # "locked")
      /\ wire' = IF Addressed(c) THEN [wire EXCEPT ![c] = Append(wire[c], msg)] ELSE wire
      /\ relay' = SendingTo(todo, msg, relay.round)
      /\ UNCHANGED <<send_tx_cache, seen, waiting, clientMap, gone, compressor_type, net, recv_tx_cache, failed, raced>>
  BY DEF SyncInv, SendTo, server, conns
<1>a. /\ relay.round \in TxRound \cup BlockRound /\ relay.type = relay.round.type
      /\ relay.todo \subseteq clientMap /\ msg \in Msg
  BY <1>0 DEF SyncInv, RelayInv, OwedInv
<1>s. /\ relay'.pc \in {"idle", "make", "send"}
      /\ relay'.pc = "make" => relay' \in TxRound \cup BlockRound
      /\ relay'.pc = "send" =>
           relay'.type = relay.round.type /\ relay'.msg = msg /\ relay'.todo = todo /\ relay'.round = relay.round
      /\ relay'.pc = "send" <=> todo # {}
  BY <1>0, <1>a, SendingShape
<1>t. wire \in [Client -> Seq(Msg)]
  BY <1>0, TypeFacts
<1>p. Append(wire[c], msg) \in Seq(Msg) /\ Append(wire[c], msg) = wire[c] \o <<msg>>
  BY <1>a, <1>t
<1>w. /\ wire' \in [Client -> Seq(Msg)] /\ \A d \in Client \ {c} : wire'[d] = wire[d]
      /\ wire'[c] = IF Addressed(c) THEN wire[c] \o <<msg>> ELSE wire[c]
  BY <1>0, <1>t, <1>p
<1>1. RelayInv'
  BY <1>0, <1>a, <1>s DEF SyncInv, RelayInv
<1>2. TypeOK'
  BY <1>0, <1>s, <1>w DEF TypeOK, Within
<1>n. Addressed(c) => net[c] = "ready" /\ c \in Live
  BY <1>0, <1>a DEF Addressed, Live
<1>4. ConnInv'
  BY <1>0, <1>w, <1>n DEF SyncInv, ConnInv, Live
<1>5. CacheInv' /\ OnlyRacedFail'
  BY <1>0 DEF SyncInv, CacheInv, OnlyRacedFail
<1>6. OwedInv'
  <2> SUFFICES ASSUME relay'.pc = "send" PROVE OwedInv'
    BY DEF OwedInv
  <2>1. relay'.type = relay.type /\ relay'.msg = msg /\ relay'.todo = todo /\ relay'.round = relay.round
    BY <1>a, <1>s
  <2> QED
    BY <1>0, <1>a, <2>1 DEF SyncInv, OwedInv
<1>7. InSync'
  <2>1. ASSUME NEW d \in Live' \ raced', net'[d] = "ready" PROVE SyncAt(d)'
    <3>1. d \in Live \ raced /\ net[d] = "ready" /\ d \in Client /\ d \notin gone
      BY <1>0, <2>1, TypeFacts DEF Live
    <3>2. SyncAt(d)
      BY <3>1, SyncHere DEF SyncInv
    <3>3. CASE d # c
      <4>1. Owed(d)' <=> Owed(d)
        <5>1. CASE todo = {}
          <6>1. d \notin relay.todo
            BY <3>3, <5>1
          <6> QED
            BY <1>s, <5>1, <6>1 DEF Owed
        <5>2. CASE todo # {}
          <6>1. relay'.pc = "send" /\ relay'.type = relay.type /\ relay'.todo = todo
            BY <1>a, <1>s, <5>2
          <6> QED
            BY <1>0, <3>3, <6>1 DEF Owed
        <5> QED
          BY <5>1, <5>2
      <4>2. Owed(d)' => relay'.msg = relay.msg
        BY <1>s DEF Owed
      <4>3. OwedMsgs(d)' = OwedMsgs(d)
        BY <4>1, <4>2 DEF OwedMsgs
      <4> QED
        BY <1>0, <1>w, <3>1, <3>2, <3>3, <4>3, SyncKept
    <3>4. CASE d = c
      <4>1. OwedMsgs(c)' = <<>>
        <5>1. ~Owed(c)'
          BY <1>s DEF Owed
        <5> QED
          BY <5>1 DEF OwedMsgs
      <4>2. CASE compressor_type[c] = relay.type
        <5>1. Addressed(c) /\ Owed(c)
          BY <1>0, <3>1, <3>4, <4>2 DEF Addressed, Owed
        <5>2. OwedMsgs(c) = <<msg>> /\ wire'[c] = wire[c] \o <<msg>>
          BY <1>w, <5>1 DEF OwedMsgs
        <5>3. wire'[c] \o <<>> = wire[c] \o <<msg>>
          <6>1. wire'[c] \in Seq(Msg)
            BY <1>w
          <6>2. wire'[c] \o <<>> = wire'[c]
            BY <6>1, ConcatEmptySeq
          <6> QED
            BY <5>2, <6>2
        <5>4. wire'[c] \o OwedMsgs(c)' = wire[c] \o OwedMsgs(c)
          BY <4>1, <5>2, <5>3
        <5> HIDE DEF msg
        <5> QED
          BY <1>0, <3>2, <3>4, <5>4 DEF SyncAt
      <4>3. CASE compressor_type[c] # relay.type
        <5>1. ~Addressed(c) /\ ~Owed(c)
          BY <4>3 DEF Addressed, Owed
        <5>2. OwedMsgs(c) = <<>> /\ wire'[c] = wire[c]
          BY <1>w, <5>1 DEF OwedMsgs
        <5> QED
          BY <1>0, <3>2, <3>4, <4>1, <5>2, SyncKept
      <4> QED
        BY <4>2, <4>3
    <3> QED
      BY <3>3, <3>4
  <2> QED
    BY <2>1, SyncEverywhere
<1> QED
  BY <1>1, <1>2, <1>4, <1>5, <1>6, <1>7 DEF SyncInv

\* Whatever is read, the client has a list of transactions afterwards.
LEMMA DeliverType ==
  ASSUME NEW t \in CompressorType, NEW q \in Seq(Tx), NEW m \in Msg
  PROVE  Deliver(t, q, m).cache \in Seq(Tx)
<1>1. CASE m.kind = "tx"
  <2>1. m.tx \in Tx
    BY <1>1 DEF Msg
  <2>2. CacheAdd(t, q, m.tx) \in Seq(Tx)
    BY <2>1, CacheAddType
  <2>3. Deliver(t, q, m).cache = recv_tx(t, q, m.tx).cache
    BY <1>1 DEF Deliver
  <2>4. recv_tx(t, q, m.tx).cache \in {q, CacheAdd(t, q, m.tx)}
    BY DEF recv_tx
  <2> QED
    BY <2>2, <2>3, <2>4
<1>2. CASE m.kind # "tx"
  <2>1. m.body \in Seq(Entry)
    BY <1>2 DEF Msg
  <2>2. DecompressBlock(q, m.body) \in State(1..Len(m.body))
    BY <2>1, DecompressType
  <2>3. DecompressBlock(q, m.body).cache \in Seq(Tx)
    BY <2>2 DEF State
  <2>4. Deliver(t, q, m).cache = DecompressBlock(q, m.body).cache
    BY <1>2 DEF Deliver
  <2> QED
    BY <2>3, <2>4
<1> QED
  BY <1>1, <1>2

\* A client that has not been raced can read what it has before it; one that has may
\* fail, and is then among those it may happen to.
LEMMA ReceiveSync == ASSUME SyncInv, NEW c \in Client, Receive(c) PROVE SyncInv'
<1> DEFINE t == compressor_type[c]  q == recv_tx_cache[c]  w == wire[c]  r == Deliver(t, q, Head(w))
           sc == send_tx_cache[t]  o == OwedMsgs(c)
<1>0. /\ TypeOK /\ c \in Live /\ w # <<>>
      /\ failed' = IF r.ok /\ r.right THEN failed ELSE failed \cup {c}
      /\ UNCHANGED <<send_tx_cache, seen, waiting, clientMap, compressor_type, net, relay, raced>>
  BY DEF SyncInv, Receive, server
<1>c. \/ r.ok /\ wire' = [wire EXCEPT ![c] = Tail(w)]
              /\ recv_tx_cache' = [recv_tx_cache EXCEPT ![c] = r.cache] /\ gone' = gone
      \/ ~r.ok /\ Broken({c})
  BY DEF Receive
<1>t. /\ wire \in [Client -> Seq(Msg)] /\ recv_tx_cache \in [Client -> Seq(Tx)]
      /\ w \in Seq(Msg) /\ q \in Seq(Tx) /\ failed \subseteq Client /\ gone \subseteq clientMap
  BY <1>0, TypeFacts
<1>a. net[c] = "ready" /\ t \in CompressorType /\ c \in clientMap
  BY <1>0 DEF SyncInv, ConnInv, Live
<1>h. Head(w) \in Msg /\ Tail(w) \in Seq(Msg)
  BY <1>0, <1>t
<1>d. r.cache \in Seq(Tx)
  BY <1>t, <1>a, <1>h, DeliverType
<1>o. o \in Seq(Msg)
  <2>1. Owed(c) => relay.msg \in Msg
    BY DEF SyncInv, OwedInv, Owed
  <2> QED
    BY <2>1 DEF OwedMsgs
<1>s. ASSUME c \notin raced PROVE r.ok /\ r.right /\ Replay(t, r.cache, Tail(w) \o o) = Unread(sc)
  <2>1. SyncAt(c)
    BY <1>0, <1>a, <1>s, SyncHere DEF SyncInv
  <2>2. Replay(t, q, w \o o) = Unread(sc)
    BY <2>1 DEF SyncAt
  <2> HIDE DEF t, q, w, sc, o
  <2> QED
    BY <1>0, <1>t, <1>o, <2>2, ReadOne
<1> HIDE DEF r
<1>k. /\ wire' \in [Client -> Seq(Msg)] /\ recv_tx_cache' \in [Client -> Seq(Tx)]
      /\ gone' \subseteq clientMap /\ gone' \ {c} = gone \ {c}
      /\ \A d \in Client \ {c} : wire'[d] = wire[d] /\ recv_tx_cache'[d] = recv_tx_cache[d]
      /\ IF r.ok THEN wire'[c] = Tail(w) /\ recv_tx_cache'[c] = r.cache /\ gone' = gone
         ELSE wire'[c] = <<>> /\ recv_tx_cache'[c] = <<>> /\ c \in gone'
  <2>1. CASE r.ok
    <3>1. wire' = [wire EXCEPT ![c] = Tail(w)] /\ recv_tx_cache' = [recv_tx_cache EXCEPT ![c] = r.cache] /\ gone' = gone
      BY <1>c, <2>1
    <3> HIDE DEF w
    <3> QED
      BY <1>t, <1>h, <1>d, <2>1, <3>1
  <2>2. CASE ~r.ok
    <3>1. Broken({c})
      BY <1>c, <2>2
    <3> QED
      BY <1>0, <1>a, <2>2, <3>1, BrokenFacts
  <2> QED
    BY <2>1, <2>2
<1>1. RelayInv'
  BY <1>0 DEF SyncInv, RelayInv
<1>2. TypeOK'
  <2>1. failed' \subseteq Client
    BY <1>0, <1>t
  <2> QED
    BY <1>0, <1>k, <2>1 DEF TypeOK, Within
<1>4. ConnInv'
  BY <1>0, <1>a, <1>k DEF SyncInv, ConnInv, Live
<1>5. OwedInv' /\ CacheInv'
  BY <1>0 DEF SyncInv, OwedInv, CacheInv
<1>6. OnlyRacedFail'
  <2>1. failed \subseteq raced
    BY DEF SyncInv, OnlyRacedFail
  <2>2. failed' \subseteq raced
    BY <1>0, <1>s, <2>1
  <2> QED
    BY <1>0, <2>2 DEF OnlyRacedFail
<1>7. InSync'
  <2>1. OthersKept(c)
    BY <1>0, <1>k DEF OthersKept
  <2>2. ASSUME NEW d \in Live' \ raced', net'[d] = "ready" PROVE SyncAt(d)'
    <3>1. d \in Client
      BY <1>0, <2>2, TypeFacts DEF Live
    <3>2. CASE d # c
      BY <1>0, <2>1, <2>2, <3>1, <3>2, OthersInStep
    <3>3. CASE d = c
      <4>1. r.ok /\ Replay(t, r.cache, Tail(w) \o o) = Unread(sc)
        BY <1>0, <1>s, <2>2, <3>3
      <4>2. wire'[c] = Tail(w) /\ recv_tx_cache'[c] = r.cache /\ compressor_type'[c] = t /\ send_tx_cache'[t] = sc
        BY <1>0, <1>k, <4>1
      <4>3. OwedMsgs(c)' = o
        BY <1>0, OwedKept
      <4>4. SyncAt(c)'
        BY <4>1, <4>2, <4>3 DEF SyncAt
      <4> QED
        BY <3>3, <4>4
    <3> QED
      BY <3>2, <3>3
  <2> QED
    BY <2>2, SyncEverywhere
<1> QED
  BY <1>1, <1>2, <1>4, <1>5, <1>6, <1>7 DEF SyncInv

\* The invariant holds at the start ...
LEMMA InitSync == Init => SyncInv
<1> SUFFICES ASSUME Init PROVE SyncInv
  OBVIOUS
<1> USE DEF Init
<1>1. relay.pc = "idle" /\ RelayInv
  BY DEF RelayInv, Idle
<1>2. <<>> \in Seq(Tx) /\ <<>> \in Seq(Msg)
  OBVIOUS
<1>3. CacheInv
  BY EmptyGood DEF CacheInv
<1>4. TypeOK
  <2>1. \A t \in CompressorType : Within(t, send_tx_cache[t])
    BY <1>3 DEF CacheInv, Good
  <2> QED
    BY <1>1, <1>2, <2>1 DEF TypeOK
<1>5. ConnInv /\ OwedInv /\ OnlyRacedFail
  BY <1>1 DEF ConnInv, OwedInv, OnlyRacedFail
<1>6. InSync
  BY DEF InSync, Live
<1> QED
  BY <1>1, <1>3, <1>4, <1>5, <1>6 DEF SyncInv

\* ... and every step keeps it.
LEMMA SyncInvariance == Spec => []SyncInv
<1>1. SyncInv /\ [Next]_vars => SyncInv'
  <2> SUFFICES ASSUME SyncInv, [Next]_vars PROVE SyncInv'
    OBVIOUS
  <2>1. ASSUME NEW c \in Client,
               Accept(c) \/ Cull(c) \/ Drop(c) \/ Version(c) \/ Connected(c) \/ SendInitial(c) \/ SendTo(c) \/ Receive(c)
        PROVE  SyncInv'
    BY <2>1, AcceptSync, CullSync, DropSync, VersionSync, ConnectedSync, SendInitialSync, SendToSync, ReceiveSync
  <2>2. ASSUME NEW x \in Tx, MempoolHash(x) \/ StartTx(x) PROVE SyncInv'
    BY <2>2, QuietSteps
  <2>3. ASSUME NEW b \in Block, StartBlock(b) \/ HeadersSeen(b) PROVE SyncInv'
    BY <2>3, QuietSteps
  <2>4. CASE MakeTx
    BY <2>4, MakeTxSync
  <2>5. CASE MakeBlock
    BY <2>5, MakeBlockSync
  <2>6. CASE UNCHANGED vars
    BY <2>6, QuietSteps
  <2> QED
    BY <2>1, <2>2, <2>3, <2>4, <2>5, <2>6 DEF Next
<1> QED
  BY <1>1, InitSync, PTL DEF Spec

\* Every state of the relay server is of its type; above all, neither send cache ever
\* outgrows the limits it was made with (flaggedarrayset.cpp:211-226, server.cpp:24-41).
THEOREM ServerTypes == Spec => []TypeOK
<1>1. SyncInv => TypeOK
  BY DEF SyncInv
<1> QED
  BY <1>1, SyncInvariance, PTL

\* One send cache serves all clients of a type: at every moment it is what each of them,
\* once it has read its connection and the message still owed to it, will have in its own
\* cache, without an error and with every block rebuilt right, whoever connects, breaks off
\* or falls behind.  The one exception are the clients that connected between the making of
\* a message and its sending to them (server.cpp:337-356, 402-420, 249-254 against
\* client.cpp:114-140).
THEOREM CachesInStep == Spec => []InSync
<1>1. SyncInv => InSync
  BY DEF SyncInv
<1> QED
  BY <1>1, SyncInvariance, PTL

\* Nobody else is ever given a wrong block, or one it cannot decode, or a transaction it
\* must refuse (server.cpp:342-348 against 127-131).
THEOREM OnlyRacedClientsFail == Spec => []OnlyRacedFail
<1>1. SyncInv => OnlyRacedFail
  BY DEF SyncInv
<1> QED
  BY <1>1, SyncInvariance, PTL

----------------------------------------------------------------------------
(***************************************************************************)
(* Who holds map_mutex.                                                    *)
(***************************************************************************)

\* A round over the clients has some left.
SomeLeft == relay.pc = "send" => relay.todo # {}

\* The guards of the steps MapMutexHolderGoesOn names: the next message can be made, or
\* there are clients left and each can be sent it, or its thread, which holds the
\* send_mutex that is waited for, can send the initial transactions.
HolderReady ==
  ~mapMutexFree =>
    \/ relay.pc = "make" /\ relay.what \in {"tx", "block"}
    \/ /\ relay.pc = "send" /\ relay.todo # {}
       /\ \A c \in relay.todo : \/ Addressed(c) => net[c] # "locked"
                                \/ c \in clientMap /\ net[c] = "locked"

\* The loop over the clients is left when none remains.
LEMMA SendingLeaves ==
  ASSUME NEW r \in TxRound \cup BlockRound, NEW todo, NEW msg
  PROVE  SendingTo(todo, msg, r).pc = "send" => SendingTo(todo, msg, r).todo # {}
<1>1. CASE todo = {}
  <2>1. SendingTo(todo, msg, r) = NextType(r)
    BY <1>1 DEF SendingTo
  <2>2. NextType(r).pc # "send"
    <3>1. r.pc = "make" /\ [r EXCEPT !.type = @ + 1].pc = r.pc
      BY DEF TxRound, BlockRound
    <3> QED
      BY <3>1 DEF NextType, Idle
  <2> QED
    BY <2>1, <2>2
<1>2. CASE todo # {}
  BY <1>2 DEF SendingTo
<1> QED
  BY <1>1, <1>2

\* The thread that holds map_mutex is never left without a step, of its own or of the one
\* client's thread it may wait for: a round never outlives its clients, since the cull
\* thread needs map_mutex too, and a client's thread takes no other lock while it holds
\* its send_mutex (server.cpp:337-356, 402-420, 127-131, 216).
THEOREM HolderNeverStuck == Spec => []HolderReady
<1>1. Init => SomeLeft
  BY DEF Init, SomeLeft, Idle
<1>2. RelayInv /\ SomeLeft /\ [Next]_vars => SomeLeft'
  <2> SUFFICES ASSUME RelayInv, SomeLeft, [Next]_vars PROVE SomeLeft'
    OBVIOUS
  <2>0. ASSUME UNCHANGED relay PROVE SomeLeft'
    BY <2>0 DEF SomeLeft
  <2>1. ASSUME NEW c \in Client,
               Accept(c) \/ Cull(c) \/ Drop(c) \/ Version(c) \/ Connected(c) \/ SendInitial(c) \/ Receive(c)
        PROVE  SomeLeft'
    BY <2>0, <2>1 DEF Accept, Cull, Drop, Version, Connected, SendInitial, Receive
  <2>2. ASSUME NEW c \in Client, SendTo(c) PROVE SomeLeft'
    <3>1. relay.pc = "send" /\ relay' = SendingTo(relay.todo \ {c}, relay.msg, relay.round)
      BY <2>2 DEF SendTo
    <3>2. relay.round \in TxRound \cup BlockRound
      BY <3>1 DEF RelayInv
    <3> QED
      BY <3>1, <3>2, SendingLeaves DEF SomeLeft
  <2>3. ASSUME NEW x \in Tx, MempoolHash(x) \/ StartTx(x) PROVE SomeLeft'
    BY <2>0, <2>3 DEF MempoolHash, StartTx, SomeLeft
  <2>4. ASSUME NEW b \in Block, StartBlock(b) \/ HeadersSeen(b) PROVE SomeLeft'
    BY <2>0, <2>4 DEF StartBlock, HeadersSeen, SomeLeft
  <2>5. CASE MakeTx
    <3>1. PICK todo, msg : relay.pc = "make" /\ relay' = SendingTo(todo, msg, relay)
      BY <2>5 DEF MakeTx
    <3>2. relay \in TxRound \cup BlockRound
      BY <3>1 DEF RelayInv
    <3> QED
      BY <3>1, <3>2, SendingLeaves DEF SomeLeft
  <2>6. CASE MakeBlock
    <3>1. relay.pc = "make" /\ (relay' = Idle \/ \E todo, msg : relay' = SendingTo(todo, msg, relay))
      BY <2>6 DEF MakeBlock
    <3>2. relay \in TxRound \cup BlockRound
      BY <3>1 DEF RelayInv
    <3>3. CASE relay' = Idle
      BY <3>3 DEF SomeLeft, Idle
    <3>4. CASE \E todo, msg : relay' = SendingTo(todo, msg, relay)
      BY <3>2, <3>4, SendingLeaves DEF SomeLeft
    <3> QED
      BY <3>1, <3>3, <3>4
  <2>7. CASE UNCHANGED vars
    BY <2>0, <2>7 DEF vars
  <2> QED
    BY <2>1, <2>2, <2>3, <2>4, <2>5, <2>6, <2>7 DEF Next
<1>3. SyncInv /\ SomeLeft => HolderReady
  <2> SUFFICES ASSUME SyncInv, SomeLeft, relay.pc # "idle" PROVE HolderReady
    BY DEF HolderReady, mapMutexFree
  <2>1. CASE relay.pc = "make"
    <3>1. relay \in TxRound \cup BlockRound
      BY <2>1 DEF SyncInv, RelayInv
    <3>2. relay.what \in {"tx", "block"}
      BY <3>1 DEF TxRound, BlockRound
    <3> QED
      BY <2>1, <3>2 DEF HolderReady
  <2>2. CASE relay.pc = "send"
    <3>1. relay.todo # {}
      BY <2>2 DEF SomeLeft
    <3>2. relay.todo \subseteq clientMap
      BY <2>2 DEF SyncInv, OwedInv
    <3>3. ASSUME NEW c \in relay.todo
          PROVE  \/ Addressed(c) => net[c] # "locked"
                 \/ c \in clientMap /\ net[c] = "locked"
      BY <3>2
    <3> QED
      BY <2>2, <3>1, <3>3 DEF HolderReady
  <2> QED
    BY <2>1, <2>2 DEF SyncInv, RelayInv
<1>4. SyncInv => RelayInv
  BY DEF SyncInv
<1> QED
  BY <1>1, <1>2, <1>3, <1>4, SyncInvariance, PTL DEF Spec
=============================================================================
