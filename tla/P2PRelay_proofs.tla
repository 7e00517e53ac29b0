-------------------------- MODULE P2PRelay_proofs --------------------------
(***************************************************************************)
(* Proofs about the server's two connections to its bitcoind, for any      *)
(* chain, transactions, number of connections and limits of the sets.      *)
(***************************************************************************)
EXTENDS P2PRelay, ListTheorems

TxItem    == {"tx"} \X Tx
BlockItem == {Block(h) : h \in 1..MaxBlock}

\* What the bitcoind sends.
Greeting == [kind : {"version", "verack"}]
Later ==
  [kind : {"data"}, item : Item] \cup [kind : {"inv"}, items : Seq(Item)]
    \cup [kind : {"headers"}, from : Nat, last : 0..MaxBlock]

ShapeInv ==
  /\ phase \in [Relayer -> {"setup", "up", "swapped", "down"}]
  /\ conn \in [Relayer -> Nat] /\ \A r \in Relayer : conn[r] <= MaxConn[r]
  /\ connected \in [Relayer -> 0..2] /\ greeted \in [Relayer -> {"none", "version", "verack"}]
  /\ push \in [Relayer -> {Nothing} \cup [item : Item, since : Nat]]
  /\ fromNode \in [Relayer -> Seq(Greeting \cup Later)]
  /\ fresh \in [Relayer -> SUBSET Item] /\ \A r \in Relayer : IsFiniteSet(fresh[r])
  /\ early \in [Relayer -> BOOLEAN] /\ stale \in [Relayer -> BOOLEAN]

\* What is remembered, and what the bitcoind has.
SetsInv ==
  /\ seen \in [Relayer -> [{"tx", "block"} -> Seq(Item)]]
  /\ \A r \in Relayer : /\ Remembers(seen[r]["tx"], Item, TxSeenMax)
                        /\ Remembers(seen[r]["block"], Item, BlockSeenMax)
  /\ Remembers(waiting, Item, WaitingMax)
  /\ height \in 0..MaxBlock /\ pool \subseteq TxItem
  /\ sent \subseteq Item /\ relayed \subseteq Item /\ lost \subseteq Item
  /\ asked \subseteq BlockItem /\ ToSet(waiting) \subseteq TxItem

Version == [kind |-> "version"]
Verack  == [kind |-> "verack"]

\* The handshake as both sides and the wire between them see it.
Shaking(r) ==
  \/ connected[r] = 0 /\ greeted[r] = "version" /\ fromNode[r] = <<Version, Verack>>
  \/ /\ connected[r] = 1 /\ greeted[r] = "verack"
     /\ fromNode[r] # <<>> /\ Head(fromNode[r]) = Verack /\ Tail(fromNode[r]) \in Seq(Later)
  \/ connected[r] = 2 /\ greeted[r] = "verack" /\ fromNode[r] \in Seq(Later)

HandshakeInv ==
  \A r \in Relayer :
    /\ phase[r] = "up" => Shaking(r)
    /\ phase[r] # "up" => greeted[r] = "none" /\ fromNode[r] = <<>>
    /\ phase[r] \in {"setup", "down"} => connected[r] = 0
    /\ greeted[r] # "verack" => fresh[r] = {}

\* A thread that is about to send found the handshake over, of this connection or
\* of an earlier one.
PushInv ==
  \A r \in Relayer :
    /\ push[r] # Nothing =>
         /\ push[r].since <= conn[r]
         /\ push[r].since = conn[r] /\ Alive(r) => phase[r] = "up" /\ connected[r] = 2
    /\ early[r] => stale[r]

\* The bitcoind has what it announces.
Announced(q) == UNION {ToSet(m.items) : m \in {m \in ToSet(q) : m.kind = "inv"}}

HaveInv == \A r \in Relayer : \A i \in fresh[r] \cup Announced(fromNode[r]) : Has(i)

\* A block that recv remembers it has asked for.
SeenInv == ToSet(seen["recv"]["block"]) \subseteq asked

\* The inductive invariant: of the connections, and of what is asked for on them.
CoreInv == ShapeInv /\ HandshakeInv /\ PushInv
DataInv == SetsInv /\ HaveInv /\ SeenInv /\ BlocksAccounted /\ RequestsAccounted
IndInv  == CoreInv /\ DataInv

----------------------------------------------------------------------------
(***************************************************************************)
(* The connections and their handshake.                                    *)
(***************************************************************************)
\* The parts of the state the core speaks of.
core == <<phase, conn, connected, push, fromNode, greeted, fresh, early, stale>>

LEMMA CoreKept == ASSUME CoreInv, UNCHANGED core PROVE CoreInv'
<1>1. /\ phase' = phase /\ conn' = conn /\ connected' = connected /\ push' = push
      /\ fromNode' = fromNode /\ greeted' = greeted /\ fresh' = fresh
      /\ early' = early /\ stale' = stale
  BY DEF core
<1>2. ShapeInv'
  BY <1>1 DEF CoreInv, ShapeInv
<1>3. HandshakeInv'
  BY <1>1 DEF CoreInv, HandshakeInv, Shaking
<1>4. PushInv'
  BY <1>1 DEF CoreInv, PushInv, Alive
<1> QED
  BY <1>2, <1>3, <1>4 DEF CoreInv

LEMMA ConnectCore ==
  ASSUME P2PAssumption, CoreInv, NEW r \in Relayer, Connect(r) PROVE CoreInv'
<1>1. /\ phase[r] = "down" /\ conn[r] < MaxConn[r] /\ conn[r] \in Nat /\ MaxConn[r] \in Nat
      /\ phase' = [phase EXCEPT ![r] = "setup"] /\ conn' = [conn EXCEPT ![r] = @ + 1]
      /\ early' = [early EXCEPT ![r] = FALSE] /\ stale' = [stale EXCEPT ![r] = FALSE]
      /\ connected' = connected /\ push' = push /\ fromNode' = fromNode
      /\ greeted' = greeted /\ fresh' = fresh
  BY DEF Connect, node, CoreInv, ShapeInv, P2PAssumption
<1>2. ShapeInv'
  BY <1>1 DEF CoreInv, ShapeInv
<1>3. HandshakeInv'
  BY <1>1 DEF CoreInv, ShapeInv, HandshakeInv, Shaking
<1>4. PushInv'
  <2> SUFFICES ASSUME NEW q \in Relayer
               PROVE  /\ push[q] # Nothing =>
                           /\ push[q].since <= conn'[q]
                           /\ push[q].since = conn'[q] /\ Alive(q)' => phase'[q] = "up" /\ connected'[q] = 2
                      /\ early'[q] => stale'[q]
    BY <1>1 DEF PushInv
  <2>1. CASE q = r
    <3>1. conn'[q] = conn[q] + 1 /\ ~early'[q]
      BY <1>1, <2>1 DEF CoreInv, ShapeInv
    <3>2. push[q] # Nothing => push[q].since \in Nat /\ push[q].since <= conn[q]
      BY DEF CoreInv, ShapeInv, PushInv
    <3> QED
      BY <1>1, <2>1, <3>1, <3>2
  <2>2. CASE q # r
    <3>1. conn'[q] = conn[q] /\ phase'[q] = phase[q] /\ early'[q] = early[q] /\ stale'[q] = stale[q]
      BY <1>1, <2>2 DEF CoreInv, ShapeInv
    <3> QED
      BY <1>1, <3>1 DEF CoreInv, PushInv, Alive
  <2> QED
    BY <2>1, <2>2
<1> QED
  BY <1>2, <1>3, <1>4 DEF CoreInv

LEMMA SendVersionCore ==
  ASSUME CoreInv, NEW r \in Relayer, SendVersion(r) PROVE CoreInv'
<1>1. /\ phase[r] = "setup" /\ phase' = [phase EXCEPT ![r] = "up"]
      /\ connected' = [connected EXCEPT ![r] = 0] /\ greeted' = [greeted EXCEPT ![r] = "version"]
      /\ fromNode' = [fromNode EXCEPT ![r] = <<Version, Verack>>]
      /\ conn' = conn /\ push' = push /\ fresh' = fresh /\ early' = early /\ stale' = stale
  BY DEF SendVersion, history, Version, Verack
<1>2. ShapeInv'
  <2>1. <<Version, Verack>> \in Seq(Greeting \cup Later)
    BY DEF Version, Verack, Greeting
  <2> QED
    BY <1>1, <2>1 DEF CoreInv, ShapeInv
<1>3. HandshakeInv'
  BY <1>1 DEF CoreInv, ShapeInv, HandshakeInv, Shaking
<1>4. PushInv'
  <2>1. connected[r] = 0
    BY <1>1 DEF CoreInv, HandshakeInv
  <2>2. push[r] # Nothing => push[r].since # conn[r]
    BY <1>1, <2>1 DEF CoreInv, PushInv, Alive
  <2>3. \A q \in Relayer \ {r} : phase'[q] = phase[q] /\ connected'[q] = connected[q]
    BY <1>1 DEF CoreInv, ShapeInv
  <2> QED
    BY <1>1, <2>2, <2>3 DEF CoreInv, PushInv, Alive
<1> QED
  BY <1>2, <1>3, <1>4 DEF CoreInv

LEMMA LoseCore ==
  ASSUME CoreInv, NEW r \in Relayer, Alive(r), Lose(r), UNCHANGED <<conn, connected, push, early, stale>>
  PROVE  CoreInv'
<1>1. /\ phase' = [phase EXCEPT ![r] = "swapped"] /\ fromNode' = [fromNode EXCEPT ![r] = <<>>]
      /\ fresh' = [fresh EXCEPT ![r] = {}] /\ greeted' = [greeted EXCEPT ![r] = "none"]
      /\ conn' = conn /\ connected' = connected /\ push' = push /\ early' = early /\ stale' = stale
  BY DEF Lose
<1>2. ShapeInv'
  <2>1. IsFiniteSet({})
    BY FS_EmptySet
  <2>2. fromNode' \in [Relayer -> Seq(Greeting \cup Later)]
    BY <1>1 DEF CoreInv, ShapeInv
  <2> QED
    BY <1>1, <2>1, <2>2 DEF CoreInv, ShapeInv
<1>3. HandshakeInv'
  BY <1>1 DEF CoreInv, ShapeInv, HandshakeInv, Shaking
<1>4. PushInv'
  BY <1>1 DEF CoreInv, ShapeInv, PushInv, Alive
<1> QED
  BY <1>2, <1>3, <1>4 DEF CoreInv

LEMMA OnDisconnectCore ==
  ASSUME CoreInv, NEW r \in Relayer, on_disconnect(r) PROVE CoreInv'
<1>1. /\ phase[r] = "swapped" /\ phase' = [phase EXCEPT ![r] = "down"]
      /\ connected' = [connected EXCEPT ![r] = 0]
      /\ conn' = conn /\ push' = push /\ fromNode' = fromNode /\ greeted' = greeted
      /\ fresh' = fresh /\ early' = early /\ stale' = stale
  BY DEF on_disconnect, node, history
<1>2. ShapeInv'
  BY <1>1 DEF CoreInv, ShapeInv
<1>3. HandshakeInv'
  BY <1>1 DEF CoreInv, ShapeInv, HandshakeInv, Shaking
<1>4. PushInv'
  BY <1>1 DEF CoreInv, ShapeInv, PushInv, Alive
<1> QED
  BY <1>2, <1>3, <1>4 DEF CoreInv

\* Receive and OnHash: a thread has found connected to be 2.
LEMMA PushesCore ==
  ASSUME CoreInv, NEW r \in Relayer, connected[r] = 2, NEW item \in Item, Pushes(r, item),
         UNCHANGED <<phase, conn, connected, fromNode, greeted, fresh, early, stale>>
  PROVE  CoreInv'
<1>1. push' = [push EXCEPT ![r] = [item |-> item, since |-> conn[r]]]
  BY DEF Pushes
<1>2. ShapeInv'
  <2>1. [item |-> item, since |-> conn[r]] \in [item : Item, since : Nat]
    BY DEF CoreInv, ShapeInv
  <2>2. push' \in [Relayer -> {Nothing} \cup [item : Item, since : Nat]]
    BY <1>1, <2>1 DEF CoreInv, ShapeInv
  <2> QED
    BY <2>2 DEF CoreInv, ShapeInv
<1>3. HandshakeInv'
  BY DEF CoreInv, HandshakeInv, Shaking
<1>4. PushInv'
  <2>1. Alive(r) => phase[r] = "up"
    BY DEF CoreInv, HandshakeInv, Alive
  <2>2. push'[r].since = conn[r] /\ conn[r] \in Nat /\ \A q \in Relayer \ {r} : push'[q] = push[q]
    BY <1>1 DEF CoreInv, ShapeInv
  <2> QED
    BY <2>1, <2>2 DEF CoreInv, PushInv, Alive
<1> QED
  BY <1>2, <1>3, <1>4 DEF CoreInv

\* News reach only what has been greeted, and are finitely many.
LEMMA NewsFacts ==
  ASSUME CoreInv, NEW item \in Item, NEW source, NodeTakes(item, source)
  PROVE  /\ fresh' \in [Relayer -> SUBSET Item]
         /\ \A r \in Relayer :
              /\ IsFiniteSet(fresh'[r]) /\ (greeted[r] # "verack" => fresh'[r] = {})
              /\ fresh'[r] \subseteq fresh[r] \cup {item}
              /\ ~(~Has(item) /\ (Kind(item) = "block" => item = Block(height + 1))) => fresh'[r] = fresh[r]
<1> DEFINE new == ~Has(item) /\ (Kind(item) = "block" => item = Block(height + 1))
           items == IF new THEN {item} ELSE {}
<1>1. fresh' = [r \in Relayer |-> IF greeted[r] = "verack" /\ r # source
                                  THEN fresh[r] \cup items ELSE fresh[r]]
  BY DEF NodeTakes, News
<1>2. items \subseteq Item /\ (items = {} \/ items = {item}) /\ (~new => items = {})
  OBVIOUS
<1> HIDE DEF items, new
<1>3. fresh \in [Relayer -> SUBSET Item] /\ \A r \in Relayer : IsFiniteSet(fresh[r])
  BY DEF CoreInv, ShapeInv
<1>4. \A r \in Relayer : greeted[r] # "verack" => fresh[r] = {}
  BY DEF CoreInv, HandshakeInv
<1>5. \A r \in Relayer : IsFiniteSet(fresh[r] \cup items)
  <2> SUFFICES ASSUME NEW r \in Relayer PROVE IsFiniteSet(fresh[r] \cup items)
    OBVIOUS
  <2>1. fresh[r] \cup {} = fresh[r]
    OBVIOUS
  <2> QED
    BY <1>2, <1>3, <2>1, FS_AddElement
<1>6. \A r \in Relayer : fresh'[r] = fresh[r] \/ (fresh'[r] = fresh[r] \cup items /\ greeted[r] = "verack")
  BY <1>1
<1>7. fresh' \in [Relayer -> SUBSET Item]
  BY <1>1, <1>2, <1>3
<1>8. \A r \in Relayer :
        /\ IsFiniteSet(fresh'[r]) /\ (greeted[r] # "verack" => fresh'[r] = {})
        /\ fresh'[r] \subseteq fresh[r] \cup {item} /\ (~new => fresh'[r] = fresh[r])
  BY <1>2, <1>3, <1>4, <1>5, <1>6
<1> QED
  BY <1>7, <1>8 DEF new

LEMMA NodeMakesCore ==
  ASSUME CoreInv, NEW item \in Item, NodeMakes(item) PROVE CoreInv'
<1>1. /\ NodeTakes(item, "") /\ phase' = phase /\ conn' = conn /\ connected' = connected
      /\ push' = push /\ fromNode' = fromNode /\ greeted' = greeted /\ early' = early /\ stale' = stale
  BY DEF NodeMakes, relayers, history
<1>2. /\ fresh' \in [Relayer -> SUBSET Item]
      /\ \A r \in Relayer : IsFiniteSet(fresh'[r]) /\ (greeted[r] # "verack" => fresh'[r] = {})
  BY <1>1, NewsFacts
<1>3. ShapeInv'
  BY <1>1, <1>2 DEF CoreInv, ShapeInv
<1>4. HandshakeInv'
  BY <1>1, <1>2 DEF CoreInv, HandshakeInv, Shaking
<1>5. PushInv'
  BY <1>1 DEF CoreInv, PushInv, Alive
<1> QED
  BY <1>3, <1>4, <1>5 DEF CoreInv

\* What is put at the end of the wire of a connection that has been greeted.
LEMMA AppendedShake ==
  ASSUME CoreInv, NEW r \in Relayer, greeted[r] = "verack", NEW more \in Seq(Later)
  PROVE  /\ fromNode[r] \o more \in Seq(Greeting \cup Later)
         /\ phase[r] = "up" /\ connected[r] \in {1, 2}
         /\ connected[r] = 1 => /\ fromNode[r] \o more # <<>>
                                /\ Head(fromNode[r] \o more) = Verack
                                /\ Tail(fromNode[r] \o more) \in Seq(Later)
         /\ connected[r] = 2 => fromNode[r] \o more \in Seq(Later)
<1>1. fromNode[r] \in Seq(Greeting \cup Later) /\ more \in Seq(Greeting \cup Later)
  BY SeqOfLarger DEF CoreInv, ShapeInv
<1>2. phase[r] = "up" /\ connected[r] \in {1, 2}
      /\ (connected[r] = 1 => fromNode[r] # <<>> /\ Head(fromNode[r]) = Verack
                              /\ Tail(fromNode[r]) \in Seq(Later))
      /\ (connected[r] = 2 => fromNode[r] \in Seq(Later))
  BY DEF CoreInv, HandshakeInv, Shaking
<1>3. fromNode[r] \o more \in Seq(Greeting \cup Later)
  BY <1>1, ConcatProperties
<1>4. fromNode[r] \in Seq(Later) => fromNode[r] \o more \in Seq(Later)
  BY ConcatProperties
<1>5. fromNode[r] # <<>> => /\ fromNode[r] \o more # <<>>
                            /\ Head(fromNode[r] \o more) = Head(fromNode[r])
                            /\ Tail(fromNode[r] \o more) = Tail(fromNode[r]) \o more
  BY <1>1, HeadTailOfConcat
<1>6. Tail(fromNode[r]) \in Seq(Later) => Tail(fromNode[r]) \o more \in Seq(Later)
  BY ConcatProperties
<1> QED
  BY <1>2, <1>3, <1>4, <1>5, <1>6

LEMMA AppendedCore ==
  ASSUME CoreInv, NEW r \in Relayer, greeted[r] = "verack", NEW more \in Seq(Later),
         fromNode' = [fromNode EXCEPT ![r] = @ \o more],
         UNCHANGED <<phase, connected, greeted>>
  PROVE  /\ fromNode' \in [Relayer -> Seq(Greeting \cup Later)]
         /\ \A q \in Relayer : phase'[q] = "up" => Shaking(q)'
         /\ \A q \in Relayer : phase'[q] # "up" => greeted'[q] = "none" /\ fromNode'[q] = <<>>
<1>1. /\ fromNode'[r] = fromNode[r] \o more /\ \A q \in Relayer \ {r} : fromNode'[q] = fromNode[q]
      /\ fromNode' \in [Relayer -> Seq(Greeting \cup Later)]
  BY AppendedShake DEF CoreInv, ShapeInv
<1>2. Shaking(r)' /\ phase[r] = "up"
  BY <1>1, AppendedShake DEF Shaking
<1>3. \A q \in Relayer \ {r} : phase'[q] = "up" => Shaking(q)'
  BY <1>1 DEF CoreInv, HandshakeInv, Shaking
<1> QED
  BY <1>1, <1>2, <1>3 DEF CoreInv, HandshakeInv

LEMMA AnnounceCore ==
  ASSUME CoreInv, NEW r \in Relayer, Announce(r) PROVE CoreInv'
<1>1. PICK items \in SetToSeqs(fresh[r]) :
        fromNode' = [fromNode EXCEPT ![r] = Append(@, [kind |-> "inv", items |-> items])]
  BY DEF Announce
<1>2. /\ fresh[r] # {} /\ fresh' = [fresh EXCEPT ![r] = {}] /\ phase' = phase /\ conn' = conn
      /\ connected' = connected /\ push' = push /\ greeted' = greeted /\ early' = early /\ stale' = stale
  BY DEF Announce, relayers, history
<1>3. greeted[r] = "verack"
  BY <1>2 DEF CoreInv, HandshakeInv
<1>4. items \in Seq(Item)
  <2>1. Cardinality(fresh[r]) \in Nat /\ fresh[r] \subseteq Item
    BY FS_CardinalityType DEF CoreInv, ShapeInv
  <2>2. items \in [1..Cardinality(fresh[r]) -> Item]
    BY <2>1 DEF SetToSeqs
  <2> QED
    BY <2>1, <2>2, SeqDef
<1>5. <<[kind |-> "inv", items |-> items]>> \in Seq(Later)
  BY <1>4 DEF Later
<1>6. fromNode' = [fromNode EXCEPT ![r] = @ \o <<[kind |-> "inv", items |-> items]>>]
  <2>1. fromNode[r] \in Seq(Greeting \cup Later)
    BY DEF CoreInv, ShapeInv
  <2>2. Append(fromNode[r], [kind |-> "inv", items |-> items])
          = fromNode[r] \o <<[kind |-> "inv", items |-> items]>>
    BY <2>1, AppendIsConcat
  <2> QED
    BY <1>1, <2>2
<1>7. /\ fromNode' \in [Relayer -> Seq(Greeting \cup Later)]
      /\ \A q \in Relayer : phase'[q] = "up" => Shaking(q)'
      /\ \A q \in Relayer : phase'[q] # "up" => greeted'[q] = "none" /\ fromNode'[q] = <<>>
  BY <1>2, <1>3, <1>5, <1>6, AppendedCore
<1>8. /\ fresh' \in [Relayer -> SUBSET Item]
      /\ \A q \in Relayer : IsFiniteSet(fresh'[q]) /\ (greeted[q] # "verack" => fresh'[q] = {})
  BY <1>2, FS_EmptySet DEF CoreInv, ShapeInv, HandshakeInv
<1>9. ShapeInv'
  BY <1>2, <1>7, <1>8 DEF CoreInv, ShapeInv
<1>10. HandshakeInv'
  BY <1>2, <1>7, <1>8 DEF CoreInv, HandshakeInv
<1>11. PushInv'
  BY <1>2 DEF CoreInv, PushInv, Alive
<1> QED
  BY <1>9, <1>10, <1>11 DEF CoreInv

----------------------------------------------------------------------------
(***************************************************************************)
(* The sets that forget.                                                   *)
(***************************************************************************)
LEMMA InsertFacts ==
  ASSUME NEW A, NEW q, NEW n \in Nat \ {0}, Remembers(q, A, n), NEW x \in A
  PROVE  /\ Remembers(insert(q, x, n).queue, A, n)
         /\ ToSet(insert(q, x, n).queue) \subseteq ToSet(q) \cup {x}
         /\ insert(q, x, n).second <=> x \notin ToSet(q)
         /\ ~insert(q, x, n).second => insert(q, x, n).queue = q
<1>0. q \in Seq(A) /\ IsInjective(q) /\ Len(q) <= n /\ Len(q) \in Nat
  BY DEF Remembers
<1> DEFINE base == IF Len(q) + 1 > n THEN Tail(q) ELSE q
<1>1. insert(q, x, n).queue = IF x \in ToSet(q) THEN q ELSE Append(base, x)
  BY DEF insert
<1>2. insert(q, x, n).second <=> x \notin ToSet(q)
  BY DEF insert
<1>3. base \in Seq(A) /\ Len(base) + 1 <= n /\ IsInjective(base) /\ ToSet(base) \subseteq ToSet(q)
  <2>1. CASE Len(q) + 1 > n
    <3>1. q # <<>> /\ Len(q) = n
      BY <1>0, <2>1
    <3>2. /\ Tail(q) \in Seq(A) /\ Len(Tail(q)) = Len(q) - 1 /\ ToSet(Tail(q)) \subseteq ToSet(q)
          /\ IsInjective(Tail(q))
      BY <1>0, <3>1, TailFacts
    <3> QED
      BY <1>0, <2>1, <3>1, <3>2
  <2>2. CASE Len(q) + 1 <= n
    BY <1>0, <2>2
  <2> QED
    BY <1>0, <2>1, <2>2
<1> HIDE DEF base
<1>4. /\ Append(base, x) \in Seq(A) /\ Len(Append(base, x)) = Len(base) + 1
      /\ ToSet(Append(base, x)) = ToSet(base) \cup {x}
      /\ x \notin ToSet(q) => IsInjective(Append(base, x))
  BY <1>3, AppendFacts
<1> QED
  BY <1>0, <1>1, <1>2, <1>3, <1>4 DEF Remembers

LEMMA VectorInsertFacts ==
  ASSUME NEW A, NEW q, NEW n \in Nat \ {0}, Remembers(q, A, n), NEW x \in A
  PROVE  /\ Remembers(vectorInsert(q, x, n), A, n)
         /\ ToSet(vectorInsert(q, x, n)) \subseteq ToSet(q) \cup {x}
<1>0. q \in Seq(A) /\ IsInjective(q) /\ Len(q) <= n /\ Len(q) \in Nat
  BY DEF Remembers
<1> DEFINE longer == Append(q, x)
<1>1. vectorInsert(q, x, n) = IF x \in ToSet(q) THEN q
                              ELSE IF Len(longer) > n THEN Tail(longer) ELSE longer
  BY DEF vectorInsert
<1>2. /\ longer \in Seq(A) /\ Len(longer) = Len(q) + 1 /\ longer # <<>>
      /\ ToSet(longer) = ToSet(q) \cup {x} /\ (x \notin ToSet(q) => IsInjective(longer))
  BY <1>0, AppendFacts
<1> HIDE DEF longer
<1>3. /\ Tail(longer) \in Seq(A) /\ Len(Tail(longer)) = Len(q)
      /\ ToSet(Tail(longer)) \subseteq ToSet(q) \cup {x}
      /\ x \notin ToSet(q) => IsInjective(Tail(longer))
  BY <1>0, <1>2, TailFacts
<1> QED
  BY <1>0, <1>1, <1>2, <1>3 DEF Remembers

LEMMA ItemFacts ==
  ASSUME NEW x \in Item
  PROVE  \/ Kind(x) = "tx" /\ x \in TxItem /\ x \notin BlockItem
         \/ Kind(x) = "block" /\ x \in BlockItem /\ x \notin TxItem /\ x[2] \in 1..MaxBlock /\ x = Block(x[2])
BY DEF Item, Kind, TxItem, BlockItem, Block

----------------------------------------------------------------------------
(***************************************************************************)
(* The loop over an inv.                                                   *)
(***************************************************************************)
SeenOK(m) ==
  /\ m \in [{"tx", "block"} -> Seq(Item)]
  /\ Remembers(m["tx"], Item, TxSeenMax) /\ Remembers(m["block"], Item, BlockSeenMax)

\* What holds after k turns, of which every block that was not remembered is asked for.
GoodAfter(before, items, k, s) ==
  /\ SeenOK(s.seen) /\ s.resp \in Seq(Item)
  /\ ToSet(s.resp) \subseteq {items[j] : j \in 1..k}
  /\ ToSet(s.seen["block"]) \subseteq ToSet(before["block"]) \cup {i \in ToSet(s.resp) : Kind(i) = "block"}
  /\ \A j \in 1..k : Kind(items[j]) = "block" => items[j] \in ToSet(before["block"]) \cup ToSet(s.resp)

LEMMA RespFacts ==
  ASSUME NEW q \in Seq(Item), NEW x \in Item
  PROVE  /\ <<x>> \o q \in Seq(Item) /\ ToSet(<<x>> \o q) = ToSet(q) \cup {x}
         /\ Append(q, x) \in Seq(Item) /\ ToSet(Append(q, x)) = ToSet(q) \cup {x}
<1>1. /\ <<x>> \in Seq(Item) /\ Len(<<x>>) = 1 /\ <<x>>[1] = x /\ Len(q) \in Nat /\ DOMAIN q = 1..Len(q)
  OBVIOUS
<1>2. /\ <<x>> \o q \in Seq(Item) /\ Len(<<x>> \o q) = 1 + Len(q)
      /\ \A i \in 1..(1 + Len(q)) : (<<x>> \o q)[i] = IF i <= 1 THEN <<x>>[i] ELSE q[i - 1]
  BY <1>1, ConcatProperties
<1>3. DOMAIN (<<x>> \o q) = 1..(1 + Len(q))
  BY <1>2
<1>4. (<<x>> \o q)[1] = x /\ \A i \in 1..Len(q) : (<<x>> \o q)[i + 1] = q[i]
  BY <1>1, <1>2
<1>5. \A i \in 1..(1 + Len(q)) : i = 1 \/ (i - 1 \in 1..Len(q) /\ (i - 1) + 1 = i)
  BY <1>1
<1>6. \A y \in ToSet(<<x>> \o q) : y \in ToSet(q) \cup {x}
  BY <1>1, <1>3, <1>4, <1>5 DEF ToSet
<1>7. \A y \in ToSet(q) \cup {x} : y \in ToSet(<<x>> \o q)
  <2>1. x \in ToSet(<<x>> \o q)
    BY <1>1, <1>3, <1>4 DEF ToSet
  <2>2. \A i \in 1..Len(q) : i + 1 \in DOMAIN (<<x>> \o q)
    BY <1>1, <1>3
  <2>3. \A y \in ToSet(q) : y \in ToSet(<<x>> \o q)
    BY <1>1, <1>4, <2>2 DEF ToSet
  <2> QED
    BY <2>1, <2>3
<1> QED
  BY <1>2, <1>6, <1>7, AppendFacts

LEMMA NotedKeeps ==
  ASSUME P2PAssumption, NEW before, NEW items, NEW k \in Nat \ {0}, items[k] \in Item,
         NEW s, GoodAfter(before, items, k - 1, s)
  PROVE  GoodAfter(before, items, k, Noted(s, items[k]))
<1> DEFINE x == items[k]
           ins == insert(s.seen[Kind(x)], x, SeenMax(x))
           t == Noted(s, x)
           old == ToSet(before["block"])
<1>0. /\ SeenOK(s.seen) /\ s.resp \in Seq(Item) /\ ToSet(s.resp) \subseteq {items[j] : j \in 1..(k - 1)}
      /\ ToSet(s.seen["block"]) \subseteq old \cup {i \in ToSet(s.resp) : Kind(i) = "block"}
      /\ \A j \in 1..(k - 1) : Kind(items[j]) = "block" => items[j] \in old \cup ToSet(s.resp)
  BY DEF GoodAfter
<1>1. /\ t.seen = [s.seen EXCEPT ![Kind(x)] = ins.queue]
      /\ t.resp = IF ~ins.second THEN s.resp
                  ELSE IF Kind(x) = "block" THEN <<x>> \o s.resp ELSE Append(s.resp, x)
  BY DEF Noted
<1>2. x \in Item /\ Kind(x) \in {"tx", "block"}
  BY ItemFacts
<1>3. Remembers(s.seen[Kind(x)], Item, SeenMax(x)) /\ SeenMax(x) \in Nat \ {0}
  BY <1>0, <1>2 DEF SeenOK, SeenMax, P2PAssumption
<1>4. /\ Remembers(ins.queue, Item, SeenMax(x)) /\ ToSet(ins.queue) \subseteq ToSet(s.seen[Kind(x)]) \cup {x}
      /\ ins.second <=> x \notin ToSet(s.seen[Kind(x)])
      /\ ~ins.second => ins.queue = s.seen[Kind(x)]
  BY <1>2, <1>3, InsertFacts
<1>5. /\ t.resp \in Seq(Item) /\ ToSet(s.resp) \subseteq ToSet(t.resp)
      /\ ToSet(t.resp) \subseteq ToSet(s.resp) \cup {x}
      /\ ins.second => x \in ToSet(t.resp)
  BY <1>0, <1>1, <1>2, RespFacts
<1> HIDE DEF ins, t
<1>6. SeenOK(t.seen)
  <2>1. ins.queue \in Seq(Item)
    BY <1>4 DEF Remembers
  <2>2. t.seen \in [{"tx", "block"} -> Seq(Item)]
    BY <1>0, <1>1, <1>2, <2>1 DEF SeenOK
  <2>3. CASE Kind(x) = "tx"
    <3>1. t.seen["tx"] = ins.queue /\ t.seen["block"] = s.seen["block"] /\ SeenMax(x) = TxSeenMax
      BY <1>0, <1>1, <2>3 DEF SeenOK, SeenMax
    <3> QED
      BY <1>0, <1>4, <2>2, <3>1 DEF SeenOK
  <2>4. CASE Kind(x) = "block"
    <3>1. t.seen["block"] = ins.queue /\ t.seen["tx"] = s.seen["tx"] /\ SeenMax(x) = BlockSeenMax
      BY <1>0, <1>1, <2>4 DEF SeenOK, SeenMax
    <3> QED
      BY <1>0, <1>4, <2>2, <3>1 DEF SeenOK
  <2> QED
    BY <1>2, <2>3, <2>4
<1>7. ToSet(t.resp) \subseteq {items[j] : j \in 1..k}
  <2>1. \A j \in 1..(k - 1) : j \in 1..k
    OBVIOUS
  <2>2. x \in {items[j] : j \in 1..k}
    OBVIOUS
  <2> HIDE DEF x
  <2> QED
    BY <1>0, <1>5, <2>1, <2>2
<1>8. ToSet(t.seen["block"]) \subseteq old \cup {i \in ToSet(t.resp) : Kind(i) = "block"}
  <2>1. CASE Kind(x) = "block"
    <3>1. t.seen["block"] = ins.queue
      BY <1>0, <1>1, <2>1 DEF SeenOK
    <3> QED
      BY <1>0, <1>4, <1>5, <2>1, <3>1
  <2>2. CASE Kind(x) = "tx"
    <3>1. t.seen["block"] = s.seen["block"]
      BY <1>0, <1>1, <2>2 DEF SeenOK
    <3> QED
      BY <1>0, <1>5, <3>1
  <2> QED
    BY <1>2, <2>1, <2>2
<1>9. \A j \in 1..k : Kind(items[j]) = "block" => items[j] \in old \cup ToSet(t.resp)
  <2>1. Kind(x) = "block" => x \in old \cup ToSet(t.resp)
    BY <1>0, <1>4, <1>5
  <2>2. \A j \in 1..k : j = k \/ j \in 1..(k - 1)
    OBVIOUS
  <2> QED
    BY <1>0, <1>5, <2>1, <2>2
<1>10. GoodAfter(before, items, k, t)
  BY <1>5, <1>6, <1>7, <1>8, <1>9 DEF GoodAfter
<1> QED
  BY <1>10 DEF t

Turns(before, items, n, c) ==
  c = [k \in 0..n |-> IF k = 0 THEN [seen |-> before, resp |-> <<>>] ELSE Noted(c[k - 1], items[k])]

LEMMA TurnsExist ==
  ASSUME NEW before, NEW items, NEW m \in Nat PROVE \E c : Turns(before, items, m, c)
<1> DEFINE S == {n \in Nat : \E c : Turns(before, items, n, c)}
           start == [seen |-> before, resp |-> <<>>]
<1>1. 0 \in S
  <2>1. Turns(before, items, 0, [k \in 0..0 |-> start])
    BY DEF Turns
  <2> QED
    BY <2>1
<1>2. ASSUME NEW n \in Nat, n \in S PROVE n + 1 \in S
  <2>1. PICK c : Turns(before, items, n, c)
    BY <1>2
  <2> DEFINE d == [k \in 0..(n + 1) |-> IF k = n + 1 THEN Noted(c[n], items[n + 1]) ELSE c[k]]
  <2> HIDE DEF start
  <2>0. c = [k \in 0..n |-> IF k = 0 THEN start ELSE Noted(c[k - 1], items[k])]
    BY <2>1 DEF Turns, start
  <2>2. ASSUME NEW k \in 0..(n + 1)
        PROVE  d[k] = IF k = 0 THEN start ELSE Noted(d[k - 1], items[k])
    <3>1. CASE k = 0
      <4>1. d[0] = c[0] /\ c[0] = start
        BY <2>0
      <4> QED
        BY <3>1, <4>1
    <3>2. CASE k = n + 1
      <4>1. k # 0 /\ k - 1 = n /\ d[n] = c[n]
        BY <3>2
      <4> QED
        BY <3>2, <4>1
    <3>3. CASE k \in 1..n
      <4>1. k # 0 /\ k \in 0..n /\ k - 1 \in 0..n /\ d[k] = c[k] /\ d[k - 1] = c[k - 1]
        BY <3>3
      <4>2. c[k] = Noted(c[k - 1], items[k])
        BY <2>0, <4>1
      <4> QED
        BY <4>1, <4>2
    <3> QED
      BY <3>1, <3>2, <3>3
  <2>3. d = [k \in 0..(n + 1) |-> d[k]]
    OBVIOUS
  <2> HIDE DEF d
  <2>4. d = [k \in 0..(n + 1) |-> IF k = 0 THEN start ELSE Noted(d[k - 1], items[k])]
    BY <2>2, <2>3
  <2>5. Turns(before, items, n + 1, d)
    BY <2>4 DEF Turns, start
  <2> QED
    BY <2>5
<1> HIDE DEF S
<1>3. m \in S
  BY <1>1, <1>2, SetInduction
<1> QED
  BY <1>3 DEF S

\* Whatever an inv lists and however small the sets are, every block of it that was not
\* remembered is asked for, even if it is forgotten before the inv ends.
LEMMA NotedAllFacts ==
  ASSUME P2PAssumption, NEW before, SeenOK(before), NEW items \in Seq(Item)
  PROVE  GoodAfter(before, items, Len(items), NotedAll(before, items))
<1>1. Len(items) \in Nat /\ \A k \in 1..Len(items) : items[k] \in Item
  OBVIOUS
<1>2. PICK c : Turns(before, items, Len(items), c) /\ NotedAll(before, items) = c[Len(items)]
  <2> DEFINE h == CHOOSE h : Turns(before, items, Len(items), h)
  <2>1. Turns(before, items, Len(items), h)
    BY <1>1, TurnsExist
  <2>2. NotedAll(before, items) = h[Len(items)]
    BY DEF NotedAll, h, Turns
  <2> HIDE DEF h
  <2> QED
    BY <2>1, <2>2
<1>3. c[0] = [seen |-> before, resp |-> <<>>]
  BY <1>1, <1>2 DEF Turns
<1>4. \A k \in 1..Len(items) : c[k] = Noted(c[k - 1], items[k])
  <2>1. \A k \in 1..Len(items) : k \in 0..Len(items) /\ k # 0
    BY <1>1
  <2> QED
    BY <1>2, <2>1, Zenon DEF Turns
<1> DEFINE S == {n \in Nat : n <= Len(items) => GoodAfter(before, items, n, c[n])}
<1>5. 0 \in S
  <2>1. GoodAfter(before, items, 0, c[0])
    BY <1>3 DEF GoodAfter, ToSet
  <2> QED
    BY <2>1
<1>6. ASSUME NEW n \in Nat, n \in S PROVE n + 1 \in S
  <2> SUFFICES ASSUME n + 1 <= Len(items) PROVE GoodAfter(before, items, n + 1, c[n + 1])
    OBVIOUS
  <2>1. n + 1 \in 1..Len(items) /\ n + 1 \in Nat \ {0} /\ (n + 1) - 1 = n /\ n <= Len(items)
    BY <1>1
  <2>2. GoodAfter(before, items, (n + 1) - 1, c[n]) /\ c[n + 1] = Noted(c[n], items[n + 1])
    BY <1>4, <1>6, <2>1
  <2>3. GoodAfter(before, items, n + 1, Noted(c[n], items[n + 1]))
    BY <1>1, <2>1, <2>2, NotedKeeps, Zenon
  <2> QED
    BY <2>2, <2>3
<1> HIDE DEF S
<1>7. Len(items) \in S
  BY <1>1, <1>5, <1>6, SetInduction
<1> QED
  BY <1>1, <1>2, <1>7 DEF S

----------------------------------------------------------------------------
(***************************************************************************)
(* The messages that wait to be read.                                      *)
(***************************************************************************)
Brought(q) == {m.item : m \in {m \in ToSet(q) : m.kind = "data"}}

LEMMA WayIsBrought == OnTheWay = Brought(fromNode["recv"])
BY DEF OnTheWay, Brought

LEMMA ConcatFacts ==
  ASSUME NEW s \in Seq(Greeting \cup Later), NEW t \in Seq(Greeting \cup Later)
  PROVE  /\ ToSet(s \o t) = ToSet(s) \cup ToSet(t)
         /\ Brought(s \o t) = Brought(s) \cup Brought(t)
         /\ Announced(s \o t) = Announced(s) \cup Announced(t)
<1>1. /\ s \o t \in Seq(Greeting \cup Later) /\ Len(s \o t) = Len(s) + Len(t) /\ Len(s) \in Nat /\ Len(t) \in Nat
      /\ \A i \in 1..(Len(s) + Len(t)) : (s \o t)[i] = IF i <= Len(s) THEN s[i] ELSE t[i - Len(s)]
  BY ConcatProperties
<1>2. DOMAIN s = 1..Len(s) /\ DOMAIN t = 1..Len(t) /\ DOMAIN (s \o t) = 1..(Len(s) + Len(t))
  BY <1>1
<1>3. \A i \in 1..Len(s) : i \in 1..(Len(s) + Len(t)) /\ (s \o t)[i] = s[i]
  BY <1>1
<1>4. \A i \in 1..Len(t) : i + Len(s) \in 1..(Len(s) + Len(t)) /\ (s \o t)[i + Len(s)] = t[i]
  BY <1>1
<1>5. \A i \in 1..(Len(s) + Len(t)) : i \in 1..Len(s) \/ (i - Len(s) \in 1..Len(t) /\ (s \o t)[i] = t[i - Len(s)])
  BY <1>1
<1>6. ToSet(s \o t) = ToSet(s) \cup ToSet(t)
  <2>1. \A y \in ToSet(s \o t) : y \in ToSet(s) \cup ToSet(t)
    BY <1>2, <1>3, <1>5 DEF ToSet
  <2>2. \A y \in ToSet(s) \cup ToSet(t) : y \in ToSet(s \o t)
    BY <1>2, <1>3, <1>4 DEF ToSet
  <2> QED
    BY <2>1, <2>2
<1>7. Brought(s \o t) = Brought(s) \cup Brought(t)
  BY <1>6 DEF Brought
<1>8. Announced(s \o t) = Announced(s) \cup Announced(t)
  BY <1>6 DEF Announced
<1> QED
  BY <1>6, <1>7, <1>8

LEMMA ReadFacts ==
  ASSUME NEW S, NEW q \in Seq(S), q # <<>>
  PROVE  /\ Head(q) \in ToSet(q) /\ Brought(Tail(q)) \subseteq Brought(q)
         /\ Announced(Tail(q)) \subseteq Announced(q)
         /\ Head(q).kind = "inv" => ToSet(Head(q).items) \subseteq Announced(q)
         /\ Head(q).kind # "data" => Brought(q) \subseteq Brought(Tail(q))
         /\ Brought(q) \subseteq Brought(Tail(q)) \cup {Head(q).item}
<1>1. ToSet(Tail(q)) \subseteq ToSet(q) /\ ToSet(q) \subseteq ToSet(Tail(q)) \cup {Head(q)}
  BY TailFacts
<1>2. Head(q) \in ToSet(q)
  BY DEF ToSet
<1> QED
  BY <1>1, <1>2 DEF Brought, Announced

LEMMA DataFacts ==
  ASSUME NEW items \in Seq(Item)
  PROVE  Data(items) \in Seq(Later) /\ Brought(Data(items)) = ToSet(items) /\ Announced(Data(items)) = {}
<1>1. Len(items) \in Nat /\ DOMAIN items = 1..Len(items) /\ \A n \in 1..Len(items) : items[n] \in Item
  OBVIOUS
<1>2. \A n \in 1..Len(items) : [kind |-> "data", item |-> items[n]] \in Later
  BY <1>1 DEF Later
<1>3. Data(items) = [n \in 1..Len(items) |-> [kind |-> "data", item |-> items[n]]]
  BY DEF Data
<1>4. Data(items) \in [1..Len(items) -> Later] /\ DOMAIN Data(items) = 1..Len(items)
  BY <1>2, <1>3
<1>5. Data(items) \in Seq(Later)
  BY <1>1, <1>4, SeqDef
<1>6. \A n \in 1..Len(items) : Data(items)[n].kind = "data" /\ Data(items)[n].item = items[n]
  BY <1>3
<1> HIDE DEF Data
<1>7. \A m \in ToSet(Data(items)) : \E n \in 1..Len(items) : m = Data(items)[n]
  BY <1>4 DEF ToSet
<1>8. \A n \in 1..Len(items) : Data(items)[n] \in ToSet(Data(items))
  BY <1>4 DEF ToSet
<1>9. Brought(Data(items)) = ToSet(items)
  <2>1. \A y \in Brought(Data(items)) : y \in ToSet(items)
    <3> SUFFICES ASSUME NEW m \in ToSet(Data(items)) PROVE m.item \in ToSet(items)
      BY DEF Brought
    <3>1. PICK n \in 1..Len(items) : m = Data(items)[n]
      BY <1>7
    <3>2. m.item = items[n]
      BY <1>6, <3>1
    <3> QED
      BY <1>1, <3>2 DEF ToSet
  <2>2. \A y \in ToSet(items) : y \in Brought(Data(items))
    <3> SUFFICES ASSUME NEW n \in 1..Len(items) PROVE items[n] \in Brought(Data(items))
      BY <1>1 DEF ToSet
    <3> QED
      BY <1>6, <1>8 DEF Brought
  <2> QED
    BY <2>1, <2>2
<1>10. Announced(Data(items)) = {}
  BY <1>6, <1>7 DEF Announced
<1> QED
  BY <1>5, <1>9, <1>10

LEMMA HeadersFacts ==
  ASSUME P2PAssumption, height \in 0..MaxBlock, NEW from \in Nat
  PROVE  /\ HeadersAfter(from) \in Seq(Later)
         /\ Brought(HeadersAfter(from)) = {} /\ Announced(HeadersAfter(from)) = {}
<1> DEFINE last == IF from + MaxHeaders < height THEN from + MaxHeaders ELSE height
           m == [kind |-> "headers", from |-> from, last |-> last]
<1>1. last \in 0..MaxBlock
  BY DEF P2PAssumption
<1> HIDE DEF last
<1>2. m \in Later /\ m.kind = "headers"
  BY <1>1 DEF Later
<1> HIDE DEF m
<1>3. HeadersAfter(from) = <<m>>
  BY DEF HeadersAfter, m, last
<1>4. ToSet(<<m>>) = {m}
  BY DEF ToSet
<1> QED
  BY <1>2, <1>3, <1>4 DEF Brought, Announced

----------------------------------------------------------------------------
(***************************************************************************)
(* The core of sending and of reading.                                     *)
(***************************************************************************)
LEMMA SendCore ==
  ASSUME CoreInv, NEW r \in Relayer, Send(r) PROVE CoreInv'
<1> DEFINE item == push[r].item
           read == Alive(r) /\ greeted[r] = "verack"
<1>1. /\ push[r] # Nothing /\ push' = [push EXCEPT ![r] = Nothing]
      /\ phase' = phase /\ conn' = conn /\ connected' = connected /\ greeted' = greeted
      /\ early' = [early EXCEPT ![r] = @ \/ (Alive(r) /\ ~read)]
      /\ stale' = [stale EXCEPT ![r] = @ \/ push[r].since # conn[r]]
  BY DEF Send
<1>2. item \in Item
  BY <1>1 DEF CoreInv, ShapeInv
<1>3. \/ NodeTakes(item, "up") /\ fromNode' = fromNode
      \/ /\ greeted[r] = "verack" /\ fresh' = fresh
         /\ fromNode' = [fromNode EXCEPT ![r] = @ \o Data(<<item>>)]
      \/ fresh' = fresh /\ fromNode' = fromNode
  BY DEF Send
<1>4. /\ fresh' \in [Relayer -> SUBSET Item]
      /\ \A q \in Relayer : IsFiniteSet(fresh'[q]) /\ (greeted[q] # "verack" => fresh'[q] = {})
  <2>1. CASE NodeTakes(item, "up")
    BY <1>2, <2>1, NewsFacts
  <2>2. CASE fresh' = fresh
    BY <2>2 DEF CoreInv, ShapeInv, HandshakeInv
  <2> QED
    BY <1>3, <2>1, <2>2
<1>5. /\ fromNode' \in [Relayer -> Seq(Greeting \cup Later)]
      /\ \A q \in Relayer : phase'[q] = "up" => Shaking(q)'
      /\ \A q \in Relayer : phase'[q] # "up" => greeted'[q] = "none" /\ fromNode'[q] = <<>>
  <2>1. CASE fromNode' = fromNode
    BY <1>1, <2>1 DEF CoreInv, ShapeInv, HandshakeInv, Shaking
  <2>2. CASE greeted[r] = "verack" /\ fromNode' = [fromNode EXCEPT ![r] = @ \o Data(<<item>>)]
    <3>0. <<item>> \in Seq(Item)
      BY <1>2
    <3>1. Data(<<item>>) \in Seq(Later)
      BY <3>0, DataFacts, Zenon
    <3> QED
      BY <1>1, <2>2, <3>1, AppendedCore
  <2> QED
    BY <1>3, <2>1, <2>2
<1>6. /\ early' \in [Relayer -> BOOLEAN] /\ stale' \in [Relayer -> BOOLEAN]
      /\ \A q \in Relayer \ {r} : early'[q] = early[q] /\ stale'[q] = stale[q]
  BY <1>1 DEF CoreInv, ShapeInv
<1>7. early'[r] => stale'[r]
  <2>0. (early[r] => stale[r]) /\ r \in DOMAIN early /\ r \in DOMAIN stale
    BY DEF CoreInv, ShapeInv, PushInv
  <2>1. early'[r] => early[r] \/ (Alive(r) /\ ~read)
    BY <1>1, <2>0, Zenon
  <2>2. stale[r] \/ push[r].since # conn[r] => stale'[r]
    BY <1>1, <2>0, Zenon
  <2>3. Alive(r) /\ ~read => push[r].since # conn[r]
    BY <1>1 DEF CoreInv, PushInv, HandshakeInv, Shaking
  <2> QED
    BY <2>0, <2>1, <2>2, <2>3
<1>8. push' \in [Relayer -> {Nothing} \cup [item : Item, since : Nat]]
      /\ push'[r] = Nothing /\ \A q \in Relayer \ {r} : push'[q] = push[q]
  BY <1>1 DEF CoreInv, ShapeInv
<1>9. ShapeInv'
  BY <1>1, <1>4, <1>5, <1>6, <1>8 DEF CoreInv, ShapeInv
<1>10. HandshakeInv'
  BY <1>1, <1>4, <1>5 DEF CoreInv, HandshakeInv
<1>11. PushInv'
  BY <1>1, <1>6, <1>7, <1>8 DEF CoreInv, PushInv, Alive
<1> QED
  BY <1>9, <1>10, <1>11 DEF CoreInv

\* A message is always one that net_process expects.
LEMMA MessageExpected ==
  ASSUME CoreInv, NEW r \in Relayer, phase[r] = "up", fromNode[r] # <<>>
  PROVE  /\ Expected(r, Head(fromNode[r]))
         /\ \/ connected[r] = 0 /\ Head(fromNode[r]) = Version /\ Tail(fromNode[r]) = <<Verack>>
            \/ /\ connected[r] = 1 /\ greeted[r] = "verack" /\ Head(fromNode[r]) = Verack
               /\ Tail(fromNode[r]) \in Seq(Later)
            \/ /\ connected[r] = 2 /\ greeted[r] = "verack" /\ fromNode[r] \in Seq(Later)
               /\ Head(fromNode[r]) \in Later /\ Tail(fromNode[r]) \in Seq(Later)
<1>1. Shaking(r)
  BY DEF CoreInv, HandshakeInv
<1>2. CASE connected[r] = 0
  <2>1. fromNode[r] = <<Version, Verack>>
    BY <1>1, <1>2 DEF Shaking
  <2>2. Head(fromNode[r]) = Version /\ Tail(fromNode[r]) = <<Verack>>
    BY <2>1
  <2> QED
    BY <1>2, <2>2 DEF Expected, Version
<1>3. CASE connected[r] = 1
  BY <1>1, <1>3 DEF Shaking, Expected, Verack
<1>4. CASE connected[r] = 2
  <2>1. greeted[r] = "verack" /\ fromNode[r] \in Seq(Later)
    BY <1>1, <1>4 DEF Shaking
  <2>2. Head(fromNode[r]) \in Later /\ Tail(fromNode[r]) \in Seq(Later)
    BY <2>1
  <2>3. Head(fromNode[r]).kind \in {"data", "inv", "headers"}
    BY <2>2 DEF Later
  <2> QED
    BY <1>4, <2>1, <2>2, <2>3 DEF Expected
<1> QED
  BY <1>1, <1>2, <1>3, <1>4 DEF Shaking

\* What is left on the wire after a message has been read.
LEMMA LeftCore ==
  ASSUME CoreInv, NEW r \in Relayer, phase[r] = "up", NEW c, NEW q,
         \/ c = 1 /\ connected[r] # 2 /\ q = <<Verack>>
         \/ c = 2 /\ q \in Seq(Later),
         fromNode' = [fromNode EXCEPT ![r] = q], connected' = [connected EXCEPT ![r] = c],
         greeted' = [greeted EXCEPT ![r] = "verack"],
         UNCHANGED <<phase, conn, push, fresh, early, stale>>
  PROVE  CoreInv'
<1>1. q \in Seq(Greeting \cup Later) /\ c \in {1, 2}
  <2>1. <<Verack>> \in Seq(Greeting \cup Later)
    BY DEF Verack, Greeting
  <2>2. q \in Seq(Later) => q \in Seq(Greeting \cup Later)
    BY SeqOfLarger
  <2> QED
    BY <2>1, <2>2
<1>2. ShapeInv'
  <2>1. fromNode' \in [Relayer -> Seq(Greeting \cup Later)]
    BY <1>1 DEF CoreInv, ShapeInv
  <2>2. connected' \in [Relayer -> 0..2] /\ greeted' \in [Relayer -> {"none", "version", "verack"}]
    BY <1>1 DEF CoreInv, ShapeInv
  <2> QED
    BY <2>1, <2>2 DEF CoreInv, ShapeInv
<1>3. /\ fromNode'[r] = q /\ connected'[r] = c /\ greeted'[r] = "verack"
      /\ \A p \in Relayer \ {r} : /\ fromNode'[p] = fromNode[p] /\ connected'[p] = connected[p]
                                  /\ greeted'[p] = greeted[p]
  BY DEF CoreInv, ShapeInv
<1>4. HandshakeInv'
  <2>1. c = 1 => q # <<>> /\ Head(q) = Verack /\ Tail(q) \in Seq(Later)
    <3>1. <<Verack>> # <<>> /\ Head(<<Verack>>) = Verack /\ Tail(<<Verack>>) = <<>> /\ <<>> \in Seq(Later)
      OBVIOUS
    <3>2. c = 1 => q = <<Verack>>
      OBVIOUS
    <3> QED
      BY <3>1, <3>2, Zenon
  <2>2. Shaking(r)'
    BY <1>3, <2>1 DEF Shaking
  <2>3. \A p \in Relayer \ {r} : phase[p] = "up" => Shaking(p)'
    BY <1>3 DEF CoreInv, HandshakeInv, Shaking
  <2> QED
    BY <1>3, <2>2, <2>3 DEF CoreInv, HandshakeInv
<1>5. PushInv'
  BY <1>3 DEF CoreInv, PushInv, Alive
<1> QED
  BY <1>2, <1>4, <1>5 DEF CoreInv

----------------------------------------------------------------------------
(***************************************************************************)
(* What is remembered, announced, asked for and on its way.                *)
(***************************************************************************)
LEMMA WireFacts ==
  ASSUME CoreInv
  PROVE  /\ OnTheWay \subseteq Item
         /\ \A r \in Relayer : Announced(fromNode[r]) \subseteq Item
<1>1. ASSUME NEW r \in Relayer, NEW m \in ToSet(fromNode[r]) PROVE m \in Greeting \cup Later
  <2>1. fromNode[r] \in Seq(Greeting \cup Later)
    BY DEF CoreInv, ShapeInv
  <2> QED
    BY <1>1, <2>1 DEF ToSet
<1>2. ASSUME NEW m \in Greeting \cup Later
      PROVE  (m.kind = "data" => m.item \in Item) /\ (m.kind = "inv" => m.items \in Seq(Item))
  BY <1>2 DEF Greeting, Later
<1>3. \A q \in Seq(Item) : ToSet(q) \subseteq Item
  BY DEF ToSet
<1>4. OnTheWay \subseteq Item
  BY <1>1, <1>2 DEF OnTheWay, Relayer
<1>5. ASSUME NEW r \in Relayer PROVE Announced(fromNode[r]) \subseteq Item
  BY <1>1, <1>2, <1>3, <1>5 DEF Announced
<1> QED
  BY <1>4, <1>5

LEMMA EmptyWire ==
  ToSet(<<>>) = {} /\ Brought(<<>>) = {} /\ Announced(<<>>) = {}
<1>1. ToSet(<<>>) = {}
  BY DEF ToSet
<1> QED
  BY <1>1 DEF Brought, Announced

\* What the bitcoind had it still has, and it has what is new on the wire.
LEMMA HaveKept ==
  ASSUME CoreInv, HaveInv, \A i \in Item : Has(i) => Has(i)',
         \A r \in Relayer : \A i \in fresh'[r] \cup Announced(fromNode'[r]) :
           i \in fresh[r] \cup Announced(fromNode[r]) \/ Has(i)'
  PROVE  HaveInv'
<1> SUFFICES ASSUME NEW r \in Relayer, NEW i \in fresh'[r] \cup Announced(fromNode'[r])
             PROVE  Has(i)'
  BY DEF HaveInv
<1>1. fresh[r] \cup Announced(fromNode[r]) \subseteq Item
  BY WireFacts DEF CoreInv, ShapeInv
<1>2. i \in fresh[r] \cup Announced(fromNode[r]) => Has(i)
  BY DEF HaveInv
<1> QED
  BY <1>1, <1>2

\* Nothing that was asked for disappears.
LEMMA AccountedKept ==
  ASSUME BlocksAccounted, RequestsAccounted, asked' = asked, waiting' = waiting,
         relayed \subseteq relayed', lost \subseteq lost',
         \A i \in OnTheWay : i \in asked \cup ToSet(waiting) => i \in relayed' \cup lost' \cup OnTheWay',
         \/ push'["recv"] = push["recv"]
         \/ push["recv"] # Nothing => push["recv"].item \in relayed' \cup lost' \cup OnTheWay'
  PROVE  BlocksAccounted' /\ RequestsAccounted'
<1>1. BlocksAccounted'
  <2> HIDE DEF OnTheWay
  <2> QED
    BY DEF BlocksAccounted
<1>2. RequestsAccounted'
  BY DEF RequestsAccounted
<1> QED
  BY <1>1, <1>2

LEMMA TakesFacts ==
  ASSUME P2PAssumption, CoreInv, SetsInv, NEW item \in Item, NEW source, NodeTakes(item, source)
  PROVE  /\ height' \in 0..MaxBlock /\ pool' \subseteq TxItem
         /\ \A i \in Item : Has(i) => Has(i)'
         /\ \A r \in Relayer : \A i \in fresh'[r] : i \in fresh[r] \/ Has(i)'
<1> DEFINE new == ~Has(item) /\ (Kind(item) = "block" => item = Block(height + 1))
<1>1. /\ height' = IF new /\ Kind(item) = "block" THEN height + 1 ELSE height
      /\ pool' = IF new /\ Kind(item) = "tx" THEN pool \cup {item} ELSE pool
  BY DEF NodeTakes
<1>2. \/ Kind(item) = "tx" /\ item \in TxItem
      \/ Kind(item) = "block" /\ item[2] \in 1..MaxBlock /\ item = Block(item[2])
  BY ItemFacts
<1>3. height \in 0..MaxBlock /\ pool \subseteq TxItem /\ MaxBlock \in Nat
  BY DEF SetsInv, P2PAssumption
<1>4. new /\ Kind(item) = "block" => item[2] = height + 1
  BY DEF Block
<1>5. height' \in 0..MaxBlock /\ pool' \subseteq TxItem /\ height <= height' /\ pool \subseteq pool'
  BY <1>1, <1>2, <1>3, <1>4
<1>6. new => Has(item)'
  BY <1>1, <1>2, <1>3, <1>4, <1>5 DEF Has
<1>7. ASSUME NEW i \in Item, Has(i) PROVE Has(i)'
  <2>1. \/ Kind(i) = "tx"
        \/ Kind(i) = "block" /\ i[2] \in 1..MaxBlock
    BY ItemFacts
  <2> QED
    BY <1>3, <1>5, <1>7, <2>1 DEF Has
<1>8. \A r \in Relayer : fresh'[r] \subseteq fresh[r] \cup {item} /\ (~new => fresh'[r] = fresh[r])
  BY NewsFacts
<1> HIDE DEF new
<1> QED
  BY <1>5, <1>6, <1>7, <1>8

LEMMA HasSame ==
  ASSUME height' = height, pool' = pool PROVE \A i : Has(i) => Has(i)'
BY DEF Has

LEMMA DataKept ==
  ASSUME DataInv, UNCHANGED <<seen, push, fromNode, server, height, pool, fresh, asked, lost>>
  PROVE  DataInv'
<1>1. /\ seen' = seen /\ push' = push /\ fromNode' = fromNode /\ sent' = sent /\ waiting' = waiting
      /\ relayed' = relayed /\ height' = height /\ pool' = pool /\ fresh' = fresh
      /\ asked' = asked /\ lost' = lost
  BY DEF server
<1>2. SetsInv'
  BY <1>1 DEF DataInv, SetsInv
<1>3. HaveInv'
  BY <1>1 DEF DataInv, HaveInv, Has
<1>4. SeenInv'
  BY <1>1 DEF DataInv, SeenInv
<1>5. BlocksAccounted' /\ RequestsAccounted'
  BY <1>1 DEF DataInv, BlocksAccounted, RequestsAccounted, OnTheWay
<1> QED
  BY <1>2, <1>3, <1>4, <1>5 DEF DataInv

LEMMA LoseData ==
  ASSUME CoreInv, DataInv, NEW r \in Relayer, Lose(r), UNCHANGED <<seen, push, server, height, pool, asked>>
  PROVE  DataInv'
<1>1. /\ fromNode' = [fromNode EXCEPT ![r] = <<>>] /\ fresh' = [fresh EXCEPT ![r] = {}]
      /\ lost' = IF r = "recv" THEN lost \cup OnTheWay ELSE lost
      /\ seen' = seen /\ push' = push /\ sent' = sent /\ waiting' = waiting /\ relayed' = relayed
      /\ height' = height /\ pool' = pool /\ asked' = asked
  BY DEF Lose, server
<1>2. /\ fromNode'[r] = <<>> /\ fresh'[r] = {}
      /\ \A p \in Relayer \ {r} : fromNode'[p] = fromNode[p] /\ fresh'[p] = fresh[p]
  BY <1>1 DEF CoreInv, ShapeInv
<1>3. SetsInv'
  <2>1. lost' \subseteq Item
    BY <1>1, WireFacts DEF DataInv, SetsInv
  <2> QED
    BY <1>1, <2>1 DEF DataInv, SetsInv
<1>4. HaveInv'
  <2>1. \A p \in Relayer : fresh'[p] \cup Announced(fromNode'[p]) \subseteq fresh[p] \cup Announced(fromNode[p])
    BY <1>2, EmptyWire
  <2> QED
    BY <1>1, <2>1, HasSame, HaveKept DEF DataInv
<1>5. SeenInv'
  BY <1>1 DEF DataInv, SeenInv
<1>6. BlocksAccounted' /\ RequestsAccounted'
  <2>1. OnTheWay \subseteq lost' \cup OnTheWay'
    <3>1. r = "recv" => OnTheWay \subseteq lost'
      BY <1>1
    <3>2. r # "recv" => OnTheWay' = OnTheWay
      BY <1>2 DEF OnTheWay, Relayer
    <3> QED
      BY <3>1, <3>2
  <2>2. lost \subseteq lost'
    BY <1>1
  <2> QED
    BY <1>1, <2>1, <2>2, AccountedKept DEF DataInv
<1> QED
  BY <1>3, <1>4, <1>5, <1>6 DEF DataInv

LEMMA SendVersionData ==
  ASSUME CoreInv, DataInv, NEW r \in Relayer, SendVersion(r) PROVE DataInv'
<1>1. /\ phase[r] = "setup" /\ fromNode' = [fromNode EXCEPT ![r] = <<Version, Verack>>] /\ fresh' = fresh
      /\ seen' = seen /\ push' = push /\ sent' = sent /\ waiting' = waiting /\ relayed' = relayed
      /\ height' = height /\ pool' = pool /\ asked' = asked /\ lost' = lost
  BY DEF SendVersion, server, history, Version, Verack
<1>2. /\ fromNode[r] = <<>> /\ fromNode'[r] = <<Version, Verack>>
      /\ \A p \in Relayer \ {r} : fromNode'[p] = fromNode[p]
  BY <1>1 DEF CoreInv, ShapeInv, HandshakeInv
<1>3. Announced(<<Version, Verack>>) = {}
  <2>1. ToSet(<<Version, Verack>>) = {Version, Verack}
    BY DEF ToSet
  <2>2. Version.kind # "inv" /\ Verack.kind # "inv"
    BY DEF Version, Verack
  <2> QED
    BY <2>1, <2>2 DEF Announced
<1>4. SetsInv'
  BY <1>1 DEF DataInv, SetsInv
<1>5. HaveInv'
  <2>1. \A p \in Relayer : fresh'[p] \cup Announced(fromNode'[p]) \subseteq fresh[p] \cup Announced(fromNode[p])
    BY <1>1, <1>2, <1>3
  <2> QED
    BY <1>1, <2>1, HasSame, HaveKept DEF DataInv
<1>6. SeenInv'
  BY <1>1 DEF DataInv, SeenInv
<1>7. BlocksAccounted' /\ RequestsAccounted'
  <2>1. OnTheWay \subseteq OnTheWay'
    <3>1. r = "recv" => OnTheWay = {}
      BY <1>2, EmptyWire DEF OnTheWay, Brought
    <3>2. r # "recv" => OnTheWay' = OnTheWay
      BY <1>2 DEF OnTheWay, Relayer
    <3> QED
      BY <3>1, <3>2
  <2> QED
    BY <1>1, <2>1, AccountedKept DEF DataInv
<1> QED
  BY <1>4, <1>5, <1>6, <1>7 DEF DataInv

LEMMA NodeMakesData ==
  ASSUME P2PAssumption, CoreInv, DataInv, NEW item \in Item, NodeMakes(item) PROVE DataInv'
<1>1. /\ NodeTakes(item, "") /\ seen' = seen /\ push' = push /\ sent' = sent /\ waiting' = waiting
      /\ relayed' = relayed /\ fromNode' = fromNode /\ asked' = asked /\ lost' = lost
  BY DEF NodeMakes, relayers, server, history
<1>2. /\ height' \in 0..MaxBlock /\ pool' \subseteq TxItem /\ \A i \in Item : Has(i) => Has(i)'
      /\ \A r \in Relayer : \A i \in fresh'[r] : i \in fresh[r] \/ Has(i)'
  BY <1>1, TakesFacts DEF DataInv
<1>3. SetsInv'
  BY <1>1, <1>2 DEF DataInv, SetsInv
<1>4. HaveInv'
  BY <1>1, <1>2, HaveKept DEF DataInv
<1>5. SeenInv'
  BY <1>1 DEF DataInv, SeenInv
<1>6. BlocksAccounted' /\ RequestsAccounted'
  BY <1>1 DEF DataInv, BlocksAccounted, RequestsAccounted, OnTheWay
<1> QED
  BY <1>3, <1>4, <1>5, <1>6 DEF DataInv

LEMMA AnnounceData ==
  ASSUME CoreInv, DataInv, NEW r \in Relayer, Announce(r) PROVE DataInv'
<1>1. PICK items \in SetToSeqs(fresh[r]) :
        fromNode' = [fromNode EXCEPT ![r] = Append(@, [kind |-> "inv", items |-> items])]
  BY DEF Announce
<1> DEFINE m == [kind |-> "inv", items |-> items]
<1>2. /\ fresh' = [fresh EXCEPT ![r] = {}] /\ seen' = seen /\ push' = push /\ sent' = sent /\ waiting' = waiting
      /\ relayed' = relayed /\ height' = height /\ pool' = pool /\ asked' = asked /\ lost' = lost
  BY DEF Announce, relayers, server, history
<1>3. ToSet(items) \subseteq fresh[r] /\ items \in Seq(Item)
  <2>1. Cardinality(fresh[r]) \in Nat /\ fresh[r] \subseteq Item
    BY FS_CardinalityType DEF CoreInv, ShapeInv
  <2>2. items \in [1..Cardinality(fresh[r]) -> fresh[r]] /\ items \in [1..Cardinality(fresh[r]) -> Item]
    BY <2>1 DEF SetToSeqs
  <2> QED
    BY <2>1, <2>2, SeqDef DEF ToSet
<1>4. /\ fromNode[r] \in Seq(Greeting \cup Later) /\ m \in Greeting \cup Later
      /\ fromNode'[r] = Append(fromNode[r], m) /\ fresh'[r] = {}
      /\ \A p \in Relayer \ {r} : fromNode'[p] = fromNode[p] /\ fresh'[p] = fresh[p]
  BY <1>1, <1>2, <1>3 DEF CoreInv, ShapeInv, Later
<1>5. m.kind = "inv" /\ m.items = items
  OBVIOUS
<1> HIDE DEF m
<1>6. ToSet(Append(fromNode[r], m)) = ToSet(fromNode[r]) \cup {m}
  BY <1>4, AppendFacts
<1>7. Announced(fromNode'[r]) \subseteq Announced(fromNode[r]) \cup fresh[r]
  BY <1>3, <1>4, <1>5, <1>6 DEF Announced
<1>8. SetsInv'
  BY <1>2 DEF DataInv, SetsInv
<1>9. HaveInv'
  <2>1. \A p \in Relayer : fresh'[p] \cup Announced(fromNode'[p]) \subseteq fresh[p] \cup Announced(fromNode[p])
    BY <1>4, <1>7
  <2> QED
    BY <1>2, <2>1, HasSame, HaveKept DEF DataInv
<1>10. SeenInv'
  BY <1>2 DEF DataInv, SeenInv
<1>11. BlocksAccounted' /\ RequestsAccounted'
  <2>1. OnTheWay \subseteq OnTheWay'
    <3>1. ToSet(fromNode["recv"]) \subseteq ToSet(fromNode'["recv"])
      BY <1>4, <1>6 DEF Relayer
    <3> QED
      BY <3>1 DEF OnTheWay
  <2> QED
    BY <1>2, <2>1, AccountedKept DEF DataInv
<1> QED
  BY <1>8, <1>9, <1>10, <1>11 DEF DataInv

LEMMA ReceiveKeeps ==
  ASSUME P2PAssumption, CoreInv, DataInv, NEW item \in Item, Receive(item) PROVE CoreInv' /\ DataInv'
<1> DEFINE ins == insert(seen["up"][Kind(item)], item, SeenMax(item))
<1>1. /\ connected["up"] = 2 /\ seen' = [seen EXCEPT !["up"][Kind(item)] = ins.queue]
      /\ Pushes("up", item) \/ push' = push
      /\ phase' = phase /\ conn' = conn /\ connected' = connected /\ fromNode' = fromNode
      /\ sent' = sent /\ waiting' = waiting /\ relayed' = relayed
      /\ height' = height /\ pool' = pool /\ greeted' = greeted /\ fresh' = fresh
      /\ asked' = asked /\ lost' = lost /\ early' = early /\ stale' = stale
  BY DEF Receive, server, node, history
<1>2. Kind(item) \in {"tx", "block"} /\ "up" \in Relayer /\ "recv" \in Relayer /\ "up" # "recv"
  BY ItemFacts DEF Relayer
<1>3. CoreInv'
  <2>1. CASE Pushes("up", item)
    BY <1>1, <1>2, <2>1, PushesCore
  <2>2. CASE push' = push
    BY <1>1, <2>2, CoreKept DEF core
  <2> QED
    BY <1>1, <2>1, <2>2
<1>4. push'["recv"] = push["recv"]
  BY <1>1, <1>2 DEF Pushes, CoreInv, ShapeInv
<1>5. Remembers(ins.queue, Item, SeenMax(item))
  <2>1. Remembers(seen["up"][Kind(item)], Item, SeenMax(item)) /\ SeenMax(item) \in Nat \ {0}
    BY <1>2 DEF DataInv, SetsInv, SeenMax, P2PAssumption
  <2> QED
    BY <2>1, InsertFacts
<1> HIDE DEF ins
<1>6. SetsInv'
  <2>0. seen \in [Relayer -> [{"tx", "block"} -> Seq(Item)]]
    BY DEF DataInv, SetsInv
  <2>1. ins.queue \in Seq(Item)
    BY <1>5 DEF Remembers
  <2>2. seen' \in [Relayer -> [{"tx", "block"} -> Seq(Item)]] /\ seen'["recv"] = seen["recv"]
    BY <1>1, <1>2, <2>0, <2>1
  <2>3. seen'["up"] = [seen["up"] EXCEPT ![Kind(item)] = ins.queue]
    BY <1>1, <1>2, <2>0
  <2>4. CASE Kind(item) = "tx"
    <3>1. seen'["up"]["tx"] = ins.queue /\ seen'["up"]["block"] = seen["up"]["block"] /\ SeenMax(item) = TxSeenMax
      BY <1>2, <2>0, <2>3, <2>4 DEF SeenMax
    <3> QED
      BY <1>1, <1>5, <2>2, <3>1 DEF DataInv, SetsInv, Relayer
  <2>5. CASE Kind(item) = "block"
    <3>1. seen'["up"]["block"] = ins.queue /\ seen'["up"]["tx"] = seen["up"]["tx"] /\ SeenMax(item) = BlockSeenMax
      BY <1>2, <2>0, <2>3, <2>5 DEF SeenMax
    <3> QED
      BY <1>1, <1>5, <2>2, <3>1 DEF DataInv, SetsInv, Relayer
  <2> QED
    BY <1>2, <2>4, <2>5
<1>7. HaveInv'
  BY <1>1, HasSame, HaveKept DEF DataInv
<1>8. SeenInv'
  <2>1. seen'["recv"] = seen["recv"]
    BY <1>1, <1>2 DEF DataInv, SetsInv
  <2> QED
    BY <1>1, <2>1 DEF DataInv, SeenInv
<1>9. BlocksAccounted' /\ RequestsAccounted'
  <2>1. OnTheWay' = OnTheWay
    BY <1>1 DEF OnTheWay
  <2> QED
    BY <1>1, <1>4, <2>1, AccountedKept DEF DataInv
<1> QED
  BY <1>3, <1>6, <1>7, <1>8, <1>9 DEF DataInv

LEMMA OnHashKeeps ==
  ASSUME P2PAssumption, CoreInv, DataInv, NEW x \in Tx, OnHash(x) PROVE CoreInv' /\ DataInv'
<1> DEFINE item == <<"tx", x>>
<1>1. /\ push["recv"] = Nothing /\ waiting' = vectorInsert(waiting, item, WaitingMax)
      /\ request_transaction(item)
      /\ phase' = phase /\ conn' = conn /\ connected' = connected /\ seen' = seen /\ fromNode' = fromNode
      /\ sent' = sent /\ relayed' = relayed
      /\ height' = height /\ pool' = pool /\ greeted' = greeted /\ fresh' = fresh
      /\ asked' = asked /\ early' = early /\ stale' = stale
  BY DEF OnHash, node
<1>2. item \in Item /\ item \in TxItem /\ "recv" \in Relayer
  BY DEF Item, TxItem, Relayer
<1> HIDE DEF item
<1>3. \/ connected["recv"] = 2 /\ Pushes("recv", item) /\ lost' = lost
      \/ lost' = lost \cup {item} /\ push' = push
  BY <1>1 DEF request_transaction
<1>4. CoreInv'
  <2>1. CASE connected["recv"] = 2 /\ Pushes("recv", item)
    BY <1>1, <1>2, <2>1, PushesCore
  <2>2. CASE push' = push
    BY <1>1, <2>2, CoreKept DEF core
  <2> QED
    BY <1>3, <2>1, <2>2
<1>5. lost \subseteq lost' /\ lost' \subseteq lost \cup {item}
      /\ (item \in lost' \/ (push'["recv"] # Nothing /\ push'["recv"].item = item))
  <2>1. CASE Pushes("recv", item) /\ lost' = lost
    <3>1. push'["recv"] = [item |-> item, since |-> conn["recv"]]
      BY <1>2, <2>1 DEF Pushes, CoreInv, ShapeInv
    <3> QED
      BY <2>1, <3>1 DEF Nothing
  <2>2. CASE lost' = lost \cup {item}
    BY <2>2
  <2> QED
    BY <1>3, <2>1, <2>2
<1>6. /\ Remembers(waiting', Item, WaitingMax) /\ ToSet(waiting') \subseteq ToSet(waiting) \cup {item}
  BY <1>1, <1>2, VectorInsertFacts DEF DataInv, SetsInv, P2PAssumption
<1>7. SetsInv'
  BY <1>1, <1>2, <1>5, <1>6 DEF DataInv, SetsInv
<1>8. HaveInv'
  BY <1>1, HasSame, HaveKept DEF DataInv
<1>9. SeenInv'
  BY <1>1 DEF DataInv, SeenInv
<1>10. OnTheWay' = OnTheWay
  BY <1>1 DEF OnTheWay
<1>11. BlocksAccounted'
  BY <1>1, <1>5, <1>10 DEF DataInv, BlocksAccounted
<1>12. RequestsAccounted'
  <2>1. ToSet(waiting) \subseteq relayed \cup lost \cup OnTheWay
    BY <1>1 DEF DataInv, RequestsAccounted
  <2> QED
    BY <1>1, <1>2, <1>5, <1>6, <1>10, <2>1 DEF RequestsAccounted
<1> QED
  BY <1>4, <1>7, <1>8, <1>9, <1>11, <1>12 DEF DataInv

LEMMA SendData ==
  ASSUME P2PAssumption, CoreInv, DataInv, NEW r \in Relayer, Send(r) PROVE DataInv'
<1> DEFINE item == push[r].item
<1>1. /\ push[r] # Nothing /\ push' = [push EXCEPT ![r] = Nothing]
      /\ seen' = seen /\ sent' = sent /\ waiting' = waiting /\ relayed' = relayed /\ asked' = asked
  BY DEF Send, server
<1>2. item \in Item /\ "recv" \in Relayer
  BY <1>1 DEF CoreInv, ShapeInv, Relayer
<1>3. \/ r = "up" /\ NodeTakes(item, "up") /\ fromNode' = fromNode /\ lost' = lost
      \/ /\ r = "recv" /\ fromNode' = [fromNode EXCEPT ![r] = @ \o Data(<<item>>)] /\ lost' = lost
         /\ height' = height /\ pool' = pool /\ fresh' = fresh
      \/ /\ r = "recv" /\ fromNode' = fromNode /\ lost' = lost \cup {item}
         /\ height' = height /\ pool' = pool /\ fresh' = fresh
      \/ /\ r = "up" /\ fromNode' = fromNode /\ lost' = lost
         /\ height' = height /\ pool' = pool /\ fresh' = fresh
  BY DEF Send, Relayer
<1> HIDE DEF item
<1>4. /\ height' \in 0..MaxBlock /\ pool' \subseteq TxItem /\ \A i \in Item : Has(i) => Has(i)'
      /\ \A p \in Relayer : \A i \in fresh'[p] : i \in fresh[p] \/ Has(i)'
  <2>1. CASE NodeTakes(item, "up")
    BY <1>2, <2>1, TakesFacts DEF DataInv
  <2>2. CASE height' = height /\ pool' = pool /\ fresh' = fresh
    BY <2>2, HasSame DEF DataInv, SetsInv
  <2> QED
    BY <1>3, <2>1, <2>2
<1>5. /\ \A p \in Relayer : Announced(fromNode'[p]) \subseteq Announced(fromNode[p])
      /\ OnTheWay \subseteq OnTheWay' /\ (r = "recv" => item \in lost' \cup OnTheWay')
  <2>1. CASE fromNode' = fromNode /\ (r = "recv" => lost' = lost \cup {item})
    BY <2>1 DEF OnTheWay
  <2>2. CASE r = "recv" /\ fromNode' = [fromNode EXCEPT ![r] = @ \o Data(<<item>>)]
    <3>0. <<item>> \in Seq(Item) /\ ToSet(<<item>>) = {item}
      BY <1>2 DEF ToSet
    <3>1. Data(<<item>>) \in Seq(Later) /\ Brought(Data(<<item>>)) = {item} /\ Announced(Data(<<item>>)) = {}
      BY <3>0, DataFacts
    <3>2. Data(<<item>>) \in Seq(Greeting \cup Later) /\ fromNode["recv"] \in Seq(Greeting \cup Later)
      BY <1>2, <3>1, SeqOfLarger DEF CoreInv, ShapeInv
    <3>3. /\ fromNode'["recv"] = fromNode["recv"] \o Data(<<item>>)
          /\ \A p \in Relayer \ {"recv"} : fromNode'[p] = fromNode[p]
      BY <1>2, <2>2 DEF CoreInv, ShapeInv
    <3>4. /\ Brought(fromNode'["recv"]) = Brought(fromNode["recv"]) \cup {item}
          /\ Announced(fromNode'["recv"]) = Announced(fromNode["recv"])
      <4>1. /\ Brought(fromNode["recv"] \o Data(<<item>>)) = Brought(fromNode["recv"]) \cup Brought(Data(<<item>>))
            /\ Announced(fromNode["recv"] \o Data(<<item>>)) = Announced(fromNode["recv"]) \cup Announced(Data(<<item>>))
        BY <3>2, ConcatFacts
      <4> QED
        BY <3>1, <3>3, <4>1
    <3>5. OnTheWay = Brought(fromNode["recv"]) /\ OnTheWay' = Brought(fromNode'["recv"])
      BY DEF OnTheWay, Brought
    <3> QED
      BY <3>3, <3>4, <3>5
  <2> QED
    BY <1>3, <2>1, <2>2
<1>6. lost \subseteq lost' /\ lost' \subseteq lost \cup {item}
  BY <1>3
<1>7. SetsInv'
  BY <1>1, <1>2, <1>4, <1>6 DEF DataInv, SetsInv
<1>8. HaveInv'
  BY <1>4, <1>5, HaveKept DEF DataInv
<1>9. SeenInv'
  BY <1>1 DEF DataInv, SeenInv
<1>10. BlocksAccounted' /\ RequestsAccounted'
  <2>1. push'["recv"] = push["recv"] \/ push["recv"].item \in lost' \cup OnTheWay'
    <3>1. r # "recv" => push'["recv"] = push["recv"]
      BY <1>1, <1>2 DEF CoreInv, ShapeInv
    <3>2. r = "recv" => push["recv"].item \in lost' \cup OnTheWay'
      BY <1>5 DEF item
    <3> QED
      BY <3>1, <3>2
  <2> QED
    BY <1>1, <1>5, <1>6, <2>1, AccountedKept DEF DataInv
<1> QED
  BY <1>7, <1>8, <1>9, <1>10 DEF DataInv

\* net_process leaves q of what was waiting.
LEMMA LeftFacts ==
  ASSUME CoreInv, NEW r \in Relayer, NEW q, Left(r, q)
  PROVE  /\ fromNode' = [fromNode EXCEPT ![r] = q]
         /\ fromNode'[r] = q /\ \A p \in Relayer \ {r} : fromNode'[p] = fromNode[p]
         /\ r = "recv" => OnTheWay = Brought(fromNode[r]) /\ OnTheWay' = Brought(q)
         /\ r # "recv" => OnTheWay' = OnTheWay
<1>1. /\ fromNode' = [fromNode EXCEPT ![r] = q]
      /\ fromNode'[r] = q /\ \A p \in Relayer \ {r} : fromNode'[p] = fromNode[p]
  BY DEF Left, CoreInv, ShapeInv
<1>2. OnTheWay = Brought(fromNode["recv"]) /\ OnTheWay' = Brought(fromNode'["recv"])
  BY DEF OnTheWay, Brought
<1> QED
  BY <1>1, <1>2 DEF Relayer

LEMMA LeftHave ==
  ASSUME CoreInv, HaveInv, NEW r \in Relayer, NEW q, Left(r, q),
         Announced(q) \subseteq Announced(fromNode[r]), UNCHANGED <<height, pool, fresh>>
  PROVE  HaveInv'
<1>1. fromNode'[r] = q /\ \A p \in Relayer \ {r} : fromNode'[p] = fromNode[p]
  BY LeftFacts
<1>2. \A p \in Relayer : fresh'[p] \cup Announced(fromNode'[p]) \subseteq fresh[p] \cup Announced(fromNode[p])
  BY <1>1
<1> QED
  BY <1>2, HasSame, HaveKept

\* A message that brings nothing has been read.
LEMMA LeftData ==
  ASSUME CoreInv, DataInv, NEW r \in Relayer, NEW q, Left(r, q),
         Announced(q) \subseteq Announced(fromNode[r]), Brought(fromNode[r]) \subseteq Brought(q),
         sent' \subseteq Item, UNCHANGED <<seen, waiting, relayed, height, pool, fresh, asked, lost, push>>
  PROVE  DataInv'
<1>1. SetsInv'
  BY DEF DataInv, SetsInv
<1>2. HaveInv'
  BY LeftHave DEF DataInv
<1>3. SeenInv'
  BY DEF DataInv, SeenInv
<1>4. OnTheWay \subseteq OnTheWay'
  BY LeftFacts
<1>5. BlocksAccounted' /\ RequestsAccounted'
  BY <1>4, AccountedKept DEF DataInv
<1> QED
  BY <1>1, <1>2, <1>3, <1>5 DEF DataInv

\* The wire after a message has been read and more has been put at its end.
LEMMA ReadOn ==
  ASSUME CoreInv, NEW r \in Relayer, fromNode[r] # <<>>, Tail(fromNode[r]) \in Seq(Later), NEW more \in Seq(Later)
  PROVE  /\ Tail(fromNode[r]) \o more \in Seq(Later)
         /\ Brought(Tail(fromNode[r]) \o more) = Brought(Tail(fromNode[r])) \cup Brought(more)
         /\ Announced(Tail(fromNode[r]) \o more) = Announced(Tail(fromNode[r])) \cup Announced(more)
<1>1. Tail(fromNode[r]) \o more \in Seq(Later)
  BY ConcatProperties
<1>2. Tail(fromNode[r]) \in Seq(Greeting \cup Later) /\ more \in Seq(Greeting \cup Later)
  BY SeqOfLarger
<1> QED
  BY <1>1, <1>2, ConcatFacts

\* What holds while a message is read.
Reading(r) ==
  /\ phase[r] = "up" /\ fromNode[r] # <<>>
  /\ UNCHANGED <<phase, fresh, conn, push, height, pool, early, stale>>

LEMMA ReadVersionKeeps ==
  ASSUME CoreInv, DataInv, NEW r \in Relayer, Reading(r),
         ReadVersion(r, Head(fromNode[r]), Tail(fromNode[r]))
  PROVE  CoreInv' /\ DataInv'
<1> DEFINE msg == Head(fromNode[r])
           rest == Tail(fromNode[r])
<1>1. /\ msg.kind = "version" /\ connected' = [connected EXCEPT ![r] = 1]
      /\ greeted' = [greeted EXCEPT ![r] = "verack"] /\ Left(r, rest)
      /\ seen' = seen /\ sent' = sent /\ waiting' = waiting /\ relayed' = relayed
      /\ asked' = asked /\ lost' = lost
  BY DEF ReadVersion, server
<1>2. /\ phase[r] = "up" /\ fromNode[r] # <<>> /\ phase' = phase /\ fresh' = fresh /\ conn' = conn
      /\ push' = push /\ height' = height /\ pool' = pool /\ early' = early /\ stale' = stale
  BY DEF Reading
<1>3. connected[r] = 0 /\ rest = <<Verack>>
  <2>1. Verack.kind = "verack" /\ \A m \in Later : m.kind # "version"
    BY DEF Verack, Later
  <2> QED
    BY <1>1, <1>2, <2>1, MessageExpected
<1>4. fromNode[r] \in Seq(Greeting \cup Later)
  BY DEF CoreInv, ShapeInv
<1>5. CoreInv'
  <2>1. fromNode' = [fromNode EXCEPT ![r] = rest]
    BY <1>1 DEF Left
  <2>2. \/ 1 = 1 /\ connected[r] # 2 /\ rest = <<Verack>>
        \/ 1 = 2 /\ rest \in Seq(Later)
    BY <1>3
  <2>3. UNCHANGED <<phase, conn, push, fresh, early, stale>>
    BY <1>2
  <2> HIDE DEF rest, msg
  <2> QED
    BY <1>1, <1>2, <2>1, <2>2, <2>3, LeftCore, Zenon
<1>6. Announced(rest) \subseteq Announced(fromNode[r]) /\ Brought(fromNode[r]) \subseteq Brought(rest)
  BY <1>1, <1>2, <1>4, ReadFacts
<1>7. DataInv'
  <2>1. sent' \subseteq Item
    BY <1>1 DEF DataInv, SetsInv
  <2> HIDE DEF rest, msg
  <2> QED
    BY <1>1, <1>2, <1>6, <2>1, LeftData
<1> QED
  BY <1>5, <1>7

LEMMA ReadVerackKeeps ==
  ASSUME P2PAssumption, CoreInv, DataInv, NEW r \in Relayer, Reading(r),
         ReadVerack(r, Head(fromNode[r]), Tail(fromNode[r]))
  PROVE  CoreInv' /\ DataInv'
<1> DEFINE msg == Head(fromNode[r])
           rest == Tail(fromNode[r])
           more == HeadersAfter(0)
<1>1. /\ msg.kind = "verack" /\ connected' = [connected EXCEPT ![r] = 2]
      /\ greeted' = greeted /\ Left(r, rest \o more)
      /\ seen' = seen /\ sent' = sent /\ waiting' = waiting /\ relayed' = relayed
      /\ asked' = asked /\ lost' = lost
  BY DEF ReadVerack, server
<1>2. /\ phase[r] = "up" /\ fromNode[r] # <<>> /\ phase' = phase /\ fresh' = fresh /\ conn' = conn
      /\ push' = push /\ height' = height /\ pool' = pool /\ early' = early /\ stale' = stale
  BY DEF Reading
<1>3. greeted[r] = "verack" /\ rest \in Seq(Later)
  <2>1. Version.kind = "version" /\ \A m \in Later : m.kind # "verack"
    BY DEF Version, Later
  <2> QED
    BY <1>1, <1>2, <2>1, MessageExpected
<1>4. more \in Seq(Later) /\ Brought(more) = {} /\ Announced(more) = {}
  <2>1. height \in 0..MaxBlock
    BY DEF DataInv, SetsInv
  <2> QED
    BY <2>1, HeadersFacts
<1> HIDE DEF more
<1>5. /\ rest \o more \in Seq(Later) /\ Brought(rest \o more) = Brought(rest)
      /\ Announced(rest \o more) = Announced(rest)
  <2>1. /\ rest \o more \in Seq(Later) /\ Brought(rest \o more) = Brought(rest) \cup Brought(more)
        /\ Announced(rest \o more) = Announced(rest) \cup Announced(more)
    BY <1>2, <1>3, <1>4, ReadOn
  <2> QED
    BY <1>4, <2>1
<1>6. Announced(rest) \subseteq Announced(fromNode[r]) /\ Brought(fromNode[r]) \subseteq Brought(rest)
  <2>1. fromNode[r] \in Seq(Greeting \cup Later)
    BY DEF CoreInv, ShapeInv
  <2> QED
    BY <1>1, <1>2, <2>1, ReadFacts
<1> HIDE DEF rest, msg
<1> DEFINE q == rest \o more
<1>7. greeted' = [greeted EXCEPT ![r] = "verack"]
  BY <1>1, <1>3 DEF CoreInv, ShapeInv
<1>8. Left(r, q) /\ q \in Seq(Later) /\ Announced(q) \subseteq Announced(fromNode[r])
      /\ Brought(fromNode[r]) \subseteq Brought(q) /\ fromNode' = [fromNode EXCEPT ![r] = q]
  BY <1>1, <1>5, <1>6 DEF Left
<1>9. sent' \subseteq Item
  BY <1>1 DEF DataInv, SetsInv
<1> HIDE DEF q
<1>10. CoreInv'
  BY <1>1, <1>2, <1>7, <1>8, LeftCore
<1>11. DataInv'
  BY <1>1, <1>2, <1>8, <1>9, LeftData
<1> QED
  BY <1>10, <1>11

\* After the handshake, whatever is left of the wire keeps the core.
LEMMA LaterCore ==
  ASSUME CoreInv, NEW r \in Relayer, Reading(r), Head(fromNode[r]).kind \in {"inv", "headers", "data"},
         NEW q, q \in Seq(Later), Left(r, q), UNCHANGED <<connected, greeted>>
  PROVE  CoreInv'
<1>1. connected[r] = 2 /\ greeted[r] = "verack" /\ phase[r] = "up"
  <2>1. Version.kind = "version" /\ Verack.kind = "verack"
    BY DEF Version, Verack
  <2> QED
    BY <2>1, MessageExpected DEF Reading
<1>2. connected' = [connected EXCEPT ![r] = 2] /\ greeted' = [greeted EXCEPT ![r] = "verack"]
  BY <1>1 DEF CoreInv, ShapeInv
<1>3. fromNode' = [fromNode EXCEPT ![r] = q]
  BY DEF Left
<1>4. UNCHANGED <<phase, conn, push, fresh, early, stale>>
  BY DEF Reading
<1> QED
  BY <1>1, <1>2, <1>3, <1>4, LeftCore

\* What is at the head of the wire then.
LEMMA LaterFacts ==
  ASSUME CoreInv, NEW r \in Relayer, phase[r] = "up", fromNode[r] # <<>>,
         Head(fromNode[r]).kind \in {"inv", "headers", "data"}
  PROVE  /\ Head(fromNode[r]) \in Later /\ Tail(fromNode[r]) \in Seq(Later)
         /\ fromNode[r] \in Seq(Greeting \cup Later)
<1>1. Version.kind = "version" /\ Verack.kind = "verack"
  BY DEF Version, Verack
<1>2. fromNode[r] \in Seq(Greeting \cup Later)
  BY DEF CoreInv, ShapeInv
<1> QED
  BY <1>1, <1>2, MessageExpected

LEMMA ReadHeadersKeeps ==
  ASSUME P2PAssumption, CoreInv, DataInv, NEW r \in Relayer, Reading(r),
         ReadHeaders(r, Head(fromNode[r]), Tail(fromNode[r]))
  PROVE  CoreInv' /\ DataInv'
<1> DEFINE msg == Head(fromNode[r])
           rest == Tail(fromNode[r])
           more == HeadersAfter(msg.last)
<1>1. /\ msg.kind = "headers"
      /\ \/ Left(r, rest) /\ sent' = sent
         \/ /\ sent' = IF r = "up" THEN sent \cup {Block(h) : h \in (msg.from + 1)..msg.last} ELSE sent
            /\ Left(r, rest \o more)
      /\ connected' = connected /\ seen' = seen /\ waiting' = waiting /\ relayed' = relayed
      /\ greeted' = greeted /\ asked' = asked /\ lost' = lost
  BY DEF ReadHeaders
<1>2. /\ phase[r] = "up" /\ fromNode[r] # <<>> /\ phase' = phase /\ fresh' = fresh /\ conn' = conn
      /\ push' = push /\ height' = height /\ pool' = pool /\ early' = early /\ stale' = stale
  BY DEF Reading
<1>3. msg \in Later /\ rest \in Seq(Later) /\ fromNode[r] \in Seq(Greeting \cup Later)
  BY <1>1, <1>2, LaterFacts
<1>4. msg.from \in Nat /\ msg.last \in 0..MaxBlock /\ msg.last \in Nat
  <2>1. msg.from \in Nat /\ msg.last \in 0..MaxBlock
    BY <1>1, <1>3 DEF Later
  <2> QED
    BY <2>1 DEF P2PAssumption
<1>5. more \in Seq(Later) /\ Brought(more) = {} /\ Announced(more) = {}
  <2>1. height \in 0..MaxBlock
    BY DEF DataInv, SetsInv
  <2> HIDE DEF msg
  <2> QED
    BY <1>4, <2>1, HeadersFacts
<1> HIDE DEF more
<1>6. /\ rest \o more \in Seq(Later) /\ Brought(rest \o more) = Brought(rest)
      /\ Announced(rest \o more) = Announced(rest)
  <2>1. /\ rest \o more \in Seq(Later) /\ Brought(rest \o more) = Brought(rest) \cup Brought(more)
        /\ Announced(rest \o more) = Announced(rest) \cup Announced(more)
    BY <1>2, <1>3, <1>5, ReadOn
  <2> QED
    BY <1>5, <2>1
<1>7. Announced(rest) \subseteq Announced(fromNode[r]) /\ Brought(fromNode[r]) \subseteq Brought(rest)
  BY <1>1, <1>2, <1>3, ReadFacts
<1>8. sent' \subseteq Item
  <2>1. sent \subseteq Item
    BY DEF DataInv, SetsInv
  <2>2. {Block(h) : h \in (msg.from + 1)..msg.last} \subseteq Item
    <3> HIDE DEF msg
    <3>1. \A h \in (msg.from + 1)..msg.last : h \in 1..MaxBlock
      BY <1>4 DEF P2PAssumption
    <3> QED
      BY <3>1 DEF Item
  <2> HIDE DEF rest, msg
  <2> QED
    BY <1>1, <2>1, <2>2
<1>9. PICK q : /\ q \in Seq(Later) /\ Left(r, q) /\ Announced(q) \subseteq Announced(fromNode[r])
               /\ Brought(fromNode[r]) \subseteq Brought(q)
  <2> HIDE DEF rest, msg
  <2>1. CASE Left(r, rest)
    BY <1>3, <1>7, <2>1
  <2>2. CASE Left(r, rest \o more)
    BY <1>6, <1>7, <2>2
  <2> QED
    BY <1>1, <2>1, <2>2
<1>10. CoreInv'
  BY <1>1, <1>9, LaterCore
<1>11. DataInv'
  BY <1>1, <1>2, <1>8, <1>9, LeftData
<1> QED
  BY <1>10, <1>11

LEMMA ProvideBlockKeeps ==
  ASSUME CoreInv, DataInv, NEW r \in Relayer, Reading(r),
         provide_block(r, Head(fromNode[r]), Tail(fromNode[r]))
  PROVE  CoreInv' /\ DataInv'
<1> DEFINE msg == Head(fromNode[r])
           rest == Tail(fromNode[r])
<1>1. /\ msg.kind = "data" /\ Left(r, rest)
      /\ IF r = "recv" /\ msg.item \notin sent
         THEN relayed' = relayed \cup {msg.item} /\ sent' = sent \cup {msg.item}
         ELSE relayed' = relayed /\ sent' = sent
      /\ lost' = IF r = "recv" THEN lost \cup ({msg.item} \cap (sent \ relayed)) ELSE lost
      /\ connected' = connected /\ seen' = seen /\ waiting' = waiting /\ greeted' = greeted /\ asked' = asked
  BY DEF provide_block
<1>2. /\ phase[r] = "up" /\ fromNode[r] # <<>> /\ fresh' = fresh
      /\ push' = push /\ height' = height /\ pool' = pool
  BY DEF Reading
<1>3. msg \in Later /\ rest \in Seq(Later) /\ fromNode[r] \in Seq(Greeting \cup Later)
  BY <1>1, <1>2, LaterFacts
<1>4. msg.item \in Item
  BY <1>1, <1>3 DEF Later
<1>5. Announced(rest) \subseteq Announced(fromNode[r]) /\ Brought(fromNode[r]) \subseteq Brought(rest) \cup {msg.item}
  BY <1>2, <1>3, ReadFacts
<1>6. CoreInv'
  BY <1>1, <1>3, LaterCore
<1> HIDE DEF msg, rest
<1>7. /\ relayed \subseteq relayed' /\ lost \subseteq lost' /\ (r = "recv" => msg.item \in relayed' \cup lost')
      /\ relayed' \subseteq relayed \cup {msg.item} /\ sent' \subseteq sent \cup {msg.item}
      /\ lost' \subseteq lost \cup {msg.item}
  BY <1>1
<1>8. SetsInv'
  BY <1>1, <1>2, <1>4, <1>7 DEF DataInv, SetsInv
<1>9. HaveInv'
  BY <1>1, <1>2, <1>5, LeftHave DEF DataInv
<1>10. SeenInv'
  BY <1>1 DEF DataInv, SeenInv
<1>11. OnTheWay \subseteq relayed' \cup lost' \cup OnTheWay'
  BY <1>1, <1>5, <1>7, LeftFacts
<1>12. BlocksAccounted' /\ RequestsAccounted'
  BY <1>1, <1>2, <1>7, <1>11, AccountedKept DEF DataInv
<1> QED
  BY <1>6, <1>8, <1>9, <1>10, <1>12 DEF DataInv

LEMMA ProvideTransactionKeeps ==
  ASSUME CoreInv, DataInv, NEW r \in Relayer, Reading(r),
         provide_transaction(r, Head(fromNode[r]), Tail(fromNode[r]))
  PROVE  CoreInv' /\ DataInv'
<1> DEFINE msg == Head(fromNode[r])
           rest == Tail(fromNode[r])
<1>1. /\ msg.kind = "data" /\ Kind(msg.item) = "tx" /\ Left(r, rest)
      /\ relayed' = IF r = "recv" /\ msg.item \in ToSet(waiting) THEN relayed \cup {msg.item} ELSE relayed
      /\ connected' = connected /\ seen' = seen /\ sent' = sent /\ waiting' = waiting
      /\ greeted' = greeted /\ asked' = asked /\ lost' = lost
  BY DEF provide_transaction
<1>2. /\ phase[r] = "up" /\ fromNode[r] # <<>> /\ fresh' = fresh
      /\ push' = push /\ height' = height /\ pool' = pool
  BY DEF Reading
<1>3. msg \in Later /\ rest \in Seq(Later) /\ fromNode[r] \in Seq(Greeting \cup Later)
  BY <1>1, <1>2, LaterFacts
<1>4. msg.item \in Item
  BY <1>1, <1>3 DEF Later
<1>5. Announced(rest) \subseteq Announced(fromNode[r]) /\ Brought(fromNode[r]) \subseteq Brought(rest) \cup {msg.item}
  BY <1>2, <1>3, ReadFacts
<1>6. CoreInv'
  BY <1>1, <1>3, LaterCore
<1> HIDE DEF msg, rest
<1>7. msg.item \notin asked
  <2>1. msg.item \notin BlockItem
    BY <1>1, <1>4, ItemFacts
  <2> QED
    BY <2>1 DEF DataInv, SetsInv
<1>8. /\ relayed \subseteq relayed' /\ relayed' \subseteq relayed \cup {msg.item}
      /\ r = "recv" /\ msg.item \in ToSet(waiting) => msg.item \in relayed'
  BY <1>1
<1>9. SetsInv'
  BY <1>1, <1>2, <1>4, <1>8 DEF DataInv, SetsInv
<1>10. HaveInv'
  BY <1>1, <1>2, <1>5, LeftHave DEF DataInv
<1>11. SeenInv'
  BY <1>1 DEF DataInv, SeenInv
<1>12. \A i \in OnTheWay : i \in asked \cup ToSet(waiting) => i \in relayed' \cup lost' \cup OnTheWay'
  BY <1>1, <1>5, <1>7, <1>8, LeftFacts
<1>13. BlocksAccounted' /\ RequestsAccounted'
  BY <1>1, <1>2, <1>8, <1>12, AccountedKept DEF DataInv
<1> QED
  BY <1>6, <1>9, <1>10, <1>11, <1>13 DEF DataInv

LEMMA ReadInvKeeps ==
  ASSUME P2PAssumption, CoreInv, DataInv, NEW r \in Relayer, Reading(r),
         ReadInv(r, Head(fromNode[r]), Tail(fromNode[r]))
  PROVE  CoreInv' /\ DataInv'
<1> DEFINE msg == Head(fromNode[r])
           rest == Tail(fromNode[r])
           items == msg.items
           s == NotedAll(seen[r], items)
           more == Data(s.resp)
           q == rest \o more
<1>1. /\ msg.kind = "inv" /\ seen' = [seen EXCEPT ![r] = s.seen] /\ Left(r, q)
      /\ asked' = asked \cup {i \in ToSet(items) : r = "recv" /\ Kind(i) = "block"}
      /\ connected' = connected /\ sent' = sent /\ waiting' = waiting /\ relayed' = relayed
      /\ greeted' = greeted /\ lost' = lost
  BY DEF ReadInv, server
<1>2. /\ phase[r] = "up" /\ fromNode[r] # <<>> /\ fresh' = fresh
      /\ push' = push /\ height' = height /\ pool' = pool
  BY DEF Reading
<1>3. msg \in Later /\ rest \in Seq(Later) /\ fromNode[r] \in Seq(Greeting \cup Later)
  BY <1>1, <1>2, LaterFacts
<1>4. items \in Seq(Item)
  BY <1>1, <1>3 DEF Later
<1>5. Announced(rest) \subseteq Announced(fromNode[r]) /\ Brought(fromNode[r]) \subseteq Brought(rest)
  BY <1>1, <1>2, <1>3, ReadFacts
<1> HIDE DEF items
<1>6. GoodAfter(seen[r], items, Len(items), s)
  <2>1. SeenOK(seen[r])
    BY DEF DataInv, SetsInv, SeenOK
  <2> QED
    BY <1>4, <2>1, NotedAllFacts
<1> HIDE DEF s
<1>7. /\ SeenOK(s.seen) /\ s.resp \in Seq(Item) /\ ToSet(s.resp) \subseteq ToSet(items)
      /\ ToSet(s.seen["block"]) \subseteq ToSet(seen[r]["block"]) \cup {i \in ToSet(s.resp) : Kind(i) = "block"}
      /\ \A i \in ToSet(items) : Kind(i) = "block" => i \in ToSet(seen[r]["block"]) \cup ToSet(s.resp)
  <2>1. DOMAIN items = 1..Len(items)
    BY <1>4
  <2>2. ToSet(items) = {items[j] : j \in 1..Len(items)}
    BY <2>1 DEF ToSet
  <2> QED
    BY <1>6, <2>2 DEF GoodAfter
<1>8. more \in Seq(Later) /\ Brought(more) = ToSet(s.resp) /\ Announced(more) = {}
  BY <1>7, DataFacts
<1> HIDE DEF more
<1>9. /\ q \in Seq(Later) /\ Brought(q) = Brought(rest) \cup ToSet(s.resp) /\ Announced(q) = Announced(rest)
  <2>1. /\ rest \o more \in Seq(Later) /\ Brought(rest \o more) = Brought(rest) \cup Brought(more)
        /\ Announced(rest \o more) = Announced(rest) \cup Announced(more)
    BY <1>2, <1>3, <1>8, ReadOn
  <2> QED
    BY <1>8, <2>1
<1> HIDE DEF q
<1>10. CoreInv'
  BY <1>1, <1>9, LaterCore
<1> HIDE DEF msg, rest
<1>11. /\ seen \in [Relayer -> [{"tx", "block"} -> Seq(Item)]] /\ seen'[r] = s.seen
       /\ \A p \in Relayer \ {r} : seen'[p] = seen[p]
  BY <1>1 DEF DataInv, SetsInv
<1>12. asked \subseteq asked' /\ asked' \subseteq BlockItem
  <2>1. \A i \in ToSet(items) : i \in Item
    BY <1>4 DEF ToSet
  <2>2. \A i \in ToSet(items) : Kind(i) = "block" => i \in BlockItem
    BY <2>1, ItemFacts
  <2> QED
    BY <1>1, <2>2 DEF DataInv, SetsInv
<1>13. SetsInv'
  <2>1. seen' \in [Relayer -> [{"tx", "block"} -> Seq(Item)]]
    BY <1>1, <1>7, <1>11 DEF SeenOK
  <2>2. \A p \in Relayer : /\ Remembers(seen'[p]["tx"], Item, TxSeenMax)
                           /\ Remembers(seen'[p]["block"], Item, BlockSeenMax)
    BY <1>7, <1>11 DEF SeenOK, DataInv, SetsInv
  <2> QED
    BY <1>1, <1>2, <1>12, <2>1, <2>2 DEF DataInv, SetsInv
<1>14. HaveInv'
  BY <1>1, <1>2, <1>5, <1>9, LeftHave DEF DataInv
<1>15. SeenInv'
  <2>1. CASE r = "recv"
    BY <1>1, <1>7, <1>11, <2>1 DEF DataInv, SeenInv
  <2>2. CASE r # "recv"
    BY <1>11, <1>12, <2>2 DEF DataInv, SeenInv, Relayer
  <2> QED
    BY <2>1, <2>2
<1>16. OnTheWay \subseteq OnTheWay' /\ (r = "recv" => ToSet(s.resp) \subseteq OnTheWay')
  BY <1>1, <1>5, <1>9, LeftFacts
<1>17. BlocksAccounted'
  <2>1. \A i \in asked' : i \in asked \/ i \in OnTheWay'
    BY <1>1, <1>7, <1>16 DEF DataInv, SeenInv
  <2> QED
    BY <1>1, <1>16, <2>1 DEF DataInv, BlocksAccounted
<1>18. RequestsAccounted'
  BY <1>1, <1>2, <1>16 DEF DataInv, RequestsAccounted
<1> QED
  BY <1>10, <1>13, <1>14, <1>15, <1>17, <1>18 DEF DataInv

LEMMA NetProcessKeeps ==
  ASSUME P2PAssumption, CoreInv, DataInv, NEW r \in Relayer, net_process(r) PROVE CoreInv' /\ DataInv'
<1> DEFINE msg == Head(fromNode[r])
           rest == Tail(fromNode[r])
<1>1. phase[r] = "up" /\ fromNode[r] # <<>>
  BY DEF net_process
<1>2. Expected(r, msg)
  BY <1>1, MessageExpected
<1>3. /\ \/ ReadVersion(r, msg, rest) \/ ReadVerack(r, msg, rest)
         \/ ReadInv(r, msg, rest) \/ ReadHeaders(r, msg, rest)
         \/ provide_block(r, msg, rest) \/ provide_transaction(r, msg, rest)
      /\ UNCHANGED <<phase, fresh>> /\ UNCHANGED <<conn, push, height, pool, early, stale>>
  BY <1>2, Zenon DEF net_process
<1>4. Reading(r)
  BY <1>1, <1>3 DEF Reading
<1> QED
  BY <1>3, <1>4, ReadVersionKeeps, ReadVerackKeeps, ReadInvKeeps, ReadHeadersKeeps,
     ProvideBlockKeeps, ProvideTransactionKeeps

----------------------------------------------------------------------------
(***************************************************************************)
(* The invariant.                                                          *)
(***************************************************************************)
LEMMA InitKeeps == Init => CoreInv /\ DataInv
<1> SUFFICES ASSUME Init PROVE CoreInv /\ DataInv
  OBVIOUS
<1>1. ShapeInv
  <2>1. IsFiniteSet({})
    BY FS_EmptySet
  <2>2. \A r \in Relayer : 0 <= MaxConn[r]
    BY P2PAssumption DEF P2PAssumption
  <2>3. <<>> \in Seq(Greeting \cup Later)
    OBVIOUS
  <2>4. fromNode \in [Relayer -> Seq(Greeting \cup Later)]
    BY <2>3 DEF Init
  <2> QED
    BY <2>1, <2>2, <2>4 DEF Init, ShapeInv
<1>2. HandshakeInv
  BY DEF Init, HandshakeInv
<1>3. PushInv
  BY DEF Init, PushInv
<1>4. SetsInv
  <2>1. \A n \in Nat : Remembers(<<>>, Item, n)
    BY DEF Remembers, IsInjective
  <2>2. TxSeenMax \in Nat /\ BlockSeenMax \in Nat /\ WaitingMax \in Nat /\ MaxBlock \in Nat
    BY P2PAssumption DEF P2PAssumption
  <2>3. seen \in [Relayer -> [{"tx", "block"} -> Seq(Item)]]
    BY DEF Init
  <2>4. \A r \in Relayer : seen[r]["tx"] = <<>> /\ seen[r]["block"] = <<>>
    BY DEF Init
  <2>5. height \in 0..MaxBlock
    BY <2>2 DEF Init
  <2> QED
    BY <2>1, <2>2, <2>3, <2>4, <2>5, EmptyWire DEF Init, SetsInv
<1>5. \A r \in Relayer : fresh[r] = {} /\ fromNode[r] = <<>>
  BY DEF Init
<1>6. HaveInv
  BY <1>5, EmptyWire DEF HaveInv
<1>7. SeenInv
  <2>1. seen["recv"]["block"] = <<>>
    BY DEF Init, Relayer
  <2> QED
    BY <2>1, EmptyWire DEF SeenInv
<1>8. BlocksAccounted /\ RequestsAccounted
  BY EmptyWire DEF Init, BlocksAccounted, RequestsAccounted
<1> QED
  BY <1>1, <1>2, <1>3, <1>4, <1>6, <1>7, <1>8 DEF CoreInv, DataInv

LEMMA NextKeeps == CoreInv /\ DataInv /\ [Next]_vars => (CoreInv /\ DataInv)'
<1> SUFFICES ASSUME CoreInv, DataInv, [Next]_vars PROVE CoreInv' /\ DataInv'
  OBVIOUS
<1>0. P2PAssumption
  BY P2PAssumption
<1>1. ASSUME NEW r \in Relayer, Connect(r) PROVE CoreInv' /\ DataInv'
  <2>1. CoreInv'
    BY <1>0, <1>1, ConnectCore
  <2>2. UNCHANGED <<seen, push, fromNode, server, height, pool, fresh, asked, lost>>
    BY <1>1 DEF Connect, node
  <2> QED
    BY <2>1, <2>2, DataKept
<1>2. ASSUME NEW r \in Relayer, SendVersion(r) PROVE CoreInv' /\ DataInv'
  BY <1>2, SendVersionCore, SendVersionData
<1>3. ASSUME NEW r \in Relayer, Break(r) PROVE CoreInv' /\ DataInv'
  BY <1>3, LoseCore, LoseData DEF Break
<1>4. ASSUME NEW r \in Relayer, on_disconnect(r) PROVE CoreInv' /\ DataInv'
  <2>1. CoreInv'
    BY <1>4, OnDisconnectCore
  <2>2. UNCHANGED <<seen, push, fromNode, server, height, pool, fresh, asked, lost>>
    BY <1>4 DEF on_disconnect, node, history
  <2> QED
    BY <2>1, <2>2, DataKept
<1>5. ASSUME NEW r \in Relayer, Send(r) PROVE CoreInv' /\ DataInv'
  BY <1>0, <1>5, SendCore, SendData
<1>6. ASSUME NEW r \in Relayer, net_process(r) PROVE CoreInv' /\ DataInv'
  BY <1>0, <1>6, NetProcessKeeps
<1>7. ASSUME NEW r \in Relayer, Announce(r) PROVE CoreInv' /\ DataInv'
  BY <1>7, AnnounceCore, AnnounceData
<1>8. ASSUME NEW item \in Ours, Receive(item) PROVE CoreInv' /\ DataInv'
  <2>1. item \in Item
    BY <1>0 DEF P2PAssumption
  <2> QED
    BY <1>0, <1>8, <2>1, ReceiveKeeps
<1>9. ASSUME NEW item \in Theirs, NodeMakes(item) PROVE CoreInv' /\ DataInv'
  <2>1. item \in Item
    BY <1>0 DEF P2PAssumption
  <2> QED
    BY <1>0, <1>9, <2>1, NodeMakesCore, NodeMakesData
<1>10. ASSUME NEW x \in Tx, OnHash(x) PROVE CoreInv' /\ DataInv'
  BY <1>0, <1>10, OnHashKeeps
<1>11. CASE UNCHANGED vars
  <2>1. UNCHANGED core /\ UNCHANGED <<seen, push, fromNode, server, height, pool, fresh, asked, lost>>
    BY <1>11 DEF vars, relayers, node, history, core
  <2> QED
    BY <2>1, CoreKept, DataKept
<1> QED
  BY <1>1, <1>2, <1>3, <1>4, <1>5, <1>6, <1>7, <1>8, <1>9, <1>10, <1>11 DEF Next

LEMMA Invariance == Spec => []IndInv
<1>1. Init => IndInv
  BY InitKeeps DEF IndInv
<1>2. IndInv /\ [Next]_vars => IndInv'
  BY NextKeeps DEF IndInv
<1> QED
  BY <1>1, <1>2, PTL DEF Spec

\* The types of everything both relayers and the server keep, with the bounds of the
\* sets that forget (mruset.h:30-46, 97-120, p2pclient.h:20-27).
THEOREM P2PTypes == Spec => []TypeOK
<1>1. IndInv => TypeOK
  <2> SUFFICES ASSUME IndInv PROVE TypeOK
    OBVIOUS
  <2>1. TxItem \subseteq Item /\ BlockItem \subseteq Item
    BY DEF TxItem, BlockItem, Item
  <2>2. \A r \in Relayer : conn[r] \in 0..MaxConn[r]
    BY P2PAssumption DEF IndInv, CoreInv, ShapeInv, P2PAssumption
  <2>3. \A r \in Relayer :
          /\ phase[r] \in {"setup", "up", "swapped", "down"} /\ connected[r] \in 0..2
          /\ greeted[r] \in {"none", "version", "verack"} /\ fresh[r] \subseteq Item
    BY DEF IndInv, CoreInv, ShapeInv
  <2> QED
    BY <2>1, <2>2, <2>3 DEF IndInv, DataInv, SetsInv, TypeOK
<1> QED
  BY <1>1, Invariance, PTL

\* connected is 2 only where the handshake of the connection there is has been
\* finished, through any number of reconnects (p2pclient.cpp:28-33, 80-100).
THEOREM ConnectedIsHere == Spec => []ConnectedHere
<1>1. IndInv => ConnectedHere
  <2> SUFFICES ASSUME IndInv, NEW r \in Relayer, connected[r] = 2
               PROVE  phase[r] = "swapped" \/ (phase[r] = "up" /\ greeted[r] = "verack")
    BY DEF ConnectedHere
  <2>1. phase[r] \in {"setup", "up", "swapped", "down"}
    BY DEF IndInv, CoreInv, ShapeInv
  <2>2. phase[r] = "up" => Shaking(r)
    BY DEF IndInv, CoreInv, HandshakeInv
  <2>3. phase[r] \in {"setup", "down"} => connected[r] = 0
    BY DEF IndInv, CoreInv, HandshakeInv
  <2> QED
    BY <2>1, <2>2, <2>3 DEF Shaking
<1> QED
  BY <1>1, Invariance, PTL

\* net_process never meets a message it does not expect, and only a thread that found
\* an earlier connection connected sends before the handshake (p2pclient.cpp:80-114,
\* 180-217).
THEOREM HandshakeInOrder == Spec => []InOrder
<1>1. IndInv => InOrder
  <2> SUFFICES ASSUME IndInv, NEW r \in Relayer
               PROVE  /\ phase[r] = "up" /\ fromNode[r] # <<>> => Expected(r, Head(fromNode[r]))
                      /\ early[r] => stale[r]
    BY DEF InOrder
  <2>1. phase[r] = "up" /\ fromNode[r] # <<>> => Expected(r, Head(fromNode[r]))
    BY MessageExpected DEF IndInv
  <2>2. early[r] => stale[r]
    BY DEF IndInv, CoreInv, PushInv
  <2> QED
    BY <2>1, <2>2
<1> QED
  BY <1>1, Invariance, PTL

\* Every announced block that recv has met is relayed, on its way, or lost in one of
\* the known ways, however much mruset forgets (p2pclient.cpp:126-157,
\* server.cpp:341-354, 374).
THEOREM BlocksAreAccounted == Spec => []BlocksAccounted
<1>1. IndInv => BlocksAccounted
  BY DEF IndInv, DataInv
<1> QED
  BY <1>1, Invariance, PTL

\* Every transaction the server waits for is relayed, on its way, about to be asked
\* for, or lost in one of the known ways (server.cpp:402-420, 424-432).
THEOREM RequestsAreAccounted == Spec => []RequestsAccounted
<1>1. IndInv => RequestsAccounted
  BY DEF IndInv, DataInv
<1> QED
  BY <1>1, Invariance, PTL
=============================================================================
