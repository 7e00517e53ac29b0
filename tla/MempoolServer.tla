--------------------------- MODULE MempoolServer ---------------------------
(***************************************************************************)
(* The mempool server (mempoolserver.cpp): keeps the hashes of the         *)
(* transactions its RPCClient has selected, hands new ones to every client *)
(* and all of them to a client that connects.                              *)
(*                                                                         *)
(* The callback runs on the RPC connection's thread, in two steps: under   *)
(* mempool_mutex it takes new hashes into the pool, and under map_mutex it *)
(* sends them.  The acceptor holds map_mutex from the moment a client is   *)
(* in the map until it has been sent the pool, and mempool_mutex while it  *)
(* sends it.                                                               *)
(***************************************************************************)
EXTENDS RPCClient, MruSet

CONSTANTS Client,
          MaxHashes,   \* hashes that fit in the pool
          Gather       \* the values size_to_gather may have: a matter of time

ASSUME MempoolAssumption == MaxHashes \in Nat \ {0} /\ Gather \subseteq Nat

VARIABLES
  mempool,      \* the hashes, the oldest first
  new_txn,      \* of the answer being handled
  clientMap,
  gone,         \* of those, the ones with a disconnect flag set
  accepting,    \* the clients in the map that have not been sent the pool: at most one,
                \* and map_mutex is held while there is one
  told,         \* the hashes sent to a client on its connection
  had           \* history: the pool as it was before new_txn

clients == <<clientMap, gone, accepting, told>>
vars == <<rpc, mempool, new_txn, had, clients>>

mapMutexFree == accepting = {}

Init ==
  /\ InitRPC
  /\ mempool = <<>> /\ new_txn = {} /\ had = {}
  /\ clientMap = {} /\ gone = {} /\ accepting = {}
  /\ told = [c \in Client |-> {}]

\* Mutant of GatherOne: the hash that reaches the size is not handed on.
GatherOneMutant(size_to_gather, s, x) ==
  LET isNew == x \notin ToSet(s.pool)
      size  == s.size + IF isNew THEN Size[x] ELSE 0
  IN IF s.full THEN s
     ELSE [pool |-> vectorInsert(s.pool, x, MaxHashes), size |-> size,
           new  |-> IF isNew /\ size < size_to_gather THEN s.new \cup {x} ELSE s.new,
           full |-> size >= size_to_gather]

\* One turn of the loop over txn_list.
GatherOne(size_to_gather, s, x) ==
  LET isNew == x \notin ToSet(s.pool)
      size  == s.size + IF isNew THEN Size[x] ELSE 0
  IN IF s.full THEN s
     ELSE [pool |-> vectorInsert(s.pool, x, MaxHashes), size |-> size,
           new  |-> IF isNew THEN s.new \cup {x} ELSE s.new,
           full |-> size >= size_to_gather]

\* The loop from its start to its end.
Gathered(size_to_gather) ==
  LET s[k \in 0..Len(txn_selected)] ==
        IF k = 0 THEN [pool |-> mempool, new |-> {}, size |-> 0, full |-> FALSE]
        ELSE GatherOne(size_to_gather, s[k - 1], txn_selected[k])
  IN  s[Len(txn_selected)]

\* The callback's first part.
GatherNew ==
  /\ net = "callback"
  /\ \E g \in Gather : mempool' = Gathered(g).pool /\ new_txn' = Gathered(g).new
  /\ had' = ToSet(mempool)
  /\ net' = "gathered"
  /\ UNCHANGED <<flags, connection, requests, poll, parser, stale, clients>>

\* Its second part.
SendNew ==
  /\ net = "gathered" /\ mapMutexFree
  /\ told' = [c \in Client |-> IF c \in clientMap \ gone THEN told[c] \cup new_txn ELSE told[c]]
  /\ new_txn' = {} /\ had' = {}
  /\ net' = "called"
  /\ UNCHANGED <<flags, connection, requests, poll, parser, stale, mempool, clientMap, gone, accepting>>

\* The acceptor: a host already in the map is turned away.
Accept(c) ==
  /\ mapMutexFree /\ c \notin clientMap
  /\ clientMap' = clientMap \cup {c} /\ accepting' = {c}
  /\ UNCHANGED <<rpc, mempool, new_txn, had, gone, told>>

SendPool(c) ==
  /\ c \in accepting /\ accepting' = {}
  /\ told' = [told EXCEPT ![c] = IF c \in gone THEN @ ELSE ToSet(mempool)]
  /\ UNCHANGED <<rpc, mempool, new_txn, had, clientMap, gone>>

Drop(c) ==
  /\ c \in clientMap \ gone
  /\ gone' = gone \cup {c}
  /\ UNCHANGED <<rpc, mempool, new_txn, had, clientMap, accepting, told>>

\* The cull, which the polling thread does before each poll.
Cull(c) ==
  /\ mapMutexFree /\ poll = "idle" /\ c \in gone
  /\ clientMap' = clientMap \ {c} /\ gone' = gone \ {c}
  /\ told' = [told EXCEPT ![c] = {}]
  /\ UNCHANGED <<rpc, mempool, new_txn, had, accepting>>

RPCStep == (Poll \/ Net \/ Broken) /\ UNCHANGED <<mempool, new_txn, had, clients>>

Callback == GatherNew \/ SendNew

Next ==
  \/ RPCStep \/ Callback
  \/ \E c \in Client : Accept(c) \/ SendPool(c) \/ Drop(c) \/ Cull(c)

\* The threads run: the connection's own, callback included, and the acceptor's once it
\* has a client.  A thread that waits for map_mutex gets it in the end, however many
\* clients come and go.  That connections break, polls are made and clients come is
\* not assumed.
Fairness ==
  /\ WF_vars(Net /\ UNCHANGED <<mempool, new_txn, had, clients>>)
  /\ WF_vars(GatherNew) /\ SF_vars(SendNew)
  /\ \A c \in Client : WF_vars(SendPool(c))

Spec == Init /\ [][Next]_vars /\ Fairness

----------------------------------------------------------------------------
(***************************************************************************)
(* Properties.                                                             *)
(***************************************************************************)
TypeOK ==
  /\ RPCTypeOK
  /\ mempool \in Seq(Tx) /\ Len(mempool) <= MaxHashes /\ new_txn \subseteq Tx
  /\ clientMap \subseteq Client /\ gone \subseteq clientMap /\ accepting \subseteq clientMap
  /\ told \in [Client -> SUBSET Tx]

\* A client, whenever it connected, has been sent every hash of the pool, or is about
\* to be: no hash falls between the pool a new client is sent and the new hashes
\* that follow (mempoolserver.cpp:91-112 against 160-168).
ClientsToldAll ==
  \A c \in clientMap \ (gone \cup accepting) : ToSet(mempool) \subseteq told[c] \cup new_txn

\* However early the gathering stops, a hash is handed out with or after those of the
\* transactions it depends on: in one batch, which is sent in the order of the hashes, or
\* in an earlier one (mempoolserver.cpp:90-112 over rpcclient.cpp:288-293).
ParentsHandedOut ==
  \A x \in new_txn : deps[x] \subseteq had \cup new_txn
============================================================================
