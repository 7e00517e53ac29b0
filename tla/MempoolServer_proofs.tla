------------------------ MODULE MempoolServer_proofs ------------------------
(***************************************************************************)
(* Proofs about the mempool server and its RPC client, for any set of      *)
(* transactions, any dependencies without a transaction that depends on    *)
(* itself, any sizes and fees, and any clients.                            *)
(***************************************************************************)
EXTENDS MempoolServer, ListTheorems

Answering == {"parse", "select", "callback", "gathered", "called"}
Selecting == {"select", "callback", "gathered", "called"}
Up        == {"start", "header"} \cup Answering

Selected == ToSet(txn_selected)

\* Where the connection's thread is says what there is of a connection.
ThreadInv ==
  /\ connected \in BOOLEAN /\ awaiting_response \in BOOLEAN /\ stale \in BOOLEAN
  /\ poll \in {"idle", "checked", "claimed"} /\ requests \in Nat
  /\ net \in Up \cup {"connect", "closed", "swapped"}
  /\ connection = IF net \in Up THEN "up" ELSE IF net = "closed" THEN "dead" ELSE "none"

Claim == IF poll = "claimed" THEN 1 ELSE 0
Busy  == requests + IF net \in Answering THEN 1 ELSE 0

\* A claim counts as a request that is still to be made.  Only a send for a claim that a
\* reconnection has overtaken makes room for a second one, and never while the flag
\* is clear.
RequestsInv ==
  /\ connection = "up" =>
       /\ Busy + Claim <= IF stale THEN 2 ELSE 1
       /\ Busy + Claim = 2 => awaiting_response
       /\ ~stale /\ Busy = 1 => awaiting_response
  /\ connection # "up" => requests <= IF stale THEN 2 ELSE 1

\* The tables say of the entries read so far who depends on whom.
TablesInv ==
  /\ DOMAIN deps \subseteq Tx /\ \A x \in DOMAIN deps : deps[x] \subseteq Deps[x]
  /\ DOMAIN setDeps = DOMAIN deps /\ DOMAIN reqCount = DOMAIN deps
  /\ \A x \in DOMAIN deps : setDeps[x] = {y \in DOMAIN deps : x \in deps[y]}
  /\ txnWaitingOnDeps = {w \in Tx \X DOMAIN deps : w[1] \in deps[w[2]] \ DOMAIN deps}

\* An entry is counted with what it depends on and is not selected; it is in the heap
\* when that is nothing, until it is selected or dropped for its size.
HeapInv ==
  /\ txn_selected \in Seq(DOMAIN deps) /\ vectorToSort \subseteq DOMAIN deps \ Selected
  /\ \A x \in DOMAIN deps : reqCount[x] = Cardinality(deps[x] \ Selected)
  /\ \A x \in vectorToSort \cup Selected : deps[x] \subseteq Selected
  /\ Eligible(Selected) \subseteq vectorToSort
  /\ net \notin Selecting => txn_selected = <<>>

BestInv ==
  \A k \in DOMAIN txn_selected :
    LET E == Eligible(ToSet(SubSeq(txn_selected, 1, k - 1)))
    IN txn_selected[k] \in E /\ \A y \in E : ~Less(txn_selected[k], y)

DoneInv == net \in Selecting \ {"select"} /\ Room => Eligible(Selected) = {}

\* New hashes are there only between the two parts of the callback, and the acceptor
\* has one client at a time.
PoolInv ==
  /\ mempool \in Seq(Tx) /\ Len(mempool) <= MaxHashes
  /\ new_txn \subseteq DOMAIN deps /\ (net # "gathered" => new_txn = {})
  /\ clientMap \subseteq Client /\ gone \subseteq clientMap /\ accepting \subseteq clientMap
  /\ \A a, b \in accepting : a = b
  /\ told \in [Client -> SUBSET Tx]

RPCInv == ThreadInv /\ RequestsInv /\ TablesInv /\ HeapInv /\ BestInv /\ DoneInv

IndInv == RPCInv /\ PoolInv /\ ClientsToldAll /\ ParentsHandedOut

----------------------------------------------------------------------------
(***************************************************************************)
(* The two threads of the RPC client.                                      *)
(***************************************************************************)

\* Every step of the RPC client, callback included, that leaves the connection as it is
\* or changes it keeps to one request at a time, or two after a stale one.
LEMMA InitThreads == InitRPC => ThreadInv /\ RequestsInv
<1> SUFFICES ASSUME InitRPC PROVE ThreadInv /\ RequestsInv
  OBVIOUS
<1>1. connected \in BOOLEAN /\ awaiting_response \in BOOLEAN /\ stale \in BOOLEAN
  BY Zenon DEF InitRPC
<1>2. connection = "none" /\ requests = 0 /\ poll = "idle" /\ net = "connect"
  BY DEF InitRPC
<1> QED
  BY <1>1, <1>2 DEF ThreadInv, RequestsInv, Up, Answering

\* What PollSend and the others do to the counters, without the rest of the state.
LEMMA PollSteps ==
  ASSUME ThreadInv, RequestsInv, Poll PROVE ThreadInv' /\ RequestsInv'
<1>1. net' = net /\ connection' = connection /\ connected' = connected
  BY DEF Poll, PollCheck, PollClaim, PollSend, flags
<1>2. CASE PollCheck
  BY <1>1, <1>2 DEF PollCheck, ThreadInv, RequestsInv, Busy, Claim, flags, Up
<1>3. CASE PollClaim
  BY <1>1, <1>3 DEF PollClaim, ThreadInv, RequestsInv, Busy, Claim, flags, Up
<1>4. CASE PollSend
  <2>1. CASE connection = "up"
    <3>1. /\ poll = "claimed" /\ poll' = "idle" /\ requests' = requests + 1
          /\ awaiting_response' = awaiting_response
      BY <1>4, <2>1 DEF PollSend, flags
    <3>2. stale' \in BOOLEAN /\ (stale => stale') /\ (~awaiting_response => stale')
      BY <1>4, <2>1, Zenon DEF PollSend
    <3> QED
      BY <1>1, <2>1, <3>1, <3>2 DEF ThreadInv, RequestsInv, Busy, Claim, Up
  <2>2. CASE connection # "up"
    BY <1>1, <1>4, <2>2 DEF PollSend, ThreadInv, RequestsInv, Busy, Claim, flags, Up
  <2> QED
    BY <2>1, <2>2
<1> QED
  BY <1>2, <1>3, <1>4 DEF Poll

LEMMA NetSteps ==
  ASSUME ThreadInv, RequestsInv, Net \/ Broken \/ GatherNew \/ SendNew
  PROVE  ThreadInv' /\ RequestsInv'
<1> USE DEF ThreadInv, RequestsInv, Busy, Claim, flags, Up, Answering
<1>1. CASE Connect
  <2>1. stale' \in BOOLEAN /\ ~stale' /\ requests' = 0
    BY <1>1, Zenon DEF Connect
  <2> QED
    BY <1>1, <2>1 DEF Connect
<1>2. CASE Start
  BY <1>2 DEF Start
<1>3. CASE HeaderTimeout \/ Broken
  BY <1>3 DEF HeaderTimeout, Broken, Disconnect
<1>4. CASE RecvHeader
  BY <1>4 DEF RecvHeader
<1>5. CASE ParseEntry
  BY <1>5 DEF ParseEntry, Disconnect
<1>6. CASE ParseEnd
  BY <1>6 DEF ParseEnd, Disconnect
<1>7. CASE SelectNext
  BY <1>7 DEF SelectNext
<1>8. CASE SelectDone
  BY <1>8 DEF SelectDone
<1>9. CASE Answered
  <2>1. awaiting_response' \in BOOLEAN /\ ~awaiting_response'
    BY <1>9, Zenon DEF Answered
  <2> QED
    BY <1>9, <2>1 DEF Answered, Disconnect
<1>10. CASE Reconnect
  BY <1>10 DEF Reconnect
<1>11. CASE on_disconnect
  BY <1>11 DEF on_disconnect
<1>12. CASE GatherNew \/ SendNew
  BY <1>12 DEF GatherNew, SendNew
<1> QED
  BY <1>1, <1>2, <1>3, <1>4, <1>5, <1>6, <1>7, <1>8, <1>9, <1>10, <1>11, <1>12 DEF Net

----------------------------------------------------------------------------
(***************************************************************************)
(* The tables of one answer and the selection.                             *)
(***************************************************************************)
Tables == TablesInv /\ HeapInv /\ BestInv

LEMMA EmptySelected == ASSUME txn_selected = <<>> PROVE Selected = {}
BY DEF Selected, ToSet

LEMMA TablesKept ==
  ASSUME Tables, UNCHANGED parser, net' \in Selecting \/ net \notin Selecting
  PROVE  Tables' /\ (Room' <=> Room) /\ Eligible(Selected)' = Eligible(Selected)
<1>1. /\ deps' = deps /\ setDeps' = setDeps /\ txnWaitingOnDeps' = txnWaitingOnDeps
      /\ reqCount' = reqCount /\ vectorToSort' = vectorToSort /\ txn_selected' = txn_selected
  BY DEF parser
<1>2. Selected' = Selected
  BY <1>1 DEF Selected, ToSet
<1>3. TablesInv'
  BY <1>1 DEF Tables, TablesInv
<1>4. Eligible(Selected)' = Eligible(Selected)
  BY <1>1, <1>2 DEF Eligible
<1>5. HeapInv'
  <2>1. net' \notin Selecting => txn_selected' = <<>>
    BY <1>1 DEF Tables, HeapInv
  <2> QED
    BY <1>1, <1>2, <1>4, <2>1 DEF Tables, HeapInv
<1>6. BestInv'
  BY <1>1 DEF Tables, BestInv, Eligible
<1>7. Room' <=> Room
  BY <1>1 DEF Room, totalSizeSelected
<1> QED
  BY <1>3, <1>4, <1>5, <1>6, <1>7 DEF Tables

LEMMA TablesCleared ==
  ASSUME NewAnswer, net' \notin Selecting
  PROVE  Tables' /\ DoneInv'
<1>1. /\ DOMAIN deps' = {} /\ DOMAIN setDeps' = {} /\ DOMAIN reqCount' = {}
      /\ txnWaitingOnDeps' = {} /\ vectorToSort' = {} /\ txn_selected' = <<>>
  BY DEF NewAnswer, none
<1>2. Selected' = {} /\ Eligible(Selected)' = {}
  BY <1>1 DEF Selected, ToSet, Eligible
<1>3. TablesInv'
  BY <1>1 DEF TablesInv
<1>4. HeapInv'
  BY <1>1, <1>2 DEF HeapInv
<1>5. BestInv' /\ DoneInv'
  BY <1>1 DEF BestInv, DoneInv
<1> QED
  BY <1>3, <1>4, <1>5 DEF Tables

LEMMA InitTables == InitRPC => Tables /\ DoneInv
<1> SUFFICES ASSUME InitRPC PROVE Tables /\ DoneInv
  OBVIOUS
<1>1. /\ DOMAIN deps = {} /\ DOMAIN setDeps = {} /\ DOMAIN reqCount = {}
      /\ txnWaitingOnDeps = {} /\ vectorToSort = {} /\ txn_selected = <<>>
      /\ net \notin Selecting
  BY DEF InitRPC, none, Selecting
<1>2. Selected = {} /\ Eligible(Selected) = {}
  BY <1>1 DEF Selected, ToSet, Eligible
<1>3. TablesInv
  BY <1>1 DEF TablesInv
<1>4. HeapInv
  BY <1>1, <1>2 DEF HeapInv
<1>5. BestInv /\ DoneInv
  BY <1>1 DEF BestInv, DoneInv
<1> QED
  BY <1>3, <1>4, <1>5 DEF Tables

\* An entry is in no table before it is entered, and knows afterwards who waited for
\* it, in whatever order the entries come.
LEMMA EnterKeepsTables ==
  ASSUME RPCAssumption, TablesInv, NEW x \in Tx, x \notin DOMAIN deps,
         NEW D \in SUBSET Deps[x], Enter(x, D)
  PROVE  TablesInv' /\ DOMAIN deps' = DOMAIN deps \cup {x}
         /\ deps'[x] = D /\ \A y \in DOMAIN deps : deps'[y] = deps[y]
<1>1. /\ DOMAIN deps' = DOMAIN deps \cup {x}
      /\ deps'[x] = D /\ \A y \in DOMAIN deps : deps'[y] = deps[y]
  BY DEF Enter
<1>2. x \notin D /\ D \subseteq Tx
  BY DEF RPCAssumption
<1>3. DOMAIN setDeps' = DOMAIN deps' /\ DOMAIN reqCount' = DOMAIN deps'
  BY DEF Enter
<1>4. DOMAIN deps' \subseteq Tx /\ \A y \in DOMAIN deps' : deps'[y] \subseteq Deps[y]
  BY <1>1 DEF TablesInv
<1>5. \A y \in DOMAIN deps' : setDeps'[y] = {z \in DOMAIN deps' : y \in deps'[z]}
  <2> SUFFICES ASSUME NEW y \in DOMAIN deps'
               PROVE  setDeps'[y] = {z \in DOMAIN deps' : y \in deps'[z]}
    OBVIOUS
  <2>1. CASE y = x
    <3>1. setDeps'[x] = {w[2] : w \in {w \in txnWaitingOnDeps : w[1] = x}}
      BY <1>1 DEF Enter
    <3>2. \A w \in txnWaitingOnDeps : w[2] \in DOMAIN deps /\ w[1] \in deps[w[2]]
      BY DEF TablesInv
    <3>3. \A z \in DOMAIN deps : x \in deps[z] => <<x, z>> \in txnWaitingOnDeps
      BY DEF TablesInv
    <3>4. \A z \in setDeps'[x] : z \in DOMAIN deps' /\ x \in deps'[z]
      BY <1>1, <3>1, <3>2
    <3>5. \A z \in DOMAIN deps' : x \in deps'[z] => z \in setDeps'[x]
      <4> SUFFICES ASSUME NEW z \in DOMAIN deps', x \in deps'[z] PROVE z \in setDeps'[x]
        OBVIOUS
      <4>1. z \in DOMAIN deps /\ x \in deps[z]
        BY <1>1, <1>2
      <4>2. <<x, z>> \in {w \in txnWaitingOnDeps : w[1] = x} /\ <<x, z>>[2] = z
        BY <3>3, <4>1
      <4> QED
        BY <3>1, <4>2
    <3> QED
      BY <2>1, <3>4, <3>5
  <2>2. CASE y # x
    <3>1. y \in DOMAIN deps /\ setDeps[y] = {z \in DOMAIN deps : y \in deps[z]}
      BY <1>1, <2>2 DEF TablesInv
    <3>2. setDeps'[y] = IF y \in D THEN setDeps[y] \cup {x} ELSE setDeps[y]
      BY <2>2 DEF Enter
    <3> QED
      BY <1>1, <3>1, <3>2
  <2> QED
    BY <2>1, <2>2
<1>6. txnWaitingOnDeps' = {w \in Tx \X DOMAIN deps' : w[1] \in deps'[w[2]] \ DOMAIN deps'}
  <2>1. txnWaitingOnDeps' = {w \in txnWaitingOnDeps : w[1] # x} \cup {<<d, x>> : d \in D \ DOMAIN deps}
    BY DEF Enter
  <2>2. txnWaitingOnDeps = {w \in Tx \X DOMAIN deps : w[1] \in deps[w[2]] \ DOMAIN deps}
    BY DEF TablesInv
  <2>3. ASSUME NEW w \in txnWaitingOnDeps'
        PROVE  w \in Tx \X DOMAIN deps' /\ w[1] \in deps'[w[2]] \ DOMAIN deps'
    <3>1. CASE w \in txnWaitingOnDeps /\ w[1] # x
      BY <1>1, <2>2, <3>1
    <3>2. CASE w \in {<<d, x>> : d \in D \ DOMAIN deps}
      BY <1>1, <1>2, <3>2
    <3> QED
      BY <2>1, <2>3, <3>1, <3>2
  <2>4. ASSUME NEW w \in Tx \X DOMAIN deps', w[1] \in deps'[w[2]] \ DOMAIN deps'
        PROVE  w \in txnWaitingOnDeps'
    <3>1. w = <<w[1], w[2]>> /\ w[1] # x /\ w[1] \notin DOMAIN deps
      BY <1>1, <2>4
    <3>2. CASE w[2] = x
      <4>1. w[1] \in D \ DOMAIN deps /\ w = <<w[1], x>>
        BY <1>1, <2>4, <3>1, <3>2
      <4> QED
        BY <2>1, <4>1
    <3>3. CASE w[2] # x
      BY <1>1, <2>1, <2>2, <2>4, <3>1, <3>3
    <3> QED
      BY <3>2, <3>3
  <2> QED
    BY <2>3, <2>4
<1> QED
  BY <1>1, <1>3, <1>4, <1>5, <1>6 DEF TablesInv

LEMMA EnterKeepsHeap ==
  ASSUME RPCAssumption, Tables, net = "parse", net' = net, txn_selected' = txn_selected,
         NEW x \in Tx, x \notin DOMAIN deps, NEW D \in SUBSET Deps[x], Enter(x, D)
  PROVE  Tables'
<1>1. /\ TablesInv' /\ DOMAIN deps' = DOMAIN deps \cup {x}
      /\ deps'[x] = D /\ \A y \in DOMAIN deps : deps'[y] = deps[y]
  BY EnterKeepsTables DEF Tables
<1>2. txn_selected = <<>> /\ txn_selected' = <<>> /\ Selected = {} /\ Selected' = {}
  <2>1. txn_selected = <<>>
    BY DEF Tables, HeapInv, Selecting
  <2> QED
    BY <2>1 DEF Selected, ToSet
<1>3. \A y \in DOMAIN deps' : reqCount'[y] = Cardinality(deps'[y] \ Selected')
  <2> SUFFICES ASSUME NEW y \in DOMAIN deps' PROVE reqCount'[y] = Cardinality(deps'[y])
    BY <1>2
  <2>1. reqCount'[y] = IF y = x THEN Cardinality(D) ELSE reqCount[y]
    BY DEF Enter
  <2>2. y # x => y \in DOMAIN deps /\ reqCount[y] = Cardinality(deps[y])
    <3>1. \A z \in DOMAIN deps : deps[z] \ Selected = deps[z]
      BY <1>2
    <3> QED
      BY <1>1, <3>1 DEF Tables, HeapInv
  <2> QED
    BY <1>1, <2>1, <2>2
<1>4. vectorToSort' = IF D = {} THEN vectorToSort \cup {x} ELSE vectorToSort
  BY DEF Enter
<1>5. vectorToSort' \subseteq DOMAIN deps' \ Selected' /\ \A y \in vectorToSort' : deps'[y] \subseteq Selected'
  BY <1>1, <1>2, <1>4 DEF Tables, HeapInv
<1>6. Eligible(Selected)' \subseteq vectorToSort'
  <2> SUFFICES ASSUME NEW y \in DOMAIN deps', deps'[y] = {},
                      Size[y] <= MAX_RELAY_TRANSACTION_BYTES
               PROVE  y \in vectorToSort'
    BY <1>2 DEF Eligible
  <2>1. CASE y = x
    BY <1>1, <1>4, <2>1
  <2>2. CASE y # x
    <3>1. y \in Eligible(Selected)
      BY <1>1, <1>2, <2>2 DEF Eligible
    <3> QED
      BY <1>4, <3>1 DEF Tables, HeapInv
  <2> QED
    BY <2>1, <2>2
<1>7. HeapInv'
  <2>1. <<>> \in Seq(DOMAIN deps')
    OBVIOUS
  <2> QED
    BY <1>2, <1>3, <1>5, <1>6, <2>1 DEF HeapInv
<1>8. BestInv'
  BY <1>2 DEF BestInv
<1> QED
  BY <1>1, <1>7, <1>8 DEF Tables

LEMMA DepsFinite ==
  ASSUME RPCAssumption, TablesInv, NEW y \in DOMAIN deps, NEW S
  PROVE  y \notin deps[y] /\ IsFiniteSet(deps[y] \ S) /\ Cardinality(deps[y] \ S) \in Nat
<1>1. y \in Tx /\ deps[y] \subseteq Deps[y] /\ IsFiniteSet(Deps[y]) /\ y \notin Deps[y]
  BY DEF RPCAssumption, TablesInv
<1>2. IsFiniteSet(deps[y] \ S)
  BY <1>1, FS_Subset
<1> QED
  BY <1>1, <1>2, FS_CardinalityType

LEMMA SelectedOneMore ==
  ASSUME NEW A, NEW q \in Seq(A), NEW e \in A
  PROVE  /\ Append(q, e) \in Seq(A) /\ ToSet(Append(q, e)) = ToSet(q) \cup {e}
         /\ DOMAIN Append(q, e) = DOMAIN q \cup {Len(q) + 1} /\ Len(q) \in Nat
         /\ Append(q, e)[Len(q) + 1] = e
         /\ SubSeq(Append(q, e), 1, Len(q)) = q
         /\ \A k \in DOMAIN q :
              Append(q, e)[k] = q[k] /\ SubSeq(Append(q, e), 1, k - 1) = SubSeq(q, 1, k - 1)
<1>1. /\ Append(q, e) \in Seq(A) /\ Len(q) \in Nat /\ DOMAIN q = 1..Len(q)
      /\ DOMAIN Append(q, e) = 1..(Len(q) + 1) /\ Append(q, e)[Len(q) + 1] = e
      /\ \A k \in 1..Len(q) : Append(q, e)[k] = q[k]
  OBVIOUS
<1>2. ToSet(Append(q, e)) = ToSet(q) \cup {e}
  BY <1>1 DEF ToSet
<1>3. SubSeq(Append(q, e), 1, Len(q)) = q
  OBVIOUS
<1>4. \A k \in DOMAIN q : SubSeq(Append(q, e), 1, k - 1) = SubSeq(q, 1, k - 1)
  OBVIOUS
<1> QED
  BY <1>1, <1>2, <1>3, <1>4

\* The best entry of the heap is the best of all that may be selected; those that waited
\* for it alone are ready afterwards, and no other.
LEMMA SelectKeeps ==
  ASSUME RPCAssumption, Tables, net \in Selecting, net' = net,
         UNCHANGED <<deps, setDeps, txnWaitingOnDeps>>,
         NEW e \in Top(vectorToSort), Size[e] <= MAX_RELAY_TRANSACTION_BYTES, Select(e)
  PROVE  Tables'
<1> USE DEF Tables
<1>1. e \in vectorToSort /\ e \in DOMAIN deps /\ e \notin Selected /\ deps[e] \subseteq Selected
  BY DEF Top, HeapInv
<1>2. txn_selected \in Seq(DOMAIN deps) /\ txn_selected' = Append(txn_selected, e)
  BY DEF Select, HeapInv
<1>3. Selected' = Selected \cup {e} /\ txn_selected' \in Seq(DOMAIN deps)
  BY <1>1, <1>2, SelectedOneMore DEF Selected
<1>4. setDeps[e] = {y \in DOMAIN deps : e \in deps[y]}
  BY <1>1 DEF TablesInv
<1>5. TablesInv'
  <2>1. DOMAIN reqCount' = DOMAIN reqCount
    BY DEF Select
  <2> QED
    BY <2>1 DEF TablesInv
<1>6. ASSUME NEW y \in DOMAIN deps
      PROVE  /\ reqCount'[y] = Cardinality(deps[y] \ Selected')
             /\ reqCount'[y] = 0 <=> deps[y] \subseteq Selected'
  <2>1. /\ reqCount'[y] = IF y \in setDeps[e] THEN reqCount[y] - 1 ELSE reqCount[y]
        /\ reqCount[y] = Cardinality(deps[y] \ Selected)
    BY DEF Select, HeapInv, TablesInv
  <2>2. /\ IsFiniteSet(deps[y] \ Selected) /\ Cardinality(deps[y] \ Selected) \in Nat
        /\ IsFiniteSet(deps[y] \ Selected')
    BY DepsFinite
  <2>3. reqCount'[y] = Cardinality(deps[y] \ Selected')
    <3>1. CASE y \in setDeps[e]
      <4>1. e \in deps[y] \ Selected
        BY <1>1, <1>4, <3>1
      <4>2. deps[y] \ Selected' = (deps[y] \ Selected) \ {e}
        BY <1>3
      <4>3. Cardinality((deps[y] \ Selected) \ {e}) = Cardinality(deps[y] \ Selected) - 1
        BY <2>2, <4>1, FS_RemoveElement
      <4>4. reqCount'[y] = Cardinality(deps[y] \ Selected) - 1
        BY <2>1, <3>1
      <4> QED
        BY <4>2, <4>3, <4>4
    <3>2. CASE y \notin setDeps[e]
      <4>1. deps[y] \ Selected' = deps[y] \ Selected
        BY <1>3, <1>4, <3>2
      <4> QED
        BY <2>1, <3>2, <4>1
    <3> QED
      BY <3>1, <3>2
  <2>4. Cardinality(deps[y] \ Selected') = 0 <=> deps[y] \ Selected' = {}
    BY <2>2, FS_EmptySet
  <2> QED
    BY <2>3, <2>4
<1>7. vectorToSort' = (vectorToSort \ {e}) \cup {y \in setDeps[e] : reqCount'[y] = 0}
  BY DEF Select
<1>8. \A y \in setDeps[e] : y \in DOMAIN deps \ Selected'
  <2> SUFFICES ASSUME NEW y \in setDeps[e] PROVE y \in DOMAIN deps \ Selected'
    OBVIOUS
  <2>1. y \in DOMAIN deps /\ e \in deps[y] /\ e \notin deps[e]
    BY <1>1, <1>4, DepsFinite
  <2>2. y \notin Selected
    BY <1>1, <2>1 DEF HeapInv
  <2> QED
    BY <1>3, <2>1, <2>2
<1>9. Eligible(Selected)' \subseteq vectorToSort'
  <2> SUFFICES ASSUME NEW y \in DOMAIN deps, y \notin Selected', deps[y] \subseteq Selected',
                      Size[y] <= MAX_RELAY_TRANSACTION_BYTES
               PROVE  y \in vectorToSort'
    BY DEF Eligible
  <2>1. CASE e \in deps[y]
    BY <1>4, <1>6, <1>7, <2>1
  <2>2. CASE e \notin deps[y]
    <3>1. y \in Eligible(Selected) /\ y # e
      BY <1>3, <2>2 DEF Eligible
    <3> QED
      BY <1>7, <3>1 DEF HeapInv
  <2> QED
    BY <2>1, <2>2
<1>10. HeapInv'
  <2>1. vectorToSort' \subseteq DOMAIN deps \ Selected'
    BY <1>3, <1>7, <1>8 DEF HeapInv
  <2>2. \A y \in vectorToSort' \cup Selected' : deps[y] \subseteq Selected'
    <3> SUFFICES ASSUME NEW y \in vectorToSort' \cup Selected' PROVE deps[y] \subseteq Selected'
      OBVIOUS
    <3>1. CASE y \in vectorToSort \cup Selected
      BY <1>3, <3>1 DEF HeapInv
    <3>2. CASE y \in setDeps[e] /\ reqCount'[y] = 0
      BY <1>4, <1>6, <3>2
    <3> QED
      BY <1>1, <1>3, <1>7, <3>1, <3>2
  <2> QED
    BY <1>3, <1>6, <1>9, <2>1, <2>2 DEF HeapInv
<1>11. BestInv'
  <2>1. /\ DOMAIN txn_selected' = DOMAIN txn_selected \cup {Len(txn_selected) + 1}
        /\ Len(txn_selected) \in Nat /\ txn_selected'[Len(txn_selected) + 1] = e
        /\ SubSeq(txn_selected', 1, (Len(txn_selected) + 1) - 1) = txn_selected
        /\ \A k \in DOMAIN txn_selected :
             /\ txn_selected'[k] = txn_selected[k]
             /\ SubSeq(txn_selected', 1, k - 1) = SubSeq(txn_selected, 1, k - 1)
    <3>1. Len(txn_selected) \in Nat => (Len(txn_selected) + 1) - 1 = Len(txn_selected)
      OBVIOUS
    <3> QED
      BY <1>1, <1>2, <3>1, SelectedOneMore
  <2>2. \A S : Eligible(S)' = Eligible(S)
    BY DEF Eligible
  <2>3. e \in Eligible(Selected) /\ \A y \in Eligible(Selected) : ~Less(e, y)
    BY <1>1 DEF Eligible, Top, HeapInv
  <2> SUFFICES ASSUME NEW k \in DOMAIN txn_selected'
               PROVE  LET E == Eligible(ToSet(SubSeq(txn_selected', 1, k - 1)))
                      IN txn_selected'[k] \in E /\ \A y \in E : ~Less(txn_selected'[k], y)
    BY DEF BestInv, Eligible
  <2>4. CASE k \in DOMAIN txn_selected
    BY <2>1, <2>4 DEF BestInv
  <2>5. CASE k = Len(txn_selected) + 1
    BY <2>1, <2>3, <2>5 DEF Selected
  <2> QED
    BY <2>1, <2>4, <2>5
<1> QED
  BY <1>5, <1>10, <1>11

\* A transaction that is too large only leaves the heap.
LEMMA DropKeeps ==
  ASSUME Tables, net \in Selecting, net' = net,
         UNCHANGED <<deps, setDeps, txnWaitingOnDeps, txn_selected, reqCount>>,
         NEW e \in Top(vectorToSort), Size[e] > MAX_RELAY_TRANSACTION_BYTES,
         RPCAssumption, vectorToSort' = vectorToSort \ {e}
  PROVE  Tables'
<1>1. Selected' = Selected /\ Eligible(Selected)' = Eligible(Selected)
  BY DEF Selected, Eligible, ToSet
<1>2. e \notin Eligible(Selected)
  <2>1. e \in Tx => Size[e] \in Nat
    BY DEF RPCAssumption
  <2>2. e \in Tx
    BY DEF Top, Tables, HeapInv, TablesInv
  <2> QED
    BY <2>1, <2>2 DEF Eligible, RPCAssumption
<1>3. HeapInv'
  BY <1>1, <1>2 DEF Tables, HeapInv
<1>4. TablesInv'
  BY DEF Tables, TablesInv
<1>5. BestInv'
  BY DEF Tables, BestInv, Eligible
<1> QED
  BY <1>3, <1>4, <1>5 DEF Tables

LEMMA TablesStep ==
  ASSUME RPCAssumption, ThreadInv, Tables, DoneInv, Poll \/ Net \/ Broken \/ GatherNew \/ SendNew
  PROVE  Tables' /\ DoneInv'
<1>1. CASE Poll
  <2>1. net' = net /\ UNCHANGED parser
    BY <1>1 DEF Poll, PollCheck, PollClaim, PollSend
  <2> QED
    BY <2>1, TablesKept DEF DoneInv
<1>2. CASE Connect \/ Start \/ Reconnect \/ on_disconnect
  <2>1. net \notin Selecting /\ net' \notin Selecting /\ UNCHANGED parser
    BY <1>2 DEF Connect, Start, Reconnect, on_disconnect, Selecting
  <2> QED
    BY <2>1, TablesKept DEF DoneInv
<1>3. CASE Disconnect
  <2>1. NewAnswer /\ net' \notin Selecting
    BY <1>3 DEF Disconnect, Selecting
  <2> QED
    BY <2>1, TablesCleared
<1>4. CASE RecvHeader
  <2>1. net = "header" /\ net' = "parse" /\ deps' = deps /\ setDeps' = setDeps
        /\ txnWaitingOnDeps' = txnWaitingOnDeps /\ reqCount' = reqCount
        /\ vectorToSort' = vectorToSort /\ txn_selected' = txn_selected
    BY <1>4 DEF RecvHeader
  <2>2. net \notin Selecting /\ net' \notin Selecting
    BY <2>1 DEF Selecting
  <2>3. Selected' = Selected /\ Eligible(Selected)' = Eligible(Selected)
    BY <2>1 DEF Selected, ToSet, Eligible
  <2>4. TablesInv'
    BY <2>1 DEF Tables, TablesInv
  <2>5. HeapInv'
    BY <2>1, <2>2, <2>3 DEF Tables, HeapInv
  <2>6. BestInv' /\ DoneInv'
    BY <2>1, <2>2 DEF Tables, BestInv, Eligible, DoneInv
  <2> QED
    BY <2>4, <2>5, <2>6 DEF Tables
<1>5. CASE ParseEntry
  <2>0. PICK x \in Tx : \E D \in SUBSET Deps[x] :
          \/ Disconnect
          \/ x \notin DOMAIN deps /\ Enter(x, D) /\ UNCHANGED <<net, txn_selected>>
    BY <1>5 DEF ParseEntry
  <2>1. PICK D \in SUBSET Deps[x] :
          \/ Disconnect
          \/ x \notin DOMAIN deps /\ Enter(x, D) /\ UNCHANGED <<net, txn_selected>>
    BY <2>0
  <2>2. CASE x \notin DOMAIN deps /\ Enter(x, D) /\ UNCHANGED <<net, txn_selected>>
    <3>1. net = "parse"
      BY <1>5 DEF ParseEntry
    <3>2. Tables'
      BY <2>2, <3>1, EnterKeepsHeap
    <3>3. DoneInv'
      BY <2>2, <3>1 DEF DoneInv, Selecting
    <3> QED
      BY <3>2, <3>3
  <2> QED
    BY <1>3, <2>1, <2>2
<1>6. CASE ParseEnd
  <2>1. CASE net = "parse" /\ net' = "select" /\ UNCHANGED parser
    <3>1. net' \in Selecting /\ net' \notin Selecting \ {"select"}
      BY <2>1 DEF Selecting
    <3> QED
      BY <2>1, <3>1, TablesKept DEF DoneInv
  <2> QED
    BY <1>3, <1>6, <2>1 DEF ParseEnd
<1>7. CASE SelectNext
  <2>1. /\ net = "select" /\ net' = net /\ net \in Selecting /\ net' \notin Selecting \ {"select"}
        /\ UNCHANGED <<deps, setDeps, txnWaitingOnDeps>>
    BY <1>7 DEF SelectNext, Selecting
  <2>2. PICK e \in Top(vectorToSort) :
          \/ Size[e] <= MAX_RELAY_TRANSACTION_BYTES /\ Select(e)
          \/ /\ Size[e] > MAX_RELAY_TRANSACTION_BYTES
             /\ vectorToSort' = vectorToSort \ {e} /\ UNCHANGED <<txn_selected, reqCount>>
    BY <1>7 DEF SelectNext
  <2>3. CASE Size[e] <= MAX_RELAY_TRANSACTION_BYTES /\ Select(e)
    BY <2>1, <2>3, SelectKeeps DEF DoneInv
  <2>4. CASE /\ Size[e] > MAX_RELAY_TRANSACTION_BYTES
             /\ vectorToSort' = vectorToSort \ {e} /\ UNCHANGED <<txn_selected, reqCount>>
    BY <2>1, <2>4, DropKeeps DEF DoneInv
  <2> QED
    BY <2>2, <2>3, <2>4
<1>8. CASE SelectDone
  <2>1. net' = "callback" /\ net' \in Selecting /\ UNCHANGED parser /\ (~Room \/ vectorToSort = {})
    BY <1>8 DEF SelectDone, Selecting
  <2>2. Tables' /\ (Room' <=> Room) /\ Eligible(Selected)' = Eligible(Selected)
    BY <2>1, TablesKept
  <2>3. Room => Eligible(Selected) = {}
    BY <2>1 DEF Tables, HeapInv
  <2> QED
    BY <2>2, <2>3 DEF DoneInv
<1>9. CASE Answered
  <2>1. CASE NewAnswer /\ net' = "header"
    <3>1. net' \notin Selecting
      BY <2>1 DEF Selecting
    <3> QED
      BY <2>1, <3>1, TablesCleared
  <2> QED
    BY <1>3, <1>9, <2>1 DEF Answered
<1>10. CASE GatherNew \/ SendNew
  <2>1. net' \in Selecting /\ net \in Selecting \ {"select"} /\ UNCHANGED parser
    BY <1>10 DEF GatherNew, SendNew, Selecting
  <2> QED
    BY <2>1, TablesKept DEF DoneInv
<1>11. CASE HeaderTimeout \/ Broken
  BY <1>3, <1>11 DEF HeaderTimeout, Broken
<1> QED
  BY <1>1, <1>2, <1>4, <1>5, <1>6, <1>7, <1>8, <1>9, <1>10, <1>11 DEF Net

----------------------------------------------------------------------------
(***************************************************************************)
(* The callback: what the loop over the selected transactions gathers.     *)
(***************************************************************************)

\* What holds after k turns of the loop, the pool having been mempool before.
GoodAfter(k, s) ==
  /\ s.pool \in Seq(Tx) /\ Len(s.pool) <= MaxHashes /\ s.new \subseteq DOMAIN deps
  /\ ToSet(s.pool) \subseteq ToSet(mempool) \cup s.new
  /\ s.full \/ \A j \in 1..k : txn_selected[j] \in ToSet(mempool) \cup s.new
  /\ \A x \in s.new : deps[x] \subseteq ToSet(mempool) \cup s.new

LEMMA VectorInsertFacts ==
  ASSUME NEW A, NEW q \in Seq(A), NEW x \in A, NEW n \in Nat \ {0}, Len(q) <= n
  PROVE  /\ vectorInsert(q, x, n) \in Seq(A) /\ Len(vectorInsert(q, x, n)) <= n
         /\ ToSet(vectorInsert(q, x, n)) \subseteq ToSet(q) \cup {x}
         /\ x \in ToSet(q) => vectorInsert(q, x, n) = q
<1> DEFINE longer == Append(q, x)
<1>1. /\ longer \in Seq(A) /\ Len(longer) = Len(q) + 1 /\ Len(q) \in Nat /\ longer # <<>>
      /\ ToSet(longer) = ToSet(q) \cup {x}
  BY SelectedOneMore
<1>2. /\ Tail(longer) \in Seq(A) /\ Len(Tail(longer)) = Len(q)
      /\ ToSet(Tail(longer)) \subseteq ToSet(longer)
  BY <1>1 DEF ToSet
<1>3. vectorInsert(q, x, n) = IF x \in ToSet(q) THEN q
                              ELSE IF Len(longer) > n THEN Tail(longer) ELSE longer
  BY DEF vectorInsert
<1> HIDE DEF longer
<1> QED
  BY <1>1, <1>2, <1>3

LEMMA GatherOneKeeps ==
  ASSUME MempoolAssumption, NEW k \in 1..Len(txn_selected), NEW s, GoodAfter(k - 1, s), NEW g,
         DOMAIN deps \subseteq Tx, txn_selected[k] \in DOMAIN deps,
         deps[txn_selected[k]] \subseteq {txn_selected[j] : j \in 1..(k - 1)}
  PROVE  GoodAfter(k, GatherOne(g, s, txn_selected[k]))
<1> DEFINE x == txn_selected[k]
           t == GatherOne(g, s, x)
<1>0. x \in DOMAIN deps /\ x \in Tx
  OBVIOUS
<1>1. CASE s.full
  <2>1. t = s
    BY <1>1 DEF GatherOne
  <2> QED
    BY <1>1, <2>1 DEF GoodAfter
<1>2. CASE ~s.full
  <2>1. /\ t.pool = vectorInsert(s.pool, x, MaxHashes)
        /\ t.new = IF x \notin ToSet(s.pool) THEN s.new \cup {x} ELSE s.new
    BY <1>2 DEF GatherOne
  <2>2. /\ t.pool \in Seq(Tx) /\ Len(t.pool) <= MaxHashes
        /\ ToSet(t.pool) \subseteq ToSet(s.pool) \cup {x}
        /\ x \in ToSet(s.pool) => t.pool = s.pool
    BY <1>0, <2>1, VectorInsertFacts DEF GoodAfter, MempoolAssumption
  <2>3. /\ ToSet(s.pool) \subseteq ToSet(mempool) \cup s.new /\ s.new \subseteq DOMAIN deps
        /\ \A j \in 1..(k - 1) : txn_selected[j] \in ToSet(mempool) \cup s.new
        /\ \A y \in s.new : deps[y] \subseteq ToSet(mempool) \cup s.new
    BY <1>2 DEF GoodAfter
  <2>4. s.new \subseteq t.new /\ t.new \subseteq DOMAIN deps /\ x \in ToSet(mempool) \cup t.new
    BY <1>0, <2>1, <2>3
  <2>5. ToSet(t.pool) \subseteq ToSet(mempool) \cup t.new
    BY <2>2, <2>3, <2>4
  <2>6. \A j \in 1..k : txn_selected[j] \in ToSet(mempool) \cup t.new
    <3>1. \A j \in 1..k : j \in 1..(k - 1) \/ j = k
      OBVIOUS
    <3> QED
      BY <2>3, <2>4, <3>1
  <2>7. \A y \in t.new : deps[y] \subseteq ToSet(mempool) \cup t.new
    <3>1. deps[x] \subseteq ToSet(mempool) \cup s.new
      BY <2>3
    <3> HIDE DEF t, x
    <3> QED
      BY <2>1, <2>3, <2>4, <3>1
  <2> HIDE DEF t
  <2>8. GoodAfter(k, t)
    BY <2>2, <2>4, <2>5, <2>6, <2>7 DEF GoodAfter
  <2> QED
    BY <2>8 DEF t
<1> QED
  BY <1>1, <1>2

\* The turns of the loop, one after the other.
Turns(g, n, c) ==
  c = [k \in 0..n |-> IF k = 0 THEN [pool |-> mempool, new |-> {}, size |-> 0, full |-> FALSE]
                      ELSE GatherOne(g, c[k - 1], txn_selected[k])]

LEMMA TurnsExist ==
  ASSUME NEW g, Len(txn_selected) \in Nat PROVE \E c : Turns(g, Len(txn_selected), c)
<1> DEFINE S == {n \in Nat : \E c : Turns(g, n, c)}
           start == [pool |-> mempool, new |-> {}, size |-> 0, full |-> FALSE]
<1>1. 0 \in S
  <2>1. Turns(g, 0, [k \in 0..0 |-> start])
    BY DEF Turns
  <2> QED
    BY <2>1
<1>2. ASSUME NEW n \in Nat, n \in S PROVE n + 1 \in S
  <2>1. PICK c : Turns(g, n, c)
    BY <1>2
  <2> DEFINE d == [k \in 0..(n + 1) |-> IF k = n + 1 THEN GatherOne(g, c[n], txn_selected[n + 1])
                                        ELSE c[k]]
  <2> HIDE DEF start
  <2>0. c = [k \in 0..n |-> IF k = 0 THEN start ELSE GatherOne(g, c[k - 1], txn_selected[k])]
    BY <2>1 DEF Turns, start
  <2>2. ASSUME NEW k \in 0..(n + 1)
        PROVE  d[k] = IF k = 0 THEN start ELSE GatherOne(g, d[k - 1], txn_selected[k])
    <3>1. CASE k = 0
      <4>1. d[0] = c[0] /\ c[0] = start
        BY <2>0
      <4> QED
        BY <3>1, <4>1
    <3>2. CASE k = n + 1
      <4>1. k # 0 /\ k - 1 = n /\ d[n] = c[n]
        BY <3>2
      <4> QED
        BY <3>2, <4>1
    <3>3. CASE k \in 1..n
      <4>1. k # 0 /\ k \in 0..n /\ k - 1 \in 0..n /\ d[k] = c[k] /\ d[k - 1] = c[k - 1]
        BY <3>3
      <4>2. c[k] = GatherOne(g, c[k - 1], txn_selected[k])
        BY <2>0, <4>1
      <4> QED
        BY <4>1, <4>2
    <3> QED
      BY <3>1, <3>2, <3>3
  <2>3. d = [k \in 0..(n + 1) |-> d[k]]
    OBVIOUS
  <2> HIDE DEF d
  <2>4. d = [k \in 0..(n + 1) |-> IF k = 0 THEN start ELSE GatherOne(g, d[k - 1], txn_selected[k])]
    BY <2>2, <2>3
  <2>5. Turns(g, n + 1, d)
    BY <2>4 DEF Turns, start
  <2> QED
    BY <2>5
<1> HIDE DEF S
<1>3. Len(txn_selected) \in S
  BY <1>1, <1>2, SetInduction
<1> QED
  BY <1>3 DEF S

\* However early the loop stops, what it has gathered makes up for what the pool has
\* forgotten, and no transaction is gathered before those it depends on.
LEMMA GatheredFacts ==
  ASSUME MempoolAssumption, Tables, PoolInv, NEW g
  PROVE  GoodAfter(Len(txn_selected), Gathered(g))
<1>1. Len(txn_selected) \in Nat /\ \A k \in 1..Len(txn_selected) : txn_selected[k] \in DOMAIN deps
  BY DEF Tables, HeapInv
<1>2. PICK c : Turns(g, Len(txn_selected), c) /\ Gathered(g) = c[Len(txn_selected)]
  <2> DEFINE h == CHOOSE h : Turns(g, Len(txn_selected), h)
  <2>1. Turns(g, Len(txn_selected), h)
    BY <1>1, TurnsExist
  <2>2. Gathered(g) = h[Len(txn_selected)]
    BY DEF Gathered, h, Turns
  <2> HIDE DEF h
  <2> QED
    BY <2>1, <2>2
<1>3. c[0] = [pool |-> mempool, new |-> {}, size |-> 0, full |-> FALSE]
  BY <1>1, <1>2 DEF Turns
<1>4. \A k \in 1..Len(txn_selected) : c[k] = GatherOne(g, c[k - 1], txn_selected[k])
  <2>1. \A k \in 1..Len(txn_selected) : k \in 0..Len(txn_selected) /\ k # 0
    BY <1>1
  <2> QED
    BY <1>2, <2>1, Zenon DEF Turns
<1>5. \A k \in 1..Len(txn_selected) :
        deps[txn_selected[k]] \subseteq {txn_selected[j] : j \in 1..(k - 1)}
  <2> SUFFICES ASSUME NEW k \in 1..Len(txn_selected)
               PROVE  deps[txn_selected[k]] \subseteq {txn_selected[j] : j \in 1..(k - 1)}
    OBVIOUS
  <2>1. deps[txn_selected[k]] \subseteq ToSet(SubSeq(txn_selected, 1, k - 1))
    <3>1. k \in DOMAIN txn_selected
      BY DEF Tables, HeapInv
    <3> QED
      BY <3>1 DEF Tables, BestInv, Eligible
  <2>2. txn_selected \in Seq(DOMAIN deps)
    BY DEF Tables, HeapInv
  <2>3. \A j \in DOMAIN SubSeq(txn_selected, 1, k - 1) :
          j \in 1..(k - 1) /\ SubSeq(txn_selected, 1, k - 1)[j] = txn_selected[j]
    BY <1>1, <2>2
  <2> QED
    BY <2>1, <2>3 DEF ToSet
<1> DEFINE S == {n \in Nat : n <= Len(txn_selected) => GoodAfter(n, c[n])}
<1>6. 0 \in S
  <2>1. GoodAfter(0, c[0])
    BY <1>3 DEF GoodAfter, PoolInv
  <2> QED
    BY <2>1
<1>7. ASSUME NEW n \in Nat, n \in S PROVE n + 1 \in S
  <2> SUFFICES ASSUME n + 1 <= Len(txn_selected) PROVE GoodAfter(n + 1, c[n + 1])
    OBVIOUS
  <2>1. n + 1 \in 1..Len(txn_selected) /\ (n + 1) - 1 = n /\ n <= Len(txn_selected)
    BY <1>1
  <2>2. GoodAfter((n + 1) - 1, c[n]) /\ c[n + 1] = GatherOne(g, c[n], txn_selected[n + 1])
    BY <1>4, <1>7, <2>1
  <2>3. DOMAIN deps \subseteq Tx
    BY DEF Tables, TablesInv
  <2>4. GoodAfter(n + 1, GatherOne(g, c[n], txn_selected[n + 1]))
    BY <1>1, <1>5, <2>1, <2>2, <2>3, GatherOneKeeps, Zenon
  <2> QED
    BY <2>2, <2>4
<1> HIDE DEF S
<1>8. Len(txn_selected) \in S
  BY <1>1, <1>6, <1>7, SetInduction
<1> QED
  BY <1>1, <1>2, <1>8 DEF S

----------------------------------------------------------------------------
(***************************************************************************)
(* The pool and its clients.                                               *)
(***************************************************************************)
PoolPart == PoolInv /\ ClientsToldAll /\ ParentsHandedOut

LEMMA RPCStepKeepsPool ==
  ASSUME PoolPart, RPCStep PROVE PoolPart'
<1>1. /\ mempool' = mempool /\ new_txn' = new_txn /\ had' = had /\ clientMap' = clientMap
      /\ gone' = gone /\ accepting' = accepting /\ told' = told
  BY DEF RPCStep, clients
<1>2. CASE net = "gathered"
  <2>1. Poll
    BY <1>2 DEF RPCStep, Net, Broken, Connect, Start, HeaderTimeout, RecvHeader, ParseEntry,
                ParseEnd, SelectNext, SelectDone, Answered, Reconnect, on_disconnect
  <2>2. net' = net /\ deps' = deps
    BY <2>1 DEF Poll, PollCheck, PollClaim, PollSend, parser
  <2> QED
    BY <1>1, <2>2 DEF PoolPart, PoolInv, ClientsToldAll, ParentsHandedOut, ToSet
<1>3. CASE net # "gathered"
  <2>1. new_txn = {} /\ new_txn' = {}
    BY <1>1, <1>3 DEF PoolPart, PoolInv
  <2>2. PoolInv'
    BY <1>1, <2>1 DEF PoolPart, PoolInv
  <2>3. ParentsHandedOut'
    BY <2>1 DEF ParentsHandedOut
  <2>4. ClientsToldAll'
    BY <1>1 DEF PoolPart, ClientsToldAll, ToSet
  <2> QED
    BY <2>2, <2>3, <2>4 DEF PoolPart
<1> QED
  BY <1>2, <1>3

LEMMA GatherNewKeepsPool ==
  ASSUME MempoolAssumption, Tables, PoolPart, GatherNew PROVE PoolPart'
<1>1. PICK g \in Gather : mempool' = Gathered(g).pool /\ new_txn' = Gathered(g).new
  BY DEF GatherNew
<1>2. /\ net = "callback" /\ net' = "gathered" /\ had' = ToSet(mempool) /\ deps' = deps
      /\ clientMap' = clientMap /\ gone' = gone /\ accepting' = accepting /\ told' = told
  BY DEF GatherNew, parser, clients
<1>3. GoodAfter(Len(txn_selected), Gathered(g))
  BY GatheredFacts DEF PoolPart
<1>4. /\ mempool' \in Seq(Tx) /\ Len(mempool') <= MaxHashes /\ new_txn' \subseteq DOMAIN deps
      /\ ToSet(mempool') \subseteq ToSet(mempool) \cup new_txn'
      /\ \A x \in new_txn' : deps[x] \subseteq ToSet(mempool) \cup new_txn'
  BY <1>1, <1>3 DEF GoodAfter
<1>5. PoolInv'
  BY <1>2, <1>4 DEF PoolPart, PoolInv
<1>6. ParentsHandedOut'
  BY <1>2, <1>4 DEF ParentsHandedOut
<1>7. ClientsToldAll'
  <2>1. new_txn = {}
    BY <1>2 DEF PoolPart, PoolInv
  <2>2. ToSet(mempool)' = ToSet(mempool')
    BY DEF ToSet
  <2> QED
    BY <1>2, <1>4, <2>1, <2>2 DEF PoolPart, ClientsToldAll
<1> QED
  BY <1>5, <1>6, <1>7 DEF PoolPart

LEMMA SendNewKeepsPool ==
  ASSUME TablesInv, PoolPart, SendNew PROVE PoolPart'
<1>1. /\ net = "gathered" /\ net' = "called" /\ accepting = {} /\ new_txn' = {} /\ deps' = deps
      /\ mempool' = mempool /\ clientMap' = clientMap /\ gone' = gone /\ accepting' = accepting
      /\ told' = [c \in Client |-> IF c \in clientMap \ gone THEN told[c] \cup new_txn ELSE told[c]]
  BY DEF SendNew, mapMutexFree, parser
<1>2. new_txn \subseteq Tx
  BY DEF PoolPart, PoolInv, TablesInv
<1>3. told' \in [Client -> SUBSET Tx]
  BY <1>1, <1>2 DEF PoolPart, PoolInv
<1>4. PoolInv'
  BY <1>1, <1>3 DEF PoolPart, PoolInv
<1>5. ToSet(mempool)' = ToSet(mempool)
  BY <1>1 DEF ToSet
<1>6. ClientsToldAll'
  <2> SUFFICES ASSUME NEW c \in clientMap \ gone PROVE ToSet(mempool) \subseteq told'[c]
    BY <1>1, <1>5 DEF ClientsToldAll
  <2>1. c \in Client /\ ToSet(mempool) \subseteq told[c] \cup new_txn
    BY <1>1 DEF PoolPart, PoolInv, ClientsToldAll
  <2> QED
    BY <1>1, <2>1
<1>7. ParentsHandedOut'
  BY <1>1 DEF ParentsHandedOut
<1> QED
  BY <1>4, <1>6, <1>7 DEF PoolPart

LEMMA ClientStepKeepsPool ==
  ASSUME PoolPart, NEW c \in Client, Accept(c) \/ SendPool(c) \/ Drop(c) \/ Cull(c)
  PROVE  PoolPart' /\ UNCHANGED rpc
<1>1. /\ UNCHANGED rpc /\ mempool' = mempool /\ new_txn' = new_txn /\ had' = had
      /\ net' = net /\ deps' = deps
  BY DEF Accept, SendPool, Drop, Cull, rpc, parser
<1>2. ToSet(mempool)' = ToSet(mempool) /\ ToSet(mempool) \subseteq Tx
  BY <1>1 DEF ToSet, PoolPart, PoolInv
<1>3. ParentsHandedOut'
  BY <1>1 DEF PoolPart, ParentsHandedOut
<1> USE DEF PoolPart, PoolInv, ClientsToldAll
<1>4. CASE Accept(c)
  BY <1>1, <1>2, <1>3, <1>4 DEF Accept, mapMutexFree
<1>5. CASE SendPool(c)
  <2>1. /\ accepting = {c} /\ accepting' = {} /\ clientMap' = clientMap /\ gone' = gone
        /\ told' = [told EXCEPT ![c] = IF c \in gone THEN @ ELSE ToSet(mempool)]
    BY <1>5 DEF SendPool
  <2>2. told' \in [Client -> SUBSET Tx]
    BY <1>2, <2>1
  <2>3. ClientsToldAll'
    <3> SUFFICES ASSUME NEW d \in clientMap \ gone
                 PROVE  ToSet(mempool) \subseteq told'[d] \cup new_txn
      BY <1>1, <1>2, <2>1
    <3>1. CASE d = c
      BY <2>1, <3>1
    <3>2. CASE d # c
      BY <2>1, <3>2
    <3> QED
      BY <3>1, <3>2
  <2> QED
    BY <1>1, <1>3, <2>1, <2>2, <2>3
<1>6. CASE Drop(c)
  BY <1>1, <1>2, <1>3, <1>6 DEF Drop
<1>7. CASE Cull(c)
  <2>1. /\ accepting = {} /\ accepting' = {} /\ c \in gone /\ clientMap' = clientMap \ {c}
        /\ gone' = gone \ {c} /\ told' = [told EXCEPT ![c] = {}]
    BY <1>7 DEF Cull, mapMutexFree
  <2>2. told' \in [Client -> SUBSET Tx]
    BY <2>1
  <2>3. \A d \in clientMap' \ gone' : d \in clientMap \ gone /\ told'[d] = told[d]
    BY <2>1
  <2>4. ClientsToldAll'
    BY <1>1, <1>2, <2>1, <2>3
  <2> QED
    BY <1>1, <1>3, <2>1, <2>2, <2>4
<1> QED
  BY <1>4, <1>5, <1>6, <1>7

----------------------------------------------------------------------------
(***************************************************************************)
(* The invariant and what follows from it.                                 *)
(***************************************************************************)
LEMMA InitInv == ASSUME MempoolAssumption PROVE Init => IndInv
<1> SUFFICES ASSUME Init PROVE IndInv
  OBVIOUS
<1>1. RPCInv
  BY InitThreads, InitTables DEF Init, RPCInv, Tables
<1>2. PoolInv
  BY DEF Init, PoolInv, MempoolAssumption
<1>3. ClientsToldAll /\ ParentsHandedOut
  BY DEF Init, ClientsToldAll, ParentsHandedOut
<1> QED
  BY <1>1, <1>2, <1>3 DEF IndInv

LEMMA RPCKept == ASSUME RPCInv, UNCHANGED rpc PROVE RPCInv'
<1>1. /\ UNCHANGED parser /\ net' = net /\ connected' = connected
      /\ awaiting_response' = awaiting_response /\ connection' = connection
      /\ requests' = requests /\ poll' = poll /\ stale' = stale
  BY DEF rpc, flags
<1>2. Tables' /\ (Room' <=> Room) /\ Eligible(Selected)' = Eligible(Selected)
  BY <1>1, TablesKept DEF RPCInv, Tables
<1>3. DoneInv'
  BY <1>1, <1>2 DEF RPCInv, DoneInv
<1>4. ThreadInv' /\ RequestsInv'
  BY <1>1 DEF RPCInv, ThreadInv, RequestsInv, Busy, Claim
<1> QED
  BY <1>2, <1>3, <1>4 DEF RPCInv, Tables

LEMMA NextInv ==
  ASSUME RPCAssumption, MempoolAssumption PROVE IndInv /\ [Next]_vars => IndInv'
<1> SUFFICES ASSUME IndInv, [Next]_vars PROVE IndInv'
  OBVIOUS
<1>0. /\ ThreadInv /\ RequestsInv /\ Tables /\ DoneInv /\ RPCInv /\ PoolPart /\ TablesInv
  BY DEF IndInv, RPCInv, Tables, PoolPart
<1> SUFFICES RPCInv' /\ PoolPart'
  BY DEF IndInv, PoolPart
<1>1. CASE RPCStep
  <2>1. Poll \/ Net \/ Broken
    BY <1>1 DEF RPCStep
  <2>2. ThreadInv' /\ RequestsInv'
    BY <1>0, <2>1, PollSteps, NetSteps
  <2>3. Tables' /\ DoneInv'
    BY <1>0, <2>1, TablesStep
  <2>4. PoolPart'
    BY <1>0, <1>1, RPCStepKeepsPool
  <2> QED
    BY <2>2, <2>3, <2>4 DEF RPCInv, Tables
<1>2. CASE Callback
  <2>1. GatherNew \/ SendNew
    BY <1>2 DEF Callback
  <2>2. ThreadInv' /\ RequestsInv'
    BY <1>0, <2>1, NetSteps
  <2>3. Tables' /\ DoneInv'
    BY <1>0, <2>1, TablesStep
  <2>4. PoolPart'
    BY <1>0, <2>1, GatherNewKeepsPool, SendNewKeepsPool
  <2> QED
    BY <2>2, <2>3, <2>4 DEF RPCInv, Tables
<1>3. CASE \E c \in Client : Accept(c) \/ SendPool(c) \/ Drop(c) \/ Cull(c)
  <2>1. PoolPart' /\ UNCHANGED rpc
    BY <1>0, <1>3, ClientStepKeepsPool
  <2> QED
    BY <1>0, <2>1, RPCKept
<1>4. CASE UNCHANGED vars
  <2>1. /\ UNCHANGED rpc /\ mempool' = mempool /\ new_txn' = new_txn /\ had' = had
        /\ clientMap' = clientMap /\ gone' = gone /\ accepting' = accepting /\ told' = told
    BY <1>4 DEF vars, clients
  <2>2. net' = net /\ deps' = deps
    BY <2>1 DEF rpc, parser
  <2>3. PoolPart'
    BY <1>0, <2>1, <2>2 DEF PoolPart, PoolInv, ClientsToldAll, ParentsHandedOut, ToSet
  <2> QED
    BY <1>0, <2>1, <2>3, RPCKept
<1> QED
  BY <1>1, <1>2, <1>3, <1>4 DEF Next

LEMMA InvHolds == Spec => []IndInv
BY InitInv, NextInv, RPCAssumption, MempoolAssumption, PTL DEF Spec

\* Every variable of the mempool server keeps its type: the heap and the selection hold
\* entries of the answer only, no count of dependencies goes below zero, and the pool
\* never exceeds its limit (mempoolserver.cpp:81-114, rpcclient.cpp:237-302).
THEOREM MempoolTypes == Spec => []TypeOK
<1>1. IndInv => TypeOK
  <2> SUFFICES ASSUME IndInv PROVE TypeOK
    OBVIOUS
  <2>1. \A x \in DOMAIN deps : setDeps[x] \subseteq DOMAIN deps /\ reqCount[x] \in Nat
    <3>1. TablesInv /\ HeapInv
      BY DEF IndInv, RPCInv
    <3>2. \A x \in DOMAIN deps : Cardinality(deps[x] \ Selected) \in Nat
      BY <3>1, RPCAssumption, DepsFinite
    <3>3. \A x \in DOMAIN deps : reqCount[x] \in Nat
      BY <3>1, <3>2 DEF HeapInv
    <3>4. \A x \in DOMAIN deps : setDeps[x] \subseteq DOMAIN deps
      BY <3>1, Zenon DEF TablesInv
    <3> QED
      BY <3>3, <3>4
  <2>2. RPCTypeOK
    <3>1. ThreadInv /\ TablesInv /\ HeapInv
      BY DEF IndInv, RPCInv
    <3>2. connection \in {"none", "up", "dead"}
      BY <3>1 DEF ThreadInv
    <3> QED
      BY <2>1, <3>1, <3>2, Zenon DEF ThreadInv, TablesInv, HeapInv, RPCTypeOK
  <2>3. new_txn \subseteq Tx
    BY DEF IndInv, RPCInv, TablesInv, PoolInv
  <2> QED
    BY <2>2, <2>3 DEF IndInv, PoolInv, TypeOK
<1> QED
  BY <1>1, InvHolds, PTL

\* In whatever order entries come, and whatever their dependencies, fees and sizes, the
\* selection takes at each step the best transaction it may, and ends only when none is
\* left or the size is reached (rpcclient.cpp:241-256, 283-302).
THEOREM BestIsSelected == Spec => []SelectsBest
<1>1. IndInv => SelectsBest
  BY DEF IndInv, RPCInv, BestInv, DoneInv, Selected, Selecting, SelectsBest
<1> QED
  BY <1>1, InvHolds, PTL

\* At most one request is with the bitcoind or being answered, or two after a claim that
\* a reconnection has overtaken, over any number of reconnections
\* (rpcclient.cpp:374, 396 against 11-14, 318).
THEOREM RequestsStayBounded == Spec => []RequestsBounded
<1>1. IndInv => RequestsBounded
  BY DEF IndInv, RPCInv, ThreadInv, RequestsInv, Busy, Claim, Answering, Up, RequestsBounded
<1> QED
  BY <1>1, InvHolds, PTL

\* Every client that has been sent the pool has been sent each hash in it, or is about
\* to be, whenever it connected (mempoolserver.cpp:91-112 against 160-168).
THEOREM EveryClientTold == Spec => []ClientsToldAll
<1>1. IndInv => ClientsToldAll
  BY DEF IndInv
<1> QED
  BY <1>1, InvHolds, PTL

\* No hash is handed out before those of the transactions it depends on, however early
\* the gathering stops (mempoolserver.cpp:90-99 over rpcclient.cpp:288-293).
THEOREM ParentsFirst == Spec => []ParentsHandedOut
<1>1. IndInv => ParentsHandedOut
  BY DEF IndInv
<1> QED
  BY <1>1, InvHolds, PTL
=============================================================================
