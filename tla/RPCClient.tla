----------------------------- MODULE RPCClient -----------------------------
(***************************************************************************)
(* RPCClient (rpcclient.cpp): asks a bitcoind for its memory pool, one     *)
(* request at a time, and selects from the answer the transactions a miner *)
(* would take first.                                                       *)
(*                                                                         *)
(* Two threads: the one that polls (poll), which checks connected, claims  *)
(* awaiting_response and sends, in three steps; and the connection's own   *)
(* (net), which reads answers and, when the connection is lost, becomes    *)
(* the one that reconnects.  The owner's callback runs on the latter       *)
(* between the states "callback" and "called".                             *)
(***************************************************************************)
EXTENDS Integers, FiniteSets, SequencesExt, Sums

CONSTANTS Tx,
          Deps,      \* the transactions a transaction depends on
          Fee, Size, Prio,
          MAX_FAS_TOTAL_SIZE, MAX_RELAY_TRANSACTION_BYTES

ASSUME RPCAssumption ==
  /\ Deps \in [Tx -> SUBSET Tx] /\ \A x \in Tx : x \notin Deps[x] /\ IsFiniteSet(Deps[x])
  /\ Fee \in [Tx -> Nat] /\ Size \in [Tx -> Nat \ {0}] /\ Prio \in [Tx -> Nat]
  /\ MAX_FAS_TOTAL_SIZE \in Nat /\ MAX_RELAY_TRANSACTION_BYTES \in Nat

VARIABLES
  connected, awaiting_response,
  connection,         \* the connection pointer: "none", "up", or "dead" before it is cleared
  requests,           \* requests the bitcoind has on this connection and has not answered
  poll,               \* "idle", "checked" (connected was true), "claimed"
  net,                \* "connect", "start", "header", "parse", "select", "callback",
                      \* (the owner's states), "called", "closed", "swapped"
  close_after_read,
  deps,               \* the entries read so far and what each says it depends on
  setDeps,            \* the entries that are known to depend on an entry
  txnWaitingOnDeps,   \* pairs of a hash not met yet and an entry that depends on it
  reqCount,
  vectorToSort,       \* the heap: entries that wait for nothing
  txn_selected,
  stale               \* history: on this connection a request was sent that was claimed
                      \* before it was made

flags  == <<connected, awaiting_response>>
parser == <<close_after_read, deps, setDeps, txnWaitingOnDeps, reqCount, vectorToSort, txn_selected>>
rpc    == <<flags, connection, requests, poll, net, parser, stale>>

none == [x \in {} |-> x]

\* What one answer is worked on with, as the loop of net_process declares it.
NewAnswer ==
  /\ close_after_read' = FALSE
  /\ deps' = none /\ setDeps' = none /\ reqCount' = none
  /\ txnWaitingOnDeps' = {} /\ vectorToSort' = {} /\ txn_selected' = <<>>

InitRPC ==
  /\ connected = FALSE /\ awaiting_response = FALSE
  /\ connection = "none" /\ requests = 0
  /\ poll = "idle" /\ net = "connect"
  /\ close_after_read = FALSE
  /\ deps = none /\ setDeps = none /\ reqCount = none
  /\ txnWaitingOnDeps = {} /\ vectorToSort = {} /\ txn_selected = <<>>
  /\ stale = FALSE

----------------------------------------------------------------------------
(***************************************************************************)
(* maybe_get_txn_for_block, called every 500 ms.                           *)
(***************************************************************************)
PollCheck ==
  /\ poll = "idle" /\ connected
  /\ poll' = "checked"
  /\ UNCHANGED <<flags, connection, requests, net, parser, stale>>

\* Mutant of PollClaim: what the flag was before is not looked at.
PollClaimMutant ==
  /\ poll = "checked" /\ poll' = "claimed"
  /\ awaiting_response' = TRUE
  /\ UNCHANGED <<connected, connection, requests, net, parser, stale>>

PollClaim ==
  /\ poll = "checked"
  /\ poll' = IF awaiting_response THEN "idle" ELSE "claimed"
  /\ awaiting_response' = TRUE
  /\ UNCHANGED <<connected, connection, requests, net, parser, stale>>

\* maybe_do_send_bytes: on the connection there is by now, if there is one.
PollSend ==
  /\ poll = "claimed" /\ poll' = "idle"
  /\ requests' = IF connection = "up" THEN requests + 1 ELSE requests
  /\ stale' = (stale \/ (connection = "up" /\ ~awaiting_response))
  /\ UNCHANGED <<flags, connection, net, parser>>

----------------------------------------------------------------------------
(***************************************************************************)
(* The connection's thread.                                                *)
(***************************************************************************)

\* do_connect makes a connection, or fails and goes through reconnect again.
Connect ==
  /\ net = "connect"
  /\ \/ connection' = "up" /\ net' = "start"
     \/ net' = "swapped" /\ UNCHANGED connection
  /\ requests' = 0 /\ stale' = FALSE
  /\ UNCHANGED <<flags, poll, parser>>

Start ==
  /\ net = "start"
  /\ connected' = TRUE /\ net' = "header"
  /\ UNCHANGED <<awaiting_response, connection, requests, poll, parser, stale>>

\* disconnect runs to its end on the thread of the connection.
Disconnect ==
  /\ net' = "closed" /\ connection' = "dead"
  /\ NewAnswer

\* Mutant of HeaderTimeout: the header is waited for without a limit.
HeaderTimeoutMutant == FALSE

\* Nothing within ten seconds.
HeaderTimeout ==
  /\ net = "header"
  /\ Disconnect
  /\ UNCHANGED <<flags, requests, poll, stale>>

\* The connection breaks, or what was read is not the header or the JSON expected.
Broken ==
  /\ net \in {"header", "parse"}
  /\ Disconnect
  /\ UNCHANGED <<flags, requests, poll, stale>>

\* The headers of the next answer.
RecvHeader ==
  /\ net = "header" /\ requests > 0
  /\ requests' = requests - 1
  /\ close_after_read' \in BOOLEAN
  /\ net' = "parse"
  /\ UNCHANGED <<flags, connection, poll, deps, setDeps, txnWaitingOnDeps, reqCount,
                 vectorToSort, txn_selected, stale>>

\* Mutant of Enter: entries that came before the one they depend on are not told of it.
EnterMutant(x, D) ==
  /\ deps' = [y \in DOMAIN deps \cup {x} |-> IF y = x THEN D ELSE deps[y]]
  /\ reqCount' = [y \in DOMAIN deps' |-> IF y = x THEN Cardinality(D) ELSE reqCount[y]]
  /\ vectorToSort' = IF D = {} THEN vectorToSort \cup {x} ELSE vectorToSort
  /\ setDeps' = [y \in DOMAIN deps' |->
       IF y = x THEN {} ELSE IF y \in D THEN setDeps[y] \cup {x} ELSE setDeps[y]]
  /\ txnWaitingOnDeps' = {w \in txnWaitingOnDeps : w[1] # x} \cup {<<d, x>> : d \in D \ DOMAIN deps}

\* An entry x that depends on D goes into the tables: it is noted with the entries it
\* depends on, and with those that are still to come, and learns who waited for it.
Enter(x, D) ==
  /\ deps' = [y \in DOMAIN deps \cup {x} |-> IF y = x THEN D ELSE deps[y]]
  /\ reqCount' = [y \in DOMAIN deps' |-> IF y = x THEN Cardinality(D) ELSE reqCount[y]]
  /\ vectorToSort' = IF D = {} THEN vectorToSort \cup {x} ELSE vectorToSort
  /\ setDeps' = [y \in DOMAIN deps' |->
       IF y = x THEN {w[2] : w \in {w \in txnWaitingOnDeps : w[1] = x}}
       ELSE IF y \in D THEN setDeps[y] \cup {x} ELSE setDeps[y]]
  /\ txnWaitingOnDeps' = {w \in txnWaitingOnDeps : w[1] # x} \cup {<<d, x>> : d \in D \ DOMAIN deps}

\* The next entry of the answer.  Of what a transaction depends on, only what is not
\* in a block yet is listed.
ParseEntry ==
  /\ net = "parse"
  /\ \E x \in Tx : \E D \in SUBSET Deps[x] :
       \/ x \in DOMAIN deps /\ Disconnect
       \/ x \notin DOMAIN deps /\ Enter(x, D)
          /\ UNCHANGED <<net, connection, close_after_read, txn_selected>>
  /\ UNCHANGED <<flags, requests, poll, stale>>

ParseEnd ==
  /\ net = "parse"
  /\ \/ txnWaitingOnDeps # {} /\ Disconnect
     \/ txnWaitingOnDeps = {} /\ net' = "select" /\ UNCHANGED <<connection, parser>>
  /\ UNCHANGED <<flags, requests, poll, stale>>

feePerKb(x) == (Fee[x] * 1000) \div Size[x]

\* comp
Less(a, b) ==
  \/ feePerKb(a) < feePerKb(b)
  \/ feePerKb(a) = feePerKb(b) /\ Prio[a] < Prio[b]

\* pop_heap: any of the entries none is above.
Top(S) == {e \in S : \A y \in S : ~Less(e, y)}

totalSizeSelected == SumSeq([k \in 1..Len(txn_selected) |-> Size[txn_selected[k]]])

Room == totalSizeSelected < (9 * MAX_FAS_TOTAL_SIZE) \div 10

\* Mutant of Select: an entry is ready when one of those it depends on is selected.
SelectMutant(e) ==
  /\ txn_selected' = Append(txn_selected, e)
  /\ reqCount' = [y \in DOMAIN reqCount |-> IF y \in setDeps[e] THEN reqCount[y] - 1 ELSE reqCount[y]]
  /\ vectorToSort' = (vectorToSort \ {e}) \cup setDeps[e]

Select(e) ==
  /\ txn_selected' = Append(txn_selected, e)
  /\ reqCount' = [y \in DOMAIN reqCount |-> IF y \in setDeps[e] THEN reqCount[y] - 1 ELSE reqCount[y]]
  /\ vectorToSort' = (vectorToSort \ {e}) \cup {y \in setDeps[e] : reqCount'[y] = 0}

\* The next best entry is selected, or dropped if it is too large to be relayed.
SelectNext ==
  /\ net = "select" /\ Room
  /\ \E e \in Top(vectorToSort) :
       \/ Size[e] <= MAX_RELAY_TRANSACTION_BYTES /\ Select(e)
       \/ /\ Size[e] > MAX_RELAY_TRANSACTION_BYTES
          /\ vectorToSort' = vectorToSort \ {e} /\ UNCHANGED <<txn_selected, reqCount>>
  /\ UNCHANGED <<flags, connection, requests, poll, net, close_after_read, deps, setDeps,
                 txnWaitingOnDeps, stale>>

SelectDone ==
  /\ net = "select" /\ (~Room \/ vectorToSort = {})
  /\ net' = "callback"
  /\ UNCHANGED <<flags, connection, requests, poll, parser, stale>>

\* After the callback.
Answered ==
  /\ net = "called"
  /\ awaiting_response' = FALSE
  /\ \/ close_after_read /\ Disconnect
     \/ ~close_after_read /\ net' = "header" /\ NewAnswer /\ UNCHANGED connection
  /\ UNCHANGED <<connected, requests, poll, stale>>

\* reconnect clears the pointer, and then calls on_disconnect.
Reconnect ==
  /\ net = "closed"
  /\ connection' = "none" /\ net' = "swapped"
  /\ UNCHANGED <<flags, requests, poll, parser, stale>>

on_disconnect ==
  /\ net = "swapped"
  /\ connected' = FALSE /\ awaiting_response' = FALSE
  /\ net' = "connect"
  /\ UNCHANGED <<connection, requests, poll, parser, stale>>

Poll == PollCheck \/ PollClaim \/ PollSend

\* What the connection's thread does by itself, given that an answer that has begun
\* comes to its end: reading the body has no time limit.
Net ==
  \/ Connect \/ Start \/ HeaderTimeout \/ RecvHeader \/ ParseEntry \/ ParseEnd
  \/ SelectNext \/ SelectDone \/ Answered \/ Reconnect \/ on_disconnect

----------------------------------------------------------------------------
(***************************************************************************)
(* Properties.                                                             *)
(***************************************************************************)
RPCTypeOK ==
  /\ connected \in BOOLEAN /\ awaiting_response \in BOOLEAN /\ stale \in BOOLEAN
  /\ connection \in {"none", "up", "dead"} /\ requests \in Nat
  /\ poll \in {"idle", "checked", "claimed"}
  /\ vectorToSort \subseteq DOMAIN deps /\ DOMAIN deps \subseteq Tx
  /\ DOMAIN setDeps = DOMAIN deps /\ DOMAIN reqCount = DOMAIN deps
  /\ \A x \in DOMAIN deps : setDeps[x] \subseteq DOMAIN deps /\ reqCount[x] \in Nat
  /\ txn_selected \in Seq(DOMAIN deps)

\* What may be selected once the transactions of done are.
Eligible(done) ==
  {x \in DOMAIN deps \ done : deps[x] \subseteq done /\ Size[x] <= MAX_RELAY_TRANSACTION_BYTES}

\* In whatever order the entries of an answer come, the selection takes at each step
\* the best transaction all of whose parents are selected, and ends only when
\* there is none left or the size is reached: no parent is waited for twice, none is
\* forgotten, and nothing waits behind a transaction that was dropped but what depends
\* on it (rpcclient.cpp:241-256, 283-302).
SelectsBest ==
  net \in {"select", "callback", "gathered", "called"} =>
    /\ \A k \in DOMAIN txn_selected :
         LET E == Eligible(ToSet(SubSeq(txn_selected, 1, k - 1)))
         IN txn_selected[k] \in E /\ \A y \in E : ~Less(txn_selected[k], y)
    /\ net # "select" /\ Room => Eligible(ToSet(txn_selected)) = {}

\* One request at a time is with the bitcoind or being answered.  A poll that claims
\* the flag, is overtaken by a reconnection and then sends on the new connection, whose
\* flag is clear again, makes it two, but never more (rpcclient.cpp:374, 396 against
\* 11-14, 318).
RequestsBounded ==
  requests + (IF net \in {"parse", "select", "callback", "gathered", "called"} THEN 1 ELSE 0)
    <= IF stale THEN 2 ELSE 1

\* A claim never ends the polling: also one that was made between on_disconnect and
\* the next connection, for a request that went nowhere, is given up
\* (rpcclient.cpp:374 against 13, 47-48, 318).
ClaimGivenUp == awaiting_response ~> ~awaiting_response
============================================================================
