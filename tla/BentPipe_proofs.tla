-------------------------- MODULE BentPipe_proofs --------------------------
(***************************************************************************)
(* Proofs about BentPipe, for any versions, any kept messages and any      *)
(* number of faults.                                                       *)
(***************************************************************************)
EXTENDS BentPipe, TLAPS

\* The handshake of a pipe, as far as it has come on an open connection: Start has
\* sent the version, and connected counts only what this connection has seen.
Handshake(p) ==
  /\ At(p, "connect") => connected[p] = 0
  /\ At(p, "start") => met[p] = 0 /\ connected[p] = 0
  /\ Open(p) => At(p, "start") \/ met[p] >= 1
  /\ Open(p) /\ connected[p] >= 1 => met[p] = 2

\* A thread that is about to send, and not outdated, checked this very connection.
CheckedReady(p) ==
  At(Other(p), "send") /\ ~net[Other(p)].old /\ Open(p) => met[p] = 2

HandshakeInv == \A p \in Pipe : Handshake(p) /\ CheckedReady(p) /\ ~early[p]

Unraced(p) == Key \ (raced[p] \cup InPassing(p))

\* What replay is still to bring.
Replayed(p, k) == At(p, "replay") => k <= net[p].done

\* The kept messages of one pipe.  Where nothing is kept the bitcoind was told nothing;
\* what is before the place that replay has reached is up to date; and a message that is
\* being recorded for a pipe that was ready all the time has been sent to it.
Kept(p) ==
  /\ \A k \in Unraced(p) : Open(p) /\ stateful[p][k] = 0 => got[p][k] = 0
  /\ \A k \in Unraced(p) :
       Open(p) /\ connected[p] = 2 /\ Replayed(p, k) => got[p][k] = stateful[p][k]
  /\ At(p, "replay") => InPassing(p) \subseteq raced[p] /\ connected[p] = 2
  /\ LET o == Other(p) IN
       At(o, "record") /\ net[o].m.key \notin raced[p] \cup {0} /\ Open(p) /\ connected[p] = 2
         => got[p][net[o].m.key] = net[o].m.value

KeptInv == \A p \in Pipe : Kept(p)

----------------------------------------------------------------------------

LEMMA PipeFacts ==
  /\ \A p \in Pipe : Other(p) \in Pipe /\ Other(p) # p /\ Other(Other(p)) = p
  /\ \A p, q \in Pipe : q # p => q = Other(p)
BY DEF Pipe, Other

LEMMA SaidFacts ==
  ASSUME NEW m \in Said
  PROVE  /\ m.kind = "msg"
         /\ \/ m.key = 0 /\ m.value = 0
            \/ m.key \in Key /\ m.value \in Value
<1>1. CASE m \in [kind : {"msg"}, key : Key, value : Value]
  <2>1. m.key \in Key /\ m.value \in Value
    BY <1>1
  <2> QED
    BY <1>1, <2>1
<1>2. CASE m \in [kind : {"msg"}, key : {0}, value : {0}]
  <2>1. m.key \in {0} /\ m.value \in {0} /\ m.kind \in {"msg"}
    BY <1>2
  <2> QED
    BY <2>1
<1> QED
  BY <1>1, <1>2 DEF Said

\* What is known of a thread from where it is.
LEMMA StateShape ==
  ASSUME NEW s \in State
  PROVE  /\ s.at = "keep" => s.v \in Versions
         /\ s.at = "replay" => s.done \in Nat
         /\ s.at \in {"check", "record"} => s.m \in Said
         /\ s.at = "send" => s.m \in Said /\ s.old \in BOOLEAN
         /\ s.at \in {"connect", "start", "read", "cut", "closed", "swapped", "keep", "replay",
                      "check", "record", "send"}
BY DEF State

LEMMA StatesOf ==
  /\ \A w \in {"connect", "start", "read", "cut", "closed", "swapped"} : [at |-> w] \in State
  /\ \A v \in Versions : [at |-> "keep", v |-> v] \in State
  /\ \A d \in Nat : [at |-> "replay", done |-> d] \in State
  /\ \A w \in {"check", "record"}, m \in Said : [at |-> w, m |-> m] \in State
  /\ \A m \in Said, old \in BOOLEAN : [at |-> "send", m |-> m, old |-> old] \in State
BY DEF State

LEMMA MessageShape ==
  ASSUME NEW m \in Message
  PROVE  /\ m.kind = "version" => m.v \in Versions
         /\ m.kind = "msg" => m \in Said
         /\ m.kind \in {"version", "verack", "msg", "bad"}
BY SaidFacts DEF Message

\* Connect marks a thread that is about to send, and changes nothing else of it.
LEMMA OutdatedFacts ==
  ASSUME TypeOK, NEW p \in Pipe
  PROVE  /\ Outdated(p) \in State
         /\ Outdated(p).at = net[Other(p)].at
         /\ At(Other(p), "send") => Outdated(p).old /\ Outdated(p).m = net[Other(p)].m
         /\ ~At(Other(p), "send") => Outdated(p) = net[Other(p)]
<1> DEFINE s == net[Other(p)]
<1>1. s \in State
  BY PipeFacts DEF TypeOK
<1>2. CASE s.at = "send"
  <2>1. s.m \in Said
    BY <1>1, <1>2, StateShape
  <2>2. Outdated(p) = [at |-> "send", m |-> s.m, old |-> TRUE]
    BY <1>2 DEF Outdated, At
  <2>3. Outdated(p) \in State
    BY <2>1, <2>2, StatesOf
  <2>4. Outdated(p).at = "send" /\ Outdated(p).m = s.m /\ Outdated(p).old
    BY <2>2
  <2> QED
    BY <1>2, <2>3, <2>4 DEF At
<1>3. CASE s.at # "send"
  BY <1>1, <1>3 DEF Outdated, At
<1> QED
  BY <1>2, <1>3

----------------------------------------------------------------------------
(***************************************************************************)
(* Types.                                                                  *)
(***************************************************************************)

\* The thread of one pipe moves to a state.
LEMMA GoesType ==
  ASSUME TypeOK, NEW p \in Pipe,
         NEW w \in {"connect", "start", "read", "cut", "closed", "swapped"}, Goes(p, w)
  PROVE  net' \in [Pipe -> State]
BY StatesOf DEF Goes, TypeOK

LEMMA FaultType == ASSUME TypeOK, Fault PROVE faults' \in 0..MaxFaults
BY PipeAssumption DEF Fault, TypeOK

LEMMA InitType == ASSUME Init PROVE TypeOK
<1>1. \A p \in Pipe : Version[p] \subseteq Versions
  BY DEF Versions, Pipe
<1>2. Generated \in Versions
  BY DEF Versions
<1>3. nodeVersion \in [Pipe -> Versions]
  BY <1>1, PipeAssumption DEF Init
<1>4. net \in [Pipe -> State]
  BY StatesOf DEF Init
<1>5. in \in [Pipe -> Seq(Message)]
  BY DEF Init
<1>6. faults \in 0..MaxFaults
  BY PipeAssumption DEF Init
<1>7. /\ connection \in [Pipe -> {"none", "up", "dead"}] /\ shut \in [Pipe -> BOOLEAN]
      /\ connected \in [Pipe -> 0..2] /\ met \in [Pipe -> 0..2] /\ said \in [Pipe -> Nat]
      /\ early \in [Pipe -> BOOLEAN] /\ raced \in [Pipe -> SUBSET Key]
  BY DEF Init
<1>8. /\ version \in [Pipe -> Versions] /\ as \in [Pipe -> Versions]
      /\ stateful \in [Pipe -> [Key -> Value \cup {0}]] /\ got \in [Pipe -> [Key -> Value \cup {0}]]
  BY <1>2 DEF Init
<1> QED
  BY <1>3, <1>4, <1>5, <1>6, <1>7, <1>8 DEF TypeOK

\* Sending a kept message changes what the bitcoind has of it to the value sent.
LEMMA SentType ==
  ASSUME TypeOK, NEW p \in Pipe, NEW k \in Key \cup {0}, NEW x \in Value \cup {0}
  PROVE  Sent(p, k, x) \in [Pipe -> [Key -> Value \cup {0}]]
<1> USE DEF TypeOK
<1>1. CASE Open(p) /\ k # 0 /\ met[p] = 2
  <2>1. [got[p] EXCEPT ![k] = x] \in [Key -> Value \cup {0}]
    OBVIOUS
  <2>2. Sent(p, k, x) = [got EXCEPT ![p] = [got[p] EXCEPT ![k] = x]]
    BY <1>1 DEF Sent
  <2> QED
    BY <2>1, <2>2
<1>2. CASE ~(Open(p) /\ k # 0 /\ met[p] = 2)
  BY <1>2 DEF Sent
<1> QED
  BY <1>1, <1>2

\* Every step preserves the types.
LEMMA NextType == ASSUME TypeOK, [Next]_vars PROVE TypeOK'
<1> USE DEF wire, kept
<1>1. ASSUME NEW p \in Pipe, Connect(p) PROVE TypeOK'
  <2>1. net' \in [Pipe -> State]
    BY <1>1, OutdatedFacts, StatesOf, PipeFacts DEF Connect
  <2>2. nodeVersion' \in [Pipe -> Versions] /\ faults' \in 0..MaxFaults
    <3>1. Version[p] \subseteq Versions
      BY DEF Versions, Pipe
    <3> QED
      BY <1>1, <3>1, PipeAssumption, SMTT(30) DEF Connect, Fault, TypeOK
  <2>3. as' \in [Pipe -> Versions]
    BY <1>1 DEF Connect, Versions, TypeOK
  <2>4. /\ in' \in [Pipe -> Seq(Message)] /\ said' \in [Pipe -> Nat] /\ met' \in [Pipe -> 0..2]
        /\ got' \in [Pipe -> [Key -> Value \cup {0}]]
        /\ early' \in [Pipe -> BOOLEAN] /\ raced' \in [Pipe -> SUBSET Key]
        /\ connection' \in [Pipe -> {"none", "up", "dead"}] /\ shut' \in [Pipe -> BOOLEAN]
    BY <1>1 DEF Connect, TypeOK
  <2> QED
    BY <1>1, <2>1, <2>2, <2>3, <2>4 DEF Connect, TypeOK
<1>2. ASSUME NEW p \in Pipe, Refused(p) PROVE TypeOK'
  <2>1. net' \in [Pipe -> State]
    BY <1>2, GoesType DEF Refused
  <2> QED
    BY <1>2, <2>1, FaultType DEF Refused, TypeOK
<1>3. ASSUME NEW p \in Pipe, Break(p) PROVE TypeOK'
  <2>1. shut' \in [Pipe -> BOOLEAN]
    BY <1>3 DEF Break, TypeOK
  <2> QED
    BY <1>3, <2>1, FaultType DEF Break, TypeOK
<1>4. ASSUME NEW p \in Pipe, ReadEnd(p) PROVE TypeOK'
  <2>1. net' \in [Pipe -> State]
    BY <1>4, GoesType DEF ReadEnd, Closed
  <2>2. in' \in [Pipe -> Seq(Message)] /\ connection' \in [Pipe -> {"none", "up", "dead"}]
    BY <1>4 DEF ReadEnd, Closed, TypeOK
  <2> QED
    BY <1>4, <2>1, <2>2 DEF ReadEnd, TypeOK
<1>5. ASSUME NEW p \in Pipe, Reconnect(p) PROVE TypeOK'
  <2>1. net' \in [Pipe -> State]
    BY <1>5, GoesType DEF Reconnect
  <2> QED
    BY <1>5, <2>1 DEF Reconnect, TypeOK
<1>6. ASSUME NEW p \in Pipe, on_disconnect(p) PROVE TypeOK'
  <2>1. net' \in [Pipe -> State]
    BY <1>6, GoesType DEF on_disconnect
  <2>2. connected' \in [Pipe -> 0..2]
    BY <1>6 DEF on_disconnect, TypeOK
  <2> QED
    BY <1>6, <2>1, <2>2 DEF on_disconnect, TypeOK
<1>7. ASSUME NEW p \in Pipe, Start(p) PROVE TypeOK'
  <2>1. net' \in [Pipe -> State]
    BY <1>7, GoesType DEF Start
  <2>2. connected' \in [Pipe -> 0..2]
    BY <1>7 DEF Start, TypeOK
  <2>3. met' = [met EXCEPT ![p] = 1] \/ met' = met
    BY <1>7 DEF Start
  <2>4. met' \in [Pipe -> 0..2]
    <3>1. met \in [Pipe -> 0..2]
      BY DEF TypeOK
    <3>2. [met EXCEPT ![p] = 1] \in [Pipe -> 0..2]
      BY <3>1
    <3> QED
      BY <2>3, <3>1, <3>2
  <2>5. as' \in [Pipe -> Versions]
    BY <1>7 DEF Start, TypeOK
  <2> QED
    BY <1>7, <2>1, <2>2, <2>4, <2>5 DEF Start, TypeOK
<1>8. ASSUME NEW p \in Pipe, ReadVersion(p) PROVE TypeOK'
  <2>1. Head(in[p]) \in Message /\ in' \in [Pipe -> Seq(Message)]
    BY <1>8 DEF ReadVersion, Read, TypeOK
  <2>2. net' \in [Pipe -> State]
    BY <1>8, <2>1, MessageShape, StatesOf DEF ReadVersion, Read, TypeOK
  <2>3. connected' \in [Pipe -> 0..2] /\ met' \in [Pipe -> 0..2]
    BY <1>8 DEF ReadVersion, TypeOK
  <2> QED
    BY <1>8, <2>1, <2>2, <2>3 DEF ReadVersion, TypeOK
<1>9. ASSUME NEW p \in Pipe, ReadVerack(p) PROVE TypeOK'
  <2>1. net' \in [Pipe -> State]
    BY <1>9, StatesOf DEF ReadVerack, TypeOK
  <2>2. InPassing(p) \subseteq Key
    <3>1. net[Other(p)] \in State
      BY PipeFacts DEF TypeOK
    <3> QED
      BY <3>1, StateShape, SaidFacts DEF InPassing
  <2>3. raced' \in [Pipe -> SUBSET Key]
    BY <1>9, <2>2 DEF ReadVerack, TypeOK
  <2>4. in' \in [Pipe -> Seq(Message)] /\ connected' \in [Pipe -> 0..2]
    BY <1>9 DEF ReadVerack, Read, TypeOK
  <2> QED
    BY <1>9, <2>1, <2>3, <2>4 DEF ReadVerack, TypeOK
<1>10. ASSUME NEW p \in Pipe, ReadOther(p) PROVE TypeOK'
  <2>1. Head(in[p]) \in Message /\ in' \in [Pipe -> Seq(Message)]
    BY <1>10 DEF ReadOther, Read, TypeOK
  <2>2. net' \in [Pipe -> State]
    BY <1>10, <2>1, MessageShape, StatesOf DEF ReadOther, Read, TypeOK
  <2> QED
    BY <1>10, <2>1, <2>2 DEF ReadOther, TypeOK
<1>11. ASSUME NEW p \in Pipe, ReadWrong(p) PROVE TypeOK'
  <2>1. net' \in [Pipe -> State]
    BY <1>11, GoesType DEF ReadWrong, Closed
  <2>2. in' \in [Pipe -> Seq(Message)] /\ connection' \in [Pipe -> {"none", "up", "dead"}]
    BY <1>11 DEF ReadWrong, Closed, TypeOK
  <2> QED
    BY <1>11, <2>1, <2>2 DEF ReadWrong, TypeOK
<1>12. ASSUME NEW p \in Pipe, Replay(p) PROVE TypeOK'
  <2>1. CASE Goes(p, "read") /\ UNCHANGED got
    <3>1. net' \in [Pipe -> State]
      BY <2>1, GoesType
    <3> QED
      BY <1>12, <2>1, <3>1 DEF Replay, TypeOK
  <2>2. CASE \E k \in Rest(p) : net' = [net EXCEPT ![p] = [at |-> "replay", done |-> k]]
                                  /\ got' = Sent(p, k, stateful[p][k])
    <3>1. PICK k \in Rest(p) : /\ net' = [net EXCEPT ![p] = [at |-> "replay", done |-> k]]
                               /\ got' = Sent(p, k, stateful[p][k])
      BY <2>2
    <3>2. k \in Key /\ k \in Nat /\ stateful[p][k] \in Value \cup {0}
      BY PipeAssumption DEF Rest, TypeOK
    <3>3. net' \in [Pipe -> State]
      BY <3>1, <3>2, StatesOf DEF TypeOK
    <3>4. got' \in [Pipe -> [Key -> Value \cup {0}]]
      BY <3>1, <3>2, SentType
    <3> QED
      BY <1>12, <3>3, <3>4 DEF Replay, TypeOK
  <2> QED
    BY <1>12, <2>1, <2>2 DEF Replay
<1>13. ASSUME NEW p \in Pipe, Keep(p) PROVE TypeOK'
  <2>1. net[p].v \in Versions
    BY <1>13, StateShape DEF Keep, At, TypeOK
  <2>2. net' \in [Pipe -> State]
    BY <1>13, GoesType DEF Keep
  <2>3. version' \in [Pipe -> Versions]
    BY <1>13, <2>1 DEF Keep, TypeOK
  <2> QED
    BY <1>13, <2>2, <2>3 DEF Keep, TypeOK
<1>14. ASSUME NEW p \in Pipe, Cut(p) PROVE TypeOK'
  <2>1. net' \in [Pipe -> State]
    BY <1>14, GoesType DEF Cut
  <2> QED
    BY <1>14, <2>1 DEF Cut, TypeOK
<1>15. ASSUME NEW p \in Pipe, Check(p) PROVE TypeOK'
  <2>1. net[p].m \in Said
    BY <1>15, StateShape DEF Check, At, TypeOK
  <2>2. net' \in [Pipe -> State]
    <3>1. [at |-> "send", m |-> net[p].m, old |-> FALSE] \in State
      BY <2>1, StatesOf
    <3>2. [at |-> "record", m |-> net[p].m] \in State
      BY <2>1, StatesOf
    <3> QED
      BY <1>15, <3>1, <3>2 DEF Check, TypeOK
  <2>3. raced' \in [Pipe -> SUBSET Key]
    BY <1>15, <2>1, SaidFacts DEF Check, TypeOK
  <2> QED
    BY <1>15, <2>2, <2>3 DEF Check, TypeOK
<1>16. ASSUME NEW p \in Pipe, Send(p) PROVE TypeOK'
  <2>1. net[p].m \in Said
    BY <1>16, StateShape DEF Send, At, TypeOK
  <2>2. net' \in [Pipe -> State]
    BY <1>16, <2>1, StatesOf DEF Send, TypeOK
  <2>3. got' \in [Pipe -> [Key -> Value \cup {0}]]
    BY <1>16, <2>1, SaidFacts, SentType, PipeFacts DEF Send
  <2>4. early' \in [Pipe -> BOOLEAN]
    BY <1>16 DEF Send, TypeOK
  <2> QED
    BY <1>16, <2>2, <2>3, <2>4 DEF Send, TypeOK
<1>17. ASSUME NEW p \in Pipe, Record(p) PROVE TypeOK'
  <2>1. net[p].m \in Said
    BY <1>17, StateShape DEF Record, At, TypeOK
  <2>2. net' \in [Pipe -> State]
    BY <1>17, GoesType DEF Record
  <2>3. stateful' \in [Pipe -> [Key -> Value \cup {0}]]
    BY <1>17, <2>1, SaidFacts, PipeFacts DEF Record, TypeOK
  <2> QED
    BY <1>17, <2>2, <2>3 DEF Record, TypeOK
<1>18. ASSUME NEW p \in Pipe, NodeHello(p) \/ NodeSays(p) \/ NodeErrs(p) PROVE TypeOK'
  <2>1. PICK msgs \in Seq(Message) : Says(p, msgs)
    <3>1. Hello(p) \in Seq(Message)
      <4>1. [kind |-> "version", v |-> nodeVersion[p]] \in Message /\ [kind |-> "verack"] \in Message
        BY DEF TypeOK, Message
      <4> QED
        BY <4>1 DEF Hello
    <3>2. Chatter[p] \subseteq Message
      BY PipeAssumption DEF Message
    <3>3. {[kind |-> "verack"], [kind |-> "msg", key |-> 0, value |-> 0], [kind |-> "bad"]} \subseteq Message
      BY DEF Message, Said
    <3>4. \A m \in Message : <<m>> \in Seq(Message)
      OBVIOUS
    <3>5. CASE NodeHello(p)
      BY <3>1, <3>5 DEF NodeHello
    <3>6. CASE NodeSays(p)
      BY <3>2, <3>4, <3>6 DEF NodeSays
    <3>7. CASE NodeErrs(p)
      BY <3>3, <3>4, <3>7 DEF NodeErrs
    <3> QED
      BY <1>18, <3>5, <3>6, <3>7
  <2>2. in' \in [Pipe -> Seq(Message)]
    BY <2>1 DEF Says, TypeOK
  <2>3. said' \in [Pipe -> Nat]
    <3>1. \/ said' = [said EXCEPT ![p] = 1]
          \/ said' = [said EXCEPT ![p] = said[p] + 1]
          \/ said' = said
      BY <1>18 DEF NodeHello, NodeSays, NodeErrs
    <3>2. said \in [Pipe -> Nat]
      BY DEF TypeOK
    <3>3. [said EXCEPT ![p] = 1] \in [Pipe -> Nat] /\ [said EXCEPT ![p] = said[p] + 1] \in [Pipe -> Nat]
      BY <3>2
    <3> QED
      BY <3>1, <3>2, <3>3
  <2>4. faults' \in 0..MaxFaults
    BY <1>18, FaultType DEF NodeHello, NodeSays, NodeErrs, TypeOK
  <2> QED
    BY <2>1, <2>2, <2>3, <2>4 DEF Says, TypeOK
<1>19. CASE UNCHANGED vars
  BY <1>19 DEF vars, TypeOK
<1> QED
  BY <1>1, <1>2, <1>3, <1>4, <1>5, <1>6, <1>7, <1>8, <1>9, <1>10, <1>11, <1>12, <1>13, <1>14,
     <1>15, <1>16, <1>17, <1>18, <1>19 DEF Next, Thread

----------------------------------------------------------------------------
(***************************************************************************)
(* The handshake and the version.                                          *)
(***************************************************************************)

\* What the types say of the state of single pipes.
Domains ==
  /\ DOMAIN net = Pipe /\ DOMAIN connection = Pipe /\ DOMAIN shut = Pipe
  /\ DOMAIN connected = Pipe /\ DOMAIN met = Pipe /\ DOMAIN as = Pipe
  /\ DOMAIN version = Pipe /\ DOMAIN early = Pipe /\ DOMAIN got = Pipe
  /\ DOMAIN stateful = Pipe /\ DOMAIN raced = Pipe

LEMMA TypeFacts ==
  ASSUME TypeOK
  PROVE  /\ Domains
         /\ \A p \in Pipe : connected[p] \in {0, 1, 2} /\ met[p] \in {0, 1, 2}
         /\ \A p \in Pipe : early[p] \in BOOLEAN /\ shut[p] \in BOOLEAN
<1>1. Domains
  BY DEF TypeOK, Domains
<1>2. connected \in [Pipe -> 0..2] /\ met \in [Pipe -> 0..2]
  BY DEF TypeOK
<1>3. \A p \in Pipe : connected[p] \in {0, 1, 2} /\ met[p] \in {0, 1, 2}
  BY <1>2
<1>4. \A p \in Pipe : early[p] \in BOOLEAN /\ shut[p] \in BOOLEAN
  BY DEF TypeOK
<1> QED
  BY <1>1, <1>3, <1>4

\* Every step preserves the handshake's invariant.
LEMMA NextHandshake == ASSUME TypeOK, HandshakeInv, [Next]_vars PROVE HandshakeInv'
<1> SUFFICES ASSUME NEW r \in Pipe
             PROVE  Handshake(r)' /\ CheckedReady(r)' /\ ~early'[r]
  BY DEF HandshakeInv
<1>0. /\ Handshake(r) /\ CheckedReady(r) /\ ~early[r]
      /\ Domains
      /\ \A p \in Pipe : connected[p] \in {0, 1, 2} /\ met[p] \in {0, 1, 2}
  BY TypeFacts DEF HandshakeInv
<1>p. /\ Other(r) \in Pipe /\ Other(r) # r /\ Other(Other(r)) = r
      /\ \A p \in Pipe : p = r \/ p = Other(r)
  BY PipeFacts
<1> USE <1>0, <1>p DEF wire, kept, Domains, Handshake, CheckedReady, Open, At, Goes
<1>1. ASSUME NEW p \in Pipe, Connect(p) PROVE Handshake(r)' /\ CheckedReady(r)' /\ ~early'[r]
  <2>1. /\ Outdated(p).at = net[Other(p)].at
        /\ At(Other(p), "send") => Outdated(p).old
    BY OutdatedFacts
  <2>2. CASE p = r
    BY <1>1, <2>1, <2>2 DEF Connect
  <2>3. CASE p = Other(r)
    BY <1>1, <2>1, <2>3 DEF Connect
  <2> QED
    BY <2>2, <2>3
<1>2. ASSUME NEW p \in Pipe, Refused(p) PROVE Handshake(r)' /\ CheckedReady(r)' /\ ~early'[r]
  BY <1>2 DEF Refused
<1>3. ASSUME NEW p \in Pipe, Break(p) PROVE Handshake(r)' /\ CheckedReady(r)' /\ ~early'[r]
  BY <1>3 DEF Break
<1>4. ASSUME NEW p \in Pipe, ReadEnd(p) PROVE Handshake(r)' /\ CheckedReady(r)' /\ ~early'[r]
  BY <1>4 DEF ReadEnd, Closed
<1>5. ASSUME NEW p \in Pipe, Reconnect(p) PROVE Handshake(r)' /\ CheckedReady(r)' /\ ~early'[r]
  BY <1>5 DEF Reconnect
<1>6. ASSUME NEW p \in Pipe, on_disconnect(p) PROVE Handshake(r)' /\ CheckedReady(r)' /\ ~early'[r]
  BY <1>6 DEF on_disconnect
<1>7. ASSUME NEW p \in Pipe, Start(p) PROVE Handshake(r)' /\ CheckedReady(r)' /\ ~early'[r]
  <2>1. CASE p = r
    <3>1. /\ net' = [net EXCEPT ![r] = [at |-> "read"]] /\ At(r, "start")
          /\ connected' = [connected EXCEPT ![r] = 0] /\ UNCHANGED <<connection, shut, early>>
      BY <1>7, <2>1 DEF Start
    <3>2. Open(r) => met'[r] = 1
      BY <1>7, <2>1 DEF Start
    <3> QED
      BY <3>1, <3>2
  <2>2. CASE p = Other(r)
    BY <1>7, <2>2 DEF Start
  <2> QED
    BY <2>1, <2>2
<1>8. ASSUME NEW p \in Pipe, ReadVersion(p) PROVE Handshake(r)' /\ CheckedReady(r)' /\ ~early'[r]
  <2>1. CASE p = r
    BY <1>8, <2>1 DEF ReadVersion, Read
  <2>2. CASE p = Other(r)
    BY <1>8, <2>2 DEF ReadVersion, Read
  <2> QED
    BY <2>1, <2>2
<1>9. ASSUME NEW p \in Pipe, ReadVerack(p) PROVE Handshake(r)' /\ CheckedReady(r)' /\ ~early'[r]
  BY <1>9 DEF ReadVerack, Read
<1>10. ASSUME NEW p \in Pipe, ReadOther(p) PROVE Handshake(r)' /\ CheckedReady(r)' /\ ~early'[r]
  BY <1>10 DEF ReadOther, Read
<1>11. ASSUME NEW p \in Pipe, ReadWrong(p) PROVE Handshake(r)' /\ CheckedReady(r)' /\ ~early'[r]
  BY <1>11 DEF ReadWrong, Closed
<1>12. ASSUME NEW p \in Pipe, Replay(p) PROVE Handshake(r)' /\ CheckedReady(r)' /\ ~early'[r]
  BY <1>12 DEF Replay
<1>13. ASSUME NEW p \in Pipe, Keep(p) PROVE Handshake(r)' /\ CheckedReady(r)' /\ ~early'[r]
  BY <1>13 DEF Keep
<1>14. ASSUME NEW p \in Pipe, Cut(p) PROVE Handshake(r)' /\ CheckedReady(r)' /\ ~early'[r]
  BY <1>14 DEF Cut
<1>15. ASSUME NEW p \in Pipe, Check(p) PROVE Handshake(r)' /\ CheckedReady(r)' /\ ~early'[r]
  BY <1>15 DEF Check
<1>16. ASSUME NEW p \in Pipe, Send(p) PROVE Handshake(r)' /\ CheckedReady(r)' /\ ~early'[r]
  <2>1. /\ At(p, "send") /\ net' = [net EXCEPT ![p] = [at |-> "record", m |-> net[p].m]]
        /\ UNCHANGED <<connection, shut, connected, met>>
    BY <1>16 DEF Send
  <2>2. Handshake(r)' /\ CheckedReady(r)'
    <3>1. CASE p = r
      BY <2>1, <3>1
    <3>2. CASE p = Other(r)
      BY <2>1, <3>2
    <3> QED
      BY <3>1, <3>2
  <2>3. CASE p = r
    <3>1. early' = [early EXCEPT ![Other(r)] = @ \/ (Open(Other(r)) /\ met[Other(r)] < 2 /\ ~net[r].old)]
      BY <1>16, <2>3 DEF Send
    <3> QED
      BY <2>2, <3>1
  <2>4. CASE p = Other(r)
    <3>1. early' = [early EXCEPT ![r] = @ \/ (Open(r) /\ met[r] < 2 /\ ~net[Other(r)].old)]
      BY <1>16, <2>4 DEF Send
    <3>2. early'[r] = (early[r] \/ (Open(r) /\ met[r] < 2 /\ ~net[Other(r)].old))
      BY <3>1
    <3>3. ~(Open(r) /\ met[r] < 2 /\ ~net[Other(r)].old)
      BY <1>16, <2>4 DEF Send
    <3> QED
      BY <2>2, <3>2, <3>3
  <2> QED
    BY <2>3, <2>4
<1>17. ASSUME NEW p \in Pipe, Record(p) PROVE Handshake(r)' /\ CheckedReady(r)' /\ ~early'[r]
  BY <1>17 DEF Record
<1>18. ASSUME NEW p \in Pipe, NodeHello(p) \/ NodeSays(p) \/ NodeErrs(p)
       PROVE  Handshake(r)' /\ CheckedReady(r)' /\ ~early'[r]
  BY <1>18 DEF NodeHello, NodeSays, NodeErrs, Says
<1>19. CASE UNCHANGED vars
  BY <1>19 DEF vars
<1> QED
  BY <1>1, <1>2, <1>3, <1>4, <1>5, <1>6, <1>7, <1>8, <1>9, <1>10, <1>11, <1>12, <1>13, <1>14,
     <1>15, <1>16, <1>17, <1>18, <1>19 DEF Next, Thread

\* A version that is kept is followed by Cut, and a connection starts with the version
\* that is kept.
LEMMA NextVersion ==
  ASSUME TypeOK, HandshakeInv, VersionCurrent, [Next]_vars
  PROVE  VersionCurrent'
<1> DEFINE Current(r) == Open(r) /\ met[r] >= 1 => as[r] = version[r] \/ At(Other(r), "cut")
<1> SUFFICES ASSUME NEW r \in Pipe PROVE Current(r)'
  BY DEF VersionCurrent
<1>0. /\ Handshake(r) /\ Current(r) /\ Domains
      /\ \A p \in Pipe : connected[p] \in {0, 1, 2} /\ met[p] \in {0, 1, 2}
  BY TypeFacts DEF HandshakeInv, VersionCurrent
<1>p. /\ Other(r) \in Pipe /\ Other(r) # r /\ Other(Other(r)) = r
      /\ \A p \in Pipe : p = r \/ p = Other(r)
  BY PipeFacts
<1> USE <1>0, <1>p DEF wire, kept, Domains, Handshake, Open, At, Goes
<1>1. ASSUME NEW p \in Pipe, Connect(p) PROVE Current(r)'
  <2>1. Outdated(p).at = net[Other(p)].at
    BY OutdatedFacts
  <2>2. CASE p = r
    BY <1>1, <2>1, <2>2 DEF Connect
  <2>3. CASE p = Other(r)
    BY <1>1, <2>1, <2>3 DEF Connect
  <2> QED
    BY <2>2, <2>3
<1>2. ASSUME NEW p \in Pipe, Refused(p) PROVE Current(r)'
  BY <1>2 DEF Refused
<1>3. ASSUME NEW p \in Pipe, Break(p) PROVE Current(r)'
  BY <1>3 DEF Break
<1>4. ASSUME NEW p \in Pipe, ReadEnd(p) PROVE Current(r)'
  BY <1>4 DEF ReadEnd, Closed
<1>5. ASSUME NEW p \in Pipe, Reconnect(p) PROVE Current(r)'
  BY <1>5 DEF Reconnect
<1>6. ASSUME NEW p \in Pipe, on_disconnect(p) PROVE Current(r)'
  BY <1>6 DEF on_disconnect
<1>7. ASSUME NEW p \in Pipe, Start(p) PROVE Current(r)'
  <2>1. CASE p = r
    BY <1>7, <2>1 DEF Start
  <2>2. CASE p = Other(r)
    BY <1>7, <2>2 DEF Start
  <2> QED
    BY <2>1, <2>2
<1>8. ASSUME NEW p \in Pipe, ReadVersion(p) PROVE Current(r)'
  <2>1. CASE p = r
    BY <1>8, <2>1 DEF ReadVersion, Read
  <2>2. CASE p = Other(r)
    BY <1>8, <2>2 DEF ReadVersion, Read
  <2> QED
    BY <2>1, <2>2
<1>9. ASSUME NEW p \in Pipe, ReadVerack(p) PROVE Current(r)'
  BY <1>9 DEF ReadVerack, Read
<1>10. ASSUME NEW p \in Pipe, ReadOther(p) PROVE Current(r)'
  BY <1>10 DEF ReadOther, Read
<1>11. ASSUME NEW p \in Pipe, ReadWrong(p) PROVE Current(r)'
  BY <1>11 DEF ReadWrong, Closed
<1>12. ASSUME NEW p \in Pipe, Replay(p) PROVE Current(r)'
  BY <1>12 DEF Replay
<1>13. ASSUME NEW p \in Pipe, Keep(p) PROVE Current(r)'
  <2>1. CASE p = r
    BY <1>13, <2>1 DEF Keep
  <2>2. CASE p = Other(r)
    <3>1. At(Other(r), "keep") /\ UNCHANGED <<connection, shut, met, as>>
      BY <1>13, <2>2 DEF Keep
    <3>2. CASE Differs(version[r], net[p].v)
      <4>1. net' = [net EXCEPT ![p] = [at |-> "cut"]]
        BY <1>13, <2>2, <3>2 DEF Keep
      <4>2. net'[Other(r)].at = "cut"
        BY <2>2, <4>1
      <4> QED
        BY <4>2
    <3>3. CASE ~Differs(version[r], net[p].v)
      BY <1>13, <2>2, <3>1, <3>3 DEF Keep
    <3> QED
      BY <3>2, <3>3
  <2> QED
    BY <2>1, <2>2
<1>14. ASSUME NEW p \in Pipe, Cut(p) PROVE Current(r)'
  <2>1. CASE p = r
    <3>1. shut'[r] = shut[r] /\ net'[Other(r)] = net[Other(r)]
      BY <1>14, <2>1 DEF Cut
    <3> QED
      BY <1>14, <3>1 DEF Cut
  <2>2. CASE p = Other(r)
    <3>1. connection' = connection /\ shut' = [shut EXCEPT ![r] = shut[r] \/ connection[r] = "up"]
      BY <1>14, <2>2 DEF Cut
    <3>2. ~Open(r)'
      BY <3>1
    <3> QED
      BY <3>2
  <2> QED
    BY <2>1, <2>2
<1>15. ASSUME NEW p \in Pipe, Check(p) PROVE Current(r)'
  BY <1>15 DEF Check
<1>16. ASSUME NEW p \in Pipe, Send(p) PROVE Current(r)'
  BY <1>16 DEF Send
<1>17. ASSUME NEW p \in Pipe, Record(p) PROVE Current(r)'
  BY <1>17 DEF Record
<1>18. ASSUME NEW p \in Pipe, NodeHello(p) \/ NodeSays(p) \/ NodeErrs(p) PROVE Current(r)'
  BY <1>18 DEF NodeHello, NodeSays, NodeErrs, Says
<1>19. CASE UNCHANGED vars
  BY <1>19 DEF vars
<1> QED
  BY <1>1, <1>2, <1>3, <1>4, <1>5, <1>6, <1>7, <1>8, <1>9, <1>10, <1>11, <1>12, <1>13, <1>14,
     <1>15, <1>16, <1>17, <1>18, <1>19 DEF Next, Thread

----------------------------------------------------------------------------
(***************************************************************************)
(* The kept messages.                                                      *)
(***************************************************************************)

\* A step that leaves alone what Kept says of a pipe, or takes its connection from it.
LeavesKept(r) ==
  /\ got'[r] = got[r] /\ stateful'[r] = stateful[r] /\ raced'[r] = raced[r]
  /\ Open(r)' => Open(r)
  /\ At(r, "replay")' <=> At(r, "replay")
  /\ At(r, "replay") => net'[r].done = net[r].done /\ connected'[r] = connected[r]
  /\ connected'[r] = 2 => connected[r] = 2
  /\ InPassing(r)' = InPassing(r)
  /\ At(Other(r), "record")' => At(Other(r), "record") /\ net'[Other(r)].m = net[Other(r)].m

LEMMA KeptFrame == ASSUME NEW r \in Pipe, Kept(r), LeavesKept(r) PROVE Kept(r)'
<1>1. Unraced(r)' = Unraced(r)
  BY DEF Unraced, LeavesKept
<1>2. ASSUME NEW k PROVE Replayed(r, k)' <=> Replayed(r, k)
  BY DEF LeavesKept, Replayed
<1>3. \A k \in Unraced(r)' : Open(r)' /\ stateful'[r][k] = 0 => got'[r][k] = 0
  BY <1>1 DEF Kept, LeavesKept
<1>4. \A k \in Unraced(r)' :
        Open(r)' /\ connected'[r] = 2 /\ Replayed(r, k)' => got'[r][k] = stateful'[r][k]
  BY <1>1, <1>2 DEF Kept, LeavesKept
<1>5. At(r, "replay")' => InPassing(r)' \subseteq raced'[r] /\ connected'[r] = 2
  BY DEF Kept, LeavesKept
<1>6. At(Other(r), "record")' /\ net'[Other(r)].m.key \notin raced'[r] \cup {0} /\ Open(r)' /\ connected'[r] = 2
        => got'[r][net'[Other(r)].m.key] = net'[Other(r)].m.value
  BY DEF Kept, LeavesKept
<1> QED
  BY <1>3, <1>4, <1>5, <1>6 DEF Kept

\* Every step preserves what is known of the kept messages.
LEMMA NextKept == ASSUME TypeOK, HandshakeInv, KeptInv, [Next]_vars PROVE KeptInv'
<1> SUFFICES ASSUME NEW r \in Pipe PROVE Kept(r)'
  BY DEF KeptInv
<1> DEFINE o == Other(r)
<1>0. Kept(r) /\ Handshake(r) /\ Domains
  BY TypeFacts DEF HandshakeInv, KeptInv
<1>p. /\ o \in Pipe /\ o # r /\ Other(o) = r
      /\ \A p \in Pipe : p = r \/ p = o
  BY PipeFacts
<1>m. /\ net[o].at \in {"check", "send", "record"} => net[o].m \in Said
      /\ net[r].at = "replay" => net[r].done \in Nat
  BY <1>p, StateShape DEF TypeOK
<1>v. /\ Key \subseteq Nat \ {0} /\ Value \subseteq Nat \ {0}
      /\ got[r] \in [Key -> Value \cup {0}] /\ stateful[r] \in [Key -> Value \cup {0}]
  BY PipeAssumption DEF TypeOK
<1>1. ASSUME NEW p \in Pipe, Connect(p) PROVE Kept(r)'
  <2>1. /\ Outdated(p).at = net[Other(p)].at
        /\ At(Other(p), "send") => Outdated(p).m = net[Other(p)].m
        /\ ~At(Other(p), "send") => Outdated(p) = net[Other(p)]
    BY OutdatedFacts
  <2>2. CASE p = r
    <3>1. /\ connected'[r] = 0 /\ net'[r].at = "start" /\ got'[r] = [k \in Key |-> 0]
      BY <1>0, <1>1, <2>2 DEF Connect, Handshake, Domains, kept
    <3> QED
      BY <3>1 DEF Kept, At, Unraced
  <2>3. CASE p = o
    <3>1. /\ net'[r] = Outdated(o) /\ net'[o] = [at |-> "start"]
          /\ UNCHANGED <<connected, kept>> /\ At(o, "connect")
          /\ connection'[r] = connection[r] /\ shut'[r] = shut[r]
          /\ got'[r] = got[r] /\ raced'[r] = raced[r]
      BY <1>0, <1>1, <1>p, <2>3 DEF Connect, Domains
    <3>2. At(r, "replay") => net'[r] = net[r]
      BY <1>p, <2>1, <2>3, <3>1 DEF At
    <3>3. LeavesKept(r)
      BY <1>p, <2>1, <2>3, <3>1, <3>2 DEF LeavesKept, At, Open, InPassing, kept
    <3> QED
      BY <1>0, <3>3, KeptFrame
  <2> QED
    BY <1>p, <2>2, <2>3
<1>2. ASSUME NEW p \in Pipe, \/ Refused(p) \/ Break(p) \/ ReadEnd(p) \/ Reconnect(p)
                            \/ on_disconnect(p) \/ Start(p) \/ ReadVersion(p)
                            \/ ReadOther(p) \/ ReadWrong(p) \/ Keep(p)
      PROVE  LeavesKept(r)
  <2> USE <1>0, <1>p DEF LeavesKept, At, Open, InPassing, Goes, Domains, wire, kept
  <2>1. CASE Refused(p)
    BY <2>1 DEF Refused
  <2>2. CASE Break(p)
    BY <2>2 DEF Break
  <2>3. CASE ReadEnd(p)
    BY <2>3 DEF ReadEnd, Closed
  <2>4. CASE Reconnect(p)
    BY <2>4 DEF Reconnect
  <2>5. CASE on_disconnect(p)
    BY <2>5 DEF on_disconnect
  <2>6. CASE Start(p)
    BY <2>6 DEF Start
  <2>7. CASE ReadVersion(p)
    <3>1. /\ net' = [net EXCEPT ![p] = [at |-> "keep", v |-> Head(in[p]).v]] /\ At(p, "read")
          /\ connected' = [connected EXCEPT ![p] = 1]
          /\ UNCHANGED <<connection, shut, got, stateful, raced>>
      BY <2>7 DEF ReadVersion, Read
    <3> QED
      BY <3>1
  <2>8. CASE ReadOther(p)
    BY <2>8 DEF ReadOther, Read
  <2>9. CASE ReadWrong(p)
    BY <2>9 DEF ReadWrong, Closed
  <2>10. CASE Keep(p)
    BY <2>10 DEF Keep
  <2> QED
    BY <1>2, <2>1, <2>2, <2>3, <2>4, <2>5, <2>6, <2>7, <2>8, <2>9, <2>10
<1>3. ASSUME NEW p \in Pipe, ReadVerack(p) PROVE Kept(r)'
  <2>1. /\ net' = [net EXCEPT ![p] = [at |-> "replay", done |-> 0]] /\ At(p, "read")
        /\ raced' = [raced EXCEPT ![p] = raced[p] \cup InPassing(p)]
        /\ connected' = [connected EXCEPT ![p] = 2]
        /\ UNCHANGED <<connection, shut, got, stateful>>
    BY <1>3 DEF ReadVerack, Read, kept
  <2>2. CASE p = o
    <3>1. LeavesKept(r)
      BY <1>0, <1>p, <2>1, <2>2 DEF LeavesKept, At, Open, InPassing, Domains
    <3> QED
      BY <1>0, <3>1, KeptFrame
  <2>3. CASE p = r
    <3>1. /\ net'[o] = net[o] /\ InPassing(r)' = InPassing(r) /\ raced'[r] = raced[r] \cup InPassing(r)
          /\ net'[r].at = "replay" /\ net'[r].done = 0 /\ connected'[r] = 2
      BY <1>0, <1>p, <2>1, <2>3 DEF InPassing, Domains
    <3>2. Open(r)' <=> Open(r)
      BY <2>1 DEF Open
    <3>3. \A k \in Unraced(r)' : k \in Unraced(r) /\ k \in Key /\ ~(k <= 0)
      BY <1>v, <3>1 DEF Unraced
    <3>4. \A k \in Unraced(r)' : Open(r)' /\ stateful'[r][k] = 0 => got'[r][k] = 0
      BY <1>0, <2>1, <3>2, <3>3 DEF Kept
    <3>5. \A k \in Unraced(r)' : ~Replayed(r, k)'
      BY <3>1, <3>3 DEF Replayed, At
    <3>6. At(o, "record") => net[o].m.key \in raced'[r] \cup {0}
      BY <3>1 DEF InPassing, At
    <3> QED
      BY <3>1, <3>4, <3>5, <3>6 DEF Kept, At
  <2> QED
    BY <1>p, <2>2, <2>3
<1>4. ASSUME NEW p \in Pipe, Replay(p) PROVE Kept(r)'
  <2>0. At(p, "replay") /\ UNCHANGED <<connection, shut, connected, stateful, raced>>
    BY <1>4 DEF Replay, kept
  <2>1. CASE p = o
    <3>1. got'[r] = got[r] /\ net'[r] = net[r] /\ net'[o].at \in {"read", "replay"}
      BY <1>0, <1>4, <1>p, <2>1 DEF Replay, Goes, Sent, Domains
    <3>2. LeavesKept(r)
      BY <1>0, <1>p, <2>0, <2>1, <3>1 DEF LeavesKept, At, Open, InPassing
    <3> QED
      BY <1>0, <3>2, KeptFrame
  <2>2. CASE p = r
    <3>0. /\ net[r].done \in Nat /\ connected[r] = 2 /\ InPassing(r) \subseteq raced[r]
          /\ Open(r)' <=> Open(r)
      BY <1>0, <1>m, <2>0, <2>2 DEF Kept, At, Open
    <3>1. net'[o] = net[o] /\ InPassing(r)' = InPassing(r)
      BY <1>0, <1>4, <1>p, <2>2 DEF Replay, Goes, InPassing, Domains
    <3>2. Unraced(r)' = Unraced(r) /\ Unraced(r) \subseteq Key
      BY <2>0, <3>1 DEF Unraced
    <3>3. At(o, "record") => net[o].m.key \in raced[r] \cup {0}
      BY <3>0 DEF InPassing, At
    <3>4. CASE Rest(r) = {} /\ Goes(r, "read") /\ UNCHANGED got
      <4>1. net'[r].at = "read"
        BY <1>0, <3>4 DEF Goes, Domains
      <4>2. \A k \in Unraced(r) : Open(r) => got[r][k] = stateful[r][k]
        <5>1. SUFFICES ASSUME NEW k \in Unraced(r), Open(r) PROVE got[r][k] = stateful[r][k]
          OBVIOUS
        <5>2. k \in Key /\ k \in Nat /\ k \notin Rest(r)
          BY <1>v, <3>2, <3>4
        <5>3. CASE stateful[r][k] = 0
          BY <1>0, <5>1, <5>3 DEF Kept
        <5>4. CASE k <= net[r].done
          BY <1>0, <3>0, <5>1, <5>4 DEF Kept, Replayed
        <5> QED
          BY <3>0, <5>2, <5>3, <5>4 DEF Rest
      <4> QED
        BY <1>0, <2>0, <3>0, <3>1, <3>2, <3>3, <3>4, <4>1, <4>2 DEF Kept, At
    <3>5. CASE \E k \in Rest(r) : /\ \A j \in Rest(r) : k <= j
                                  /\ net' = [net EXCEPT ![r] = [at |-> "replay", done |-> k]]
                                  /\ got' = Sent(r, k, stateful[r][k])
      <4>1. PICK k \in Rest(r) : /\ \A j \in Rest(r) : k <= j
                                 /\ net' = [net EXCEPT ![r] = [at |-> "replay", done |-> k]]
                                 /\ got' = Sent(r, k, stateful[r][k])
        BY <3>5
      <4>2. k \in Key /\ k \in Nat /\ k # 0 /\ stateful[r][k] # 0 /\ k > net[r].done
        BY <1>v DEF Rest
      <4>3. net'[r].at = "replay" /\ net'[r].done = k
        BY <1>0, <4>1 DEF Domains
      <4>4. Open(r) => got'[r] = [got[r] EXCEPT ![k] = stateful[r][k]]
        BY <1>0, <3>0, <4>1, <4>2 DEF Sent, Handshake, Domains
      <4>5. \A j \in Unraced(r) : Open(r) /\ stateful[r][j] = 0 => got'[r][j] = 0
        BY <1>0, <1>v, <3>2, <4>2, <4>4 DEF Kept
      <4>6. \A j \in Unraced(r) : Open(r) /\ j <= k => got'[r][j] = stateful[r][j]
        <5>1. SUFFICES ASSUME NEW j \in Unraced(r), Open(r), j <= k
                       PROVE  got'[r][j] = stateful[r][j]
          OBVIOUS
        <5>2. j \in Key /\ j \in Nat
          BY <1>v, <3>2
        <5>3. CASE j = k
          BY <1>v, <4>2, <4>4, <5>1, <5>3
        <5>4. CASE j # k /\ j <= net[r].done
          BY <1>0, <1>v, <3>0, <4>4, <5>1, <5>2, <5>4 DEF Kept, Replayed
        <5>5. CASE j # k /\ ~(j <= net[r].done)
          <6>1. j \notin Rest(r)
            BY <4>1, <4>2, <5>1, <5>2, <5>5
          <6>2. stateful[r][j] = 0
            BY <3>0, <5>2, <5>5, <6>1 DEF Rest
          <6> QED
            BY <4>5, <5>1, <6>2
        <5> QED
          BY <5>3, <5>4, <5>5
      <4> QED
        BY <2>0, <3>0, <3>1, <3>2, <3>3, <4>3, <4>5, <4>6 DEF Kept, At, Replayed
    <3> QED
      BY <1>4, <2>2, <3>4, <3>5 DEF Replay
  <2> QED
    BY <1>p, <2>1, <2>2
<1>5. ASSUME NEW p \in Pipe, Cut(p) PROVE LeavesKept(r)
  <2>1. /\ net' = [net EXCEPT ![p] = [at |-> "read"]] /\ At(p, "cut")
        /\ UNCHANGED <<connection, got, stateful, raced, connected>>
    BY <1>5 DEF Cut, Goes, kept
  <2>2. Open(r)' => Open(r)
    <3>1. CASE p = o
      BY <1>0, <1>5, <1>p, <3>1 DEF Cut, Open, Domains
    <3>2. CASE p = r
      BY <1>0, <1>5, <1>p, <3>2 DEF Cut, Open, Domains
    <3> QED
      BY <1>p, <3>1, <3>2
  <2> QED
    BY <1>0, <1>p, <2>1, <2>2 DEF LeavesKept, At, InPassing, Domains
<1>6. ASSUME NEW p \in Pipe, Check(p) PROVE Kept(r)'
  <2>0. At(p, "check") /\ UNCHANGED <<connection, shut, got, stateful, connected>>
    BY <1>6 DEF Check, wire, kept
  <2>1. CASE p = r
    <3>1. raced'[r] = raced[r] /\ net'[o] = net[o] /\ net'[r].at \in {"send", "record"}
      BY <1>0, <1>6, <1>p, <2>1 DEF Check, Domains
    <3>2. LeavesKept(r)
      BY <2>0, <2>1, <3>1 DEF LeavesKept, At, Open, InPassing
    <3> QED
      BY <1>0, <3>2, KeptFrame
  <2>2. CASE p = o
    <3> DEFINE key == net[o].m.key
    <3>1. /\ net'[r] = net[r] /\ net'[o].m = net[o].m
          /\ net'[o].at \in {"send", "record"}
          /\ net'[o].at = "record" => connected[r] # 2
      BY <1>0, <1>6, <1>p, <2>2 DEF Check, Domains
    <3>2. InPassing(r) = {} /\ InPassing(r)' = {key} \ {0}
      BY <2>0, <2>2, <3>1 DEF InPassing, At
    <3>3. /\ raced'[r] \subseteq raced[r] \cup ({key} \ {0}) /\ raced[r] \subseteq raced'[r]
          /\ At(r, "replay") => {key} \ {0} \subseteq raced'[r]
      BY <1>0, <1>6, <1>p, <2>2 DEF Check, At, Domains
    <3>4. Unraced(r)' \subseteq Unraced(r)
      BY <3>2, <3>3 DEF Unraced
    <3>5. \A k \in Unraced(r)' : Open(r)' /\ stateful'[r][k] = 0 => got'[r][k] = 0
      BY <1>0, <2>0, <3>4 DEF Kept, Open
    <3>6. \A k \in Unraced(r)' :
            Open(r)' /\ connected'[r] = 2 /\ Replayed(r, k)' => got'[r][k] = stateful'[r][k]
      BY <1>0, <2>0, <3>1, <3>4 DEF Kept, Open, Replayed, At
    <3>7. At(r, "replay")' => InPassing(r)' \subseteq raced'[r] /\ connected'[r] = 2
      BY <1>0, <2>0, <3>1, <3>2, <3>3 DEF Kept, At
    <3>8. ~(At(o, "record")' /\ connected'[r] = 2)
      BY <2>0, <3>1 DEF At
    <3> QED
      BY <3>5, <3>6, <3>7, <3>8 DEF Kept
  <2> QED
    BY <1>p, <2>1, <2>2
<1>7. ASSUME NEW p \in Pipe, Send(p) PROVE Kept(r)'
  <2>0. /\ At(p, "send") /\ UNCHANGED <<connection, shut, stateful, connected, raced, met>>
        /\ net' = [net EXCEPT ![p] = [at |-> "record", m |-> net[p].m]]
        /\ got' = Sent(Other(p), net[p].m.key, net[p].m.value)
    BY <1>7 DEF Send, kept
  <2>1. CASE p = r
    <3>1. got'[r] = got[r] /\ net'[o] = net[o] /\ net'[r].at = "record"
      BY <1>0, <1>p, <2>0, <2>1 DEF Sent, Domains
    <3>2. LeavesKept(r)
      BY <2>0, <2>1, <3>1 DEF LeavesKept, At, Open, InPassing
    <3> QED
      BY <1>0, <3>2, KeptFrame
  <2>2. CASE p = o
    <3> DEFINE m == net[o].m
    <3>1. net'[r] = net[r] /\ net'[o].m = m /\ net'[o].at = "record" /\ m \in Said
      BY <1>0, <1>m, <1>p, <2>0, <2>2 DEF Domains, At
    <3>2. InPassing(r)' = InPassing(r) /\ InPassing(r) = {m.key} \ {0}
      BY <2>0, <2>2, <3>1 DEF InPassing, At
    <3>3. Unraced(r)' = Unraced(r) /\ \A k \in Unraced(r) : k # m.key /\ k \in Key
      BY <1>v, <2>0, <3>2 DEF Unraced
    <3>4. m.key = 0 \/ m.key \in Key
      BY <3>1, SaidFacts
    <3>5. \A k \in Unraced(r) : got'[r][k] = got[r][k]
      BY <1>0, <1>p, <1>v, <2>0, <2>2, <3>3, <3>4 DEF Sent, Domains
    <3>6. Open(r) /\ connected[r] = 2 /\ m.key # 0 => got'[r][m.key] = m.value
      <4>1. SUFFICES ASSUME Open(r), connected[r] = 2, m.key # 0 PROVE got'[r][m.key] = m.value
        OBVIOUS
      <4>2. met[r] = 2
        BY <1>0, <4>1 DEF Handshake
      <4>3. got' = [got EXCEPT ![r][m.key] = m.value]
        BY <1>p, <2>0, <2>2, <4>1, <4>2 DEF Sent
      <4> QED
        BY <1>0, <1>v, <3>4, <4>1, <4>3 DEF Domains
    <3>7. \A k \in Unraced(r)' : Open(r)' /\ stateful'[r][k] = 0 => got'[r][k] = 0
      BY <1>0, <2>0, <3>3, <3>5 DEF Kept, Open
    <3>8. \A k \in Unraced(r)' :
            Open(r)' /\ connected'[r] = 2 /\ Replayed(r, k)' => got'[r][k] = stateful'[r][k]
      BY <1>0, <2>0, <3>1, <3>3, <3>5 DEF Kept, Open, Replayed, At
    <3>9. At(r, "replay")' => InPassing(r)' \subseteq raced'[r] /\ connected'[r] = 2
      BY <1>0, <2>0, <3>1, <3>2 DEF Kept, At
    <3> QED
      BY <2>0, <3>1, <3>6, <3>7, <3>8, <3>9 DEF Kept, Open
  <2> QED
    BY <1>p, <2>1, <2>2
<1>8. ASSUME NEW p \in Pipe, Record(p) PROVE Kept(r)'
  <2>0. /\ At(p, "record") /\ net' = [net EXCEPT ![p] = [at |-> "read"]]
        /\ UNCHANGED <<connection, shut, got, connected, raced, met>>
    BY <1>8 DEF Record, Goes, wire
  <2>1. CASE p = r
    <3>1. stateful'[r] = stateful[r] /\ net'[o] = net[o] /\ net'[r].at = "read"
      BY <1>0, <1>8, <1>p, <2>0, <2>1 DEF Record, Domains
    <3>2. LeavesKept(r)
      BY <2>0, <2>1, <3>1 DEF LeavesKept, At, Open, InPassing
    <3> QED
      BY <1>0, <3>2, KeptFrame
  <2>2. CASE p = o
    <3> DEFINE m == net[o].m
    <3>1. net'[r] = net[r] /\ net'[o].at = "read" /\ m \in Said
      BY <1>0, <1>m, <1>p, <2>0, <2>2 DEF Domains, At
    <3>2. InPassing(r)' = {} /\ InPassing(r) = {m.key} \ {0}
      BY <2>0, <2>2, <3>1 DEF InPassing, At
    <3>3. \/ m.key = 0
          \/ m.key \in Key /\ m.value \in Value /\ m.key # 0 /\ m.value # 0
      BY <1>v, <3>1, SaidFacts
    <3>4. stateful'[r] = IF m.key = 0 THEN stateful[r] ELSE [stateful[r] EXCEPT ![m.key] = m.value]
      BY <1>0, <1>8, <1>p, <2>2 DEF Record, Domains
    <3>5. \A k \in Unraced(r)' : /\ k \in Key
                                 /\ k # m.key => k \in Unraced(r) /\ stateful'[r][k] = stateful[r][k]
                                 /\ k = m.key => k \notin raced[r] /\ stateful'[r][k] = m.value /\ m.value # 0
      BY <1>v, <2>0, <3>2, <3>3, <3>4 DEF Unraced
    <3>6. \A k \in Unraced(r)' : Open(r)' /\ stateful'[r][k] = 0 => got'[r][k] = 0
      BY <1>0, <2>0, <3>5 DEF Kept, Open
    <3>7. ASSUME NEW k \in Unraced(r)', Open(r)', connected'[r] = 2, Replayed(r, k)'
          PROVE  got'[r][k] = stateful'[r][k]
      <4>1. CASE k = m.key
        BY <1>0, <1>v, <2>0, <2>2, <3>5, <3>7, <4>1 DEF Kept, Open, At
      <4>2. CASE k # m.key
        BY <1>0, <2>0, <3>1, <3>5, <3>7, <4>2 DEF Kept, Open, Replayed, At
      <4> QED
        BY <4>1, <4>2
    <3>8. At(r, "replay")' => InPassing(r)' \subseteq raced'[r] /\ connected'[r] = 2
      BY <1>0, <2>0, <3>1, <3>2 DEF Kept, At
    <3> QED
      BY <3>1, <3>6, <3>7, <3>8 DEF Kept, At
  <2> QED
    BY <1>p, <2>1, <2>2
<1>9. ASSUME NEW p \in Pipe, NodeHello(p) \/ NodeSays(p) \/ NodeErrs(p) PROVE LeavesKept(r)
  BY <1>9 DEF NodeHello, NodeSays, NodeErrs, Says, LeavesKept, At, Open, InPassing, kept
<1>10. ASSUME UNCHANGED vars PROVE LeavesKept(r)
  BY <1>10 DEF vars, wire, kept, LeavesKept, At, Open, InPassing
<1> QED
  BY <1>0, <1>1, <1>2, <1>3, <1>4, <1>5, <1>6, <1>7, <1>8, <1>9, <1>10, KeptFrame DEF Next, Thread

----------------------------------------------------------------------------

\* The inductive invariant.
IndInv == TypeOK /\ HandshakeInv /\ VersionCurrent /\ KeptInv

LEMMA InitInv == ASSUME Init PROVE IndInv
<1>1. TypeOK
  BY InitType
<1>2. \A p \in Pipe : /\ connected[p] = 0 /\ met[p] = 0 /\ ~early[p] /\ connection[p] = "none"
                      /\ net[p].at = "connect"
  BY DEF Init
<1>3. \A p \in Pipe : ~Open(p) /\ net[Other(p)].at = "connect"
  BY <1>2, PipeFacts DEF Open
<1>4. HandshakeInv
  BY <1>2, <1>3 DEF HandshakeInv, Handshake, CheckedReady, At
<1>5. VersionCurrent
  BY <1>3 DEF VersionCurrent
<1>6. KeptInv
  BY <1>2, <1>3 DEF KeptInv, Kept, At
<1> QED
  BY <1>1, <1>4, <1>5, <1>6 DEF IndInv

LEMMA Invariance == Spec => []IndInv
<1>1. Init => IndInv
  BY InitInv
<1>2. IndInv /\ [Next]_vars => IndInv'
  BY NextType, NextHandshake, NextVersion, NextKept DEF IndInv
<1> QED
  BY <1>1, <1>2, PTL DEF Spec

\* Types hold: in particular a thread always has the message its place speaks of.
THEOREM BentPipeTypes == Spec => []TypeOK
<1>1. IndInv => TypeOK
  BY DEF IndInv
<1> QED
  BY <1>1, Invariance, PTL

\* An open connection introduced itself with the version that is kept for it, or is
\* about to be disconnected for it (p2ppipe.cpp:57-58 against 88-103).
THEOREM IntroducedAsKept == Spec => []VersionCurrent
<1>1. IndInv => VersionCurrent
  BY DEF IndInv
<1> QED
  BY <1>1, Invariance, PTL

\* Nothing precedes the handshake, but what a thread sends that checked an earlier
\* connection (p2ppipe.cpp:63-64).
THEOREM NothingBeforeHandshake == Spec => []HandshakeFirst
<1>1. IndInv => HandshakeFirst
  BY DEF IndInv, HandshakeInv, HandshakeFirst
<1> QED
  BY <1>1, Invariance, PTL

\* A bitcoind has the last word of every kept message that was not passed on just when
\* its handshake ended (p2ppipe.cpp:63-76 against 170-179).
THEOREM KeptAreDelivered == Spec => []KeptDelivered
<1>1. ASSUME IndInv PROVE KeptDelivered
  BY <1>1 DEF IndInv, KeptInv, Kept, KeptDelivered, Unraced, Replayed
<1> QED
  BY <1>1, Invariance, PTL
=============================================================================
