------------------------------ MODULE BentPipe ------------------------------
(***************************************************************************)
(* P2PPipe and the bent pipe (p2ppipe.cpp, p2p-bent-pipe.cpp): two         *)
(* outbound connections, each to a bitcoind, where the thread of each      *)
(* passes what it reads to the other one's send_hashed_message.  Each      *)
(* bitcoind is to meet the version of the other one: a version that comes  *)
(* too late for that is kept, and the connection made again.  Messages     *)
(* that change what a peer sends from then on (sendheaders, feefilter,     *)
(* sendcmpct) are kept too, and sent again on a new connection.            *)
(*                                                                         *)
(* The two threads share connected and the map of kept messages, which has *)
(* no lock; an operation on the map is atomic here, and the iteration over *)
(* it one step per entry.  Pings are in Keepalive.                         *)
(***************************************************************************)
EXTENDS Integers, Sequences

CONSTANTS Key,         \* the messages that are kept, in the order of the map
          Value,       \* what such a message may say
          Version,     \* the versions the bitcoind of each pipe may have, in so far as
                       \* send_hashed_message compares them
          Generated,   \* what generate_version returns
          Chatter,     \* what the bitcoind of each pipe may say after the handshake
          MaxSays,     \* bound of the model: messages of a bitcoind per connection
          MaxFaults    \* bound of the model: connections refused or broken, messages out
                       \* of turn and new versions of a bitcoind

Pipe == {1, 2}

\* The pipe whose send_hashed_message is a pipe's provide_msg.
Other(p) == 3 - p

\* A message with key 0 is one that is not kept.
Said == [kind : {"msg"}, key : Key, value : Value] \cup [kind : {"msg"}, key : {0}, value : {0}]

ASSUME PipeAssumption ==
  /\ Key \subseteq Nat \ {0} /\ Value \subseteq Nat \ {0}
  /\ \A p \in Pipe : Version[p] # {} /\ Generated \notin Version[p]
  /\ \A p \in Pipe : Chatter[p] \subseteq Said
  /\ MaxSays \in Nat /\ MaxFaults \in Nat

VARIABLES
  connection,    \* "none", "up", or "dead" before the pointer is cleared
  shut,          \* it was disconnected from outside, or broke
  connected,
  version,       \* statefulMessagesSent["version"]; Generated if there is none
  stateful,      \* its other entries; 0 if there is none
  net,           \* where the pipe's thread is, with the message it is passing on
  in,            \* what the bitcoind has sent and the thread not read
  said,          \* how many of these came after the handshake
  nodeVersion,   \* the version of the bitcoind
  met,           \* the handshake's messages the bitcoind was sent: 0, 1 or 2
  as,            \* and the version it was sent
  got,           \* what each kept message said when the bitcoind was last sent it
  faults,
  early,         \* history: messages the bitcoind was sent before the verack, other than
                 \* by a thread that checked an earlier connection
  raced          \* history: kept messages passed to the pipe while a handshake ended

wire == <<connection, shut, in, said, met, as, got>>
kept == <<version, stateful>>
vars == <<wire, connected, kept, net, nodeVersion, faults, early, raced>>

At(p, what) == net[p].at = what

Goes(p, what) == net' = [net EXCEPT ![p] = [at |-> what]]

Fault == faults < MaxFaults /\ faults' = faults + 1

Init ==
  /\ connection = [p \in Pipe |-> "none"] /\ shut = [p \in Pipe |-> FALSE]
  /\ connected = [p \in Pipe |-> 0]
  /\ version = [p \in Pipe |-> Generated]
  /\ stateful = [p \in Pipe |-> [k \in Key |-> 0]]
  /\ net = [p \in Pipe |-> [at |-> "connect"]]
  /\ in = [p \in Pipe |-> <<>>] /\ said = [p \in Pipe |-> 0]
  /\ nodeVersion = [p \in Pipe |-> CHOOSE v \in Version[p] : TRUE]
  /\ met = [p \in Pipe |-> 0] /\ as = [p \in Pipe |-> Generated]
  /\ got = [p \in Pipe |-> [k \in Key |-> 0]]
  /\ faults = 0
  /\ early = [p \in Pipe |-> FALSE] /\ raced = [p \in Pipe |-> {}]

----------------------------------------------------------------------------
(***************************************************************************)
(* The connection.                                                         *)
(***************************************************************************)

\* A thread about to send to p found the last connection ready, not this one.
Outdated(p) == LET o == Other(p) IN
  IF At(o, "send") THEN [at |-> "send", m |-> net[o].m, old |-> TRUE] ELSE net[o]

\* do_connect succeeds; the bitcoind may have another version by now.
Connect(p) ==
  /\ At(p, "connect")
  /\ net' = [q \in Pipe |-> IF q = p THEN [at |-> "start"] ELSE Outdated(p)]
  /\ \/ UNCHANGED <<nodeVersion, faults>>
     \/ /\ Fault
        /\ \E v \in Version[p] \ {nodeVersion[p]} : nodeVersion' = [nodeVersion EXCEPT ![p] = v]
  /\ connection' = [connection EXCEPT ![p] = "up"] /\ shut' = [shut EXCEPT ![p] = FALSE]
  /\ in' = [in EXCEPT ![p] = <<>>] /\ said' = [said EXCEPT ![p] = 0]
  /\ met' = [met EXCEPT ![p] = 0] /\ as' = [as EXCEPT ![p] = Generated]
  /\ got' = [got EXCEPT ![p] = [k \in Key |-> 0]]
  /\ early' = [early EXCEPT ![p] = FALSE] /\ raced' = [raced EXCEPT ![p] = {}]
  /\ UNCHANGED <<connected, kept>>

\* It fails: reconnect runs without an old connection.
Refused(p) ==
  /\ At(p, "connect") /\ Fault
  /\ Goes(p, "swapped")
  /\ UNCHANGED <<wire, connected, kept, nodeVersion, early, raced>>

\* The bitcoind is gone; whoever sends does not notice.
Break(p) ==
  /\ connection[p] = "up" /\ ~shut[p] /\ Fault
  /\ shut' = [shut EXCEPT ![p] = TRUE]
  /\ UNCHANGED <<connection, in, said, met, as, got, connected, kept, net, nodeVersion, early, raced>>

\* The thread returns from net_process and disconnect runs to its end.
Closed(p) == /\ Goes(p, "closed")
             /\ connection' = [connection EXCEPT ![p] = "dead"]
             /\ in' = [in EXCEPT ![p] = <<>>]

\* It reads the end of the connection.
ReadEnd(p) ==
  /\ At(p, "read") /\ shut[p]
  /\ Closed(p)
  /\ UNCHANGED <<shut, said, met, as, got, connected, kept, nodeVersion, faults, early, raced>>

\* reconnect clears the pointer and calls on_disconnect.
Reconnect(p) ==
  /\ At(p, "closed") /\ Goes(p, "swapped")
  /\ connection' = [connection EXCEPT ![p] = "none"]
  /\ UNCHANGED <<shut, in, said, met, as, got, connected, kept, nodeVersion, faults, early, raced>>

\* Mutant of on_disconnect: connected is left to the next net_process.
on_disconnectMutant(p) ==
  /\ At(p, "swapped") /\ Goes(p, "connect")
  /\ UNCHANGED <<wire, connected, kept, nodeVersion, faults, early, raced>>

on_disconnect(p) ==
  /\ At(p, "swapped") /\ Goes(p, "connect")
  /\ connected' = [connected EXCEPT ![p] = 0]
  /\ UNCHANGED <<wire, kept, nodeVersion, faults, early, raced>>

----------------------------------------------------------------------------
(***************************************************************************)
(* net_process.                                                            *)
(***************************************************************************)
Open(p) == connection[p] = "up" /\ ~shut[p]

\* It begins with the version that is kept, or one of its own.
Start(p) ==
  /\ At(p, "start") /\ Goes(p, "read")
  /\ connected' = [connected EXCEPT ![p] = 0]
  /\ IF Open(p) THEN /\ met' = [met EXCEPT ![p] = 1] /\ as' = [as EXCEPT ![p] = version[p]]
                ELSE UNCHANGED <<met, as>>
  /\ UNCHANGED <<connection, shut, in, said, got, kept, nodeVersion, faults, early, raced>>

\* The thread takes the next message from its connection.
Read(p, kind) ==
  /\ At(p, "read") /\ in[p] # <<>> /\ Head(in[p]).kind = kind
  /\ in' = [in EXCEPT ![p] = Tail(@)]

\* version: a verack goes back, and the message to the other pipe.
ReadVersion(p) ==
  /\ Read(p, "version") /\ connected[p] = 0
  /\ connected' = [connected EXCEPT ![p] = 1]
  /\ met' = IF Open(p) THEN [met EXCEPT ![p] = 2] ELSE met
  /\ net' = [net EXCEPT ![p] = [at |-> "keep", v |-> Head(in[p]).v]]
  /\ UNCHANGED <<connection, shut, said, as, got, kept, nodeVersion, faults, early, raced>>

\* The message the other pipe's thread is sending or recording, for the history.
InPassing(p) == LET q == Other(p) IN
  IF net[q].at \in {"send", "record"} THEN {net[q].m.key} \ {0} ELSE {}

\* verack: the kept messages are next.
ReadVerack(p) ==
  /\ Read(p, "verack") /\ connected[p] = 1
  /\ connected' = [connected EXCEPT ![p] = 2]
  /\ net' = [net EXCEPT ![p] = [at |-> "replay", done |-> 0]]
  /\ raced' = [raced EXCEPT ![p] = @ \cup InPassing(p)]
  /\ UNCHANGED <<connection, shut, said, met, as, got, kept, nodeVersion, faults, early>>

\* Anything else goes to the other pipe.
ReadOther(p) ==
  /\ Read(p, "msg") /\ connected[p] = 2
  /\ net' = [net EXCEPT ![p] = [at |-> "check", m |-> Head(in[p])]]
  /\ UNCHANGED <<connection, shut, said, met, as, got, connected, kept, nodeVersion, faults, early, raced>>

\* A message out of turn, or one that is not well formed.
ReadWrong(p) ==
  /\ At(p, "read") /\ in[p] # <<>>
  /\ connected[p] # CASE Head(in[p]).kind = "version" -> 0
                      [] Head(in[p]).kind = "verack"  -> 1
                      [] Head(in[p]).kind = "msg"     -> 2
                      [] Head(in[p]).kind = "bad"     -> -1
  /\ Closed(p)
  /\ UNCHANGED <<shut, said, met, as, got, connected, kept, nodeVersion, faults, early, raced>>

\* Kept messages that are still to be sent again, and what sending one to a bitcoind does.
Rest(p) == {k \in Key : stateful[p][k] # 0 /\ k > net[p].done}

Sent(p, k, value) == IF Open(p) /\ k # 0 /\ met[p] = 2 THEN [got EXCEPT ![p][k] = value] ELSE got

Replay(p) ==
  /\ At(p, "replay")
  /\ \/ Rest(p) = {} /\ Goes(p, "read") /\ UNCHANGED got
     \/ \E k \in Rest(p) : /\ \A j \in Rest(p) : k <= j
                           /\ net' = [net EXCEPT ![p] = [at |-> "replay", done |-> k]]
                           /\ got' = Sent(p, k, stateful[p][k])
  /\ UNCHANGED <<connection, shut, in, said, met, as, connected, kept, nodeVersion, faults, early, raced>>

----------------------------------------------------------------------------
(***************************************************************************)
(* send_hashed_message of the other pipe, on this pipe's thread.           *)
(***************************************************************************)

\* No version is kept, or one that differs in what is compared.
Differs(old, new) == old # new

Keep(p) ==
  LET q == Other(p) IN
  /\ At(p, "keep")
  /\ IF Differs(version[q], net[p].v)
     THEN Goes(p, "cut") /\ version' = [version EXCEPT ![q] = net[p].v]
     ELSE Goes(p, "read") /\ UNCHANGED version
  /\ UNCHANGED <<wire, connected, stateful, nodeVersion, faults, early, raced>>

\* Mutant of Cut: the connection is left as it is.
CutMutant(p) ==
  /\ At(p, "cut") /\ Goes(p, "read")
  /\ UNCHANGED <<wire, connected, kept, nodeVersion, faults, early, raced>>

\* disconnect_from_outside("new outbound version")
Cut(p) ==
  LET q == Other(p) IN
  /\ At(p, "cut") /\ Goes(p, "read")
  /\ shut' = [shut EXCEPT ![q] = @ \/ connection[q] = "up"]
  /\ UNCHANGED <<connection, in, said, met, as, got, connected, kept, nodeVersion, faults, early, raced>>

\* is_connected
Check(p) ==
  LET q == Other(p) IN
  /\ At(p, "check")
  /\ net' = [net EXCEPT ![p] = IF connected[q] = 2
                               THEN [at |-> "send", m |-> net[p].m, old |-> FALSE]
                               ELSE [at |-> "record", m |-> net[p].m]]
  /\ raced' = IF At(q, "replay") THEN [raced EXCEPT ![q] = @ \cup ({net[p].m.key} \ {0})] ELSE raced
  /\ UNCHANGED <<wire, connected, kept, nodeVersion, faults, early>>

\* maybe_do_send_bytes: on the connection there is by now.
Send(p) ==
  LET q == Other(p)
      m == net[p].m IN
  /\ At(p, "send")
  /\ got' = Sent(q, m.key, m.value)
  /\ early' = [early EXCEPT ![q] = @ \/ (Open(q) /\ met[q] < 2 /\ ~net[p].old)]
  /\ net' = [net EXCEPT ![p] = [at |-> "record", m |-> m]]
  /\ UNCHANGED <<connection, shut, in, said, met, as, connected, kept, nodeVersion, faults, raced>>

\* Mutant of Record: an entry that is there stays.
RecordMutant(p) ==
  LET q == Other(p)
      m == net[p].m IN
  /\ At(p, "record") /\ Goes(p, "read")
  /\ stateful' = IF m.key = 0 \/ stateful[q][m.key] # 0 THEN stateful
                 ELSE [stateful EXCEPT ![q][m.key] = m.value]
  /\ UNCHANGED <<wire, connected, version, nodeVersion, faults, early, raced>>

Record(p) ==
  LET q == Other(p)
      m == net[p].m IN
  /\ At(p, "record") /\ Goes(p, "read")
  /\ stateful' = IF m.key = 0 THEN stateful ELSE [stateful EXCEPT ![q][m.key] = m.value]
  /\ UNCHANGED <<wire, connected, version, nodeVersion, faults, early, raced>>

----------------------------------------------------------------------------
(***************************************************************************)
(* A bitcoind.                                                             *)
(***************************************************************************)
Says(p, msgs) ==
  /\ in' = [in EXCEPT ![p] = @ \o msgs]
  /\ UNCHANGED <<connection, shut, met, as, got, connected, kept, net, nodeVersion, early, raced>>

Hello(p) == <<[kind |-> "version", v |-> nodeVersion[p]], [kind |-> "verack"]>>

\* It answers a version with its own and a verack (said = 0 until then).
NodeHello(p) ==
  /\ Open(p) /\ met[p] >= 1 /\ said[p] = 0
  /\ Says(p, Hello(p))
  /\ said' = [said EXCEPT ![p] = 1]
  /\ UNCHANGED faults

\* After the handshake it says what it likes.
NodeSays(p) ==
  /\ Open(p) /\ met[p] = 2 /\ said[p] \in 1..MaxSays
  /\ \E m \in Chatter[p] : Says(p, <<m>>)
  /\ said' = [said EXCEPT ![p] = @ + 1]
  /\ UNCHANGED faults

\* It says something out of turn or wrong.
NodeErrs(p) ==
  /\ Open(p) /\ said[p] = 0 /\ Fault
  /\ \E m \in {[kind |-> "verack"], [kind |-> "msg", key |-> 0, value |-> 0], [kind |-> "bad"]} :
       Says(p, <<m>>)
  /\ UNCHANGED said

Thread(p) ==
  \/ Connect(p) \/ ReadEnd(p) \/ Reconnect(p) \/ on_disconnect(p) \/ Start(p)
  \/ ReadVersion(p) \/ ReadVerack(p) \/ ReadOther(p) \/ ReadWrong(p) \/ Replay(p)
  \/ Keep(p) \/ Cut(p) \/ Check(p) \/ Send(p) \/ Record(p)

Next ==
  \E p \in Pipe : Thread(p) \/ Refused(p) \/ Break(p) \/ NodeHello(p) \/ NodeSays(p) \/ NodeErrs(p)

\* The threads run, and a bitcoind answers a version.
Fairness == \A p \in Pipe : WF_vars(Thread(p)) /\ WF_vars(NodeHello(p))

Spec == Init /\ [][Next]_vars /\ Fairness

----------------------------------------------------------------------------
(***************************************************************************)
(* Properties.                                                             *)
(***************************************************************************)
Versions == Version[1] \cup Version[2] \cup {Generated}

Message == Said \cup [kind : {"version"}, v : Versions] \cup [kind : {"verack", "bad"}]

\* Where a pipe's thread may be.
State ==
  [at : {"connect", "start", "read", "cut", "closed", "swapped"}] \cup [at : {"keep"}, v : Versions]
    \cup [at : {"replay"}, done : Nat] \cup [at : {"check", "record"}, m : Said]
    \cup [at : {"send"}, m : Said, old : BOOLEAN]

TypeOK ==
  /\ connection \in [Pipe -> {"none", "up", "dead"}] /\ shut \in [Pipe -> BOOLEAN]
  /\ connected \in [Pipe -> 0..2] /\ met \in [Pipe -> 0..2]
  /\ version \in [Pipe -> Versions] /\ as \in [Pipe -> Versions]
  /\ nodeVersion \in [Pipe -> Versions]
  /\ stateful \in [Pipe -> [Key -> Value \cup {0}]] /\ got \in [Pipe -> [Key -> Value \cup {0}]]
  /\ net \in [Pipe -> State] /\ in \in [Pipe -> Seq(Message)] /\ said \in [Pipe -> Nat]
  /\ early \in [Pipe -> BOOLEAN] /\ raced \in [Pipe -> SUBSET Key]
  /\ faults \in 0..MaxFaults

\* An open connection introduced itself with the version that is kept for it, unless
\* the other thread is about to disconnect it: whichever way the keeping of a version
\* and the start of a connection interleave (p2ppipe.cpp:57-58 against 88-103 and
\* connection.cpp:421, connection.h:144-148).
VersionCurrent ==
  \A p \in Pipe : Open(p) /\ met[p] >= 1 => as[p] = version[p] \/ At(Other(p), "cut")

\* A bitcoind is sent nothing before the handshake's own messages, but by a thread that
\* looked at connected, slept through a reconnection and sends on the new connection
\* (p2ppipe.cpp:63-64, 80, 86, 170).
HandshakeFirst == \A p \in Pipe : ~early[p]

\* Once a pipe's handshake is over its bitcoind has the last word of every kept
\* message, over reconnections of either side, unless the message was passed on
\* just when the handshake ended: only then may it be lost or overtaken by an older
\* one (p2ppipe.cpp:63-76 against 170-179).
KeptDelivered ==
  \A p \in Pipe : \A k \in Key \ (raced[p] \cup InPassing(p)) :
    Open(p) /\ connected[p] = 2 /\ ~At(p, "replay") => got[p][k] = stateful[p][k]

\* Once the faults are over each bitcoind is and stays connected to the other one's
\* version: the two do not disconnect each other for ever (p2ppipe.cpp:32-60).
Settles == <>[](\A p \in Pipe : connected[p] = 2 /\ Open(p) /\ as[p] = nodeVersion[Other(p)])
=============================================================================
