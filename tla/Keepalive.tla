----------------------------- MODULE Keepalive -----------------------------
(***************************************************************************)
(* OutboundPersistentConnection and KeepaliveOutboundPersistentConnection  *)
(* (connection.h, connection.cpp): a connection that is made again         *)
(* whenever it is lost, and the pings that find out about a peer that is   *)
(* gone without closing it.                                                *)
(*                                                                         *)
(* Three threads: the one that connects, later that of the connection      *)
(* itself, later the one that reconnects (phase); the select thread, which *)
(* runs the timer (timer); and the peer.                                   *)
(***************************************************************************)
EXTENDS Integers, FiniteSets

CONSTANTS MaxConn,      \* bound of the model: number of connections made
          NonceMod,     \* 2^64: a nonce is a uint64_t
          FirstNonce,   \* next_nonce starts as 0xDEADBEEF
          Multiplier    \* 0xDEADBEEF * 42, what next_nonce is multiplied by

ASSUME KeepaliveAssumption ==
  /\ MaxConn \in Nat \ {0} /\ NonceMod \in Nat \ {0}
  /\ FirstNonce \in 0..(NonceMod - 1) /\ Multiplier \in Nat

VARIABLES
  phase,         \* "connect", "setup" (thread started), "up" (reading messages),
                 \* "down" (DISCONNECT_COMPLETE), "swapped" (connection = 0)
  connection,    \* the connection pointer: 0 or the number of the connection
  shut_down,     \* disconnect_from_outside was called on it
  made,          \* connections made so far
  connected,     \* of the keepalive, not of the client
  scheduled,
  ping_nonces_waiting,
  next_nonce,
  timer,         \* "off", "set" (in actions_map), "send" (about to send_ping)
  peer,          \* "live" or "dead": silent, with the connection left open
  pinged,        \* nonces the peer has been sent and has not answered
  asked          \* history: the connection that stood when a nonce was last noted

ping == <<connected, scheduled, ping_nonces_waiting, next_nonce>>
keepalive_vars == <<phase, connection, shut_down, made, ping, timer, peer, pinged, asked>>

KeepaliveInit ==
  /\ phase = "connect" /\ connection = 0 /\ shut_down = FALSE /\ made = 0
  /\ connected = FALSE /\ scheduled = FALSE /\ ping_nonces_waiting = {}
  /\ next_nonce = FirstNonce
  /\ timer = "off" /\ peer = "live" /\ pinged = {} /\ asked = 0

----------------------------------------------------------------------------
(***************************************************************************)
(* The connection.                                                         *)
(***************************************************************************)

\* do_connect: a new connection, whose own thread starts.  (If it fails, reconnect
\* runs with no old connection: OnDisconnect from "swapped".)
DoConnect ==
  /\ phase = "connect"
  /\ \/ /\ made < MaxConn
        /\ connection' = made + 1 /\ made' = made + 1 /\ phase' = "setup"
        /\ peer' = "live" /\ pinged' = {} /\ shut_down' = FALSE
     \/ phase' = "swapped" /\ UNCHANGED <<connection, made, peer, pinged, shut_down>>
  /\ UNCHANGED <<ping, timer, asked>>

\* on_connect_keepalive, then net_process begins to read.
OnConnect ==
  /\ phase = "setup" /\ timer # "send"    \* needs fd_map_mutex, which the timer holds
  /\ IF scheduled THEN UNCHANGED <<ping, timer>>
     ELSE /\ scheduled' = TRUE /\ connected' = TRUE /\ ping_nonces_waiting' = {}
          /\ timer' = "set"
          /\ UNCHANGED next_nonce
  /\ phase' = "up"
  /\ UNCHANGED <<connection, shut_down, made, peer, pinged, asked>>

\* Setting up fails, the peer closes, or the thread finds the connection shut down:
\* disconnect runs to its end.
ConnectionLost ==
  /\ phase \in {"setup", "up"}
  /\ phase' = "down"
  /\ UNCHANGED <<connection, shut_down, made, ping, timer, peer, pinged, asked>>

\* reconnect: first the pointer goes, then on_disconnect_keepalive; after that it
\* waits until the old connection may be deleted and connects again.
Reconnect ==
  /\ phase = "down"
  /\ phase' = "swapped" /\ connection' = 0
  /\ UNCHANGED <<shut_down, made, ping, timer, peer, pinged, asked>>

\* Mutant of OnDisconnect: the nonces are not cleared.
OnDisconnectMutant ==
  /\ phase = "swapped" /\ phase' = "connect"
  /\ connected' = FALSE
  /\ UNCHANGED <<connection, shut_down, made, scheduled, ping_nonces_waiting, next_nonce, timer,
                 peer, pinged, asked>>

OnDisconnect ==
  /\ phase = "swapped"
  /\ connected' = FALSE /\ ping_nonces_waiting' = {}
  /\ phase' = "connect"
  /\ UNCHANGED <<connection, shut_down, made, scheduled, next_nonce, timer, peer, pinged, asked>>

----------------------------------------------------------------------------
(***************************************************************************)
(* The timer and the peer.                                                 *)
(***************************************************************************)

\* Mutant of TimerFires: another ping is sent where the last one was not answered.
TimerFiresMutant ==
  /\ timer = "set" /\ connected
  /\ next_nonce' = (next_nonce * Multiplier) % NonceMod
  /\ ping_nonces_waiting' = ping_nonces_waiting \cup {next_nonce'}
  /\ asked' = connection
  /\ timer' = "send"
  /\ UNCHANGED <<connected, scheduled, shut_down, phase, connection, made, peer, pinged>>

\* The scheduled action: it schedules itself again and looks at the nonces.
TimerFires ==
  /\ timer = "set"
  /\ \/ ~connected /\ UNCHANGED <<timer, shut_down, ping, asked>>
     \/ /\ connected /\ ping_nonces_waiting # {}
        /\ shut_down' = (shut_down \/ connection # 0)
        /\ UNCHANGED <<timer, ping, asked>>
     \/ /\ connected /\ ping_nonces_waiting = {}
        /\ next_nonce' = (next_nonce * Multiplier) % NonceMod
        /\ ping_nonces_waiting' = {next_nonce'}
        /\ asked' = connection
        /\ timer' = "send"
        /\ UNCHANGED <<connected, scheduled, shut_down>>
  /\ UNCHANGED <<phase, connection, made, peer, pinged>>

\* send_ping runs after ping_mutex is released, on whatever connection there is.
SendPing ==
  /\ timer = "send"
  /\ pinged' = IF connection = 0 THEN pinged ELSE pinged \cup {next_nonce}
  /\ timer' = "set"
  /\ UNCHANGED <<phase, connection, shut_down, made, ping, peer, asked>>

\* The peer answers a ping and the connection's thread calls pong_received.
Pong ==
  /\ phase = "up" /\ peer = "live"
  /\ \E n \in pinged : /\ ping_nonces_waiting' = ping_nonces_waiting \ {n}
                       /\ pinged' = pinged \ {n}
  /\ UNCHANGED <<phase, connection, shut_down, made, connected, scheduled, next_nonce, timer,
                 peer, asked>>

PeerDies ==
  /\ phase \in {"setup", "up"} /\ peer = "live"
  /\ peer' = "dead"
  /\ UNCHANGED <<phase, connection, shut_down, made, ping, timer, pinged, asked>>

KeepaliveNext ==
  \/ DoConnect \/ OnConnect \/ ConnectionLost \/ Reconnect \/ OnDisconnect
  \/ TimerFires \/ SendPing \/ Pong \/ PeerDies

\* Threads run, the timer goes off after each interval, a connection that was shut
\* down is noticed by the thread that reads from it, and a live peer answers.
Fairness ==
  /\ WF_keepalive_vars(OnConnect) /\ WF_keepalive_vars(shut_down /\ ConnectionLost)
  /\ WF_keepalive_vars(Reconnect) /\ WF_keepalive_vars(OnDisconnect)
  /\ WF_keepalive_vars(TimerFires) /\ WF_keepalive_vars(SendPing) /\ WF_keepalive_vars(Pong)

KeepaliveSpec == KeepaliveInit /\ [][KeepaliveNext]_keepalive_vars /\ Fairness

----------------------------------------------------------------------------

KeepaliveTypeOK ==
  /\ phase \in {"connect", "setup", "up", "down", "swapped"}
  /\ made \in 0..MaxConn /\ connection \in {0, made} /\ asked \in 0..MaxConn
  /\ phase \in {"connect", "swapped"} <=> connection = 0
  /\ shut_down \in BOOLEAN /\ connected \in BOOLEAN /\ scheduled \in BOOLEAN
  /\ ping_nonces_waiting \subseteq 0..(NonceMod - 1)
  /\ next_nonce \in 0..(NonceMod - 1)
  /\ timer \in {"off", "set", "send"}
  /\ scheduled <=> timer # "off"
  /\ peer \in {"live", "dead"} /\ pinged \subseteq 0..(NonceMod - 1)

\* A peer is measured by its own ping only: while a connection stands, a nonce that is
\* waited for was noted during that connection, and either is about to be sent or is
\* with the peer (connection.cpp:443-454 against 394-401, with ping_mutex released
\* before the ping is sent).
OwnPing ==
  phase = "up" /\ ping_nonces_waiting # {} =>
    /\ asked = connection
    /\ timer = "send" \/ ping_nonces_waiting = pinged

\* Nonces need not be distinct, and do become equal, 42 being even; but at most one
\* ping is outstanding (connection.cpp:451-452).
OnePing == Cardinality(ping_nonces_waiting) <= 1 /\ (phase = "up" => Cardinality(pinged) <= 1)

\* While the keepalive counts itself connected, a dead peer is found out.
DeadPeerFound == phase = "up" /\ connected /\ peer = "dead" ~> phase # "up"

\* A peer that stops answering is dropped within the ping timeout, so that the
\* client can connect again (client.cpp:55, connection.cpp:448-449).
DeadPeerDropped == phase = "up" /\ peer = "dead" ~> phase # "up"
============================================================================
