---------------------------- MODULE Connection ----------------------------
(***************************************************************************)
(* One Connection (connection.h, connection.cpp) and the select thread     *)
(* that moves its bytes: the outbound queues with their limit and the      *)
(* initial throttle, the inbound queue with the point at which reading     *)
(* pauses, the pipe that wakes the select thread, and the teardown, which  *)
(* takes both the connection's own thread and the select thread.           *)
(*                                                                         *)
(* Bytes are counted in units; one recv brings one unit.                   *)
(***************************************************************************)
EXTENDS Integers, Sequences, Sums

CONSTANTS InboundLimit,               \* 65536 in the code
          max_outbound_buffer_size,
          MaxMsgSize,                 \* largest message
          MaxMsgs,                    \* bound of the model: messages sent
          MaxIn                       \* bound of the model: units the peer sends

ASSUME ConnectionAssumption ==
  /\ InboundLimit \in Nat \ {0} /\ max_outbound_buffer_size \in Nat
  /\ MaxMsgSize \in Nat \ {0} /\ MaxMsgs \in Nat /\ MaxIn \in Nat

VARIABLES
  primary, secondary,         \* outbound_primary_queue, outbound_secondary_queue (sizes)
  primary_writepos, secondary_writepos,
  initial_outbound_throttle, initial_outbound_throttle_done, initial_outbound_bytes,
  total_waiting_size,         \* bytes of the queued messages, begun ones as a whole
  delayed,                    \* earliest_next_write lies in the future
  holder,                     \* send_mutex is held by a thread with a token
  inbound_queue,              \* "data" units, and "end" as its last element
  total_inbound_size,
  disconnectFlags,
  user,                       \* the connection's thread: "setup", "reading", "closing",
                              \* "closed" (READS_DONE not set yet), "waiting", "done"
  fd_map,                     \* whether the select thread knows the connection
  select,                     \* the select thread: [pc, rd, wr, woken, soon]
  remove_set,                 \* whether it is about to forget the connection
  pipe,                       \* a byte is in the wakeup pipe
  shut,                       \* shutdown, or the peer has closed
  arrived,                    \* units received by the kernel and not yet read
  sentIn,                     \* units the peer has sent
  msgs                        \* messages queued so far

out  == <<primary, secondary, primary_writepos, secondary_writepos,
          initial_outbound_throttle, initial_outbound_throttle_done,
          initial_outbound_bytes, total_waiting_size, delayed>>
lock == <<holder, msgs>>
in   == <<inbound_queue, total_inbound_size, arrived, sentIn>>
down == <<disconnectFlags, user, fd_map, shut>>
loop == <<select, remove_set>>
connection_vars == <<out, lock, in, down, loop, pipe>>

ConnectionInit ==
  /\ primary = <<>> /\ secondary = <<>> /\ primary_writepos = 0 /\ secondary_writepos = 0
  /\ initial_outbound_throttle = FALSE /\ initial_outbound_throttle_done = FALSE
  /\ initial_outbound_bytes = 0 /\ total_waiting_size = 0 /\ delayed = FALSE
  /\ holder = FALSE /\ inbound_queue = <<>> /\ total_inbound_size = 0 /\ disconnectFlags = {}
  /\ user = "setup" /\ fd_map = FALSE
  /\ select = [pc |-> "prepare", rd |-> FALSE, wr |-> FALSE, woken |-> FALSE, soon |-> FALSE]
  /\ remove_set = FALSE /\ pipe = FALSE /\ shut = FALSE
  /\ arrived = 0 /\ sentIn = 0 /\ msgs = 0

----------------------------------------------------------------------------
(***************************************************************************)
(* Senders.                                                                *)
(***************************************************************************)

\* Mutant of Full: what waits in the secondary queue is not counted.
FullMutant(bytes) ==
  SumSeq(primary) - (IF initial_outbound_throttle THEN bytes ELSE 0) > max_outbound_buffer_size

\* Too much is waiting, not counting the initial bytes while throttled.
Full(bytes) ==
  total_waiting_size - (IF initial_outbound_throttle THEN bytes ELSE 0) > max_outbound_buffer_size

\* The message goes to the end of a queue unless too much is waiting already, in
\* which case the connection is shut down from outside.  The select thread is woken
\* if nothing was waiting.
Queue(queue, size, bytes) ==
  /\ user # "done" /\ msgs < MaxMsgs
  /\ IF Full(bytes)
     THEN /\ disconnectFlags' = disconnectFlags \cup {"PRINT_AND_CLOSE"}
          /\ shut' = TRUE
          /\ UNCHANGED <<primary, secondary, total_waiting_size, pipe, msgs>>
     ELSE /\ \/ queue = "primary" /\ primary' = Append(primary, size) /\ UNCHANGED secondary
             \/ queue = "secondary" /\ secondary' = Append(secondary, size) /\ UNCHANGED primary
          /\ total_waiting_size' = total_waiting_size + size
          /\ pipe' = (pipe \/ total_waiting_size' = size)
          /\ msgs' = msgs + 1
          /\ UNCHANGED <<disconnectFlags, shut>>
  /\ UNCHANGED <<primary_writepos, secondary_writepos, initial_outbound_throttle,
                 initial_outbound_throttle_done, delayed, in, user, fd_map, loop,
                 holder>>

\* do_send_bytes: with a token the bytes count as initial ones while throttled.
do_send_bytes(size, token) ==
  LET bytes == initial_outbound_bytes
                 + IF initial_outbound_throttle /\ token THEN size ELSE 0 IN
  /\ token = holder
  /\ initial_outbound_bytes' = bytes
  /\ Queue("primary", size, bytes)

\* maybe_send_bytes gives up if someone holds send_mutex.
maybe_send_bytes(size) ==
  /\ ~holder
  /\ Queue("secondary", size, initial_outbound_bytes)
  /\ UNCHANGED initial_outbound_bytes

\* get_send_mutex, and do_throttle_outbound as the server calls it once.
GetSendMutex ==
  /\ ~holder /\ msgs < MaxMsgs
  /\ holder' = TRUE
  /\ \/ ~initial_outbound_throttle_done /\ initial_outbound_throttle' = TRUE
        /\ initial_outbound_throttle_done' = TRUE
     \/ UNCHANGED <<initial_outbound_throttle, initial_outbound_throttle_done>>
  /\ UNCHANGED <<primary, secondary, primary_writepos, secondary_writepos,
                 initial_outbound_bytes, total_waiting_size, delayed, msgs, in, down, loop, pipe>>

ReleaseSendMutex ==
  /\ holder /\ holder' = FALSE
  /\ UNCHANGED <<out, msgs, in, down, loop, pipe>>

----------------------------------------------------------------------------
(***************************************************************************)
(* The connection's own thread.                                            *)
(***************************************************************************)

\* do_setup_and_read: the select thread is told, or the socket was bad.
Setup ==
  /\ user = "setup"
  /\ \/ /\ fd_map' = TRUE /\ pipe' = TRUE /\ user' = "reading"
        /\ UNCHANGED disconnectFlags
     \/ /\ disconnectFlags' = disconnectFlags \cup {"GLOBAL_THREAD_DONE"}
        /\ user' = "closing"
        /\ UNCHANGED <<fd_map, pipe>>
  /\ UNCHANGED <<out, lock, in, loop, shut>>

\* Mutant of Unpauses: off by one.
UnpausesMutant == total_inbound_size > InboundLimit

\* A pause in reading is over only if the select thread hears of it.
Unpauses == total_inbound_size >= InboundLimit

\* read_all takes the next unit.
ReadAll ==
  /\ user = "reading" /\ inbound_queue # <<>>
  /\ \/ /\ Head(inbound_queue) = "end"
        /\ user' = "closing"
        /\ UNCHANGED <<inbound_queue, total_inbound_size, pipe>>
     \/ /\ Head(inbound_queue) = "data"
        /\ inbound_queue' = Tail(inbound_queue) /\ total_inbound_size' = total_inbound_size - 1
        /\ pipe' = (pipe \/ Unpauses)
        /\ UNCHANGED user
  /\ UNCHANGED <<out, lock, arrived, sentIn, disconnectFlags, fd_map, shut, loop>>

\* net_process gives up on what it has read.
NetProcessQuits ==
  /\ user = "reading" /\ user' = "closing"
  /\ UNCHANGED <<out, lock, in, disconnectFlags, fd_map, shut, loop, pipe>>

\* disconnect: shutdown, then READS_DONE, then the wait for the select thread.
Disconnect ==
  /\ user = "closing" /\ user' = "closed"
  /\ disconnectFlags' = disconnectFlags \cup {"STARTED", "PRINT_AND_CLOSE"}
  /\ shut' = TRUE
  /\ UNCHANGED <<out, lock, in, fd_map, loop, pipe>>

ReadsDone ==
  /\ user = "closed" /\ user' = "waiting"
  /\ disconnectFlags' = disconnectFlags \cup {"READS_DONE"}
  /\ UNCHANGED <<out, lock, in, fd_map, shut, loop, pipe>>

\* Mutant of Complete: the select thread is not waited for.
CompleteMutant ==
  /\ user = "waiting" /\ user' = "done"
  /\ disconnectFlags' = disconnectFlags \cup {"COMPLETE"}
  /\ UNCHANGED <<out, lock, in, fd_map, shut, loop, pipe>>

Complete ==
  /\ user = "waiting" /\ "GLOBAL_THREAD_DONE" \in disconnectFlags
  /\ user' = "done"
  /\ disconnectFlags' = disconnectFlags \cup {"COMPLETE"}
  /\ UNCHANGED <<out, lock, in, fd_map, shut, loop, pipe>>

----------------------------------------------------------------------------
(***************************************************************************)
(* The select thread: do_net_process.                                      *)
(***************************************************************************)

\* Mutant of WantsRead: a full inbound queue pauses reading for good.
WantsReadMutant == total_inbound_size < InboundLimit

\* Reading goes on while there is room, and after the reader has gone.
WantsRead == total_inbound_size < InboundLimit \/ "READS_DONE" \in disconnectFlags

\* The sets given to select, and whether its timeout is the delay of the throttle.
Prepare ==
  /\ select.pc = "prepare"
  /\ select' = [pc |-> "sleep", woken |-> FALSE,
                rd   |-> fd_map /\ WantsRead,
                wr   |-> fd_map /\ total_waiting_size > 0 /\ ~delayed,
                soon |-> fd_map /\ total_waiting_size > 0 /\ delayed]
  /\ UNCHANGED <<out, lock, in, down, remove_set, pipe>>

\* select returns: something is ready, or the timeout (a day unless soon) is over.
\* Whether the socket takes more bytes is up to the peer.
Wake ==
  /\ select.pc = "sleep"
  /\ \E writable \in BOOLEAN, timeout \in BOOLEAN :
       LET r == select.rd /\ (arrived > 0 \/ shut)
           w == select.wr /\ (writable \/ shut)
       IN /\ r \/ w \/ pipe \/ timeout
          /\ select' = [pc |-> "read", rd |-> r, wr |-> w, woken |-> pipe, soon |-> select.soon]
  /\ UNCHANGED <<out, lock, in, down, remove_set, pipe>>

RecvStep ==
  /\ select.pc = "read"
  /\ \/ ~select.rd /\ UNCHANGED <<inbound_queue, total_inbound_size, arrived, remove_set>>
     \/ /\ select.rd /\ arrived = 0 /\ remove_set' = TRUE
        /\ UNCHANGED <<inbound_queue, total_inbound_size, arrived>>
     \/ /\ select.rd /\ arrived > 0 /\ arrived' = arrived - 1
        /\ IF "READS_DONE" \in disconnectFlags
           THEN UNCHANGED <<inbound_queue, total_inbound_size>>
           ELSE /\ inbound_queue' = Append(inbound_queue, "data")
                /\ total_inbound_size' = total_inbound_size + 1
        /\ UNCHANGED remove_set
  /\ select' = [select EXCEPT !.pc = "write"]
  /\ UNCHANGED <<out, lock, sentIn, down, pipe>>

\* Mutant of UsePrimary: the primary queue always goes first.
UsePrimaryMutant == primary # <<>>

\* The queue a write continues with or begins: a message begun is finished first.
UsePrimary == secondary_writepos = 0 /\ primary # <<>>

\* Mutant of Written: the position is not reset for the next message.
WrittenMutant(queue, writepos, count) ==
  [queue |-> IF writepos + count = Head(queue) THEN Tail(queue) ELSE queue,
   pos   |-> writepos + count,
   size  |-> IF writepos + count = Head(queue) THEN Head(queue) ELSE 0]

\* count units of the front message of queue go out, from writepos on; a message that
\* is through is taken from the queue and from total_waiting_size.
Written(queue, writepos, count) ==
  [queue |-> IF writepos + count = Head(queue) THEN Tail(queue) ELSE queue,
   pos   |-> IF writepos + count = Head(queue) THEN 0 ELSE writepos + count,
   size  |-> IF writepos + count = Head(queue) THEN Head(queue) ELSE 0]

SendStep ==
  /\ select.pc = "write" /\ select.wr /\ ~delayed
  /\ \/ remove_set' = TRUE /\ UNCHANGED out
     \/ /\ ~shut
        /\ \E count \in 1..MaxMsgSize :
             \/ LET w == Written(primary, primary_writepos, count) IN
                /\ UsePrimary /\ primary_writepos + count <= Head(primary)
                /\ primary' = w.queue /\ primary_writepos' = w.pos
                /\ total_waiting_size' = total_waiting_size - w.size
                /\ UNCHANGED <<secondary, secondary_writepos>>
             \/ LET w == Written(secondary, secondary_writepos, count) IN
                /\ ~UsePrimary /\ secondary_writepos + count <= Head(secondary)
                /\ secondary' = w.queue /\ secondary_writepos' = w.pos
                /\ total_waiting_size' = total_waiting_size - w.size
                /\ UNCHANGED <<primary, primary_writepos>>
        /\ initial_outbound_throttle' =
             (initial_outbound_throttle /\ (holder \/ total_waiting_size' # 0))
        /\ delayed' = (primary_writepos' = 0 /\ secondary_writepos' = 0
                         /\ initial_outbound_throttle')
        /\ UNCHANGED <<initial_outbound_throttle_done, initial_outbound_bytes, remove_set>>
  /\ select' = [select EXCEPT !.pc = "remove"]
  /\ UNCHANGED <<lock, in, down, pipe>>

SkipSend ==
  /\ select.pc = "write" /\ (~select.wr \/ delayed)
  /\ select' = [select EXCEPT !.pc = "remove"]
  /\ UNCHANGED <<out, lock, in, down, remove_set, pipe>>

\* The connection is forgotten if a recv or send failed, and the pipe is emptied
\* if it was among what select reported.
RemoveStep ==
  /\ select.pc = "remove"
  /\ IF remove_set
     THEN /\ inbound_queue' = Append(inbound_queue, "end")
          /\ disconnectFlags' = disconnectFlags \cup {"GLOBAL_THREAD_DONE"}
          /\ fd_map' = FALSE
     ELSE UNCHANGED <<inbound_queue, disconnectFlags, fd_map>>
  /\ remove_set' = FALSE
  /\ pipe' = (pipe /\ ~select.woken)
  /\ select' = [pc |-> "prepare", rd |-> FALSE, wr |-> FALSE,
                woken |-> select.woken, soon |-> select.soon]
  /\ UNCHANGED <<out, lock, total_inbound_size, arrived, sentIn, user, shut>>

----------------------------------------------------------------------------
(***************************************************************************)
(* The rest of the world.                                                  *)
(***************************************************************************)
DelayPasses ==
  /\ delayed /\ delayed' = FALSE
  /\ UNCHANGED <<primary, secondary, primary_writepos, secondary_writepos,
                 initial_outbound_throttle, initial_outbound_throttle_done,
                 initial_outbound_bytes, total_waiting_size, lock, in, down, loop, pipe>>

PeerSends ==
  /\ ~shut /\ sentIn < MaxIn
  /\ sentIn' = sentIn + 1 /\ arrived' = arrived + 1
  /\ UNCHANGED <<out, lock, inbound_queue, total_inbound_size, down, loop, pipe>>

PeerCloses ==
  /\ ~shut /\ shut' = TRUE
  /\ UNCHANGED <<out, lock, in, disconnectFlags, user, fd_map, loop, pipe>>

SelectThread == Prepare \/ Wake \/ RecvStep \/ SendStep \/ SkipSend \/ RemoveStep

UserThread == Setup \/ ReadAll \/ Disconnect \/ ReadsDone \/ Complete

ConnectionNext ==
  \/ \E size \in 1..MaxMsgSize :
       \/ \E token \in BOOLEAN : do_send_bytes(size, token)
       \/ maybe_send_bytes(size)
  \/ GetSendMutex \/ ReleaseSendMutex
  \/ NetProcessQuits \/ UserThread \/ SelectThread
  \/ DelayPasses \/ PeerSends \/ PeerCloses

\* Threads run, select's timeout included.
ConnectionSpec == ConnectionInit /\ [][ConnectionNext]_connection_vars /\ WF_connection_vars(SelectThread) /\ WF_connection_vars(UserThread)
             /\ WF_connection_vars(DelayPasses)

----------------------------------------------------------------------------
(***************************************************************************)
(* Properties.                                                             *)
(***************************************************************************)
Flags == {"STARTED", "PRINT_AND_CLOSE", "READS_DONE", "GLOBAL_THREAD_DONE", "COMPLETE"}

ConnectionTypeOK ==
  /\ primary \in Seq(1..MaxMsgSize) /\ secondary \in Seq(1..MaxMsgSize)
  /\ primary_writepos \in 0..(MaxMsgSize - 1) /\ secondary_writepos \in 0..(MaxMsgSize - 1)
  /\ initial_outbound_bytes \in Nat /\ total_waiting_size \in Nat
  /\ initial_outbound_throttle \in BOOLEAN /\ delayed \in BOOLEAN /\ holder \in BOOLEAN
  /\ inbound_queue \in Seq({"data", "end"}) /\ total_inbound_size \in Nat
  /\ disconnectFlags \subseteq Flags /\ fd_map \in BOOLEAN /\ shut \in BOOLEAN
  /\ user \in {"setup", "reading", "closing", "closed", "waiting", "done"}
  /\ select \in [pc : {"prepare", "sleep", "read", "write", "remove"},
                 rd : BOOLEAN, wr : BOOLEAN, woken : BOOLEAN, soon : BOOLEAN]
  /\ remove_set \in BOOLEAN /\ pipe \in BOOLEAN
  /\ arrived \in 0..sentIn /\ sentIn \in 0..MaxIn

\* What waits to be sent and to be read, by the queues themselves.
WaitingBytes == SumSeq(primary) + SumSeq(secondary)

Unread == SumSeq([k \in 1..Len(inbound_queue) |-> IF inbound_queue[k] = "data" THEN 1 ELSE 0])

\* What the peer reads are whole messages.  The select thread never stands in the
\* middle of two of them, one of each queue, and when it comes to write there is
\* something to write: the asserts before send (connection.cpp:126, 141-143).
WholeMessages ==
  /\ primary_writepos = 0 \/ secondary_writepos = 0
  /\ primary_writepos > 0 => primary # <<>> /\ primary_writepos < Head(primary)
  /\ secondary_writepos > 0 => secondary # <<>> /\ secondary_writepos < Head(secondary)
  /\ select.pc \in {"sleep", "read", "write"} /\ select.wr => primary # <<>> \/ secondary # <<>>

\* The counter is right, and the outbound buffer exceeds its limit by no more than what was sent with a token
\* while throttled, and the one message that went over it (connection.h:34-38,
\* connection.cpp:210-220, 158-162).
BufferBounded ==
  /\ total_waiting_size = WaitingBytes
  /\ WaitingBytes <= max_outbound_buffer_size + MaxMsgSize
                  + IF initial_outbound_throttle THEN initial_outbound_bytes ELSE 0

\* No wakeup is lost: the select thread does not sleep out its day while there are
\* bytes to send or bytes to read that there is room for (connection.cpp:66-74, 222,
\* 325, 364-366, 180-181).
NoLostWakeup ==
  select.pc = "sleep" /\ fd_map /\ ~pipe =>
    /\ WaitingBytes > 0 => select.wr \/ select.soon
    /\ Unread < InboundLimit => select.rd

\* A connection that is done may be deleted: the select thread has forgotten it, will
\* not queue anything more for it, and its reader was told (connection.cpp:168-177,
\* 288-294, 194-199).
SafeToDelete ==
  /\ "COMPLETE" \in disconnectFlags => ~fd_map /\ ~remove_set
  /\ fd_map => "GLOBAL_THREAD_DONE" \notin disconnectFlags
  /\ "GLOBAL_THREAD_DONE" \in disconnectFlags /\ user = "reading" =>
       inbound_queue # <<>> /\ inbound_queue[Len(inbound_queue)] = "end"
  /\ \A k \in DOMAIN inbound_queue : inbound_queue[k] = "end" => k = Len(inbound_queue)

\* Once a connection is lost or given up, on either side, its teardown completes; the
\* unread input of a full inbound queue does not keep it from that
\* (connection.cpp:66, 276-298).
TeardownCompletes == (shut \/ user = "closing") /\ user # "setup" ~> user = "done"
===========================================================================
