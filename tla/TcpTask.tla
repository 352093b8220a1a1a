------------------------------ MODULE TcpTask ------------------------------
(***************************************************************************)
(* A TCP stream in the tasks that drive it: who is woken when, by which    *)
(* waker, and whether a call that returned Pending ever returns.           *)
(*                                                                         *)
(* The application makes three kinds of call: read, write and shutdown.  A *)
(* call that is pending is polled again only when the task that made it is *)
(* woken: by the waker left in stream_receiver, in the timer, in           *)
(* write_notify or in shutdown.  Reader and Writer are the tasks that read *)
(* and that write and shut down: one task for copy_bidirectional, as in    *)
(* the README and the examples, two for a stream that was split.  The task *)
(* that a dropped wrapper spawns is a third.                               *)
(*                                                                         *)
(* The peer is at the other end of the device, which neither loses nor     *)
(* reorders: it acknowledges what it takes, answers the SYN|ACK with a     *)
(* bare ACK, and closes after we did.  It has room for all that may be     *)
(* out, also where that is more than the window it advertised last: the    *)
(* code holds each packet to that window, not their sum.                   *)
(***************************************************************************)
EXTENDS TcpStream

CONSTANTS
  Reader,     \* the task that reads
  Writer,     \* the task that writes and shuts down
  DataFlags,  \* flags of the peer's segments
  PeerBytes,  \* bytes the peer may send
  Events,     \* which of "timer", "drop" and "stop" may happen
  MaxSent     \* bound on the sequence numbers used by the stream

ASSUME TaskAssumption ==
  /\ DataFlags \subseteq {{"ACK"}, {"PSH", "ACK"}}
  /\ PeerBytes \in Nat /\ PeerBytes + 2 < M
  /\ MaxSent \in Nat
  /\ MaxWindow > 0

VARIABLES
  pending,         \* calls that have not returned
  due,             \* those whose task is about to poll them
  rx_waker,        \* the task woken by stream_receiver
  timer_waker,     \* the task woken by the timer
  shutdown_waker,  \* the task woken by Shutdown::ready
  elapsed,         \* the timer has run out and was not reset
  pkt_receiver,    \* packets on their way to the stack's task and the peer
  peer             \* the other end of the connection

taskVars == <<pending, due, rx_waker, timer_waker, shutdown_waker, elapsed>>
allVars == <<vars, taskVars, pkt_receiver, peer>>

Call == {"read", "write", "shutdown"}
Nobody == "nobody"
Dropper == "dropper"

\* next: the next number it expects; sent: bytes sent; held: bytes its
\* application has not read; reply: an acknowledgment is owed; up: the
\* handshake is answered; closing: our FIN arrived; fin: its FIN was sent.
PeerInit == [next |-> ISS, sent |-> 0, held |-> 0, reply |-> FALSE,
             up |-> FALSE, closing |-> FALSE, fin |-> FALSE]

Init ==
  /\ StreamInit
  /\ pending = {}
  /\ due = {}
  /\ rx_waker = Nobody
  /\ timer_waker = Nobody
  /\ shutdown_waker = Nobody
  /\ elapsed = FALSE
  /\ pkt_receiver = <<>>
  /\ peer = PeerInit

----------------------------------------------------------------------------
(* Tasks and wakers. *)

Owner(call) ==
  CASE wrapper # "held" -> Dropper
    [] wrapper = "held" /\ call = "read" -> Reader
    [] OTHER -> Writer

\* A woken task polls every call it is waiting for.
CallsOf(tasks) == {c \in pending : Owner(c) \in tasks}

\* The tasks that the step wakes through write_notify and shutdown.
Woken ==
  (IF write_notify /\ ~ write_notify' THEN {Writer} ELSE {})
    \cup (IF shutdown = "Pending" /\ shutdown' = "Ready"
          THEN {shutdown_waker} ELSE {})

\* What a step sends follows what was sent before.
Emit == pkt_receiver' = pkt_receiver \o sent'

\* The stream is not touched.
StreamRests ==
  /\ sent' = <<>>
  /\ UNCHANGED <<tcbVars, shutdown, write_notify, packet_to_send, polling,
                 panicked, stream_receiver, session, upstream_open, wrapper,
                 delivered>>

\* A packet or the end of the queue wakes the task that polled it last.
WakeReceiver ==
  /\ due' = due \cup CallsOf({rx_waker})
  /\ rx_waker' = Nobody

\* The application makes a call.  It does not read on after an error or the
\* end of the stream, and writes or shuts down, one at a time.
Begin(c) ==
  /\ wrapper = "held"
  /\ ~ panicked
  /\ c \notin pending
  /\ c # "read" => pending \subseteq {"read"}
  /\ CASE c = "read" -> state # "Closed" /\ upstream_open
       [] c = "write" -> \A n \in WriteLens : WrapSub(seq, ISS) + n <= MaxSent
       [] OTHER -> shutdown # "Ready"
  /\ pending' = pending \cup {c}
  /\ due' = due \cup {c} \cup CallsOf({Owner(c)})
  /\ StreamRests
  /\ UNCHANGED <<rx_waker, timer_waker, shutdown_waker, elapsed,
                 pkt_receiver, peer>>

Returns(c) ==
  /\ pending' = pending \ {c}
  /\ due' = (due \cup CallsOf(Woken)) \ {c}

Waits(c) ==
  /\ pending' = pending
  /\ due' = due \ {c}

----------------------------------------------------------------------------
(* A task polls a call that is due.  One task polls read before the others *)
(* (copy_bidirectional with the stream as its first argument).             *)

CallRead ==
  /\ "read" \in due
  /\ PollRead
  /\ due' = due \ {"read"}
  /\ Emit
  /\ UNCHANGED <<pending, rx_waker, timer_waker, shutdown_waker, elapsed, peer>>

ReadFirst == Reader = Writer => "read" \notin due

\* poll_write resets the timer unless the stream is not established.
CallWrite ==
  /\ "write" \in due
  /\ ReadFirst
  /\ \/ WriteBlocks /\ Waits("write") /\ elapsed' = FALSE
     \/ \E n \in WriteLens :
          PollWrite(n) /\ Returns("write") /\ elapsed' = FALSE
     \/ /\ Callable
        /\ state # "Established" \/ ~ (WriteBlocked \/ upstream_open)
        /\ StreamRests
        /\ Returns("write")
        /\ elapsed' = (elapsed /\ state # "Established")
  /\ Emit
  /\ UNCHANGED <<rx_waker, timer_waker, shutdown_waker, peer>>

\* poll_shutdown: the first caller's waker stays in shutdown.
CallShutdown ==
  /\ "shutdown" \in due
  /\ ReadFirst
  /\ PollShutdown
  /\ due' = due \ {"shutdown"}
  /\ shutdown_waker' =
       IF shutdown = "None" THEN Owner("shutdown") ELSE shutdown_waker
  /\ Emit
  /\ UNCHANGED <<pending, rx_waker, timer_waker, elapsed, peer>>

FindShutdownReady ==
  /\ "shutdown" \in due
  /\ \/ ShutdownReady
     \/ /\ Callable /\ wrapper = "held" /\ shutdown = "Ready" /\ ReadFirst
        /\ StreamRests
  /\ Returns("shutdown")
  /\ Emit
  /\ UNCHANGED <<rx_waker, timer_waker, shutdown_waker, elapsed, peer>>

----------------------------------------------------------------------------
(* The turns of poll_read, by how they end.  A turn that reaches the timer *)
(* leaves its waker there and resets it.                                   *)

Poller == Owner(polling)

TurnReturns ==
  /\ \/ (FlushFails \/ ReadClosed \/ ReadAborted) /\ UNCHANGED timer_waker
     \/ elapsed /\ TimeoutReached /\ UNCHANGED timer_waker
     \/ /\ ~ elapsed
        /\ Deliver \/ RecvRst \/ (RecvNothing /\ polling' = "done")
        /\ timer_waker' = Poller
  /\ Returns(polling)
  /\ Emit
  /\ UNCHANGED <<rx_waker, shutdown_waker, elapsed, peer>>

TurnPends ==
  /\ ~ elapsed
  /\ RecvNothing
  /\ polling' = "idle"
  /\ rx_waker' = Poller
  /\ timer_waker' = Poller
  /\ Emit
  /\ UNCHANGED <<pending, due, shutdown_waker, elapsed, peer>>

TurnContinues ==
  /\ ~ elapsed
  /\ \/ SendSynAck \/ SendPassiveFin \/ SendActiveFin
     \/ RecvIgnored \/ RecvHandshakeAck \/ RecvWindowUpdate \/ RecvKeepAlive
     \/ RecvRetransmissionRequest \/ RecvNewPacket \/ RecvAck \/ RecvPsh
     \/ RecvFin \/ FinWait1Ack \/ FinWait1Fin \/ FinWait2Packet
  /\ due' = due \cup CallsOf(Woken)
  /\ timer_waker' = Poller
  /\ Emit
  /\ UNCHANGED <<pending, rx_waker, shutdown_waker, elapsed, peer>>

Turn == TurnReturns \/ TurnPends \/ TurnContinues

\* The timer of Tcb::new runs from the start, polled or not, and is dropped
\* with the stream.
TimerElapses ==
  /\ "timer" \in Events
  /\ ~ elapsed
  /\ wrapper # "gone"
  /\ elapsed' = TRUE
  /\ due' = due \cup CallsOf({timer_waker})
  /\ timer_waker' = Nobody
  /\ StreamRests
  /\ UNCHANGED <<pending, rx_waker, shutdown_waker, pkt_receiver, peer>>

----------------------------------------------------------------------------
(* The wrapper is dropped: its calls are abandoned, the spawned task calls *)
(* shutdown and gives up after two seconds.                                *)

Drop ==
  /\ "drop" \in Events
  /\ DropWrapper
  /\ pending' = {"shutdown"}
  /\ due' = {"shutdown"}
  /\ Emit
  /\ UNCHANGED <<rx_waker, timer_waker, shutdown_waker, elapsed, peer>>

GiveUp ==
  /\ DropInner
  /\ pending' = {}
  /\ due' = {}
  /\ Emit
  /\ UNCHANGED <<rx_waker, timer_waker, shutdown_waker, elapsed, peer>>

----------------------------------------------------------------------------
(* The stack's task. *)

\* The session goes; with the wrapper gone too, the queue has ended.
Forget ==
  /\ pkt_receiver # <<>>
  /\ Head(pkt_receiver).ttl = DROP_TTL
  /\ pkt_receiver' = Tail(pkt_receiver)
  /\ SessionRemoved \/ (~ session /\ StreamRests)
  /\ IF wrapper = "held" THEN UNCHANGED <<due, rx_waker>> ELSE WakeReceiver
  /\ UNCHANGED <<pending, timer_waker, shutdown_waker, elapsed, peer>>

Stop ==
  /\ "stop" \in Events
  /\ StackStops
  /\ pkt_receiver' = <<>>
  /\ IF wrapper = "held" THEN UNCHANGED <<due, rx_waker>> ELSE WakeReceiver
  /\ UNCHANGED <<pending, timer_waker, shutdown_waker, elapsed, peer>>

\* process_device_read queues the peer's packet, or refuses it.
Arrive(p) ==
  /\ IF session /\ wrapper # "gone"
     THEN stream_receiver' = Append(stream_receiver, p) /\ WakeReceiver
     ELSE UNCHANGED <<stream_receiver, due, rx_waker>>
  /\ sent' = <<>>
  /\ UNCHANGED <<tcbVars, shutdown, write_notify, packet_to_send, polling,
                 panicked, session, upstream_open, wrapper, delivered,
                 pending, timer_waker, shutdown_waker, elapsed, pkt_receiver>>

----------------------------------------------------------------------------
(* The peer. *)

Counts(p) == p.len + IF p.flags \cap {"SYN", "FIN"} = {} THEN 0 ELSE 1

\* A packet reaches the peer: taken if it is the next one, and answered if
\* there is something to answer.
PeerTakes ==
  /\ pkt_receiver # <<>>
  /\ Head(pkt_receiver).ttl = TTL
  /\ pkt_receiver' = Tail(pkt_receiver)
  /\ LET p == Head(pkt_receiver)
         new == p.seq = peer.next
     IN  peer' = [peer EXCEPT
           !.next = IF new THEN WrapAdd(@, Counts(p)) ELSE @,
           !.held = IF new THEN @ + p.len ELSE @,
           !.closing = @ \/ "FIN" \in p.flags,
           !.reply = (@ \/ Counts(p) > 0) /\ "RST" \notin p.flags]
  /\ StreamRests
  /\ UNCHANGED taskVars

PeerPacket(flags, off, n) ==
  [flags |-> flags,
   seq |-> WrapAdd(IRS, 1 + peer.sent + IF peer.fin THEN 1 ELSE 0),
   ack |-> peer.next, win |-> SatSub(MaxWindow, peer.held),
   off |-> off, len |-> n]

PeerAcks ==
  /\ peer.reply
  /\ Arrive(PeerPacket({"ACK"}, 0, 0))
  /\ peer' = [peer EXCEPT !.reply = FALSE, !.up = TRUE]

PeerSends ==
  /\ peer.up /\ ~ peer.fin
  /\ \E flags \in DataFlags, n \in 1 .. MaxSegment :
       /\ peer.sent + n <= PeerBytes
       /\ Arrive(PeerPacket(flags, peer.sent, n))
       /\ peer' = [peer EXCEPT !.sent = @ + n, !.reply = FALSE]

\* Its application reads: the window opens.
PeerReads ==
  /\ peer.held > 0
  /\ peer' = [peer EXCEPT !.held = 0, !.reply = TRUE]
  /\ StreamRests
  /\ UNCHANGED <<taskVars, pkt_receiver>>

PeerCloses ==
  /\ peer.up /\ ~ peer.fin
  /\ Arrive(PeerPacket({"FIN", "ACK"}, 0, 0))
  /\ peer' = [peer EXCEPT !.fin = TRUE, !.reply = FALSE]

Peer == PeerTakes \/ PeerAcks \/ PeerSends \/ PeerReads \/ PeerCloses

Poll == CallRead \/ CallWrite \/ CallShutdown \/ FindShutdownReady

Next ==
  \/ \E c \in Call : Begin(c)
  \/ Poll \/ Turn \/ TimerElapses \/ Drop \/ GiveUp
  \/ Forget \/ Stop
  \/ Peer

Spec == Init /\ [][Next]_allVars

\* The executor polls what was woken, the stack's task takes what is sent.
Scheduled ==
  /\ WF_allVars(Poll \/ Turn)
  /\ WF_allVars(Forget)
  /\ WF_allVars(GiveUp)

\* The peer answers and reads, and closes after we did; the application goes
\* on reading.  The timer need not run out.
LivePeerSpec ==
  /\ Spec
  /\ Scheduled
  /\ WF_allVars(Begin("read"))
  /\ WF_allVars(PeerTakes \/ PeerAcks \/ PeerReads
                  \/ (peer.closing /\ PeerCloses))

\* The peer may stop at any time; the timer runs out if nothing resets it.
TimerSpec == Spec /\ Scheduled /\ WF_allVars(TimerElapses)

----------------------------------------------------------------------------
(* Properties. *)

\* Whatever the peer sends is read, unless the application shuts down: no
\* wake-up is lost between stream_receiver and poll_read, and the timer is
\* not needed.
PeerDataDelivered ==
  peer.sent > Len(delivered) ~>
    peer.sent = Len(delivered) \/ shutdown # "None"

\* A write that had to wait returns: the acknowledgment or the window that
\* lets it go on is noticed by the task that waits.
WriteReturns == "write" \in pending ~> "write" \notin pending

\* The stream, whose FIN is out, is about to take a FIN that acknowledges
\* it: FinWait1Fin goes to FinWait2(true) and waits for one packet more, as
\* if ours were not acknowledged, and the peer has no reason to send it.
JointFin ==
  /\ state = "FinWait1(false)"
  /\ stream_receiver # <<>>
  /\ pkt.flags = {"FIN", "ACK"} /\ pkt.ack = seq

\* A shutdown waits for the acknowledgment of all that was written and is
\* then carried through, to its last leg, by a peer that closes in its turn:
\* before or after ours, or with a FIN that crosses it.  The only runs that
\* are excepted are those in which JointFin happens.
ShutdownCompletes ==
  <>JointFin \/ (shutdown = "Pending" ~> shutdown = "Ready")

\* The step that removes what a waiting writer waits for (too many bytes
\* out, or no window) wakes it: the branches of poll_read for a new window,
\* a repeated or new acknowledgment and an ACK that carries data do.  Only
\* the branch for PSH|ACK, which accepts the acknowledgment as well, leaves
\* the writer asleep.
FreedWriterWoken ==
  [][/\ "write" \in pending \ due /\ "write" \in pending' \ due'
     /\ state = "Established" /\ state' = "Established"
     /\ shutdown = "None"
     /\ WriteBlocked /\ ~ WriteBlocked'
     => stream_receiver # <<>> /\ pkt.flags = {"PSH", "ACK"}]_allVars

\* No wake-up is lost between poll_read and what it waits for: when nobody is
\* in its loop or about to be, the queue is empty, the timer runs, and a task
\* whose call is pending has its waker in both.
Pollers == pending \cap {"read", "shutdown"}

StreamWatched ==
  /\ polling = "idle" /\ ~ panicked /\ upstream_open /\ state # "Closed"
  /\ Pollers # {} /\ Pollers \cap due = {}
  => /\ stream_receiver = <<>> /\ ~ elapsed
     /\ rx_waker \in {Owner(c) : c \in Pollers}
     /\ timer_waker \in {Owner(c) : c \in Pollers}

\* Whoever closes the connection wakes the task that waits in poll_shutdown.
ShutdownNoticed ==
  "shutdown" \in pending \ due /\ polling # "shutdown" => state # "Closed"

\* A shutdown that is pending returns, even when the peer is silent and
\* whichever task meets the end of the connection.  The exception: when the
\* stack's task is gone the timer's reset cannot be sent, and the reader
\* that met it returns before it wakes the task that shuts down.
ShutdownReturns ==
  "shutdown" \in pending ~>
    "shutdown" \notin pending \/ (wrapper = "held" /\ ~ upstream_open)

============================================================================
