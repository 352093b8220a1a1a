--------------------------- MODULE TcpTaskProofs ---------------------------
(***************************************************************************)
(* The stream in its tasks: that no wake-up is lost between poll_read,     *)
(* stream_receiver, the timer and poll_shutdown, proved for every size of  *)
(* the windows, segments and number space, for one task or two, and        *)
(* whether or not the timer, the drop of the wrapper and the end of the    *)
(* stack's task may happen.  The invariant (WatchInv) is about the wakers  *)
(* and the calls only: it does not depend on what the peer sends.          *)
(***************************************************************************)
EXTENDS TcpTask, TcpStreamProofs

Task == {Reader, Writer, Dropper, Nobody}

PeerType == [next : SeqNo, sent : 0 .. PeerBytes, held : Nat, reply : BOOLEAN,
             up : BOOLEAN, closing : BOOLEAN, fin : BOOLEAN]

TaskTypeOK ==
  /\ TcbTypeOK
  /\ StreamTypeOK
  /\ pending \subseteq Call
  /\ due \subseteq pending
  /\ rx_waker \in Task /\ timer_waker \in Task /\ shutdown_waker \in Task
  /\ elapsed \in BOOLEAN
  /\ pkt_receiver \in Seq(OutPacket)
  /\ peer \in PeerType

----------------------------------------------------------------------------
(* The invariant. *)

\* The wakers.  A call that is in poll_read's loop has not returned; a
\* shutdown that waits has left the writer's waker in shutdown.
WatchInv ==
  /\ ControlInv
  /\ polling \in {"read", "shutdown"} => polling \in pending
  /\ polling = "read" => wrapper = "held"
  /\ "shutdown" \in pending \ due /\ polling # "shutdown" => shutdown # "None"
  /\ wrapper = "held" /\ shutdown = "Pending" => shutdown_waker = Writer
  /\ StreamWatched
  /\ ShutdownNoticed

----------------------------------------------------------------------------
(* The steps, as the stream sees them. *)

\* The stream's own state is left alone; its queue may grow.
Quiet ==
  UNCHANGED <<tcbVars, shutdown, write_notify, packet_to_send, polling,
              panicked, session, upstream_open, wrapper, delivered>>
Rests ==
  /\ Quiet
  /\ UNCHANGED stream_receiver
  /\ sent' \in {<<>>, sent}

\* Every step is a turn of poll_read, another call, a step of the stack's
\* task, an arrival, or none of the stream's.
LEMMA StepKinds ==
  ASSUME [Next]_allVars
  PROVE  \/ Turn /\ PollReadTurn
         \/ OwnerCall
         \/ StackStep
         \/ \E n \in WriteLens : PollWrite(n)
         \/ PeerAcks \/ PeerSends \/ PeerCloses
         \/ Rests
<1>1. CASE Turn
  BY <1>1, Zenon DEF Turn, TurnReturns, TurnPends, TurnContinues, PollReadTurn
<1>2. StreamRests => Rests
  BY Zenon DEF StreamRests, Rests, Quiet
<1>3. CASE Poll
  BY <1>2, <1>3, Zenon
     DEF Poll, CallRead, CallWrite, CallShutdown, FindShutdownReady, OwnerCall
<1>4. CASE Drop \/ GiveUp \/ Forget \/ Stop
  BY <1>2, <1>4, Zenon DEF Drop, GiveUp, Forget, Stop, OwnerCall, StackStep
<1>5. CASE TimerElapses \/ \E c \in Call : Begin(c)
  BY <1>2, <1>5, Zenon DEF TimerElapses, Begin
<1>6. CASE Peer
  BY <1>2, <1>6, Zenon DEF Peer, PeerTakes, PeerReads
<1>7. CASE UNCHANGED allVars
  BY <1>7, Zenon DEF allVars, vars, streamVars, Rests, Quiet
<1> QED
  BY <1>1, <1>3, <1>4, <1>5, <1>6, <1>7 DEF Next

\* A packet that arrives is queued, or refused.
LEMMA ArriveQuiet ==
  ASSUME PeerAcks \/ PeerSends \/ PeerCloses
  PROVE  Quiet
  BY Zenon DEF PeerAcks, PeerSends, PeerCloses, Arrive, Quiet

\* Control.
LEMMA TaskControlStep ==
  ASSUME ControlInv, [Next]_allVars
  PROVE  ControlInv'
<1>1. CASE PollReadTurn
  BY <1>1, TurnControl, Zenon
<1>2. CASE OwnerCall \/ StackStep \/ \E n \in WriteLens : PollWrite(n)
  BY <1>2, CallControl, Zenon
<1>3. CASE Quiet
  BY <1>3, Zenon DEF Quiet, tcbVars, ControlInv, ShutdownReadyIffClosed,
              NoStrandedPacket
<1> QED
  BY <1>1, <1>2, <1>3, StepKinds, ArriveQuiet, Zenon DEF Rests

\* No turn changes who holds the stream.
LEMMA TurnOuter ==
  ASSUME PollReadTurn
  PROVE  UNCHANGED <<session, upstream_open, wrapper>>
  BY Zenon
     DEF PollReadTurn, FlushFails, ReadClosed, ReadAborted, TimeoutReached,
         SendSynAck, Deliver, SendPassiveFin, SendActiveFin, RecvNothing,
         RecvRst, RecvIgnored, RecvHandshakeAck, RecvWindowUpdate,
         RecvKeepAlive, RecvRetransmissionRequest, RecvNewPacket, RecvAck,
         RecvPsh, RecvFin, FinWait1Ack, FinWait1Fin, FinWait2Packet,
         RecvAckIs, RecvValid, RecvContinue, RecvPacket, outerVars

\* A turn that goes round the loop neither closes the connection nor touches
\* the shutdown.
LEMMA ContinuesFacts ==
  ASSUME TurnContinues
  PROVE  /\ PollReadTurn
         /\ polling' = polling /\ shutdown' = shutdown
         /\ state # "Closed" /\ state' # "Closed"
<1>1. PollReadTurn
  BY Zenon DEF TurnContinues, PollReadTurn
<1>2. CASE SendSynAck
  BY <1>1, <1>2, Zenon DEF SendSynAck, Proceed
<1>3. CASE SendPassiveFin
  BY <1>1, <1>3, Zenon DEF SendPassiveFin, Proceed
<1>4. CASE SendActiveFin
  BY <1>1, <1>4, Zenon DEF SendActiveFin, Proceed
<1>5. CASE RecvContinue /\ (UNCHANGED state \/ state' \in
             {"Established", "FinWait1(true)", "FinWait2(true)", "FinWait2(false)"})
  BY <1>1, <1>5, ContinueFacts, Zenon
<1>6. CASE RecvIgnored
  BY <1>5, <1>6, Zenon DEF RecvIgnored
<1>7. CASE RecvHandshakeAck \/ RecvFin
  BY <1>5, <1>7, Zenon DEF RecvHandshakeAck, RecvFin, RecvValid
<1>8. CASE RecvWindowUpdate \/ RecvKeepAlive \/ RecvRetransmissionRequest
  BY <1>5, <1>8, Zenon
     DEF RecvWindowUpdate, RecvKeepAlive, RecvRetransmissionRequest, RecvAckIs
<1>9. CASE RecvNewPacket \/ RecvAck
  BY <1>5, <1>9, Zenon DEF RecvNewPacket, RecvAck, RecvAckIs
<1>10. CASE RecvPsh
  BY <1>5, <1>10, Zenon DEF RecvPsh
<1>11. CASE FinWait1Ack \/ FinWait1Fin \/ FinWait2Packet
  BY <1>5, <1>11, Zenon
     DEF FinWait1Ack, FinWait1Fin, FinWait2Packet, RecvValid
<1> QED
  BY <1>2, <1>3, <1>4, <1>6, <1>7, <1>8, <1>9, <1>10, <1>11
     DEF TurnContinues

\* How a call of poll_read ends: the connection is closed, the stack's task
\* is gone, data is delivered, or the shutdown of a dropped stream is over.
LEMMA ReturnsFacts ==
  ASSUME TurnReturns
  PROVE  /\ PollReadTurn
         /\ polling' \in {"idle", "done"}
         /\ \/ state' = "Closed" /\ shutdown' = "Ready"
            \/ UNCHANGED <<state, shutdown>>
         /\ \/ state' = "Closed"
            \/ ~ upstream_open
            \/ shutdown = "None"
            \/ polling' = "done"
<1>1. PollReadTurn
  BY Zenon DEF TurnReturns, PollReadTurn
<1>2. Return => polling' \in {"idle", "done"}
  BY Zenon DEF Return
<1>3. CASE FlushFails
  BY <1>1, <1>2, <1>3, Zenon DEF FlushFails, Flushable, tcbVars
<1>4. CASE ReadClosed
  BY <1>1, <1>2, <1>4, Zenon DEF ReadClosed, tcbVars
<1>5. CASE ReadAborted
  BY <1>1, <1>2, <1>5, Zenon DEF ReadAborted
<1>6. CASE TimeoutReached
  BY <1>1, <1>2, <1>6, Zenon DEF TimeoutReached
<1>7. CASE Deliver
  BY <1>1, <1>2, <1>7, Zenon DEF Deliver, CanDeliver
<1>8. CASE RecvRst
  BY <1>1, <1>2, <1>8, Zenon DEF RecvRst
<1>9. CASE RecvNothing /\ polling' = "done"
  BY <1>1, <1>9, Zenon DEF RecvNothing
<1> QED
  BY <1>3, <1>4, <1>5, <1>6, <1>7, <1>8, <1>9 DEF TurnReturns

----------------------------------------------------------------------------
(* The wakers. *)

\* Only the application's tasks and the one that drop spawns own calls; a
\* task that is woken polls all of its pending calls.
LEMMA WokenCalls ==
  ASSUME NEW c \in pending, NEW t, Owner(c) \in t
  PROVE  c \in CallsOf(t)
  BY Zenon DEF CallsOf

\* A step that leaves the stream, the calls and the wakers alone.
LEMMA WatchFrame ==
  ASSUME WatchInv, ControlInv',
         UNCHANGED <<state, shutdown, polling, panicked, stream_receiver,
                     upstream_open, wrapper, pending, rx_waker, timer_waker,
                     shutdown_waker, elapsed>>,
         due \subseteq due'
  PROVE  WatchInv'
  BY DEF WatchInv, StreamWatched, ShutdownNoticed, Pollers, Owner

\* A turn that goes round the loop is still in it.
LEMMA WatchContinues ==
  ASSUME WatchInv, ControlInv', TurnContinues
  PROVE  WatchInv'
<1>1. /\ polling' = polling /\ shutdown' = shutdown
      /\ state # "Closed" /\ state' # "Closed" /\ PollReadTurn
  BY ContinuesFacts, Zenon
<1>2. UNCHANGED <<upstream_open, wrapper>> /\ polling \in {"read", "shutdown"}
  BY <1>1, TurnOuter, TurnState, Zenon DEF Polled
<1>3. pending' = pending /\ due \subseteq due' /\ shutdown_waker' = shutdown_waker
  BY Zenon DEF TurnContinues
<1> QED
  BY <1>1, <1>2, <1>3, Zenon DEF WatchInv, StreamWatched, ShutdownNoticed

\* A turn that finds the queue empty leaves the waker of its task there and
\* in the timer, which is not over.
LEMMA WatchPends ==
  ASSUME WatchInv, ControlInv', TurnPends
  PROVE  WatchInv'
<1>1. /\ polling \in {"read", "shutdown"} /\ polling' = "idle"
      /\ state # "Closed" /\ UNCHANGED <<state, shutdown, stream_receiver>>
      /\ stream_receiver = <<>>
  BY Zenon DEF TurnPends, RecvNothing, Receive, Proceed, Polled
<1>2. UNCHANGED <<upstream_open, wrapper>>
  BY Zenon DEF TurnPends, RecvNothing, outerVars
<1>3. /\ ~ elapsed /\ UNCHANGED <<pending, due, shutdown_waker, elapsed>>
      /\ rx_waker' = Owner(polling) /\ timer_waker' = Owner(polling)
  BY Zenon DEF TurnPends, Poller
<1>4. polling \in Pollers /\ Pollers' = Pollers
  BY <1>1, <1>3, Zenon DEF WatchInv, Pollers
<1>5. \A c : (Owner(c))' = Owner(c)
  BY <1>2, Zenon DEF Owner
<1>6. StreamWatched'
  BY <1>1, <1>3, <1>4, <1>5, Zenon DEF StreamWatched
<1>7. polling = "shutdown" => shutdown # "None"
  BY Zenon DEF WatchInv, ControlInv
<1>8. /\ "shutdown" \in pending' \ due' => shutdown' # "None"
      /\ ShutdownNoticed'
      /\ wrapper' = "held" /\ shutdown' = "Pending" => shutdown_waker' = Writer
  BY <1>1, <1>2, <1>3, <1>7, Zenon DEF WatchInv, ShutdownNoticed
<1> QED
  BY <1>1, <1>6, <1>8, Zenon DEF WatchInv

\* A turn that returns closed the connection and woke the shutdown, or it is
\* a read's and no shutdown waits.
LEMMA WatchReturns ==
  ASSUME WatchInv, ControlInv', StreamTypeOK, TurnReturns
  PROVE  WatchInv'
<1>1. /\ PollReadTurn /\ polling' \in {"idle", "done"}
      /\ \/ state' = "Closed" /\ shutdown' = "Ready"
         \/ UNCHANGED <<state, shutdown>>
      /\ state' = "Closed" \/ ~ upstream_open \/ shutdown = "None"
           \/ polling' = "done"
  BY ReturnsFacts, Zenon
<1>2. UNCHANGED <<upstream_open, wrapper>> /\ polling \in {"read", "shutdown"}
  BY <1>1, TurnOuter, TurnState, Zenon DEF Polled
<1>3. /\ pending' = pending \ {polling}
      /\ due' = (due \cup CallsOf(Woken)) \ {polling}
      /\ shutdown_waker' = shutdown_waker
  BY Zenon DEF TurnReturns, Returns
<1>4. polling = "shutdown" => shutdown # "None"
  BY Zenon DEF WatchInv, ControlInv
<1>5. ASSUME "shutdown" \in pending' \ due'
      PROVE  /\ polling = "read" /\ "shutdown" \in pending \ due
             /\ shutdown # "None" /\ state # "Closed"
  BY <1>2, <1>3, <1>5, Zenon DEF WatchInv, ShutdownNoticed
<1>6. "shutdown" \in pending' \ due' => shutdown' # "None"
  BY <1>1, <1>5, Zenon
<1>7. ASSUME "shutdown" \in pending' \ due', state' = "Closed"
      PROVE  FALSE
  <2>1. shutdown = "Pending" /\ shutdown' = "Ready"
    BY <1>1, <1>5, <1>7, Zenon
       DEF WatchInv, ControlInv, ShutdownReadyIffClosed,
                            StreamTypeOK
  <2>2. wrapper = "held"
    BY <1>5, <1>7, Zenon DEF WatchInv
  <2>3. shutdown_waker = Writer /\ Owner("shutdown") = Writer
    BY <2>1, <2>2, Zenon DEF WatchInv, Owner
  <2>4. Writer \in Woken
    BY <2>1, <2>3, Zenon DEF Woken
  <2>5. "shutdown" \in CallsOf(Woken)
    BY <1>5, <1>7, <2>3, <2>4, WokenCalls, Zenon
  <2> QED
    BY <1>3, <1>5, <1>7, <2>5, Zenon
<1>8. ShutdownNoticed'
  BY <1>7, Zenon DEF ShutdownNoticed
<1>9. ASSUME polling' = "idle", upstream_open', state' # "Closed",
             NEW c \in Pollers', Pollers' \cap due' = {}
      PROVE  FALSE
  <2>1. shutdown = "None" /\ polling = "read"
    BY <1>1, <1>2, <1>4, <1>9, Zenon
  <2>2. c = "shutdown" /\ c \in pending' \ due'
    BY <1>3, <1>9, <2>1, Zenon DEF Pollers
  <2> QED
    BY <1>5, <2>1, <2>2, Zenon
<1>10. StreamWatched'
  BY <1>9, Zenon DEF StreamWatched
<1>11. wrapper' = "held" /\ shutdown' = "Pending" => shutdown_waker' = Writer
  BY <1>1, <1>2, <1>3, Zenon DEF WatchInv
<1> QED
  BY <1>1, <1>6, <1>8, <1>10, <1>11, Zenon DEF WatchInv

\* The end of the queue or of the timer wakes the task that watches it, so
\* that one of the calls that poll the stream is due.
LEMMA WatchWakes ==
  ASSUME StreamWatched, NEW t \in {rx_waker, timer_waker},
         UNCHANGED <<state, polling, panicked, upstream_open, wrapper, pending>>,
         due' = due \cup CallsOf({t})
  PROVE  StreamWatched'
<1> SUFFICES ASSUME polling = "idle", ~ panicked, upstream_open,
                    state # "Closed", Pollers # {}, Pollers \cap due' = {}
             PROVE  FALSE
  BY Zenon DEF StreamWatched, Pollers
<1>1. t \in {Owner(c) : c \in Pollers}
  BY Zenon DEF StreamWatched
<1>2. PICK c \in Pollers : Owner(c) = t
  BY <1>1, Zenon
<1>3. c \in CallsOf({t})
  BY <1>2, WokenCalls, Zenon DEF Pollers
<1> QED
  BY <1>2, <1>3, Zenon

\* The calls: a read or a shutdown enters the loop, a write leaves the wakers
\* of the others alone.
LEMMA WatchPoll ==
  ASSUME WatchInv, ControlInv', TaskTypeOK, Poll
  PROVE  WatchInv'
<1>1. CASE CallRead
  <2>1. /\ polling' = "read" /\ wrapper = "held"
        /\ UNCHANGED <<state, shutdown, wrapper, pending, shutdown_waker>>
    BY <1>1, Zenon DEF CallRead, PollRead, tcbVars, outerVars
  <2>2. /\ polling = "idle" /\ due' = due \ {"read"}
        /\ "read" \in pending
    BY <1>1, Zenon DEF CallRead, PollRead, Callable, TaskTypeOK
  <2> QED
    BY <2>1, <2>2, Zenon DEF WatchInv, StreamWatched, ShutdownNoticed
<1>2. CASE CallShutdown
  <2>1. /\ polling' = "shutdown" /\ shutdown' = "Pending" /\ shutdown # "Ready"
        /\ UNCHANGED <<state, wrapper, pending>>
    BY <1>2, Zenon DEF CallShutdown, PollShutdown, tcbVars, outerVars
  <2>2. "shutdown" \in pending
    BY <1>2, Zenon DEF CallShutdown, TaskTypeOK
  <2>3. wrapper = "held" => shutdown_waker' = Writer
    <3>1. shutdown_waker' =
            IF shutdown = "None" THEN Owner("shutdown") ELSE shutdown_waker
      BY <1>2, Zenon DEF CallShutdown
    <3>2. shutdown \in {"None", "Pending"}
      BY <2>1, Zenon DEF TaskTypeOK, StreamTypeOK
    <3> QED
      BY <3>1, <3>2, Zenon DEF WatchInv, Owner
  <2> QED
    BY <2>1, <2>2, <2>3, Zenon DEF WatchInv, StreamWatched, ShutdownNoticed
<1>3. CASE CallWrite
  <2>1. /\ polling = "idle"
        /\ UNCHANGED <<state, shutdown, polling, panicked, stream_receiver,
                       upstream_open, wrapper, rx_waker, timer_waker,
                       shutdown_waker>>
    BY <1>3, Zenon DEF CallWrite, WriteBlocks, PollWrite, CanWrite, Callable,
                StreamRests, tcbVars, outerVars
  <2>2. /\ pending \ {"write"} \subseteq pending' /\ pending' \subseteq pending
        /\ due \ {"write"} \subseteq due'
        /\ elapsed' => elapsed
    BY <1>3, Zenon DEF CallWrite, Waits, Returns
  <2>3. Pollers' = Pollers /\ Pollers \cap due \subseteq due'
    BY <2>2, Zenon DEF Pollers
  <2>4. StreamWatched'
    BY <2>1, <2>2, <2>3 DEF WatchInv, StreamWatched, Owner
  <2> QED
    BY <2>1, <2>2, <2>4, Zenon DEF WatchInv, ShutdownNoticed
<1>4. CASE FindShutdownReady
  <2>1. /\ shutdown = "Ready" /\ polling = "idle" /\ polling' \in {"idle", "done"}
        /\ UNCHANGED <<state, shutdown, wrapper, shutdown_waker>>
    BY <1>4, Zenon
       DEF FindShutdownReady, ShutdownReady, StreamRests, Callable,
                tcbVars, outerVars
  <2>2. state' = "Closed"
    BY <2>1, Zenon DEF WatchInv, ControlInv, ShutdownReadyIffClosed
  <2>3. pending' = pending \ {"shutdown"}
    BY <1>4, Zenon DEF FindShutdownReady, Returns
  <2> QED
    BY <2>1, <2>2, <2>3, Zenon DEF WatchInv, StreamWatched, ShutdownNoticed
<1> QED
  BY <1>1, <1>2, <1>3, <1>4, Zenon DEF Poll

\* The application begins a call, drops the wrapper, or its spawned task
\* gives up.
LEMMA WatchOwner ==
  ASSUME WatchInv, ControlInv', TaskTypeOK,
         (\E c \in Call : Begin(c)) \/ Drop \/ GiveUp
  PROVE  WatchInv'
<1>1. ASSUME NEW c \in Call, Begin(c)
      PROVE  WatchInv'
  <2>1. UNCHANGED <<state, shutdown, polling, panicked, stream_receiver,
                    upstream_open, wrapper, rx_waker, timer_waker,
                    shutdown_waker, elapsed>>
    BY <1>1, Zenon DEF Begin, StreamRests, tcbVars
  <2>2. /\ pending' = pending \cup {c}
        /\ due \cup {c} \subseteq due'
    BY <1>1, Zenon DEF Begin
  <2>3. Pollers' \cap due' = {} => Pollers' = Pollers /\ Pollers \cap due = {}
    BY <2>2, Zenon DEF Pollers
  <2>4. StreamWatched'
    BY <2>1, <2>3, Zenon DEF WatchInv, StreamWatched, Owner
  <2> QED
    BY <2>1, <2>2, <2>4, Zenon DEF WatchInv, ShutdownNoticed
<1>2. CASE Drop
  <2>1. /\ polling' = "idle" /\ wrapper' = "dropped"
        /\ pending' = {"shutdown"} /\ due' = {"shutdown"}
    BY <1>2, Zenon DEF Drop, DropWrapper, Callable
  <2> QED
    BY <2>1, Zenon DEF WatchInv, StreamWatched, ShutdownNoticed, Pollers
<1>3. CASE GiveUp
  <2>1. /\ polling' = "done" /\ wrapper' = "gone" /\ pending' = {} /\ due' = {}
    BY <1>3, Zenon DEF GiveUp, DropInner
  <2> QED
    BY <2>1, Zenon DEF WatchInv, StreamWatched, ShutdownNoticed
<1> QED
  BY <1>1, <1>2, <1>3, Zenon

\* The timer, the stack's task and the peer.
LEMMA WatchOthers ==
  ASSUME WatchInv, ControlInv', TimerElapses \/ Forget \/ Stop \/ Peer
  PROVE  WatchInv'
\* A waker is used up; the rest of the invariant does not mind.
<1>1. ASSUME UNCHANGED <<state, shutdown, polling, wrapper, pending,
                         shutdown_waker>>,
             due \subseteq due', StreamWatched'
      PROVE  WatchInv'
  BY <1>1, Zenon DEF WatchInv, ShutdownNoticed
<1>2. CASE TimerElapses
  <2>1. /\ UNCHANGED <<state, shutdown, polling, panicked, upstream_open,
                       wrapper, pending, shutdown_waker>>
        /\ due' = due \cup CallsOf({timer_waker})
    BY <1>2, Zenon DEF TimerElapses, StreamRests, tcbVars
  <2>2. StreamWatched'
    BY <2>1, WatchWakes, Zenon DEF WatchInv
  <2> QED
    BY <1>1, <2>1, <2>2, Zenon
<1>3. CASE Forget
  <2>1. UNCHANGED <<state, shutdown, polling, panicked, stream_receiver,
                    upstream_open, wrapper, pending, timer_waker,
                    shutdown_waker, elapsed>>
    BY <1>3, Zenon DEF Forget, SessionRemoved, StreamRests, tcbVars
  <2>2. \/ UNCHANGED <<due, rx_waker>>
        \/ due' = due \cup CallsOf({rx_waker})
    BY <1>3, Zenon DEF Forget, WakeReceiver
  <2>3. StreamWatched'
    <3>1. CASE UNCHANGED <<due, rx_waker>>
      BY <2>1, <3>1, Zenon DEF WatchInv, StreamWatched, Pollers, Owner
    <3>2. CASE due' = due \cup CallsOf({rx_waker})
      BY <2>1, <3>2, WatchWakes, Zenon DEF WatchInv
    <3> QED
      BY <2>2, <3>1, <3>2, Zenon
  <2> QED
    BY <1>1, <2>1, <2>2, <2>3, Zenon
<1>4. CASE Stop
  <2>1. /\ UNCHANGED <<state, shutdown, polling, wrapper, pending,
                       shutdown_waker>>
        /\ ~ upstream_open' /\ due \subseteq due'
    BY <1>4, Zenon DEF Stop, StackStops, WakeReceiver, tcbVars
  <2> QED
    BY <1>1, <2>1, Zenon DEF StreamWatched
<1>5. ASSUME NEW p, Arrive(p)
      PROVE  WatchInv'
  <2>1. UNCHANGED <<state, shutdown, polling, panicked, upstream_open, wrapper,
                    pending, timer_waker, shutdown_waker, elapsed>>
    BY <1>5, Zenon DEF Arrive, tcbVars
  <2>2. \/ UNCHANGED <<stream_receiver, due, rx_waker>>
        \/ due' = due \cup CallsOf({rx_waker})
    BY <1>5, Zenon DEF Arrive, WakeReceiver
  <2>3. CASE UNCHANGED <<stream_receiver, due, rx_waker>>
    BY <2>1, <2>3, WatchFrame, Zenon
  <2>4. CASE due' = due \cup CallsOf({rx_waker})
    <3>1. StreamWatched'
      BY <2>1, <2>4, WatchWakes, Zenon DEF WatchInv
    <3> QED
      BY <1>1, <2>1, <2>4, <3>1, Zenon
  <2> QED
    BY <2>2, <2>3, <2>4, Zenon
<1>6. CASE PeerTakes \/ PeerReads
  <2>1. UNCHANGED <<state, shutdown, polling, panicked, stream_receiver,
                    upstream_open, wrapper, taskVars>>
    BY <1>6, Zenon DEF PeerTakes, PeerReads, StreamRests, tcbVars
  <2> QED
    BY <2>1, WatchFrame, Zenon DEF taskVars
<1> QED
  BY <1>2, <1>3, <1>4, <1>5, <1>6, Zenon
     DEF Peer, PeerAcks, PeerSends, PeerCloses

\* Every step keeps the wakers where they are needed.
LEMMA WatchStep ==
  ASSUME WatchInv, TaskTypeOK, [Next]_allVars
  PROVE  WatchInv'
<1>1. ControlInv'
  BY TaskControlStep, Zenon DEF WatchInv
<1>2. CASE Turn
  BY <1>1, <1>2, WatchContinues, WatchPends, WatchReturns
     DEF Turn, TaskTypeOK
<1>3. CASE Poll
  BY <1>1, <1>3, WatchPoll, Zenon
<1>4. CASE (\E c \in Call : Begin(c)) \/ Drop \/ GiveUp
  BY <1>1, <1>4, WatchOwner, Zenon
<1>5. CASE TimerElapses \/ Forget \/ Stop \/ Peer
  BY <1>1, <1>5, WatchOthers, Zenon
<1>6. CASE UNCHANGED allVars
  <2>1. UNCHANGED <<state, shutdown, polling, panicked, stream_receiver,
                    upstream_open, wrapper, taskVars>>
    BY <1>6, Zenon DEF allVars, vars, streamVars, tcbVars
  <2> QED
    BY <1>1, <2>1, WatchFrame, Zenon DEF taskVars
<1> QED
  BY <1>2, <1>3, <1>4, <1>5, <1>6 DEF Next

\* It holds of a new stream, which nobody has called yet.
LEMMA WatchInit == Init => WatchInv
<1>1. Init => ControlInv
  BY StreamControlInit, Zenon DEF Init
<1> QED
  BY <1>1, Zenon
     DEF Init, StreamInit, WatchInv, StreamWatched, ShutdownNoticed, Pollers

----------------------------------------------------------------------------
(* Types. *)

\* The owner of a call is a task.
LEMMA OwnerType == \A c : Owner(c) \in Task
  BY Zenon DEF Owner, Task

\* A packet of the peer.
LEMMA PeerPacketType ==
  ASSUME TaskTypeOK, NEW flags \in SUBSET Flag, NEW off \in Nat,
         NEW n \in 0 .. MaxSegment
  PROVE  PeerPacket(flags, off, n) \in InPacket
<1> DEFINE k == 1 + peer.sent + IF peer.fin THEN 1 ELSE 0
<1>1. /\ peer.sent \in 0 .. PeerBytes /\ peer.next \in SeqNo /\ peer.held \in Nat
  BY Zenon DEF TaskTypeOK, PeerType
<1>2. k \in 0 .. M
  BY <1>1, TaskAssumption, TcbAssumption
<1> HIDE DEF k
<1>3. WrapAdd(IRS, k) \in SeqNo
  BY <1>2, WrapAddType, StreamAssumption, Zenon
<1>4. SatSub(MaxWindow, peer.held) \in Window
  BY <1>1, TcbAssumption DEF SatSub, Window
<1>5. PeerPacket(flags, off, n) =
        [flags |-> flags, seq |-> WrapAdd(IRS, k), ack |-> peer.next,
         win |-> SatSub(MaxWindow, peer.held), off |-> off, len |-> n]
  BY Zenon DEF PeerPacket, k
<1> QED
  BY <1>1, <1>3, <1>4, <1>5 DEF InPacket

\* What an arrival does to the types.
LEMMA ArriveType ==
  ASSUME TaskTypeOK, NEW p \in InPacket, Arrive(p)
  PROVE  TcbTypeOK' /\ StreamTypeOK'
<1>1. Append(stream_receiver, p) \in Seq(InPacket)
  BY DEF TaskTypeOK, StreamTypeOK
<1>2. stream_receiver' \in Seq(InPacket)
  BY <1>1, Zenon DEF Arrive, TaskTypeOK, StreamTypeOK
<1>3. TcbTypeOK'
  BY TcbTypeFrame, Zenon DEF Arrive, TaskTypeOK
<1>4. <<>> \in Seq(OutPacket)
  OBVIOUS
<1> QED
  BY <1>2, <1>3, <1>4, Zenon DEF Arrive, TaskTypeOK, StreamTypeOK

\* The packets the peer sends, and what it knows of them.
LEMMA PeerSendType ==
  ASSUME TaskTypeOK, PeerAcks \/ PeerSends \/ PeerCloses
  PROVE  TcbTypeOK' /\ StreamTypeOK' /\ peer' \in PeerType
<1>1. CASE PeerAcks
  <2>1. {"ACK"} \in SUBSET Flag /\ 0 \in Nat /\ 0 \in 0 .. MaxSegment
    BY TcbAssumption DEF Flag
  <2>2. TcbTypeOK' /\ StreamTypeOK'
    <3>1. PeerPacket({"ACK"}, 0, 0) \in InPacket
      BY <2>1, PeerPacketType, Zenon
    <3> QED
      BY <1>1, <3>1, ArriveType, Zenon DEF PeerAcks
  <2>3. peer' \in PeerType
    BY <1>1, Zenon DEF PeerAcks, TaskTypeOK, PeerType
  <2> QED
    BY <2>2, <2>3, Zenon
<1>2. CASE PeerSends
  <2>1. PICK flags \in DataFlags, n \in 1 .. MaxSegment :
          /\ peer.sent + n <= PeerBytes
          /\ Arrive(PeerPacket(flags, peer.sent, n))
          /\ peer' = [peer EXCEPT !.sent = @ + n, !.reply = FALSE]
    BY <1>2, Zenon DEF PeerSends
  <2>2. /\ flags \in SUBSET Flag /\ peer.sent \in Nat /\ n \in 0 .. MaxSegment
        /\ peer.sent + n \in 0 .. PeerBytes
    <3>1. flags \in SUBSET Flag
      BY TaskAssumption DEF Flag
    <3>2. peer.sent \in 0 .. PeerBytes
      BY Zenon DEF TaskTypeOK, PeerType
    <3> QED
      BY <2>1, <3>1, <3>2, TaskAssumption, TcbAssumption
  <2>3. TcbTypeOK' /\ StreamTypeOK'
    BY <2>1, <2>2, PeerPacketType, ArriveType, Zenon
  <2>4. peer' \in PeerType
    BY <2>1, <2>2, Zenon DEF TaskTypeOK, PeerType
  <2> QED
    BY <2>3, <2>4, Zenon
<1>3. CASE PeerCloses
  <2>1. {"FIN", "ACK"} \in SUBSET Flag /\ 0 \in Nat /\ 0 \in 0 .. MaxSegment
    BY TcbAssumption DEF Flag
  <2>2. TcbTypeOK' /\ StreamTypeOK'
    <3>1. PeerPacket({"FIN", "ACK"}, 0, 0) \in InPacket
      BY <2>1, PeerPacketType, Zenon
    <3> QED
      BY <1>3, <3>1, ArriveType, Zenon DEF PeerCloses
  <2>3. peer' \in PeerType
    BY <1>3, Zenon DEF PeerCloses, TaskTypeOK, PeerType
  <2> QED
    BY <2>2, <2>3
<1> QED
  BY <1>1, <1>2, <1>3, Zenon

\* A packet takes up its payload, and one number more for a SYN or FIN.
LEMMA CountsRange ==
  ASSUME NEW p, p.len \in Nat
  PROVE  Counts(p) \in Nat /\ p.len <= Counts(p) /\ Counts(p) <= p.len + 1
  BY DEF Counts

\* What the peer takes.
LEMMA PeerTakeType ==
  ASSUME TaskTypeOK, PeerTakes \/ PeerReads
  PROVE  peer' \in PeerType
<1>1. CASE PeerTakes
  <2> DEFINE p == Head(pkt_receiver)
  <2>1. p \in OutPacket
    BY <1>1 DEF PeerTakes, TaskTypeOK
  <2>2. p.len \in 0 .. MSS
    BY <2>1, Zenon DEF OutPacket
  <2> HIDE DEF p
  <2>3. Counts(p) \in 0 .. M /\ p.len \in Nat
    BY <2>2, CountsRange, StreamAssumption, TcbAssumption
  <2>4. peer.next \in SeqNo /\ peer.held \in Nat
    BY Zenon DEF TaskTypeOK, PeerType
  <2>5. WrapAdd(peer.next, Counts(p)) \in SeqNo /\ peer.held + p.len \in Nat
    BY <2>3, <2>4, WrapAddType
  <2>6. PICK a \in SeqNo, h \in Nat, c \in BOOLEAN, r \in BOOLEAN :
          peer' = [peer EXCEPT !.next = a, !.held = h, !.closing = c, !.reply = r]
    <3>1. /\ (IF p.seq = peer.next THEN WrapAdd(peer.next, Counts(p))
              ELSE peer.next) \in SeqNo
          /\ (IF p.seq = peer.next THEN peer.held + p.len ELSE peer.held) \in Nat
      BY <2>4, <2>5, Zenon
    <3>2. /\ (peer.closing \/ "FIN" \in p.flags) \in BOOLEAN
          /\ ((peer.reply \/ Counts(p) > 0) /\ "RST" \notin p.flags) \in BOOLEAN
      BY Zenon
    <3>3. peer' = [peer EXCEPT
            !.next = IF p.seq = peer.next THEN WrapAdd(peer.next, Counts(p))
                     ELSE peer.next,
            !.held = IF p.seq = peer.next THEN peer.held + p.len ELSE peer.held,
            !.closing = peer.closing \/ "FIN" \in p.flags,
            !.reply = (peer.reply \/ Counts(p) > 0) /\ "RST" \notin p.flags]
      BY <1>1, Zenon DEF PeerTakes, p
    <3> QED
      BY <3>1, <3>2, <3>3, Zenon
  <2> QED
    BY <2>6, Zenon DEF TaskTypeOK, PeerType
<1>2. CASE PeerReads
  <2>1. 0 \in Nat
    BY Zenon
  <2> QED
    BY <1>2, <2>1, Zenon DEF PeerReads, TaskTypeOK, PeerType
<1> QED
  BY <1>1, <1>2, Zenon

\* Each step keeps the types of the stream.
LEMMA TaskStreamTypeStep ==
  ASSUME TaskTypeOK, [Next]_allVars
  PROVE  TcbTypeOK' /\ StreamTypeOK'
<1>1. TcbTypeOK /\ StreamTypeOK
  BY Zenon DEF TaskTypeOK
<1>2. CASE PollReadTurn
  BY <1>1, <1>2, TurnTcbType, TurnStreamType, Zenon
<1>3. CASE OwnerCall \/ StackStep
  BY <1>1, <1>3, CallType, Zenon
<1>4. CASE \E n \in WriteLens : PollWrite(n)
  BY <1>1, <1>4, WriteType, Zenon
<1>5. CASE PeerAcks \/ PeerSends \/ PeerCloses
  BY <1>5, PeerSendType, Zenon
<1>6. CASE Rests
  <2>1. TcbTypeOK'
    BY <1>1, <1>6, TcbTypeFrame, Zenon DEF Rests, Quiet
  <2>2. sent' \in Seq(OutPacket)
    <3>1. <<>> \in Seq(OutPacket)
      OBVIOUS
    <3> QED
      BY <1>1, <1>6, <3>1, Zenon DEF Rests, StreamTypeOK
  <2> QED
    BY <1>1, <1>6, <2>1, <2>2, Zenon DEF Rests, Quiet, StreamTypeOK
<1> QED
  BY <1>2, <1>3, <1>4, <1>5, <1>6, StepKinds, Zenon

\* Which calls are pending, and which of them are due.
LEMMA CallsType ==
  ASSUME pending \subseteq Call, due \subseteq pending, [Next]_allVars
  PROVE  pending' \subseteq Call /\ due' \subseteq pending'
<1>1. \A t : CallsOf(t) \subseteq pending
  BY Zenon DEF CallsOf
<1>2. ASSUME pending' = pending,
             \/ due' \subseteq due
             \/ \E t : due' = due \cup CallsOf(t)
      PROVE  pending' \subseteq Call /\ due' \subseteq pending'
  BY <1>1, <1>2, Zenon
<1>3. ASSUME NEW c, Returns(c)
      PROVE  pending' \subseteq Call /\ due' \subseteq pending'
  BY <1>1, <1>3, Zenon DEF Returns
<1>4. CASE Turn
  BY <1>2, <1>3, <1>4, Zenon DEF Turn, TurnReturns, TurnPends, TurnContinues
<1>5. CASE Poll
  <2>1. CASE CallRead \/ CallShutdown
    BY <1>2, <2>1, Zenon DEF CallRead, CallShutdown
  <2>2. CASE CallWrite
    BY <1>2, <1>3, <2>2, Zenon DEF CallWrite, Waits
  <2>3. CASE FindShutdownReady
    BY <1>3, <2>3, Zenon DEF FindShutdownReady
  <2> QED
    BY <1>5, <2>1, <2>2, <2>3 DEF Poll
<1>6. ASSUME NEW c \in Call, Begin(c)
      PROVE  pending' \subseteq Call /\ due' \subseteq pending'
  BY <1>1, <1>6, Zenon DEF Begin
<1>7. CASE Drop \/ GiveUp
  BY <1>7, Zenon DEF Drop, GiveUp, Call
<1>8. CASE TimerElapses
  BY <1>2, <1>8, Zenon DEF TimerElapses
<1>9. CASE Forget \/ Stop
  BY <1>2, <1>9, Zenon DEF Forget, Stop, WakeReceiver
<1>10. ASSUME NEW p, Arrive(p)
       PROVE  pending' \subseteq Call /\ due' \subseteq pending'
  <2>1. pending' = pending
    BY <1>10, Zenon DEF Arrive
  <2>2. due' = due \/ due' = due \cup CallsOf({rx_waker})
    BY <1>10, Zenon DEF Arrive, WakeReceiver
  <2> QED
    BY <1>1, <2>1, <2>2, Zenon
<1>11. CASE PeerTakes \/ PeerReads \/ UNCHANGED allVars
  BY <1>11, Zenon DEF PeerTakes, PeerReads, taskVars, allVars
<1> QED
  BY <1>4, <1>5, <1>6, <1>7, <1>8, <1>9, <1>10, <1>11, Zenon
     DEF Next, Peer, PeerAcks, PeerSends, PeerCloses

\* The wakers belong to tasks.
LEMMA WakersType ==
  ASSUME rx_waker \in Task, timer_waker \in Task, shutdown_waker \in Task,
         [Next]_allVars
  PROVE  rx_waker' \in Task /\ timer_waker' \in Task /\ shutdown_waker' \in Task
<1>1. Nobody \in Task /\ Poller \in Task /\ Owner("shutdown") \in Task
  BY OwnerType, Zenon DEF Task, Poller
<1>2. CASE Turn
  BY <1>1, <1>2, Zenon DEF Turn, TurnReturns, TurnPends, TurnContinues
<1>3. CASE Poll
  BY <1>1, <1>3, Zenon
     DEF Poll, CallRead, CallWrite, CallShutdown, FindShutdownReady
<1>4. CASE (\E c \in Call : Begin(c)) \/ Drop \/ GiveUp \/ TimerElapses
  BY <1>1, <1>4, Zenon DEF Begin, Drop, GiveUp, TimerElapses
<1>5. CASE Forget \/ Stop
  BY <1>1, <1>5, Zenon DEF Forget, Stop, WakeReceiver
<1>6. CASE Peer
  BY <1>1, <1>6, Zenon
     DEF Peer, PeerTakes, PeerReads, PeerAcks, PeerSends, PeerCloses, Arrive,
         WakeReceiver, taskVars
<1>7. CASE UNCHANGED allVars
  BY <1>7, Zenon DEF allVars, taskVars
<1> QED
  BY <1>2, <1>3, <1>4, <1>5, <1>6, <1>7, Zenon DEF Next

\* Each step keeps the types.
LEMMA TaskTypeStep ==
  ASSUME TaskTypeOK, [Next]_allVars
  PROVE  TaskTypeOK'
<1>1. TcbTypeOK' /\ StreamTypeOK'
  BY TaskStreamTypeStep, Zenon
<1>2. pending' \subseteq Call /\ due' \subseteq pending'
  BY CallsType, Zenon DEF TaskTypeOK
<1>3. rx_waker' \in Task /\ timer_waker' \in Task /\ shutdown_waker' \in Task
  BY WakersType, Zenon DEF TaskTypeOK
<1>4. elapsed' \in BOOLEAN
  <2>1. elapsed \in BOOLEAN
    BY Zenon DEF TaskTypeOK
  <2>2. CASE Turn
    BY <2>1, <2>2, Zenon DEF Turn, TurnReturns, TurnPends, TurnContinues
  <2>3. CASE Poll
    BY <2>1, <2>3, Zenon
       DEF Poll, CallRead, CallWrite, CallShutdown, FindShutdownReady
  <2>4. CASE (\E c \in Call : Begin(c)) \/ Drop \/ GiveUp \/ TimerElapses
    BY <2>1, <2>4, Zenon DEF Begin, Drop, GiveUp, TimerElapses
  <2>5. CASE Forget \/ Stop
    BY <2>1, <2>5, Zenon DEF Forget, Stop
  <2>6. CASE Peer
    BY <2>1, <2>6, Zenon
       DEF Peer, PeerTakes, PeerReads, PeerAcks, PeerSends, PeerCloses, Arrive,
           taskVars
  <2>7. CASE UNCHANGED allVars
    BY <2>1, <2>7, Zenon DEF allVars, taskVars
  <2> QED
    BY <2>2, <2>3, <2>4, <2>5, <2>6, <2>7, Zenon DEF Next
<1>5. /\ pkt_receiver' \in Seq(OutPacket)
      /\ peer' \in PeerType
  <2>1. pkt_receiver \in Seq(OutPacket) /\ peer \in PeerType
    BY Zenon DEF TaskTypeOK
  <2>2. Emit => pkt_receiver' \in Seq(OutPacket)
    <3>1. sent' \in Seq(OutPacket)
      BY <1>1, Zenon DEF StreamTypeOK
    <3> QED
      BY <2>1, <3>1 DEF Emit
  <2>3. CASE Turn
    BY <2>1, <2>2, <2>3, Zenon DEF Turn, TurnReturns, TurnPends, TurnContinues
  <2>4. CASE Poll
    BY <2>1, <2>2, <2>4, Zenon
       DEF Poll, CallRead, CallWrite, CallShutdown, FindShutdownReady
  <2>5. CASE (\E c \in Call : Begin(c)) \/ Drop \/ GiveUp \/ TimerElapses
    BY <2>1, <2>2, <2>5, Zenon DEF Begin, Drop, GiveUp, TimerElapses
  <2>6. pkt_receiver # <<>> => Tail(pkt_receiver) \in Seq(OutPacket)
    BY <2>1
  <2>7. CASE Forget \/ Stop
    <3>1. <<>> \in Seq(OutPacket)
      OBVIOUS
    <3> QED
      BY <2>1, <2>6, <2>7, <3>1, Zenon DEF Forget, Stop
  <2>8. CASE PeerTakes \/ PeerReads
    <3>1. peer' \in PeerType
      BY <2>8, PeerTakeType
    <3> QED
      BY <2>1, <2>6, <2>8, <3>1, Zenon DEF PeerTakes, PeerReads
  <2>9. CASE PeerAcks \/ PeerSends \/ PeerCloses
    <3>1. peer' \in PeerType
      BY <2>9, PeerSendType, Zenon
    <3> QED
      BY <2>1, <2>9, <3>1, Zenon DEF PeerAcks, PeerSends, PeerCloses, Arrive
  <2>10. CASE UNCHANGED allVars
    BY <2>1, <2>10, Zenon DEF allVars
  <2> QED
    BY <2>3, <2>4, <2>5, <2>7, <2>8, <2>9, <2>10, Zenon DEF Next, Peer
<1> QED
  BY <1>1, <1>2, <1>3, <1>4, <1>5, Zenon DEF TaskTypeOK

\* A new stream and a silent peer have their types.
LEMMA TaskTypeInit == Init => TaskTypeOK
<1> SUFFICES ASSUME Init
             PROVE  TaskTypeOK
  BY Zenon
<1>1. TcbTypeOK /\ StreamTypeOK
  BY StreamTypeInit, Zenon DEF Init
<1>2. /\ pending = {} /\ due = {}
      /\ rx_waker = Nobody /\ timer_waker = Nobody /\ shutdown_waker = Nobody
      /\ Nobody \in Task
  BY Zenon DEF Init, Task
<1>3. elapsed \in BOOLEAN
  BY Zenon DEF Init
<1>4. pkt_receiver \in Seq(OutPacket)
  BY DEF Init
<1>5. peer \in PeerType
  <2>1. 0 \in 0 .. PeerBytes /\ 0 \in Nat /\ ISS \in SeqNo
    BY TaskAssumption, StreamAssumption
  <2> QED
    BY <2>1, Zenon DEF Init, PeerInit, PeerType
<1> QED
  BY <1>1, <1>2, <1>3, <1>4, <1>5, Zenon DEF TaskTypeOK

\* The calls, the wakers, the packets on their way and the peer have their
\* types, the stream's included.
THEOREM TaskTypeCorrect == Spec => []TaskTypeOK
<1>1. Init => TaskTypeOK
  BY TaskTypeInit, Zenon
<1>2. TaskTypeOK /\ [Next]_allVars => TaskTypeOK'
  BY TaskTypeStep, Zenon
<1> QED
  BY <1>1, <1>2, PTL DEF Spec

\* The wakers are where they are needed, always.
THEOREM WatchCorrect == Spec => []WatchInv
<1>1. Init => WatchInv
  BY WatchInit
<1>2. WatchInv /\ TaskTypeOK /\ [Next]_allVars => WatchInv'
  BY WatchStep, Zenon
<1> QED
  BY <1>1, <1>2, TaskTypeCorrect, PTL DEF Spec

\* No wake-up is lost between the packet queue, the timer and poll_read: one
\* task or two, and whichever call polled last.
THEOREM NoLostWakeUp == Spec => []StreamWatched
<1>1. WatchInv => StreamWatched
  BY DEF WatchInv
<1> QED
  BY <1>1, WatchCorrect, PTL

\* No shutdown is left waiting by the call that closed the connection.
THEOREM ShutdownWoken == Spec => []ShutdownNoticed
<1>1. WatchInv => ShutdownNoticed
  BY Zenon DEF WatchInv
<1> QED
  BY <1>1, WatchCorrect, PTL

============================================================================
