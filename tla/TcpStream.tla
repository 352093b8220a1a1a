----------------------------- MODULE TcpStream -----------------------------
(***************************************************************************)
(* One TCP stream: IpStackTcpStream of src/stream/tcp.rs over its Tcb, and *)
(* the wrapper of src/stream/tcp_wrapper.rs that the application holds.    *)
(*                                                                         *)
(* poll_read is a loop.  The stream is borrowed mutably for the whole call *)
(* (`polling'), but the stack's task keeps pushing packets into            *)
(* stream_receiver meanwhile, so each turn of the loop is one action.  The *)
(* other calls are one action each.  This module is the stream alone; a    *)
(* module that extends it says which packets arrive.                       *)
(*                                                                         *)
(* `retransmission' is not a variable: it is set only by the branch        *)
(* RecvRetransmissionRequest, which calls poll_flush at once, which takes  *)
(* it back, so it is None whenever another call could look at it.          *)
(***************************************************************************)
EXTENDS Tcb, Sequences

CONSTANTS
  ISS,        \* our initial sequence number: 100, or random in release
  IRS,        \* sequence number of the peer's SYN
  MSS,        \* mtu minus the IP and TCP headers, or 0 if they do not fit
  AppBuf,     \* size of the buffer the application reads into
  WriteLens   \* sizes of the buffers the application writes

ASSUME StreamAssumption ==
  /\ ISS \in SeqNo
  /\ IRS \in SeqNo
  /\ MSS \in Nat
  /\ AppBuf \in Nat
  /\ WriteLens \subseteq Nat
  /\ MAX_UNACK + MSS < M

\* The sequence number of the peer's first byte.
Base == WrapAdd(IRS, 1)

TTL == 64
DROP_TTL == 0

VARIABLES
  shutdown,         \* Shutdown: "None", "Pending" (a waker is kept), "Ready"
  write_notify,     \* the waker of a blocked writer is kept
  packet_to_send,   \* Option<NetworkPacket>: <<>> or <<packet>>
  polling,          \* whose call of poll_read is in its loop
  panicked,         \* the stream's task has panicked
  stream_receiver,  \* packets of the peer, queued by the stack's task
  session,          \* the stack's session table still has our sender
  upstream_open,    \* the stack's task still receives packets to send
  wrapper,          \* the application's handle: held, dropped, inner gone
  delivered,        \* every byte poll_read has handed to the application
  sent              \* what this step put on packet_sender

streamVars == <<shutdown, write_notify, packet_to_send, polling, panicked,
                stream_receiver, session, upstream_open, wrapper, delivered,
                sent>>
vars == <<tcbVars, streamVars>>

Flag == {"SYN", "ACK", "FIN", "RST", "PSH"}
InPacket == [flags : SUBSET Flag, seq : SeqNo, ack : SeqNo, win : Window,
             off : Nat, len : 0 .. MaxSegment]
OutPacket == [flags : SUBSET Flag, ttl : {TTL, DROP_TTL}, seq : SeqNo,
              ack : SeqNo, win : 0 .. READ_BUFFER_SIZE, len : 0 .. MSS]

StreamTypeOK ==
  /\ shutdown \in {"None", "Pending", "Ready"}
  /\ write_notify \in BOOLEAN
  /\ packet_to_send \in Seq(OutPacket) /\ Len(packet_to_send) <= 1
  /\ polling \in {"idle", "read", "shutdown", "done"}
  /\ panicked \in BOOLEAN
  /\ stream_receiver \in Seq(InPacket)
  /\ session \in BOOLEAN
  /\ upstream_open \in BOOLEAN
  /\ wrapper \in {"held", "dropped", "gone"}
  /\ delivered \in Seq(Nat)
  /\ sent \in Seq(OutPacket)

Least(a, b) == IF a <= b THEN a ELSE b

\* calculate_payload_len, applied by create_rev_packet to a payload of n
\* bytes when the peer's window is w.
PayloadLen(n, w) == Least(n, Least(w, MSS))

\* create_rev_packet, with the acknowledgment number a, the window w and the
\* payload length n the caller has established.
RevPacket(flags, ttl, s, a, w, n) ==
  [flags |-> flags, ttl |-> ttl, seq |-> s, ack |-> a, win |-> w, len |-> n]

\* packet_sender.send for each packet: lost when the stack's task is gone.
Send(packets) == sent' = IF upstream_open THEN packets ELSE <<>>

\* The bytes of a payload, each named by its offset in the peer's stream.
Bytes(payload) == [i \in 1 .. payload.len |-> payload.off + i - 1]

----------------------------------------------------------------------------
(* IpStackTcpStream::new, for the SYN that opened the stream. *)
StreamInit ==
  /\ TcbInit(ISS, IRS)
  /\ shutdown = "None"
  /\ write_notify = FALSE
  /\ packet_to_send = <<>>
  /\ polling = "idle"
  /\ panicked = FALSE
  /\ stream_receiver = <<>>
  /\ session = TRUE
  /\ upstream_open = TRUE
  /\ wrapper = "held"
  /\ delivered = <<>>
  /\ sent = <<>>

----------------------------------------------------------------------------
(* One turn of poll_read's loop. *)

Polled == polling \in {"read", "shutdown"} /\ ~ panicked
Flushable == packet_to_send # <<>> => upstream_open

\* poll_read returns Ready.  If the call comes from the task that the
\* dropped wrapper spawned, its shutdown() future completes.
Return == polling' = IF wrapper = "dropped" THEN "done" ELSE "idle"

\* What a turn never changes: the packet queue's owner and the handle.
outerVars == <<session, upstream_open, wrapper>>

\* packet_to_send cannot be sent: UnexpectedEof, and the packet is gone.
FlushFails ==
  /\ Polled
  /\ ~ Flushable
  /\ packet_to_send' = <<>>
  /\ Return
  /\ sent' = <<>>
  /\ UNCHANGED <<tcbVars, shutdown, write_notify, panicked, stream_receiver,
                 outerVars, delivered>>

\* Closed: end of stream.
ReadClosed ==
  /\ Polled
  /\ Flushable
  /\ state = "Closed"
  /\ Send(packet_to_send)
  /\ packet_to_send' = <<>>
  /\ shutdown' = "Ready"
  /\ Return
  /\ UNCHANGED <<tcbVars, write_notify, panicked, stream_receiver, outerVars,
                 delivered>>

\* Variant: the shutdown is not marked ready.
ReadAborted_NotReady ==
  /\ Polled
  /\ Flushable
  /\ state = "FinWait2(false)"
  /\ Send(packet_to_send)
  /\ packet_to_send' = <<RevPacket({}, DROP_TTL, seq, ack, recv_window, 0)>>
  /\ state' = "Closed"
  /\ Return
  /\ UNCHANGED <<seq, ack, last_ack, recv_window, send_window,
                 avg_send_window, inflight_packets, unordered_packets, shutdown,
                 write_notify, panicked, stream_receiver, outerVars, delivered>>

\* FinWait2(false): ask the stack to forget the session; ConnectionAborted.
ReadAborted ==
  /\ Polled
  /\ Flushable
  /\ state = "FinWait2(false)"
  /\ Send(packet_to_send)
  /\ packet_to_send' = <<RevPacket({}, DROP_TTL, seq, ack, recv_window, 0)>>
  /\ state' = "Closed"
  /\ shutdown' = "Ready"
  /\ Return
  /\ UNCHANGED <<seq, ack, last_ack, recv_window, send_window,
                 avg_send_window, inflight_packets, unordered_packets,
                 write_notify, panicked, stream_receiver, outerVars, delivered>>

\* Variant: a closed stream goes on with the turn.
Proceed_Closed ==
  /\ Polled
  /\ Flushable
  /\ state # "FinWait2(false)"
  /\ recv_window' = AvailableReadBufferSize

\* The rest of a turn starts by refreshing the window we advertise.
Proceed ==
  /\ Polled
  /\ Flushable
  /\ state \notin {"Closed", "FinWait2(false)"}
  /\ recv_window' = AvailableReadBufferSize

\* The timer has run out: reset the peer; TimedOut.  Which turn finds the
\* timer elapsed is left open.  When the reset cannot be sent the call
\* fails before the state changes.
TimeoutReached ==
  /\ Proceed
  /\ Send(packet_to_send
            \o <<RevPacket({"RST", "ACK"}, TTL, seq, ack, recv_window', 0)>>)
  /\ packet_to_send' = <<>>
  /\ IF upstream_open
     THEN state' = "Closed" /\ shutdown' = "Ready"
     ELSE UNCHANGED <<state, shutdown>>
  /\ Return
  /\ UNCHANGED <<seq, ack, last_ack, send_window, avg_send_window,
                 inflight_packets, unordered_packets, write_notify, panicked,
                 stream_receiver, outerVars, delivered>>

\* SynReceived(false): answer the SYN.
SendSynAck ==
  /\ Proceed
  /\ state = "SynReceived(false)"
  /\ Send(packet_to_send)
  /\ packet_to_send' =
       <<RevPacket({"SYN", "ACK"}, TTL, seq, ack, recv_window', 0)>>
  /\ seq' = WrapAdd(seq, 1)
  /\ state' = "SynReceived(true)"
  /\ UNCHANGED <<ack, last_ack, send_window, avg_send_window,
                 inflight_packets, unordered_packets, shutdown, write_notify,
                 polling, panicked, stream_receiver, outerVars, delivered>>

\* Variant: payload is delivered after a shutdown was asked for.
CanDeliver_Always == NextPayload.len > 0

\* The payload at ack, if any, is taken from the buffer; it is delivered
\* only while no shutdown has been asked for, and dropped otherwise.
CanDeliver == shutdown = "None" /\ NextPayload.len > 0

\* put_slice panics when the payload is longer than the caller's buffer: the
\* application's, or the one byte poll_shutdown passes.
Capacity == IF polling = "read" THEN AppBuf ELSE 1

\* Hand the payload to the reader and acknowledge it.  When the
\* acknowledgment cannot be sent the call fails, and the bytes with it.
Deliver ==
  /\ Proceed
  /\ state # "SynReceived(false)"
  /\ CanDeliver
  /\ ack' = WrapAdd(ack, NextPayload.len)
  /\ unordered_packets' = WithoutNextPayload
  /\ panicked' = (NextPayload.len > Capacity)
  /\ delivered' = IF panicked' \/ ~ upstream_open
                  THEN delivered
                  ELSE delivered \o Bytes(NextPayload)
  /\ Send(IF panicked'
          THEN packet_to_send
          ELSE packet_to_send
                 \o <<RevPacket({"ACK"}, TTL, seq, ack', recv_window', 0)>>)
  /\ packet_to_send' = <<>>
  /\ Return
  /\ UNCHANGED <<state, seq, last_ack, send_window, avg_send_window,
                 inflight_packets, shutdown, write_notify, stream_receiver,
                 outerVars>>

\* FinWait1(true), the peer has closed: send our FIN.
SendPassiveFin ==
  /\ Proceed
  /\ state = "FinWait1(true)"
  /\ ~ CanDeliver
  /\ unordered_packets' = WithoutNextPayload
  /\ Send(packet_to_send)
  /\ packet_to_send' =
       <<RevPacket({"FIN", "ACK"}, TTL, seq, ack, recv_window', 0)>>
  /\ seq' = WrapAdd(seq, 1)
  /\ ack' = WrapAdd(ack, 1)
  /\ state' = "FinWait2(true)"
  /\ UNCHANGED <<last_ack, send_window, avg_send_window, inflight_packets,
                 shutdown, write_notify, polling, panicked, stream_receiver,
                 outerVars, delivered>>

\* Variant: the FIN does not wait for the data before it.
CanSendActiveFin_Early == shutdown = "Pending" /\ state = "Established"

\* A shutdown is pending and the peer has acknowledged everything: send FIN.
CanSendActiveFin ==
  shutdown = "Pending" /\ state = "Established" /\ last_ack = seq

SendActiveFin ==
  /\ Proceed
  /\ CanSendActiveFin
  /\ unordered_packets' = WithoutNextPayload
  /\ Send(packet_to_send)
  /\ packet_to_send' =
       <<RevPacket({"FIN", "ACK"}, TTL, seq, ack, recv_window', 0)>>
  /\ seq' = WrapAdd(seq, 1)
  /\ state' = "FinWait1(false)"
  /\ UNCHANGED <<ack, last_ack, send_window, avg_send_window,
                 inflight_packets, shutdown, write_notify, polling, panicked,
                 stream_receiver, outerVars, delivered>>

----------------------------------------------------------------------------
(* The turns that poll stream_receiver. *)

Receive ==
  /\ Proceed
  /\ state \notin {"SynReceived(false)", "FinWait1(true)"}
  /\ ~ CanDeliver
  /\ ~ CanSendActiveFin

\* The queue is empty: Pending.  When every sender is gone: end of stream.
RecvNothing ==
  /\ Receive
  /\ stream_receiver = <<>>
  /\ IF session \/ wrapper = "held" THEN polling' = "idle" ELSE Return
  /\ unordered_packets' = WithoutNextPayload
  /\ Send(packet_to_send)
  /\ packet_to_send' = <<>>
  /\ UNCHANGED <<state, seq, ack, last_ack, send_window, avg_send_window,
                 inflight_packets, shutdown, write_notify, panicked,
                 stream_receiver, outerVars, delivered>>

pkt == Head(stream_receiver)

RecvPacket ==
  /\ Receive
  /\ stream_receiver # <<>>
  /\ stream_receiver' = Tail(stream_receiver)
  /\ UNCHANGED <<outerVars, delivered>>

\* RST: forget the session; ConnectionReset.
RecvRst ==
  /\ RecvPacket
  /\ "RST" \in pkt.flags
  /\ unordered_packets' = WithoutNextPayload
  /\ Send(packet_to_send)
  /\ packet_to_send' = <<RevPacket({}, DROP_TTL, seq, ack, recv_window', 0)>>
  /\ state' = "Closed"
  /\ shutdown' = "Ready"
  /\ Return
  /\ UNCHANGED <<seq, ack, last_ack, send_window, avg_send_window,
                 inflight_packets, write_notify, panicked>>

\* Variant: the call returns Pending instead of going round the loop.
RecvContinue_Returns ==
  /\ RecvPacket
  /\ "RST" \notin pkt.flags
  /\ polling' = "idle"
  /\ UNCHANGED shutdown

\* Every other packet ends the turn with `continue'.
RecvContinue ==
  /\ RecvPacket
  /\ "RST" \notin pkt.flags
  /\ UNCHANGED <<shutdown, polling>>

RecvValid == RecvContinue /\ CheckPktType(pkt) # "Invalid"

\* Packets no branch matches.
Unmatched ==
  \/ CheckPktType(pkt) = "Invalid"
  \/ state = "SynReceived(true)" /\ pkt.flags # {"ACK"}
  \/ state = "Established"
       /\ pkt.flags \notin {{"ACK"}, {"FIN", "ACK"}, {"PSH", "ACK"}}
  \/ state = "Established"
       /\ pkt.flags = {"PSH", "ACK"}
       /\ CheckPktType(pkt) # "NewPacket"
  \/ state \in {"FinWait1(false)", "FinWait2(true)"}
       /\ pkt.flags \notin {{"ACK"}, {"FIN", "ACK"}}

RecvIgnored ==
  /\ RecvContinue
  /\ Unmatched
  /\ unordered_packets' = WithoutNextPayload
  /\ Send(packet_to_send)
  /\ packet_to_send' = <<>>
  /\ UNCHANGED <<state, seq, ack, last_ack, send_window, avg_send_window,
                 inflight_packets, write_notify, panicked>>

\* SynReceived(true): the acknowledgment that completes the handshake.
RecvHandshakeAck ==
  /\ RecvValid
  /\ state = "SynReceived(true)"
  /\ pkt.flags = {"ACK"}
  /\ unordered_packets' = WithoutNextPayload
  /\ ChangeLastAck(pkt.ack)
  /\ ChangeSendWindow(pkt.win)
  /\ state' = "Established"
  /\ Send(packet_to_send)
  /\ packet_to_send' = <<>>
  /\ UNCHANGED <<seq, ack, write_notify, panicked>>

----------------------------------------------------------------------------
(* Established: packets with the ACK flag alone, by check_pkt_type. *)

RecvAckIs(status) ==
  /\ RecvContinue
  /\ state = "Established"
  /\ pkt.flags = {"ACK"}
  /\ CheckPktType(pkt) = status

\* write_notify is woken and forgotten.
WakeWriter == write_notify' = FALSE

\* change_last_ack evaluates InflightPacket::contains.
AckOverflow == panicked' = ContainsOverflows(pkt.ack)

RecvWindowUpdate ==
  /\ RecvAckIs("WindowUpdate")
  /\ unordered_packets' = WithoutNextPayload
  /\ ChangeSendWindow(pkt.win)
  /\ WakeWriter
  /\ Send(packet_to_send)
  /\ packet_to_send' = <<>>
  /\ UNCHANGED <<state, seq, ack, last_ack, inflight_packets, panicked>>

RecvKeepAlive ==
  /\ RecvAckIs("KeepAlive")
  /\ unordered_packets' = WithoutNextPayload
  /\ ChangeLastAck(pkt.ack)
  /\ AckOverflow
  /\ ChangeSendWindow(pkt.win)
  /\ Send(packet_to_send)
  /\ packet_to_send' =
       <<RevPacket({"ACK"}, TTL, seq, ack, recv_window', 0)>>
  /\ UNCHANGED <<state, seq, ack, write_notify>>

\* poll_flush: send the packet that starts at the acknowledgment number
\* again, cut to the window just received; panic when there is none.
RecvRetransmissionRequest ==
  /\ RecvAckIs("RetransmissionRequest")
  /\ unordered_packets' = WithoutNextPayload
  /\ ChangeSendWindow(pkt.win)
  /\ IF InflightAt(pkt.ack) # {}
     THEN /\ Send(packet_to_send
                    \o <<RevPacket({"PSH", "ACK"}, TTL, pkt.ack, ack,
                                   recv_window',
                                   PayloadLen(FirstInflightAt(pkt.ack).len,
                                              pkt.win))>>)
          /\ UNCHANGED panicked
     ELSE /\ Send(packet_to_send)
          /\ panicked' = TRUE
  /\ packet_to_send' = <<>>
  /\ UNCHANGED <<state, seq, ack, last_ack, inflight_packets, write_notify>>

\* Variant: an acknowledgment that carries data does not wake the writer.
RecvNewPacket_Sleeps ==
  /\ RecvAckIs("NewPacket")
  /\ ChangeLastAck(pkt.ack)
  /\ AckOverflow
  /\ unordered_packets' =
       AddUnorderedPacket(WithoutNextPayload, pkt.seq,
                          [off |-> pkt.off, len |-> pkt.len])
  /\ ChangeSendWindow(pkt.win)
  /\ Send(packet_to_send)
  /\ packet_to_send' = <<>>
  /\ UNCHANGED <<state, seq, ack, write_notify>>

RecvNewPacket ==
  /\ RecvAckIs("NewPacket")
  /\ ChangeLastAck(pkt.ack)
  /\ AckOverflow
  /\ unordered_packets' =
       AddUnorderedPacket(WithoutNextPayload, pkt.seq,
                          [off |-> pkt.off, len |-> pkt.len])
  /\ ChangeSendWindow(pkt.win)
  /\ WakeWriter
  /\ Send(packet_to_send)
  /\ packet_to_send' = <<>>
  /\ UNCHANGED <<state, seq, ack>>

RecvAck ==
  /\ RecvAckIs("Ack")
  /\ unordered_packets' = WithoutNextPayload
  /\ ChangeLastAck(pkt.ack)
  /\ AckOverflow
  /\ ChangeSendWindow(pkt.win)
  /\ WakeWriter
  /\ Send(packet_to_send)
  /\ packet_to_send' = <<>>
  /\ UNCHANGED <<state, seq, ack>>

----------------------------------------------------------------------------
(* Established: PSH|ACK and FIN|ACK. *)

\* A payload that is not the next one expected is not kept.
RecvPsh ==
  /\ RecvContinue
  /\ state = "Established"
  /\ pkt.flags = {"PSH", "ACK"}
  /\ CheckPktType(pkt) = "NewPacket"
  /\ ChangeLastAck(pkt.ack)
  /\ AckOverflow
  /\ IF ack = pkt.seq
     THEN /\ ChangeSendWindow(pkt.win)
          /\ unordered_packets' =
               AddUnorderedPacket(WithoutNextPayload, pkt.seq,
                                  [off |-> pkt.off, len |-> pkt.len])
     ELSE /\ UNCHANGED <<send_window, avg_send_window>>
          /\ unordered_packets' = WithoutNextPayload
  /\ Send(packet_to_send)
  /\ packet_to_send' = <<>>
  /\ UNCHANGED <<state, seq, ack, write_notify>>

\* Variant: a FIN is taken, and counted, in any state.
RecvFin_AnyState ==
  /\ RecvValid
  /\ pkt.flags = {"FIN", "ACK"}
  /\ unordered_packets' = WithoutNextPayload
  /\ ack' = WrapAdd(ack, 1)
  /\ Send(packet_to_send)
  /\ packet_to_send' =
       <<RevPacket({"ACK"}, TTL, seq, ack', recv_window', 0)>>
  /\ state' = "FinWait1(true)"
  /\ UNCHANGED <<seq, last_ack, send_window, avg_send_window,
                 inflight_packets, write_notify, panicked>>

RecvFin ==
  /\ RecvValid
  /\ state = "Established"
  /\ pkt.flags = {"FIN", "ACK"}
  /\ unordered_packets' = WithoutNextPayload
  /\ ack' = WrapAdd(ack, 1)
  /\ Send(packet_to_send)
  /\ packet_to_send' =
       <<RevPacket({"ACK"}, TTL, seq, ack', recv_window', 0)>>
  /\ state' = "FinWait1(true)"
  /\ UNCHANGED <<seq, last_ack, send_window, avg_send_window,
                 inflight_packets, write_notify, panicked>>

----------------------------------------------------------------------------
(* FinWait1(false), our FIN is out; FinWait2(true). *)

FinWait1Ack ==
  /\ RecvValid
  /\ state = "FinWait1(false)"
  /\ pkt.flags = {"ACK"}
  /\ unordered_packets' = WithoutNextPayload
  /\ ChangeLastAck(pkt.ack)
  /\ ack' = WrapAdd(ack, 1)
  /\ state' = "FinWait2(true)"
  /\ Send(packet_to_send)
  /\ packet_to_send' = <<>>
  /\ UNCHANGED <<seq, send_window, avg_send_window, write_notify, panicked>>

FinWait1Fin ==
  /\ RecvValid
  /\ state = "FinWait1(false)"
  /\ pkt.flags = {"FIN", "ACK"}
  /\ unordered_packets' = WithoutNextPayload
  /\ ack' = WrapAdd(ack, 1)
  /\ Send(packet_to_send)
  /\ packet_to_send' =
       <<RevPacket({"ACK"}, TTL, seq, ack', recv_window', 0)>>
  /\ ChangeSendWindow(pkt.win)
  /\ state' = "FinWait2(true)"
  /\ UNCHANGED <<seq, last_ack, inflight_packets, write_notify, panicked>>

\* Variant: only a FIN ends the last wait, not the acknowledgment of ours.
FinWait2Packet_FinOnly ==
  /\ RecvValid
  /\ state = "FinWait2(true)"
  /\ pkt.flags \in {{"ACK"}, {"FIN", "ACK"}}
  /\ unordered_packets' = WithoutNextPayload
  /\ Send(packet_to_send)
  /\ packet_to_send' =
       IF "FIN" \in pkt.flags
       THEN <<RevPacket({"ACK"}, TTL, seq, ack, recv_window', 0)>>
       ELSE <<>>
  /\ state' = IF "FIN" \in pkt.flags THEN "FinWait2(false)" ELSE state
  /\ UNCHANGED <<seq, ack, last_ack, send_window, avg_send_window,
                 inflight_packets, write_notify, panicked>>

FinWait2Packet ==
  /\ RecvValid
  /\ state = "FinWait2(true)"
  /\ pkt.flags \in {{"ACK"}, {"FIN", "ACK"}}
  /\ unordered_packets' = WithoutNextPayload
  /\ Send(packet_to_send)
  /\ packet_to_send' =
       IF "FIN" \in pkt.flags
       THEN <<RevPacket({"ACK"}, TTL, seq, ack, recv_window', 0)>>
       ELSE <<>>
  /\ state' = "FinWait2(false)"
  /\ UNCHANGED <<seq, ack, last_ack, send_window, avg_send_window,
                 inflight_packets, write_notify, panicked>>

----------------------------------------------------------------------------
(* The calls of the application and of the task its drop spawns. *)

Callable == polling = "idle" /\ wrapper # "gone" /\ ~ panicked

PollRead ==
  /\ Callable
  /\ wrapper = "held"
  /\ polling' = "read"
  /\ sent' = <<>>
  /\ UNCHANGED <<tcbVars, shutdown, write_notify, packet_to_send, panicked,
                 stream_receiver, outerVars, delivered>>

\* Variant: a shutdown that is complete starts again.
PollShutdown_Again ==
  /\ Callable
  /\ shutdown' = "Pending"
  /\ polling' = "shutdown"
  /\ sent' = <<>>
  /\ UNCHANGED <<tcbVars, write_notify, packet_to_send, panicked,
                 stream_receiver, outerVars, delivered>>

\* poll_shutdown keeps the first caller's waker and runs poll_read.
PollShutdown ==
  /\ Callable
  /\ shutdown # "Ready"
  /\ shutdown' = "Pending"
  /\ polling' = "shutdown"
  /\ sent' = <<>>
  /\ UNCHANGED <<tcbVars, write_notify, packet_to_send, panicked,
                 stream_receiver, outerVars, delivered>>

\* poll_write of n bytes.  Outside Established, and when the packet cannot
\* be sent, it fails and changes nothing.
WriteBlocked ==
  \/ send_window < avg_send_window.avg \div 2
  \/ IsSendBufferFull

CanWrite == Callable /\ wrapper = "held" /\ state = "Established"

WriteBlocks ==
  /\ CanWrite
  /\ WriteBlocked
  /\ write_notify' = TRUE
  /\ sent' = <<>>
  /\ UNCHANGED <<tcbVars, shutdown, packet_to_send, polling, panicked,
                 stream_receiver, outerVars, delivered>>

PollWrite(n) ==
  /\ CanWrite
  /\ upstream_open
  /\ ~ WriteBlocked
  /\ Send(<<RevPacket({"PSH", "ACK"}, TTL, seq, ack, recv_window,
                      PayloadLen(n, send_window))>>)
  /\ AddInflightPacket(seq, PayloadLen(n, send_window))
  /\ UNCHANGED <<state, ack, last_ack, recv_window, send_window,
                 avg_send_window, unordered_packets, shutdown, write_notify,
                 packet_to_send, polling, panicked, stream_receiver,
                 outerVars, delivered>>

\* Drop of the wrapper: the inner stream moves to a task of its own, which
\* shuts it down and gives up after two seconds.
DropWrapper ==
  /\ Callable
  /\ wrapper = "held"
  /\ wrapper' = "dropped"
  /\ sent' = <<>>
  /\ UNCHANGED <<tcbVars, shutdown, write_notify, packet_to_send, polling,
                 panicked, stream_receiver, session, upstream_open, delivered>>

\* poll_shutdown finds the stream shut down already.
ShutdownReady ==
  /\ Callable
  /\ wrapper = "dropped"
  /\ shutdown = "Ready"
  /\ polling' = "done"
  /\ sent' = <<>>
  /\ UNCHANGED <<tcbVars, shutdown, write_notify, packet_to_send, panicked,
                 stream_receiver, outerVars, delivered>>

\* Drop of the inner stream: shutdown() is complete or its time is over.
DropInner ==
  /\ wrapper = "dropped"
  /\ polling \in {"idle", "done"}
  /\ ~ panicked
  /\ wrapper' = "gone"
  /\ polling' = "done"
  /\ Send(<<RevPacket({}, DROP_TTL, seq, ack, recv_window, 0)>>)
  /\ UNCHANGED <<tcbVars, shutdown, write_notify, packet_to_send, panicked,
                 stream_receiver, session, upstream_open, delivered>>

----------------------------------------------------------------------------
(* The stack's task, as the stream sees it. *)

\* The session table loses our sender (process_upstream_recv).
SessionRemoved ==
  /\ session
  /\ session' = FALSE
  /\ sent' = <<>>
  /\ UNCHANGED <<tcbVars, shutdown, write_notify, packet_to_send, polling,
                 panicked, stream_receiver, upstream_open, wrapper, delivered>>

\* The stack's task ends: its receiver and its session table are dropped.
StackStops ==
  /\ upstream_open
  /\ upstream_open' = FALSE
  /\ session' = FALSE
  /\ sent' = <<>>
  /\ UNCHANGED <<tcbVars, shutdown, write_notify, packet_to_send, polling,
                 panicked, stream_receiver, wrapper, delivered>>

----------------------------------------------------------------------------
PollReadTurn ==
  \/ FlushFails \/ ReadClosed \/ ReadAborted \/ TimeoutReached
  \/ SendSynAck \/ Deliver \/ SendPassiveFin \/ SendActiveFin
  \/ RecvNothing \/ RecvRst \/ RecvIgnored \/ RecvHandshakeAck
  \/ RecvWindowUpdate \/ RecvKeepAlive \/ RecvRetransmissionRequest
  \/ RecvNewPacket \/ RecvAck \/ RecvPsh \/ RecvFin
  \/ FinWait1Ack \/ FinWait1Fin \/ FinWait2Packet

OwnerCall ==
  \/ PollRead \/ PollShutdown \/ WriteBlocks
  \/ DropWrapper \/ ShutdownReady \/ DropInner

StackStep == SessionRemoved \/ StackStops

----------------------------------------------------------------------------
(* Properties of the stream alone. *)

\* A call of poll_read leaves no reply unsent when it returns: only the
\* packet that retires the session may wait for the next call.
NoStrandedPacket ==
  polling \in {"idle", "done"} /\ packet_to_send # <<>> =>
    state = "Closed" /\ packet_to_send[1].ttl = DROP_TTL

\* A shutdown is reported complete exactly when the connection is closed.
ShutdownReadyIffClosed == shutdown = "Ready" <=> state = "Closed"

\* Control: how the shutdown flag, the state and the pending packet relate.
ControlInv ==
  /\ ShutdownReadyIffClosed
  /\ NoStrandedPacket
  /\ polling = "shutdown" => shutdown # "None"
  /\ state = "FinWait1(false)" => shutdown # "None"

============================================================================
