-------------------------- MODULE TcpStreamProofs --------------------------
(***************************************************************************)
(* Facts about the stream alone, whoever its peer is and whatever tasks    *)
(* drive it: how poll_read's turns and the other calls leave the shutdown  *)
(* flag, the state and the pending packet; that they keep the types; and   *)
(* what change_last_ack and add_inflight_packet do to the packets in       *)
(* flight.  TcpNetworkProofs uses them for the stream against any network, *)
(* TcpTaskProofs for the stream in its tasks.                              *)
(***************************************************************************)
EXTENDS TcpStream, TLAPS

\* Which turn is taken restricts the state before it.
LEMMA TurnState ==
  ASSUME PollReadTurn
  PROVE  Polled /\ (state = "Closed" => FlushFails \/ ReadClosed)
  BY Zenon
     DEF PollReadTurn, FlushFails, ReadClosed, ReadAborted, TimeoutReached,
         SendSynAck, Deliver, SendPassiveFin, SendActiveFin, RecvNothing,
         RecvRst, RecvIgnored, RecvHandshakeAck, RecvWindowUpdate,
         RecvKeepAlive, RecvRetransmissionRequest, RecvNewPacket, RecvAck,
         RecvPsh, RecvFin, FinWait1Ack, FinWait1Fin, FinWait2Packet,
         RecvAckIs, RecvValid, RecvContinue, RecvPacket, Receive, Proceed

\* A turn that ends with `continue' on a packet.
LEMMA ContinueFacts ==
  ASSUME RecvContinue
  PROVE  /\ polling' = polling /\ shutdown' = shutdown
         /\ polling \in {"read", "shutdown"}
         /\ state \notin {"Closed", "FinWait2(false)", "SynReceived(false)",
                          "FinWait1(true)"}
         /\ ~ CanDeliver
  BY Zenon DEF RecvContinue, RecvPacket, Receive, Proceed, Polled

\* Each turn preserves the control invariant.
LEMMA TurnControl ==
  ASSUME ControlInv, PollReadTurn
  PROVE  ControlInv'
<1> USE DEF ControlInv, ShutdownReadyIffClosed, NoStrandedPacket
<1>1. Polled
  BY TurnState, Zenon
<1>2. polling \in {"read", "shutdown"}
  BY <1>1, Zenon DEF Polled
<1>3. Return => polling' \in {"idle", "done"}
  BY Zenon DEF Return
<1>4. CASE FlushFails
  BY <1>3, <1>4, Zenon DEF FlushFails, tcbVars
<1>5. CASE ReadClosed
  BY <1>3, <1>5, Zenon DEF ReadClosed, tcbVars
<1>6. CASE ReadAborted
  BY <1>3, <1>6, Zenon DEF ReadAborted, RevPacket
<1>7. CASE TimeoutReached
  BY <1>3, <1>7, Zenon DEF TimeoutReached, Proceed
<1>8. CASE SendSynAck
  BY <1>2, <1>8, Zenon DEF SendSynAck
<1>9. CASE Deliver
  BY <1>3, <1>9, Zenon DEF Deliver
<1>10. CASE SendPassiveFin
  BY <1>2, <1>10, Zenon DEF SendPassiveFin
<1>11. CASE SendActiveFin
  BY <1>2, <1>11, Zenon DEF SendActiveFin, CanSendActiveFin
<1>12. CASE RecvNothing
  BY <1>3, <1>12, Zenon DEF RecvNothing
<1>13. CASE RecvRst
  BY <1>3, <1>13, Zenon DEF RecvRst, RevPacket
<1>14. CASE RecvIgnored
  BY <1>14, ContinueFacts, Zenon DEF RecvIgnored
<1>15. CASE RecvHandshakeAck
  BY <1>15, ContinueFacts, Zenon DEF RecvHandshakeAck, RecvValid
<1>16. CASE RecvWindowUpdate
  BY <1>16, ContinueFacts, Zenon DEF RecvWindowUpdate, RecvAckIs
<1>17. CASE RecvKeepAlive
  BY <1>17, ContinueFacts, Zenon DEF RecvKeepAlive, RecvAckIs
<1>18. CASE RecvRetransmissionRequest
  BY <1>18, ContinueFacts, Zenon DEF RecvRetransmissionRequest, RecvAckIs
<1>19. CASE RecvNewPacket
  BY <1>19, ContinueFacts, Zenon DEF RecvNewPacket, RecvAckIs
<1>20. CASE RecvAck
  BY <1>20, ContinueFacts, Zenon DEF RecvAck, RecvAckIs
<1>21. CASE RecvPsh
  BY <1>21, ContinueFacts, Zenon DEF RecvPsh
<1>22. CASE RecvFin
  BY <1>22, ContinueFacts, Zenon DEF RecvFin, RecvValid
<1>23. CASE FinWait1Ack
  BY <1>23, ContinueFacts, Zenon DEF FinWait1Ack, RecvValid
<1>24. CASE FinWait1Fin
  BY <1>24, ContinueFacts, Zenon DEF FinWait1Fin, RecvValid
<1>25. CASE FinWait2Packet
  BY <1>25, ContinueFacts, Zenon DEF FinWait2Packet, RecvValid
<1> QED
  BY <1>4, <1>5, <1>6, <1>7, <1>8, <1>9, <1>10, <1>11, <1>12, <1>13, <1>14,
     <1>15, <1>16, <1>17, <1>18, <1>19, <1>20, <1>21, <1>22, <1>23, <1>24,
     <1>25, Zenon
     DEF PollReadTurn

\* So do the calls of the application and the steps of the stack's task.
LEMMA CallControl ==
  ASSUME ControlInv, OwnerCall \/ StackStep \/ \E n \in WriteLens : PollWrite(n)
  PROVE  ControlInv'
<1> USE DEF ControlInv, ShutdownReadyIffClosed, NoStrandedPacket
<1>1. CASE PollRead
  BY <1>1, Zenon DEF PollRead, tcbVars
<1>2. CASE PollShutdown
  BY <1>2, Zenon DEF PollShutdown, tcbVars
<1>3. CASE WriteBlocks
  BY <1>3, Zenon DEF WriteBlocks, tcbVars
<1>4. CASE DropWrapper
  BY <1>4, Zenon DEF DropWrapper, tcbVars
<1>5. CASE ShutdownReady
  BY <1>5, Zenon DEF ShutdownReady, Callable, tcbVars
<1>6. CASE DropInner
  BY <1>6, Zenon DEF DropInner, tcbVars
<1>7. CASE StackStep
  BY <1>7, Zenon DEF StackStep, SessionRemoved, StackStops, tcbVars
<1>8. CASE \E n \in WriteLens : PollWrite(n)
  BY <1>8, Zenon DEF PollWrite
<1> QED
  BY <1>1, <1>2, <1>3, <1>4, <1>5, <1>6, <1>7, <1>8, Zenon DEF OwnerCall

\* A new stream.
LEMMA StreamControlInit == StreamInit => ControlInv
  BY Zenon DEF StreamInit, TcbInit, ControlInv, ShutdownReadyIffClosed,
         NoStrandedPacket

----------------------------------------------------------------------------
(* Types. *)

\* u32 addition stays in range when the second operand is at most M.
LEMMA WrapAddType ==
  ASSUME NEW a \in SeqNo, NEW b \in 0 .. M
  PROVE  WrapAdd(a, b) \in SeqNo
  BY TcbAssumption DEF WrapAdd, SeqNo

\* wrapping_sub stays within the sequence numbers.
LEMMA WrapSubType ==
  ASSUME NEW a \in SeqNo, NEW b \in SeqNo
  PROVE  WrapSub(a, b) \in SeqNo
  BY TcbAssumption DEF WrapSub, SeqNo

\* An offset into the peer's stream and its sequence number.
LEMMA OffsetOfSeq ==
  ASSUME NEW b \in SeqNo, NEW off \in 0 .. M - 1
  PROVE  WrapAdd(b, off) \in SeqNo /\ WrapSub(WrapAdd(b, off), b) = off
  BY TcbAssumption DEF WrapAdd, WrapSub, SeqNo

\* Moving a sequence number forward by n moves its offset by n, as long as
\* the offset does not wrap.
LEMMA OffsetForward ==
  ASSUME NEW b \in SeqNo, NEW s \in SeqNo, NEW n \in Nat,
         WrapSub(s, b) + n < M
  PROVE  WrapSub(WrapAdd(s, n), b) = WrapSub(s, b) + n
  BY TcbAssumption DEF WrapAdd, WrapSub, SeqNo

\* The peer's first byte has a sequence number.
LEMMA BaseType == Base \in SeqNo
  BY WrapAddType, StreamAssumption, TcbAssumption DEF Base

\* The subtraction in get_available_read_buffer_size saturates, so the
\* receive window computed from it is between 0 and READ_BUFFER_SIZE.
LEMMA AvailableType ==
  AvailableReadBufferSize \in 0 .. READ_BUFFER_SIZE
  BY TcbAssumption DEF AvailableReadBufferSize

\* A packet built by create_rev_packet is an output packet.
LEMMA RevPacketType ==
  ASSUME NEW flags \in SUBSET Flag, NEW ttl \in {TTL, DROP_TTL},
         NEW s \in SeqNo, NEW a \in SeqNo,
         NEW w \in 0 .. READ_BUFFER_SIZE, NEW n \in 0 .. MSS
  PROVE  /\ RevPacket(flags, ttl, s, a, w, n) \in OutPacket
         /\ <<RevPacket(flags, ttl, s, a, w, n)>> \in Seq(OutPacket)
  BY DEF RevPacket, OutPacket

\* change_send_window keeps the types of the windows.
LEMMA SendWindowType ==
  ASSUME TcbTypeOK, NEW w \in Window, ChangeSendWindow(w)
  PROVE  /\ send_window' \in Window
         /\ avg_send_window' \in [avg : Nat, count : Nat \ {0}]
<1> DEFINE x == avg_send_window.avg * avg_send_window.count + w
           y == avg_send_window.count + 1
<1>1. x \in Nat
  BY TcbAssumption DEF TcbTypeOK, Window
<1>2. y \in Nat \ {0}
  BY DEF TcbTypeOK
<1> HIDE DEF x, y
<1>3. x \div y \in Nat
  BY <1>1, <1>2
<1>4. avg_send_window' = [avg |-> x \div y, count |-> y] /\ send_window' = w
  BY Zenon DEF ChangeSendWindow, x, y
<1> QED
  BY <1>2, <1>3, <1>4, Zenon

\* change_last_ack keeps the types of the acknowledged mark and the packets.
LEMMA LastAckType ==
  ASSUME TcbTypeOK, NEW a \in SeqNo, ChangeLastAck(a)
  PROVE  /\ last_ack' = a
         /\ inflight_packets' \subseteq InflightPacket
<1>1. last_ack' = a
  BY TcbAssumption DEF ChangeLastAck, TcbTypeOK, WrapAdd, WrapSub, SeqNo
<1>2. CutAt(a) \subseteq InflightPacket
  <2>1. inflight_packets \subseteq InflightPacket
    BY Zenon DEF TcbTypeOK
  <2>2. ASSUME NEW q \in inflight_packets, WrapSub(a, q.seq) < q.len
        PROVE  [seq |-> a, len |-> q.len - WrapSub(a, q.seq)] \in InflightPacket
    <3>1. q.seq \in SeqNo /\ q.len \in Nat
      BY <2>1, Zenon DEF InflightPacket
    <3>2. WrapSub(a, q.seq) \in Nat
      <4>1. WrapSub(a, q.seq) \in SeqNo
        BY <3>1, WrapSubType, Zenon
      <4>2. SeqNo \subseteq Nat
        BY TcbAssumption DEF SeqNo
      <4> QED
        BY <4>1, <4>2, Zenon
    <3>3. q.len - WrapSub(a, q.seq) \in Nat
      BY <2>2, <3>1, <3>2
    <3> QED
      BY <3>3, Zenon DEF InflightPacket
  <2> QED
    BY <2>1, <2>2, Zenon DEF CutAt
<1>3. RetainAfter(a) \subseteq InflightPacket
  BY <1>2, Zenon DEF RetainAfter
<1> QED
  BY <1>1, <1>3, Zenon DEF ChangeLastAck, TcbTypeOK

\* The buffer keeps its type when the next payload is taken or one is added.
LEMMA BufferType ==
  ASSUME TcbTypeOK
  PROVE  /\ NextPayload \in Payload
         /\ WithoutNextPayload \in [SeqNo -> Payload]
         /\ \A p \in InPacket :
              AddUnorderedPacket(WithoutNextPayload, p.seq,
                                 [off |-> p.off, len |-> p.len])
                \in [SeqNo -> Payload]
  BY TcbAssumption
     DEF TcbTypeOK, NextPayload, WithoutNextPayload, AddUnorderedPacket,
         NoPayload, Payload, InPacket

\* What is put on packet_sender is a sequence of output packets.
LEMMA SendType ==
  ASSUME StreamTypeOK, NEW p \in OutPacket
  PROVE  /\ Send(packet_to_send) => sent' \in Seq(OutPacket)
         /\ Send(packet_to_send \o <<p>>) => sent' \in Seq(OutPacket)
         /\ Send(<<p>>) => sent' \in Seq(OutPacket)
<1>1. <<p>> \in Seq(OutPacket) /\ <<>> \in Seq(OutPacket)
  OBVIOUS
<1>2. packet_to_send \o <<p>> \in Seq(OutPacket)
  BY <1>1 DEF StreamTypeOK
<1> QED
  BY <1>1, <1>2, Zenon DEF Send, StreamTypeOK

\* The packet at the head of the queue, and what is left of the queue.
LEMMA ReceiverType ==
  ASSUME StreamTypeOK, stream_receiver # <<>>
  PROVE  pkt \in InPacket /\ Tail(stream_receiver) \in Seq(InPacket)
  BY DEF pkt, StreamTypeOK

\* Each turn of poll_read's loop preserves the types of the Tcb.
LEMMA TurnTcbType ==
  ASSUME TcbTypeOK, StreamTypeOK, PollReadTurn
  PROVE  TcbTypeOK'
<1> USE TcbAssumption, AvailableType
<1>1. ASSUME RecvPacket
      PROVE  pkt \in InPacket
  BY <1>1, ReceiverType, Zenon DEF RecvPacket
<1>2. CASE FlushFails
  BY <1>2, Zenon DEF FlushFails, TcbTypeOK, tcbVars
<1>3. CASE ReadClosed
  BY <1>3, Zenon DEF ReadClosed, TcbTypeOK, tcbVars
<1>4. CASE ReadAborted
  BY <1>4, Zenon DEF ReadAborted, TcbTypeOK, TcpState
<1>5. CASE TimeoutReached
  BY <1>5, Zenon DEF TimeoutReached, Proceed, TcbTypeOK, TcpState
<1>6. CASE SendSynAck
  BY <1>6, WrapAddType DEF SendSynAck, Proceed, TcbTypeOK, TcpState
<1>7. CASE Deliver
  <2>1. NextPayload.len \in 0 .. M
    BY BufferType DEF Payload
  <2> QED
    BY <1>7, <2>1, BufferType, WrapAddType, Zenon
       DEF Deliver, Proceed, TcbTypeOK
<1>8. CASE SendPassiveFin
  BY <1>8, BufferType, WrapAddType
     DEF SendPassiveFin, Proceed, TcbTypeOK, TcpState
<1>9. CASE SendActiveFin
  BY <1>9, BufferType, WrapAddType
     DEF SendActiveFin, Proceed, TcbTypeOK, TcpState
<1>10. CASE RecvNothing
  BY <1>10, BufferType, Zenon DEF RecvNothing, Receive, Proceed, TcbTypeOK
<1>11. CASE RecvRst
  BY <1>11, BufferType, Zenon
     DEF RecvRst, RecvPacket, Receive, Proceed, TcbTypeOK, TcpState
<1>12. ASSUME RecvContinue
       PROVE  recv_window' \in 0 .. READ_BUFFER_SIZE /\ pkt \in InPacket
  BY <1>12, <1>1, Zenon DEF RecvContinue, RecvPacket, Receive, Proceed
<1>13. CASE RecvIgnored
  BY <1>12, <1>13, BufferType, Zenon DEF RecvIgnored, TcbTypeOK
<1>14. ASSUME RecvContinue, ChangeSendWindow(pkt.win)
       PROVE  /\ send_window' \in Window
              /\ avg_send_window' \in [avg : Nat, count : Nat \ {0}]
  BY <1>12, <1>14, SendWindowType, Zenon DEF InPacket
<1>15. ASSUME RecvContinue, ChangeLastAck(pkt.ack)
       PROVE  last_ack' \in SeqNo /\ inflight_packets' \subseteq InflightPacket
  BY <1>12, <1>15, LastAckType, Zenon DEF InPacket
<1>16. CASE RecvHandshakeAck
  BY <1>12, <1>14, <1>15, <1>16, BufferType, Zenon
     DEF RecvHandshakeAck, RecvValid, TcbTypeOK, TcpState
<1>17. CASE RecvWindowUpdate
  BY <1>12, <1>14, <1>17, BufferType, Zenon
     DEF RecvWindowUpdate, RecvAckIs, TcbTypeOK
<1>18. CASE RecvKeepAlive
  BY <1>12, <1>14, <1>15, <1>18, BufferType, Zenon
     DEF RecvKeepAlive, RecvAckIs, TcbTypeOK
<1>19. CASE RecvRetransmissionRequest
  BY <1>12, <1>14, <1>19, BufferType, Zenon
     DEF RecvRetransmissionRequest, RecvAckIs, TcbTypeOK
<1>20. CASE RecvNewPacket
  BY <1>12, <1>14, <1>15, <1>20, BufferType, Zenon
     DEF RecvNewPacket, RecvAckIs, TcbTypeOK
<1>21. CASE RecvAck
  BY <1>12, <1>14, <1>15, <1>21, BufferType, Zenon
     DEF RecvAck, RecvAckIs, TcbTypeOK
<1>22. CASE RecvPsh
  BY <1>12, <1>14, <1>15, <1>22, BufferType DEF RecvPsh, TcbTypeOK
<1>23. CASE RecvFin
  BY <1>12, <1>23, BufferType, WrapAddType, SMTT(30)
     DEF RecvFin, RecvValid, TcbTypeOK, TcpState
<1>24. CASE FinWait1Ack
  BY <1>12, <1>15, <1>24, BufferType, WrapAddType
     DEF FinWait1Ack, RecvValid, TcbTypeOK, TcpState
<1>25. CASE FinWait1Fin
  BY <1>12, <1>14, <1>25, BufferType, WrapAddType
     DEF FinWait1Fin, RecvValid, TcbTypeOK, TcpState
<1>26. CASE FinWait2Packet
  BY <1>12, <1>26, BufferType, Zenon
     DEF FinWait2Packet, RecvValid, TcbTypeOK, TcpState
<1> QED
  BY <1>2, <1>3, <1>4, <1>5, <1>6, <1>7, <1>8, <1>9, <1>10, <1>11, <1>13,
     <1>16, <1>17, <1>18, <1>19, <1>20, <1>21, <1>22, <1>23, <1>24, <1>25,
     <1>26, Zenon
     DEF PollReadTurn

\* What a turn may leave in packet_to_send.
LEMMA PendingType ==
  ASSUME NEW p \in OutPacket
  PROVE  /\ <<p>> \in Seq(OutPacket) /\ Len(<<p>>) <= 1
         /\ <<>> \in Seq(OutPacket) /\ Len(<<>>) <= 1
  OBVIOUS

\* The packets a turn builds, before or after it changes ack.
LEMMA TurnPackets ==
  ASSUME TcbTypeOK, TcbTypeOK',
         NEW flags \in SUBSET Flag, NEW ttl \in {TTL, DROP_TTL}
  PROVE  /\ RevPacket(flags, ttl, seq, ack, recv_window, 0) \in OutPacket
         /\ RevPacket(flags, ttl, seq, ack, recv_window', 0) \in OutPacket
         /\ RevPacket(flags, ttl, seq, ack', recv_window', 0) \in OutPacket
<1>1. 0 \in 0 .. MSS
  BY StreamAssumption
<1> QED
  BY <1>1, RevPacketType, Zenon DEF TcbTypeOK

\* The packet poll_flush sends again is a packet in flight.
LEMMA RetransmitType ==
  ASSUME TcbTypeOK, NEW s, InflightAt(s) # {}, NEW w \in Window
  PROVE  /\ FirstInflightAt(s) \in inflight_packets
         /\ FirstInflightAt(s).seq = s
         /\ PayloadLen(FirstInflightAt(s).len, w) \in 0 .. MSS
<1>1. \E p \in inflight_packets : p.seq = s
  BY Zenon DEF InflightAt
<1>2. FirstInflightAt(s) \in inflight_packets /\ FirstInflightAt(s).seq = s
  BY <1>1, Zenon DEF FirstInflightAt
<1>3. FirstInflightAt(s).len \in Nat
  BY <1>2, Zenon DEF TcbTypeOK, InflightPacket
<1> QED
  BY <1>2, <1>3, StreamAssumption, TcbAssumption
     DEF PayloadLen, Least, Window

\* Each turn of poll_read's loop preserves the types of the stream.
LEMMA TurnStreamType ==
  ASSUME TcbTypeOK, StreamTypeOK, PollReadTurn
  PROVE  StreamTypeOK'
<1>1. TcbTypeOK'
  BY TurnTcbType, Zenon
<1>2. ASSUME NEW flags \in SUBSET Flag, NEW ttl \in {TTL, DROP_TTL}
      PROVE  /\ RevPacket(flags, ttl, seq, ack, recv_window, 0) \in OutPacket
             /\ RevPacket(flags, ttl, seq, ack, recv_window', 0) \in OutPacket
             /\ RevPacket(flags, ttl, seq, ack', recv_window', 0) \in OutPacket
  BY <1>1, TurnPackets, Zenon
<1>3. /\ {} \in SUBSET Flag /\ {"ACK"} \in SUBSET Flag
      /\ {"RST", "ACK"} \in SUBSET Flag /\ {"SYN", "ACK"} \in SUBSET Flag
      /\ {"FIN", "ACK"} \in SUBSET Flag /\ {"PSH", "ACK"} \in SUBSET Flag
      /\ TTL \in {TTL, DROP_TTL} /\ DROP_TTL \in {TTL, DROP_TTL}
  BY Zenon DEF Flag
<1>4. Send(packet_to_send) => sent' \in Seq(OutPacket)
  BY <1>2, <1>3, SendType, Zenon
<1>5. Return => polling' \in {"idle", "read", "shutdown", "done"}
  BY Zenon DEF Return
<1>W. WakeWriter => write_notify' \in BOOLEAN
  BY Zenon DEF WakeWriter
<1>O. AckOverflow => panicked' \in BOOLEAN
  BY Zenon DEF AckOverflow, ContainsOverflows
<1>6. CASE FlushFails
  BY <1>5, <1>6 DEF FlushFails, StreamTypeOK, outerVars
<1>7. CASE ReadClosed
  BY <1>4, <1>5, <1>7 DEF ReadClosed, StreamTypeOK, outerVars
<1>8. CASE ReadAborted
  BY <1>2, <1>3, <1>4, <1>5, <1>8, PendingType
     DEF ReadAborted, StreamTypeOK, outerVars
<1>9. CASE TimeoutReached
  BY <1>2, <1>3, <1>5, <1>9, SendType
     DEF TimeoutReached, StreamTypeOK, outerVars
<1>10. CASE SendSynAck
  BY <1>2, <1>3, <1>4, <1>10, PendingType
     DEF SendSynAck, StreamTypeOK, outerVars
<1>11. CASE Deliver
  <2>1. NextPayload \in Payload
    BY BufferType, Zenon
  <2>2. Bytes(NextPayload) \in Seq(Nat)
    BY <2>1, TcbAssumption DEF Bytes, Payload
  <2>3. delivered \o Bytes(NextPayload) \in Seq(Nat)
    BY <2>2 DEF StreamTypeOK
  <2>4. sent' \in Seq(OutPacket)
    BY <1>2, <1>3, <1>4, <1>11, SendType, Zenon DEF Deliver
  <2> QED
    BY <1>5, <1>11, <2>3, <2>4 DEF Deliver, StreamTypeOK, outerVars
<1>12. CASE SendPassiveFin
  BY <1>2, <1>3, <1>4, <1>12, PendingType, Zenon
     DEF SendPassiveFin, StreamTypeOK, outerVars
<1>13. CASE SendActiveFin
  BY <1>2, <1>3, <1>4, <1>13, PendingType
     DEF SendActiveFin, StreamTypeOK, outerVars
<1>14. CASE RecvNothing
  BY <1>4, <1>5, <1>14 DEF RecvNothing, StreamTypeOK, outerVars
<1>15. ASSUME RecvPacket
       PROVE  /\ pkt \in InPacket
              /\ stream_receiver' \in Seq(InPacket)
              /\ UNCHANGED <<session, upstream_open, wrapper, delivered>>
  BY <1>15, ReceiverType, Zenon DEF RecvPacket, outerVars
<1>16. CASE RecvRst
  BY <1>2, <1>3, <1>4, <1>5, <1>15, <1>16, PendingType
     DEF RecvRst, StreamTypeOK
<1>17. ASSUME RecvContinue
       PROVE  /\ pkt \in InPacket
              /\ stream_receiver' \in Seq(InPacket)
              /\ UNCHANGED <<session, upstream_open, wrapper, delivered,
                             shutdown, polling>>
  BY <1>15, <1>17, Zenon DEF RecvContinue
\* What is left to show for a packet branch that goes round the loop.
<1>F. ASSUME RecvContinue, sent' \in Seq(OutPacket),
             packet_to_send' \in Seq(OutPacket), Len(packet_to_send') <= 1,
             write_notify' \in BOOLEAN, panicked' \in BOOLEAN
      PROVE  StreamTypeOK'
  BY <1>17, <1>F DEF StreamTypeOK
<1>E. ASSUME packet_to_send' = <<>>
      PROVE  packet_to_send' \in Seq(OutPacket) /\ Len(packet_to_send') <= 1
  BY <1>E
<1>A. /\ RevPacket({"ACK"}, TTL, seq, ack, recv_window', 0) \in OutPacket
      /\ RevPacket({"ACK"}, TTL, seq, ack', recv_window', 0) \in OutPacket
  BY <1>2, <1>3, Zenon
<1>P. ASSUME \/ packet_to_send' =
                  <<RevPacket({"ACK"}, TTL, seq, ack, recv_window', 0)>>
             \/ packet_to_send' =
                  <<RevPacket({"ACK"}, TTL, seq, ack', recv_window', 0)>>
      PROVE  packet_to_send' \in Seq(OutPacket) /\ Len(packet_to_send') <= 1
  BY <1>A, <1>P, PendingType, Zenon
<1>N. /\ UNCHANGED write_notify => write_notify' \in BOOLEAN
      /\ UNCHANGED panicked => panicked' \in BOOLEAN
  BY Zenon DEF StreamTypeOK
<1>18. CASE RecvIgnored
  <2>1. RecvContinue /\ Send(packet_to_send)
    BY <1>18, Zenon DEF RecvIgnored
  <2>2. packet_to_send' \in Seq(OutPacket) /\ Len(packet_to_send') <= 1
    BY <1>18, <1>E DEF RecvIgnored
  <2>3. write_notify' \in BOOLEAN /\ panicked' \in BOOLEAN
    BY <1>18, <1>N DEF RecvIgnored
  <2> QED
    BY <1>4, <1>F, <2>1, <2>2, <2>3
<1>19. CASE RecvHandshakeAck
  <2>1. RecvContinue /\ Send(packet_to_send)
    BY <1>19, Zenon DEF RecvHandshakeAck, RecvValid
  <2>2. packet_to_send' \in Seq(OutPacket) /\ Len(packet_to_send') <= 1
    BY <1>19, <1>E DEF RecvHandshakeAck
  <2>3. write_notify' \in BOOLEAN /\ panicked' \in BOOLEAN
    BY <1>19, <1>N DEF RecvHandshakeAck
  <2> QED
    BY <1>4, <1>F, <2>1, <2>2, <2>3
<1>20. CASE RecvWindowUpdate
  <2>1. RecvContinue /\ Send(packet_to_send)
    BY <1>20, Zenon DEF RecvWindowUpdate, RecvAckIs
  <2>2. packet_to_send' \in Seq(OutPacket) /\ Len(packet_to_send') <= 1
    BY <1>20, <1>E, Zenon DEF RecvWindowUpdate
  <2>3. write_notify' \in BOOLEAN /\ panicked' \in BOOLEAN
    BY <1>20, <1>N, <1>W DEF RecvWindowUpdate
  <2> QED
    BY <1>4, <1>F, <2>1, <2>2, <2>3
<1>21. CASE RecvKeepAlive
  <2>1. RecvContinue /\ Send(packet_to_send)
    BY <1>21, Zenon DEF RecvKeepAlive, RecvAckIs
  <2>2. packet_to_send' \in Seq(OutPacket) /\ Len(packet_to_send') <= 1
    BY <1>21, <1>P, Zenon DEF RecvKeepAlive
  <2>3. write_notify' \in BOOLEAN /\ panicked' \in BOOLEAN
    BY <1>21, <1>N, <1>O, Zenon DEF RecvKeepAlive
  <2> QED
    BY <1>4, <1>F, <2>1, <2>2, <2>3
<1>22. CASE RecvRetransmissionRequest
  <2>1. RecvContinue /\ pkt \in InPacket
    BY <1>17, <1>22, Zenon DEF RecvRetransmissionRequest, RecvAckIs
  <2>2. packet_to_send' \in Seq(OutPacket) /\ Len(packet_to_send') <= 1
    BY <1>22, <1>E, Zenon DEF RecvRetransmissionRequest
  <2>3. write_notify' \in BOOLEAN /\ panicked' \in BOOLEAN
    BY <1>22, <1>N, Zenon DEF RecvRetransmissionRequest
  <2>4. CASE InflightAt(pkt.ack) # {}
    <3> DEFINE p == RevPacket({"PSH", "ACK"}, TTL, pkt.ack, ack, recv_window',
                              PayloadLen(FirstInflightAt(pkt.ack).len, pkt.win))
    <3>1. p \in OutPacket
      BY <1>1, <1>3, <2>1, <2>4, RetransmitType, RevPacketType, Zenon
         DEF TcbTypeOK, InPacket
    <3>2. Send(packet_to_send \o <<p>>)
      BY <1>22, <2>4, Zenon DEF RecvRetransmissionRequest
    <3> HIDE DEF p
    <3>3. sent' \in Seq(OutPacket)
      BY <3>1, <3>2, SendType, Zenon
    <3> QED
      BY <1>F, <2>1, <2>2, <2>3, <3>3
  <2>5. CASE InflightAt(pkt.ack) = {}
    <3>1. Send(packet_to_send)
      BY <1>22, <2>5 DEF RecvRetransmissionRequest
    <3> QED
      BY <1>4, <1>F, <2>1, <2>2, <2>3, <3>1, Zenon
  <2> QED
    BY <2>4, <2>5, Zenon
<1>23. CASE RecvNewPacket
  <2>1. RecvContinue /\ Send(packet_to_send)
    BY <1>23, Zenon DEF RecvNewPacket, RecvAckIs
  <2>2. packet_to_send' \in Seq(OutPacket) /\ Len(packet_to_send') <= 1
    BY <1>23, <1>E, Zenon DEF RecvNewPacket
  <2>3. write_notify' \in BOOLEAN /\ panicked' \in BOOLEAN
    BY <1>23, <1>O, <1>W, Zenon DEF RecvNewPacket
  <2> QED
    BY <1>4, <1>F, <2>1, <2>2, <2>3
<1>24. CASE RecvAck
  <2>1. RecvContinue /\ Send(packet_to_send)
    BY <1>24, Zenon DEF RecvAck, RecvAckIs
  <2>2. packet_to_send' \in Seq(OutPacket) /\ Len(packet_to_send') <= 1
    BY <1>24, <1>E, Zenon DEF RecvAck
  <2>3. write_notify' \in BOOLEAN /\ panicked' \in BOOLEAN
    BY <1>24, <1>O, <1>W, Zenon DEF RecvAck
  <2> QED
    BY <1>4, <1>F, <2>1, <2>2, <2>3
<1>25. CASE RecvPsh
  <2>1. RecvContinue /\ Send(packet_to_send)
    BY <1>25, Zenon DEF RecvPsh
  <2>2. packet_to_send' \in Seq(OutPacket) /\ Len(packet_to_send') <= 1
    BY <1>25, <1>E, Zenon DEF RecvPsh
  <2>3. write_notify' \in BOOLEAN /\ panicked' \in BOOLEAN
    BY <1>25, <1>N, <1>O, Zenon DEF RecvPsh
  <2> QED
    BY <1>4, <1>F, <2>1, <2>2, <2>3
<1>26. CASE RecvFin
  <2>1. RecvContinue /\ Send(packet_to_send)
    BY <1>26, Zenon DEF RecvFin, RecvValid
  <2>2. packet_to_send' \in Seq(OutPacket) /\ Len(packet_to_send') <= 1
    BY <1>26, <1>P, Zenon DEF RecvFin
  <2>3. write_notify' \in BOOLEAN /\ panicked' \in BOOLEAN
    BY <1>26, <1>N, Zenon DEF RecvFin
  <2> QED
    BY <1>4, <1>F, <2>1, <2>2, <2>3
<1>27. CASE FinWait1Ack
  <2>1. RecvContinue /\ Send(packet_to_send)
    BY <1>27, Zenon DEF FinWait1Ack, RecvValid
  <2>2. packet_to_send' \in Seq(OutPacket) /\ Len(packet_to_send') <= 1
    BY <1>27, <1>E, Zenon DEF FinWait1Ack
  <2>3. write_notify' \in BOOLEAN /\ panicked' \in BOOLEAN
    BY <1>27, <1>N DEF FinWait1Ack
  <2> QED
    BY <1>4, <1>F, <2>1, <2>2, <2>3
<1>28. CASE FinWait1Fin
  <2>1. RecvContinue /\ Send(packet_to_send)
    BY <1>28, Zenon DEF FinWait1Fin, RecvValid
  <2>2. packet_to_send' \in Seq(OutPacket) /\ Len(packet_to_send') <= 1
    BY <1>28, <1>P, Zenon DEF FinWait1Fin
  <2>3. write_notify' \in BOOLEAN /\ panicked' \in BOOLEAN
    BY <1>28, <1>N DEF FinWait1Fin
  <2> QED
    BY <1>4, <1>F, <2>1, <2>2, <2>3
<1>29. CASE FinWait2Packet
  <2>1. RecvContinue /\ Send(packet_to_send)
    BY <1>29, Zenon DEF FinWait2Packet, RecvValid
  <2>2. packet_to_send' \in Seq(OutPacket) /\ Len(packet_to_send') <= 1
    BY <1>29, <1>E, <1>P, Zenon DEF FinWait2Packet
  <2>3. write_notify' \in BOOLEAN /\ panicked' \in BOOLEAN
    BY <1>29, <1>N, Zenon DEF FinWait2Packet
  <2> QED
    BY <1>4, <1>F, <2>1, <2>2, <2>3
<1> QED
  BY <1>6, <1>7, <1>8, <1>9, <1>10, <1>11, <1>12, <1>13, <1>14, <1>16, <1>18,
     <1>19, <1>20, <1>21, <1>22, <1>23, <1>24, <1>25, <1>26, <1>27, <1>28,
     <1>29
     DEF PollReadTurn

\* A write keeps the types: its payload is at most MSS bytes.
LEMMA WriteType ==
  ASSUME TcbTypeOK, StreamTypeOK, NEW n \in WriteLens, PollWrite(n)
  PROVE  /\ PayloadLen(n, send_window) \in 0 .. MSS
         /\ TcbTypeOK' /\ StreamTypeOK'
<1>1. PayloadLen(n, send_window) \in 0 .. MSS
  BY StreamAssumption, TcbAssumption DEF PayloadLen, Least, TcbTypeOK, Window
<1> DEFINE k == PayloadLen(n, send_window)
           p == RevPacket({"PSH", "ACK"}, TTL, seq, ack, recv_window, k)
<1>2. inflight_packets' \subseteq InflightPacket
  <2>1. [seq |-> seq, len |-> k] \in InflightPacket
    BY <1>1, StreamAssumption DEF TcbTypeOK, InflightPacket
  <2> QED
    BY <2>1, Zenon DEF PollWrite, AddInflightPacket, TcbTypeOK
<1>3. seq' \in SeqNo
  BY <1>1, WrapAddType, StreamAssumption, TcbAssumption
     DEF PollWrite, AddInflightPacket, TcbTypeOK
<1>4. TcbTypeOK'
  BY <1>2, <1>3, Zenon DEF PollWrite, TcbTypeOK
<1>5. p \in OutPacket
  <2>1. {"PSH", "ACK"} \in SUBSET Flag /\ TTL \in {TTL, DROP_TTL}
    BY Zenon DEF Flag
  <2>2. k \in 0 .. MSS
    BY <1>1, Zenon
  <2> HIDE DEF k
  <2> QED
    BY <2>1, <2>2, RevPacketType, Zenon DEF TcbTypeOK
<1>6. Send(<<p>>)
  BY Zenon DEF PollWrite
<1>7. sent' \in Seq(OutPacket)
  <2> HIDE DEF p
  <2> QED BY <1>5, <1>6, SendType
<1>8. StreamTypeOK'
  BY <1>7 DEF PollWrite, StreamTypeOK, outerVars
<1> QED
  BY <1>1, <1>4, <1>8, Zenon

\* The calls and the network leave the Tcb as it is.
LEMMA TcbTypeFrame ==
  ASSUME TcbTypeOK, UNCHANGED tcbVars
  PROVE  TcbTypeOK'
  BY Zenon DEF TcbTypeOK, tcbVars

\* So do the other calls of the owner and the steps of the stack's task.
LEMMA CallType ==
  ASSUME TcbTypeOK, StreamTypeOK, OwnerCall \/ StackStep
  PROVE  TcbTypeOK' /\ StreamTypeOK'
<1>1. UNCHANGED tcbVars
  BY Zenon DEF OwnerCall, StackStep, PollRead, PollShutdown, WriteBlocks,
         DropWrapper, ShutdownReady, DropInner, SessionRemoved, StackStops
<1>2. TcbTypeOK'
  BY <1>1, TcbTypeFrame, Zenon
<1>3. CASE PollRead
  BY <1>2, <1>3 DEF PollRead, StreamTypeOK, tcbVars, outerVars
<1>4. CASE PollShutdown
  BY <1>2, <1>4 DEF PollShutdown, StreamTypeOK, tcbVars, outerVars
<1>5. CASE WriteBlocks
  <2>1. write_notify' \in BOOLEAN
    BY <1>5, Zenon DEF WriteBlocks
  <2> QED
    BY <1>2, <1>5, <2>1 DEF WriteBlocks, StreamTypeOK, tcbVars, outerVars
<1>6. CASE DropWrapper
  BY <1>2, <1>6 DEF DropWrapper, StreamTypeOK, tcbVars
<1>7. CASE ShutdownReady
  BY <1>2, <1>7 DEF ShutdownReady, StreamTypeOK, tcbVars, outerVars
<1>8. CASE DropInner
  <2>1. RevPacket({}, DROP_TTL, seq, ack, recv_window, 0) \in OutPacket
    <3>1. {} \in SUBSET Flag /\ DROP_TTL \in {TTL, DROP_TTL}
      BY Zenon
    <3> QED
      BY <1>2, <3>1, TurnPackets, Zenon
  <2>2. sent' \in Seq(OutPacket)
    BY <1>8, <2>1, SendType, Zenon DEF DropInner
  <2> QED
    BY <1>2, <1>8, <2>2, Zenon DEF DropInner, StreamTypeOK, tcbVars
<1>9. CASE SessionRemoved
  <2>1. session' \in BOOLEAN
    BY <1>9, Zenon DEF SessionRemoved
  <2> QED
    BY <1>2, <1>9, <2>1 DEF SessionRemoved, StreamTypeOK, tcbVars
<1>10. CASE StackStops
  <2>1. session' \in BOOLEAN /\ upstream_open' \in BOOLEAN
    BY <1>10, Zenon DEF StackStops
  <2> QED
    BY <1>2, <1>10, <2>1 DEF StackStops, StreamTypeOK, tcbVars
<1> QED
  BY <1>3, <1>4, <1>5, <1>6, <1>7, <1>8, <1>9, <1>10, Zenon
     DEF OwnerCall, StackStep

\* A new stream has its types.
LEMMA StreamTypeInit == StreamInit => TcbTypeOK /\ StreamTypeOK
<1> SUFFICES ASSUME StreamInit
             PROVE  TcbTypeOK /\ StreamTypeOK
  BY Zenon
<1>1. TcbTypeOK
  <2>1. TcbInit(ISS, IRS)
    BY Zenon DEF StreamInit
  <2>2. ack \in SeqNo /\ seq \in SeqNo /\ last_ack \in SeqNo
    BY <2>1, WrapAddType, StreamAssumption, TcbAssumption DEF TcbInit
  <2>3. unordered_packets \in [SeqNo -> Payload]
    BY <2>1, TcbAssumption DEF TcbInit, Payload, NoPayload
  <2>4. recv_window \in 0 .. READ_BUFFER_SIZE /\ send_window \in Window
    BY <2>1, TcbAssumption DEF TcbInit, Window
  <2>5. state \in TcpState
    BY <2>1, Zenon DEF TcbInit, TcpState
  <2> QED
    BY <2>1, <2>2, <2>3, <2>4, <2>5 DEF TcbInit, TcbTypeOK
<1>2. StreamTypeOK
  <2>1. /\ write_notify \in BOOLEAN /\ panicked \in BOOLEAN
        /\ session \in BOOLEAN /\ upstream_open \in BOOLEAN
    BY Zenon DEF StreamInit
  <2>2. /\ <<>> \in Seq(OutPacket) /\ Len(<<>>) <= 1
        /\ <<>> \in Seq(InPacket) /\ <<>> \in Seq(Nat)
    OBVIOUS
  <2> QED
    BY <2>1, <2>2, Zenon DEF StreamInit, StreamTypeOK
<1> QED
  BY <1>1, <1>2, Zenon

----------------------------------------------------------------------------
(* The packets in flight. *)

\* What check_pkt_type accepts, for every size of the number space: exactly
\* the acknowledgments between last_ack and seq as plain numbers.  After a
\* wrap (seq < last_ack) there are none.
LEMMA AcceptedRange ==
  ASSUME TcbTypeOK, NEW p \in InPacket
  PROVE  CheckPktType(p) # "Invalid" <=> last_ack <= p.ack /\ p.ack <= seq
<1>1. p.ack \in SeqNo /\ seq \in SeqNo /\ last_ack \in SeqNo
  BY Zenon DEF TcbTypeOK, InPacket
<1>2. InvalidAck(p) \/ ~ (last_ack <= p.ack) <=>
        ~ (last_ack <= p.ack /\ p.ack <= seq)
  BY <1>1, TcbAssumption DEF InvalidAck, WrapSub, SatSub, SeqNo
<1>3. CheckPktType(p) = "Invalid" <=> InvalidAck(p) \/ ~ (last_ack <= p.ack)
  BY <1>1 DEF CheckPktType, SeqNo
<1> QED
  BY <1>2, <1>3, Zenon

\* Without a wrap, tiling in plain numbers.
LEMMA PlainTiles ==
  ASSUME TcbTypeOK, InflightTiles, state = "Established", last_ack <= seq
  PROVE  /\ \A p \in inflight_packets :
              /\ p.seq \in Nat /\ p.len \in Nat
              /\ last_ack <= p.seq /\ p.seq + p.len <= seq
         /\ \A n \in last_ack .. seq - 1 :
              \E p \in inflight_packets : p.seq <= n /\ n < p.seq + p.len
         /\ \A p, q \in inflight_packets :
              p # q => p.seq + p.len <= q.seq \/ q.seq + q.len <= p.seq
<1> USE TcbAssumption
<1>1. ASSUME NEW p \in inflight_packets
      PROVE  /\ p.seq \in Nat /\ p.len \in Nat
             /\ last_ack <= p.seq /\ p.seq + p.len <= seq
             /\ Ahead(p.seq) = p.seq - last_ack
  <2>1. p.seq \in SeqNo /\ p.len \in Nat
    BY <1>1, Zenon DEF TcbTypeOK, InflightPacket
  <2>2. Ahead(p.seq) + p.len <= Ahead(seq)
    BY <1>1, Zenon DEF InflightTiles
  <2>3. last_ack \in SeqNo /\ seq \in SeqNo
    BY Zenon DEF TcbTypeOK
  <2> QED
    BY <2>1, <2>2, <2>3 DEF Ahead, WrapSub, SeqNo
<1>2. ASSUME NEW n \in last_ack .. seq - 1
      PROVE  \E p \in inflight_packets : p.seq <= n /\ n < p.seq + p.len
  <2>1. /\ n - last_ack \in 0 .. M - 1
        /\ n - last_ack < Ahead(seq)
    BY <1>2 DEF Ahead, WrapSub, SeqNo, TcbTypeOK
  <2>2. PICK p \in inflight_packets :
          Ahead(p.seq) <= n - last_ack /\ n - last_ack < Ahead(p.seq) + p.len
    BY <2>1, Zenon DEF InflightTiles
  <2> QED
    BY <1>1, <2>2 DEF SeqNo, TcbTypeOK
<1>3. ASSUME NEW p \in inflight_packets, NEW q \in inflight_packets, p # q
      PROVE  p.seq + p.len <= q.seq \/ q.seq + q.len <= p.seq
  <2>1. \/ Ahead(p.seq) + p.len <= Ahead(q.seq)
        \/ Ahead(q.seq) + q.len <= Ahead(p.seq)
    BY <1>3, Zenon DEF InflightTiles
  <2>2. /\ p.seq \in Nat /\ p.len \in Nat /\ Ahead(p.seq) = p.seq - last_ack
        /\ q.seq \in Nat /\ q.len \in Nat /\ Ahead(q.seq) = q.seq - last_ack
    BY <1>1, Zenon
  <2>3. last_ack \in Nat
    BY DEF SeqNo, TcbTypeOK
  <2> QED
    BY <2>1, <2>2, <2>3
<1>4. \A p \in inflight_packets :
        /\ p.seq \in Nat /\ p.len \in Nat
        /\ last_ack <= p.seq /\ p.seq + p.len <= seq
  BY <1>1, Zenon
<1>5. \A n \in last_ack .. seq - 1 :
        \E p \in inflight_packets : p.seq <= n /\ n < p.seq + p.len
  BY <1>2, Zenon
<1>6. \A p, q \in inflight_packets :
        p # q => p.seq + p.len <= q.seq \/ q.seq + q.len <= p.seq
  BY <1>3, Zenon
<1> QED
  BY <1>4, <1>5, <1>6, Zenon

\* The packets an acknowledgment leaves: those beyond it, and the rest of
\* the one it falls into.
LEMMA RetainedPackets ==
  ASSUME TcbTypeOK, InflightTiles, state = "Established",
         NEW a \in SeqNo, last_ack <= a, a <= seq
  PROVE  /\ \A p \in inflight_packets : p.seq >= a /\ p.len > 0 => p \in RetainAfter(a)
         /\ \A p \in inflight_packets :
              p.seq < a /\ a < p.seq + p.len =>
                [seq |-> a, len |-> p.seq + p.len - a] \in RetainAfter(a)
         /\ \A r \in RetainAfter(a) :
              \E p \in inflight_packets :
                \/ r = p /\ a <= p.seq
                \/ /\ p.seq < a /\ a < p.seq + p.len
                   /\ r = [seq |-> a, len |-> p.seq + p.len - a]
<1> USE TcbAssumption
<1>1. ASSUME NEW p \in inflight_packets
      PROVE  /\ p.seq \in Nat /\ p.len \in Nat
             /\ last_ack <= p.seq /\ p.seq + p.len <= seq /\ seq < M
             /\ WrapAdd(p.seq, p.len) = p.seq + p.len
             /\ p.seq < a => WrapSub(a, p.seq) = a - p.seq
             /\ Contains(p, a) <=> p.seq < a /\ a <= p.seq + p.len
  BY <1>1, PlainTiles DEF TcbTypeOK, SeqNo, WrapAdd, WrapSub, Contains
<1>2. ASSUME NEW p \in inflight_packets, p.seq >= a, p.len > 0
      PROVE  p \in RetainAfter(a)
  BY <1>1, <1>2 DEF RetainAfter, CutAt, SatSub, SeqNo
<1>3. ASSUME NEW p \in inflight_packets, p.seq < a, a < p.seq + p.len
      PROVE  [seq |-> a, len |-> p.seq + p.len - a] \in RetainAfter(a)
  <2> DEFINE r == [seq |-> a, len |-> p.seq + p.len - a]
  <2>0. /\ p.seq \in Nat /\ p.len \in Nat /\ a \in Nat
        /\ p.seq + p.len <= seq /\ seq < M
    BY <1>1, <1>3 DEF SeqNo
  <2>5. seq \in Nat
    BY DEF TcbTypeOK, SeqNo
  <2>2. Contains(p, a) /\ WrapSub(a, p.seq) = a - p.seq
    BY <1>1, <1>3, <2>0
  <2>1. r = [seq |-> a, len |-> p.len - WrapSub(a, p.seq)]
    BY <2>0, <2>2
  <2>3. r \in CutAt(a)
    <3>1. WrapSub(a, p.seq) < p.len
      BY <1>3, <2>0, <2>2
    <3> QED
      BY <2>1, <2>2, <3>1, Zenon DEF CutAt
  <2>4. SatSub(WrapAdd(r.seq, r.len), a) > 0
    <3>1. WrapAdd(a, p.seq + p.len - a) = p.seq + p.len
      BY <1>3, <2>0, <2>5 DEF WrapAdd
    <3> QED
      BY <1>3, <2>0, <3>1 DEF SatSub
  <2> QED
    BY <2>3, <2>4, Zenon DEF RetainAfter
<1>4. ASSUME NEW r \in RetainAfter(a)
      PROVE  \E p \in inflight_packets :
               \/ r = p /\ a <= p.seq
               \/ /\ p.seq < a /\ a < p.seq + p.len
                  /\ r = [seq |-> a, len |-> p.seq + p.len - a]
  <2>1. r \in CutAt(a) /\ SatSub(WrapAdd(r.seq, r.len), a) > 0
    BY <1>4, Zenon DEF RetainAfter
  <2>2. CASE r \in inflight_packets /\ ~ Contains(r, a)
    BY <1>1, <2>1, <2>2 DEF SatSub, SeqNo
  <2>3. ASSUME NEW q \in inflight_packets, Contains(q, a),
               WrapSub(a, q.seq) < q.len,
               r = [seq |-> a, len |-> q.len - WrapSub(a, q.seq)]
        PROVE  /\ q.seq < a /\ a < q.seq + q.len
               /\ r = [seq |-> a, len |-> q.seq + q.len - a]
    BY <1>1, <2>3 DEF SeqNo
  <2> QED
    BY <2>1, <2>2, <2>3, Zenon DEF CutAt
<1> QED
  BY <1>2, <1>3, <1>4, Zenon

\* An accepted acknowledgment keeps the tiling, and never makes
\* InflightPacket::contains overflow.
LEMMA AckTiles ==
  ASSUME TcbTypeOK, TcbTypeOK', InflightTiles, state = "Established",
         NEW a \in SeqNo, last_ack <= a, a <= seq,
         ChangeLastAck(a), seq' = seq
  PROVE  InflightTiles' /\ ~ ContainsOverflows(a)
<1> USE TcbAssumption
<1>1. last_ack' = a /\ inflight_packets' = RetainAfter(a)
  BY LastAckType, Zenon DEF ChangeLastAck
<1>2. last_ack \in Nat /\ seq \in Nat /\ a \in Nat /\ seq < M /\ last_ack <= seq
  BY DEF TcbTypeOK, SeqNo
<1>3. ASSUME NEW r \in RetainAfter(a)
      PROVE  /\ r.seq \in Nat /\ r.len \in Nat
             /\ a <= r.seq /\ r.seq + r.len <= seq
             /\ (Ahead(r.seq))' = r.seq - a
  <2>1. PICK p \in inflight_packets :
               \/ r = p /\ a <= p.seq
               \/ /\ p.seq < a /\ a < p.seq + p.len
                  /\ r = [seq |-> a, len |-> p.seq + p.len - a]
    BY <1>2, <1>3, RetainedPackets, Zenon
  <2>2. p.seq \in Nat /\ p.len \in Nat /\ p.seq + p.len <= seq
    BY <1>2, PlainTiles, Zenon
  <2>3. /\ r.seq \in Nat /\ r.len \in Nat
        /\ a <= r.seq /\ r.seq + r.len <= seq
    BY <1>2, <2>1, <2>2
  <2> QED
    BY <1>1, <1>2, <2>3, Zenon DEF Ahead, WrapSub
<1>4. (Ahead(seq))' = seq - a
  BY <1>1, <1>2, Zenon DEF Ahead, WrapSub
<1>5. \A r \in RetainAfter(a) : (Ahead(r.seq))' + r.len <= (Ahead(seq))'
  BY <1>2, <1>3, <1>4
<1>6. ASSUME NEW n \in 0 .. M - 1, n < seq - a
      PROVE  \E r \in RetainAfter(a) :
               (Ahead(r.seq))' <= n /\ n < (Ahead(r.seq))' + r.len
  <2>1. a + n \in last_ack .. seq - 1
    BY <1>2, <1>6
  <2>2. PICK p \in inflight_packets : p.seq <= a + n /\ a + n < p.seq + p.len
    BY <1>2, <2>1, PlainTiles, Zenon
  <2>3. p.seq \in Nat /\ p.len \in Nat
    BY <1>2, PlainTiles, Zenon
  <2>4. CASE a <= p.seq
    <3>1. p \in RetainAfter(a)
      BY <1>2, <2>2, <2>3, <2>4, RetainedPackets
    <3>2. (Ahead(p.seq))' = p.seq - a
      BY <1>3, <3>1, Zenon
    <3> QED
      BY <1>2, <1>6, <2>2, <2>3, <3>1, <3>2
  <2>5. CASE p.seq < a
    <3> DEFINE r == [seq |-> a, len |-> p.seq + p.len - a]
    <3>1. a < p.seq + p.len
      BY <1>2, <1>6, <2>2, <2>3
    <3>2. r \in RetainAfter(a)
      BY <1>2, <2>5, <3>1, RetainedPackets, Zenon
    <3>3. (Ahead(r.seq))' = 0 /\ r.len = p.seq + p.len - a
      BY <1>1, <1>2 DEF Ahead, WrapSub
    <3> HIDE DEF r
    <3> QED
      BY <1>2, <1>6, <2>2, <2>3, <3>2, <3>3
  <2> QED
    BY <1>2, <2>3, <2>4, <2>5
<1>7. ASSUME NEW r \in RetainAfter(a), NEW t \in RetainAfter(a), r # t
      PROVE  \/ (Ahead(r.seq))' + r.len <= (Ahead(t.seq))'
             \/ (Ahead(t.seq))' + t.len <= (Ahead(r.seq))'
  <2>1. PICK p \in inflight_packets :
               \/ r = p /\ a <= p.seq
               \/ /\ p.seq < a /\ a < p.seq + p.len
                  /\ r = [seq |-> a, len |-> p.seq + p.len - a]
    BY <1>2, <1>7, RetainedPackets, Zenon
  <2>2. PICK q \in inflight_packets :
               \/ t = q /\ a <= q.seq
               \/ /\ q.seq < a /\ a < q.seq + q.len
                  /\ t = [seq |-> a, len |-> q.seq + q.len - a]
    BY <1>2, <1>7, RetainedPackets, Zenon
  <2>3. p.seq \in Nat /\ p.len \in Nat /\ q.seq \in Nat /\ q.len \in Nat
    BY <1>2, PlainTiles, Zenon
  <2>4. p # q
    BY <1>2, <1>7, <2>1, <2>2, <2>3
  <2>5. p.seq + p.len <= q.seq \/ q.seq + q.len <= p.seq
    BY <1>2, <2>4, PlainTiles, Zenon
  <2>6. r.seq + r.len <= t.seq \/ t.seq + t.len <= r.seq
    BY <1>2, <2>1, <2>2, <2>3, <2>5
  <2>7. /\ r.seq \in Nat /\ r.len \in Nat /\ (Ahead(r.seq))' = r.seq - a
        /\ t.seq \in Nat /\ t.len \in Nat /\ (Ahead(t.seq))' = t.seq - a
    BY <1>3, <1>7, Zenon
  <2> QED
    BY <1>2, <2>6, <2>7
<1>8. InflightTiles'
  BY <1>1, <1>4, <1>5, <1>6, <1>7, Zenon DEF InflightTiles
<1>9. ~ ContainsOverflows(a)
  BY <1>2, PlainTiles DEF ContainsOverflows
<1> QED
  BY <1>8, <1>9, Zenon

\* When bytes are out, one packet starts at last_ack: the one poll_flush
\* looks for.
LEMMA RetransmitFound ==
  ASSUME TcbTypeOK, InflightTiles, state = "Established",
         last_ack <= seq, seq # last_ack
  PROVE  InflightAt(last_ack) # {}
<1>1. last_ack \in Nat /\ seq \in Nat
  BY TcbAssumption DEF TcbTypeOK, SeqNo
<1>2. last_ack \in last_ack .. seq - 1
  BY <1>1
<1>3. PICK p \in inflight_packets : p.seq <= last_ack
  BY <1>2, PlainTiles, Zenon
<1>4. p.seq = last_ack
  BY <1>1, <1>3, PlainTiles
<1> QED
  BY <1>4, Zenon DEF InflightAt

\* A write extends the tiling by its own packet.
LEMMA WriteTiles ==
  ASSUME TcbTypeOK, TcbTypeOK', InflightTiles, state = "Established",
         NEW k \in 0 .. MSS, Ahead(seq) < MAX_UNACK,
         AddInflightPacket(seq, k), last_ack' = last_ack
  PROVE  InflightTiles' /\ (Ahead(seq))' = Ahead(seq) + k
<1> USE TcbAssumption, StreamAssumption
<1>0. PICK new : new = [seq |-> seq, len |-> k]
  BY Zenon
<1>1. inflight_packets' = inflight_packets \cup {new}
  BY <1>0, Zenon DEF AddInflightPacket
<1>2. (Ahead(seq))' = Ahead(seq) + k
  BY DEF AddInflightPacket, Ahead, WrapAdd, WrapSub, TcbTypeOK, SeqNo
<1>3. ASSUME NEW s
      PROVE  (Ahead(s))' = Ahead(s)
  BY Zenon DEF Ahead
<1>4. (Ahead(new.seq))' = Ahead(seq) /\ new.len = k
  BY <1>0, Zenon DEF Ahead
<1>5. Ahead(seq) \in Nat /\ k \in Nat
  BY DEF Ahead, WrapSub, TcbTypeOK, SeqNo
<1>6. ASSUME NEW p \in inflight_packets
      PROVE  /\ Ahead(p.seq) \in Nat /\ p.len \in Nat
             /\ (Ahead(p.seq))' = Ahead(p.seq)
             /\ Ahead(p.seq) + p.len <= Ahead(seq)
  <2>1. p.seq \in SeqNo /\ p.len \in Nat
    BY Zenon DEF TcbTypeOK, InflightPacket
  <2>2. Ahead(p.seq) + p.len <= Ahead(seq)
    BY Zenon DEF InflightTiles
  <2>3. (Ahead(p.seq))' = Ahead(p.seq)
    BY Zenon DEF Ahead
  <2>4. Ahead(p.seq) \in SeqNo
    BY <2>1, WrapSubType, Zenon DEF Ahead, TcbTypeOK
  <2>5. Ahead(p.seq) \in Nat
    BY <2>4 DEF SeqNo
  <2> QED
    BY <2>1, <2>2, <2>3, <2>5, Zenon
<1>7. ASSUME NEW p \in inflight_packets'
      PROVE  (Ahead(p.seq))' + p.len <= (Ahead(seq))'
  BY <1>1, <1>2, <1>4, <1>5, <1>6, <1>7
<1>8. ASSUME NEW n \in 0 .. M - 1, n < (Ahead(seq))'
      PROVE  \E p \in inflight_packets' :
               (Ahead(p.seq))' <= n /\ n < (Ahead(p.seq))' + p.len
  <2>1. CASE n < Ahead(seq)
    <3>1. PICK p \in inflight_packets : Ahead(p.seq) <= n /\ n < Ahead(p.seq) + p.len
      BY <2>1, Zenon DEF InflightTiles
    <3> QED
      BY <1>1, <1>6, <3>1, Zenon
  <2>2. CASE ~ (n < Ahead(seq))
    BY <1>1, <1>2, <1>4, <1>5, <1>8, <2>2
  <2> QED
    BY <2>1, <2>2, Zenon
<1>9. ASSUME NEW p \in inflight_packets', NEW q \in inflight_packets', p # q
      PROVE  \/ (Ahead(p.seq))' + p.len <= (Ahead(q.seq))'
             \/ (Ahead(q.seq))' + q.len <= (Ahead(p.seq))'
  <2>1. CASE p \in inflight_packets /\ q \in inflight_packets
    <3>1. \/ Ahead(p.seq) + p.len <= Ahead(q.seq)
          \/ Ahead(q.seq) + q.len <= Ahead(p.seq)
      BY <1>9, <2>1, Zenon DEF InflightTiles
    <3> QED
      BY <1>6, <2>1, <3>1
  <2>2. CASE p = new
    BY <1>1, <1>4, <1>6, <1>9, <2>2
  <2>3. CASE q = new
    BY <1>1, <1>4, <1>6, <1>9, <2>3
  <2> QED
    BY <1>1, <2>1, <2>2, <2>3
<1> QED
  BY <1>2, <1>7, <1>8, <1>9, Zenon DEF InflightTiles

============================================================================
