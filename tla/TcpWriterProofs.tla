-------------------------- MODULE TcpWriterProofs --------------------------
(***************************************************************************)
(* Whether a writer that waits has a reason to: that poll_read does not    *)
(* make room in the window or the buffer without waking the writer.  Three *)
(* branches take a window and wake nobody, those for a keep-alive, for a   *)
(* request to send again and for a segment with the PSH flag.  That the    *)
(* first two are never taken depends on what the peer may send and on what *)
(* is on its way, in both directions (PeerInv).                            *)
(***************************************************************************)
EXTENDS TcpPeerProofs

\* A writer that waits has its waker in write_notify, and got past the
\* handshake.
WriterInv ==
  /\ "write" \in pending => wrapper = "held"
  /\ "write" \in pending \ due =>
       write_notify /\ state \notin {"SynReceived(false)", "SynReceived(true)"}

----------------------------------------------------------------------------
(* The states in which the connection is being closed. *)

Leaving == {"FinWait1(false)", "FinWait1(true)", "FinWait2(false)",
            "FinWait2(true)", "Closed"}

\* None of them is a state of the handshake, and none is Established.
LEMMA LeavingApart ==
  ASSUME NEW s \in Leaving
  PROVE  s \notin {"SynReceived(false)", "SynReceived(true)", "Established"}
  BY DEF Leaving

\* The branches of poll_read that take the connection into one of them.
LEMMA TurnLeaves ==
  ASSUME \/ ReadAborted \/ SendPassiveFin \/ SendActiveFin \/ RecvRst
         \/ RecvFin \/ FinWait1Ack \/ FinWait1Fin \/ FinWait2Packet
  PROVE  state' \in Leaving
<1>1. CASE ReadAborted \/ SendPassiveFin \/ SendActiveFin \/ RecvRst
  BY <1>1, Zenon
     DEF ReadAborted, SendPassiveFin, SendActiveFin, RecvRst, Leaving
<1>2. CASE RecvFin \/ FinWait1Ack \/ FinWait1Fin \/ FinWait2Packet
  BY <1>2, Zenon
     DEF RecvFin, FinWait1Ack, FinWait1Fin, FinWait2Packet, Leaving
<1> QED
  BY <1>1, <1>2, Zenon

\* The branches that leave the state, the numbers and the windows alone, of
\* which a timeout may instead close the connection.
LEMMA TurnStands ==
  ASSUME \/ FlushFails \/ ReadClosed \/ TimeoutReached \/ Deliver
         \/ RecvNothing \/ RecvIgnored
  PROVE  \/ UNCHANGED <<state, seq, last_ack, send_window, avg_send_window>>
         \/ state' \in Leaving
  BY Zenon DEF FlushFails, ReadClosed, TimeoutReached, Deliver, RecvNothing,
               RecvIgnored, tcbVars, Leaving

\* The branches for a packet of an established connection leave the state.
LEMMA TurnStays ==
  ASSUME \/ RecvWindowUpdate \/ RecvKeepAlive \/ RecvRetransmissionRequest
         \/ RecvNewPacket \/ RecvAck \/ RecvPsh
  PROVE  state = "Established" /\ UNCHANGED state
  BY Zenon DEF RecvWindowUpdate, RecvKeepAlive, RecvRetransmissionRequest,
               RecvNewPacket, RecvAck, RecvPsh, RecvAckIs

\* The moves of the connection's state in a turn of poll_read.
LEMMA TurnMoves ==
  ASSUME PollReadTurn
  PROVE  \/ UNCHANGED state
         \/ state = "SynReceived(false)" /\ state' = "SynReceived(true)"
         \/ state = "SynReceived(true)" /\ state' = "Established"
         \/ state' \in Leaving
<1>1. CASE SendSynAck \/ RecvHandshakeAck
  BY <1>1, Zenon DEF SendSynAck, RecvHandshakeAck
<1> QED
  BY <1>1, TurnStands, TurnStays, TurnLeaves, Zenon DEF PollReadTurn

----------------------------------------------------------------------------
(* The packet that poll_read takes next. *)

\* The packet that the stream is about to take: check_pkt_type finds it
\* valid, and neither a keep-alive nor a request to send again.
LEMMA NextPacket ==
  ASSUME TaskTypeOK, Agreed, stream_receiver # <<>>
  PROVE  /\ pkt \in InPacket /\ Kind(pkt) /\ CheckPktType(pkt) # "Invalid"
         /\ shutdown = "None" /\ NextPayload.len = 0 => pkt.seq = ack
         /\ pkt.seq # WrapSub(ack, 1)
         /\ Bare(pkt) => last_ack # pkt.ack \/ send_window # pkt.win
         /\ state # "Established" => Bare(pkt)
<1> DEFINE q == stream_receiver
<1>1. /\ q \in Seq(InPacket) /\ q # <<>> /\ pkt = q[1] /\ Len(q) \in Nat
      /\ 1 \in 1 .. Len(q) /\ Len(q) \in 1 .. Len(q) /\ 1 <= Len(q)
  BY DEF TaskTypeOK, StreamTypeOK, pkt
<1>2. pkt \in InPacket
  BY <1>1
<1>3. Kind(pkt) /\ pkt.ack <= q[Len(q)].ack
  BY <1>1, Zenon DEF Agreed, Queued, PeerQueue
<1>4. /\ last_ack <= pkt.ack /\ LastAck <= seq
      /\ Bare(pkt) => last_ack # pkt.ack \/ send_window # pkt.win
      /\ state # "Established" => Bare(pkt)
  BY <1>1, Zenon DEF Agreed, Queued
<1>5. CheckPktType(pkt) # "Invalid"
  <2>1. LastAck = q[Len(q)].ack
    BY <1>1, Zenon DEF LastAck
  <2>2. LastAck \in Nat /\ pkt.ack \in Nat /\ seq \in Nat
    BY <1>2, LastAckNat, TcbAssumption
       DEF TaskTypeOK, TcbTypeOK, InPacket, SeqNo
  <2>3. pkt.ack <= seq
    BY <1>3, <1>4, <2>1, <2>2
  <2> QED
    BY <1>2, <1>4, <2>3, AcceptedRange, Zenon DEF TaskTypeOK
<1>6. /\ Off(ack) <= NextOff /\ NextOff = Off(pkt.seq)
      /\ shutdown = "None" => Off(ack) + NextPayload.len = NextOff
  BY <1>1, Zenon DEF Agreed, Reading, NextOff
<1>7. /\ ack \in SeqNo /\ pkt.seq \in SeqNo
      /\ Off(ack) \in Nat /\ Off(pkt.seq) \in Nat
  <2>1. ack \in SeqNo /\ pkt.seq \in SeqNo
    BY <1>2 DEF TaskTypeOK, TcbTypeOK, InPacket
  <2> QED
    BY <2>1, OffType, Zenon
<1>8. ASSUME shutdown = "None", NextPayload.len = 0
      PROVE  pkt.seq = ack
  <2>1. Off(ack) = Off(pkt.seq)
    BY <1>6, <1>7, <1>8
  <2> QED
    BY <1>7, <2>1, OffInjective, Zenon
<1>9. pkt.seq # WrapSub(ack, 1)
  <2>1. Off(pkt.seq) <= PeerBytes + 1 /\ PeerBytes + 2 < M /\ PeerBytes \in Nat
    BY <1>1, <1>6, NextOffBound, TaskAssumption
  <2>2. SUFFICES ASSUME pkt.seq = WrapSub(ack, 1)
                 PROVE  FALSE
    BY Zenon
  <2>3. Off(pkt.seq) = IF Off(ack) = 0 THEN M - 1 ELSE Off(ack) - 1
    <3>1. 1 < M
      BY <2>1, TcbAssumption
    <3> QED
      BY <1>7, <2>2, <3>1, BaseType, TcbAssumption DEF Off, WrapSub, SeqNo
  <2> QED
    BY <1>6, <1>7, <2>1, <2>3, TcbAssumption
<1> QED
  BY <1>2, <1>3, <1>4, <1>5, <1>8, <1>9, Zenon

\* How check_pkt_type classifies it.
LEMMA NextPacketType ==
  ASSUME TaskTypeOK, Agreed, stream_receiver # <<>>
  PROVE  /\ pkt.len > 0 => CheckPktType(pkt) = "NewPacket"
         /\ CheckPktType(pkt) = "NewPacket" => pkt.len > 0
         /\ CheckPktType(pkt) = "WindowUpdate" => pkt.ack = last_ack /\ pkt.len = 0
         /\ CheckPktType(pkt) = "Ack" => pkt.len = 0
         /\ CheckPktType(pkt) # "KeepAlive"
         /\ pkt.flags = {"ACK"} => CheckPktType(pkt) # "RetransmissionRequest"
<1>1. /\ pkt \in InPacket /\ CheckPktType(pkt) # "Invalid"
      /\ pkt.seq # WrapSub(ack, 1)
      /\ Bare(pkt) => last_ack # pkt.ack \/ send_window # pkt.win
  BY NextPacket, Zenon
<1>2. pkt.len \in Nat
  BY <1>1, TcbAssumption DEF InPacket
<1>3. ~ (pkt.len > 0) => pkt.len = 0
  BY <1>2
<1>4. \/ last_ack # pkt.ack /\ CheckPktType(pkt) =
           (IF pkt.len > 0 THEN "NewPacket" ELSE "Ack")
      \/ last_ack = pkt.ack /\ CheckPktType(pkt) =
           IF pkt.len > 0 THEN "NewPacket"
           ELSE IF send_window = pkt.win /\ seq # last_ack
                THEN "RetransmissionRequest"
           ELSE IF WrapSub(ack, 1) = pkt.seq THEN "KeepAlive"
           ELSE "WindowUpdate"
  <2>1. /\ pkt.ack \in Nat /\ last_ack \in Nat
    BY <1>1, TcbAssumption DEF InPacket, TaskTypeOK, TcbTypeOK, SeqNo
  <2>2. ~ InvalidAck(pkt) /\ ~ (pkt.ack < last_ack)
    BY <1>1, <2>1 DEF CheckPktType
  <2> QED
    BY <2>1, <2>2 DEF CheckPktType
<1> QED
  BY <1>1, <1>3, <1>4 DEF Bare

\* What a step sends joins what is on its way; what it keeps for the next
\* turn comes after.
LEMMA EmitSame ==
  ASSUME TaskTypeOK, Emit, upstream_open, Send(packet_to_send),
         packet_to_send' = <<>>
  PROVE  Outgoing' = Outgoing
<1>1. pkt_receiver \in Seq(OutPacket) /\ packet_to_send \in Seq(OutPacket)
  BY Zenon DEF TaskTypeOK, StreamTypeOK
<1>2. pkt_receiver \o packet_to_send \in Seq(OutPacket)
  BY <1>1
<1>3. Outgoing' = (pkt_receiver \o packet_to_send) \o <<>>
  BY Zenon DEF Outgoing, Emit, Send
<1>4. (pkt_receiver \o packet_to_send) \o <<>> = pkt_receiver \o packet_to_send
  BY <1>2, ConcatAssoc, Zenon
<1> QED
  BY <1>3, <1>4, Zenon DEF Outgoing

\* One packet more, sent at once or kept.
LEMMA EmitOne ==
  ASSUME TaskTypeOK, Emit, upstream_open, NEW p \in OutPacket,
         \/ Send(packet_to_send) /\ packet_to_send' = <<p>>
         \/ Send(packet_to_send \o <<p>>) /\ packet_to_send' = <<>>
         \/ Send(<<p>>) /\ packet_to_send = <<>> /\ packet_to_send' = <<>>
  PROVE  Outgoing' = Outgoing \o <<p>>
<1>1. /\ pkt_receiver \in Seq(OutPacket) /\ packet_to_send \in Seq(OutPacket)
      /\ <<p>> \in Seq(OutPacket)
  BY DEF TaskTypeOK, StreamTypeOK
<1>2. /\ packet_to_send \o <<p>> \in Seq(OutPacket)
      /\ pkt_receiver \o <<p>> \in Seq(OutPacket)
      /\ pkt_receiver \o (packet_to_send \o <<p>>) \in Seq(OutPacket)
  BY <1>1
<1>3. /\ pkt_receiver \o (packet_to_send \o <<p>>) =
           (pkt_receiver \o packet_to_send) \o <<p>>
      /\ (pkt_receiver \o (packet_to_send \o <<p>>)) \o <<>> =
           pkt_receiver \o (packet_to_send \o <<p>>)
      /\ pkt_receiver \o <<>> = pkt_receiver
      /\ (pkt_receiver \o <<p>>) \o <<>> = pkt_receiver \o <<p>>
  <2>1. \A s \in Seq(OutPacket) : s \o <<>> = s
    BY ConcatAssoc, Zenon
  <2>2. pkt_receiver \o (packet_to_send \o <<p>>) =
          (pkt_receiver \o packet_to_send) \o <<p>>
    BY <1>1
  <2> QED
    BY <1>1, <1>2, <2>1, <2>2, Zenon
<1>4. CASE Send(packet_to_send) /\ packet_to_send' = <<p>>
  BY <1>4, Zenon DEF Outgoing, Emit, Send
<1>5. CASE Send(packet_to_send \o <<p>>) /\ packet_to_send' = <<>>
  <2>1. Outgoing' = (pkt_receiver \o (packet_to_send \o <<p>>)) \o <<>>
    BY <1>5, Zenon DEF Outgoing, Emit, Send
  <2> QED
    BY <1>3, <2>1, Zenon DEF Outgoing
<1>6. CASE Send(<<p>>) /\ packet_to_send = <<>> /\ packet_to_send' = <<>>
  <2>1. Outgoing' = (pkt_receiver \o <<p>>) \o <<>>
    BY <1>6, Zenon DEF Outgoing, Emit, Send
  <2>2. Outgoing = pkt_receiver
    BY <1>3, <1>6, Zenon DEF Outgoing
  <2> QED
    BY <1>3, <2>1, <2>2, Zenon
<1> QED
  BY <1>4, <1>5, <1>6, Zenon

\* A packet without payload takes up room only if it has a SYN or FIN.
LEMMA EmptyCounts ==
  ASSUME NEW p, p.len = 0
  PROVE  /\ p.flags = {"ACK"} => Counts(p) = 0 /\ "RST" \notin p.flags
         /\ p.flags = {"SYN", "ACK"} => Counts(p) = 1 /\ "RST" \notin p.flags
  BY DEF Counts

\* The turns that send.
LEMMA SynAckAgreed ==
  ASSUME TaskTypeOK, TaskTypeOK', Agreed, session => upstream_open,
         seq = last_ack, last_ack' <= seq', SendSynAck, Emit, UNCHANGED peer
  PROVE  Agreed'
<1> DEFINE p == RevPacket({"SYN", "ACK"}, TTL, seq, ack, recv_window', 0)
<1>1. p \in OutPacket
  <2>1. {"SYN", "ACK"} \in SUBSET Flag /\ TTL \in {TTL, DROP_TTL}
    BY Zenon DEF Flag
  <2> QED
    BY <2>1, TurnPackets, Zenon DEF TaskTypeOK
<1>2. /\ Send(packet_to_send) /\ packet_to_send' = <<p>>
      /\ seq' = WrapAdd(seq, 1)
      /\ state = "SynReceived(false)" /\ state' = "SynReceived(true)"
      /\ UNCHANGED <<ack, last_ack, send_window, unordered_packets,
                     stream_receiver, peer, session, shutdown>>
  BY Zenon DEF SendSynAck, outerVars
<1>3. Counts(p) = 1 /\ p.seq = seq /\ "RST" \notin p.flags
  <2>1. p.len = 0 /\ p.seq = seq /\ p.flags = {"SYN", "ACK"}
    BY Zenon DEF RevPacket
  <2> HIDE DEF p
  <2> QED
    BY <2>1, EmptyCounts, Zenon
<1> HIDE DEF p
<1>4. seq' = seq + 1
  <2>1. seq \in SeqNo /\ M > 2
    BY TaskAssumption, TcbAssumption DEF TaskTypeOK, TcbTypeOK
  <2>2. seq <= WrapAdd(seq, 1)
    BY <1>2, Zenon
  <2>3. WrapAdd(seq, 1) = seq + 1
    BY <2>1, <2>2, TcbAssumption DEF WrapAdd, SeqNo
  <2> QED
    BY <1>2, <2>3, Zenon
<1>5. session => Outgoing' = Outgoing \o <<p>>
  BY <1>1, <1>2, EmitOne, Zenon
<1>6. Sends(p)
  BY <1>1, <1>3, <1>4, <1>5, Zenon DEF Sends
<1>7. state # "Established" /\ state' # "Established"
  BY <1>2
<1> QED
  BY <1>2, <1>6, <1>7, SendsAgreed, Zenon

\* The delivery of a payload, with its acknowledgment unless the copy into
\* the caller's buffer panics.
LEMMA DeliverAgreed ==
  ASSUME TaskTypeOK, TaskTypeOK', Agreed, session => upstream_open,
         Deliver, Emit, UNCHANGED peer
  PROVE  Agreed'
<1> DEFINE p == RevPacket({"ACK"}, TTL, seq, ack', recv_window', 0)
<1>1. p \in OutPacket
  <2>1. {"ACK"} \in SUBSET Flag /\ TTL \in {TTL, DROP_TTL}
    BY Zenon DEF Flag
  <2> QED
    BY <2>1, TurnPackets, Zenon DEF TaskTypeOK
<1>2. /\ Send(IF panicked' THEN packet_to_send ELSE packet_to_send \o <<p>>)
      /\ packet_to_send' = <<>> /\ CanDeliver
      /\ ack' = WrapAdd(ack, NextPayload.len)
      /\ unordered_packets' = WithoutNextPayload
      /\ UNCHANGED <<state, seq, last_ack, send_window, stream_receiver, peer,
                     session, shutdown>>
  BY Zenon DEF Deliver, outerVars
<1>3. p.seq = seq /\ "RST" \notin p.flags /\ seq + Counts(p) = seq
  <2>1. p.len = 0 /\ p.seq = seq /\ p.flags = {"ACK"}
    BY Zenon DEF RevPacket
  <2> HIDE DEF p
  <2>2. Counts(p) = 0 /\ "RST" \notin p.flags
    BY <2>1, EmptyCounts, Zenon
  <2>3. seq + 0 = seq
    BY TcbAssumption DEF TaskTypeOK, TcbTypeOK, SeqNo
  <2> QED
    BY <2>1, <2>2, <2>3, Zenon
<1> HIDE DEF p
<1>4. CASE panicked'
  <2>1. Send(packet_to_send)
    BY <1>2, <1>4, Zenon
  <2>2. session => Outgoing' = Outgoing
    BY <1>2, <2>1, EmitSame, Zenon
  <2> QED
    BY <1>2, <2>2, DeliversAgreed, Zenon
<1>5. CASE ~ panicked'
  <2>1. Send(packet_to_send \o <<p>>)
    BY <1>2, <1>5, Zenon
  <2>2. session => Outgoing' = Outgoing \o <<p>>
    BY <1>1, <1>2, <2>1, EmitOne, Zenon
  <2>3. Sends(p)
    BY <1>1, <1>2, <1>3, <2>2, Zenon DEF Sends
  <2> QED
    BY <1>2, <2>3, DeliversAgreed, Zenon
<1> QED
  BY <1>4, <1>5

\* The buffer after the payload of a packet at ack is added, or none is.
LEMMA BufferAfter ==
  ASSUME TcbTypeOK, NEW p \in InPacket, NextPayload.len = 0,
         \/ unordered_packets' = WithoutNextPayload /\ p.len = 0
         \/ /\ p.seq = ack
            /\ unordered_packets' =
                 AddUnorderedPacket(WithoutNextPayload, p.seq,
                                    [off |-> p.off, len |-> p.len])
  PROVE  \A s \in SeqNo : unordered_packets'[s].len =
                            IF s = ack THEN p.len ELSE unordered_packets[s].len
<1>1. /\ unordered_packets \in [SeqNo -> Payload] /\ ack \in SeqNo
      /\ ~ (ack < ack)
  BY TcbAssumption DEF TcbTypeOK, SeqNo
<1>2. CASE unordered_packets' = WithoutNextPayload /\ p.len = 0
  BY <1>1, <1>2, Zenon DEF WithoutNextPayload, NoPayload
<1>3. CASE p.seq = ack /\ unordered_packets' =
             AddUnorderedPacket(WithoutNextPayload, p.seq,
                                [off |-> p.off, len |-> p.len])
  <2>1. unordered_packets' =
          [WithoutNextPayload EXCEPT ![ack] = [off |-> p.off, len |-> p.len]]
    BY <1>1, <1>3, Zenon DEF AddUnorderedPacket
  <2> QED
    BY <1>1, <2>1, Zenon DEF WithoutNextPayload
<1> QED
  BY <1>2, <1>3

\* The branches that take a packet believe all of it.
LEMMA ReceiveTakes ==
  ASSUME TaskTypeOK, Agreed, Steady, session => upstream_open,
         \/ RecvHandshakeAck \/ RecvWindowUpdate \/ RecvNewPacket \/ RecvAck
         \/ RecvPsh,
         Emit, UNCHANGED peer
  PROVE  Takes
<1>1. RecvContinue /\ Send(packet_to_send) /\ packet_to_send' = <<>>
  BY Zenon
     DEF RecvHandshakeAck, RecvWindowUpdate, RecvNewPacket, RecvAck, RecvPsh,
         RecvAckIs, RecvValid
<1>2. /\ stream_receiver # <<>> /\ stream_receiver' = Tail(stream_receiver)
      /\ ~ CanDeliver /\ UNCHANGED <<shutdown, session>>
  BY <1>1, Zenon DEF RecvContinue, RecvPacket, Receive, outerVars
<1>3. session => Outgoing' = Outgoing
  BY <1>1, EmitSame, Zenon
<1>4. /\ pkt \in InPacket /\ Kind(pkt)
      /\ shutdown = "None" /\ NextPayload.len = 0 => pkt.seq = ack
      /\ state # "Established" => Bare(pkt)
  BY <1>2, NextPacket, Zenon
<1>5. /\ CheckPktType(pkt) = "WindowUpdate" => pkt.ack = last_ack /\ pkt.len = 0
      /\ CheckPktType(pkt) = "Ack" => pkt.len = 0
  BY <1>2, NextPacketType, Zenon
<1>6. shutdown = "None" => NextPayload.len = 0
  <2>1. NextPayload \in Payload
    BY BufferType, Zenon DEF TaskTypeOK
  <2>2. NextPayload.len \in Nat
    BY <2>1, TcbAssumption DEF Payload
  <2> QED
    BY <1>2, <2>2 DEF CanDeliver
<1>7. ChangeLastAck(pkt.ack) => last_ack' = pkt.ack
  <2>1. pkt.ack \in SeqNo
    BY <1>4 DEF InPacket
  <2> QED
    BY <2>1, LastAckType, Zenon DEF TaskTypeOK
<1>8. pkt.flags \in {{"ACK"}, {"PSH", "ACK"}} => "FIN" \notin pkt.flags
  OBVIOUS
<1>9. /\ "FIN" \notin pkt.flags /\ state' = "Established"
      /\ UNCHANGED <<seq, ack>>
  BY <1>8, Zenon
     DEF RecvHandshakeAck, RecvWindowUpdate, RecvNewPacket, RecvAck, RecvPsh,
         RecvAckIs
<1>10. RecvPsh => shutdown = "None" /\ pkt.seq = ack
  <2>1. RecvPsh => pkt.flags = {"PSH", "ACK"}
    BY Zenon DEF RecvPsh
  <2>2. pkt.flags = {"PSH", "ACK"} => {"PSH", "ACK"} \in DataFlags
    BY <1>4 DEF Kind, Bare
  <2> QED
    BY <1>4, <1>6, <2>1, <2>2, Zenon DEF Steady
<1>11. last_ack' = pkt.ack /\ send_window' = pkt.win
  <2>1. CASE RecvWindowUpdate
    BY <1>5, <2>1, Zenon DEF RecvWindowUpdate, RecvAckIs, ChangeSendWindow
  <2>2. CASE RecvPsh
    BY <1>7, <1>10, <2>2, Zenon DEF RecvPsh, ChangeSendWindow
  <2>3. CASE RecvHandshakeAck \/ RecvNewPacket \/ RecvAck
    BY <1>7, <2>3, Zenon
       DEF RecvHandshakeAck, RecvNewPacket, RecvAck, ChangeSendWindow
  <2> QED
    BY <2>1, <2>2, <2>3
<1>12. ASSUME shutdown = "None"
       PROVE  \/ unordered_packets' = WithoutNextPayload /\ pkt.len = 0
              \/ /\ pkt.seq = ack
                 /\ unordered_packets' =
                      AddUnorderedPacket(WithoutNextPayload, pkt.seq,
                                         [off |-> pkt.off, len |-> pkt.len])
  <2>1. CASE RecvHandshakeAck
    <3>1. state # "Established"
      BY <2>1 DEF RecvHandshakeAck
    <3> QED
      BY <1>4, <2>1, <3>1, Zenon DEF RecvHandshakeAck, Bare
  <2>2. CASE RecvWindowUpdate \/ RecvAck
    BY <1>5, <2>2, Zenon DEF RecvWindowUpdate, RecvAck, RecvAckIs
  <2>3. CASE RecvNewPacket
    BY <1>4, <1>6, <1>12, <2>3, Zenon DEF RecvNewPacket
  <2>4. CASE RecvPsh
    BY <1>10, <2>4, Zenon DEF RecvPsh
  <2> QED
    BY <2>1, <2>2, <2>3, <2>4
<1>13. ASSUME shutdown = "None"
       PROVE  \A s \in SeqNo : unordered_packets'[s].len =
                  IF s = ack THEN pkt.len ELSE unordered_packets[s].len
  <2>1. TcbTypeOK /\ NextPayload.len = 0
    BY <1>6, <1>13, Zenon DEF TaskTypeOK
  <2> QED
    BY <1>4, <1>12, <1>13, <2>1, BufferAfter, Zenon
<1> QED
  BY <1>2, <1>3, <1>6, <1>9, <1>11, <1>13, Zenon DEF Takes

\* Each turn of poll_read's loop that leaves the connection open.
LEMMA TurnAgreed ==
  ASSUME TaskTypeOK, TaskTypeOK', Agreed, Steady, Steady',
         session => upstream_open, state = "SynReceived(false)" => seq = last_ack,
         PollReadTurn, Emit, UNCHANGED peer
  PROVE  Agreed'
<1>1. UNCHANGED <<session, upstream_open, wrapper>>
  BY TurnOuter, Zenon
<1>2. /\ state \in {"SynReceived(false)", "SynReceived(true)", "Established"}
      /\ state' \in {"SynReceived(false)", "SynReceived(true)", "Established"}
      /\ last_ack' <= seq'
  BY Zenon DEF Steady
<1>3. CASE FlushFails
  <2>1. ~ session
    BY <1>3, Zenon DEF FlushFails, Flushable
  <2> QED
    BY <1>1, <1>3, <2>1, ForgottenAgreed, Zenon DEF FlushFails, tcbVars
<1>4. CASE TimeoutReached
  <2>1. "Closed" \notin {"SynReceived(false)", "SynReceived(true)", "Established"}
    BY Zenon
  <2>2. ~ upstream_open
    BY <1>2, <1>4, <2>1, Zenon DEF TimeoutReached
  <2> QED
    BY <1>1, <1>4, <2>2, ForgottenAgreed, Zenon DEF TimeoutReached
<1>5. CASE SendSynAck
  <2>1. seq = last_ack
    BY <1>5, Zenon DEF SendSynAck
  <2> QED
    BY <1>2, <1>5, <2>1, SynAckAgreed, Zenon
<1>6. CASE Deliver
  BY <1>6, DeliverAgreed, Zenon
<1>7. CASE RecvNothing
  <2>1. /\ UNCHANGED <<state, seq, ack, last_ack, send_window, stream_receiver,
                       peer, shutdown>>
        /\ Send(packet_to_send) /\ packet_to_send' = <<>> /\ ~ CanDeliver
        /\ unordered_packets' = WithoutNextPayload
    BY <1>7, Zenon DEF RecvNothing, Receive
  <2>2. session => Outgoing' = Outgoing
    BY <2>1, EmitSame, Zenon
  <2>3. shutdown = "None" =>
          \A s \in SeqNo : unordered_packets'[s].len = unordered_packets[s].len
    <3>1. unordered_packets \in [SeqNo -> Payload] /\ ack \in SeqNo
      BY Zenon DEF TaskTypeOK, TcbTypeOK
    <3>2. unordered_packets[ack].len \in Nat
      BY <3>1, TcbAssumption DEF Payload
    <3>3. shutdown = "None" => unordered_packets[ack].len = 0
      BY <2>1, <3>2 DEF CanDeliver, NextPayload
    <3> QED
      BY <2>1, <3>1, <3>3 DEF WithoutNextPayload, NoPayload
  <2>4. Frame
    BY <1>1, <2>1, <2>2, <2>3, Zenon DEF Frame
  <2> QED
    BY <2>4, FrameAgreed, Zenon DEF TaskTypeOK
<1>8. CASE RecvHandshakeAck \/ RecvWindowUpdate \/ RecvNewPacket \/ RecvAck
             \/ RecvPsh
  BY <1>8, ReceiveTakes, TakesAgreed, Zenon
<1>9. CASE ReadClosed
  BY <1>2, <1>9, LeavingApart, Zenon DEF ReadClosed, Leaving
<1>10. CASE \/ ReadAborted \/ SendPassiveFin \/ SendActiveFin \/ RecvRst
            \/ RecvFin \/ FinWait1Ack \/ FinWait1Fin \/ FinWait2Packet
  BY <1>2, <1>10, TurnLeaves, LeavingApart, Zenon
<1>11. CASE RecvIgnored \/ RecvKeepAlive \/ RecvRetransmissionRequest
  <2>1. stream_receiver # <<>>
    BY <1>11, Zenon
       DEF RecvIgnored, RecvKeepAlive, RecvRetransmissionRequest, RecvAckIs,
           RecvContinue, RecvPacket
  <2>2. /\ pkt.len > 0 => CheckPktType(pkt) = "NewPacket"
        /\ CheckPktType(pkt) # "KeepAlive"
        /\ pkt.flags = {"ACK"} => CheckPktType(pkt) # "RetransmissionRequest"
    BY <2>1, NextPacketType, Zenon
  <2>3. ~ RecvKeepAlive /\ ~ RecvRetransmissionRequest
    BY <2>2, Zenon DEF RecvKeepAlive, RecvRetransmissionRequest, RecvAckIs
  <2>4. /\ CheckPktType(pkt) # "Invalid" /\ Kind(pkt)
        /\ state # "Established" => pkt.flags = {"ACK"}
    BY <2>1, NextPacket, Zenon DEF Bare
  <2>5. /\ pkt.flags \in {{"ACK"}, {"FIN", "ACK"}, {"PSH", "ACK"}}
        /\ pkt.flags = {"PSH", "ACK"} => pkt.len > 0
    BY <2>4, TaskAssumption DEF Kind, Bare
  <2>6. /\ state \notin {"FinWait1(false)", "FinWait2(true)"}
        /\ state = "SynReceived(true)" => state # "Established"
    BY <1>2
  <2>7. ~ Unmatched
    BY <2>2, <2>4, <2>5, <2>6, Zenon DEF Unmatched
  <2> QED
    BY <1>11, <2>3, <2>7, Zenon DEF RecvIgnored
<1> QED
  BY <1>3, <1>4, <1>5, <1>6, <1>7, <1>8, <1>9, <1>10, <1>11, Zenon
     DEF PollReadTurn

----------------------------------------------------------------------------
(* Once the stream is not steady it stays so. *)

\* A shutdown is not taken back.
LEMMA ShutdownStays ==
  ASSUME PollReadTurn
  PROVE  shutdown' = "None" => shutdown = "None"
<1>1. "Ready" # "None"
  BY Zenon
<1> QED
  BY <1>1, Zenon
     DEF PollReadTurn, FlushFails, ReadClosed, ReadAborted, TimeoutReached,
         SendSynAck, Deliver, SendPassiveFin, SendActiveFin, RecvNothing,
         RecvRst, RecvIgnored, RecvHandshakeAck, RecvWindowUpdate,
         RecvKeepAlive, RecvRetransmissionRequest, RecvNewPacket, RecvAck,
         RecvPsh, RecvFin, FinWait1Ack, FinWait1Fin, FinWait2Packet,
         RecvAckIs, RecvValid, RecvContinue

\* A packet that is not ignored shows that seq has not wrapped.
LEMMA ValidShows ==
  ASSUME TaskTypeOK, RecvContinue, CheckPktType(pkt) # "Invalid"
  PROVE  last_ack <= seq
<1>1. pkt \in InPacket
  BY ReceiverType, Zenon DEF RecvContinue, RecvPacket, TaskTypeOK
<1>2. last_ack <= pkt.ack /\ pkt.ack <= seq
  BY <1>1, AcceptedRange, Zenon DEF TaskTypeOK
<1>3. last_ack \in Nat /\ pkt.ack \in Nat /\ seq \in Nat
  BY <1>1, TcbAssumption DEF TaskTypeOK, TcbTypeOK, InPacket, SeqNo
<1> QED
  BY <1>2, <1>3

\* No turn makes the stream steady again.
LEMMA TurnSteady ==
  ASSUME TaskTypeOK, state = "SynReceived(false)" => seq = last_ack,
         PollReadTurn, Steady'
  PROVE  Steady
<1> DEFINE Open == {"SynReceived(false)", "SynReceived(true)", "Established"}
<1>1. /\ wrapper = "held" /\ state' \in Open /\ last_ack' <= seq'
      /\ shutdown = "None" \/ {"PSH", "ACK"} \notin DataFlags
  BY TurnOuter, ShutdownStays, Zenon DEF Steady
<1>2. SUFFICES state \in Open /\ last_ack <= seq
  BY <1>1, Zenon DEF Steady
<1>3. CASE FlushFails \/ ReadClosed
  BY <1>1, <1>3, Zenon DEF FlushFails, ReadClosed, tcbVars
<1>4. CASE Deliver \/ RecvNothing \/ RecvIgnored
  BY <1>1, <1>4, Zenon DEF Deliver, RecvNothing, RecvIgnored
<1>5. CASE RecvWindowUpdate \/ RecvRetransmissionRequest
  BY <1>1, <1>5, Zenon DEF RecvWindowUpdate, RecvRetransmissionRequest
<1>6. CASE \/ ReadAborted \/ SendPassiveFin \/ SendActiveFin \/ RecvRst
           \/ RecvFin \/ FinWait1Ack \/ FinWait1Fin \/ FinWait2Packet
  BY <1>1, <1>6, TurnLeaves, LeavingApart, Zenon
<1>7. CASE TimeoutReached
  <2>1. "Closed" \notin Open
    BY Zenon
  <2> QED
    BY <1>1, <1>7, <2>1, Zenon DEF TimeoutReached
<1>8. CASE SendSynAck
  <2>1. state = "SynReceived(false)" /\ seq = last_ack
    BY <1>8, Zenon DEF SendSynAck
  <2> QED
    BY <2>1, TcbAssumption DEF TaskTypeOK, TcbTypeOK, SeqNo
<1>9. CASE RecvHandshakeAck
  <2>1. RecvContinue /\ CheckPktType(pkt) # "Invalid" /\ state \in Open
    BY <1>9, Zenon DEF RecvHandshakeAck, RecvValid
  <2> QED
    BY <2>1, ValidShows, Zenon
<1>10. CASE RecvKeepAlive \/ RecvNewPacket \/ RecvAck \/ RecvPsh
  <2>1. /\ RecvContinue /\ state \in Open
        /\ CheckPktType(pkt) \in {"KeepAlive", "NewPacket", "Ack"}
    BY <1>10, Zenon
       DEF RecvKeepAlive, RecvNewPacket, RecvAck, RecvPsh, RecvAckIs
  <2>2. CheckPktType(pkt) # "Invalid"
    BY <2>1, Zenon
  <2> QED
    BY <2>1, <2>2, ValidShows, Zenon
<1> QED
  BY <1>3, <1>4, <1>5, <1>6, <1>7, <1>8, <1>9, <1>10, Zenon
     DEF PollReadTurn

\* Nor does a write: with less than MAX_UNACK bytes out it cannot take seq
\* past last_ack in either direction.
LEMMA WriteSteady ==
  ASSUME TaskTypeOK, NEW n \in WriteLens, PollWrite(n), last_ack' <= seq'
  PROVE  /\ last_ack <= seq
         /\ seq' = seq + PayloadLen(n, send_window)
         /\ PayloadLen(n, send_window) \in 0 .. MSS
<1>1. PayloadLen(n, send_window) \in 0 .. MSS
  BY WriteType, Zenon DEF TaskTypeOK
<1> DEFINE k == PayloadLen(n, send_window)
<1>2. seq' = WrapAdd(seq, k) /\ last_ack' = last_ack
  BY Zenon DEF PollWrite, AddInflightPacket
<1>3. ~ (WrapSub(seq, last_ack) >= MAX_UNACK)
  BY Zenon DEF PollWrite, WriteBlocked, IsSendBufferFull
<1>4. seq \in SeqNo /\ last_ack \in SeqNo /\ k \in 0 .. MSS
  BY <1>1, Zenon DEF TaskTypeOK, TcbTypeOK
<1>5. last_ack <= WrapAdd(seq, k)
  BY <1>2, Zenon
<1> HIDE DEF k
<1>6. last_ack <= seq /\ WrapAdd(seq, k) = seq + k
  BY <1>3, <1>4, <1>5, StreamAssumption, TcbAssumption
     DEF WrapAdd, WrapSub, SeqNo
<1> QED
  BY <1>1, <1>2, <1>6, Zenon DEF k

\* A write sends one packet.
LEMMA WriteAgreed ==
  ASSUME TaskTypeOK, ControlInv, Agreed, session => upstream_open,
         NEW n \in WriteLens, PollWrite(n), last_ack' <= seq', Emit,
         UNCHANGED peer
  PROVE  Agreed'
<1> DEFINE k == PayloadLen(n, send_window)
           p == RevPacket({"PSH", "ACK"}, TTL, seq, ack, recv_window, k)
<1>1. k \in 0 .. MSS /\ seq' = seq + k
  BY WriteSteady, Zenon
<1>2. p \in OutPacket
  <2>1. {"PSH", "ACK"} \in SUBSET Flag /\ TTL \in {TTL, DROP_TTL}
    BY DEF Flag
  <2> HIDE DEF k
  <2> QED
    BY <1>1, <2>1, RevPacketType, Zenon DEF TaskTypeOK, TcbTypeOK
<1>3. /\ Send(<<p>>) /\ UNCHANGED packet_to_send /\ state = "Established"
      /\ polling = "idle"
      /\ UNCHANGED <<state, ack, last_ack, send_window, unordered_packets,
                     stream_receiver, peer, session, shutdown>>
  BY Zenon DEF PollWrite, CanWrite, Callable, outerVars
<1>4. p.seq = seq /\ p.flags = {"PSH", "ACK"} /\ p.len = k
  BY Zenon DEF RevPacket
<1> HIDE DEF p, k
<1>5. "RST" \notin p.flags /\ Counts(p) = k
  BY <1>1, <1>4, StreamAssumption DEF Counts
<1>6. packet_to_send = <<>>
  <2>1. state # "Closed" /\ polling \in {"idle", "done"}
    BY <1>3
  <2> QED
    BY <2>1, Zenon DEF ControlInv, NoStrandedPacket
<1>7. session => Outgoing' = Outgoing \o <<p>>
  BY <1>2, <1>3, <1>6, EmitOne, Zenon
<1>8. Sends(p)
  BY <1>1, <1>2, <1>4, <1>5, <1>7, Zenon DEF Sends
<1> QED
  BY <1>3, <1>8, SendsAgreed, Zenon

----------------------------------------------------------------------------
(* The agreement is invariant. *)

\* The Tcb is not touched: the stream was steady if it still is.
LEMMA FrameSteady ==
  ASSUME UNCHANGED <<tcbVars, wrapper>>, shutdown' = "None" => shutdown = "None",
         Steady'
  PROVE  Steady
  BY Zenon DEF Steady, tcbVars

\* The calls that send nothing.
LEMMA CallAgreed ==
  ASSUME TaskTypeOK, Steady => Agreed, Steady',
         UNCHANGED <<tcbVars, stream_receiver, session, wrapper,
                     packet_to_send, peer>>,
         \/ UNCHANGED pkt_receiver
         \/ sent' = <<>> /\ Emit,
         shutdown' = "None" => shutdown = "None"
  PROVE  Agreed'
<1>1. Agreed
  BY FrameSteady, Zenon
<1>2. pkt_receiver' = pkt_receiver
  <2>1. pkt_receiver \in Seq(OutPacket)
    BY Zenon DEF TaskTypeOK
  <2>2. pkt_receiver \o <<>> = pkt_receiver
    BY <2>1, ConcatAssoc, Zenon
  <2> QED
    BY <2>2, Zenon DEF Emit
<1>3. Outgoing' = Outgoing
  BY <1>2, Zenon DEF Outgoing
<1>4. Frame
  BY <1>3, Zenon DEF Frame, tcbVars
<1> QED
  BY <1>1, <1>4, FrameAgreed, Zenon DEF TaskTypeOK

\* The steps other than a turn, a write or the peer's.
LEMMA OthersAgreed ==
  ASSUME TaskTypeOK, Steady => Agreed, Steady',
         \/ CallRead \/ CallShutdown \/ FindShutdownReady \/ TimerElapses
         \/ Drop \/ GiveUp \/ Forget \/ Stop \/ \E c \in Call : Begin(c)
         \/ UNCHANGED allVars
  PROVE  Agreed'
<1>1. "dropped" # "held" /\ "gone" # "held" /\ "Pending" # "None"
  OBVIOUS
<1>2. ~ Drop /\ ~ GiveUp
  BY <1>1, Zenon DEF Drop, GiveUp, DropWrapper, DropInner, Steady
<1>3. CASE Forget \/ Stop
  <2>1. /\ session' = FALSE \/ (~ session /\ UNCHANGED session)
        /\ UNCHANGED <<tcbVars, stream_receiver, wrapper, shutdown>>
    BY <1>3, Zenon
       DEF Forget, Stop, SessionRemoved, StackStops, StreamRests
  <2>2. Agreed
    BY <2>1, FrameSteady, Zenon
  <2>3. ~ session'
    BY <2>1, Zenon
  <2> QED
    BY <2>1, <2>2, <2>3, ForgottenAgreed, Zenon DEF tcbVars
<1>4. CASE TimerElapses \/ \E c \in Call : Begin(c)
  BY <1>4, CallAgreed, Zenon DEF TimerElapses, Begin, StreamRests
<1>5. CASE UNCHANGED allVars
  BY <1>5, CallAgreed, Zenon DEF allVars, vars, streamVars
<1>6. CASE CallRead \/ CallShutdown \/ FindShutdownReady
  <2>1. /\ UNCHANGED <<tcbVars, stream_receiver, session, wrapper,
                       packet_to_send, peer>>
        /\ sent' = <<>> /\ Emit
        /\ shutdown' \in {"Pending", shutdown}
    BY <1>6, Zenon
       DEF CallRead, CallShutdown, FindShutdownReady, PollRead, PollShutdown,
           ShutdownReady, StreamRests, outerVars
  <2> QED
    BY <1>1, <2>1, CallAgreed, Zenon
<1> QED
  BY <1>2, <1>3, <1>4, <1>5, <1>6, Zenon

\* Each step keeps the agreement.
LEMMA AgreedStep ==
  ASSUME TaskTypeOK, TaskTypeOK', PeerInv, [Next]_allVars, Steady'
  PROVE  Agreed'
<1>1. /\ ControlInv /\ (session => upstream_open) /\ (Steady => Agreed)
      /\ state = "SynReceived(false)" => seq = last_ack
  BY Zenon DEF PeerInv
<1>2. CASE Turn
  <2>1. PollReadTurn /\ Emit /\ UNCHANGED peer
    BY <1>2, Zenon
       DEF Turn, TurnReturns, TurnPends, TurnContinues, PollReadTurn
  <2>2. Steady
    BY <1>1, <2>1, TurnSteady, Zenon
  <2> QED
    BY <1>1, <2>1, <2>2, TurnAgreed, Zenon
<1>3. CASE CallWrite
  <2>1. Emit /\ UNCHANGED peer
    BY <1>3, Zenon DEF CallWrite
  <2>2. CASE \E n \in WriteLens : PollWrite(n)
    <3>1. PICK n \in WriteLens : PollWrite(n)
      BY <2>2, Zenon
    <3>2. last_ack' <= seq'
      BY Zenon DEF Steady
    <3>3. last_ack <= seq
      BY <3>1, <3>2, WriteSteady, Zenon
    <3>4. Steady
      BY <3>1, <3>3, Zenon DEF Steady, PollWrite, CanWrite, outerVars
    <3> QED
      BY <1>1, <2>1, <3>1, <3>2, <3>4, WriteAgreed, Zenon
  <2>3. CASE WriteBlocks \/ StreamRests
    <3>1. /\ sent' = <<>>
          /\ UNCHANGED <<tcbVars, stream_receiver, session, wrapper,
                         packet_to_send, shutdown>>
      BY <2>3, Zenon DEF WriteBlocks, StreamRests, outerVars
    <3> QED
      BY <1>1, <2>1, <3>1, CallAgreed, Zenon
  <2> QED
    BY <1>3, <2>2, <2>3, Zenon DEF CallWrite
<1>4. CASE Peer
  <2>1. Quiet
    BY <1>4, ArriveQuiet, Zenon
       DEF Peer, PeerTakes, PeerReads, StreamRests, Quiet
  <2>2. Steady
    BY <2>1, FrameSteady, Zenon DEF Quiet
  <2>3. wrapper = "held"
    BY <2>2, Zenon DEF Steady
  <2> QED
    BY <1>1, <1>4, <2>2, <2>3, PeerAgreed, Zenon
<1>5. CASE \/ CallRead \/ CallShutdown \/ FindShutdownReady \/ TimerElapses
           \/ Drop \/ GiveUp \/ Forget \/ Stop \/ \E c \in Call : Begin(c)
           \/ UNCHANGED allVars
  BY <1>1, <1>5, OthersAgreed, Zenon
<1> QED
  BY <1>2, <1>3, <1>4, <1>5, Zenon DEF Next, Poll

\* Which steps leave the stream waiting for its first turn, and which leave
\* the stack's task with the session.
LEMMA TurnStart ==
  ASSUME PollReadTurn, state' = "SynReceived(false)"
  PROVE  UNCHANGED <<state, seq, last_ack>>
<1>1. /\ state' \notin Leaving
      /\ state' # "SynReceived(true)" /\ state' # "Established"
  BY DEF Leaving
<1>2. CASE SendSynAck \/ RecvHandshakeAck
  BY <1>1, <1>2, Zenon DEF SendSynAck, RecvHandshakeAck
<1> QED
  BY <1>1, <1>2, TurnStands, TurnStays, TurnLeaves, Zenon DEF PollReadTurn

\* PeerInv is inductive.
LEMMA PeerStep ==
  ASSUME TaskTypeOK, TaskTypeOK', PeerInv, [Next]_allVars
  PROVE  PeerInv'
<1>1. ControlInv'
  BY TaskControlStep, Zenon DEF PeerInv
<1>2. Steady' => Agreed'
  BY AgreedStep, Zenon
<1>3. CASE PollReadTurn
  <2>1. session' => upstream_open'
    BY <1>3, TurnOuter, Zenon DEF PeerInv
  <2>2. state' = "SynReceived(false)" => seq' = last_ack'
    BY <1>3, TurnStart, Zenon DEF PeerInv
  <2> QED
    BY <1>1, <1>2, <2>1, <2>2, Zenon DEF PeerInv
<1>4. CASE OwnerCall \/ StackStep \/ Quiet
  <2>1. UNCHANGED tcbVars
    BY <1>4, Zenon
       DEF OwnerCall, PollRead, PollShutdown, WriteBlocks, DropWrapper,
           ShutdownReady, DropInner, StackStep, SessionRemoved, StackStops,
           Quiet
  <2>2. UNCHANGED <<session, upstream_open>> \/ session' = FALSE
    BY <1>4, Zenon
       DEF OwnerCall, PollRead, PollShutdown, WriteBlocks, DropWrapper,
           ShutdownReady, DropInner, StackStep, SessionRemoved, StackStops,
           Quiet, outerVars
  <2>3. session' => upstream_open'
    BY <2>2, Zenon DEF PeerInv
  <2>4. state' = "SynReceived(false)" => seq' = last_ack'
    BY <2>1, Zenon DEF PeerInv, tcbVars
  <2> QED
    BY <1>1, <1>2, <2>3, <2>4, Zenon DEF PeerInv
<1>5. CASE \E n \in WriteLens : PollWrite(n)
  <2>1. state' = "Established" /\ UNCHANGED <<session, upstream_open>>
    BY <1>5, Zenon DEF PollWrite, CanWrite, outerVars
  <2>2. state' # "SynReceived(false)"
    BY <2>1
  <2> QED
    BY <1>1, <1>2, <2>1, <2>2, Zenon DEF PeerInv
<1> QED
  BY <1>3, <1>4, <1>5, StepKinds, ArriveQuiet, Zenon DEF Rests

\* A new connection: nothing is on its way.
LEMMA PeerStart == Init => PeerInv
<1> SUFFICES ASSUME Init PROVE PeerInv
  OBVIOUS
<1>1. /\ state = "SynReceived(false)" /\ seq = ISS /\ last_ack = ISS
      /\ ack = Base /\ send_window = MaxWindow
      /\ unordered_packets = [s \in SeqNo |-> NoPayload]
      /\ session = TRUE /\ upstream_open = TRUE /\ stream_receiver = <<>>
      /\ pkt_receiver = <<>> /\ packet_to_send = <<>> /\ peer = PeerInit
  BY Zenon DEF Init, StreamInit, TcbInit, Base
<1>2. /\ peer.next = ISS /\ peer.sent = 0 /\ peer.held = 0
      /\ peer.reply = FALSE /\ peer.up = FALSE /\ peer.fin = FALSE
  BY <1>1, Zenon DEF PeerInit
<1>3. ControlInv
  BY StreamControlInit, Zenon DEF Init
<1>4. /\ ISS \in Nat /\ ISS <= ISS /\ MaxWindow \in Nat /\ PeerBytes \in Nat
      /\ SatSub(MaxWindow, 0) = MaxWindow /\ 0 <= PeerBytes + 1
  BY StreamAssumption, TcbAssumption, TaskAssumption DEF SatSub, SeqNo
<1>5. LastAck = ISS /\ LastWin = MaxWindow
  BY <1>1, Zenon DEF LastAck, LastWin
<1>6. PeerOff = 0 /\ NextOff = 0
  <2>1. PeerOff = 0
    BY <1>2 DEF PeerOff
  <2> QED
    BY <1>1, <2>1, Zenon DEF NextOff
<1>7. Queued
  <2>1. PeerQueue(<<>>)
    BY DEF PeerQueue
  <2> QED
    BY <1>1, <1>4, <1>5, <2>1, Zenon DEF Queued
<1>8. \A s \in SeqNo : unordered_packets[s].len = 0
  BY <1>1 DEF NoPayload
<1>9. OneBuffered
  BY <1>8, Zenon DEF OneBuffered
<1>10. Reading
  <2>1. Off(ack) = 0
    BY <1>1, BaseType, TcbAssumption DEF Off, WrapSub, SeqNo
  <2>2. NextPayload.len = 0
    BY <1>1, <1>8, BaseType, Zenon DEF NextPayload
  <2> QED
    BY <1>6, <2>1, <2>2 DEF Reading
<1>11. PeerKnows
  <2>1. Outgoing = <<>>
    BY <1>1 DEF Outgoing
  <2>2. Chain(<<>>, ISS, ISS)
    BY DEF Chain
  <2> QED
    BY <1>2, <1>4, <1>5, <1>6, <2>1, <2>2, <1>1, Zenon DEF PeerKnows
<1> QED
  BY <1>1, <1>3, <1>7, <1>9, <1>10, <1>11, Zenon DEF PeerInv, Agreed

\* The packets that the stream and its peer exchange, for as long as the
\* stream is steady: each side's are end to end, no bare acknowledgment
\* repeats the one before, and the reader is at or behind the next of them.
THEOREM PeersAgree == Spec => []PeerInv
<1>1. TaskTypeOK /\ TaskTypeOK' /\ PeerInv /\ [Next]_allVars => PeerInv'
  BY PeerStep
<1> QED
  BY <1>1, PeerStart, TaskTypeCorrect, PTL DEF Spec

----------------------------------------------------------------------------
(* The writer that waits. *)

\* Past the handshake, no turn takes the connection back to it, or back to
\* Established.
LEMMA TurnForward ==
  ASSUME PollReadTurn,
         state \notin {"SynReceived(false)", "SynReceived(true)"}
  PROVE  /\ state' \notin {"SynReceived(false)", "SynReceived(true)"}
         /\ state' = "Established" => state = "Established"
<1>1. CASE UNCHANGED state
  BY <1>1, Zenon
<1>2. CASE state' \in Leaving
  BY <1>2, LeavingApart, Zenon
<1> QED
  BY <1>1, <1>2, TurnMoves, Zenon

\* The writer is among the calls of the writer's task.
LEMMA WriterCalls ==
  ASSUME wrapper = "held", "write" \in pending, Writer \in Woken
  PROVE  "write" \in CallsOf(Woken)
<1>1. Owner("write") = Writer
  BY DEF Owner
<1> QED
  BY <1>1, Zenon DEF CallsOf

\* A writer that waits after a turn waited before it and was not woken.
LEMMA WriterTurnWaits ==
  ASSUME WriterInv, Turn, "write" \in pending' \ due'
  PROVE  "write" \in pending \ due /\ Writer \notin Woken
<1>1. PollReadTurn
  BY DEF Turn, TurnReturns, TurnPends, TurnContinues, PollReadTurn
<1>2. pending' \subseteq pending
  BY DEF Turn, TurnReturns, TurnPends, TurnContinues, Returns
<1>3. polling # "write"
  BY <1>1, TurnState DEF Polled
<1>4. "write" \in pending /\ "write" \notin due' /\ wrapper = "held"
  BY <1>2, Zenon DEF WriterInv
<1>5. CASE TurnPends
  <2>1. "write" \notin due /\ RecvNothing
    BY <1>4, <1>5, Zenon DEF TurnPends
  <2>2. write_notify' = write_notify /\ shutdown' = shutdown
    BY <2>1, Zenon DEF RecvNothing
  <2>3. "Pending" # "Ready"
    OBVIOUS
  <2> QED
    BY <1>4, <2>1, <2>2, <2>3, Zenon DEF Woken
<1>6. CASE TurnReturns \/ TurnContinues
  <2>1. \/ due' = (due \cup CallsOf(Woken)) \ {polling}
        \/ due' = due \cup CallsOf(Woken)
    BY <1>6, Zenon DEF TurnReturns, TurnContinues, Returns
  <2>2. "write" \notin due /\ "write" \notin CallsOf(Woken)
    BY <1>3, <1>4, <2>1, Zenon
  <2> QED
    BY <1>4, <2>2, WriterCalls, Zenon
<1> QED
  BY <1>5, <1>6, Zenon DEF Turn

\* A turn.
LEMMA WriterTurn ==
  ASSUME WriterInv, Turn
  PROVE  WriterInv'
<1>1. PollReadTurn
  BY DEF Turn, TurnReturns, TurnPends, TurnContinues, PollReadTurn
<1>2. pending' \subseteq pending
  BY DEF Turn, TurnReturns, TurnPends, TurnContinues, Returns
<1>3. "write" \in pending' => wrapper' = "held"
  BY <1>1, <1>2, TurnOuter, Zenon DEF WriterInv
<1>4. ASSUME "write" \in pending' \ due'
      PROVE  /\ write_notify'
             /\ state' \notin {"SynReceived(false)", "SynReceived(true)"}
  <2>1. "write" \in pending \ due /\ Writer \notin Woken
    BY <1>4, WriterTurnWaits, Zenon
  <2>2. /\ write_notify
        /\ state \notin {"SynReceived(false)", "SynReceived(true)"}
    BY <2>1, Zenon DEF WriterInv
  <2>3. write_notify'
    BY <2>1, <2>2, Zenon DEF Woken
  <2> QED
    BY <1>1, <2>2, <2>3, TurnForward, Zenon
<1> QED
  BY <1>3, <1>4, Zenon DEF WriterInv

\* A writer starts to wait only when it is told to.
LEMMA StillWaits ==
  ASSUME [Next]_allVars, ~ Turn, "write" \in pending' \ due'
  PROVE  \/ WriteBlocks
         \/ /\ "write" \in pending \ due
            /\ UNCHANGED <<tcbVars, write_notify>>
            /\ wrapper' = wrapper
<1>1. CASE \E c \in Call : Begin(c)
  <2>1. PICK c \in Call : Begin(c)
    BY <1>1, Zenon
  <2>2. /\ pending' = pending \cup {c} /\ due' = due \cup {c} \cup CallsOf({Owner(c)})
        /\ UNCHANGED <<tcbVars, write_notify>> /\ wrapper' = wrapper
    BY <2>1, Zenon DEF Begin, StreamRests
  <2> QED
    BY <2>2, Zenon
<1>2. CASE CallRead \/ CallShutdown
  <2>1. /\ pending' = pending
        /\ due' = due \ {"read"} \/ due' = due \ {"shutdown"}
        /\ UNCHANGED <<tcbVars, write_notify>> /\ wrapper' = wrapper
    BY <1>2, Zenon
       DEF CallRead, CallShutdown, PollRead, PollShutdown, outerVars
  <2> QED
    BY <2>1
<1>3. CASE CallWrite
  <2>1. Returns("write") => "write" \notin pending'
    BY DEF Returns
  <2> QED
    BY <1>3, <2>1, Zenon DEF CallWrite
<1>4. CASE FindShutdownReady
  <2>1. /\ pending' = pending \ {"shutdown"}
        /\ due' = (due \cup CallsOf(Woken)) \ {"shutdown"}
        /\ UNCHANGED <<tcbVars, write_notify>> /\ wrapper' = wrapper
    BY <1>4, Zenon
       DEF FindShutdownReady, Returns, ShutdownReady, StreamRests, outerVars
  <2> QED
    BY <2>1
<1>5. CASE Drop \/ GiveUp
  <2>1. pending' = {"shutdown"} \/ pending' = {}
    BY <1>5, Zenon DEF Drop, GiveUp
  <2>2. "write" # "shutdown"
    OBVIOUS
  <2> QED
    BY <2>1, <2>2, Zenon
<1>6. CASE TimerElapses \/ Forget \/ Stop \/ Peer \/ UNCHANGED allVars
  <2>1. pending' = pending
    BY <1>6, Zenon
       DEF TimerElapses, Forget, Stop, Peer, PeerTakes, PeerAcks, PeerSends,
           PeerReads, PeerCloses, Arrive, taskVars, allVars
  <2>2. due' = due \/ \E T : due' = due \cup CallsOf(T)
    BY <1>6, Zenon
       DEF TimerElapses, Forget, Stop, Peer, PeerTakes, PeerAcks, PeerSends,
           PeerReads, PeerCloses, Arrive, WakeReceiver, taskVars, allVars
  <2>3. UNCHANGED <<tcbVars, write_notify>> /\ wrapper' = wrapper
    BY <1>6, Zenon
       DEF TimerElapses, Forget, Stop, Peer, PeerTakes, PeerAcks, PeerSends,
           PeerReads, PeerCloses, Arrive, StreamRests, SessionRemoved,
           StackStops, allVars, vars, streamVars
  <2> QED
    BY <2>1, <2>2, <2>3, Zenon
<1> QED
  BY <1>1, <1>2, <1>3, <1>4, <1>5, <1>6, Zenon DEF Next, Poll

\* Every step keeps the writer's waker in place.
LEMMA WriterStep ==
  ASSUME TaskTypeOK, WriterInv, [Next]_allVars
  PROVE  WriterInv'
<1>1. CASE Turn
  BY <1>1, WriterTurn, Zenon
<1>2. CASE ~ Turn
  <2>1. ASSUME "write" \in pending'
        PROVE  wrapper' = "held"
    <3>1. CASE \E c \in Call : Begin(c)
      BY <3>1, Zenon DEF Begin, StreamRests
    <3>2. CASE CallRead \/ CallWrite \/ CallShutdown
      <4>1. wrapper' = wrapper
        BY <3>2, Zenon
           DEF CallRead, CallWrite, CallShutdown, PollRead, PollShutdown,
               WriteBlocks, PollWrite, StreamRests, outerVars
      <4>2. pending' = pending \/ pending' = pending \ {"write"}
        BY <3>2, Zenon DEF CallRead, CallWrite, CallShutdown, Returns, Waits
      <4> QED
        BY <2>1, <4>1, <4>2, Zenon DEF WriterInv
    <3>3. CASE ~ (\E c \in Call : Begin(c)) /\ ~ (CallRead \/ CallWrite \/ CallShutdown)
      <4>1. /\ "write" \in pending
            /\ UNCHANGED wrapper
        <5>1. CASE FindShutdownReady
          BY <2>1, <5>1, Zenon
             DEF FindShutdownReady, Returns, ShutdownReady, StreamRests, outerVars
        <5>2. CASE Drop \/ GiveUp
          <6>1. pending' = {"shutdown"} \/ pending' = {}
            BY <5>2, Zenon DEF Drop, GiveUp
          <6>2. "write" # "shutdown"
            OBVIOUS
          <6> QED
            BY <2>1, <6>1, <6>2, Zenon
        <5>3. CASE TimerElapses \/ Forget \/ Stop \/ Peer \/ UNCHANGED allVars
          BY <2>1, <5>3, Zenon
             DEF TimerElapses, Forget, Stop, Peer, PeerTakes, PeerAcks,
                 PeerSends, PeerReads, PeerCloses, Arrive, StreamRests,
                 SessionRemoved, StackStops, taskVars, allVars, vars, streamVars
        <5> QED
          BY <1>2, <3>3, <5>1, <5>2, <5>3, Zenon DEF Next, Poll
      <4> QED
        BY <4>1, Zenon DEF WriterInv
    <3> QED
      BY <3>1, <3>2, <3>3, Zenon
  <2>2. ASSUME "write" \in pending' \ due'
        PROVE  /\ write_notify'
               /\ state' \notin {"SynReceived(false)", "SynReceived(true)"}
    <3>1. CASE WriteBlocks
      <4>1. state' = "Established" /\ write_notify' = TRUE
        BY <3>1, Zenon DEF WriteBlocks, CanWrite, tcbVars
      <4> QED
        BY <4>1
    <3>2. CASE "write" \in pending \ due /\ UNCHANGED <<tcbVars, write_notify>>
      <4>1. state' = state /\ write_notify' = write_notify
        BY <3>2, Zenon DEF tcbVars
      <4>2. /\ write_notify
            /\ state \notin {"SynReceived(false)", "SynReceived(true)"}
        BY <3>2, Zenon DEF WriterInv
      <4>3. state' \notin {"SynReceived(false)", "SynReceived(true)"}
        BY <4>1, <4>2, Zenon
      <4>4. write_notify'
        BY <4>1, <4>2, Zenon
      <4> QED
        BY <4>3, <4>4, Zenon
    <3> QED
      BY <1>2, <2>2, <3>1, <3>2, StillWaits, Zenon
  <2> QED
    BY <2>1, <2>2, Zenon DEF WriterInv
<1> QED
  BY <1>1, <1>2, Zenon

\* poll_write leaves its waker in write_notify, and whoever takes it out
\* wakes the writer: a writer that waits and is not about to be polled can be
\* woken, and only one whose wrapper is held waits.
THEOREM WriterCanBeWoken == Spec => []WriterInv
<1>1. Init => WriterInv
  BY Zenon DEF Init, WriterInv
<1>2. TaskTypeOK /\ WriterInv /\ [Next]_allVars => WriterInv'
  BY WriterStep
<1> QED
  BY <1>1, <1>2, TaskTypeCorrect, PTL DEF Spec

\* The packet that poll_read takes in an established connection, if
\* check_pkt_type lets it pass, is the next of the peer's.
LEMMA NextIsAgreed ==
  ASSUME TaskTypeOK, PeerInv, wrapper = "held", state = "Established",
         RecvContinue, CheckPktType(pkt) # "Invalid",
         shutdown = "None" \/ {"PSH", "ACK"} \notin DataFlags
  PROVE  Agreed
<1>1. last_ack <= seq
  BY ValidShows, Zenon
<1>2. state \in {"SynReceived(false)", "SynReceived(true)", "Established"}
  OBVIOUS
<1> QED
  BY <1>1, <1>2, Zenon DEF PeerInv, Steady

\* A turn that leaves a writer waiting leaves alone what it waits for, unless
\* it takes a segment with the PSH flag.
LEMMA UnwokenTurn ==
  ASSUME TaskTypeOK, PeerInv, PollReadTurn, wrapper = "held",
         state = "Established", state' = "Established",
         write_notify, write_notify',
         shutdown = "None" \/ {"PSH", "ACK"} \notin DataFlags
  PROVE  \/ UNCHANGED <<seq, last_ack, send_window, avg_send_window>>
         \/ RecvPsh /\ {"PSH", "ACK"} \in DataFlags
<1>1. /\ state' \notin Leaving
      /\ "Established" # "SynReceived(false)"
      /\ "Established" # "SynReceived(true)"
  BY DEF Leaving
<1>2. CASE SendSynAck \/ RecvHandshakeAck
  BY <1>1, <1>2, Zenon DEF SendSynAck, RecvHandshakeAck
<1>3. CASE RecvWindowUpdate \/ RecvNewPacket \/ RecvAck
  BY <1>3, Zenon DEF RecvWindowUpdate, RecvNewPacket, RecvAck, WakeWriter
<1>4. CASE RecvKeepAlive \/ RecvRetransmissionRequest
  <2>1. /\ RecvContinue /\ stream_receiver # <<>> /\ pkt.flags = {"ACK"}
        /\ \/ CheckPktType(pkt) = "KeepAlive"
           \/ CheckPktType(pkt) = "RetransmissionRequest"
    BY <1>4, Zenon
       DEF RecvKeepAlive, RecvRetransmissionRequest, RecvAckIs, RecvContinue,
           RecvPacket
  <2>2. CheckPktType(pkt) # "Invalid"
    BY <2>1
  <2> QED
    BY <2>1, <2>2, NextIsAgreed, NextPacketType, Zenon
<1>5. CASE RecvPsh
  <2>1. /\ RecvContinue /\ stream_receiver # <<>>
        /\ pkt.flags = {"PSH", "ACK"} /\ CheckPktType(pkt) = "NewPacket"
    BY <1>5, Zenon DEF RecvPsh, RecvContinue, RecvPacket
  <2>2. CheckPktType(pkt) # "Invalid"
    BY <2>1
  <2>3. Kind(pkt)
    BY <2>1, <2>2, NextIsAgreed, NextPacket, Zenon
  <2>4. {"PSH", "ACK"} # {"ACK"} /\ {"PSH", "ACK"} # {"FIN", "ACK"}
    OBVIOUS
  <2> QED
    BY <1>5, <2>1, <2>3, <2>4, Zenon DEF Kind, Bare
<1> QED
  BY <1>1, <1>2, <1>3, <1>4, <1>5, TurnStands, TurnLeaves, Zenon
     DEF PollReadTurn

\* What a writer waits for: seq, last_ack and the two windows.
LEMMA BlockedFrame ==
  ASSUME UNCHANGED <<seq, last_ack, send_window, avg_send_window>>
  PROVE  WriteBlocked' <=> WriteBlocked
<1>1. send_window' = send_window /\ avg_send_window' = avg_send_window
  OBVIOUS
<1>2. IsSendBufferFull' <=> IsSendBufferFull
  BY Zenon DEF IsSendBufferFull
<1> QED
  BY <1>1, <1>2, Zenon DEF WriteBlocked

\* How a writer that waits in an established connection came to wait there.
LEMMA WaitingStep ==
  ASSUME TaskTypeOK, WriterInv, PeerInv, [Next]_allVars,
         "write" \in pending' \ due', state' = "Established",
         shutdown = "None" \/ {"PSH", "ACK"} \notin DataFlags
  PROVE  \/ WriteBlocked'
         \/ /\ "write" \in pending \ due /\ state = "Established"
            /\ \/ WriteBlocked' <=> WriteBlocked
               \/ RecvPsh /\ {"PSH", "ACK"} \in DataFlags
<1>1. CASE Turn
  <2>1. PollReadTurn
    BY <1>1 DEF Turn, TurnReturns, TurnPends, TurnContinues, PollReadTurn
  <2>2. "write" \in pending \ due /\ Writer \notin Woken
    BY <1>1, WriterTurnWaits, Zenon
  <2>3. /\ wrapper = "held" /\ write_notify
        /\ state \notin {"SynReceived(false)", "SynReceived(true)"}
    BY <2>2, Zenon DEF WriterInv
  <2>4. state = "Established"
    BY <2>1, <2>3, TurnForward, Zenon
  <2>5. write_notify'
    BY <2>2, <2>3, Zenon DEF Woken
  <2> QED
    BY <2>1, <2>2, <2>3, <2>4, <2>5, UnwokenTurn, BlockedFrame, Zenon
<1>2. CASE ~ Turn
  <2>1. CASE WriteBlocks
    <3>1. WriteBlocked /\ UNCHANGED <<seq, last_ack, send_window, avg_send_window>>
      BY <2>1, Zenon DEF WriteBlocks, tcbVars
    <3> QED
      BY <3>1, BlockedFrame, Zenon
  <2>2. CASE "write" \in pending \ due /\ UNCHANGED <<tcbVars, write_notify>>
    <3>1. /\ state' = state
          /\ UNCHANGED <<seq, last_ack, send_window, avg_send_window>>
      BY <2>2, Zenon DEF tcbVars
    <3> QED
      BY <2>2, <3>1, BlockedFrame, Zenon
  <2> QED
    BY <1>2, <2>1, <2>2, StillWaits, Zenon
<1> QED
  BY <1>1, <1>2, Zenon

\* Whatever flags the peer's segments have: what frees a writer without
\* waking it is a segment with the PSH flag, whose branch of poll_read takes
\* the acknowledgment and the window and leaves write_notify alone.
THEOREM FreedWriterIsWoken == Spec => FreedWriterWoken
<1>1. TaskTypeOK /\ WriterInv /\ PeerInv /\ [Next]_allVars
        => [/\ "write" \in pending \ due /\ "write" \in pending' \ due'
            /\ state = "Established" /\ state' = "Established"
            /\ shutdown = "None"
            /\ WriteBlocked /\ ~ WriteBlocked'
            => stream_receiver # <<>> /\ pkt.flags = {"PSH", "ACK"}]_allVars
  <2>1. RecvPsh => stream_receiver # <<>> /\ pkt.flags = {"PSH", "ACK"}
    BY Zenon DEF RecvPsh, RecvContinue, RecvPacket
  <2> QED
    BY <2>1, WaitingStep, Zenon
<1> QED
  BY <1>1, TaskTypeCorrect, WriterCanBeWoken, PeersAgree, PTL
     DEF Spec, FreedWriterWoken

============================================================================
