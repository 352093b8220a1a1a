-------------------------- MODULE TcpNetworkProofs --------------------------
(***************************************************************************)
(* The stream against any network.  Its control flow and its types; the    *)
(* sending side: the packets in flight always cover exactly the bytes the  *)
(* peer has not acknowledged, so a retransmission always finds its packet  *)
(* and the stream does not panic; and the receiving side: the application  *)
(* reads the peer's bytes in order, and what is acknowledged is exactly    *)
(* what it has read.  Together they make the stream an implementation of   *)
(* ByteStream.                                                             *)
(***************************************************************************)
EXTENDS TcpInvariants, TcpStreamProofs, TcpRefinement

\* Every step preserves the control invariant.
LEMMA ControlStep ==
  ASSUME ControlInv, [Next]_allVars
  PROVE  ControlInv'
<1>1. CASE PollReadTurn
  BY <1>1, TurnControl, Zenon
<1>2. CASE OwnerCall \/ StackStep \/ Write
  BY <1>2, CallControl, Zenon DEF Write
<1>3. CASE ArrivePacket \/ ArriveFin
  BY <1>3, Zenon DEF ArrivePacket, ArriveFin, Arrive, tcbVars, ControlInv,
              ShutdownReadyIffClosed, NoStrandedPacket
<1>4. CASE Finished \/ UNCHANGED allVars
  BY <1>4, Zenon DEF Finished, allVars, vars, tcbVars, streamVars, ControlInv,
              ShutdownReadyIffClosed, NoStrandedPacket
<1> QED
  BY <1>1, <1>2, <1>3, <1>4, Zenon DEF Next

\* The control invariant holds of a new stream.
LEMMA ControlInit == Init => ControlInv
  BY StreamControlInit, Zenon DEF Init

\* The control invariant holds in every reachable state: shutdown is ready
\* exactly when the connection is closed, and poll_read never returns with a
\* reply left unsent.
THEOREM ControlCorrect ==
  Spec => [](ShutdownReadyIffClosed /\ NoStrandedPacket)
<1>1. ControlInv /\ [Next]_allVars => ControlInv'
  BY ControlStep, Zenon
<1>2. ControlInv => ShutdownReadyIffClosed /\ NoStrandedPacket
  BY Zenon DEF ControlInv
<1> QED
  BY <1>1, <1>2, ControlInit, PTL DEF Spec

\* poll_read leaves no reply behind when it returns, on any of its paths.
THEOREM RepliesSent == Spec => []NoStrandedPacket
  BY ControlCorrect, PTL

\* No step changes a closed connection or delivers more to its reader.
LEMMA ClosedStep ==
  ASSUME state = "Closed", [Next]_allVars
  PROVE  UNCHANGED <<tcbVars, delivered>>
<1>1. CASE PollReadTurn
  <2>1. FlushFails \/ ReadClosed
    BY <1>1, TurnState, Zenon
  <2> QED
    BY <2>1, Zenon DEF FlushFails, ReadClosed
<1>2. CASE OwnerCall
  BY <1>2, Zenon
     DEF OwnerCall, PollRead, PollShutdown, WriteBlocks, DropWrapper,
              ShutdownReady, DropInner
<1>3. CASE StackStep
  BY <1>3, Zenon DEF StackStep, SessionRemoved, StackStops
<1>4. CASE Write
  BY <1>4, Zenon DEF Write, PollWrite, CanWrite
<1>5. CASE ArrivePacket \/ ArriveFin
  BY <1>5, Zenon DEF ArrivePacket, ArriveFin, Arrive
<1>6. CASE Finished \/ UNCHANGED allVars
  BY <1>6, Zenon DEF Finished, allVars, vars, streamVars
<1> QED
  BY <1>1, <1>2, <1>3, <1>4, <1>5, <1>6, Zenon DEF Next

\* No step reopens, delivers from or writes to a closed connection.
THEOREM ClosedStaysClosed == Spec => ClosedIsFinal
<1>1. [Next]_allVars => [state = "Closed" => UNCHANGED <<tcbVars, delivered>>]_allVars
  BY ClosedStep, Zenon
<1> QED
  BY <1>1, PTL DEF Spec, ClosedIsFinal

----------------------------------------------------------------------------
(* Types. *)

\* The fields of the peer's packets that the invariants speak about.
LEMMA PacketFields ==
  /\ \A p \in DataPackets :
       /\ "FIN" \notin p.flags /\ p.ack \in AckNos
       /\ p.seq = WrapAdd(Base, p.off)
       /\ p.off \in Nat /\ p.len \in Nat /\ p.off + p.len <= peer_end
  /\ \A p \in AckPackets :
       "FIN" \notin p.flags /\ p.ack \in AckNos /\ p.off = 0 /\ p.len = 0
  /\ \A p \in StrayPackets :
       /\ p.flags # {"ACK"} /\ p.flags # {"FIN", "ACK"}
       /\ p.off = 0 /\ p.len = 0
  /\ \A end \in 0 .. PeerBytes : \A p \in FinPackets(end) :
       p.ack \in AckNos /\ p.off = 0 /\ p.len = 0
<1>1. ASSUME NEW p \in DataPackets
      PROVE  /\ "FIN" \notin p.flags /\ p.ack \in AckNos
             /\ p.seq = WrapAdd(Base, p.off)
             /\ p.off \in Nat /\ p.len \in Nat /\ p.off + p.len <= peer_end
  <2>1. PICK flags \in {{"ACK"}, {"PSH", "ACK"}}, off \in 0 .. PeerBytes,
             n \in 1 .. MaxSegment, a \in AckNos, w \in Windows :
          p = InPkt(flags, WrapAdd(Base, off), a, w, off, n)
    BY <1>1 DEF DataPackets
  <2>2. p.off + p.len <= peer_end
    BY <1>1 DEF DataPackets
  <2>3. "FIN" \notin p.flags
    BY <2>1, Zenon DEF InPkt
  <2> QED
    BY <2>1, <2>2, <2>3, TcbAssumption, NetworkAssumption, SMTT(30) DEF InPkt
<1>2. ASSUME NEW p \in AckPackets
      PROVE  /\ "FIN" \notin p.flags /\ p.ack \in AckNos
             /\ p.off = 0 /\ p.len = 0
  <2>1. PICK i \in 0 .. peer_end + 1, a \in AckNos, w \in Windows :
          p = InPkt({"ACK"}, WrapAdd(IRS, i), a, w, 0, 0)
    BY <1>2, SMTT(30) DEF AckPackets
  <2> QED
    BY <2>1, Zenon DEF InPkt
<1>3. ASSUME NEW p \in StrayPackets
      PROVE  /\ p.flags # {"ACK"} /\ p.flags # {"FIN", "ACK"}
             /\ p.off = 0 /\ p.len = 0
  <2>1. CASE \E w \in Windows : p = InPkt({"SYN"}, IRS, 0, w, 0, 0)
    BY <2>1 DEF InPkt
  <2>2. CASE \E flags \in {{"RST"}, {"PSH", "ACK"}, {"FIN", "PSH", "ACK"}},
                w \in Windows : p = InPkt(flags, IRS, seq, w, 0, 0)
    <3>1. PICK flags \in {{"RST"}, {"PSH", "ACK"}, {"FIN", "PSH", "ACK"}},
               w \in Windows : p = InPkt(flags, IRS, seq, w, 0, 0)
      BY <2>2, Zenon
    <3>2. "RST" \in p.flags \/ "PSH" \in p.flags
      BY <3>1, Zenon DEF InPkt
    <3>3. p.flags # {"ACK"} /\ p.flags # {"FIN", "ACK"}
      BY <3>2
    <3> QED
      BY <3>1, <3>3, Zenon DEF InPkt
  <2> QED
    BY <1>3, <2>1, <2>2, SMTT(30) DEF StrayPackets
<1>4. ASSUME NEW end \in 0 .. PeerBytes, NEW p \in FinPackets(end)
      PROVE  p.ack \in AckNos /\ p.off = 0 /\ p.len = 0
  <2>1. PICK a \in AckNos, w \in Windows :
          p = InPkt({"FIN", "ACK"}, WrapAdd(Base, end), a, w, 0, 0)
    BY <1>4, SMTT(30) DEF FinPackets
  <2> QED
    BY <2>1, Zenon DEF InPkt
<1> QED
  BY <1>1, <1>2, <1>3, <1>4, Zenon

\* The packets of the peer have their type, and so has the queue with one
\* more of them.
LEMMA ArrivalType ==
  ASSUME TypeOK
  PROVE  /\ DataPackets \cup AckPackets \cup StrayPackets \subseteq InPacket
         /\ Base \in SeqNo
         /\ \A end \in 0 .. PeerBytes : FinPackets(end) \subseteq InPacket
         /\ AckNos \subseteq SeqNo
<1>1. Base \in SeqNo
  BY WrapAddType, StreamAssumption, TcbAssumption DEF Base
<1>2. AckNos \subseteq SeqNo
  BY Zenon DEF AckNos
<1>3. Windows \subseteq Window /\ PeerBytes \in Nat /\ PeerBytes + 2 < M
  BY NetworkAssumption, Zenon
<1>4. ASSUME NEW flags \in SUBSET Flag, NEW s \in SeqNo, NEW a \in SeqNo,
             NEW w \in Window, NEW off \in Nat, NEW n \in 0 .. MaxSegment
      PROVE  InPkt(flags, s, a, w, off, n) \in InPacket
  BY Zenon DEF InPkt, InPacket
<1>5. DataPackets \subseteq InPacket
  <2> SUFFICES ASSUME NEW flags \in {{"ACK"}, {"PSH", "ACK"}},
                      NEW off \in 0 .. PeerBytes, NEW n \in 1 .. MaxSegment,
                      NEW a \in AckNos, NEW w \in Windows
               PROVE  InPkt(flags, WrapAdd(Base, off), a, w, off, n) \in InPacket
    BY DEF DataPackets
  <2>1. WrapAdd(Base, off) \in SeqNo
    BY <1>1, <1>3, WrapAddType, TcbAssumption
  <2>2. flags \in SUBSET Flag
    BY Zenon DEF Flag
  <2>3. off \in Nat /\ n \in 0 .. MaxSegment /\ a \in SeqNo /\ w \in Window
    BY <1>2, <1>3, TcbAssumption
  <2> QED
    BY <1>4, <2>1, <2>2, <2>3, Zenon
<1>6. AckPackets \subseteq InPacket
  <2> SUFFICES ASSUME NEW i \in 0 .. peer_end + 1,
                      NEW a \in AckNos, NEW w \in Windows
               PROVE  InPkt({"ACK"}, WrapAdd(IRS, i), a, w, 0, 0) \in InPacket
    BY DEF AckPackets
  <2>1. WrapAdd(IRS, i) \in SeqNo
    BY <1>3, WrapAddType, StreamAssumption, TcbAssumption DEF TypeOK
  <2> QED
    BY <1>2, <1>3, <1>4, <2>1, TcbAssumption, SMTT(30) DEF Flag
<1>7. StrayPackets \subseteq InPacket
  BY <1>3, <1>4, StreamAssumption, TcbAssumption, SMTT(30)
     DEF StrayPackets, Flag, SeqNo, TypeOK, TcbTypeOK
<1>8. ASSUME NEW end \in 0 .. PeerBytes
      PROVE  FinPackets(end) \subseteq InPacket
  <2> SUFFICES ASSUME NEW a \in AckNos, NEW w \in Windows
               PROVE  InPkt({"FIN", "ACK"}, WrapAdd(Base, end), a, w, 0, 0)
                        \in InPacket
    BY DEF FinPackets
  <2>1. WrapAdd(Base, end) \in SeqNo
    BY <1>1, <1>3, WrapAddType, TcbAssumption
  <2> QED
    BY <1>2, <1>3, <1>4, <2>1, TcbAssumption DEF Flag
<1> QED
  BY <1>1, <1>2, <1>5, <1>6, <1>7, <1>8, Zenon

\* Each step preserves the types.
LEMMA TypeStep ==
  ASSUME TypeOK, [Next]_allVars
  PROVE  TypeOK'
<1>1. CASE PollReadTurn /\ UNCHANGED netVars
  BY <1>1, TurnTcbType, TurnStreamType, Zenon DEF TypeOK, netVars
<1>2. CASE (OwnerCall \/ StackStep) /\ UNCHANGED netVars
  BY <1>2, CallType, Zenon DEF TypeOK, netVars
<1>3. CASE Write /\ UNCHANGED netVars
  BY <1>3, WriteType, Zenon DEF Write, TypeOK, netVars
<1>4. ASSUME NEW p \in InPacket, Arrive,
             stream_receiver' = Append(stream_receiver, p)
      PROVE  TcbTypeOK' /\ StreamTypeOK'
  <2>1. TcbTypeOK'
    BY <1>4, TcbTypeFrame, Zenon DEF Arrive, TypeOK
  <2>2. stream_receiver' \in Seq(InPacket) /\ sent' \in Seq(OutPacket)
    BY <1>4 DEF Arrive, TypeOK, StreamTypeOK
  <2>3. StreamTypeOK'
    BY <1>4, <2>2 DEF Arrive, TypeOK, StreamTypeOK
  <2> QED
    BY <2>1, <2>3, Zenon
<1>5. CASE ArrivePacket
  <2>1. PICK p \in InPacket : stream_receiver' = Append(stream_receiver, p)
    BY <1>5, ArrivalType, Zenon DEF ArrivePacket
  <2> QED
    BY <1>4, <1>5, <2>1, Zenon DEF ArrivePacket, TypeOK, netVars
<1>6. CASE ArriveFin
  <2>1. peer_fin' \in BOOLEAN
    BY <1>6, Zenon DEF ArriveFin
  <2>2. PICK end \in 0 .. PeerBytes :
          /\ peer_end' = end
          /\ \E p \in FinPackets(end) :
               stream_receiver' = Append(stream_receiver, p)
    BY <1>6, Zenon DEF ArriveFin
  <2>3. PICK p \in InPacket : stream_receiver' = Append(stream_receiver, p)
    BY <2>2, ArrivalType, Zenon
  <2>4. TcbTypeOK' /\ StreamTypeOK'
    BY <1>4, <1>6, <2>3, Zenon DEF ArriveFin
  <2> QED
    BY <2>1, <2>2, <2>4, Zenon DEF TypeOK
<1>7. CASE UNCHANGED allVars
  <2>1. UNCHANGED tcbVars /\ UNCHANGED streamVars /\ UNCHANGED netVars
    BY <1>7, Zenon DEF allVars, vars
  <2>2. TcbTypeOK'
    BY <2>1, TcbTypeFrame, Zenon DEF TypeOK
  <2>3. StreamTypeOK'
    BY <2>1 DEF streamVars, TypeOK, StreamTypeOK
  <2> QED
    BY <2>1, <2>2, <2>3, Zenon DEF netVars, TypeOK
<1> QED
  BY <1>1, <1>2, <1>3, <1>5, <1>6, <1>7, Zenon DEF Next, Finished

\* A new stream has its types.
LEMMA TypeInit == Init => TypeOK
<1> SUFFICES ASSUME Init
             PROVE  TypeOK
  BY Zenon
<1>1. TcbTypeOK /\ StreamTypeOK
  BY StreamTypeInit, Zenon DEF Init
<1>2. peer_fin \in BOOLEAN
  BY Zenon DEF Init
<1>3. peer_end \in 0 .. PeerBytes
  BY NetworkAssumption DEF Init
<1> QED
  BY <1>1, <1>2, <1>3, Zenon DEF TypeOK

\* Every variable of the stream, the application and the network keeps its
\* type, whatever the sizes of the number space, windows and segments.
THEOREM TypeCorrect == Spec => []TypeOK
<1>1. TypeOK /\ [Next]_allVars => TypeOK'
  BY TypeStep, Zenon
<1> QED
  BY <1>1, TypeInit, PTL DEF Spec

----------------------------------------------------------------------------
(* The steps. *)

\* The queue after a packet is taken or added holds no other packets.
LEMMA QueueElements ==
  ASSUME StreamTypeOK
  PROVE  /\ stream_receiver # <<>> =>
              /\ \E j \in DOMAIN stream_receiver : pkt = stream_receiver[j]
              /\ \A i \in DOMAIN Tail(stream_receiver) :
                   \E j \in DOMAIN stream_receiver :
                     Tail(stream_receiver)[i] = stream_receiver[j]
         /\ \A p \in InPacket : \A i \in DOMAIN Append(stream_receiver, p) :
              \/ Append(stream_receiver, p)[i] = p
              \/ \E j \in DOMAIN stream_receiver :
                   Append(stream_receiver, p)[i] = stream_receiver[j]
<1> USE DEF StreamTypeOK
<1>1. ASSUME stream_receiver # <<>>
      PROVE  /\ \E j \in DOMAIN stream_receiver : pkt = stream_receiver[j]
             /\ \A i \in DOMAIN Tail(stream_receiver) :
                  \E j \in DOMAIN stream_receiver :
                    Tail(stream_receiver)[i] = stream_receiver[j]
  <2>1. 1 \in DOMAIN stream_receiver /\ pkt = stream_receiver[1]
    BY <1>1 DEF pkt
  <2>2. ASSUME NEW i \in DOMAIN Tail(stream_receiver)
        PROVE  /\ i + 1 \in DOMAIN stream_receiver
               /\ Tail(stream_receiver)[i] = stream_receiver[i + 1]
    BY <1>1, <2>2
  <2> QED
    BY <2>1, <2>2, Zenon
<1>2. ASSUME NEW p \in InPacket, NEW i \in DOMAIN Append(stream_receiver, p)
      PROVE  \/ Append(stream_receiver, p)[i] = p
             \/ \E j \in DOMAIN stream_receiver :
                  Append(stream_receiver, p)[i] = stream_receiver[j]
  BY <1>2
<1> QED
  BY <1>1, <1>2, Zenon

\* The part of SendInv that does not speak of the queue.
SendCore == HandshakeInv /\ UnackedInv /\ InflightTiles /\ FinAfterData /\ NoPanic

\* Steps that leave the sending side alone.
LEMMA SendCoreFrame ==
  ASSUME SendCore,
         UNCHANGED <<state, seq, last_ack, inflight_packets, panicked>>
  PROVE  SendCore'
  BY DEF SendCore, HandshakeInv, UnackedInv, UnackedBounded, InflightTiles,
         FinAfterData, NoPanic, Ahead

\* Steps that close the connection.
LEMMA SendCoreClosed ==
  ASSUME SendCore, state' = "Closed",
         UNCHANGED <<seq, last_ack, inflight_packets, panicked>>
  PROVE  SendCore'
  BY Zenon
     DEF SendCore, HandshakeInv, UnackedInv, UnackedBounded, InflightTiles,
         FinAfterData, NoPanic, Ahead, HandshakeStates

\* An acknowledgment accepted in Established.
LEMMA SendCoreAck ==
  ASSUME TcbTypeOK, TcbTypeOK', SendCore, state = "Established",
         pkt \in InPacket, CheckPktType(pkt) # "Invalid",
         ChangeLastAck(pkt.ack), AckOverflow, state' = state, seq' = seq
  PROVE  SendCore'
<1>1. last_ack <= pkt.ack /\ pkt.ack <= seq /\ pkt.ack \in SeqNo
  BY AcceptedRange, Zenon DEF InPacket
<1>2. last_ack' = pkt.ack
  BY <1>1, LastAckType, Zenon
<1>3. InflightTiles' /\ ~ ContainsOverflows(pkt.ack)
  BY <1>1, AckTiles, Zenon DEF SendCore
<1>4. (Ahead(seq))' <= Ahead(seq) /\ (Ahead(seq))' \in Nat /\ Ahead(seq) \in Nat
  <2>1. seq \in SeqNo /\ last_ack \in SeqNo
    BY Zenon DEF TcbTypeOK
  <2>2. seq >= last_ack /\ seq >= pkt.ack
    BY <1>1, <2>1, TcbAssumption DEF SeqNo
  <2>3. Ahead(seq) = seq - last_ack /\ (Ahead(seq))' = seq - pkt.ack
    BY <1>2, <2>2, Zenon DEF Ahead, WrapSub
  <2> QED
    BY <1>1, <2>1, <2>3, TcbAssumption DEF SeqNo
<1>5. Ahead(seq) < MAX_UNACK + MSS
  BY Zenon DEF SendCore, UnackedInv
<1>6. UnackedInv'
  BY <1>4, <1>5, TcbAssumption, StreamAssumption
     DEF UnackedInv, UnackedBounded, Ahead
<1>7. NoPanic'
  BY <1>3, Zenon DEF AckOverflow, NoPanic
<1> QED
  BY <1>3, <1>6, <1>7, Zenon
     DEF SendCore, HandshakeInv, FinAfterData, HandshakeStates

\* Each turn of poll_read's loop keeps the sending side in order.
LEMMA TurnSend ==
  ASSUME TypeOK, TypeOK', ControlInv, SendInv, PollReadTurn
  PROVE  SendCore'
<1>1. TcbTypeOK /\ TcbTypeOK' /\ StreamTypeOK
  BY Zenon DEF TypeOK
<1>2. SendCore
  BY Zenon DEF SendInv, SendCore
<1>3. ASSUME RecvContinue
      PROVE  pkt \in InPacket
  BY <1>1, <1>3, ReceiverType, Zenon DEF RecvContinue, RecvPacket
<1>4. CASE FlushFails \/ ReadClosed \/ RecvNothing \/ RecvIgnored
             \/ RecvWindowUpdate
  <2>1. UNCHANGED <<state, seq, last_ack, inflight_packets, panicked>>
    BY <1>4, Zenon
       DEF FlushFails, ReadClosed, RecvNothing, RecvIgnored, RecvWindowUpdate,
           tcbVars
  <2> QED
    BY <1>2, <2>1, SendCoreFrame, Zenon
<1>5. CASE ReadAborted \/ RecvRst
  BY <1>2, <1>5, SendCoreClosed, Zenon DEF ReadAborted, RecvRst
<1>6. CASE TimeoutReached
  BY <1>2, <1>6, SendCoreClosed, SendCoreFrame, Zenon DEF TimeoutReached
<1>7. CASE SendSynAck
  <2>1. /\ seq = ISS /\ last_ack = ISS /\ inflight_packets = {}
        /\ seq' = WrapAdd(ISS, 1) /\ state' = "SynReceived(true)"
        /\ UNCHANGED <<last_ack, inflight_packets, panicked>>
    BY <1>2, <1>7, Zenon
       DEF SendSynAck, SendCore, HandshakeInv, HandshakeStates
  <2>2. (Ahead(seq))' = 1
    BY <2>1, StreamAssumption, NetworkAssumption, TcbAssumption
       DEF Ahead, WrapAdd, WrapSub, SeqNo
  <2>3. UnackedInv'
    BY <2>1, <2>2, TcbAssumption, StreamAssumption
       DEF UnackedInv, UnackedBounded, Ahead
  <2> QED
    BY <1>2, <2>1, <2>3, Zenon
       DEF SendCore, HandshakeInv, HandshakeStates, InflightTiles,
           FinAfterData, NoPanic
<1>8. CASE Deliver
  <2>1. polling = "read"
    BY <1>8 DEF Deliver, Proceed, Polled, CanDeliver, ControlInv
  <2>2. MaxSegment <= AppBuf => NextPayload.len <= Capacity
    BY <1>1, <2>1, BufferType, TcbAssumption, StreamAssumption
       DEF Capacity, Payload
  <2>3. NextPayload.len \in Nat /\ Capacity \in Nat
    BY <1>1, <2>1, BufferType, TcbAssumption, StreamAssumption
       DEF Capacity, Payload
  <2>4. panicked' = (NextPayload.len > Capacity)
    BY <1>8 DEF Deliver
  <2>5. MaxSegment <= AppBuf => (NextPayload.len > Capacity) = FALSE
    BY <2>2, <2>3
  <2>6. NoPanic'
    BY <2>4, <2>5, Zenon DEF NoPanic
  <2>7. UNCHANGED <<state, seq, last_ack, inflight_packets>>
    BY <1>8, Zenon DEF Deliver
  <2> QED
    BY <1>2, <2>6, <2>7, Zenon
       DEF SendCore, HandshakeInv, UnackedInv, UnackedBounded, InflightTiles,
           FinAfterData, Ahead
<1>9. ASSUME state \in {"Established", "FinWait1(true)", "FinWait1(false)"},
             seq' = WrapAdd(seq, 1), last_ack' = last_ack
      PROVE  (Ahead(seq))' <= Ahead(seq) + 1
  BY <1>1, <1>9, TcbAssumption DEF Ahead, WrapAdd, WrapSub, TcbTypeOK, SeqNo
<1>10. Ahead(seq) \in Nat /\ (Ahead(seq))' \in Nat
  <2>1. seq \in SeqNo /\ last_ack \in SeqNo /\ seq' \in SeqNo /\ last_ack' \in SeqNo
    BY <1>1 DEF TcbTypeOK
  <2>2. Ahead(seq) \in SeqNo /\ (Ahead(seq))' \in SeqNo
    BY <2>1, WrapSubType, Zenon DEF Ahead
  <2> QED
    BY <2>2 DEF SeqNo
<1>11. CASE SendPassiveFin
  <2>1. (Ahead(seq))' <= MAX_UNACK + MSS
    BY <1>2, <1>9, <1>10, <1>11, TcbAssumption, StreamAssumption
       DEF SendPassiveFin, SendCore, UnackedInv
  <2> QED
    BY <1>2, <1>11, <2>1
       DEF SendPassiveFin, SendCore, UnackedInv, UnackedBounded, Ahead,
           HandshakeInv, HandshakeStates, InflightTiles, FinAfterData, NoPanic
<1>12. CASE SendActiveFin
  <2>1. (Ahead(seq))' <= MAX_UNACK + MSS
    BY <1>2, <1>9, <1>10, <1>12, TcbAssumption, StreamAssumption
       DEF SendActiveFin, CanSendActiveFin, SendCore, UnackedInv
  <2>2. (seq = WrapAdd(last_ack, 1))'
    BY <1>12 DEF SendActiveFin, CanSendActiveFin
  <2> QED
    BY <1>2, <1>12, <2>1, <2>2
       DEF SendActiveFin, SendCore, UnackedInv, UnackedBounded, Ahead,
           HandshakeInv, HandshakeStates, InflightTiles, FinAfterData, NoPanic
<1>13. CASE RecvHandshakeAck
  <2>1. /\ pkt \in InPacket /\ pkt.flags = {"ACK"} /\ stream_receiver # <<>>
        /\ state = "SynReceived(true)" /\ state' = "Established"
        /\ UNCHANGED <<seq, panicked>> /\ ChangeLastAck(pkt.ack)
    BY <1>3, <1>13
       DEF RecvHandshakeAck, RecvValid, RecvContinue, RecvPacket
  <2>2. pkt.ack = WrapAdd(ISS, 1)
    BY <1>1, <2>1, QueueElements DEF SendInv, HandshakeQueueInv, AckPossible
  <2>3. seq = WrapAdd(ISS, 1) /\ inflight_packets = {}
    BY <1>2, <2>1 DEF SendCore, HandshakeInv, HandshakeStates
  <2>4. last_ack' = seq /\ seq' = seq /\ inflight_packets' = {}
    <3>1. last_ack' = pkt.ack
      BY <1>1, <2>1, LastAckType DEF InPacket
    <3>2. inflight_packets' = inflight_packets
      BY <2>1 DEF ChangeLastAck
    <3> QED
      BY <2>1, <2>2, <2>3, <3>1, <3>2
  <2>5. (Ahead(seq))' = 0
    BY <1>1, <2>4, TcbAssumption DEF Ahead, WrapSub, TcbTypeOK, SeqNo
  <2>6. UnackedInv'
    BY <2>1, <2>5, TcbAssumption, StreamAssumption
       DEF UnackedInv, UnackedBounded, Ahead
  <2>7. InflightTiles'
    BY <2>4, <2>5 DEF InflightTiles
  <2> QED
    BY <1>2, <2>1, <2>6, <2>7
       DEF SendCore, HandshakeInv, HandshakeStates, FinAfterData, NoPanic
<1>14. CASE RecvRetransmissionRequest
  <2>1. /\ pkt \in InPacket /\ state = "Established"
        /\ CheckPktType(pkt) = "RetransmissionRequest"
    BY <1>3, <1>14 DEF RecvRetransmissionRequest, RecvAckIs
  <2>2. pkt.ack = last_ack /\ seq # last_ack
    BY <2>1, Zenon DEF CheckPktType
  <2>3. last_ack <= seq
    BY <1>1, <2>1, <2>2, AcceptedRange
  <2>4. InflightAt(pkt.ack) # {}
    BY <1>1, <1>2, <2>1, <2>2, <2>3, RetransmitFound DEF SendCore
  <2> QED
    BY <1>2, <1>14, <2>4, SendCoreFrame DEF RecvRetransmissionRequest
<1>15. CASE RecvKeepAlive \/ RecvNewPacket \/ RecvAck
  <2>1. RecvContinue /\ CheckPktType(pkt) # "Invalid" /\ state = "Established"
    BY <1>15, Zenon DEF RecvKeepAlive, RecvNewPacket, RecvAck, RecvAckIs
  <2>2. CASE RecvKeepAlive
    BY <1>1, <1>2, <1>3, <2>1, <2>2, SendCoreAck DEF RecvKeepAlive
  <2>3. CASE RecvNewPacket
    BY <1>1, <1>2, <1>3, <2>1, <2>3, SendCoreAck DEF RecvNewPacket
  <2>4. CASE RecvAck
    BY <1>1, <1>2, <1>3, <2>1, <2>4, SendCoreAck DEF RecvAck
  <2> QED
    BY <1>15, <2>2, <2>3, <2>4, Zenon
<1>16. CASE RecvPsh
  BY <1>1, <1>2, <1>3, <1>16, SendCoreAck DEF RecvPsh
<1>17. CASE RecvFin
  BY <1>2, <1>17, TcbAssumption, StreamAssumption, Zenon
     DEF RecvFin, SendCore, UnackedInv, UnackedBounded, Ahead,
         HandshakeInv, HandshakeStates, InflightTiles, FinAfterData, NoPanic
<1>18. CASE FinWait1Ack
  <2>1. /\ pkt \in InPacket /\ CheckPktType(pkt) # "Invalid"
        /\ ChangeLastAck(pkt.ack) /\ seq' = seq
        /\ state' = "FinWait2(true)" /\ panicked' = panicked
    BY <1>3, <1>18, Zenon DEF FinWait1Ack, RecvValid
  <2>2. last_ack <= pkt.ack /\ pkt.ack <= seq /\ last_ack' = pkt.ack
    BY <1>1, <2>1, AcceptedRange, LastAckType DEF InPacket
  <2>3. (Ahead(seq))' <= Ahead(seq)
    BY <1>1, <2>1, <2>2, TcbAssumption, SMTT(30)
       DEF Ahead, WrapSub, TcbTypeOK, SeqNo
  <2>4. UnackedInv'
    BY <1>2, <1>10, <2>1, <2>3, TcbAssumption, StreamAssumption, SMTT(30)
       DEF SendCore, UnackedInv, UnackedBounded, Ahead
  <2> QED
    BY <1>2, <2>1, <2>4
       DEF SendCore, HandshakeInv, HandshakeStates, InflightTiles,
           FinAfterData, NoPanic
<1>19. CASE FinWait1Fin \/ FinWait2Packet
  <2>1. /\ UNCHANGED <<seq, last_ack, inflight_packets, panicked>>
        /\ state' \in {"FinWait2(true)", "FinWait2(false)"}
    BY <1>19, Zenon DEF FinWait1Fin, FinWait2Packet
  <2>2. (Ahead(seq))' = Ahead(seq)
    BY <2>1, Zenon DEF Ahead
  <2>3. UnackedInv'
    BY <1>2, <2>1, <2>2, Zenon DEF SendCore, UnackedInv, UnackedBounded, Ahead
  <2>4. HandshakeInv' /\ InflightTiles' /\ FinAfterData'
    BY <2>1, Zenon
       DEF HandshakeInv, HandshakeStates, InflightTiles, FinAfterData
  <2> QED
    BY <1>2, <2>1, <2>3, <2>4, Zenon DEF SendCore, NoPanic
<1> QED
  BY <1>4, <1>5, <1>6, <1>7, <1>8, <1>11, <1>12, <1>13, <1>14, <1>15, <1>16,
     <1>17, <1>18, <1>19, Zenon
     DEF PollReadTurn

\* The queue: a state before the handshake is never re-entered, and the peer
\* acknowledges only what has been sent.
LEMMA QueueStep ==
  ASSUME TypeOK, SendInv, [Next]_allVars
  PROVE  HandshakeQueueInv'
<1>1. StreamTypeOK /\ TcbTypeOK
  BY Zenon DEF TypeOK
<1>2. ASSUME \/ state' = state
             \/ state' \notin HandshakeStates
             \/ state = "SynReceived(false)" /\ state' = "SynReceived(true)",
             NEW p, AckPossible(p)
      PROVE  AckPossible(p)'
  BY <1>2, Zenon DEF AckPossible, HandshakeStates
<1>3. \A j \in DOMAIN stream_receiver : AckPossible(stream_receiver[j])
  BY Zenon DEF SendInv, HandshakeQueueInv
<1>4. CASE PollReadTurn
  <2>1. \/ state' = state
        \/ state' \notin HandshakeStates
        \/ state = "SynReceived(false)" /\ state' = "SynReceived(true)"
    BY <1>4, Zenon
       DEF PollReadTurn, FlushFails, ReadClosed, ReadAborted, TimeoutReached,
           SendSynAck, Deliver, SendPassiveFin, SendActiveFin, RecvNothing,
           RecvRst, RecvIgnored, RecvHandshakeAck, RecvWindowUpdate,
           RecvKeepAlive, RecvRetransmissionRequest, RecvNewPacket, RecvAck,
           RecvPsh, RecvFin, FinWait1Ack, FinWait1Fin, FinWait2Packet,
           tcbVars, HandshakeStates
  <2>2. \/ stream_receiver' = stream_receiver
        \/ stream_receiver # <<>> /\ stream_receiver' = Tail(stream_receiver)
    BY <1>4, Zenon
       DEF PollReadTurn, FlushFails, ReadClosed, ReadAborted, TimeoutReached,
           SendSynAck, Deliver, SendPassiveFin, SendActiveFin, RecvNothing,
           RecvRst, RecvIgnored, RecvHandshakeAck, RecvWindowUpdate,
           RecvKeepAlive, RecvRetransmissionRequest, RecvNewPacket, RecvAck,
           RecvPsh, RecvFin, FinWait1Ack, FinWait1Fin, FinWait2Packet,
           RecvAckIs, RecvValid, RecvContinue, RecvPacket
  <2>3. \A i \in DOMAIN stream_receiver' : \E j \in DOMAIN stream_receiver :
          stream_receiver'[i] = stream_receiver[j]
    BY <1>1, <2>2, QueueElements
  <2> QED
    BY <1>2, <1>3, <2>1, <2>3 DEF HandshakeQueueInv
<1>5. ASSUME UNCHANGED <<state, stream_receiver>>
      PROVE  HandshakeQueueInv'
  BY <1>3, <1>5, Zenon DEF HandshakeQueueInv, AckPossible
<1>6. CASE OwnerCall \/ StackStep \/ Write \/ Finished \/ UNCHANGED allVars
  BY <1>5, <1>6, Zenon
     DEF OwnerCall, PollRead, PollShutdown, WriteBlocks, DropWrapper,
         ShutdownReady, DropInner, StackStep, SessionRemoved, StackStops,
         Write, PollWrite, Finished, allVars, vars, tcbVars, streamVars
<1>7. ASSUME NEW p \in InPacket, Arrive, p.flags = {"ACK"} => p.ack \in AckNos,
             stream_receiver' = Append(stream_receiver, p)
      PROVE  HandshakeQueueInv'
  <2>1. AckPossible(p)
    <3>1. CASE state = "SynReceived(false)"
      <4>1. AckNos = {}
        BY <1>1, <3>1, StreamAssumption, TcbAssumption
           DEF SendInv, HandshakeInv, AckNos, WrapSub, SeqNo
      <4> QED
        BY <1>7, <4>1 DEF AckPossible
    <3>2. CASE state = "SynReceived(true)"
      <4>1. \A a \in AckNos : a = WrapAdd(ISS, 1)
        BY <1>1, <3>2, StreamAssumption, TcbAssumption, NetworkAssumption
           DEF SendInv, HandshakeInv, AckNos, WrapAdd, WrapSub, SeqNo
      <4> QED
        BY <1>7, <3>2, <4>1 DEF AckPossible
    <3> QED
      BY <3>1, <3>2 DEF AckPossible
  <2>2. state' = state
    BY <1>7, Zenon DEF Arrive, tcbVars
  <2>3. \A i \in DOMAIN stream_receiver' :
          \/ stream_receiver'[i] = p
          \/ \E j \in DOMAIN stream_receiver :
               stream_receiver'[i] = stream_receiver[j]
    BY <1>1, <1>7, QueueElements
  <2> QED
    BY <1>2, <1>3, <2>1, <2>2, <2>3, Zenon DEF HandshakeQueueInv
<1>8. CASE ArrivePacket
  <2>1. PICK p \in DataPackets \cup AckPackets \cup StrayPackets :
          Arrive /\ stream_receiver' = Append(stream_receiver, p)
    BY <1>8, Zenon DEF ArrivePacket
  <2>2. p \in InPacket
    BY <2>1, ArrivalType
  <2>3. p.flags = {"ACK"} => p.ack \in AckNos
    BY <2>1, PacketFields
  <2> QED
    BY <1>7, <2>1, <2>2, <2>3, Zenon
<1>9. CASE ArriveFin
  <2>1. PICK end \in 0 .. PeerBytes : \E p \in FinPackets(end) :
          Arrive /\ stream_receiver' = Append(stream_receiver, p)
    BY <1>9, Zenon DEF ArriveFin
  <2>2. PICK p \in FinPackets(end) :
          Arrive /\ stream_receiver' = Append(stream_receiver, p)
    BY <2>1, Zenon
  <2>3. p \in InPacket
    BY <2>2, ArrivalType
  <2>4. p.ack \in AckNos
    BY <2>2, PacketFields, Zenon
  <2> QED
    BY <1>7, <2>2, <2>3, <2>4
<1> QED
  BY <1>4, <1>6, <1>8, <1>9 DEF Next

\* Every step preserves the sending side's invariant.
LEMMA SendStep ==
  ASSUME TypeOK, TypeOK', ControlInv, SendInv, [Next]_allVars
  PROVE  SendInv'
<1>1. HandshakeQueueInv'
  BY QueueStep
<1> SUFFICES SendCore'
  BY <1>1, Zenon DEF SendInv, SendCore
<1>2. SendCore
  BY Zenon DEF SendInv, SendCore
<1>3. CASE PollReadTurn
  BY <1>3, TurnSend
<1>4. CASE OwnerCall \/ StackStep \/ Finished \/ UNCHANGED allVars
             \/ ArrivePacket \/ ArriveFin
  BY <1>2, <1>4, SendCoreFrame, Zenon
     DEF OwnerCall, PollRead, PollShutdown, WriteBlocks, DropWrapper,
         ShutdownReady, DropInner, StackStep, SessionRemoved, StackStops,
         ArrivePacket, ArriveFin, Arrive, Finished, allVars, vars, tcbVars,
         streamVars
<1>5. CASE Write
  <2>1. PICK n \in WriteLens : PollWrite(n)
    BY <1>5, Zenon DEF Write
  <2> DEFINE k == PayloadLen(n, send_window)
  <2>2. k \in 0 .. MSS
    BY <2>1, WriteType DEF TypeOK
  <2>3. /\ state = "Established" /\ ~ IsSendBufferFull
        /\ AddInflightPacket(seq, k)
        /\ UNCHANGED <<state, last_ack, panicked>>
    BY <2>1 DEF PollWrite, CanWrite, WriteBlocked
  <2>4. Ahead(seq) \in SeqNo
    BY WrapSubType, Zenon DEF Ahead, TypeOK, TcbTypeOK
  <2>5. Ahead(seq) \in Nat /\ Ahead(seq) < MAX_UNACK
    BY <2>3, <2>4, TcbAssumption DEF IsSendBufferFull, Ahead, SeqNo
  <2> HIDE DEF k
  <2>6. InflightTiles' /\ (Ahead(seq))' = Ahead(seq) + k
    BY <1>2, <2>2, <2>3, <2>5, WriteTiles DEF SendCore, TypeOK
  <2>7. (Ahead(seq))' < MAX_UNACK + MSS
    BY <2>2, <2>5, <2>6, TcbAssumption, StreamAssumption
  <2>8. (Ahead(seq))' \in Nat
    BY <2>2, <2>5, <2>6, StreamAssumption
  <2>9. UnackedInv'
    BY <2>3, <2>7, <2>8, TcbAssumption, StreamAssumption
       DEF UnackedInv, UnackedBounded, Ahead
  <2> QED
    BY <1>2, <2>3, <2>6, <2>9
       DEF SendCore, HandshakeInv, HandshakeStates, FinAfterData, NoPanic
<1> QED
  BY <1>3, <1>4, <1>5 DEF Next

\* A new stream has nothing in flight.
LEMMA SendInit == Init => SendInv
<1> SUFFICES ASSUME Init
             PROVE  SendInv
  OBVIOUS
<1>1. Ahead(seq) = 0
  BY StreamAssumption, TcbAssumption, SMTT(30)
     DEF Init, StreamInit, TcbInit, Ahead, WrapSub, SeqNo
<1>2. UnackedInv
  BY <1>1, StreamAssumption, TcbAssumption, SMTT(30)
     DEF Init, StreamInit, TcbInit, UnackedInv, UnackedBounded, Ahead
<1> QED
  BY <1>2, SMTT(30)
     DEF Init, StreamInit, TcbInit, SendInv, HandshakeInv, HandshakeStates,
         HandshakeQueueInv, InflightTiles, FinAfterData, NoPanic

\* The invariants of types, control and the sending side always hold.
LEMMA SendAlways == Spec => [](TypeOK /\ ControlInv /\ SendInv)
<1>1. TypeOK /\ ControlInv /\ SendInv /\ [Next]_allVars
        => (TypeOK /\ ControlInv /\ SendInv)'
  BY TypeStep, ControlStep, SendStep, Zenon
<1> QED
  BY <1>1, TypeInit, ControlInit, SendInit, PTL DEF Spec

\* While the connection is established the packets in flight are exactly the
\* unacknowledged bytes, each once, for every number space, window, segment
\* size and network behaviour.
THEOREM InflightExact == Spec => []InflightTiles
<1>1. SendInv => InflightTiles
  BY Zenon DEF SendInv
<1> QED
  BY <1>1, SendAlways, PTL

\* The stream never panics, given a reader's buffer of at least one segment.
THEOREM NeverPanics == Spec => []NoPanic
<1>1. SendInv => NoPanic
  BY Zenon DEF SendInv
<1> QED
  BY <1>1, SendAlways, PTL

\* At most MAX_UNACK plus one packet is unacknowledged, and the FIN of an
\* active close is the only thing out.
THEOREM SendBounded == Spec => [](UnackedBounded /\ FinAfterData)
<1>1. SendInv => UnackedBounded /\ FinAfterData
  BY Zenon DEF SendInv, UnackedInv
<1> QED
  BY <1>1, SendAlways, PTL

\* The FIN of an active close leaves when nothing else is unacknowledged.
THEOREM FinWaitsForData == Spec => []FinAfterData
  BY SendBounded, PTL

----------------------------------------------------------------------------
(* The acknowledged mark. *)

\* The turns that act on a packet other than a reset have found its
\* acknowledgment valid.
AcceptingTurn ==
  \/ RecvHandshakeAck \/ RecvWindowUpdate \/ RecvKeepAlive
  \/ RecvRetransmissionRequest \/ RecvNewPacket \/ RecvAck \/ RecvPsh
  \/ RecvFin \/ FinWait1Ack \/ FinWait1Fin \/ FinWait2Packet

\* A packet that a branch of poll_read accepts acknowledges something
\* between last_ack and seq.
LEMMA AcceptingInRange ==
  ASSUME TypeOK, AcceptingTurn
  PROVE  /\ last_ack <= pkt.ack /\ pkt.ack <= seq /\ pkt.ack \in SeqNo
         /\ last_ack' = last_ack \/ last_ack' = pkt.ack
<1>1. RecvContinue /\ CheckPktType(pkt) # "Invalid"
  BY Zenon
     DEF AcceptingTurn, RecvHandshakeAck, RecvWindowUpdate, RecvKeepAlive,
         RecvRetransmissionRequest, RecvNewPacket, RecvAck, RecvPsh, RecvFin,
         FinWait1Ack, FinWait1Fin, FinWait2Packet, RecvAckIs, RecvValid
<1>2. pkt \in InPacket
  BY <1>1, ReceiverType DEF TypeOK, RecvContinue, RecvPacket
<1>3. last_ack <= pkt.ack /\ pkt.ack <= seq /\ pkt.ack \in SeqNo
  BY <1>1, <1>2, AcceptedRange DEF TypeOK, InPacket
<1>4. last_ack' = last_ack \/ ChangeLastAck(pkt.ack)
  BY Zenon
     DEF AcceptingTurn, RecvHandshakeAck, RecvWindowUpdate, RecvKeepAlive,
         RecvRetransmissionRequest, RecvNewPacket, RecvAck, RecvPsh, RecvFin,
         FinWait1Ack, FinWait1Fin, FinWait2Packet
<1> QED
  BY <1>3, <1>4, LastAckType DEF TypeOK

\* Every other step leaves last_ack and the packets in flight alone, or adds
\* to them.
LEMMA OtherSteps ==
  ASSUME [Next]_allVars, ~ AcceptingTurn
  PROVE  /\ last_ack' = last_ack
         /\ inflight_packets \subseteq inflight_packets'
         /\ \/ state' = state
            \/ state' = "Closed"
            \/ SendSynAck \/ SendPassiveFin \/ SendActiveFin
<1>1. CASE PollReadTurn
  BY <1>1, Zenon
     DEF PollReadTurn, AcceptingTurn, FlushFails, ReadClosed, ReadAborted,
         TimeoutReached, SendSynAck, Deliver, SendPassiveFin, SendActiveFin,
         RecvNothing, RecvRst, RecvIgnored, tcbVars
<1>2. CASE OwnerCall \/ StackStep \/ Finished \/ UNCHANGED allVars
             \/ ArrivePacket \/ ArriveFin
  BY <1>2, Zenon
     DEF OwnerCall, PollRead, PollShutdown, WriteBlocks, DropWrapper,
         ShutdownReady, DropInner, StackStep, SessionRemoved, StackStops,
         ArrivePacket, ArriveFin, Arrive, Finished, allVars, vars, tcbVars
<1>3. CASE Write
  BY <1>3, Zenon DEF Write, PollWrite, AddInflightPacket
<1> QED
  BY <1>1, <1>2, <1>3 DEF Next

\* The acknowledged mark only moves forward and never passes seq, for every
\* order in which acknowledgments arrive.
THEOREM LastAckForward == Spec => LastAckMonotone
<1>1. ASSUME TypeOK, [Next]_allVars, last_ack' # last_ack
      PROVE  last_ack < last_ack' /\ last_ack' <= seq
  <2>1. AcceptingTurn
    BY <1>1, OtherSteps, Zenon
  <2> QED
    BY <1>1, <2>1, AcceptingInRange, SMTT(30) DEF TypeOK, TcbTypeOK, SeqNo
<1>2. TypeOK /\ [Next]_allVars =>
        [last_ack' # last_ack => last_ack < last_ack' /\ last_ack' <= seq]_allVars
  BY <1>1, Zenon
<1> QED
  BY <1>2, TypeCorrect, PTL DEF Spec, LastAckMonotone

\* After a wrap of seq no packet of the peer is accepted any more: nothing is
\* acknowledged, and the connection can only be given up.
THEOREM WrapIsFatal == Spec => WrapStalls
<1> DEFINE Stalled == /\ last_ack' = last_ack
                      /\ inflight_packets \subseteq inflight_packets'
                      /\ state' # state =>
                           \/ state' = "Closed"
                           \/ state = "FinWait1(true)" /\ state' = "FinWait2(true)"
<1>1. ASSUME TypeOK, SendInv, [Next]_allVars, seq < last_ack
      PROVE  Stalled
  <2>1. seq \in Nat /\ last_ack \in Nat
    BY <1>1, TcbAssumption DEF TypeOK, TcbTypeOK, SeqNo
  <2>2. ~ AcceptingTurn
    <3>1. ASSUME AcceptingTurn
          PROVE  FALSE
      <4>1. last_ack <= pkt.ack /\ pkt.ack <= seq /\ pkt.ack \in SeqNo
        BY <1>1, <3>1, AcceptingInRange
      <4> QED
        BY <1>1, <2>1, <4>1, TcbAssumption DEF SeqNo
    <3> QED
      BY <3>1, Zenon
  <2>3. ~ SendSynAck
    BY <1>1, <2>1 DEF SendSynAck, SendInv, HandshakeInv
  <2>4. ~ SendActiveFin
    BY <1>1, <2>1 DEF SendActiveFin, CanSendActiveFin
  <2>5. SendPassiveFin => state = "FinWait1(true)" /\ state' = "FinWait2(true)"
    BY Zenon DEF SendPassiveFin
  <2> QED
    BY <1>1, <2>2, <2>3, <2>4, <2>5, OtherSteps
<1>2. TypeOK /\ SendInv /\ [Next]_allVars => [seq < last_ack => Stalled]_allVars
  BY <1>1, Zenon
<1> QED
  BY <1>2, SendAlways, PTL DEF Spec, WrapStalls

----------------------------------------------------------------------------
(* The receiving side. *)

\* The elements of a concatenation.
LEMMA ConcatElements ==
  ASSUME NEW s \in Seq(Nat), NEW t \in Seq(Nat)
  PROVE  /\ Len(s \o t) = Len(s) + Len(t)
         /\ \A i \in 1 .. Len(s) + Len(t) :
              (s \o t)[i] = IF i <= Len(s) THEN s[i] ELSE t[i - Len(s)]
  OBVIOUS

\* The entry that a turn adds to the buffer is the payload of the packet it
\* took from the queue.
FromPacket(s) ==
  /\ stream_receiver # <<>>
  /\ state = "Established" /\ state' = "Established"
  /\ s = pkt.seq
  /\ unordered_packets'[s] = [off |-> pkt.off, len |-> pkt.len]

\* A buffer entry after a turn is the one before it, nothing, or new.
BufferEffect ==
  \A s \in SeqNo : \/ unordered_packets'[s] = unordered_packets[s]
                   \/ unordered_packets'[s] = NoPayload
                   \/ FromPacket(s)

\* Taking the payload at ack out of the buffer only empties one entry.
LEMMA RemovalEffect ==
  ASSUME TcbTypeOK, unordered_packets' = WithoutNextPayload
  PROVE  BufferEffect
  BY Zenon DEF TcbTypeOK, WithoutNextPayload, BufferEffect

\* Storing the packet's payload sets the entry of its sequence number.
LEMMA AdditionEffect ==
  ASSUME TcbTypeOK, stream_receiver # <<>>, pkt \in InPacket,
         state = "Established", state' = "Established",
         unordered_packets' =
           AddUnorderedPacket(WithoutNextPayload, pkt.seq,
                              [off |-> pkt.off, len |-> pkt.len])
  PROVE  BufferEffect
  BY DEF TcbTypeOK, WithoutNextPayload, AddUnorderedPacket, BufferEffect,
         FromPacket, InPacket

\* What a turn can do to the buffer and the queue.
LEMMA TurnEffects ==
  ASSUME TypeOK, PollReadTurn
  PROVE  /\ BufferEffect
         /\ \/ stream_receiver' = stream_receiver
            \/ stream_receiver # <<>> /\ stream_receiver' = Tail(stream_receiver)
         /\ shutdown' = "None" => shutdown = "None"
         /\ upstream_open' = upstream_open
         /\ state' \in HandshakeStates => state \in HandshakeStates
         /\ delivered' = delivered \/ Deliver
<1>1. TcbTypeOK /\ StreamTypeOK
  BY Zenon DEF TypeOK
<1>2. BufferEffect
  <2>1. CASE FlushFails \/ ReadClosed \/ ReadAborted \/ TimeoutReached
               \/ SendSynAck
    <3>1. unordered_packets' = unordered_packets
      BY <2>1, Zenon
         DEF FlushFails, ReadClosed, ReadAborted, TimeoutReached, SendSynAck,
             tcbVars
    <3> QED
      BY <3>1, Zenon DEF BufferEffect
  <2>2. CASE Deliver \/ SendPassiveFin \/ SendActiveFin \/ RecvNothing
               \/ RecvRst \/ RecvIgnored \/ RecvHandshakeAck
    <3>1. unordered_packets' = WithoutNextPayload
      BY <2>2, Zenon
         DEF Deliver, SendPassiveFin, SendActiveFin, RecvNothing, RecvRst,
             RecvIgnored, RecvHandshakeAck
    <3> QED
      BY <1>1, <3>1, RemovalEffect, Zenon
  <2>3. CASE RecvWindowUpdate \/ RecvKeepAlive \/ RecvRetransmissionRequest
               \/ RecvAck \/ RecvFin \/ FinWait1Ack \/ FinWait1Fin
               \/ FinWait2Packet
    <3>1. unordered_packets' = WithoutNextPayload
      BY <2>3, Zenon
         DEF RecvWindowUpdate, RecvKeepAlive, RecvRetransmissionRequest,
             RecvAck, RecvFin, FinWait1Ack, FinWait1Fin, FinWait2Packet
    <3> QED
      BY <1>1, <3>1, RemovalEffect, Zenon
  <2>4. CASE RecvNewPacket
    BY <1>1, <2>4, AdditionEffect, ReceiverType, Zenon
       DEF RecvNewPacket, RecvAckIs, RecvContinue, RecvPacket
  <2>5. CASE RecvPsh
    BY <1>1, <2>5, AdditionEffect, RemovalEffect, ReceiverType, Zenon
       DEF RecvPsh, RecvContinue, RecvPacket
  <2> QED
    BY <2>1, <2>2, <2>3, <2>4, <2>5, Zenon DEF PollReadTurn
<1>3. /\ \/ stream_receiver' = stream_receiver
         \/ stream_receiver # <<>> /\ stream_receiver' = Tail(stream_receiver)
      /\ shutdown' = "None" => shutdown = "None"
      /\ upstream_open' = upstream_open
      /\ delivered' = delivered \/ Deliver
  BY Zenon
     DEF PollReadTurn, FlushFails, ReadClosed, ReadAborted, TimeoutReached,
         SendSynAck, Deliver, SendPassiveFin, SendActiveFin, RecvNothing,
         RecvRst, RecvIgnored, RecvHandshakeAck, RecvWindowUpdate,
         RecvKeepAlive, RecvRetransmissionRequest, RecvNewPacket, RecvAck,
         RecvPsh, RecvFin, FinWait1Ack, FinWait1Fin, FinWait2Packet,
         RecvAckIs, RecvValid, RecvContinue, RecvPacket, outerVars
<1>4. state' \in HandshakeStates => state \in HandshakeStates
  BY Zenon
     DEF PollReadTurn, FlushFails, ReadClosed, ReadAborted, TimeoutReached,
         SendSynAck, Deliver, SendPassiveFin, SendActiveFin, RecvNothing,
         RecvRst, RecvIgnored, RecvHandshakeAck, RecvWindowUpdate,
         RecvKeepAlive, RecvRetransmissionRequest, RecvNewPacket, RecvAck,
         RecvPsh, RecvFin, FinWait1Ack, FinWait1Fin, FinWait2Packet,
         tcbVars, HandshakeStates
<1> QED
  BY <1>2, <1>3, <1>4, Zenon

\* The payload that Deliver hands out is the next one of the peer's stream:
\* it can only happen in Established, and starts where the reader stopped.
LEMMA DeliverNext ==
  ASSUME TypeOK, ControlInv, ReceiveInv, Deliver, upstream_open
  PROVE  /\ state = "Established"
         /\ NextPayload.off = Len(delivered)
         /\ NextPayload.off + NextPayload.len <= PeerBytes
         /\ NextPayload.off \in Nat /\ NextPayload.len \in Nat
         /\ WrapSub(ack, Base) = Len(delivered)
<1>1. /\ shutdown = "None" /\ NextPayload.len > 0
      /\ state \in TcpState \ {"Closed", "FinWait2(false)", "SynReceived(false)"}
  BY DEF Deliver, CanDeliver, Proceed, TypeOK, TcbTypeOK
<1>2. NextPayload \in Payload /\ ack \in SeqNo /\ Len(delivered) \in Nat
  BY BufferType DEF TypeOK, TcbTypeOK, StreamTypeOK
<1>3. /\ NextPayload.off \in Nat /\ NextPayload.len \in Nat
      /\ ack = WrapAdd(Base, NextPayload.off)
      /\ NextPayload.off + NextPayload.len <= PeerBytes
  BY <1>1, <1>2, TcbAssumption DEF ReceiveInv, PieceAt, NextPayload, Payload
<1>4. NextPayload.off \in 0 .. M - 1
  BY <1>3, NetworkAssumption, TcbAssumption
<1>5. WrapSub(ack, Base) = NextPayload.off
  BY <1>3, <1>4, BaseType, OffsetOfSeq, Zenon
<1>6. NextPayload.off - Len(delivered) \in CloseOffsets(state)
  BY <1>5, Zenon DEF ReceiveInv, AckExact, Deliver, Proceed, Polled
<1>7. state # "SynReceived(true)"
  BY <1>1, <1>2 DEF ReceiveInv, HandshakeStates, NextPayload
<1>8. state # "FinWait1(false)"
  BY <1>1, Zenon DEF ControlInv
<1>9. state \notin {"FinWait1(true)", "FinWait2(true)"}
  <2>1. ASSUME state \in {"FinWait1(true)", "FinWait2(true)"}
        PROVE  FALSE
    <3>1. peer_fin
      BY <1>1, <2>1, Zenon DEF ReceiveInv, FinInv
    <3>2. NextPayload.off + NextPayload.len <= Len(delivered)
      BY <1>1, <1>2, <3>1, Zenon
         DEF ReceiveInv, FinInv, FinInOrder, Passed, NextPayload
    <3>3. NextPayload.off - Len(delivered) \in {1, 2}
      BY <1>6, <2>1, Zenon DEF CloseOffsets
    <3> QED
      BY <1>1, <1>2, <1>3, <3>2, <3>3
  <2> QED
    BY <2>1, Zenon
<1>10. state = "Established"
  BY <1>1, <1>7, <1>8, <1>9, Zenon DEF TcpState
<1>11. NextPayload.off - Len(delivered) = 0
  BY <1>6, <1>10, Zenon DEF CloseOffsets
<1> QED
  BY <1>2, <1>3, <1>5, <1>10, <1>11

\* Delivering appends the bytes of the next payload, which keeps the order.
LEMMA DeliverOrder ==
  ASSUME TypeOK, ControlInv, ReceiveInv, Deliver
  PROVE  /\ Len(delivered) <= Len(delivered') /\ Len(delivered') \in Nat
         /\ Len(delivered') <= PeerBytes
         /\ InOrder'
         /\ AckExact'
<1>1. /\ NextPayload \in Payload /\ ack \in SeqNo /\ Len(delivered) \in Nat
      /\ delivered \in Seq(Nat) /\ Base \in SeqNo
  BY BufferType, BaseType DEF TypeOK, TcbTypeOK, StreamTypeOK
<1>2. CASE delivered' = delivered /\ (panicked' \/ ~ upstream_open)
  <2>1. ~ upstream_open => ~ upstream_open'
    BY Zenon DEF Deliver, outerVars
  <2>2. CASE ~ upstream_open
    BY <1>1, <1>2, <2>1, <2>2 DEF ReceiveInv, InOrder, AckExact
  <2>3. CASE panicked'
    BY <1>1, <1>2, <2>3 DEF ReceiveInv, InOrder, AckExact
  <2> QED
    BY <1>2, <2>2, <2>3, Zenon
<1>3. CASE upstream_open /\ delivered' = delivered \o Bytes(NextPayload)
  <2>1. /\ state = "Established"
        /\ NextPayload.off = Len(delivered)
        /\ NextPayload.off + NextPayload.len <= PeerBytes
        /\ NextPayload.off \in Nat /\ NextPayload.len \in Nat
        /\ WrapSub(ack, Base) = Len(delivered)
    BY <1>3, DeliverNext, Zenon
  <2>2. /\ Bytes(NextPayload) \in Seq(Nat)
        /\ Len(Bytes(NextPayload)) = NextPayload.len
        /\ \A i \in 1 .. NextPayload.len :
             Bytes(NextPayload)[i] = Len(delivered) + i - 1
    BY <2>1 DEF Bytes
  <2>3. /\ Len(delivered') = Len(delivered) + NextPayload.len
        /\ \A i \in 1 .. Len(delivered') :
             delivered'[i] = IF i <= Len(delivered) THEN delivered[i]
                             ELSE Bytes(NextPayload)[i - Len(delivered)]
    <3>1. /\ Len(delivered \o Bytes(NextPayload)) =
               Len(delivered) + Len(Bytes(NextPayload))
          /\ \A i \in 1 .. Len(delivered) + Len(Bytes(NextPayload)) :
               (delivered \o Bytes(NextPayload))[i] =
                 IF i <= Len(delivered) THEN delivered[i]
                 ELSE Bytes(NextPayload)[i - Len(delivered)]
      BY <1>1, <2>2, ConcatElements, Zenon
    <3> QED
      BY <1>3, <2>2, <3>1, Zenon
  <2>4. delivered' \in Seq(Nat)
    BY <1>1, <1>3, <2>2
  <2>5. InOrder'
    <3>1. \A i \in 1 .. Len(delivered) : delivered[i] = i - 1
      BY <1>1 DEF ReceiveInv, InOrder
    <3>2. \A i \in 1 .. Len(delivered') : delivered'[i] = i - 1
      BY <1>1, <2>1, <2>2, <2>3, <3>1
    <3> QED
      BY <2>4, <3>2 DEF InOrder
  <2>6. AckExact'
    <3>1. ack' = WrapAdd(ack, NextPayload.len) /\ state' = state
      BY Zenon DEF Deliver
    <3>2. WrapSub(ack, Base) + NextPayload.len < M
      BY <1>1, <2>1, NetworkAssumption, TcbAssumption
    <3>3. WrapSub(ack', Base) = Len(delivered) + NextPayload.len
      BY <1>1, <2>1, <3>1, <3>2, OffsetForward
    <3>4. WrapSub(ack', Base) - Len(delivered') = 0
      BY <1>1, <2>1, <2>3, <3>3
    <3> QED
      BY <2>1, <3>1, <3>4, Zenon DEF AckExact, CloseOffsets
  <2> QED
    BY <1>1, <2>1, <2>3, <2>5, <2>6
<1> QED
  BY <1>2, <1>3, Zenon DEF Deliver

\* The turns that count a FIN move ack by one; the others that deliver
\* nothing leave it.
LEMMA TurnAckExact ==
  ASSUME TypeOK, ControlInv, ReceiveInv, PollReadTurn, ~ Deliver
  PROVE  AckExact'
<1>1. SUFFICES ASSUME upstream_open'
               PROVE  WrapSub(ack', Base) - Len(delivered') \in CloseOffsets(state')
  BY Zenon DEF AckExact
<1>2. upstream_open /\ delivered' = delivered
  BY <1>1, TurnEffects, Zenon
<1>3. WrapSub(ack, Base) - Len(delivered) \in CloseOffsets(state)
  BY <1>2, TurnState, Zenon DEF ReceiveInv, AckExact, Polled
<1>4. /\ ack \in SeqNo /\ Base \in SeqNo /\ Len(delivered) \in Nat
      /\ WrapSub(ack, Base) \in SeqNo /\ state \in TcpState
  BY BaseType, WrapSubType DEF TypeOK, TcbTypeOK, StreamTypeOK
<1>5. CASE FlushFails \/ ReadClosed \/ ReadAborted \/ TimeoutReached
             \/ SendSynAck \/ SendActiveFin \/ RecvNothing
             \/ RecvRst \/ RecvIgnored \/ RecvHandshakeAck
             \/ RecvWindowUpdate \/ RecvKeepAlive
             \/ RecvRetransmissionRequest \/ RecvNewPacket \/ RecvAck
             \/ RecvPsh \/ FinWait2Packet
  <2>1. ack' = ack
    BY <1>5, Zenon
       DEF FlushFails, ReadClosed, ReadAborted, TimeoutReached, SendSynAck,
           SendActiveFin, RecvNothing, RecvRst, RecvIgnored,
           RecvHandshakeAck, RecvWindowUpdate, RecvKeepAlive,
           RecvRetransmissionRequest, RecvNewPacket, RecvAck, RecvPsh,
           FinWait2Packet, tcbVars
  <2>2. \/ state' = state
        \/ state' = "Closed"
        \/ state = "SynReceived(false)" /\ state' = "SynReceived(true)"
        \/ state = "SynReceived(true)" /\ state' = "Established"
        \/ state = "Established" /\ state' = "FinWait1(false)"
        \/ state = "FinWait2(true)" /\ state' = "FinWait2(false)"
    BY <1>5, Zenon
       DEF FlushFails, ReadClosed, ReadAborted, TimeoutReached, SendSynAck,
           SendActiveFin, CanSendActiveFin, RecvNothing, RecvRst, RecvIgnored,
           RecvHandshakeAck, RecvWindowUpdate, RecvKeepAlive,
           RecvRetransmissionRequest, RecvNewPacket, RecvAck, RecvPsh,
           FinWait2Packet, tcbVars
  <2>3. CloseOffsets(state) \subseteq CloseOffsets(state')
    BY <1>4, <2>2, Zenon DEF CloseOffsets, TcpState
  <2> QED
    BY <1>2, <1>3, <2>1, <2>3, Zenon
<1>6. CASE SendPassiveFin \/ RecvFin \/ FinWait1Ack \/ FinWait1Fin
  <2>1. ack' = WrapAdd(ack, 1)
    BY <1>6, Zenon DEF SendPassiveFin, RecvFin, FinWait1Ack, FinWait1Fin
  <2>2. \/ state = "FinWait1(true)" /\ state' = "FinWait2(true)"
        \/ state = "Established" /\ state' = "FinWait1(true)"
        \/ state = "FinWait1(false)" /\ state' = "FinWait2(true)"
    BY <1>6, Zenon DEF SendPassiveFin, RecvFin, FinWait1Ack, FinWait1Fin
  <2>3. WrapSub(ack, Base) - Len(delivered) \in {0, 1}
    BY <1>3, <2>2, Zenon DEF CloseOffsets
  <2>4. WrapSub(ack, Base) + 1 < M
    BY <1>4, <2>3, NetworkAssumption, TcbAssumption DEF ReceiveInv, SeqNo
  <2>5. WrapSub(ack', Base) = WrapSub(ack, Base) + 1
    BY <1>4, <2>1, <2>4, OffsetForward
  <2>6. WrapSub(ack', Base) - Len(delivered') =
          (WrapSub(ack, Base) - Len(delivered)) + 1
    BY <1>2, <1>4, <2>5 DEF SeqNo
  <2> QED
    BY <1>3, <2>2, <2>6 DEF CloseOffsets
<1> QED
  BY <1>5, <1>6, Zenon DEF PollReadTurn

\* A turn preserves the receiving side's invariant.
LEMMA TurnReceive ==
  ASSUME TypeOK, ControlInv, ReceiveInv, PollReadTurn, UNCHANGED netVars
  PROVE  ReceiveInv'
<1>1. TcbTypeOK /\ StreamTypeOK /\ StreamTypeOK'
  BY TurnStreamType, Zenon DEF TypeOK
<1>2. /\ BufferEffect
      /\ shutdown' = "None" => shutdown = "None"
      /\ state' \in HandshakeStates => state \in HandshakeStates
      /\ delivered' = delivered \/ Deliver
  BY TurnEffects, Zenon
<1>3. \A i \in DOMAIN stream_receiver' : \E j \in DOMAIN stream_receiver :
        stream_receiver'[i] = stream_receiver[j]
  BY <1>1, TurnEffects, QueueElements
<1>4. /\ Len(delivered) <= Len(delivered')
      /\ Len(delivered) \in Nat /\ Len(delivered') \in Nat
      /\ Len(delivered') <= PeerBytes
      /\ InOrder'
      /\ AckExact'
  <2>1. CASE Deliver
    BY <1>1, <2>1, DeliverOrder DEF StreamTypeOK
  <2>2. CASE ~ Deliver
    BY <1>1, <1>2, <2>2, TurnAckExact DEF ReceiveInv, InOrder, StreamTypeOK
  <2> QED
    BY <2>1, <2>2, Zenon
<1>5. stream_receiver # <<>> =>
        \E j \in DOMAIN stream_receiver : pkt = stream_receiver[j]
  BY <1>1, QueueElements, Zenon
<1>6. \A i \in DOMAIN stream_receiver' :
        PieceAt(stream_receiver'[i].seq, stream_receiver'[i])
  BY <1>3, Zenon DEF ReceiveInv
<1>7. \A s \in SeqNo : PieceAt(s, unordered_packets'[s])
  <2>1. SUFFICES ASSUME NEW s \in SeqNo
                 PROVE  PieceAt(s, unordered_packets'[s])
    BY Zenon
  <2>2. CASE FromPacket(s)
    BY <1>5, <2>2 DEF ReceiveInv, PieceAt, FromPacket
  <2>3. CASE unordered_packets'[s] = NoPayload
    BY <2>3 DEF PieceAt, NoPayload
  <2> QED
    BY <1>2, <2>2, <2>3, Zenon DEF BufferEffect, ReceiveInv
<1>8. state' \in HandshakeStates =>
        \A s \in SeqNo : unordered_packets'[s].len = 0
  BY <1>2 DEF ReceiveInv, BufferEffect, FromPacket, NoPayload, HandshakeStates
<1>9. FinInv'
  <2>1. \A i \in DOMAIN stream_receiver' :
          stream_receiver'[i].flags = {"FIN", "ACK"} => peer_fin'
    BY <1>3, Zenon DEF ReceiveInv, FinInv, netVars
  <2>2. state' = "FinWait1(true)" => peer_fin'
    <3>1. state' = "FinWait1(true)" =>
            \/ state = "FinWait1(true)"
            \/ stream_receiver # <<>> /\ pkt.flags = {"FIN", "ACK"}
      BY Zenon DEF PollReadTurn, FlushFails, ReadClosed, ReadAborted,
             TimeoutReached, SendSynAck, Deliver, SendPassiveFin,
             SendActiveFin, RecvNothing, RecvRst, RecvIgnored,
             RecvHandshakeAck, RecvWindowUpdate, RecvKeepAlive,
             RecvRetransmissionRequest, RecvNewPacket, RecvAck, RecvPsh,
             RecvFin, RecvValid, RecvContinue, RecvPacket, FinWait1Ack,
             FinWait1Fin, FinWait2Packet, tcbVars
    <3> QED
      BY <1>5, <3>1 DEF ReceiveInv, FinInv, netVars
  <2>3. state' \in {"FinWait2(false)", "FinWait2(true)"} /\ shutdown' = "None"
          => peer_fin'
    <3>1. state' \in {"FinWait2(false)", "FinWait2(true)"} =>
            state \in {"FinWait2(false)", "FinWait2(true)", "FinWait1(true)",
                       "FinWait1(false)"}
      BY Zenon DEF PollReadTurn, FlushFails, ReadClosed, ReadAborted,
             TimeoutReached, SendSynAck, Deliver, SendPassiveFin,
             SendActiveFin, RecvNothing, RecvRst, RecvIgnored,
             RecvHandshakeAck, RecvWindowUpdate, RecvKeepAlive,
             RecvRetransmissionRequest, RecvNewPacket, RecvAck, RecvPsh,
             RecvFin, FinWait1Ack, FinWait1Fin, FinWait2Packet, tcbVars
    <3> QED
      BY <1>2, <3>1 DEF ReceiveInv, FinInv, ControlInv, netVars
  <2>4. ASSUME peer_fin', shutdown' = "None"
        PROVE  FinInOrder' /\ peer_end' <= Len(delivered')
    <3>1. FinInOrder /\ peer_end <= Len(delivered) /\ peer_end' = peer_end
      BY <1>2, <2>4 DEF ReceiveInv, FinInv, netVars
    <3>2. peer_end \in Nat
      BY NetworkAssumption DEF TypeOK
    <3>3. \A i \in DOMAIN stream_receiver :
            /\ stream_receiver[i].off \in Nat /\ stream_receiver[i].len \in Nat
            /\ stream_receiver[i].off + stream_receiver[i].len <= Len(delivered)
      <4>1. \A i \in DOMAIN stream_receiver : stream_receiver[i] \in InPacket
        BY <1>1 DEF StreamTypeOK
      <4>2. \A p \in InPacket : p.off \in Nat /\ p.len \in Nat
        BY TcbAssumption DEF InPacket
      <4> QED
        BY <3>1, <4>1, <4>2 DEF FinInOrder, Passed
    <3>4. \A s \in SeqNo :
            /\ unordered_packets[s].off \in Nat /\ unordered_packets[s].len \in Nat
            /\ unordered_packets[s].off + unordered_packets[s].len <= Len(delivered)
      BY <1>1, <3>1, TcbAssumption
         DEF FinInOrder, Passed, TcbTypeOK, Payload
    <3>5. \A i \in DOMAIN stream_receiver' : Passed(stream_receiver[i])'
      BY <1>3, <1>4, <3>3 DEF Passed
    <3>6. \A s \in SeqNo : Passed(unordered_packets[s])'
      <4>1. SUFFICES ASSUME NEW s \in SeqNo
                     PROVE  Passed(unordered_packets[s])'
        BY Zenon
      <4>2. CASE unordered_packets'[s] = unordered_packets[s]
        BY <1>4, <3>4, <4>2 DEF Passed
      <4>3. CASE unordered_packets'[s] = NoPayload
        BY <1>4, <4>3 DEF Passed, NoPayload
      <4>4. CASE FromPacket(s)
        BY <1>4, <1>5, <3>3, <4>4, SMTT(30) DEF Passed, FromPacket
      <4> QED
        BY <1>2, <4>2, <4>3, <4>4, Zenon DEF BufferEffect
    <3> QED
      BY <1>4, <3>1, <3>2, <3>5, <3>6 DEF FinInOrder
  <2> QED
    BY <2>1, <2>2, <2>3, <2>4, Zenon DEF FinInv
<1> QED
  BY <1>4, <1>6, <1>7, <1>8, <1>9 DEF ReceiveInv

\* Steps that touch neither the receiving side nor what it depends on.
LEMMA ReceiveFrame ==
  ASSUME ReceiveInv,
         UNCHANGED <<state, ack, unordered_packets, stream_receiver,
                     delivered, panicked, netVars>>,
         shutdown' = "None" => shutdown = "None",
         upstream_open' => upstream_open
  PROVE  ReceiveInv'
<1>1. InOrder' /\ AckExact'
  BY Zenon DEF ReceiveInv, InOrder, AckExact
<1>2. FinInOrder => FinInOrder'
  BY Zenon DEF FinInOrder, Passed
<1>3. FinInv'
  BY <1>2 DEF ReceiveInv, FinInv, netVars
<1> QED
  BY <1>1, <1>3 DEF ReceiveInv, PieceAt

\* A packet of the peer joins the queue.
LEMMA ArriveReceive ==
  ASSUME TypeOK, ReceiveInv, ArrivePacket \/ ArriveFin
  PROVE  ReceiveInv'
<1>1. StreamTypeOK /\ Len(delivered) \in Nat /\ peer_end \in 0 .. PeerBytes
  BY DEF TypeOK, StreamTypeOK
<1>2. UNCHANGED <<state, ack, unordered_packets, shutdown, upstream_open,
                  panicked, delivered>>
  BY Zenon DEF ArrivePacket, ArriveFin, Arrive, tcbVars
<1>3. ASSUME NEW p \in InPacket,
             stream_receiver' = Append(stream_receiver, p),
             PieceAt(p.seq, p),
             p.flags = {"FIN", "ACK"} => peer_fin',
             peer_fin => peer_fin',
             peer_fin' /\ shutdown = "None" =>
               FinInOrder /\ Passed(p) /\ peer_end' <= Len(delivered)
      PROVE  ReceiveInv'
  <2>1. \A i \in DOMAIN stream_receiver' :
          \/ stream_receiver'[i] = p
          \/ \E j \in DOMAIN stream_receiver :
               stream_receiver'[i] = stream_receiver[j]
    BY <1>1, <1>3, QueueElements, Zenon
  <2>2. \A i \in DOMAIN stream_receiver' :
          PieceAt(stream_receiver'[i].seq, stream_receiver'[i])
    <3> TAKE i \in DOMAIN stream_receiver'
    <3>1. CASE stream_receiver'[i] = p
      BY <1>3, <3>1, Zenon
    <3>2. ASSUME NEW j \in DOMAIN stream_receiver,
                 stream_receiver'[i] = stream_receiver[j]
          PROVE  PieceAt(stream_receiver'[i].seq, stream_receiver'[i])
      BY <3>2, Zenon DEF ReceiveInv
    <3> QED
      BY <2>1, <3>1, <3>2, Zenon
  <2>3. FinInv'
    <3>1. \A i \in DOMAIN stream_receiver' :
            stream_receiver'[i].flags = {"FIN", "ACK"} => peer_fin'
      <4> TAKE i \in DOMAIN stream_receiver'
      <4>1. CASE stream_receiver'[i] = p
        BY <1>3, <4>1, Zenon
      <4>2. ASSUME NEW j \in DOMAIN stream_receiver,
                   stream_receiver'[i] = stream_receiver[j]
            PROVE  stream_receiver'[i].flags = {"FIN", "ACK"} => peer_fin'
        <5>1. stream_receiver[j].flags = {"FIN", "ACK"} => peer_fin
          BY Zenon DEF ReceiveInv, FinInv
        <5> QED
          BY <1>3, <4>2, <5>1, Zenon
      <4> QED
        BY <2>1, <4>1, <4>2, Zenon
    <3>2. peer_fin' /\ shutdown' = "None" =>
            FinInOrder' /\ peer_end' <= Len(delivered')
      <4> SUFFICES ASSUME peer_fin', shutdown' = "None"
                   PROVE  FinInOrder' /\ peer_end' <= Len(delivered')
        BY Zenon
      <4>1. FinInOrder /\ Passed(p) /\ peer_end' <= Len(delivered)
        BY <1>2, <1>3, Zenon
      <4>2. \A s \in SeqNo :
              unordered_packets'[s].off + unordered_packets'[s].len
                <= Len(delivered')
        BY <1>2, <4>1, Zenon DEF FinInOrder, Passed
      <4>3. \A i \in DOMAIN stream_receiver' :
              stream_receiver'[i].off + stream_receiver'[i].len
                <= Len(delivered')
        BY <1>2, <2>1, <4>1, Zenon DEF FinInOrder, Passed
      <4> QED
        BY <1>2, <4>1, <4>2, <4>3, Zenon DEF FinInOrder, Passed
    <3>3. /\ state' = "FinWait1(true)" => peer_fin'
          /\ state' \in {"FinWait2(false)", "FinWait2(true)"}
               /\ shutdown' = "None" => peer_fin'
      BY <1>2, <1>3, Zenon DEF ReceiveInv, FinInv
    <3> QED
      BY <3>1, <3>2, <3>3, Zenon DEF FinInv
  <2> QED
    BY <1>2, <2>2, <2>3, Zenon DEF ReceiveInv, PieceAt, InOrder, AckExact
<1>4. CASE ArrivePacket
  <2>1. PICK p \in DataPackets \cup AckPackets \cup StrayPackets :
          stream_receiver' = Append(stream_receiver, p)
    BY <1>4 DEF ArrivePacket
  <2>2. p \in InPacket /\ UNCHANGED netVars
    BY <1>4, ArrivalType, Zenon DEF ArrivePacket
  <2>3. /\ p.flags # {"FIN", "ACK"}
        /\ PieceAt(p.seq, p)
        /\ p.off + p.len <= peer_end
    <3>1. CASE p \in DataPackets
      <4>1. "FIN" \notin p.flags /\ p.seq = WrapAdd(Base, p.off)
        BY <3>1, PacketFields
      <4>2. p.off \in Nat /\ p.len \in Nat /\ p.off + p.len <= peer_end
        BY <3>1, PacketFields
      <4>3. p.off + p.len <= PeerBytes
        BY <1>1, <4>2, NetworkAssumption
      <4> QED
        BY <4>1, <4>2, <4>3 DEF PieceAt
    <3>2. CASE p \in AckPackets \cup StrayPackets
      <4>1. p.flags # {"FIN", "ACK"} /\ p.off = 0 /\ p.len = 0
        BY <3>2, PacketFields
      <4> QED
        BY <1>1, <4>1, NetworkAssumption DEF PieceAt
    <3> QED
      BY <2>1, <3>1, <3>2
  <2>4. peer_fin /\ shutdown = "None" =>
          FinInOrder /\ Passed(p) /\ peer_end <= Len(delivered)
    <3>1. p.off \in Nat /\ p.len \in Nat
      BY <2>2, TcbAssumption, NetworkAssumption DEF InPacket
    <3>2. peer_end \in Nat
      BY <1>1, NetworkAssumption
    <3> QED
      BY <1>1, <2>3, <3>1, <3>2 DEF ReceiveInv, FinInv, Passed
  <2> QED
    BY <1>3, <2>1, <2>2, <2>3, <2>4, Zenon DEF netVars
<1>5. CASE ArriveFin
  <2>1. PICK end \in 0 .. PeerBytes :
          /\ end = IF peer_fin THEN peer_end ELSE Len(delivered)
          /\ peer_end' = end
          /\ \E p \in FinPackets(end) :
               stream_receiver' = Append(stream_receiver, p)
    BY <1>5, Zenon DEF ArriveFin
  <2>2. PICK p \in FinPackets(end) :
          stream_receiver' = Append(stream_receiver, p)
    BY <2>1, Zenon
  <2>3. p \in InPacket /\ p.off = 0 /\ p.len = 0
    BY ArrivalType, PacketFields
  <2>4. peer_fin' = TRUE
    BY <1>5, Zenon DEF ArriveFin
  <2>5. shutdown = "None" =>
          FinInOrder /\ Passed(p) /\ peer_end' <= Len(delivered)
    BY <1>1, <1>5, <2>1, <2>3, NetworkAssumption, SMTT(30)
       DEF ArriveFin, ReceiveInv, FinInv, Passed
  <2> QED
    BY <1>3, <2>2, <2>3, <2>4, <2>5 DEF PieceAt
<1> QED
  BY <1>4, <1>5

\* Every step preserves the receiving side's invariant.
LEMMA ReceiveStep ==
  ASSUME TypeOK, ControlInv, ReceiveInv, [Next]_allVars
  PROVE  ReceiveInv'
<1>1. CASE PollReadTurn /\ UNCHANGED netVars
  BY <1>1, TurnReceive
<1>2. CASE ArrivePacket \/ ArriveFin
  BY <1>2, ArriveReceive
<1>3. CASE /\ OwnerCall \/ StackStep \/ Write
           /\ UNCHANGED netVars
  <2>1. /\ UNCHANGED <<state, ack, unordered_packets, stream_receiver,
                       delivered, panicked>>
        /\ shutdown' = "None" => shutdown = "None"
    BY <1>3, Zenon
       DEF OwnerCall, PollRead, PollShutdown, WriteBlocks, DropWrapper,
           ShutdownReady, DropInner, StackStep, SessionRemoved, StackStops,
           Write, PollWrite, AddInflightPacket, tcbVars, outerVars
  <2>2. upstream_open' = upstream_open \/ upstream_open' = FALSE
    BY <1>3, Zenon
       DEF OwnerCall, PollRead, PollShutdown, WriteBlocks, DropWrapper,
           ShutdownReady, DropInner, StackStep, SessionRemoved, StackStops,
           Write, PollWrite, outerVars
  <2>3. upstream_open' => upstream_open
    BY <2>2, Zenon
  <2> QED
    BY <1>3, <2>1, <2>3, ReceiveFrame, SMTT(30)
<1>4. CASE Finished \/ UNCHANGED allVars
  BY <1>4, ReceiveFrame
     DEF Finished, allVars, vars, tcbVars, streamVars, netVars
<1> QED
  BY <1>1, <1>2, <1>3, <1>4 DEF Next

\* A new stream has neither queued, buffered nor delivered anything.
LEMMA ReceiveInit == Init => ReceiveInv
<1>1. SUFFICES ASSUME Init
               PROVE  ReceiveInv
  OBVIOUS
<1>2. /\ state = "SynReceived(false)" /\ ack = Base
      /\ unordered_packets = [s \in SeqNo |-> NoPayload]
      /\ stream_receiver = <<>> /\ delivered = <<>> /\ peer_fin = FALSE
  BY <1>1 DEF Init, StreamInit, TcbInit, Base
<1>3. WrapSub(ack, Base) = 0
  BY <1>2, BaseType, TcbAssumption DEF WrapSub, SeqNo
<1>4. DOMAIN delivered = {} /\ Len(delivered) = 0 /\ DOMAIN stream_receiver = {}
  BY <1>2
<1>5. FinInv
  BY <1>2, <1>4 DEF FinInv
<1>6. InOrder /\ AckExact
  <2>1. CloseOffsets(state) = {0}
    BY <1>2 DEF CloseOffsets
  <2>2. WrapSub(ack, Base) - Len(delivered) = 0
    BY <1>3, <1>4
  <2> QED
    BY <1>4, <2>1, <2>2 DEF InOrder, AckExact
<1> QED
  BY <1>2, <1>4, <1>5, <1>6, NetworkAssumption
     DEF ReceiveInv, PieceAt, NoPayload

\* For every number of sequence numbers, every size of window, buffer and
\* segment, and whatever the network loses, repeats or reorders: poll_read
\* hands out the peer's bytes in order, each once ...
THEOREM DeliveredInOrder == Spec => []InOrder
<1>1. Spec => [](TypeOK /\ ControlInv /\ SendInv)
  BY SendAlways
<1>2. TypeOK /\ ControlInv /\ ReceiveInv /\ [Next]_allVars => ReceiveInv'
  BY ReceiveStep
<1>3. ReceiveInv => InOrder
  BY DEF ReceiveInv
<1> QED
  BY <1>1, <1>2, <1>3, ReceiveInit, PTL DEF Spec

\* ... and ack counts exactly the bytes handed out, plus the FINs.
THEOREM AckedIsDelivered == Spec => []AckExact
<1>1. Spec => [](TypeOK /\ ControlInv /\ SendInv)
  BY SendAlways
<1>2. TypeOK /\ ControlInv /\ ReceiveInv /\ [Next]_allVars => ReceiveInv'
  BY ReceiveStep
<1>3. ReceiveInv => AckExact
  BY DEF ReceiveInv
<1> QED
  BY <1>1, <1>2, <1>3, ReceiveInit, PTL DEF Spec

----------------------------------------------------------------------------
(* The stream implements ByteStream.  Each step changes at most one of the *)
(* three things ByteStream sees.  Which one it may be follows from the     *)
(* definitions of the actions; that the change is one ByteStream allows    *)
(* follows from InOrder, which determines what is delivered by its length, *)
(* and from UnackedBounded.                                                *)

\* Only Deliver hands out bytes, and it moves neither the numbers sent and
\* acknowledged nor the state.
LEMMA DeliveredStep ==
  ASSUME TypeOK, [Next]_allVars
  PROVE  \/ delivered' = delivered
         \/ Deliver /\ UNCHANGED <<state, seq, last_ack>>
<1>1. CASE PollReadTurn
  BY <1>1, TurnEffects DEF Deliver
<1>2. CASE OwnerCall \/ StackStep \/ Write \/ Finished \/ UNCHANGED allVars
             \/ ArrivePacket \/ ArriveFin
  BY <1>2, Zenon
     DEF OwnerCall, PollRead, PollShutdown, WriteBlocks, DropWrapper,
         ShutdownReady, DropInner, StackStep, SessionRemoved, StackStops,
         Write, PollWrite, ArrivePacket, ArriveFin, Arrive, Finished, allVars,
         vars, streamVars
<1> QED
  BY <1>1, <1>2 DEF Next

\* The steps that close the connection leave the numbers alone.
LEMMA ClosingStep ==
  ASSUME [Next]_allVars, state # "Closed", state' = "Closed"
  PROVE  UNCHANGED <<seq, last_ack>>
<1>1. CASE PollReadTurn
  <2>1. CASE AcceptingTurn
    BY <2>1, Zenon
       DEF AcceptingTurn, RecvHandshakeAck, RecvWindowUpdate, RecvKeepAlive,
           RecvRetransmissionRequest, RecvNewPacket, RecvAck, RecvPsh, RecvFin,
           FinWait1Ack, FinWait1Fin, FinWait2Packet
  <2>2. CASE ~ AcceptingTurn
    BY <1>1, <2>2, Zenon
       DEF PollReadTurn, AcceptingTurn, FlushFails, ReadClosed, ReadAborted,
           TimeoutReached, SendSynAck, Deliver, SendPassiveFin, SendActiveFin,
           RecvNothing, RecvRst, RecvIgnored, tcbVars
  <2> QED
    BY <2>1, <2>2
<1>2. CASE OwnerCall \/ StackStep \/ Write \/ Finished \/ UNCHANGED allVars
             \/ ArrivePacket \/ ArriveFin
  BY <1>2, Zenon
     DEF OwnerCall, PollRead, PollShutdown, WriteBlocks, DropWrapper,
         ShutdownReady, DropInner, StackStep, SessionRemoved, StackStops,
         Write, PollWrite, ArrivePacket, ArriveFin, Arrive, Finished, allVars,
         vars, tcbVars
<1> QED
  BY <1>1, <1>2 DEF Next

\* A prefix of the peer's bytes is determined by its length.
LEMMA InOrderIsPrefix ==
  ASSUME NEW s \in Seq(Nat), \A i \in DOMAIN s : s[i] = i - 1
  PROVE  s = BS!Prefix(Len(s))
  BY DEF BS!Prefix

\* Bytes out, as ByteStream counts them.
LEMMA OutstandingType ==
  ASSUME NEW s \in SeqNo, NEW l \in SeqNo, WrapSub(s, l) <= MAX_UNACK + MSS
  PROVE  WrapSub(s, l) \in 0 .. MAX_UNACK + MSS
  BY WrapSubType, TcbAssumption, StreamAssumption DEF SeqNo

\* Every step is a step of ByteStream or leaves what it sees alone.
LEMMA RefinementStep ==
  ASSUME TypeOK, TypeOK', ControlInv, SendInv, SendInv', ReceiveInv,
         ReceiveInv', [Next]_allVars
  PROVE  [BS!Next]_BS!vars
<1>1. CASE state = "Closed"
  <2>1. UNCHANGED <<state, seq, last_ack, delivered>>
    BY <1>1, ClosedStep, Zenon DEF tcbVars
  <2> QED
    BY <2>1, Zenon DEF BS!vars, Ahead
<1>2. CASE state # "Closed" /\ delivered' # delivered
  <2>1. Deliver /\ UNCHANGED <<state, seq, last_ack>>
    BY <1>2, DeliveredStep, Zenon
  <2>2. /\ Len(delivered) <= Len(delivered')
        /\ Len(delivered) \in Nat /\ Len(delivered') \in 0 .. PeerBytes
        /\ delivered \in Seq(Nat) /\ delivered' \in Seq(Nat)
    BY <2>1, DeliverOrder, NetworkAssumption DEF TypeOK, StreamTypeOK
  <2>3. delivered = BS!Prefix(Len(delivered))
    BY <2>2, InOrderIsPrefix, Zenon DEF ReceiveInv, InOrder
  <2>4. delivered' = BS!Prefix(Len(delivered'))
    BY <2>2, InOrderIsPrefix, Zenon DEF ReceiveInv, InOrder
  <2>5. Len(delivered') > Len(delivered) /\ Len(delivered') \in 1 .. PeerBytes
    BY <1>2, <2>2, <2>3, <2>4
  <2>6. UNCHANGED <<Ahead(seq), state = "Closed">>
    BY <2>1, Zenon DEF Ahead
  <2>7. BS!Deliver
    BY <1>2, <2>4, <2>5, <2>6, Zenon DEF BS!Deliver
  <2> QED
    BY <2>7, Zenon DEF BS!Next
<1>3. CASE state # "Closed" /\ delivered' = delivered /\ state' = "Closed"
  <2>1. (Ahead(seq))' = Ahead(seq)
    BY <1>3, ClosingStep, Zenon DEF Ahead
  <2>2. BS!End
    BY <1>3, <2>1, Zenon DEF BS!End
  <2> QED
    BY <2>2, Zenon DEF BS!Next
<1>4. CASE state # "Closed" /\ delivered' = delivered /\ state' # "Closed"
  <2>1. /\ Ahead(seq) \in 0 .. MAX_UNACK + MSS
        /\ (Ahead(seq))' \in 0 .. MAX_UNACK + MSS
    BY OutstandingType, Zenon
       DEF SendInv, UnackedInv, UnackedBounded, Ahead, TypeOK, TcbTypeOK
  <2>2. (state = "Closed")' = (state = "Closed")
    BY <1>4, Zenon
  <2>3. CASE (Ahead(seq))' > Ahead(seq)
    BY <1>4, <2>1, <2>2, <2>3, Zenon DEF BS!Send, BS!Next
  <2>4. CASE (Ahead(seq))' < Ahead(seq)
    BY <1>4, <2>1, <2>2, <2>4, Zenon DEF BS!Acknowledge, BS!Next
  <2>5. CASE (Ahead(seq))' = Ahead(seq)
    BY <1>4, <2>2, <2>5, Zenon DEF BS!vars
  <2>6. \/ (Ahead(seq))' > Ahead(seq)
        \/ (Ahead(seq))' < Ahead(seq)
        \/ (Ahead(seq))' = Ahead(seq)
    BY <2>1, TcbAssumption, StreamAssumption
  <2> QED
    BY <2>3, <2>4, <2>5, <2>6
<1> QED
  BY <1>1, <1>2, <1>3, <1>4, Zenon

\* A new stream is a new byte stream.
LEMMA RefinementInit == Init => BS!Init
<1> SUFFICES ASSUME Init
             PROVE  BS!Init
  OBVIOUS
<1>1. delivered = <<>> /\ state = "SynReceived(false)" /\ seq = last_ack
      /\ seq \in SeqNo
  BY StreamAssumption, Zenon DEF Init, StreamInit, TcbInit
<1>2. Ahead(seq) = 0
  BY <1>1 DEF Ahead, WrapSub, SeqNo
<1>3. (state = "Closed") = FALSE
  BY <1>1, Zenon
<1> QED
  BY <1>1, <1>2, <1>3 DEF BS!Init

\* The stream with its network implements ByteStream: poll_read, poll_write,
\* the close, and the loss, repetition and reordering of packets show the
\* application a byte stream.
THEOREM ByteStreamImplemented == Spec => ImplementsByteStream
<1>1. Spec => [](TypeOK /\ ControlInv /\ SendInv)
  BY SendAlways
<1>2. TypeOK /\ ControlInv /\ ReceiveInv /\ [Next]_allVars => ReceiveInv'
  BY ReceiveStep
<1>3. /\ TypeOK /\ TypeOK' /\ ControlInv /\ SendInv /\ SendInv'
      /\ ReceiveInv /\ ReceiveInv' /\ [Next]_allVars
      => [BS!Next]_BS!vars
  BY RefinementStep, Zenon
<1> QED
  BY <1>1, <1>2, <1>3, ReceiveInit, RefinementInit, PTL
     DEF Spec, ImplementsByteStream, BS!Spec

============================================================================
