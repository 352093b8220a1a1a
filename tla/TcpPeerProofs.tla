--------------------------- MODULE TcpPeerProofs ---------------------------
(***************************************************************************)
(* The stream and its peer, with what is on its way between them in both   *)
(* directions: the invariant PeerInv on which they agree, what each kind   *)
(* of step does to it, and that the steps of the peer preserve it.         *)
(***************************************************************************)
EXTENDS TcpTaskProofs

\* The peer has been heard from seq's first lap on, and nothing it sends is
\* dropped: until a wrap of seq stops every acknowledgment, or a shutdown
\* makes poll_read drop the payload of PSH segments.
Steady ==
  /\ wrapper = "held"
  /\ state \in {"SynReceived(false)", "SynReceived(true)", "Established"}
  /\ last_ack <= seq
  /\ shutdown = "None" \/ {"PSH", "ACK"} \notin DataFlags

\* The place of a sequence number in the peer's stream; what it has sent.
Off(s) == WrapSub(s, Base)
PeerOff == peer.sent + IF peer.fin THEN 1 ELSE 0

Bare(p) == p.flags = {"ACK"} /\ p.len = 0

\* What the peer sends: acknowledgments, segments and its FIN.
Kind(p) ==
  /\ \/ Bare(p)
     \/ p.flags \in DataFlags /\ p.len > 0
     \/ p.flags = {"FIN", "ACK"} /\ p.len = 0
  /\ Off(p.seq) + Counts(p) <= PeerBytes + 1

\* r follows p: it starts where p ends, and a bare acknowledgment says
\* something that p did not.
Follows(p, r) ==
  /\ Off(r.seq) = Off(p.seq) + Counts(p)
  /\ p.ack <= r.ack
  /\ Bare(r) => p.ack # r.ack \/ p.win # r.win

PeerQueue(s) ==
  /\ \A i \in 1 .. Len(s) : Kind(s[i])
  /\ \A i \in 1 .. Len(s) - 1 : Follows(s[i], s[i + 1])
  /\ \A i, j \in 1 .. Len(s) : i <= j => s[i].ack <= s[j].ack

\* The packets from the stream to the peer, end to end from one sequence
\* number to another.
Outgoing == pkt_receiver \o packet_to_send

Chain(s, from, to) ==
  /\ s = <<>> => from = to
  /\ s # <<>> => /\ s[1].seq = from
                 /\ s[Len(s)].seq + Counts(s[Len(s)]) = to
  /\ \A i \in 1 .. Len(s) - 1 : s[i + 1].seq = s[i].seq + Counts(s[i])
  /\ \A i \in 1 .. Len(s) : /\ s[i].seq + Counts(s[i]) <= to
                            /\ "RST" \notin s[i].flags

\* What the stream will know once it has taken all that is queued.
LastAck ==
  IF stream_receiver = <<>> THEN last_ack
  ELSE stream_receiver[Len(stream_receiver)].ack
LastWin ==
  IF stream_receiver = <<>> THEN send_window
  ELSE stream_receiver[Len(stream_receiver)].win
LastOff ==
  LET p == stream_receiver[Len(stream_receiver)] IN Off(p.seq) + Counts(p)

\* Where the next packet that the stream takes starts.
NextOff ==
  IF stream_receiver = <<>> THEN PeerOff ELSE Off(stream_receiver[1].seq)

\* The peer and the stream agree on what is on its way, both ways.
Queued ==
  /\ PeerQueue(stream_receiver)
  /\ stream_receiver # <<>> =>
       /\ last_ack <= stream_receiver[1].ack
       /\ Bare(stream_receiver[1]) =>
            \/ last_ack # stream_receiver[1].ack
            \/ send_window # stream_receiver[1].win
       /\ state # "Established" => Bare(stream_receiver[1])
       /\ session => LastOff = PeerOff
  /\ LastAck <= seq

Reading ==
  stream_receiver # <<>> \/ session =>
    /\ Off(ack) <= NextOff
    /\ shutdown = "None" => Off(ack) + NextPayload.len = NextOff

OneBuffered ==
  shutdown = "None" => \A s \in SeqNo : s # ack => unordered_packets[s].len = 0

PeerKnows ==
  session =>
    /\ Chain(Outgoing, peer.next, seq)
    /\ LastAck <= peer.next
    /\ PeerOff <= PeerBytes + 1
    /\ IF peer.reply
       THEN LastAck # peer.next \/ (peer.held = 0 /\ LastWin < MaxWindow)
       ELSE LastAck = peer.next /\ LastWin = SatSub(MaxWindow, peer.held)
    /\ state # "Established" /\ stream_receiver = <<>> => ~ peer.up

Agreed == Queued /\ Reading /\ OneBuffered /\ PeerKnows

PeerInv ==
  /\ ControlInv
  /\ session => upstream_open
  /\ state = "SynReceived(false)" => seq = last_ack
  /\ Steady => Agreed

----------------------------------------------------------------------------
(* The queues. *)

\* Only the empty sequence has no elements.
LEMMA EmptyLen ==
  ASSUME NEW S, NEW s \in Seq(S)
  PROVE  s = <<>> <=> Len(s) = 0
  OBVIOUS

\* The queue after its first packet is taken.
LEMMA QueueTail ==
  ASSUME NEW s \in Seq(InPacket), s # <<>>, PeerQueue(s)
  PROVE  /\ PeerQueue(Tail(s))
         /\ Kind(s[1])
         /\ Tail(s) # <<>> => /\ Follows(s[1], Tail(s)[1])
                              /\ Tail(s)[Len(Tail(s))] = s[Len(s)]
         /\ Tail(s) = <<>> => s[Len(s)] = s[1]
<1> DEFINE t == Tail(s)
<1>1. /\ t \in Seq(InPacket) /\ Len(t) = Len(s) - 1 /\ Len(s) \in Nat
      /\ Len(s) >= 1 /\ \A i \in 1 .. Len(t) : t[i] = s[i + 1]
  OBVIOUS
<1>2. t = <<>> <=> Len(t) = 0
  BY <1>1, EmptyLen, Zenon
<1> HIDE DEF t
<1>3. \A i \in 1 .. Len(t) : Kind(t[i])
  BY <1>1 DEF PeerQueue
<1>4. \A i \in 1 .. Len(t) - 1 : Follows(t[i], t[i + 1])
  BY <1>1 DEF PeerQueue
<1>5. \A i, j \in 1 .. Len(t) : i <= j => t[i].ack <= t[j].ack
  <2> SUFFICES ASSUME NEW i \in 1 .. Len(t), NEW j \in 1 .. Len(t), i <= j
               PROVE  t[i].ack <= t[j].ack
    BY Zenon
  <2>1. /\ i + 1 \in 1 .. Len(s) /\ j + 1 \in 1 .. Len(s) /\ i + 1 <= j + 1
        /\ t[i] = s[i + 1] /\ t[j] = s[j + 1]
    BY <1>1
  <2> QED
    BY <2>1, Zenon DEF PeerQueue
<1>6. PeerQueue(t)
  BY <1>3, <1>4, <1>5, Zenon DEF PeerQueue
<1>7. Kind(s[1])
  BY <1>1 DEF PeerQueue
<1>8. t # <<>> => Follows(s[1], t[1]) /\ t[Len(t)] = s[Len(s)]
  BY <1>1, <1>2 DEF PeerQueue
<1>9. t = <<>> => s[Len(s)] = s[1]
  <2>1. t = <<>> => Len(s) = 1
    BY <1>1, <1>2
  <2> QED
    BY <2>1, Zenon
<1> QED
  BY <1>6, <1>7, <1>8, <1>9, Zenon DEF t

\* The queue after a packet has arrived.
LEMMA QueueAppend ==
  ASSUME NEW s \in Seq(InPacket), NEW p \in InPacket, PeerQueue(s), Kind(p),
         s # <<>> => Follows(s[Len(s)], p)
  PROVE  /\ PeerQueue(Append(s, p))
         /\ Append(s, p) # <<>>
         /\ Append(s, p)[Len(Append(s, p))] = p
         /\ Append(s, p)[1] = IF s = <<>> THEN p ELSE s[1]
<1> DEFINE t == Append(s, p)
<1>1. /\ t \in Seq(InPacket) /\ Len(t) = Len(s) + 1 /\ Len(s) \in Nat
      /\ \A i \in 1 .. Len(s) : t[i] = s[i]
      /\ t[Len(s) + 1] = p
  OBVIOUS
<1>2. s = <<>> <=> Len(s) = 0
  OBVIOUS
<1>3. t # <<>>
  BY <1>1
<1> HIDE DEF t
<1>4. \A i \in 1 .. Len(t) : Kind(t[i])
  BY <1>1 DEF PeerQueue
<1>5. \A i \in 1 .. Len(t) - 1 : Follows(t[i], t[i + 1])
  <2> SUFFICES ASSUME NEW i \in 1 .. Len(t) - 1
               PROVE  Follows(t[i], t[i + 1])
    BY Zenon
  <2>1. CASE i = Len(s)
    BY <1>1, <1>2, <2>1
  <2>2. CASE i # Len(s)
    <3>1. i \in 1 .. Len(s) - 1 /\ t[i] = s[i] /\ t[i + 1] = s[i + 1]
      BY <1>1, <2>2
    <3> QED
      BY <3>1, Zenon DEF PeerQueue
  <2> QED
    BY <2>1, <2>2, Zenon
<1>6. \A i, j \in 1 .. Len(t) : i <= j => t[i].ack <= t[j].ack
  <2> SUFFICES ASSUME NEW i \in 1 .. Len(t), NEW j \in 1 .. Len(t), i <= j
               PROVE  t[i].ack <= t[j].ack
    BY Zenon
  <2>1. \A r \in InPacket : r.ack \in Nat
    BY TcbAssumption DEF InPacket, SeqNo
  <2>2. CASE j <= Len(s)
    <3>1. i \in 1 .. Len(s) /\ j \in 1 .. Len(s) /\ t[i] = s[i] /\ t[j] = s[j]
      BY <1>1, <2>2
    <3> QED
      BY <3>1, Zenon DEF PeerQueue
  <2>3. CASE i <= Len(s) /\ j = Len(s) + 1
    <3>1. /\ i \in 1 .. Len(s) /\ Len(s) \in 1 .. Len(s) /\ s # <<>>
          /\ t[i] = s[i] /\ t[j] = p
      BY <1>1, <1>2, <2>3
    <3>2. s[i].ack <= s[Len(s)].ack
      BY <2>3, <3>1, Zenon DEF PeerQueue
    <3>3. s[Len(s)].ack <= p.ack
      BY <3>1, Zenon DEF Follows
    <3>4. s[i].ack \in Int /\ s[Len(s)].ack \in Int /\ p.ack \in Int
      <4>1. s[i] \in InPacket /\ s[Len(s)] \in InPacket
        BY <3>1
      <4> QED
        BY <2>1, <4>1
    <3> QED
      BY <3>1, <3>2, <3>3, <3>4
  <2>4. CASE i = j
    <3>1. t[i] \in InPacket
      BY <1>1
    <3>2. t[i].ack \in Nat
      BY <2>1, <3>1, Zenon
    <3> QED
      BY <2>4, <3>2
  <2> QED
    BY <1>1, <2>2, <2>3, <2>4
<1>7. PeerQueue(t)
  BY <1>4, <1>5, <1>6, Zenon DEF PeerQueue
<1>8. t[Len(t)] = p
  BY <1>1, Zenon
<1>9. t[1] = IF s = <<>> THEN p ELSE s[1]
  BY <1>1, <1>2
<1> QED
  BY <1>3, <1>7, <1>8, <1>9, Zenon DEF t

\* One more packet at the end of the chain.
LEMMA ChainAppend ==
  ASSUME NEW s \in Seq(OutPacket), NEW p \in OutPacket,
         NEW from, NEW to \in Nat, Chain(s, from, to),
         p.seq = to, "RST" \notin p.flags
  PROVE  Chain(s \o <<p>>, from, to + Counts(p))
<1> DEFINE t == s \o <<p>>
<1>1. /\ t \in Seq(OutPacket) /\ Len(t) = Len(s) + 1 /\ Len(s) \in Nat
      /\ \A i \in 1 .. Len(s) : t[i] = s[i]
      /\ t[Len(s) + 1] = p
  OBVIOUS
<1>2. (s = <<>> <=> Len(s) = 0) /\ (t = <<>> <=> Len(t) = 0)
  OBVIOUS
<1> HIDE DEF t
<1>3. t # <<>>
  BY <1>1, <1>2
<1>4. Counts(p) \in Nat
  BY CountsRange, StreamAssumption DEF OutPacket
<1>5. t[1].seq = from
  BY <1>1, <1>2 DEF Chain
<1>6. t[Len(t)].seq + Counts(t[Len(t)]) = to + Counts(p)
  BY <1>1, Zenon
<1>7. \A i \in 1 .. Len(t) - 1 : t[i + 1].seq = t[i].seq + Counts(t[i])
  <2> SUFFICES ASSUME NEW i \in 1 .. Len(t) - 1
               PROVE  t[i + 1].seq = t[i].seq + Counts(t[i])
    BY Zenon
  <2>1. CASE i = Len(s)
    BY <1>1, <1>2, <2>1 DEF Chain
  <2>2. CASE i # Len(s)
    <3>1. i \in 1 .. Len(s) - 1 /\ t[i] = s[i] /\ t[i + 1] = s[i + 1]
      BY <1>1, <2>2
    <3> QED
      BY <3>1, Zenon DEF Chain
  <2> QED
    BY <2>1, <2>2, Zenon
<1>8. ASSUME NEW i \in 1 .. Len(t)
      PROVE  /\ t[i].seq + Counts(t[i]) <= to + Counts(p)
             /\ "RST" \notin t[i].flags
  <2>1. CASE i <= Len(s)
    <3>1. i \in 1 .. Len(s) /\ t[i] = s[i] /\ s[i] \in OutPacket
      BY <1>1, <2>1
    <3>2. /\ s[i].seq + Counts(s[i]) <= to /\ "RST" \notin s[i].flags
      BY <3>1, Zenon DEF Chain
    <3>3. s[i].seq \in Nat /\ s[i].len \in Nat
      <4>1. \A r \in OutPacket : r.seq \in Nat /\ r.len \in Nat
        BY TcbAssumption, StreamAssumption DEF OutPacket, SeqNo
      <4> QED
        BY <3>1, <4>1, Zenon
    <3>4. Counts(s[i]) \in Nat
      BY <3>3, CountsRange, Zenon
    <3> QED
      BY <1>4, <3>1, <3>2, <3>3, <3>4
  <2>2. CASE i = Len(s) + 1
    BY <1>1, <1>4, <2>2
  <2> QED
    BY <1>1, <2>1, <2>2
<1> QED
  BY <1>3, <1>5, <1>6, <1>7, <1>8, Zenon DEF Chain, t

\* The chain after its first packet is taken.
LEMMA ChainTail ==
  ASSUME NEW s \in Seq(OutPacket), s # <<>>, NEW from, NEW to \in Nat,
         Chain(s, from, to)
  PROVE  /\ Head(s).seq = from
         /\ from + Counts(Head(s)) <= to
         /\ "RST" \notin Head(s).flags
         /\ Chain(Tail(s), from + Counts(Head(s)), to)
<1> DEFINE t == Tail(s)
<1>1. /\ t \in Seq(OutPacket) /\ Len(t) = Len(s) - 1 /\ Len(s) \in Nat
      /\ Len(s) >= 1 /\ Head(s) = s[1] /\ \A i \in 1 .. Len(t) : t[i] = s[i + 1]
  OBVIOUS
<1>2. t = <<>> <=> Len(t) = 0
  BY <1>1, EmptyLen, Zenon
<1> HIDE DEF t
<1>3. /\ s[1].seq = from /\ from + Counts(s[1]) <= to
      /\ "RST" \notin s[1].flags
  BY <1>1 DEF Chain
<1>4. t = <<>> => from + Counts(s[1]) = to
  <2>1. t = <<>> => Len(s) = 1
    BY <1>1, <1>2
  <2>2. s[1].seq = from /\ s[Len(s)].seq + Counts(s[Len(s)]) = to
    BY Zenon DEF Chain
  <2> QED
    BY <2>1, <2>2, Zenon
<1>5. t # <<>> => /\ t[1].seq = from + Counts(s[1])
                  /\ t[Len(t)].seq + Counts(t[Len(t)]) = to
  BY <1>1, <1>2 DEF Chain
<1>6. \A i \in 1 .. Len(t) - 1 : t[i + 1].seq = t[i].seq + Counts(t[i])
  BY <1>1 DEF Chain
<1>7. ASSUME NEW i \in 1 .. Len(t)
      PROVE  t[i].seq + Counts(t[i]) <= to /\ "RST" \notin t[i].flags
  <2>1. i + 1 \in 1 .. Len(s) /\ t[i] = s[i + 1]
    BY <1>1
  <2> QED
    BY <2>1, Zenon DEF Chain
<1>8. Chain(t, from + Counts(s[1]), to)
  BY <1>4, <1>5, <1>6, <1>7, Zenon DEF Chain
<1> QED
  BY <1>1, <1>3, <1>8, Zenon DEF t

\* Appending in two steps.
LEMMA ConcatAssoc ==
  ASSUME NEW s \in Seq(OutPacket), NEW t \in Seq(OutPacket),
         NEW u \in Seq(OutPacket)
  PROVE  s \o (t \o u) = (s \o t) \o u /\ s \o <<>> = s
  OBVIOUS

----------------------------------------------------------------------------
(* What a step does to the agreement of the stream and its peer. *)

\* A place in the peer's stream has one sequence number.
LEMMA OffInjective ==
  ASSUME NEW a \in SeqNo, NEW b \in SeqNo, Off(a) = Off(b)
  PROVE  a = b
  BY BaseType, TcbAssumption DEF Off, WrapSub, SeqNo

\* The place of a sequence number is a number below M.
LEMMA OffType ==
  ASSUME NEW a \in SeqNo
  PROVE  Off(a) \in SeqNo /\ Off(a) \in Nat
  BY BaseType, WrapSubType, TcbAssumption DEF Off, SeqNo

\* The last acknowledgment on its way is a number.
LEMMA LastAckNat ==
  ASSUME TaskTypeOK
  PROVE  LastAck \in Nat
<1>1. \A r \in InPacket : r.ack \in Nat
  BY TcbAssumption DEF InPacket, SeqNo
<1>2. last_ack \in Nat
  BY TcbAssumption DEF TaskTypeOK, TcbTypeOK, SeqNo
<1>3. stream_receiver # <<>> => stream_receiver[Len(stream_receiver)] \in InPacket
  BY DEF TaskTypeOK, StreamTypeOK
<1> QED
  BY <1>1, <1>2, <1>3, Zenon DEF LastAck

\* Where the next packet starts is within what the peer may send.
LEMMA NextOffBound ==
  ASSUME TaskTypeOK, Agreed, stream_receiver # <<>> \/ session
  PROVE  NextOff <= PeerBytes + 1 /\ NextOff \in Nat
<1>1. CASE stream_receiver = <<>>
  <2>1. peer.sent \in Nat
    BY TaskAssumption DEF TaskTypeOK, PeerType
  <2> QED
    BY <1>1, <2>1 DEF Agreed, PeerKnows, NextOff, PeerOff
<1>2. CASE stream_receiver # <<>>
  <2>1. stream_receiver[1] \in InPacket /\ 1 \in 1 .. Len(stream_receiver)
    BY <1>2 DEF TaskTypeOK, StreamTypeOK
  <2>2. PICK p \in InPacket : p = stream_receiver[1] /\ Kind(p)
    BY <2>1, Zenon DEF Agreed, Queued, PeerQueue
  <2>3. p.seq \in SeqNo /\ p.len \in Nat
    BY TcbAssumption DEF InPacket
  <2>4. Off(p.seq) \in Nat /\ Counts(p) \in Nat
    BY <2>3, OffType, CountsRange, Zenon
  <2>5. Off(p.seq) + Counts(p) <= PeerBytes + 1
    BY <2>2, Zenon DEF Kind
  <2>6. NextOff = Off(p.seq)
    BY <1>2, <2>2, Zenon DEF NextOff
  <2> QED
    BY <2>4, <2>5, <2>6, TaskAssumption
<1> QED
  BY <1>1, <1>2, Zenon

\* Neither the packets on their way nor what is read changes.
Frame ==
  /\ UNCHANGED <<state, seq, ack, last_ack, send_window, stream_receiver, peer>>
  /\ session' => session /\ Outgoing' = Outgoing
  /\ shutdown' = "None" =>
       /\ shutdown = "None"
       /\ \A s \in SeqNo : unordered_packets'[s].len = unordered_packets[s].len

\* Such a step keeps the agreement.
LEMMA FrameAgreed ==
  ASSUME TcbTypeOK, Agreed, Frame
  PROVE  Agreed'
<1>1. /\ LastAck' = LastAck /\ LastWin' = LastWin /\ LastOff' = LastOff
      /\ NextOff' = NextOff /\ PeerOff' = PeerOff
  BY Zenon DEF Frame, LastAck, LastWin, LastOff, NextOff, PeerOff
<1>2. Queued'
  BY <1>1, Zenon DEF Agreed, Queued, Frame
<1>3. Reading'
  <2>1. shutdown' = "None" => NextPayload'.len = NextPayload.len
    BY Zenon DEF Frame, NextPayload, TcbTypeOK
  <2> QED
    BY <1>1, <2>1, Zenon DEF Agreed, Reading, Frame
<1>4. OneBuffered'
  BY Zenon DEF Agreed, OneBuffered, Frame
<1>5. PeerKnows'
  BY <1>1, Zenon DEF Agreed, PeerKnows, Frame
<1> QED
  BY <1>2, <1>3, <1>4, <1>5, Zenon DEF Agreed

\* A packet is sent at seq, and seq moves past it: the SYN|ACK, a write, or
\* an acknowledgment, which takes no room.
Sends(p) ==
  /\ p \in OutPacket /\ p.seq = seq /\ "RST" \notin p.flags
  /\ seq' = seq + Counts(p)
  /\ session => Outgoing' = Outgoing \o <<p>>

\* The packets on their way stay end to end.
LEMMA SendsAgreed ==
  ASSUME TaskTypeOK, Agreed, NEW p, Sends(p),
         UNCHANGED <<ack, last_ack, send_window, unordered_packets,
                     stream_receiver, peer, session, shutdown>>,
         state' = "Established" => state = "Established",
         state = "Established" => state' = "Established"
  PROVE  Agreed'
<1>1. /\ LastAck' = LastAck /\ LastWin' = LastWin /\ LastOff' = LastOff
      /\ NextOff' = NextOff /\ PeerOff' = PeerOff
  BY Zenon DEF LastAck, LastWin, LastOff, NextOff, PeerOff
<1>2. Counts(p) \in Nat /\ seq \in Nat
  BY CountsRange, StreamAssumption, TcbAssumption
     DEF Sends, OutPacket, TaskTypeOK, TcbTypeOK, SeqNo
<1>3. LastAck <= seq => LastAck <= seq'
  <2>1. LastAck \in Nat
    BY LastAckNat, Zenon
  <2> QED
    BY <1>2, <2>1 DEF Sends
<1>4. Queued'
  BY <1>1, <1>3, Zenon DEF Agreed, Queued
<1>5. Reading' /\ OneBuffered'
  BY <1>1, Zenon DEF Agreed, Reading, OneBuffered, NextPayload
<1>6. session => Chain(Outgoing', peer.next, seq')
  <2>1. Outgoing \in Seq(OutPacket)
    BY DEF Outgoing, TaskTypeOK, StreamTypeOK
  <2> QED
    BY <1>2, <2>1, ChainAppend, Zenon DEF Agreed, PeerKnows, Sends
<1>7. PeerKnows'
  BY <1>1, <1>6, Zenon DEF Agreed, PeerKnows
<1> QED
  BY <1>4, <1>5, <1>7, Zenon DEF Agreed

\* The payload at ack is handed to the reader: ack is now where the next
\* packet starts, and nothing is buffered.
LEMMA DeliversAgreed ==
  ASSUME TaskTypeOK, Agreed, CanDeliver,
         ack' = WrapAdd(ack, NextPayload.len),
         unordered_packets' = WithoutNextPayload,
         UNCHANGED <<state, seq, last_ack, send_window, stream_receiver, peer,
                     session, shutdown>>,
         session => \/ Outgoing' = Outgoing
                    \/ \E p : Sends(p)
  PROVE  Agreed'
<1>1. /\ LastAck' = LastAck /\ LastWin' = LastWin /\ LastOff' = LastOff
      /\ NextOff' = NextOff /\ PeerOff' = PeerOff
  BY Zenon DEF LastAck, LastWin, LastOff, NextOff, PeerOff
<1>2. Queued'
  BY <1>1, Zenon DEF Agreed, Queued
<1>3. session => Chain(Outgoing', peer.next, seq)
  <2>1. Outgoing \in Seq(OutPacket) /\ seq \in Nat
    BY TcbAssumption DEF Outgoing, TaskTypeOK, StreamTypeOK, TcbTypeOK, SeqNo
  <2>2. ASSUME session, NEW p, Sends(p)
        PROVE  Chain(Outgoing', peer.next, seq)
    <3>1. Chain(Outgoing \o <<p>>, peer.next, seq + Counts(p))
      BY <2>1, <2>2, ChainAppend, Zenon DEF Agreed, PeerKnows, Sends
    <3>2. Outgoing' = Outgoing \o <<p>> /\ seq + Counts(p) = seq
      BY <2>2, Zenon DEF Sends
    <3> QED
      BY <3>1, <3>2, Zenon
  <2> QED
    BY <2>2, Zenon DEF Agreed, PeerKnows
<1>4. PeerKnows'
  BY <1>1, <1>3, Zenon DEF Agreed, PeerKnows
<1>5. /\ NextPayload.len \in 1 .. MaxSegment /\ shutdown = "None"
      /\ ack \in SeqNo
  <2>1. NextPayload \in Payload
    BY BufferType, Zenon DEF TaskTypeOK
  <2>2. NextPayload.len \in 0 .. MaxSegment
    BY <2>1, Zenon DEF Payload
  <2> QED
    BY <2>2, TcbAssumption DEF CanDeliver, TaskTypeOK, TcbTypeOK
<1> DEFINE n == NextPayload.len
<1>6. n \in Nat /\ n > 0 /\ n < M
  BY <1>5, TcbAssumption
<1>7. ack' \in SeqNo /\ ack' # ack
  <2> HIDE DEF n
  <2>1. ack' = WrapAdd(ack, n)
    BY Zenon DEF n
  <2> QED
    BY <1>5, <1>6, <2>1, TcbAssumption DEF WrapAdd, SeqNo
<1>8. /\ \A s \in SeqNo : s # ack => unordered_packets'[s] = unordered_packets[s]
      /\ unordered_packets'[ack].len = 0
  BY <1>5, Zenon DEF WithoutNextPayload, NoPayload, TaskTypeOK, TcbTypeOK
<1>9. \A s \in SeqNo : unordered_packets'[s].len = 0
  BY <1>5, <1>8, Zenon DEF Agreed, OneBuffered
<1>10. OneBuffered'
  BY <1>9, Zenon DEF OneBuffered
<1>11. ASSUME stream_receiver # <<>> \/ session
       PROVE  Off(ack') = NextOff
  <2>1. Off(ack) + n = NextOff
    BY <1>5, <1>11, Zenon DEF Agreed, Reading
  <2>2. NextOff <= PeerBytes + 1
    BY <1>11, NextOffBound, Zenon
  <2>3. Off(ack) + n < M
    BY <1>5, <1>6, <2>1, <2>2, OffType, TaskAssumption, TcbAssumption
  <2>4. Off(WrapAdd(ack, n)) = Off(ack) + n
    <3> HIDE DEF n
    <3> QED
      BY <1>5, <1>6, <2>3, OffsetForward, BaseType, Zenon DEF Off
  <2> QED
    BY <2>1, <2>4, Zenon
<1>12. ASSUME stream_receiver # <<>> \/ session
       PROVE  Off(ack') <= NextOff /\ Off(ack') + NextPayload'.len = NextOff
  <2>1. NextPayload'.len = 0
    BY <1>7, <1>9, Zenon DEF NextPayload
  <2>2. Off(ack') \in Nat
    BY <1>7, OffType, Zenon
  <2> QED
    BY <1>11, <1>12, <2>1, <2>2
<1>13. Reading'
  BY <1>1, <1>12, Zenon DEF Reading
<1> QED
  BY <1>2, <1>4, <1>10, <1>13, Zenon DEF Agreed

\* The first packet of the queue is taken and believed: its acknowledgment
\* and its window are the last ones, and its payload is buffered at ack.
Takes ==
  /\ stream_receiver # <<>> /\ stream_receiver' = Tail(stream_receiver)
  /\ "FIN" \notin pkt.flags
  /\ last_ack' = pkt.ack /\ send_window' = pkt.win
  /\ state' = "Established"
  /\ UNCHANGED <<seq, ack, peer, session, shutdown>>
  /\ session => Outgoing' = Outgoing
  /\ shutdown = "None" =>
       /\ NextPayload.len = 0
       /\ \A s \in SeqNo : unordered_packets'[s].len =
                             IF s = ack THEN pkt.len ELSE unordered_packets[s].len

\* What the stream will know once the queue is empty does not change, and
\* the next packet starts where this one ends.
LEMMA TakesEnds ==
  ASSUME TaskTypeOK, Queued, Takes
  PROVE  /\ LastAck' = LastAck /\ LastWin' = LastWin /\ PeerOff' = PeerOff
         /\ stream_receiver' # <<>> => LastOff' = LastOff
         /\ stream_receiver' # <<>> \/ session =>
              NextOff' = Off(pkt.seq) + Counts(pkt)
         /\ NextOff = Off(pkt.seq)
<1> DEFINE q == stream_receiver
           t == Tail(stream_receiver)
<1>1. /\ q \in Seq(InPacket) /\ q # <<>> /\ pkt = q[1] /\ stream_receiver' = t
  BY DEF Takes, TaskTypeOK, StreamTypeOK, pkt
<1>2. /\ t # <<>> => Follows(q[1], t[1]) /\ t[Len(t)] = q[Len(q)]
      /\ t = <<>> => q[Len(q)] = q[1]
  BY <1>1, QueueTail, Zenon DEF Queued
<1>3. LastAck' = LastAck /\ LastWin' = LastWin
  BY <1>1, <1>2, Zenon DEF LastAck, LastWin, Takes
<1>4. PeerOff' = PeerOff
  BY Zenon DEF PeerOff, Takes
<1>5. t # <<>> => LastOff' = LastOff
  BY <1>1, <1>2, Zenon DEF LastOff
<1>6. NextOff = Off(pkt.seq)
  BY <1>1, Zenon DEF NextOff
<1>7. ASSUME t # <<>>
      PROVE  NextOff' = Off(pkt.seq) + Counts(pkt)
  BY <1>1, <1>2, <1>7, Zenon DEF NextOff, Follows
<1>8. ASSUME t = <<>>, session
      PROVE  NextOff' = Off(pkt.seq) + Counts(pkt)
  <2>1. LastOff = Off(pkt.seq) + Counts(pkt)
    BY <1>1, <1>2, <1>8, Zenon DEF LastOff
  <2>2. LastOff = PeerOff
    BY <1>1, <1>8, Zenon DEF Queued
  <2> QED
    BY <1>1, <1>4, <1>8, <2>1, <2>2, Zenon DEF NextOff
<1> QED
  BY <1>1, <1>3, <1>4, <1>5, <1>6, <1>7, <1>8, Zenon

\* Such a step keeps the agreement.
LEMMA TakesAgreed ==
  ASSUME TaskTypeOK, Agreed, Takes
  PROVE  Agreed'
<1> DEFINE q == stream_receiver
           t == Tail(stream_receiver)
<1>1. /\ q \in Seq(InPacket) /\ q # <<>> /\ pkt = q[1] /\ stream_receiver' = t
  BY DEF Takes, TaskTypeOK, StreamTypeOK, pkt
<1>2. /\ PeerQueue(t) /\ Kind(pkt)
      /\ t # <<>> => Follows(pkt, t[1])
  BY <1>1, QueueTail, Zenon DEF Agreed, Queued
<1>3. /\ LastAck' = LastAck /\ LastWin' = LastWin /\ PeerOff' = PeerOff
      /\ t # <<>> => LastOff' = LastOff
      /\ t # <<>> \/ session => NextOff' = Off(pkt.seq) + Counts(pkt)
      /\ NextOff = Off(pkt.seq)
  BY <1>1, TakesEnds, Zenon DEF Agreed
<1>4. Queued'
  <2>1. t # <<>> => /\ last_ack' <= t[1].ack
                    /\ Bare(t[1]) => \/ last_ack' # t[1].ack
                                     \/ send_window' # t[1].win
    BY <1>1, <1>2, Zenon DEF Follows, Takes
  <2> QED
    BY <1>1, <1>2, <1>3, <2>1, Zenon DEF Agreed, Queued, Takes
<1>5. pkt \in InPacket
  BY <1>1
<1>6. Counts(pkt) = pkt.len /\ pkt.len \in Nat
  <2>1. pkt.flags \cap {"SYN", "FIN"} = {}
    BY <1>2, TaskAssumption DEF Kind, Bare, Takes
  <2>2. pkt.len \in Nat
    BY <1>5, TcbAssumption DEF InPacket
  <2> QED
    BY <2>1, <2>2 DEF Counts
<1>7. ack \in SeqNo /\ Off(ack) \in Nat /\ Off(pkt.seq) \in Nat
  <2>1. ack \in SeqNo /\ pkt.seq \in SeqNo
    BY <1>5, Zenon DEF TaskTypeOK, TcbTypeOK, InPacket
  <2> QED
    BY <2>1, OffType, Zenon
<1>8. Reading'
  <2> SUFFICES ASSUME t # <<>> \/ session
               PROVE  /\ Off(ack) <= NextOff'
                      /\ shutdown = "None" => Off(ack) + NextPayload'.len = NextOff'
    BY <1>1, Zenon DEF Reading, Takes
  <2>1. NextOff' = NextOff + pkt.len
    BY <1>3, <1>6, Zenon
  <2>2. Off(ack) <= NextOff /\ (shutdown = "None" => Off(ack) + 0 = NextOff)
    BY <1>1, Zenon DEF Agreed, Reading, Takes
  <2>3. shutdown = "None" => NextPayload'.len = pkt.len
    BY <1>7, Zenon DEF NextPayload, Takes
  <2>4. NextOff \in Nat
    BY <1>3, <1>7, Zenon
  <2> QED
    BY <1>6, <1>7, <2>1, <2>2, <2>3, <2>4
<1>9. OneBuffered'
  BY Zenon DEF Agreed, OneBuffered, Takes
<1>10. PeerKnows'
  BY <1>3, Zenon DEF Agreed, PeerKnows, Takes
<1> QED
  BY <1>4, <1>8, <1>9, <1>10, Zenon DEF Agreed

\* Once the stack has forgotten the session nothing more arrives.
LEMMA ForgottenAgreed ==
  ASSUME Agreed, ~ session', session' => session,
         UNCHANGED <<state, seq, ack, last_ack, send_window, stream_receiver,
                     unordered_packets, shutdown>>
  PROVE  Agreed'
<1>1. LastAck' = LastAck
  BY Zenon DEF LastAck
<1>2. stream_receiver # <<>> => NextOff' = NextOff
  BY Zenon DEF NextOff
<1>3. Queued' /\ PeerKnows' /\ OneBuffered'
  BY <1>1, Zenon DEF Agreed, Queued, PeerKnows, OneBuffered
<1>4. Reading'
  BY <1>2, Zenon DEF Agreed, Reading, NextPayload
<1> QED
  BY <1>3, <1>4, Zenon DEF Agreed

\* The first packet of two queues is the first one of the first queue.
LEMMA ConcatTail ==
  ASSUME NEW s \in Seq(OutPacket), NEW t \in Seq(OutPacket), s # <<>>
  PROVE  /\ s \o t \in Seq(OutPacket) /\ s \o t # <<>>
         /\ Head(s \o t) = Head(s) /\ Tail(s \o t) = Tail(s) \o t
  OBVIOUS

\* The peer takes the packet it expects, and owes an acknowledgment if the
\* packet took up room.
LEMMA PeerTakesAgreed ==
  ASSUME TaskTypeOK, Agreed, session, PeerTakes
  PROVE  Agreed'
<1> DEFINE p == Head(pkt_receiver)
<1>1. /\ pkt_receiver \in Seq(OutPacket) /\ packet_to_send \in Seq(OutPacket)
      /\ pkt_receiver # <<>> /\ p \in OutPacket /\ seq \in Nat /\ seq < M
  <2>1. /\ pkt_receiver \in Seq(OutPacket) /\ pkt_receiver # <<>>
        /\ packet_to_send \in Seq(OutPacket) /\ seq \in SeqNo
    BY Zenon DEF PeerTakes, TaskTypeOK, StreamTypeOK, TcbTypeOK
  <2>2. p \in OutPacket
    BY <2>1
  <2>3. seq \in Nat /\ seq < M
    BY <2>1, TcbAssumption DEF SeqNo
  <2> QED
    BY <2>1, <2>2, <2>3
<1>2. /\ Outgoing \in Seq(OutPacket) /\ Outgoing # <<>> /\ Head(Outgoing) = p
      /\ Outgoing' = Tail(Outgoing)
  BY <1>1, ConcatTail, Zenon DEF Outgoing, PeerTakes, StreamRests
<1>3. /\ p.seq = peer.next /\ peer.next + Counts(p) <= seq
      /\ "RST" \notin p.flags
      /\ Chain(Outgoing', peer.next + Counts(p), seq)
  BY <1>1, <1>2, ChainTail, Zenon DEF Agreed, PeerKnows
<1>4. /\ p.len \in Nat /\ Counts(p) \in Nat /\ p.len <= Counts(p)
      /\ peer.next \in Nat /\ peer.held \in Nat
  <2>1. p.len \in Nat
    BY <1>1, StreamAssumption DEF OutPacket
  <2> QED
    BY <2>1, CountsRange, TcbAssumption DEF TaskTypeOK, PeerType, SeqNo
<1>5. peer' = [peer EXCEPT
                 !.next = IF p.seq = peer.next THEN WrapAdd(peer.next, Counts(p))
                          ELSE peer.next,
                 !.held = IF p.seq = peer.next THEN peer.held + p.len
                          ELSE peer.held,
                 !.closing = peer.closing \/ "FIN" \in p.flags,
                 !.reply = (peer.reply \/ Counts(p) > 0) /\ "RST" \notin p.flags]
  BY Zenon DEF PeerTakes
<1> HIDE DEF p
<1>6. WrapAdd(peer.next, Counts(p)) = peer.next + Counts(p)
  BY <1>1, <1>3, <1>4, TcbAssumption DEF WrapAdd
<1>7. /\ peer'.next = peer.next + Counts(p) /\ peer'.held = peer.held + p.len
      /\ peer'.sent = peer.sent /\ peer'.fin = peer.fin /\ peer'.up = peer.up
      /\ peer'.reply = (peer.reply \/ Counts(p) > 0)
  BY <1>3, <1>5, <1>6, Zenon DEF TaskTypeOK, PeerType
<1>8. UNCHANGED <<state, seq, ack, last_ack, send_window, stream_receiver,
                  unordered_packets, shutdown, session>>
  BY Zenon DEF PeerTakes, StreamRests, tcbVars
<1>9. /\ LastAck' = LastAck /\ LastWin' = LastWin /\ LastOff' = LastOff
      /\ NextOff' = NextOff /\ PeerOff' = PeerOff
  BY <1>7, <1>8, Zenon DEF LastAck, LastWin, LastOff, NextOff, PeerOff
<1>10. Queued' /\ Reading' /\ OneBuffered'
  BY <1>8, <1>9, Zenon
     DEF Agreed, Queued, Reading, OneBuffered, NextPayload
<1>11. LastAck \in Nat /\ LastAck <= peer.next
  BY LastAckNat, Zenon DEF Agreed, PeerKnows
<1>12. LastAck <= peer'.next
  BY <1>4, <1>7, <1>11
<1>13. IF peer'.reply
       THEN LastAck # peer'.next \/ (peer'.held = 0 /\ LastWin < MaxWindow)
       ELSE LastAck = peer'.next /\ LastWin = SatSub(MaxWindow, peer'.held)
  <2>1. CASE Counts(p) > 0
    <3>1. peer.next < peer.next + Counts(p)
      BY <1>4, <2>1
    <3>2. LastAck # peer.next + Counts(p)
      BY <1>4, <1>11, <3>1
    <3> QED
      BY <1>7, <2>1, <3>2, Zenon
  <2>2. CASE Counts(p) = 0
    <3>1. peer'.next = peer.next /\ peer'.held = peer.held
      BY <1>4, <1>7, <2>2
    <3>2. peer'.reply = peer.reply
      <4>1. ~ (Counts(p) > 0) /\ peer.reply \in BOOLEAN
        BY <2>2 DEF TaskTypeOK, PeerType
      <4> QED
        BY <1>7, <4>1, Zenon
    <3> QED
      BY <3>1, <3>2, Zenon DEF Agreed, PeerKnows
  <2> QED
    BY <1>4, <2>1, <2>2
<1>14. PeerKnows'
  BY <1>3, <1>7, <1>8, <1>9, <1>12, <1>13, Zenon DEF Agreed, PeerKnows
<1> QED
  BY <1>10, <1>14, Zenon DEF Agreed

\* The peer's application reads: the window that it owes is a new one.
LEMMA PeerReadsAgreed ==
  ASSUME TaskTypeOK, Agreed, session, PeerReads
  PROVE  Agreed'
<1>1. UNCHANGED <<state, seq, ack, last_ack, send_window, stream_receiver,
                  unordered_packets, shutdown, session, pkt_receiver,
                  packet_to_send>>
  BY Zenon DEF PeerReads, StreamRests, tcbVars
<1>2. /\ peer'.held = 0 /\ peer'.reply = TRUE /\ peer'.next = peer.next
      /\ peer'.sent = peer.sent /\ peer'.fin = peer.fin /\ peer'.up = peer.up
  BY Zenon DEF PeerReads, TaskTypeOK, PeerType
<1>3. /\ LastAck' = LastAck /\ LastWin' = LastWin /\ LastOff' = LastOff
      /\ NextOff' = NextOff /\ PeerOff' = PeerOff /\ Outgoing' = Outgoing
  BY <1>1, <1>2, Zenon
     DEF LastAck, LastWin, LastOff, NextOff, PeerOff, Outgoing
<1>4. Queued' /\ Reading' /\ OneBuffered'
  BY <1>1, <1>3, Zenon
     DEF Agreed, Queued, Reading, OneBuffered, NextPayload
<1>5. LastAck # peer.next \/ LastWin < MaxWindow
  <2>1. peer.held > 0 /\ peer.held \in Nat
    BY Zenon DEF PeerReads, TaskTypeOK, PeerType
  <2>2. MaxWindow > 0 /\ MaxWindow \in Nat
    BY TaskAssumption, TcbAssumption, StreamAssumption
  <2>3. SatSub(MaxWindow, peer.held) < MaxWindow
    BY <2>1, <2>2 DEF SatSub
  <2>4. ~ (peer.held = 0)
    BY <2>1
  <2> QED
    BY <2>3, <2>4, Zenon DEF Agreed, PeerKnows
<1>6. PeerKnows'
  BY <1>1, <1>2, <1>3, <1>5, Zenon DEF Agreed, PeerKnows
<1> QED
  BY <1>4, <1>6, Zenon DEF Agreed

\* The peer has acknowledged no more than was sent.
LEMMA ChainOrder ==
  ASSUME NEW s \in Seq(OutPacket), NEW from \in Nat, NEW to \in Nat,
         Chain(s, from, to)
  PROVE  from <= to
<1>1. CASE s = <<>>
  BY <1>1 DEF Chain
<1>2. CASE s # <<>>
  <2>1. from + Counts(Head(s)) <= to
    BY <1>2, ChainTail, Zenon
  <2>2. Head(s) \in OutPacket
    BY <1>2
  <2>3. Head(s).len \in Nat
    BY <2>2, StreamAssumption DEF OutPacket
  <2>4. Counts(Head(s)) \in Nat
    BY <2>3, CountsRange, Zenon
  <2> QED
    BY <2>1, <2>4
<1> QED
  BY <1>1, <1>2

\* A packet of the peer is queued that starts where the last one ended, says
\* all that the peer knows, and says something new if it is bare.
Arrives(p) ==
  /\ session /\ wrapper = "held"
  /\ Quiet /\ UNCHANGED pkt_receiver
  /\ stream_receiver' = Append(stream_receiver, p)
  /\ p \in InPacket /\ Kind(p)
  /\ p.ack = peer.next /\ p.win = SatSub(MaxWindow, peer.held)
  /\ Off(p.seq) = PeerOff /\ PeerOff' = PeerOff + Counts(p)
  /\ IF Bare(p) THEN peer.reply ELSE peer.up
  /\ peer'.next = peer.next /\ peer'.held = peer.held /\ ~ peer'.reply

\* The queue keeps its order.
LEMMA ArrivesQueued ==
  ASSUME TaskTypeOK, Agreed, NEW p, Arrives(p)
  PROVE  /\ Queued' /\ LastAck' = peer.next
         /\ LastWin' = p.win
         /\ stream_receiver' # <<>> /\ NextOff' = NextOff
<1> DEFINE q == stream_receiver
           t == Append(stream_receiver, p)
<1>1. /\ q \in Seq(InPacket) /\ PeerQueue(q) /\ p \in InPacket /\ Kind(p)
      /\ stream_receiver' = t /\ session
  BY Zenon DEF Arrives, Agreed, Queued, TaskTypeOK, StreamTypeOK
<1>2. UNCHANGED <<state, seq, last_ack, send_window, session>>
  BY Zenon DEF Arrives, Quiet, tcbVars
<1>3. LastAck <= p.ack /\ (Bare(p) => LastAck # p.ack \/ LastWin # p.win)
  <2>1. SatSub(MaxWindow, 0) = MaxWindow /\ ~ (MaxWindow < MaxWindow)
    BY TcbAssumption DEF SatSub
  <2> QED
    BY <2>1, Zenon DEF Arrives, Agreed, PeerKnows
<1>4. q # <<>> => Follows(q[Len(q)], p)
  <2>1. q # <<>> => LastOff = PeerOff
    BY <1>1, Zenon DEF Agreed, Queued
  <2> QED
    BY <1>3, <2>1, Zenon DEF Follows, LastAck, LastWin, LastOff, Arrives
<1>5. /\ PeerQueue(t) /\ t # <<>> /\ t[Len(t)] = p
      /\ t[1] = IF q = <<>> THEN p ELSE q[1]
  BY <1>1, <1>4, QueueAppend, Zenon
<1> HIDE DEF t
<1>6. /\ last_ack <= t[1].ack
      /\ Bare(t[1]) => last_ack # t[1].ack \/ send_window # t[1].win
      /\ state # "Established" => Bare(t[1])
  <2>1. CASE q = <<>>
    BY <1>3, <1>5, <2>1, Zenon
       DEF LastAck, LastWin, Arrives, Agreed, PeerKnows
  <2>2. CASE q # <<>>
    BY <1>5, <2>2, Zenon DEF Agreed, Queued
  <2> QED
    BY <2>1, <2>2, Zenon
<1>7. LastAck' = peer.next /\ LastWin' = p.win
  BY <1>1, <1>5, Zenon DEF LastAck, LastWin, Arrives
<1>8. LastOff' = PeerOff'
  BY <1>1, <1>5, Zenon DEF LastOff, Arrives
<1>9. NextOff' = NextOff
  BY <1>1, <1>5, Zenon DEF NextOff, Arrives
<1>10. peer.next <= seq
  <2>1. Outgoing \in Seq(OutPacket)
    BY DEF Outgoing, TaskTypeOK, StreamTypeOK
  <2>2. peer.next \in Nat /\ seq \in Nat
    BY TcbAssumption DEF TaskTypeOK, PeerType, TcbTypeOK, SeqNo
  <2> QED
    BY <1>1, <2>1, <2>2, ChainOrder, Zenon DEF Agreed, PeerKnows
<1>11. Queued'
  BY <1>1, <1>2, <1>5, <1>6, <1>7, <1>8, <1>10, Zenon DEF Queued
<1> QED
  BY <1>1, <1>5, <1>7, <1>9, <1>11, Zenon

\* Such an arrival keeps the agreement.
LEMMA ArrivesAgreed ==
  ASSUME TaskTypeOK, Agreed, NEW p, Arrives(p)
  PROVE  Agreed'
<1>1. /\ Queued' /\ LastAck' = peer.next
      /\ LastWin' = p.win
      /\ stream_receiver' # <<>> /\ NextOff' = NextOff
  BY ArrivesQueued, Zenon
<1>2. UNCHANGED <<state, seq, ack, unordered_packets, session, shutdown>>
  BY Zenon DEF Arrives, Quiet, tcbVars
<1>3. Reading' /\ OneBuffered'
  BY <1>1, <1>2, Zenon
     DEF Agreed, Reading, OneBuffered, NextPayload, Arrives
<1>4. Outgoing' = Outgoing
  BY Zenon DEF Arrives, Quiet, Outgoing
<1>5. PeerOff' <= PeerBytes + 1
  BY Zenon DEF Arrives, Kind
<1>6. peer.next <= peer.next
  BY TcbAssumption DEF TaskTypeOK, PeerType, SeqNo
<1>7. PeerKnows'
  BY <1>1, <1>2, <1>4, <1>5, <1>6, Zenon DEF Agreed, PeerKnows, Arrives
<1> QED
  BY <1>1, <1>3, <1>7, Zenon DEF Agreed

\* The place of the packet that the peer sends next.
LEMMA PeerPlace ==
  ASSUME NEW k \in Nat, k + 1 < M
  PROVE  Off(WrapAdd(IRS, 1 + k)) = k
<1>1. WrapAdd(IRS, 1 + k) = WrapAdd(Base, k)
  BY StreamAssumption, TcbAssumption DEF WrapAdd, Base, SeqNo
<1>2. k \in 0 .. M - 1
  BY TcbAssumption
<1> QED
  BY <1>1, <1>2, OffsetOfSeq, BaseType, Zenon DEF Off

\* The packet that the peer builds is at the end of what it has sent.
LEMMA PeerPacketPlace ==
  ASSUME TaskTypeOK, PeerOff <= PeerBytes + 1
  PROVE  Off(WrapAdd(IRS, 1 + peer.sent + IF peer.fin THEN 1 ELSE 0)) = PeerOff
<1>1. PeerOff \in Nat /\ peer.sent \in Nat
  <2>1. peer.sent \in Nat
    BY TaskAssumption DEF TaskTypeOK, PeerType
  <2> QED
    BY <2>1 DEF PeerOff
<1>2. PeerOff + 1 < M
  BY <1>1, TaskAssumption, TcbAssumption
<1>3. Off(WrapAdd(IRS, 1 + PeerOff)) = PeerOff
  BY <1>1, <1>2, PeerPlace, Zenon
<1>4. 1 + peer.sent + (IF peer.fin THEN 1 ELSE 0) = 1 + PeerOff
  BY <1>1 DEF PeerOff
<1> QED
  BY <1>3, <1>4, Zenon

\* The peer's acknowledgments, segments and FIN arrive while the stack knows
\* the session.
LEMMA PeerArrives ==
  ASSUME TaskTypeOK, Agreed, session, wrapper = "held",
         PeerAcks \/ PeerSends \/ PeerCloses
  PROVE  \E p : Arrives(p)
<1>1. PeerOff <= PeerBytes + 1
  BY Zenon DEF Agreed, PeerKnows
<1>P. Off(WrapAdd(IRS, 1 + peer.sent + IF peer.fin THEN 1 ELSE 0)) = PeerOff
  BY <1>1, PeerPacketPlace, Zenon
<1>2. Quiet
  BY ArriveQuiet, Zenon
<1>3. wrapper # "gone"
  BY Zenon
<1>4. PeerOff \in Nat /\ peer.sent \in Nat /\ PeerBytes \in Nat
  <2>1. peer.sent \in Nat
    BY TaskAssumption DEF TaskTypeOK, PeerType
  <2> QED
    BY <2>1, TaskAssumption DEF PeerOff
<1>5. CASE PeerAcks
  <2> DEFINE p == PeerPacket({"ACK"}, 0, 0)
  <2>1. p \in InPacket
    <3>1. {"ACK"} \in SUBSET Flag /\ 0 \in Nat /\ 0 \in 0 .. MaxSegment
      BY TcbAssumption DEF Flag
    <3> QED
      BY <3>1, PeerPacketType, Zenon
  <2>2. /\ Off(p.seq) = PeerOff /\ p.ack = peer.next
        /\ p.win = SatSub(MaxWindow, peer.held)
        /\ p.flags = {"ACK"} /\ p.len = 0
    BY <1>P, Zenon DEF PeerPacket
  <2>3. Arrive(p) /\ peer.reply /\ peer' = [peer EXCEPT !.reply = FALSE, !.up = TRUE]
    BY <1>5, Zenon DEF PeerAcks
  <2> HIDE DEF p
  <2>4. Bare(p) /\ Counts(p) = 0 /\ PeerOff + 0 = PeerOff
    BY <1>4, <2>2 DEF Bare, Counts
  <2>5. Kind(p)
    BY <1>1, <2>2, <2>4, Zenon DEF Kind
  <2>6. /\ peer'.next = peer.next /\ peer'.held = peer.held /\ ~ peer'.reply
        /\ peer'.sent = peer.sent /\ peer'.fin = peer.fin
    BY <2>3, Zenon DEF TaskTypeOK, PeerType
  <2>7. PeerOff' = PeerOff
    BY <2>6, Zenon DEF PeerOff
  <2>8. stream_receiver' = Append(stream_receiver, p) /\ UNCHANGED pkt_receiver
    BY <1>3, <2>3, Zenon DEF Arrive
  <2>9. PeerOff' = PeerOff + Counts(p)
    BY <2>4, <2>7, Zenon
  <2>10. IF Bare(p) THEN peer.reply ELSE peer.up
    BY <2>3, <2>4, Zenon
  <2>11. Arrives(p)
    BY <1>2, <2>1, <2>2, <2>5, <2>6, <2>8, <2>9, <2>10, Zenon DEF Arrives
  <2> QED
    BY <2>11, Zenon
<1>6. CASE PeerSends
  <2>1. PICK flags \in DataFlags, n \in 1 .. MaxSegment :
          /\ peer.up /\ ~ peer.fin
          /\ peer.sent + n <= PeerBytes
          /\ Arrive(PeerPacket(flags, peer.sent, n))
          /\ peer' = [peer EXCEPT !.sent = @ + n, !.reply = FALSE]
    BY <1>6, Zenon DEF PeerSends
  <2> DEFINE p == PeerPacket(flags, peer.sent, n)
  <2>2. p \in InPacket
    <3>1. flags \in SUBSET Flag /\ n \in 0 .. MaxSegment
      BY TaskAssumption, TcbAssumption DEF Flag
    <3> QED
      BY <1>4, <3>1, PeerPacketType, Zenon
  <2>3. /\ Off(p.seq) = PeerOff /\ p.ack = peer.next
        /\ p.win = SatSub(MaxWindow, peer.held)
        /\ p.flags = flags /\ p.len = n
    BY <1>P, Zenon DEF PeerPacket
  <2>4. Arrive(p)
    BY <2>1, Zenon
  <2> HIDE DEF p
  <2>5. n \in Nat /\ n > 0
    BY TcbAssumption
  <2>6. ~ Bare(p) /\ Counts(p) = n
    <3>1. p.flags \cap {"SYN", "FIN"} = {}
      BY <2>3, TaskAssumption
    <3> QED
      BY <2>3, <2>5, <3>1 DEF Bare, Counts
  <2>7. PeerOff = peer.sent /\ peer.sent + n <= PeerBytes + 1
    BY <1>4, <2>1, <2>5 DEF PeerOff
  <2>8. Kind(p)
    BY <2>3, <2>5, <2>6, <2>7, Zenon DEF Kind
  <2>9. /\ peer'.next = peer.next /\ peer'.held = peer.held /\ ~ peer'.reply
        /\ peer'.sent = peer.sent + n /\ peer'.fin = peer.fin
    BY <2>1, Zenon DEF TaskTypeOK, PeerType
  <2>10. PeerOff' = PeerOff + n
    BY <2>1, <2>5, <2>7, <2>9, <1>4 DEF PeerOff
  <2>11. stream_receiver' = Append(stream_receiver, p) /\ UNCHANGED pkt_receiver
    BY <1>3, <2>4, Zenon DEF Arrive
  <2>12. PeerOff' = PeerOff + Counts(p)
    BY <2>6, <2>10, Zenon
  <2>13. IF Bare(p) THEN peer.reply ELSE peer.up
    BY <2>1, <2>6, Zenon
  <2>14. Arrives(p)
    BY <1>2, <2>2, <2>3, <2>8, <2>9, <2>11, <2>12, <2>13, Zenon DEF Arrives
  <2> QED
    BY <2>14, Zenon
<1>7. CASE PeerCloses
  <2> DEFINE p == PeerPacket({"FIN", "ACK"}, 0, 0)
  <2>1. p \in InPacket
    <3>1. {"FIN", "ACK"} \in SUBSET Flag /\ 0 \in Nat /\ 0 \in 0 .. MaxSegment
      BY TcbAssumption DEF Flag
    <3> QED
      BY <3>1, PeerPacketType, Zenon
  <2>2. /\ Off(p.seq) = PeerOff /\ p.ack = peer.next
        /\ p.win = SatSub(MaxWindow, peer.held)
        /\ p.flags = {"FIN", "ACK"} /\ p.len = 0
    BY <1>P, Zenon DEF PeerPacket
  <2>3. /\ Arrive(p) /\ peer.up /\ ~ peer.fin
        /\ peer' = [peer EXCEPT !.fin = TRUE, !.reply = FALSE]
    BY <1>7, Zenon DEF PeerCloses
  <2> HIDE DEF p
  <2>4. ~ Bare(p) /\ Counts(p) = 1
    BY <2>2 DEF Bare, Counts
  <2>5. PeerOff = peer.sent /\ peer.sent + 1 <= PeerBytes + 1
    BY <2>3, TaskAssumption DEF PeerOff, TaskTypeOK, PeerType
  <2>6. Kind(p)
    BY <2>2, <2>4, <2>5, Zenon DEF Kind
  <2>7. /\ peer'.next = peer.next /\ peer'.held = peer.held /\ ~ peer'.reply
        /\ peer'.sent = peer.sent /\ peer'.fin = TRUE
    BY <2>3, Zenon DEF TaskTypeOK, PeerType
  <2>8. PeerOff' = PeerOff + 1
    BY <2>5, <2>7, Zenon DEF PeerOff
  <2>9. stream_receiver' = Append(stream_receiver, p) /\ UNCHANGED pkt_receiver
    BY <1>3, <2>3, Zenon DEF Arrive
  <2>10. PeerOff' = PeerOff + Counts(p)
    BY <2>4, <2>8, Zenon
  <2>11. IF Bare(p) THEN peer.reply ELSE peer.up
    BY <2>3, <2>4, Zenon
  <2>12. Arrives(p)
    BY <1>2, <2>1, <2>2, <2>6, <2>7, <2>9, <2>10, <2>11, Zenon DEF Arrives
  <2> QED
    BY <2>12, Zenon
<1> QED
  BY <1>5, <1>6, <1>7

\* So does every step of the peer.
LEMMA PeerAgreed ==
  ASSUME TaskTypeOK, Agreed, wrapper = "held", Peer
  PROVE  Agreed'
<1>1. CASE session
  <2>1. CASE PeerTakes
    BY <1>1, <2>1, PeerTakesAgreed, Zenon
  <2>2. CASE PeerReads
    BY <1>1, <2>2, PeerReadsAgreed, Zenon
  <2>3. CASE PeerAcks \/ PeerSends \/ PeerCloses
    BY <1>1, <2>3, PeerArrives, ArrivesAgreed, Zenon
  <2> QED
    BY <2>1, <2>2, <2>3, Zenon DEF Peer
<1>2. CASE ~ session
  <2>1. /\ UNCHANGED <<state, seq, ack, last_ack, send_window, stream_receiver,
                       unordered_packets, shutdown, session>>
    BY <1>2, Zenon
       DEF Peer, PeerTakes, PeerReads, PeerAcks, PeerSends, PeerCloses, Arrive,
           StreamRests, tcbVars
  <2> QED
    BY <1>2, <2>1, ForgottenAgreed, Zenon
<1> QED
  BY <1>1, <1>2

============================================================================
