----------------------- MODULE UnknownTransportProofs -----------------------
(***************************************************************************)
(* Proofs about UnknownTransport for every header length, MTU and payload: *)
(* what the packets of one call of send carry.                             *)
(***************************************************************************)
EXTENDS UnknownTransport, SequenceTheorems, TLAPS

\* Cutting a payload in two and queueing the front, as create_rev_packet
\* does, keeps the bytes queued and the bytes left in their order.
LEMMA CutJoins ==
  ASSUME NEW c \in Seq(Nat), NEW p \in Seq(Nat), NEW k \in 0 .. Len(p)
  PROVE  /\ SubSeq(p, 1, k) \in Seq(Nat)
         /\ Len(SubSeq(p, 1, k)) = k
         /\ SubSeq(p, k + 1, Len(p)) \in Seq(Nat)
         /\ (c \o SubSeq(p, 1, k)) \o SubSeq(p, k + 1, Len(p)) = c \o p
<1> DEFINE f == SubSeq(p, 1, k)
<1> DEFINE r == SubSeq(p, k + 1, Len(p))
<1>1. f \in Seq(Nat) /\ Len(f) = k
  OBVIOUS
<1>2. r \in Seq(Nat)
  OBVIOUS
<1>3. f \o r = SubSeq(p, 1, Len(p))
  <2>1. /\ 1 \in 1 .. Len(p) + 1
        /\ k \in 1 - 1 .. Len(p)
        /\ Len(p) \in k .. Len(p)
    OBVIOUS
  <2> QED
    BY <2>1, ConcatAdjacentSubSeq, Zenon
<1>4. SubSeq(p, 1, Len(p)) = p
  BY SubSeqFull, Zenon
<1> HIDE DEF f, r
<1>5. (c \o f) \o r = c \o (f \o r)
  BY <1>1, <1>2, SMTT(20)
<1>6. (c \o f) \o r = c \o p
  BY <1>3, <1>4, <1>5, Zenon
<1> QED
  BY <1>1, <1>2, <1>6, Zenon DEF f, r

\* What comes before the rest of a sequence is the prefix of that length.
LEMMA FrontIsPrefix ==
  ASSUME NEW c \in Seq(Nat), NEW p \in Seq(Nat)
  PROVE  c = SubSeq(c \o p, 1, Len(c))
<1>1. CASE c = <<>>
  BY <1>1, SubSeqEmpty
<1>2. CASE c # <<>>
  <2>1. SubSeq(c \o p, 1, Len(c)) = SubSeq(c, 1, Len(c))
    BY <1>2, SubSeqOfConcat1
  <2> QED
    BY <2>1, SubSeqFull, Zenon
<1> QED
  BY <1>1, <1>2, Zenon

\* The room behind the header, and the cut create_rev_packet makes: never
\* more than there is room for, and everything if there is room for it.
LEMMA FittingFits ==
  ASSUME TypeOK
  PROVE  /\ LineBuffer \in Nat
         /\ Fitting \in 0 .. Len(payload)
         /\ Fitting <= LineBuffer
         /\ Fitting > 0 => HeaderLen + Fitting <= mtu
<1>1. HeaderLen \in Nat /\ mtu \in Nat /\ Len(payload) \in Nat
  BY UnknownAssumption DEF TypeOK, HeaderLen
<1>2. LineBuffer \in Nat /\ (LineBuffer > 0 => HeaderLen + LineBuffer = mtu)
  BY <1>1 DEF LineBuffer
<1> QED
  BY <1>1, <1>2 DEF Fitting

\* The type of the state, the bytes of the call in progress over IPv6, and
\* the properties.
IInv ==
  /\ TypeOK
  /\ family = "v6" /\ call = "looping" => carried = <<>> /\ payload = original
  /\ SplitExact
  /\ CarriedExactly
  /\ FitsMtu

\* No call has been made, so nothing has been cut or sent.
LEMMA IInvInit == Init => IInv
BY UnknownAssumption
   DEF Init, IInv, TypeOK, SplitExact, CarriedExactly, FitsMtu, Packet,
       NoPacket, Family

\* One turn of the loop of send, over IPv4 and over IPv6.
LEMMA SendTurnStep == IInv /\ SendTurn => IInv'
<1> SUFFICES ASSUME IInv, SendTurn
             PROVE  IInv'
  BY Zenon
<1> USE DEF IInv
<1>1. /\ LineBuffer \in Nat
      /\ Fitting \in 0 .. Len(payload)
      /\ Fitting <= LineBuffer
      /\ Fitting > 0 => HeaderLen + Fitting <= mtu
  BY FittingFits, Zenon
<1>2. /\ payload \in Seq(Nat) /\ carried \in Seq(Nat)
      /\ original \in Seq(Nat) /\ family \in Family
  BY Zenon DEF TypeOK
<1>3. /\ Front \in Seq(Nat) /\ Len(Front) = Fitting
      /\ Rest \in Seq(Nat)
      /\ (carried \o Front) \o Rest = carried \o payload
  BY <1>1, <1>2, CutJoins, Zenon DEF Front, Rest
<1>4. /\ last_packet'.payload = Front
      /\ last_packet' \in Packet
      /\ carried' = carried \o Front
      /\ payload' = IF family = "v4" THEN Rest ELSE <<>>
  <2>1. \/ /\ family = "v4" /\ payload' = Rest
           /\ last_packet' = [protocol |-> Protocol, payload |-> Front]
        \/ /\ family = "v6" /\ payload' = <<>>
           /\ last_packet' = [protocol |-> UDP, payload |-> Front]
    BY Zenon
       DEF SendTurn, CreateRevPacket, CreateRevPacketV4, CreateRevPacketV6
  <2>2. last_packet'.payload = Front /\ last_packet' \in Packet
    BY <1>3, <2>1 DEF Packet
  <2>3. carried' = carried \o last_packet'.payload
    BY Zenon DEF SendTurn
  <2> QED
    BY <2>1, <2>2, <2>3, Zenon
<1>5. UNCHANGED <<family, mtu, original, upstream_open>>
  BY Zenon DEF SendTurn
<1>6. LineBuffer' = LineBuffer /\ HeaderLen' = HeaderLen
  BY <1>5, Zenon DEF LineBuffer, HeaderLen
<1>7. call = "looping" /\ call' = IF payload' = <<>> THEN "ok" ELSE "looping"
  BY Zenon DEF SendTurn
<1>8. TypeOK'
  BY <1>2, <1>3, <1>4, <1>5, <1>7 DEF TypeOK
<1>9. FitsMtu'
  BY <1>1, <1>3, <1>4, <1>5, <1>6 DEF FitsMtu
<1>10. CASE family = "v4"
  <2>1. carried \o payload = original
    BY <1>7, <1>10, Zenon DEF SplitExact
  <2>2. carried' \o payload' = original
    BY <1>3, <1>4, <1>10, <2>1, Zenon
  <2>3. payload' = <<>> => carried' = original
    BY <1>8, <2>2 DEF TypeOK
  <2> QED
    BY <1>5, <1>6, <1>7, <1>8, <1>9, <1>10, <2>2, <2>3, Zenon
       DEF SplitExact, CarriedExactly
<1>11. CASE family = "v6"
  <2>1. carried = <<>> /\ payload = original
    BY <1>7, <1>11, Zenon
  <2>2. payload' = <<>> /\ call' = "ok"
    BY <1>4, <1>7, <1>11, Zenon
  <2>3. carried' = Front
    BY <1>3, <1>4, <2>1
  <2>4. Front = SubSeq(original, 1, IF Len(original) > LineBuffer
                                    THEN LineBuffer ELSE Len(original))
    BY <2>1, Zenon DEF Front, Fitting
  <2>5. CarriedExactly'
    BY <1>5, <1>6, <1>11, <2>3, <2>4, Zenon DEF CarriedExactly
  <2> QED
    BY <1>5, <1>7, <1>8, <1>9, <1>11, <2>2, <2>5, Zenon DEF SplitExact
<1> QED
  BY <1>2, <1>10, <1>11, Zenon DEF Family

\* A turn of send that finds the stack's task gone.
LEMMA SendFailsStep == IInv /\ SendFails => IInv'
<1> SUFFICES ASSUME IInv, SendFails
             PROVE  IInv'
  OBVIOUS
<1> USE DEF IInv
<1>1. Fitting \in 0 .. Len(payload)
  BY FittingFits, Zenon
<1>2. /\ payload \in Seq(Nat) /\ carried \in Seq(Nat)
      /\ original \in Seq(Nat) /\ family \in Family
  BY DEF TypeOK
<1>3. Rest \in Seq(Nat)
  BY <1>1, <1>2, CutJoins, Zenon DEF Rest
<1>4. /\ call = "looping" /\ call' = "error"
      /\ payload' = IF family = "v4" THEN Rest ELSE <<>>
      /\ UNCHANGED <<family, mtu, original, upstream_open, carried,
                     last_packet>>
  BY Zenon DEF SendFails
<1>5. TypeOK'
  BY <1>3, <1>4 DEF TypeOK
<1>6. FitsMtu'
  BY <1>4, Zenon DEF FitsMtu, HeaderLen
<1>7. carried \o payload = original
  BY <1>2, <1>4 DEF SplitExact, Family
<1>8. carried = SubSeq(original, 1, Len(carried))
  BY <1>2, <1>7, FrontIsPrefix, Zenon
<1> QED
  BY <1>4, <1>5, <1>6, <1>8, Zenon DEF SplitExact, CarriedExactly

\* Every step keeps the invariant.
LEMMA IInvStep == IInv /\ [Next]_vars => IInv'
<1> SUFFICES ASSUME IInv, [Next]_vars
             PROVE  IInv'
  BY Zenon
<1>1. ASSUME NEW n \in 0 .. MaxPayload, Call(n)
      PROVE  IInv'
  <2>1. /\ original' \in Seq(Nat) /\ payload' = original'
        /\ carried' = <<>> /\ call' = "looping"
    BY <1>1, UnknownAssumption DEF Call
  <2>2. UNCHANGED <<family, mtu, upstream_open, last_packet>>
    BY <1>1, Zenon DEF Call
  <2>3. TypeOK'
    BY <2>1, <2>2 DEF IInv, TypeOK
  <2>4. FitsMtu'
    BY <2>2, Zenon DEF IInv, FitsMtu, HeaderLen
  <2>5. carried' \o payload' = original'
    BY <2>1
  <2> QED
    BY <2>1, <2>2, <2>3, <2>4, <2>5, Zenon
       DEF IInv, SplitExact, CarriedExactly
<1>2. CASE SendTurn
  BY <1>2, SendTurnStep, Zenon
<1>3. CASE SendFails
  BY <1>3, SendFailsStep, Zenon
<1>4. CASE StackStops
  BY <1>4, Zenon
     DEF StackStops, IInv, TypeOK, SplitExact, CarriedExactly, FitsMtu,
         HeaderLen, LineBuffer
<1>5. CASE UNCHANGED vars
  BY <1>5 DEF vars, IInv, TypeOK, SplitExact, CarriedExactly, FitsMtu,
              HeaderLen, LineBuffer
<1> QED
  BY <1>1, <1>2, <1>3, <1>4, <1>5, Zenon DEF Next

\* The inductive invariant holds throughout.
LEMMA IInvHolds == Spec => []IInv
BY IInvInit, IInvStep, PTL DEF Spec

\* For every MTU and payload, send over IPv4 carries the payload exactly by
\* the time it succeeds, and over IPv6 what fits into one packet.
THEOREM SendCarries == Spec => []CarriedExactly
<1>1. IInv => CarriedExactly
  BY Zenon DEF IInv
<1> QED
  BY <1>1, IInvHolds, PTL

\* For every MTU and payload, no turn of send loses, repeats or reorders a
\* byte, and a call that fails has queued a prefix of its payload.
THEOREM SendSplitsExactly == Spec => []SplitExact
<1>1. IInv => SplitExact
  BY Zenon DEF IInv
<1> QED
  BY <1>1, IInvHolds, PTL

\* No packet with data that send queues is longer than the MTU, whatever the
\* MTU and the lengths of the headers.
THEOREM PacketsFit == Spec => []FitsMtu
<1>1. IInv => FitsMtu
  BY Zenon DEF IInv
<1> QED
  BY <1>1, IInvHolds, PTL

\* Where the MTU leaves no room behind an IPv4 header, no turn of send makes
\* progress, for every payload that is not empty.
THEOREM NoRoomNoProgress == Spec => SpinsUntilStackEnds
<1> DEFINE Stuck == call = "looping" /\ family = "v4" /\ LineBuffer = 0
                      /\ payload # <<>>
<1>1. ASSUME IInv, [Next]_vars
      PROVE  Stuck => call' # "ok" /\ payload' = payload
  <2> SUFFICES ASSUME Stuck
               PROVE  call' # "ok" /\ payload' = payload
    BY Zenon
  <2>1. payload \in Seq(Nat)
    BY <1>1, Zenon DEF IInv, TypeOK
  <2>2. Fitting = 0
    BY <2>1 DEF Fitting
  <2>3. Rest = payload
    BY <2>1, <2>2, SubSeqFull DEF Rest
  <2> QED
    BY <1>1, <2>1, <2>3, Zenon
       DEF Next, vars, Call, SendTurn, CreateRevPacket, CreateRevPacketV4,
           SendFails, StackStops
<1>2. ASSUME IInv, [Next]_vars
      PROVE  [Stuck => call' # "ok" /\ payload' = payload]_vars
  BY <1>1, <1>2, Zenon
<1> QED
  BY <1>2, IInvHolds, PTL DEF Spec, SpinsUntilStackEnds

=============================================================================
