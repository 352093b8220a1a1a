----------------------------- MODULE TcpNetwork -----------------------------
(***************************************************************************)
(* A TCP stream and everything that can reach it: the application that     *)
(* holds it, the stack's task, and a peer behind a network that loses,     *)
(* repeats, delays and reorders packets.  The peer follows TCP: it         *)
(* acknowledges only what was sent, its segments are pieces of one stream  *)
(* of PeerBytes bytes, and its windows are taken from Windows.             *)
(*                                                                         *)
(* Two restrictions go beyond TCP.  The stream takes a FIN|ACK without     *)
(* looking at its sequence number, so a FIN that overtakes data cuts the   *)
(* stream short: the peer's FIN comes after all the data (FinInOrder), as  *)
(* on the local device the stack is written for.  It is let in once the    *)
(* data is read; one that waits in stream_receiver behind data not yet     *)
(* read is no different, since poll_read takes a packet only when there is *)
(* nothing to deliver.  And the peer sends less than one lap of sequence   *)
(* numbers: what a segment left in unordered_packets does to the bytes a   *)
(* lap later is out of reach.                                              *)
(***************************************************************************)
EXTENDS TcpStream

CONSTANTS
  PeerBytes,  \* bytes the peer may send
  Windows,    \* windows the peer advertises
  RxMax,      \* bound on the packets queued in stream_receiver
  MaxUpdates, \* bound on the window updates counted by avg_send_window
  MaxSent     \* bound on the sequence numbers used by the stream

ASSUME NetworkAssumption ==
  /\ PeerBytes \in Nat /\ PeerBytes + 2 < M
  /\ Windows \subseteq Window
  /\ RxMax \in Nat
  /\ MaxUpdates \in Nat
  /\ MaxSent \in Nat

VARIABLES
  peer_fin,  \* the peer has closed its side
  peer_end   \* no segment of the peer goes beyond this offset

netVars == <<peer_fin, peer_end>>
allVars == <<vars, netVars>>

\* What the peer can acknowledge: our SYN and what followed it.
AckNos == {a \in SeqNo : a # ISS /\ WrapSub(a, ISS) <= WrapSub(seq, ISS)}

InPkt(flags, s, a, w, off, n) ==
  [flags |-> flags, seq |-> s, ack |-> a, win |-> w, off |-> off, len |-> n]

\* Segments: any piece of the peer's stream, first or repeated.
DataPackets ==
  {p \in {InPkt(flags, WrapAdd(Base, off), a, w, off, n) :
            flags \in {{"ACK"}, {"PSH", "ACK"}}, off \in 0 .. PeerBytes,
            n \in 1 .. MaxSegment, a \in AckNos, w \in Windows} :
     p.off + p.len <= peer_end}

\* Acknowledgments, window updates and keep-alives (one number back).
AckPackets ==
  {InPkt({"ACK"}, WrapAdd(IRS, i), a, w, 0, 0) :
     i \in 0 .. peer_end + 1, a \in AckNos, w \in Windows}

\* Repeated SYNs, resets, a PSH without data and a FIN that carries PSH.
StrayPackets ==
  {InPkt({"SYN"}, IRS, 0, w, 0, 0) : w \in Windows}
    \cup {InPkt(flags, IRS, seq, w, 0, 0) :
            flags \in {{"RST"}, {"PSH", "ACK"}, {"FIN", "PSH", "ACK"}},
            w \in Windows}

FinPackets(end) ==
  {InPkt({"FIN", "ACK"}, WrapAdd(Base, end), a, w, 0, 0) :
     a \in AckNos, w \in Windows}

\* The payload of p, if any, ends within what the application has read.
Passed(p) == p.off + p.len <= Len(delivered)

FinInOrder ==
  /\ \A i \in DOMAIN stream_receiver : Passed(stream_receiver[i])
  /\ \A s \in SeqNo : Passed(unordered_packets[s])

----------------------------------------------------------------------------
(* process_device_read finds our session and queues the packet. *)
Arrive ==
  /\ session
  /\ wrapper # "gone"
  /\ Len(stream_receiver) < RxMax
  /\ avg_send_window.count + Len(stream_receiver) < MaxUpdates
  /\ sent' = <<>>
  /\ UNCHANGED <<tcbVars, shutdown, write_notify, packet_to_send, polling,
                 panicked, session, upstream_open, wrapper, delivered>>

ArrivePacket ==
  /\ Arrive
  /\ \E p \in DataPackets \cup AckPackets \cup StrayPackets :
       stream_receiver' = Append(stream_receiver, p)
  /\ UNCHANGED netVars

ArriveFin ==
  /\ Arrive
  /\ shutdown = "None" => FinInOrder
  /\ peer_fin' = TRUE
  /\ \E end \in 0 .. PeerBytes :
       /\ end = IF peer_fin THEN peer_end ELSE Len(delivered)
       /\ peer_end' = end
       /\ \E p \in FinPackets(end) :
            stream_receiver' = Append(stream_receiver, p)

\* The application writes while the bound on sequence numbers allows it.
Write ==
  \E n \in WriteLens :
    /\ WrapSub(seq, ISS) + n <= MaxSent
    /\ PollWrite(n)

\* Nothing is left to do once the inner stream is dropped.
Finished ==
  /\ wrapper = "gone" \/ panicked
  /\ UNCHANGED allVars

Init ==
  /\ StreamInit
  /\ peer_fin = FALSE
  /\ peer_end = PeerBytes

Next ==
  \/ (PollReadTurn \/ OwnerCall \/ Write \/ StackStep) /\ UNCHANGED netVars
  \/ ArrivePacket
  \/ ArriveFin
  \/ Finished

Spec == Init /\ [][Next]_allVars

----------------------------------------------------------------------------
(* Properties. *)

\* Every variable has its type.
TypeOK ==
  /\ TcbTypeOK
  /\ StreamTypeOK
  /\ peer_fin \in BOOLEAN
  /\ peer_end \in 0 .. PeerBytes

\* The application reads the peer's bytes in order, without gap or
\* repetition, whatever the network did to the segments (poll_read's use of
\* get_unordered_packets and add_ack).
InOrder == \A i \in DOMAIN delivered : delivered[i] = i - 1

\* Bytes acknowledged beyond those delivered: the FIN counts once when it is
\* received and once more when ours is sent.
CloseOffsets(st) ==
  CASE st \in {"SynReceived(false)", "SynReceived(true)", "Established",
               "FinWait1(false)"} -> {0}
    [] st = "FinWait1(true)" -> {1}
    [] st \in {"FinWait2(false)", "FinWait2(true)"} -> {1, 2}
    [] OTHER -> {0, 1, 2}

\* ack, which every packet we send carries, is the sequence number after the
\* bytes handed to the application: nothing that is only buffered, was lost
\* or was dropped is acknowledged.  Only a close moves it further, by one
\* number or two, whatever is at those numbers: a FIN, or after a shutdown a
\* byte that was dropped.
AckExact ==
  upstream_open /\ ~ panicked =>
    WrapSub(ack, Base) - Len(delivered) \in CloseOffsets(state)

\* The stream does not panic, provided that no segment is longer than the
\* buffer the application reads into: poll_flush finds the packet it is
\* asked for, InflightPacket::contains does not overflow, and put_slice is
\* never given a payload for the single byte of poll_shutdown, because
\* nothing is delivered once a shutdown is pending.
NoPanic == MaxSegment <= AppBuf => ~ panicked

\* is_send_buffer_full is asked before the packet is built, so the bytes out
\* exceed MAX_UNACK by less than one packet (and our FIN).
UnackedBounded == WrapSub(seq, last_ack) <= MAX_UNACK + MSS

\* Our FIN of an active close leaves only when nothing is in flight, so a
\* FIN that is acknowledged closes a stream the peer has in full.
FinAfterData ==
  state = "FinWait1(false)" => seq = WrapAdd(last_ack, 1)

\* The acknowledged mark moves forward only, and never past seq, even when
\* acknowledgments arrive out of order.
LastAckMonotone ==
  [][last_ack' # last_ack => last_ack < last_ack' /\ last_ack' <= seq]_allVars

\* Once seq has wrapped past zero and last_ack has not, check_pkt_type's
\* plain comparisons refuse every packet: nothing is acknowledged any more,
\* and only a reset, a timeout or the end of a passive close moves the state.
WrapStalls ==
  [][seq < last_ack =>
       /\ last_ack' = last_ack
       /\ inflight_packets \subseteq inflight_packets'
       /\ state' # state =>
            \/ state' = "Closed"
            \/ state = "FinWait1(true)" /\ state' = "FinWait2(true)"]_allVars

\* A closed connection stays closed, and never delivers or writes again.
ClosedIsFinal ==
  [][state = "Closed" => UNCHANGED <<tcbVars, delivered>>]_allVars

----------------------------------------------------------------------------
(* What a comment in the code says and the code does not do. *)

\* "FinWait2(bool), // bool means waiting for ack": what ends the wait is an
\* acknowledgment of all we sent, our FIN included.
FinWait2WaitsForAck ==
  [][state = "FinWait2(true)" /\ state' = "FinWait2(false)" =>
       Head(stream_receiver).ack = seq]_allVars

============================================================================
