-------------------------------- MODULE Tcb --------------------------------
(***************************************************************************)
(* The transmission control block of one TCP stream (src/stream/tcb.rs):   *)
(* sequence numbers, windows, the packets in flight towards the peer and   *)
(* the packets received ahead of the reader.                               *)
(*                                                                         *)
(* Sequence numbers are u32 in the code and live in 0..M-1 here, with the  *)
(* wrapping and saturating operations the code uses, and with the plain    *)
(* comparisons it uses in other places.  Payload bytes are abstracted to   *)
(* their position: a payload is the interval of `len' bytes that starts at *)
(* offset `off' of the peer's stream.                                      *)
(***************************************************************************)
EXTENDS Integers, FiniteSets

CONSTANTS
  M,                 \* number of sequence numbers: 2^32
  MAX_UNACK,         \* tcb.rs: limit on unacknowledged bytes
  READ_BUFFER_SIZE,  \* tcb.rs: bytes the receive window is computed from
  MaxWindow,         \* u16::MAX
  MaxSegment         \* longest payload a packet of the peer carries

ASSUME TcbAssumption ==
  /\ M \in Nat \ {0}
  /\ MAX_UNACK \in Nat \ {0}
  /\ READ_BUFFER_SIZE \in Nat
  /\ MaxWindow \in Nat
  /\ MaxSegment \in Nat \ {0}
  /\ MaxSegment < M

VARIABLES
  state,             \* TcpState
  seq,               \* next sequence number to send
  ack,               \* next sequence number expected from the peer
  last_ack,          \* highest acknowledgment accepted from the peer
  recv_window,       \* window advertised to the peer
  send_window,       \* window the peer advertised last
  avg_send_window,   \* running average of send_window, with its count
  inflight_packets,  \* sent and not yet acknowledged
  unordered_packets  \* received and not yet read, by sequence number

tcbVars == <<state, seq, ack, last_ack, recv_window, send_window,
             avg_send_window, inflight_packets, unordered_packets>>

SeqNo == 0 .. M - 1
Window == 0 .. MaxWindow

TcpState == {"SynReceived(false)", "SynReceived(true)", "Established",
             "FinWait1(false)", "FinWait1(true)",
             "FinWait2(false)", "FinWait2(true)", "Closed"}

\* InflightPacket: where the payload starts and how many bytes are left.
\* The Vec is a set: its order shows only between packets with the same
\* sequence number, see FirstInflightAt.
InflightPacket == [seq : SeqNo, len : Nat]

\* UnorderedPacket.  A stored payload is never empty (check_pkt_type asks
\* for payload before it says NewPacket), so len 0 stands for "no entry".
Payload == [off : Nat, len : 0 .. MaxSegment]
NoPayload == [off |-> 0, len |-> 0]

TcbTypeOK ==
  /\ state \in TcpState
  /\ seq \in SeqNo /\ ack \in SeqNo /\ last_ack \in SeqNo
  /\ recv_window \in 0 .. READ_BUFFER_SIZE
  /\ send_window \in Window
  /\ avg_send_window \in [avg : Nat, count : Nat \ {0}]
  /\ inflight_packets \subseteq InflightPacket
  /\ unordered_packets \in [SeqNo -> Payload]

----------------------------------------------------------------------------
(* u32 arithmetic, for operands in SeqNo. *)

\* Variant: saturating_add for wrapping_add.
WrapAdd_Saturating(a, b) == IF a + b >= M THEN M - 1 ELSE a + b

WrapAdd(a, b) == IF a + b >= M THEN a + b - M ELSE a + b
WrapSub(a, b) == IF a >= b THEN a - b ELSE a - b + M
SatSub(a, b) == IF a >= b THEN a - b ELSE 0

----------------------------------------------------------------------------
(* Tcb::new: the state of a connection whose SYN carried irs. *)
TcbInit(iss, irs) ==
  /\ state = "SynReceived(false)"
  /\ seq = iss
  /\ last_ack = iss
  /\ ack = WrapAdd(irs, 1)
  /\ recv_window = 0
  /\ send_window = MaxWindow
  /\ avg_send_window = [avg |-> 1, count |-> 1]
  /\ inflight_packets = {}
  /\ unordered_packets = [s \in SeqNo |-> NoPayload]

----------------------------------------------------------------------------
(* Packets received from the peer. *)

\* add_unordered_packet.  U is the map as the handler finds it.
AddUnorderedPacket(U, s, payload) ==
  IF s < ack THEN U ELSE [U EXCEPT ![s] = payload]

\* get_available_read_buffer_size: one pair per buffered byte.
BufferedBytes(U) ==
  Cardinality({b \in SeqNo \X (1 .. MaxSegment) : b[2] <= U[b[1]].len})

\* Variant: the subtraction does not saturate.
AvailableReadBufferSize_Plain == READ_BUFFER_SIZE - BufferedBytes(unordered_packets)

\* The subtraction saturates: 0 once more is buffered than fits.
AvailableReadBufferSize ==
  LET n == BufferedBytes(unordered_packets)
  IN  IF n \in 0 .. READ_BUFFER_SIZE THEN READ_BUFFER_SIZE - n ELSE 0

\* Variant: the lowest key of the map is taken, as pop_first would.
NextPayload_First ==
  LET keys == {s \in SeqNo : unordered_packets[s].len > 0}
  IN  IF keys = {} THEN NoPayload
      ELSE unordered_packets[CHOOSE s \in keys : \A t \in keys : s <= t]

\* get_unordered_packets removes the entry at ack and returns its payload.
NextPayload == unordered_packets[ack]
WithoutNextPayload == [unordered_packets EXCEPT ![ack] = NoPayload]

----------------------------------------------------------------------------
(* Packets sent to the peer and their acknowledgment. *)

\* add_inflight_packet, for the payload of n bytes just sent at s.
AddInflightPacket(s, n) ==
  /\ inflight_packets' = inflight_packets \cup {[seq |-> s, len |-> n]}
  /\ seq' = WrapAdd(seq, n)

\* The element that poll_flush's find meets first at sequence number s.  Two
\* packets share a sequence number only if the earlier one is empty (it did
\* not advance seq), so an empty packet at s comes first in the Vec.
InflightAt(s) == {p \in inflight_packets : p.seq = s}
FirstInflightAt(s) ==
  IF [seq |-> s, len |-> 0] \in inflight_packets
  THEN [seq |-> s, len |-> 0]
  ELSE CHOOSE p \in inflight_packets : p.seq = s

\* InflightPacket::contains.  Its plain u32 addition overflows (a panic in
\* a debug build) for a packet that ends at or beyond M.
Contains(p, s) == p.seq < s /\ s <= WrapAdd(p.seq, p.len)
ContainsOverflows(s) ==
  \E p \in inflight_packets : p.seq < s /\ p.seq + p.len >= M

\* Variant: the payload is drained but the packet keeps its old number.
CutAt_SameSeq(a) ==
  {p \in inflight_packets : ~ Contains(p, a)}
    \cup {[seq |-> p.seq, len |-> p.len - WrapSub(a, p.seq)] :
            p \in {q \in inflight_packets :
                     Contains(q, a) /\ WrapSub(a, q.seq) < q.len}}

\* change_last_ack: the packet the acknowledgment falls into (packets do not
\* overlap, so there is at most one) is cut down to its unacknowledged rest
\* ...
CutAt(a) ==
  {p \in inflight_packets : ~ Contains(p, a)}
    \cup {[seq |-> a, len |-> p.len - WrapSub(a, p.seq)] :
            p \in {q \in inflight_packets :
                     Contains(q, a) /\ WrapSub(a, q.seq) < q.len}}

\* ... and every packet the acknowledgment has passed is dropped.
RetainAfter(a) ==
  {p \in CutAt(a) : SatSub(WrapAdd(p.seq, p.len), a) > 0}

ChangeLastAck(a) ==
  /\ last_ack' = WrapAdd(last_ack, WrapSub(a, last_ack))
  /\ inflight_packets' =
       IF state = "Established" THEN RetainAfter(a) ELSE inflight_packets

\* Variant: off by one.
IsSendBufferFull_Strict == WrapSub(seq, last_ack) > MAX_UNACK

\* is_send_buffer_full
IsSendBufferFull == WrapSub(seq, last_ack) >= MAX_UNACK

\* change_send_window
ChangeSendWindow(w) ==
  /\ avg_send_window' =
       [avg |-> (avg_send_window.avg * avg_send_window.count + w)
                  \div (avg_send_window.count + 1),
        count |-> avg_send_window.count + 1]
  /\ send_window' = w

----------------------------------------------------------------------------
(* check_pkt_type, for a packet p of the peer. *)

\* Variant: without the saturating comparison.
InvalidAck_Wrapping(p) == WrapSub(seq, p.ack) > WrapSub(seq, last_ack)

InvalidAck(p) ==
  \/ WrapSub(seq, p.ack) > WrapSub(seq, last_ack)
  \/ p.ack # seq /\ SatSub(seq, p.ack) = 0

\* Variant: any acknowledgment that differs from the last one is new.
CheckPktType_AnyAck(p) ==
  CASE last_ack # p.ack -> IF p.len > 0 THEN "NewPacket" ELSE "Ack"
    [] p.len > 0 -> "NewPacket"
    [] OTHER -> "WindowUpdate"

CheckPktType(p) ==
  CASE InvalidAck(p) -> "Invalid"
    [] ~ InvalidAck(p) /\ last_ack = p.ack ->
         IF p.len > 0 THEN "NewPacket"
         ELSE IF send_window = p.win /\ seq # last_ack
              THEN "RetransmissionRequest"
         ELSE IF WrapSub(ack, 1) = p.seq THEN "KeepAlive"
         ELSE "WindowUpdate"
    [] ~ InvalidAck(p) /\ last_ack < p.ack ->
         IF p.len > 0 THEN "NewPacket" ELSE "Ack"
    [] OTHER -> "Invalid"

----------------------------------------------------------------------------
(* The packets in flight and the bytes that are not acknowledged. *)

\* How far a sequence number is ahead of the last acknowledgment.
Ahead(s) == WrapSub(s, last_ack)

\* While the connection is established the packets in flight cover exactly
\* the bytes from last_ack to seq, each byte once: an acknowledgment never
\* loses a byte that may have to be sent again (change_last_ack), and every
\* write is recorded (add_inflight_packet).
InflightTiles ==
  state = "Established" =>
    /\ \A p \in inflight_packets : Ahead(p.seq) + p.len <= Ahead(seq)
    /\ \A n \in 0 .. M - 1 :
         n < Ahead(seq) =>
           \E p \in inflight_packets :
             Ahead(p.seq) <= n /\ n < Ahead(p.seq) + p.len
    /\ \A p, q \in inflight_packets :
         p # q => \/ Ahead(p.seq) + p.len <= Ahead(q.seq)
                  \/ Ahead(q.seq) + q.len <= Ahead(p.seq)

============================================================================
