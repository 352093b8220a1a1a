--------------------------- MODULE TcpInvariants ---------------------------
(***************************************************************************)
(* The inductive invariants behind the properties of TcpNetwork, one per   *)
(* concern, each checked by TLC before it is proved.                       *)
(***************************************************************************)
EXTENDS TcpNetwork

HandshakeStates == {"SynReceived(false)", "SynReceived(true)"}

\* Before the handshake completes nothing is in flight ...
HandshakeInv ==
  /\ state = "SynReceived(false)" => seq = ISS /\ last_ack = ISS
  /\ state = "SynReceived(true)" => seq = WrapAdd(ISS, 1) /\ last_ack = ISS
  /\ state \in HandshakeStates => inflight_packets = {}

\* ... and the only acknowledgment the peer can have sent is that of our SYN.
AckPossible(p) ==
  p.flags = {"ACK"} =>
    /\ state # "SynReceived(false)"
    /\ state = "SynReceived(true)" => p.ack = WrapAdd(ISS, 1)

HandshakeQueueInv ==
  \A i \in DOMAIN stream_receiver : AckPossible(stream_receiver[i])

\* The bytes out, by state: a write adds less than MSS + 1 beyond the limit,
\* and our own SYN or FIN one more.
UnackedInv ==
  /\ state = "SynReceived(false)" => Ahead(seq) = 0
  /\ state = "SynReceived(true)" => Ahead(seq) = 1
  /\ state \in {"Established", "FinWait1(true)"} =>
       Ahead(seq) < MAX_UNACK + MSS
  /\ UnackedBounded

SendInv ==
  /\ HandshakeInv
  /\ HandshakeQueueInv
  /\ UnackedInv
  /\ InflightTiles
  /\ FinAfterData
  /\ NoPanic

\* A payload, queued or buffered, is the piece of the peer's stream that its
\* sequence number says.
PieceAt(s, p) ==
  p.len > 0 => s = WrapAdd(Base, p.off) /\ p.off + p.len <= PeerBytes

\* The peer's FIN comes after its data, so that when the stream counts it no
\* payload is left that the shifted ack could match.
FinInv ==
  /\ \A i \in DOMAIN stream_receiver :
       stream_receiver[i].flags = {"FIN", "ACK"} => peer_fin
  /\ state = "FinWait1(true)" => peer_fin
  /\ state \in {"FinWait2(false)", "FinWait2(true)"} /\ shutdown = "None" =>
       peer_fin
  /\ peer_fin /\ shutdown = "None" => FinInOrder /\ peer_end <= Len(delivered)

ReceiveInv ==
  /\ \A i \in DOMAIN stream_receiver :
       PieceAt(stream_receiver[i].seq, stream_receiver[i])
  /\ \A s \in SeqNo : PieceAt(s, unordered_packets[s])
  /\ state \in HandshakeStates =>
       \A s \in SeqNo : unordered_packets[s].len = 0
  /\ FinInv
  /\ Len(delivered) <= PeerBytes
  /\ InOrder
  /\ AckExact

============================================================================
