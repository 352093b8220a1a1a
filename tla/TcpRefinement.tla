--------------------------- MODULE TcpRefinement ---------------------------
(***************************************************************************)
(* A TCP stream behind an unreliable network implements ByteStream.        *)
(***************************************************************************)
EXTENDS TcpInvariants

BS == INSTANCE ByteStream WITH
        Size <- PeerBytes,
        Limit <- MAX_UNACK + MSS,
        received <- delivered,
        outstanding <- Ahead(seq),
        ended <- state = "Closed"

\* Every step of the stream, of the stack's task and of the network is a
\* step of ByteStream or leaves it alone: poll_read, poll_write, the close
\* and the loss, repetition and reordering of packets are invisible there.
ImplementsByteStream == BS!Spec

============================================================================
