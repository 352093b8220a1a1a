----------------------------- MODULE ByteStream -----------------------------
(***************************************************************************)
(* What a TCP connection promises the application that holds it, without   *)
(* segments, sequence numbers or a network: the peer's bytes come out in   *)
(* order, what is sent and not yet acknowledged is bounded, and after the  *)
(* end nothing happens any more.                                           *)
(***************************************************************************)
EXTENDS Naturals, Sequences

CONSTANTS
  Size,   \* number of bytes the peer may send
  Limit   \* most sequence numbers that may be out

VARIABLES
  received,     \* bytes the application has read, each named by its offset
  outstanding,  \* sequence numbers sent and not acknowledged
  ended         \* the connection is closed

vars == <<received, outstanding, ended>>

Init ==
  /\ received = <<>>
  /\ outstanding = 0
  /\ ended = FALSE

\* The first n bytes of the peer.
Prefix(n) == [i \in 1 .. n |-> i - 1]

\* The application reads the bytes that come next.
Deliver ==
  /\ ~ ended
  /\ \E n \in 1 .. Size :
       /\ n > Len(received)
       /\ received' = Prefix(n)
  /\ UNCHANGED <<outstanding, ended>>

\* Something is sent, or acknowledged.
Send ==
  /\ ~ ended
  /\ outstanding' > outstanding
  /\ outstanding' \in 0 .. Limit
  /\ UNCHANGED <<received, ended>>

Acknowledge ==
  /\ ~ ended
  /\ outstanding' \in 0 .. Limit
  /\ outstanding' < outstanding
  /\ UNCHANGED <<received, ended>>

End ==
  /\ ~ ended
  /\ ended' = TRUE
  /\ UNCHANGED <<received, outstanding>>

Next == Deliver \/ Send \/ Acknowledge \/ End

Spec == Init /\ [][Next]_vars

============================================================================
