-------------------------- MODULE UnknownTransport --------------------------
(***************************************************************************)
(* IpStackUnknownTransport (src/stream/unknown.rs): the reply path for a   *)
(* packet whose transport the stack does not know.  `send' cuts a payload  *)
(* into packets of at most the device's MTU and queues them for the        *)
(* stack's task, which may end between two of them.                        *)
(*                                                                         *)
(* A payload is the sequence of its bytes, each named by its position.     *)
(* Each turn of the loop of `send' is one action.                          *)
(***************************************************************************)
EXTENDS Naturals, Sequences

CONSTANTS
  HeaderV4,    \* length of an IPv4 header: 20 bytes in the code
  HeaderV6,    \* length of an IPv6 header: 40 bytes in the code
  Mtus,        \* MTUs a device may have
  MaxPayload,  \* longest payload the application sends
  Protocol,    \* the IP protocol of the packet that opened this transport
  UDP          \* the IP protocol number of UDP

ASSUME UnknownAssumption ==
  /\ HeaderV4 \in Nat
  /\ HeaderV6 \in Nat
  /\ Mtus \subseteq Nat
  /\ MaxPayload \in Nat

VARIABLES
  family,         \* family of the addresses
  mtu,
  call,           \* of send: "none", "looping", "ok" or "error"
  original,       \* the payload the application gave to send
  payload,        \* what send has not put into a packet yet
  upstream_open,  \* the stack's task still receives packets
  carried,        \* the bytes of this call's packets, in their order
  last_packet     \* the packet queued last

vars == <<family, mtu, call, original, payload, upstream_open, carried,
          last_packet>>

Family == {"v4", "v6"}
Packet == [protocol : {Protocol, UDP}, payload : Seq(Nat)]
NoPacket == [protocol |-> Protocol, payload |-> <<>>]

\* The bytes that fit behind the IP header (u16::saturating_sub).
HeaderLen == IF family = "v4" THEN HeaderV4 ELSE HeaderV6
LineBuffer == IF mtu >= HeaderLen THEN mtu - HeaderLen ELSE 0

\* Variants of the cut below: at least one byte, and one byte short.
Fitting_AtLeastOne ==
  IF Len(payload) > LineBuffer
  THEN IF LineBuffer = 0 THEN 1 ELSE LineBuffer
  ELSE Len(payload)
Fitting_OneShort ==
  IF Len(payload) > LineBuffer
  THEN IF LineBuffer = 0 THEN 0 ELSE LineBuffer - 1
  ELSE Len(payload)

\* The cut create_rev_packet makes: the first bytes and the others.
Fitting == IF Len(payload) > LineBuffer THEN LineBuffer ELSE Len(payload)
Front == SubSeq(payload, 1, Fitting)
Rest == SubSeq(payload, Fitting + 1, Len(payload))

\* Variant: the piece is taken but one byte too many is drained.
CreateRevPacketV4_Skips ==
  /\ payload' = SubSeq(payload, Fitting + 2, Len(payload))
  /\ last_packet' = [protocol |-> Protocol, payload |-> Front]

\* create_rev_packet, IPv4: drain what fits.
CreateRevPacketV4 ==
  /\ payload' = Rest
  /\ last_packet' = [protocol |-> Protocol, payload |-> Front]

\* Variant: what does not fit stays in the payload, as it does in IPv4.
CreateRevPacketV6_Keeps ==
  /\ payload' = Rest
  /\ last_packet' = [protocol |-> UDP, payload |-> Front]

\* create_rev_packet, IPv6: the payload is truncated to what fits before it
\* is taken, and the header names UDP whatever the protocol was.
CreateRevPacketV6 ==
  /\ payload' = <<>>
  /\ last_packet' = [protocol |-> UDP, payload |-> Front]

CreateRevPacket ==
  \/ family = "v4" /\ CreateRevPacketV4
  \/ family = "v6" /\ CreateRevPacketV6

Init ==
  /\ family \in Family
  /\ mtu \in Mtus
  /\ call = "none"
  /\ original = <<>>
  /\ payload = <<>>
  /\ upstream_open = TRUE
  /\ carried = <<>>
  /\ last_packet = NoPacket

\* The application calls send with a payload of n bytes.
Call(n) ==
  /\ call # "looping"
  /\ call' = "looping"
  /\ original' = [i \in 1 .. n |-> i]
  /\ payload' = original'
  /\ carried' = <<>>
  /\ UNCHANGED <<family, mtu, upstream_open, last_packet>>

\* One turn: a packet is built and queued; the loop ends with the payload.
SendTurn ==
  /\ call = "looping"
  /\ upstream_open
  /\ CreateRevPacket
  /\ carried' = carried \o last_packet'.payload
  /\ call' = IF payload' = <<>> THEN "ok" ELSE "looping"
  /\ UNCHANGED <<family, mtu, original, upstream_open>>

\* One turn after the stack's task has ended: "send error".
SendFails ==
  /\ call = "looping"
  /\ ~ upstream_open
  /\ call' = "error"
  /\ payload' = IF family = "v4" THEN Rest ELSE <<>>
  /\ UNCHANGED <<family, mtu, original, upstream_open, carried, last_packet>>

StackStops ==
  /\ upstream_open
  /\ upstream_open' = FALSE
  /\ UNCHANGED <<family, mtu, call, original, payload, carried, last_packet>>

Next ==
  \/ \E n \in 0 .. MaxPayload : Call(n)
  \/ SendTurn
  \/ SendFails
  \/ StackStops

\* `send' is a plain function: once called, it runs.
Spec == Init /\ [][Next]_vars
FairSpec == Spec /\ WF_vars(SendTurn \/ SendFails)

----------------------------------------------------------------------------
(* Properties. *)

TypeOK ==
  /\ family \in Family
  /\ mtu \in Mtus
  /\ call \in {"none", "looping", "ok", "error"}
  /\ original \in Seq(Nat)
  /\ payload \in Seq(Nat)
  /\ upstream_open \in BOOLEAN
  /\ carried \in Seq(Nat)
  /\ last_packet \in Packet

\* What the packets of a send carry between them, by the time it returns:
\* the whole payload over IPv4, and over IPv6 only what fits into one packet
\* although send reports success.
CarriedExactly ==
  call = "ok" =>
    carried = IF family = "v4" THEN original
              ELSE SubSeq(original, 1, IF Len(original) > LineBuffer
                                       THEN LineBuffer ELSE Len(original))

\* While send loops over IPv4, the bytes queued and the bytes left are the
\* payload: no turn loses, repeats or reorders a byte.  When it fails, what
\* was queued is a prefix of the payload.
SplitExact ==
  /\ family = "v4" /\ call = "looping" => carried \o payload = original
  /\ call = "error" => carried = SubSeq(original, 1, Len(carried))

\* A packet that carries data is never longer than the device's MTU.
FitsMtu ==
  last_packet.payload # <<>> => HeaderLen + Len(last_packet.payload) <= mtu

\* send returns, however the payload is cut, if a packet can carry a byte.
SendReturns ==
  (call = "looping" /\ (family = "v6" \/ LineBuffer > 0))
    ~> (call \in {"ok", "error"})

\* An IPv4 device whose MTU does not exceed the header leaves no room for a
\* byte: send queues empty packets without end, and only the end of the
\* stack's task makes it return.
SpinsUntilStackEnds ==
  [][call = "looping" /\ family = "v4" /\ LineBuffer = 0 /\ payload # <<>> =>
       call' # "ok" /\ payload' = payload]_vars

============================================================================
