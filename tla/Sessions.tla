------------------------------ MODULE Sessions ------------------------------
(***************************************************************************)
(* The stack's task (`run' of src/lib.rs) and its session table, with the  *)
(* streams it creates, the application that accepts and drops them, and    *)
(* the channel in which packets, and requests to forget a session, travel  *)
(* back from the streams to the task.                                      *)
(*                                                                         *)
(* A packet from the device is numbered by its arrival; a stream has the   *)
(* number of the packet that opened it, so of two streams the one with the *)
(* smaller number is the older.  What a stream does with its packets is    *)
(* the subject of TcpStream and UdpStream; here only its life matters:     *)
(*   "queued"  in the accept queue                                         *)
(*   "held"    by the application                                          *)
(*   "orphan"  TCP: handle dropped, a task of its own shuts it down        *)
(*   "dying"   TCP: its Drop has run, its receiver is about to go          *)
(*   "gone"    its receiver is dropped                                     *)
(***************************************************************************)
EXTENDS Naturals, Sequences

CONSTANTS
  Addr,        \* socket addresses
  Flows,       \* pairs of source and destination that send packets
  MaxPackets,  \* bound on the packets read from the device
  PacketInformation  \* packets have a prefix of 4 bytes on the device

ASSUME SessionsAssumption ==
  /\ Flows \subseteq Addr \X Addr
  /\ MaxPackets \in Nat
  /\ PacketInformation \in BOOLEAN

TTL == 64
DROP_TTL == 0
Id == 1 .. MaxPackets

\* What parse makes of the bytes: not IP at all, a transport the stack does
\* not know, UDP, or TCP with the flags that matter to create_stream.
Kind == {"garbage", "unknown", "udp", "syn", "rst", "segment"}
InPacket == [kind : Kind, src : Addr, dst : Addr]
OutPacket == [ttl : {TTL, DROP_TTL}, src : Addr, dst : Addr, tcp : BOOLEAN,
              by : Id]
Tuple == [src : Addr, dst : Addr, tcp : BOOLEAN]

VARIABLES
  running,       \* the stack's task runs
  reading,       \* select! still waits for the device
  ip_stack,      \* the application holds the IpStack
  arrived,       \* packets read from the device, in order
  sessions,      \* the table: the number of the stream, or 0 if vacant
  accept_queue,  \* numbers of the streams not accepted yet
  pkt_receiver,  \* packets from the streams to the task
  life,          \* of each stream; "none" if there is none of that number
  log,           \* packets given to each stream, its opening one included
  asked,         \* streams that asked to be forgotten without being dropped
  refused,       \* packets answered by create_stream instead of a stream
  written,       \* refused packets whose answer went to the device
  clean,         \* streams that started with nothing older about
  cut            \* who had the entry of each stream removed; 0 if nobody

taskVars == <<running, reading, arrived, sessions, pkt_receiver>>
streamVars == <<life, log, asked>>
ghostVars == <<refused, written, clean, cut>>
vars == <<taskVars, ip_stack, accept_queue, streamVars, ghostVars>>

IsTcp(p) == p.kind \in {"syn", "rst", "segment"}
HasSession(p) == IsTcp(p) \/ p.kind = "udp"

\* Variant: the tuple does not tell TCP from UDP.
NetworkTuple_NoProtocol(p) == [src |-> p.src, dst |-> p.dst, tcp |-> TRUE]

NetworkTuple(p) == [src |-> p.src, dst |-> p.dst, tcp |-> IsTcp(p)]

\* Variant: the addresses of a reply are not swapped back.
ReverseNetworkTuple_Forward(q) == [src |-> q.src, dst |-> q.dst, tcp |-> q.tcp]

\* Variant: the protocol is inverted.
ReverseNetworkTuple_Inverted(q) ==
  [src |-> q.dst, dst |-> q.src, tcp |-> ~ q.tcp]

ReverseNetworkTuple(q) == [src |-> q.dst, dst |-> q.src, tcp |-> q.tcp]

\* create_rev_packet of the stream opened, or the packet refused, as packet
\* p of number s.
RevPacket(p, s, ttl) ==
  [ttl |-> ttl, src |-> p.dst, dst |-> p.src, tcp |-> IsTcp(p), by |-> s]

TupleOf(s) == NetworkTuple(arrived[s])

\* What becomes of the stream of packet p when its holder drops it: a UDP
\* stream is gone, a TCP stream moves to a task that shuts it down.
Abandoned(p) == IF IsTcp(p) THEN "orphan" ELSE "gone"

\* The receiver of the stream's queue exists.
Alive(s) == life[s] \in {"queued", "held", "orphan", "dying"}

\* packet_sender.send
Send(packets) ==
  pkt_receiver' = IF running THEN pkt_receiver \o packets ELSE pkt_receiver

Init ==
  /\ running = TRUE
  /\ reading = TRUE
  /\ ip_stack = TRUE
  /\ arrived = <<>>
  /\ sessions = [t \in Tuple |-> 0]
  /\ accept_queue = <<>>
  /\ pkt_receiver = <<>>
  /\ life = [s \in Id |-> "none"]
  /\ log = [s \in Id |-> <<>>]
  /\ asked = {}
  /\ refused = {} /\ written = {} /\ clean = {}
  /\ cut = [s \in Id |-> 0]

----------------------------------------------------------------------------
(* process_device_read, in the loop of run. *)

NextId == Len(arrived) + 1

\* The task ends: the table and the receiver of the channel are dropped.
TaskEnds ==
  /\ running' = FALSE
  /\ reading' = FALSE
  /\ sessions' = [t \in Tuple |-> 0]
  /\ pkt_receiver' = <<>>

\* The turn of the loop is over: the next select! waits for both branches.
TaskGoesOn(table, packets) ==
  /\ running' = TRUE
  /\ reading' = TRUE
  /\ sessions' = table
  /\ pkt_receiver' = packets

\* device.read gives the packet p.
DeviceRead(p) ==
  /\ running
  /\ reading
  /\ Len(arrived) < MaxPackets
  /\ arrived' = Append(arrived, p)
  /\ UNCHANGED <<ip_stack, asked, written, cut>>

\* device.read fails: `Ok(n)' does not match, and select! goes on without
\* the device until the other branch completes.
ReadFails ==
  /\ running
  /\ reading
  /\ reading' = FALSE
  /\ UNCHANGED <<running, arrived, sessions, pkt_receiver, ip_stack,
                 accept_queue, streamVars, ghostVars>>

\* device.read gives less than the prefix: the slice panics.
ReadTooShort ==
  /\ running
  /\ reading
  /\ PacketInformation
  /\ TaskEnds
  /\ UNCHANGED <<arrived, ip_stack, accept_queue, streamVars, ghostVars>>

\* UnknownNetwork and UnknownTransport go to the application without a
\* session.  Without an IpStack to take them, the task ends.
ReadUnknown(p) ==
  /\ DeviceRead(p)
  /\ ~ HasSession(p)
  /\ IF ip_stack THEN TaskGoesOn(sessions, pkt_receiver) ELSE TaskEnds
  /\ accept_queue' =
       IF ip_stack THEN Append(accept_queue, NextId) ELSE accept_queue
  /\ UNCHANGED <<life, log, refused, clean>>

\* Occupied, and the stream still receives.
ReadQueued(p) ==
  /\ DeviceRead(p)
  /\ HasSession(p)
  /\ \E s \in Id :
       /\ sessions[NetworkTuple(p)] = s
       /\ Alive(s)
       /\ log' = [log EXCEPT ![s] = Append(@, NextId)]
  /\ TaskGoesOn(sessions, pkt_receiver)
  /\ UNCHANGED <<accept_queue, life, refused, clean>>

\* Vacant, or Occupied by a stream that has gone: the packet is given to
\* create_stream.
NoStream(t) == \A s \in Id : sessions[t] = s => ~ Alive(s)

\* Nothing older of the tuple t is about: no stream that is still to be
\* dropped and no request to forget a session.
NothingOlder(t) ==
  /\ \A s \in Id : Alive(s) => TupleOf(s) # t
  /\ \A i \in DOMAIN pkt_receiver :
       pkt_receiver[i].ttl = DROP_TTL =>
         ReverseNetworkTuple(pkt_receiver[i]) # t

\* Variant: the entry of a stream that has gone is kept.
Inserted_KeepsOccupied(t, s) ==
  IF sessions[t] = 0 THEN [sessions EXCEPT ![t] = s] ELSE sessions

Inserted(t, s) == [sessions EXCEPT ![t] = s]

\* Variant: the opening packet is not part of the stream.
Opened_Empty(s) == log

\* The opening packet is the stream's first: the payload of a datagram is
\* kept as first_payload, a SYN gives the sequence number.
Opened(s) == [log EXCEPT ![s] = <<s>>]

\* create_stream makes a stream of a SYN or a datagram; the table takes its
\* sender, and the accept queue the stream.
ReadOpens(p) ==
  LET t == NetworkTuple(p)
      s == NextId
  IN
  /\ DeviceRead(p)
  /\ p.kind \in {"syn", "udp"}
  /\ NoStream(t)
  /\ IF ip_stack THEN TaskGoesOn(Inserted(t, s), pkt_receiver) ELSE TaskEnds
  /\ accept_queue' = IF ip_stack THEN Append(accept_queue, s) ELSE accept_queue
  /\ life' = [life EXCEPT ![s] = IF ip_stack THEN "queued" ELSE Abandoned(p)]
  /\ log' = Opened(s)
  /\ clean' = IF NothingOlder(t) THEN clean \cup {s} ELSE clean
  /\ UNCHANGED refused

\* Variant: no reset.
Refusal_NoReset(p, s) == <<RevPacket(p, s, DROP_TTL)>>

\* What IpStackTcpStream::new sends for a packet that is not a SYN: RST|ACK
\* unless it is a reset, and the request of the half-built stream's Drop.
Refusal(p, s) ==
  (IF p.kind = "rst" THEN <<>> ELSE <<RevPacket(p, s, TTL)>>)
    \o <<RevPacket(p, s, DROP_TTL)>>

\* create_stream makes nothing of it; an entry that was there stays.
ReadRefused(p) ==
  LET s == NextId
  IN
  /\ DeviceRead(p)
  /\ p.kind \in {"rst", "segment"}
  /\ NoStream(NetworkTuple(p))
  /\ TaskGoesOn(sessions, pkt_receiver \o Refusal(p, s))
  /\ refused' = refused \cup {s}
  /\ UNCHANGED <<accept_queue, life, log, clean>>

----------------------------------------------------------------------------
(* process_upstream_recv, in the loop of run. *)

\* A packet with TTL 0 is a request to forget the session of its stream.
UpstreamDrop ==
  LET q == Head(pkt_receiver)
      t == ReverseNetworkTuple(q)
  IN
  /\ running
  /\ pkt_receiver # <<>>
  /\ q.ttl = DROP_TTL
  /\ TaskGoesOn([sessions EXCEPT ![t] = 0], Tail(pkt_receiver))
  /\ cut' = [s \in Id |-> IF sessions[t] = s THEN q.by ELSE cut[s]]
  /\ UNCHANGED <<arrived, ip_stack, accept_queue, streamVars, refused,
                 written, clean>>

\* Any other packet is written to the device.
UpstreamWrite ==
  LET q == Head(pkt_receiver)
  IN
  /\ running
  /\ pkt_receiver # <<>>
  /\ q.ttl # DROP_TTL
  /\ TaskGoesOn(sessions, Tail(pkt_receiver))
  /\ written' = written \cup ({q.by} \cap refused)
  /\ UNCHANGED <<arrived, ip_stack, accept_queue, streamVars, refused, clean,
                 cut>>

\* Something the application has accepted sends packets of its own: a stream
\* or an unknown transport.
Sending ==
  \E s \in DOMAIN arrived :
    \/ life[s] \in {"held", "orphan"}
    \/ /\ arrived[s].kind = "unknown"
       /\ \A i \in DOMAIN accept_queue : accept_queue[i] # s

\* Such a packet is written to the device.  It is not kept in pkt_receiver:
\* all it does to the task is to make it go round its loop.
UpstreamData ==
  /\ running
  /\ Sending
  /\ TaskGoesOn(sessions, pkt_receiver)
  /\ UNCHANGED <<arrived, ip_stack, accept_queue, streamVars, ghostVars>>

\* The device fails to write a packet: the task ends.
UpstreamFails ==
  /\ running
  /\ \/ Sending
     \/ pkt_receiver # <<>> /\ Head(pkt_receiver).ttl # DROP_TTL
  /\ TaskEnds
  /\ UNCHANGED <<arrived, ip_stack, accept_queue, streamVars, ghostVars>>

Upstream == UpstreamDrop \/ UpstreamWrite

----------------------------------------------------------------------------
(* The application and its streams. *)

Accept ==
  LET s == Head(accept_queue)
  IN
  /\ ip_stack
  /\ accept_queue # <<>>
  /\ accept_queue' = Tail(accept_queue)
  /\ life' = [life EXCEPT ![s] = IF @ = "queued" THEN "held" ELSE @]
  /\ UNCHANGED <<taskVars, ip_stack, log, asked, ghostVars>>

\* The IpStack is dropped, and the streams in its queue with it.  The task
\* goes on: its JoinHandle is dropped, not aborted.
DropIpStack ==
  /\ ip_stack
  /\ ip_stack' = FALSE
  /\ accept_queue' = <<>>
  /\ life' = [s \in Id |->
                IF life[s] = "queued" THEN Abandoned(arrived[s]) ELSE life[s]]
  /\ UNCHANGED <<taskVars, log, asked, ghostVars>>

\* The application drops a stream.
DropStream(s) ==
  /\ life[s] = "held"
  /\ life' = [life EXCEPT ![s] = Abandoned(arrived[s])]
  /\ UNCHANGED <<taskVars, ip_stack, accept_queue, log, asked, ghostVars>>

\* poll_read closes a connection, on a reset or at the end of a close, and
\* flushes the request to forget it: once, before the stream is dropped.
AskForget(s) ==
  /\ life[s] \in {"held", "orphan"}
  /\ TupleOf(s).tcp
  /\ s \notin asked
  /\ asked' = asked \cup {s}
  /\ Send(<<RevPacket(arrived[s], s, DROP_TTL)>>)
  /\ UNCHANGED <<running, reading, arrived, sessions, ip_stack, accept_queue, life, log,
                 ghostVars>>

\* Variant: the stream is dropped without a word.
DropInner_Silent(s) ==
  /\ life[s] = "orphan"
  /\ life' = [life EXCEPT ![s] = "dying"]
  /\ UNCHANGED <<taskVars, ip_stack, accept_queue, log, asked, ghostVars>>

\* Drop of the inner TCP stream: first its drop() sends the request ...
DropInner(s) ==
  /\ life[s] = "orphan"
  /\ life' = [life EXCEPT ![s] = "dying"]
  /\ Send(<<RevPacket(arrived[s], s, DROP_TTL)>>)
  /\ UNCHANGED <<running, reading, arrived, sessions, ip_stack, accept_queue, log, asked,
                 ghostVars>>

\* Variant: the request is sent again when the fields are dropped.
DropReceiver_Sends(s) ==
  /\ life[s] = "dying"
  /\ life' = [life EXCEPT ![s] = "gone"]
  /\ Send(<<RevPacket(arrived[s], s, DROP_TTL)>>)
  /\ UNCHANGED <<running, reading, arrived, sessions, ip_stack, accept_queue, log, asked,
                 ghostVars>>

\* ... then its fields go, the receiver among them.
DropReceiver(s) ==
  /\ life[s] = "dying"
  /\ life' = [life EXCEPT ![s] = "gone"]
  /\ UNCHANGED <<taskVars, ip_stack, accept_queue, log, asked, ghostVars>>

----------------------------------------------------------------------------
Packets == {p \in InPacket : <<p.src, p.dst>> \in Flows}

Read(p) == ReadUnknown(p) \/ ReadQueued(p) \/ ReadOpens(p) \/ ReadRefused(p)
Stream(s) == DropStream(s) \/ AskForget(s) \/ DropInner(s) \/ DropReceiver(s)

Next ==
  \/ \E p \in Packets : Read(p)
  \/ ReadFails
  \/ ReadTooShort
  \/ Upstream
  \/ UpstreamData
  \/ UpstreamFails
  \/ Accept
  \/ DropIpStack
  \/ \E s \in Id : Stream(s)

Spec == Init /\ [][Next]_vars

\* The task polls its channel for ever: select! picks a ready branch at
\* random.  The task that shuts an abandoned TCP stream down drops it after
\* two seconds at the latest.
FairSpec ==
  /\ Spec
  /\ WF_vars(Upstream)
  /\ \A s \in Id : WF_vars(DropInner(s))

----------------------------------------------------------------------------
(* Properties. *)

TypeOK ==
  /\ running \in BOOLEAN
  /\ reading \in BOOLEAN
  /\ ip_stack \in BOOLEAN
  /\ arrived \in Seq(InPacket) /\ Len(arrived) <= MaxPackets
  /\ sessions \in [Tuple -> 0 .. MaxPackets]
  /\ accept_queue \in Seq(Id)
  /\ pkt_receiver \in Seq(OutPacket)
  /\ life \in [Id -> {"none", "queued", "held", "orphan", "dying", "gone"}]
  /\ log \in [Id -> Seq(Id)]
  /\ asked \subseteq Id
  /\ refused \subseteq Id /\ written \subseteq Id /\ clean \subseteq Id
  /\ cut \in [Id -> 0 .. MaxPackets]

\* A stream is given only packets of its own addresses and its own protocol,
\* so that the `unreachable!()' for another protocol in the streams, and the
\* one of create_stream, are unreachable.
RoutedByTuple ==
  \A s \in Id : \A i \in DOMAIN log[s] :
    LET p == arrived[log[s][i]]
    IN HasSession(p) /\ [src |-> p.src, dst |-> p.dst, tcp |-> IsTcp(p)]
                          = [src |-> arrived[s].src, dst |-> arrived[s].dst,
                             tcp |-> IsTcp(arrived[s])]

\* Every packet that belongs to a session is dealt with once: it is given to
\* one stream, or refused.  In particular the packet that cannot be sent to
\* a stream that has gone is not lost but opens the next stream, or is
\* refused in its turn.  A stream gets its packets in the order of arrival.
HandledOnce ==
  /\ \A i \in DOMAIN arrived :
       HasSession(arrived[i]) =>
         IF i \in refused
         THEN \A s \in Id : \A k \in DOMAIN log[s] : log[s][k] # i
         ELSE \E s \in Id : \E k \in DOMAIN log[s] :
                /\ log[s][k] = i
                /\ \A r \in Id : \A j \in DOMAIN log[r] :
                     log[r][j] = i => r = s /\ j = k
  /\ \A s \in Id : \A j, k \in DOMAIN log[s] : j < k => log[s][j] < log[s][k]

\* The entry of a tuple is that of the newest stream of the tuple: an older
\* stream never takes, or takes back, the packets of a newer one.
NewestOwnsEntry ==
  \A t \in Tuple : \A s \in Id :
    sessions[t] = s =>
      /\ TupleOf(s) = t
      /\ \A r \in Id : life[r] # "none" /\ TupleOf(r) = t => r <= s

\* A stream that receives stays in the table while the task runs, unless a
\* request to forget its tuple was processed; the request is the stream's
\* own, or comes from something older of the same tuple, and the latter
\* never happens to a stream that started with nothing older about.
CutOnlyByOlder ==
  \A s \in Id :
    /\ running /\ Alive(s) /\ sessions[TupleOf(s)] # s => cut[s] # 0
    /\ cut[s] # 0 =>
         /\ cut[s] <= s
         /\ TupleOf(cut[s]) = TupleOf(s)
         /\ s \in clean => cut[s] = s

\* The entry of a UDP stream stays as long as the task runs, whatever TCP
\* streams of the same addresses do, and after the UDP stream is gone.
UdpEntryKept ==
  [][\A t \in Tuple : ~ t.tcp /\ sessions[t] # 0 /\ running' =>
       sessions'[t] # 0]_vars

\* The table forgets a TCP stream that the application has dropped.
GoneIsForgotten ==
  \A s \in Id :
    (life[s] \in {"orphan", "dying", "gone"} /\ TupleOf(s).tcp)
      ~> (\A t \in Tuple : sessions[t] # s)

\* A segment without a connection is answered by a reset.
RefusalAnswered ==
  \A i \in Id :
    (i \in refused /\ arrived[i].kind = "segment")
      ~> (i \in written \/ ~ running)

\* After a failed read the device is read again once a TCP stream goes: the
\* request its Drop sends makes the loop go round, and select! waits for both
\* branches again.
ReadingResumes ==
  (~ reading /\ \E s \in Id : life[s] = "orphan") ~> (reading \/ ~ running)

\* A read of the device has failed and nothing is left that could send: no
\* packet in the channel, no TCP stream before its Drop, no UDP stream in the
\* accept queue or with the application, and no unknown transport.
Deaf ==
  /\ running /\ ~ reading
  /\ pkt_receiver = <<>>
  /\ \A s \in Id : life[s] \in {"none", "dying", "gone"}
  /\ \A i \in DOMAIN arrived : arrived[i].kind # "unknown"

\* Such a stack never reads again, whatever the application does: `Ok(n)' in
\* select! gives the device up until a packet comes from a stream, and none
\* can be opened without reading.
DeafForGood == [][Deaf => Deaf']_vars

============================================================================
