# ipstack in TLA+

A verification development for `ipstack`, a userspace TCP/IP stack that turns
the packets of a TUN device into asynchronous TCP and UDP streams.  It models
the code under `src/src/` (paths below are relative to it), checks the models
with TLC on small instances, and proves their safety properties with TLAPS for
every value of the constants.

## 1. The system

| part | state | operations that change it | talks to |
|---|---|---|---|
| `stream/tcb.rs` `Tcb` | `state`, `seq`, `ack`, `last_ack`, windows, `inflight_packets`, `unordered_packets`, timer | `add_inflight_packet`, `add_unordered_packet`, `get_unordered_packets`, `change_last_ack`, `change_send_window`, `change_recv_window`, `add_ack`, `add_seq_one`, `change_state`, `reset_timeout` | owned by the TCP stream |
| `stream/tcp.rs` `IpStackTcpStream` | the `Tcb`, `packet_to_send`, `shutdown`, `write_notify`, its end of two channels | `poll_read` (the whole protocol is one loop in it), `poll_write`, `poll_flush`, `poll_shutdown`, `Drop` | the peer, through the stack's task |
| `stream/tcp_wrapper.rs` | the boxed inner stream, a sender into its own queue | delegated calls; `Drop` moves the inner stream to a task that shuts it down within two seconds | application, inner stream |
| `lib.rs` `run` | the session table, the channel of outgoing packets | `process_device_read`, `create_stream`, `process_upstream_recv` (a packet with TTL 0 removes a session) | device, all streams |
| `stream/udp.rs` | first payload, timer, queue | `poll_read`, `poll_write` | stack's task |
| `stream/unknown.rs` | none after construction | `send` splits a payload into packets | stack's task |
| `packet.rs` | none | parsing, encoding, flags, tuples | - |
| `stream/mod.rs`, `error.rs` | none | address getters, error types | - |

What makes it hard: the application's calls, the stack's task and the task
that a dropped stream leaves behind interleave through unbounded channels;
the peer's packets are lost, repeated and reordered; sequence numbers are
`u32` and are compared partly with wrapping, partly with saturating and partly
with plain operators; the protocol only advances while somebody polls
`poll_read`; the session table is edited both by arriving packets and by
packets that streams send on their way out.

What makes it correct: a stream delivers the peer's bytes in order and
acknowledges only what it delivered; what is in flight is exactly what is not
acknowledged, so that a retransmission is always possible; a close waits for
the data before it and is final; no call panics on what the peer sends, given
buffers that take a segment; packets reach the stream
they belong to, and sessions end when their streams do.  The hazards, each at
its line, are listed in `PROJECT.json`.

## 2. How the modules fit together

| question | modules |
|---|---|
| one TCP stream against any peer and any network | `Tcb` <- `TcpStream` <- `TcpNetwork` <- `TcpInvariants` <- `MCTcpNetwork` |
| what such a stream promises | `ByteStream`, with the refinement mapping in `TcpRefinement` |
| the same stream in the tasks that drive it: wake-ups, timer, liveness | `TcpStream` <- `TcpTask` |
| the stack's task, the table, and successive streams of one tuple | `Sessions` <- `MCSessions` |
| a UDP stream | `UdpStream` |
| the reply path of an unknown transport | `UnknownTransport` |
| proofs | `TcpStreamProofs` (one stream, whoever drives it) <- `TcpNetworkProofs`; `TcpStreamProofs` <- `TcpTaskProofs` <- `TcpPeerProofs` <- `TcpWriterProofs`; `SessionsProofs`; `UdpStreamProofs`; `UnknownTransportProofs` |

(`A <- B`: B extends A.)  `TcpStream` sees the stack as an environment that
may queue a packet, drop the session or end; `Sessions` sees a stream as
something that is opened, held, dropped and gone.  The two meet in the
channel: the DROP packets that `TcpStream` sends (`ReadAborted`, `RecvRst`,
`DropInner`) are the requests `AskForget` and `DropInner` of `Sessions`.

## 3. Modules

`Tcb.tla` is `tcb.rs`.  Its variables are the fields of `Tcb` by name.
Sequence numbers are `0 .. M-1` with `WrapAdd`, `WrapSub` and `SatSub` for the
three kinds of arithmetic the code mixes, and plain `<` where the code uses
plain `<`.  Payloads are abstracted to their position in the peer's stream:
`[off, len]`.  `unordered_packets` is a total function with length 0 for "no
entry" (the code never stores an empty payload).  `inflight_packets` is a set;
the order of the `Vec` matters only between a packet and an empty one at the
same number, which `FirstInflightAt` resolves as `find` does.

`TcpStream.tla` is `tcp.rs` and `tcp_wrapper.rs`.  `poll_read` is a loop during
which packets keep arriving, so an action is one turn: it starts with the
flush of `packet_to_send` (lines 188-192) and ends with a `return` or a
`continue`.  The actions, in source order: `FlushFails`, `ReadClosed`,
`ReadAborted`, `TimeoutReached`, `SendSynAck`, `Deliver`, `SendPassiveFin`,
`SendActiveFin`, then the packet branches `Recv...`, `FinWait1...`,
`FinWait2Packet`, and `RecvNothing`.  A turn that goes past the delivery step
also removes the payload at `ack` when a shutdown is pending, as
`get_unordered_packets` does before the filter.  `polling` says whose call is
in the loop.  `poll_write`, `poll_shutdown` and the two drops are one action
each.  `poll_flush` called by the application changes nothing, since
`retransmission` is set and taken back within one turn; the call that
`poll_read` makes is part of `RecvRetransmissionRequest`.  The ghost variables
are `delivered` (every byte handed out) and `sent` (what a step put on the
channel).

`TcpNetwork.tla` closes the system: the peer and the network, the bounds, the
specification `Spec` and the properties.  A peer's packet is any segment of
its stream with any acknowledgment of what was sent, in any order and any
number of times.  Two restrictions.  The peer's FIN is accepted by the code
without looking at its sequence number, so the model lets it arrive only after
the data (`FinInOrder`), which is the order a local TUN device keeps; after a
FIN no later data is sent.  It is let in when the data in the queue and the
buffer has been read: a FIN that waits in the queue behind data is no
different, since `poll_read` takes a packet only when it has nothing to hand
over.  With a FIN that overtakes data the properties `InOrder` and `AckExact`
do not hold.  Once the application has asked for a shutdown the FIN may come at
any time.  And the peer sends less than one lap of sequence numbers
(`PeerBytes + 2 < M`): what a stale entry of `unordered_packets` does more than
2^32 bytes later is not covered.

`ByteStream.tla` is what a stream promises to its user: the peer's bytes are
handed over in order, a limited number of bytes is on its way out, and nothing
is handed over after the end.  `TcpRefinement.tla` maps `TcpNetwork` to it:
`received` is `delivered`, `outstanding` is the distance from `last_ack` to
`seq`, `ended` is the state `Closed`.

`TcpTask.tla` puts the actions of `TcpStream` into tasks.  A call that returned
`Pending` is in `pending` and is polled again only when its task was woken
(`due`), by the waker that the code left in the queue (`rx_waker`), the timer
(`timer_waker`), `write_notify` or `shutdown` (`shutdown_waker`).  A waker is
the name of its task, and a later poll overwrites the one before it, as in
tokio.  `Reader` and `Writer` are one task in the instance for
`copy_bidirectional`, which polls the stream's read before its write
(`examples/tun2.rs:127`), and two for a stream that was split.  The timer is
set by every turn that gets past line 218 and by every `poll_write` of an
established stream; it can run out whenever it is armed.  `Drop` and `GiveUp`
are the spawned task and its two seconds.  The peer is a plain TCP at the end
of a device that neither loses nor reorders: it takes what is next in
sequence, acknowledges, reads, sends and closes.  Its window is what is left
of `MaxWindow` by the bytes its application has not read, and never negative.
It takes what it is sent also beyond that window: the code holds each packet to
the window it knows and not their sum, and with the default MTU one packet may
be larger than `MAX_UNACK`.

`Sessions.tla` is `lib.rs`: `Read...` are the branches of
`process_device_read` and `create_stream`, `Upstream...` those of
`process_upstream_recv`, each with the turn of `run`'s loop around it.  A
packet is what `parse` tells apart (`Kind`) with its addresses; packets are
numbered by arrival and a stream has the number of the packet that opened it.
`reading` is the branch of `select!` that a failed read disables until the
other branch completes.  The life of a TCP stream runs through the accept
queue, the application, the task of its dropped wrapper (`orphan`), the moment
between its `Drop`, which sends, and the drop of its fields, which closes its
queue (`dying`), and `gone`; a UDP stream goes directly.  The channel holds
requests to forget a session and answers to refused packets; any other packet
is one step that writes it to the device (`UpstreamData`), since all it does
to the task is to make it go round its loop, or end (`UpstreamFails`).  Ghosts:
`log` (what each stream was given), `refused` and `written`, `clean` (streams
that opened with nothing older of their tuple about) and `cut` (whose request
removed each entry).

`UdpStream.tla` is `udp.rs`, one action per return of `poll_read`, and one for
`poll_write`.  A datagram is its number.  The stream keeps a sender to its own
queue, so the queue never ends.  A waiting read is polled again by its own
wakers or because its task was woken for something else (`WokenByOther`):
`copy_bidirectional` polls both directions at every wake-up
(`examples/tun2.rs:146`), and each such poll sets the timer again.  A buffer is
written as its copy loop and `write_all` do, with further calls for what
`poll_write` did not report, until it reports 0 or fails.

`UnknownTransport.tla` is `unknown.rs`: `send`'s loop, one turn per action, a
payload as the sequence of its bytes.  IPv6 differs from IPv4 in the code, and
in the model: it truncates before it cuts, and names UDP.

`TcpInvariants.tla` has the inductive invariants of the TCP stream;
`MCTcpNetwork.tla` and `MCSessions.tla` are modules of runs.  Definitions whose name has a suffix (`CutAt_SameSeq`) are
variants with a plausible slip, kept beside the definition they deviate from
to show that the properties tell the two apart; nothing else uses them.

## 4. Runs

| run | shows |
|---|---|
| `receive` | the receiving side and both closes: `TypeOK`, `InOrder`, `AckExact`, `NoPanic` (`put_slice`), `ShutdownReadyIffClosed`, `ClosedIsFinal` |
| `receive_wrap` | `AckExact` when the peer's numbers pass zero within its data |
| `send` | `InflightTiles`, `UnackedBounded`, `FinAfterData`, `LastAckMonotone` |
| `send_wrap` | `NoPanic` (`poll_flush`, `contains`) and `WrapStalls` when our numbers pass zero with data in flight; `ImplementsByteStream` |
| `unknown` | `CarriedExactly`, `SplitExact`, `FitsMtu`, and for a running `send` `SendReturns` and `SpinsUntilStackEnds` |
| `udp` | `DatagramsInOrder`, `ReaderWatched`, `WrittenOnce`, `TimedOutSticks`, and `WaitEnds` |
| `sessions` | `RoutedByTuple`, `HandledOnce`, `NewestOwnsEntry`, `CutOnlyByOlder`, `UdpEntryKept`, `DeafForGood` |
| `sessions_live` | `GoneIsForgotten`, `RefusalAnswered`, `ReadingResumes` |
| `tcp_task` | one task and a peer that answers: `PeerDataDelivered`, `WriteReturns`, `ShutdownCompletes`, without the timer's help |
| `tcp_split` | two tasks, a peer that may fall silent, timeouts, drops and the end of the stack: `StreamWatched`, `ShutdownNoticed`, `ShutdownReturns` |
| `tcp_writer` | two tasks, and a peer that sends both kinds of segments: `FreedWriterWoken` |
| `finwait2` | a violation: `FinWait2(true)` is left on an ACK that does not cover our FIN |

Bounds.  `M = 16` leaves room for all numbers in use to be distinct, and makes
the wrap reachable with `ISS = 12` or `IRS = 14`.  Three bytes of the peer in
segments of one or two are enough for overlap, repetition, a gap and a stale
entry, and with `READ_BUFFER_SIZE = 3` for a buffer that overflows.  Writes of
two bytes and acknowledgments of any number give partial acknowledgments and
two packets in flight; the windows 0 and 2 give empty packets and blocked
writers.  `RxMax = 1` bounds the queue: the network already delivers in any
order, so a longer queue only delays packets (the proofs hold for every
`RxMax`).  `MaxUpdates` and `MaxSent` bound the window average and the numbers
used.  Deadlock is checked; the only end is `Finished`, after the inner stream
is dropped.

`unknown`: headers of 2 and 4 bytes with MTUs from 0 to 6 put the MTU below,
at and above each header, and payloads of 0 to 4 bytes need up to four
packets.  `udp`: three datagrams, of a length that fits and one that does not,
a buffer of three bytes with MTUs that leave room for none, one and two of
them, three calls of `poll_write` and one wake-up with another reason.
`sessions`: three packets of any kind in both directions between two addresses
give two successive streams of a tuple with a stray packet before, between or after them, TCP and UDP side
by side, and requests of one while the next opens; three is what the shortest
instance of a cut entry needs.  `sessions_live` uses one direction.
`tcp_task`, `tcp_split`, `tcp_writer`: `M = 8`, two writes of two bytes (the
second is parked by `MAX_UNACK = 2` until the first is acknowledged) and, but
for `tcp_split`, one byte of the peer in either kind of segment; `MaxSent`
bounds the numbers used, so the application stops writing.  These five runs do
not check for deadlock: the task may have ended, or the peer and the
application may have nothing left to do.

Fairness.  `unknown`: `send` is a plain function, once called it runs.  `udp`:
time passes, and the executor polls a task that was woken; nothing makes
datagrams arrive or the application read again.  `sessions_live`: the task
serves its channel; `select!` picks a ready branch at random, so a ready
branch is not passed over for ever; and the task that shuts an abandoned TCP
stream down drops it, after two seconds at the latest.  The application need
not drop anything.  `tcp_task`: the executor polls what was woken, the stack's task takes what is
sent, the application goes on reading, and the peer answers, reads and closes
after we did; the timer is switched off (`Events = {}`), so that it cannot
hide a lost wake-up.  `tcp_split`: the executor, the stack's task, and a timer
that runs out unless it is set again; the peer owes nothing.  `tcp_writer` and
the runs of the TCP stream in `TcpNetwork` assume no fairness.

What the liveness properties had to say precisely, because the code is like
that:

- `ShutdownCompletes` excepts connections in which a FIN of the peer that also
  acknowledges ours is taken in `FinWait1(false)` (`JointFin`,
  `tcp.rs:374-379`): the stream then waits in `FinWait2(true)` for an ACK that
  need not come, until the timer or the dropper's two seconds.
- `ShutdownReturns` excepts a held stream whose stack has ended: the timer's
  RST cannot be sent (`tcp.rs:211-213`) and the reader that met it returns
  before `shutdown.ready()`, so a writer in another task is not woken.
- `FreedWriterWoken` excepts `PSH|ACK` (`tcp.rs:347-367`), whose branch may
  acknowledge data without waking `write_notify`: a writer in a task of its own
  then sleeps on.  `WriteReturns` covers both kinds of segments for one task,
  where the writer is polled after the reader in the same wake-up.
- `NoPanic` is an implication: `put_slice` panics on a segment longer than the
  buffer the application reads into (`tcp.rs:234`), which the code does not
  prevent.  A datagram longer than the buffer panics likewise (`udp.rs:141`);
  `DatagramsInOrder` holds up to that.
- `AckExact` holds as long as the stack's task is there and nothing has
  panicked; `CloseOffsets` lists by state how far a close has moved `ack` ahead
  of the delivered bytes, which in a passive close counts the FIN twice.
- `CutOnlyByOlder`: a new stream can lose its entry to a request that an older
  stream of its tuple, or a stray packet just before it, left in the channel.
- `UdpEntryKept`: the entry of a UDP stream is never removed.
- `TimedOutSticks`: a UDP stream that timed out reports it for ever, queued
  datagrams or not, unless it is written to.
- `CarriedExactly`: over IPv6 a `send` of more than one packet's worth loses
  the rest and reports success.
- `ReadingResumes`: after a failed `device.read` the next read waits for a
  packet of some stream, at the latest the one that the `Drop` of a TCP stream
  sends.  `DeafForGood` is the other side: if nothing is left that could send
  one, the stack runs and never reads again.
- `WaitEnds`: a waiting UDP read ends once writes and other wake-ups of its
  task stop, since each of them sets the timer again.
- `UnackedBounded`: `poll_write` asks `is_send_buffer_full` before it adds a
  packet, so the bound is `MAX_UNACK` plus a packet.

The violation is a disagreement between a comment and the code.  `tcb.rs:13`
says that the `bool` of `FinWait2` "means waiting for ack", but any acceptable
ACK ends the wait.

`WrapStalls` records what a reader of `check_pkt_type` should know: as soon as
`seq` has wrapped and `last_ack` has not, no acknowledgment is accepted.  It is
also the reason why `NoPanic` and `InflightTiles` survive the wrap: the unsafe
arithmetic in `contains` and in the `retain` of `change_last_ack` is never
reached with wrapped operands.

## 5. Proofs

Each theorem holds for every value of the constants under the named
assumptions of its modules.  `TcbAssumption`, `StreamAssumption` and
`NetworkAssumption` ask that the peer's bytes and two FINs, and
`MAX_UNACK + MSS`, are fewer than `M` numbers; `TaskAssumption` asks the same
of the peer's bytes, and that its window is not always 0; `SessionsAssumption`, `UdpAssumption` and
`UnknownAssumption` only give the constants their types.

| module | theorems | argument |
|---|---|---|
| `TcpStreamProofs` | lemmas only: what a turn of `poll_read` and each call does to the types and to `ControlInv`, wrapping arithmetic, the buffer, `AcceptedRange` | by cases over the turns |
| `TcpNetworkProofs` | `TypeCorrect` | the turns' types, and those of arriving packets |
| | `ControlCorrect`, `RepliesSent`, `ClosedStaysClosed` | `ControlInv` adds that `poll_shutdown` only runs with a shutdown asked for, and that `FinWait1(false)` implies one |
| | `InflightExact`, `NeverPanics`, `SendBounded`, `FinWaitsForData`, `LastAckForward`, `WrapIsFatal` | `SendInv`: see below |
| | `DeliveredInOrder`, `AckedIsDelivered`, `ByteStreamImplemented` | `ReceiveInv`, and the refinement step: see below |
| `TcpTaskProofs` | `TaskTypeCorrect`, `WatchCorrect`, `NoLostWakeUp`, `ShutdownWoken` | `WatchInv`: see below |
| `TcpPeerProofs` | lemmas only: what the peer's steps and each kind of the stream's do to `PeerInv` | by cases over where a packet is: on its way out, at the peer, on its way in, in the buffer |
| `TcpWriterProofs` | `PeersAgree`, `WriterCanBeWoken`, `FreedWriterIsWoken` | `PeerInv` and `WriterInv`: see below |
| `SessionsProofs` | `StreamsRouted`, `NewestInTable`, `EntryCutOnlyByOlder`, `ForgetRequestPending`, `UdpEntriesStay`, `EveryPacketHandledOnce`, `DeafStaysDeaf` | the order of the channel: see below |
| `UdpStreamProofs` | `ReadsInOrder`, `NoWakeupLost`, `BufferWrittenOnce`, `TimeoutSticks` | `IInv` is the three invariants with the types; the sequence facts (`QueueGrows`, `FirstTaken`, `NextTaken`) are lemmas |
| `UnknownTransportProofs` | `SendCarries`, `SendSplitsExactly`, `PacketsFit`, `NoRoomNoProgress` | `CutJoins`: the two sides of a cut are the payload, so `carried \o payload` is constant |

*Sending.*  The key lemma `AcceptedRange` says that `check_pkt_type` accepts a
packet only if `last_ack <= ack number <= seq` as plain numbers.  So all
packets in flight that an accepted acknowledgment meets lie in an unwrapped
range, where the plain and saturating operators agree with the wrapping ones
(`AckTiles`).  `SendInv` adds to the properties what holds before the
connection is established: nothing is in flight, and an ACK in the queue
acknowledges our SYN (`HandshakeQueueInv`), which makes the tiling hold at the
moment of establishment; and the bound on unacknowledged bytes by state, which
is what keeps a write from running into `last_ack`.

*Receiving.*  `ReceiveInv` says that each payload, queued or buffered, is the
piece of the peer's stream that its sequence number says; that `ack` is the
number after the delivered bytes, shifted by the FINs counted so far; and that
once the peer has closed every payload left has been read, so that none can
match a shifted `ack` (`FinInv`).  `DeliverNext` concludes that a delivery
happens only in `Established` and starts where the last one ended.

*Refinement.*  `RefinementStep` needs no more than the two sides above: a step
changes at most one of the three things `ByteStream` sees (`DeliveredStep`,
`ClosingStep`), `InOrder` determines the delivered bytes by their number, so
that one sequence is a prefix of the other (`InOrderIsPrefix`), and
`UnackedBounded` is the limit.

*Wakers.*  `StreamWatched` and `ShutdownNoticed` are the safety that the
liveness of `TcpTask` rests on: whenever nobody is in `poll_read`'s loop or
about to be, what is waited for has not happened and a waker of a task that
waits is in its place.  `WatchInv` adds who can be in the loop: its caller's
call is pending, a read is only polled while the wrapper is held, a shutdown
that waits has asked for it, and the waker in `shutdown` is the writer's while
the wrapper is held.  Each step either puts the call into `due` or runs in the
loop, and the loop is only left by a turn that returns, which takes the call
out of `pending`, or by `RecvNothing`, which has just seen an empty queue and
left both wakers.  Nothing in it depends on the peer, on the sizes or on the
number of tasks.

*The writer.*  `WriterInv` says that a writer that waits has its waker in
`write_notify`: `poll_write` leaves it and every branch that takes it out wakes
the writer.  `FreedWriterIsWoken` also needs that no branch but the one for
`PSH|ACK` removes the reason without waking.  Two more branches take an
acknowledgment or a window and leave `write_notify` alone, keep-alive and
retransmission request; that they are not reached takes both sides of the
connection.  `PeerInv`: what
is on its way to the peer is one chain of segments from the number it expects
to `seq`; what it sent is one chain up to what it has sent; its
acknowledgments grow, and a bare one never repeats the acknowledgment and the
window before it; and `ack` with the payload at it is the start of the next
packet.  So `check_pkt_type` finds no packet that looks like a keep-alive or a
repeated acknowledgment (`NextPacketType`).  All of this is claimed while the
stream is `Steady`: after a wrap of `seq` no acknowledgment is accepted any
more, and then none frees a writer either; after a shutdown the payload of a
`PSH|ACK` is dropped, which is why `FreedWriterWoken` is about connections
without one.  TLC has checked the three invariants on the instances of `tcp_task`,
`tcp_split` and `tcp_writer`.

*Sessions.*  `CutOnlyByOlder` says whose request removes an entry, and is not
inductive: nothing in it says what the requests in the channel may remove.
The invariant `IInv` adds that every request comes from a packet that arrived
and names its tuple (`SentByArrived`); that the entry of a stream that has
gone has a request in the channel (`DeadForgotten`); and, the heart of it,
that a request by something newer than the stream in the entry has another
request for the same tuple in front of it (`NewerBehind`), so that the first
one to be served is never newer than the entry it removes.
A refused packet makes such a newer request: it was refused because the stream
is gone or its entry is vacant, and in the first case `DeadForgotten` gives
the request in front.  `CleanStart` says that a stream which opened with
nothing older about meets no older request later.  `HandledOnce` needs only
that the logs hold packets that arrived (`LogsArrived`).  `DeafStaysDeaf` goes
through the actors: the device is not read, the channel is empty, and what is
left of the streams sends nothing.

Only model-checked: the liveness properties (`PeerDataDelivered`,
`WriteReturns`, `ShutdownCompletes`, `ShutdownReturns`, `GoneIsForgotten`,
`RefusalAnswered`, `ReadingResumes`, `WaitEnds`, `SendReturns`), which are out
of this prover's reach.  Their safety parts are proved where they have one:
`NoLostWakeUp`, `ShutdownWoken` and `FreedWriterIsWoken` for the first four,
`ForgetRequestPending` for `GoneIsForgotten`, `NoWakeupLost` for `WaitEnds`,
`NoRoomNoProgress` for `SendReturns`.

## 6. Not modelled

- The byte layout of packets (etherparse), checksums, the urgent and ECN
  flags, and encoding errors: `to_bytes` writes to a `Vec` and does not fail.
- Real time: a timer may run out whenever it is armed.  That the dropper's two
  seconds are shorter than the stream's timeout is not used.
- A FIN that overtakes data (see `FinInOrder` above), a peer that sends more
  than 2^32 bytes on one connection, and loss or reordering
  together with liveness: the stream has no retransmission timer, so what is
  lost is sent again only if the peer asks.
- In `TcpTask`, keep-alives, and data on the packet that completes the
  handshake, which the code drops (`tcp.rs:273-278`); a writer or reader that
  is left asleep by another task's waker is described in the hazards, not
  checked.
- Several streams in one model of the bytes they carry: `Sessions` has the
  lives of many streams, `TcpNetwork` and `UdpStream` the contents of one.
- An application that keeps the task's `JoinHandle` after dropping the
  `IpStack`, and with it the stream that could not be accepted.
- `stream/mod.rs` and `error.rs` have no state.  Of the examples only the way
  they drive a stream is modelled.
