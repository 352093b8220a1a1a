----------------------------- MODULE UdpStream -----------------------------
(***************************************************************************)
(* One UDP stream: IpStackUdpStream of src/stream/udp.rs, opened by a      *)
(* datagram from the device, with the task that reads it, the stack's task *)
(* that queues further datagrams, and the idle timer.                      *)
(*                                                                         *)
(* A reader whose poll_read returned Pending runs again after one of the   *)
(* wakers it left behind is woken, or when its task is woken for something *)
(* else: copy_bidirectional, which the examples use, polls both directions *)
(* at every wake-up.  The stream holds a sender into its own queue, so the *)
(* queue never ends: the arm of poll_read for that case is unreachable,    *)
(* and there is no action for it.                                          *)
(***************************************************************************)
EXTENDS Naturals, Sequences

CONSTANTS
  Overhead,      \* IP and UDP headers: 28 or 48 bytes in the code
  Mtus,          \* MTUs a device may have
  AppBuf,        \* size of the buffer the application reads into
  Lens,          \* payload lengths of the datagrams that arrive
  WriteLens,     \* sizes of the buffers the application writes
  MaxDatagrams,  \* bound on the datagrams that arrive
  MaxWrites,     \* bound on the calls of poll_write
  MaxWakes       \* bound on the wake-ups that have other reasons

ASSUME UdpAssumption ==
  /\ Overhead \in Nat
  /\ Mtus \subseteq Nat
  /\ AppBuf \in Nat
  /\ Lens \subseteq Nat /\ Lens # {}
  /\ WriteLens \subseteq Nat
  /\ MaxDatagrams \in Nat
  /\ MaxWrites \in Nat
  /\ MaxWakes \in Nat

VARIABLES
  mtu,
  first_payload,    \* Option: <<>> or the datagram that opened the stream
  stream_receiver,  \* datagrams queued by the stack's task
  timer,            \* timeout: "armed" or "elapsed"
  reader,           \* "running", "waiting" after Pending, or "woken"
  waker,            \* where the reader's waker is registered
  wakes,            \* wake-ups of the reader's task for other reasons
  upstream_open,    \* the stack's task still runs
  held,             \* the application has not dropped the stream
  panicked,         \* put_slice has panicked
  arrived,          \* lengths of all datagrams of this stream, by number
  read,             \* numbers of the datagrams handed to the application
  writes,           \* calls of poll_write
  handed,           \* bytes of all the buffers the application writes
  unwritten,        \* bytes of the last one still to be written
  carried           \* bytes the packets of poll_write carry

readVars == <<first_payload, stream_receiver, read, panicked>>
taskVars == <<reader, waker, wakes>>
writeVars == <<writes, handed, unwritten, carried>>
vars == <<mtu, readVars, timer, taskVars, upstream_open, held, arrived,
          writeVars>>

\* A datagram is its number; arrived[d] is its length.
Datagram == Nat \ {0}

\* IpStackUdpStream::new, for the datagram number 1.
Init ==
  /\ mtu \in Mtus
  /\ \E n \in Lens : arrived = <<n>>
  /\ first_payload = <<1>>
  /\ stream_receiver = <<>>
  /\ timer = "armed"
  /\ reader = "running"
  /\ waker = {}
  /\ wakes = 0
  /\ upstream_open = TRUE
  /\ held = TRUE
  /\ panicked = FALSE
  /\ read = <<>>
  /\ writes = 0 /\ handed = 0 /\ unwritten = 0 /\ carried = 0

----------------------------------------------------------------------------
(* The stack's task, the timer and the executor. *)

\* What waking the waker left at `source' does to the reader.
Wake(source) ==
  /\ waker' = waker \ {source}
  /\ reader' = IF source \in waker /\ reader = "waiting" THEN "woken" ELSE reader
  /\ wakes' = wakes

\* process_device_read finds the session and queues the datagram.
Arrive(n) ==
  /\ held /\ upstream_open
  /\ Len(arrived) < MaxDatagrams
  /\ arrived' = Append(arrived, n)
  /\ stream_receiver' = Append(stream_receiver, Len(arrived) + 1)
  /\ Wake("queue")
  /\ UNCHANGED <<mtu, first_payload, read, panicked, timer, upstream_open,
                 held, writeVars>>

\* The deadline passes.
TimerElapses ==
  /\ held
  /\ timer = "armed"
  /\ timer' = "elapsed"
  /\ Wake("timer")
  /\ UNCHANGED <<mtu, readVars, upstream_open, held, arrived, writeVars>>

\* The reader's task is woken for something that is not this stream's.
WokenByOther ==
  /\ held
  /\ reader = "waiting"
  /\ reader' = "woken"
  /\ wakes' = wakes + 1
  /\ UNCHANGED <<mtu, readVars, timer, waker, upstream_open, held, arrived,
                 writeVars>>

\* The stack's task ends, and its session table with it.
StackStops ==
  /\ upstream_open
  /\ upstream_open' = FALSE
  /\ UNCHANGED <<mtu, readVars, timer, taskVars, held, arrived, writeVars>>

----------------------------------------------------------------------------
(* poll_read. *)

Reading == held /\ ~ panicked /\ reader # "waiting"

\* put_slice takes the datagram if the buffer has room for it.
Fits(d) == arrived[d] <= AppBuf

PutSlice(d) ==
  /\ read' = IF Fits(d) THEN Append(read, d) ELSE read
  /\ panicked' = ~ Fits(d)
  /\ reader' = "running"

ReadFirst ==
  /\ Reading
  /\ first_payload # <<>>
  /\ PutSlice(first_payload[1])
  /\ first_payload' = <<>>
  /\ UNCHANGED <<mtu, stream_receiver, timer, waker, wakes, upstream_open,
                 held, arrived, writeVars>>

\* Variant: the timer starts again when it is found elapsed.
ReadTimedOut_Rearms ==
  /\ Reading
  /\ first_payload = <<>>
  /\ timer = "elapsed"
  /\ timer' = "armed"
  /\ reader' = "running"
  /\ UNCHANGED <<mtu, readVars, waker, wakes, upstream_open, held, arrived,
                 writeVars>>

\* The timer has run out: TimedOut, whatever is queued.
ReadTimedOut ==
  /\ Reading
  /\ first_payload = <<>>
  /\ timer = "elapsed"
  /\ reader' = "running"
  /\ UNCHANGED <<mtu, readVars, timer, waker, wakes, upstream_open, held,
                 arrived, writeVars>>

\* Variant: the queue is looked at before the first payload.
ReadDatagram_QueueFirst ==
  /\ Reading
  /\ timer = "armed"
  /\ stream_receiver # <<>>
  /\ PutSlice(Head(stream_receiver))
  /\ stream_receiver' = Tail(stream_receiver)
  /\ waker' = waker \cup {"timer"}
  /\ UNCHANGED <<mtu, first_payload, timer, wakes, upstream_open, held,
                 arrived, writeVars>>

\* reset_timeout, then the next datagram; the timer was polled on the way.
ReadDatagram ==
  /\ Reading
  /\ first_payload = <<>>
  /\ timer = "armed"
  /\ stream_receiver # <<>>
  /\ PutSlice(Head(stream_receiver))
  /\ stream_receiver' = Tail(stream_receiver)
  /\ waker' = waker \cup {"timer"}
  /\ UNCHANGED <<mtu, first_payload, timer, wakes, upstream_open, held,
                 arrived, writeVars>>

\* Variant: the timer is reset without having been polled.
ReadPending_QueueOnly ==
  /\ Reading
  /\ first_payload = <<>>
  /\ timer = "armed"
  /\ stream_receiver = <<>>
  /\ reader' = "waiting"
  /\ waker' = {"queue"}
  /\ UNCHANGED <<mtu, readVars, timer, wakes, upstream_open, held, arrived,
                 writeVars>>

\* reset_timeout, and nothing is queued: Pending.
ReadPending ==
  /\ Reading
  /\ first_payload = <<>>
  /\ timer = "armed"
  /\ stream_receiver = <<>>
  /\ reader' = "waiting"
  /\ waker' = {"timer", "queue"}
  /\ UNCHANGED <<mtu, readVars, timer, wakes, upstream_open, held, arrived,
                 writeVars>>

PollRead == ReadFirst \/ ReadTimedOut \/ ReadDatagram \/ ReadPending

----------------------------------------------------------------------------
(* poll_write and the end. *)

\* create_rev_packet truncates the payload to what the MTU leaves.
Room == IF mtu >= Overhead THEN mtu - Overhead ELSE 0
Truncated(n) == IF n <= Room THEN n ELSE Room

\* The application has a buffer of n bytes to write.
Message(n) ==
  /\ held /\ ~ panicked
  /\ unwritten = 0
  /\ unwritten' = n
  /\ handed' = handed + n
  /\ UNCHANGED <<mtu, readVars, timer, taskVars, upstream_open, held, arrived,
                 writes, carried>>

\* What the next packet carries: nothing if the stack's task is gone.
Payload == IF upstream_open THEN Truncated(unwritten) ELSE 0

\* Variant: the length of the caller's buffer is reported.
PollWrite_ReportsAll ==
  /\ held /\ ~ panicked
  /\ unwritten > 0
  /\ timer' = "armed"
  /\ writes' = writes + 1
  /\ carried' = carried + Payload
  /\ unwritten' = 0
  /\ UNCHANGED <<mtu, readVars, taskVars, upstream_open, held, arrived, handed>>

\* Variant: a new timer takes the place of the one the reader polled.
PollWrite_NewTimer ==
  /\ held /\ ~ panicked
  /\ unwritten > 0
  /\ timer' = "armed"
  /\ waker' = waker \ {"timer"}
  /\ writes' = writes + 1
  /\ carried' = carried + Payload
  /\ unwritten' = IF Payload = 0 THEN 0 ELSE unwritten - Payload
  /\ UNCHANGED <<mtu, readVars, reader, wakes, upstream_open, held, arrived,
                 handed>>

\* reset_timeout, then the packet, whose length is returned.  The caller goes
\* on with what is left, as write_all and copy_bidirectional do, and gives up
\* at 0 (WriteZero) and at UnexpectedEof, when the stack's task is gone.
PollWrite ==
  /\ held /\ ~ panicked
  /\ unwritten > 0
  /\ timer' = "armed"
  /\ writes' = writes + 1
  /\ carried' = carried + Payload
  /\ unwritten' = IF Payload = 0 THEN 0 ELSE unwritten - Payload
  /\ UNCHANGED <<mtu, readVars, taskVars, upstream_open, held, arrived, handed>>

\* The application drops the stream, perhaps in the middle of a read that
\* waits.  There is no Drop implementation: the stack
\* learns of it when the next datagram cannot be queued.
DropStream ==
  /\ held
  /\ held' = FALSE
  /\ UNCHANGED <<mtu, readVars, timer, taskVars, upstream_open, arrived,
                 writeVars>>

Finished == ~ held /\ UNCHANGED vars

Next ==
  \/ \E n \in Lens : Arrive(n)
  \/ TimerElapses
  \/ wakes < MaxWakes /\ WokenByOther
  \/ StackStops
  \/ PollRead
  \/ \E n \in WriteLens : Message(n)
  \/ writes < MaxWrites /\ PollWrite
  \/ DropStream
  \/ Finished

Spec == Init /\ [][Next]_vars

\* Time passes, and the executor runs a task that was woken.  A running
\* reader need not read again, and nothing makes datagrams arrive.
FairSpec ==
  /\ Spec
  /\ WF_vars(TimerElapses)
  /\ WF_vars(reader = "woken" /\ PollRead)

----------------------------------------------------------------------------
(* Properties. *)

TypeOK ==
  /\ mtu \in Mtus
  /\ first_payload \in {<<>>, <<1>>}
  /\ stream_receiver \in Seq(Datagram)
  /\ timer \in {"armed", "elapsed"}
  /\ reader \in {"running", "waiting", "woken"}
  /\ waker \subseteq {"timer", "queue"}
  /\ upstream_open \in BOOLEAN
  /\ held \in BOOLEAN
  /\ panicked \in BOOLEAN
  /\ arrived \in Seq(Lens)
  /\ read \in Seq(Datagram)
  /\ wakes \in Nat
  /\ writes \in Nat /\ handed \in Nat /\ unwritten \in Nat /\ carried \in Nat

\* The application reads the datagrams in the order they arrived, each once,
\* the one that opened the stream first; those it has not read yet are all
\* kept, through timeouts, resets of the timer and the end of the stack.
DatagramsInOrder ==
  ~ panicked =>
    read \o first_payload \o stream_receiver
      = [i \in 1 .. Len(arrived) |-> i]

\* No wake-up is lost: a reader that waits has left its waker in the queue,
\* which is empty, and in the timer, which runs; a write that sets the timer
\* again (Sleep::reset) leaves the waker where it is.
ReaderWatched ==
  reader = "waiting" =>
    /\ first_payload = <<>> /\ stream_receiver = <<>>
    /\ timer = "armed"
    /\ waker = {"timer", "queue"}

\* A read that found nothing ends, with a datagram or with TimedOut, once
\* writes and other wake-ups of its task, which set the timer again, have
\* stopped.  This holds even after the stack's task has ended, when no
\* datagram and no end of the queue can come any more.
WaitEnds == (reader = "waiting") ~> (reader = "running" \/ ~ held)

\* An elapsed timer is not set again by reads: from then on poll_read fails
\* even with datagrams queued, and only a write revives the stream.
TimedOutSticks ==
  [][timer = "elapsed" /\ first_payload = <<>> =>
       /\ read' = read
       /\ timer' = "armed" => writes' = writes + 1]_vars

\* A buffer that is too long for one packet leaves in several, no byte of it
\* lost or sent twice: what poll_write reports, and the caller goes by, is
\* what create_rev_packet left of it.
WrittenOnce ==
  upstream_open /\ Room > 0 => carried + unwritten = handed

============================================================================
