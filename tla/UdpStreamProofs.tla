-------------------------- MODULE UdpStreamProofs --------------------------
(***************************************************************************)
(* Proofs about UdpStream for every MTU, buffer size and set of datagrams: *)
(* the order in which the application reads, that a reader that waits is   *)
(* woken, and that a buffer leaves byte for byte.                          *)
(***************************************************************************)
EXTENDS UdpStream, SequenceTheorems, TLAPS

\* Datagrams are numbered from 1.
LEMMA DatagramNumbers ==
  /\ 1 \in Datagram
  /\ \A n \in Nat : n + 1 \in Datagram /\ 1 .. n \subseteq Datagram
  /\ {<<>>, <<1>>} \subseteq Seq(Datagram)
<1>1. /\ 1 \in Datagram
      /\ \A n \in Nat : n + 1 \in Datagram /\ 1 .. n \subseteq Datagram
  BY DEF Datagram
<1>2. <<>> \in Seq(Datagram) /\ <<1>> \in Seq(Datagram)
  BY <1>1
<1> QED
  BY <1>1, <1>2, Zenon

\* The datagrams 1 to n in order.
Numbered(n) == [i \in 1 .. n |-> i]

\* A queue of datagrams r, f and q that holds 1 to n in order still does so
\* when number n + 1 is put behind it, as process_device_read does.
LEMMA QueueGrows ==
  ASSUME NEW r \in Seq(Datagram), NEW f \in Seq(Datagram),
         NEW q \in Seq(Datagram), NEW n \in Nat,
         r \o f \o q = Numbered(n)
  PROVE  r \o f \o Append(q, n + 1) = Numbered(n + 1)
<1> DEFINE x == r \o f
<1>1. x \in Seq(Datagram)
  OBVIOUS
<1> DEFINE d == n + 1
<1>2. x \o Append(q, d) = Append(x \o q, d)
  <2>1. d \in Datagram
    BY DEF Datagram
  <2> HIDE DEF x, d
  <2> QED
    BY <1>1, <2>1
<1> HIDE DEF x
<1>3. Append(Numbered(n), n + 1) = Numbered(n + 1)
  BY DEF Numbered
<1> QED
  BY <1>2, <1>3, Zenon DEF x

\* Handing the first payload over moves no datagram.
LEMMA FirstTaken ==
  ASSUME NEW r \in Seq(Datagram), NEW d \in Datagram, NEW q \in Seq(Datagram)
  PROVE  Append(r, d) \o <<>> \o q = r \o <<d>> \o q
<1>1. Append(r, d) \o <<>> = r \o <<d>>
  OBVIOUS
<1> QED
  BY <1>1, Zenon

\* Handing the head of the queue over moves no datagram.
LEMMA NextTaken ==
  ASSUME NEW r \in Seq(Datagram), NEW q \in Seq(Datagram), q # <<>>
  PROVE  Append(r, Head(q)) \o <<>> \o Tail(q) = r \o <<>> \o q
<1>1. Append(r, Head(q)) \o <<>> = Append(r, Head(q)) /\ r \o <<>> = r
  OBVIOUS
<1>2. Append(r, Head(q)) \o Tail(q) = r \o q
  OBVIOUS
<1> QED
  BY <1>1, <1>2, Zenon

\* The head of the queue is the number of a datagram that arrived.
LEMMA HeadArrived ==
  ASSUME NEW r \in Seq(Datagram), NEW f \in Seq(Datagram),
         NEW q \in Seq(Datagram), NEW n \in Nat,
         r \o f \o q = Numbered(n),
         q # <<>>
  PROVE  Head(q) \in 1 .. n
<1> DEFINE x == r \o f
<1>1. x \in Seq(Datagram)
  OBVIOUS
<1> HIDE DEF x
<1>2. Len(x \o q) = Len(x) + Len(q) /\ (x \o q)[Len(x) + 1] = q[1]
  BY <1>1
<1>3. Len(x \o q) = n
  BY DEF x, Numbered
<1>4. Len(x) + 1 \in 1 .. n
  BY <1>1, <1>2, <1>3
<1> QED
  BY <1>2, <1>4 DEF x, Numbered

\* The first payload is datagram 1, which opened the stream, until it is
\* read; with the type of the state and the properties this is inductive.
IInv ==
  /\ TypeOK
  /\ arrived # <<>>
  /\ DatagramsInOrder
  /\ ReaderWatched
  /\ WrittenOnce

\* At the start one datagram has arrived, the one handed to UdpStream::new.
LEMMA IInvInit == Init => IInv
<1> SUFFICES ASSUME Init
             PROVE  IInv
  BY Zenon
<1>1. PICK n \in Lens : arrived = <<n>>
  BY Zenon DEF Init
<1>2. TypeOK
  <2>1. arrived \in Seq(Lens)
    BY <1>1
  <2>2. stream_receiver \in Seq(Datagram) /\ read \in Seq(Datagram)
    BY DEF Init
  <2>3. upstream_open \in BOOLEAN /\ held \in BOOLEAN /\ panicked \in BOOLEAN
    BY Zenon DEF Init
  <2> QED
    BY <2>1, <2>2, <2>3, Zenon DEF Init, TypeOK
<1>3. <<>> \o <<1>> \o <<>> = [i \in 1 .. Len(arrived) |-> i]
  BY <1>1
<1>4. ReaderWatched
  BY DEF Init, ReaderWatched
<1>5. WrittenOnce
  BY DEF Init, WrittenOnce
<1> QED
  BY <1>1, <1>2, <1>3, <1>4, <1>5, Zenon DEF Init, IInv, DatagramsInOrder

\* A datagram handed over, or a panic, leaves the order as it was.  This is
\* put_slice, for the datagram d that is taken out of the stream.
LEMMA PutSliceStep ==
  ASSUME IInv, Reading, NEW d \in DOMAIN arrived, PutSlice(d),
         UNCHANGED arrived,
         first_payload' \in Seq(Datagram), stream_receiver' \in Seq(Datagram),
         Append(read, d) \o first_payload' \o stream_receiver'
           = read \o first_payload \o stream_receiver
  PROVE  /\ read' \in Seq(Datagram)
         /\ panicked' \in BOOLEAN
         /\ DatagramsInOrder'
<1>1. arrived \in Seq(Lens) /\ read \in Seq(Datagram)
  BY Zenon DEF IInv, TypeOK
<1>2. d \in Datagram
  <2>1. d \in 1 .. Len(arrived) /\ Len(arrived) \in Nat
    BY <1>1
  <2> QED
    BY <2>1, DatagramNumbers, Zenon
<1>3. CASE Fits(d)
  <2>1. read' = Append(read, d) /\ panicked' = FALSE
    BY <1>3, Zenon DEF PutSlice
  <2>2. ~ panicked
    BY Zenon DEF Reading
  <2> QED
    <3>1. read' \in Seq(Datagram)
      BY <1>1, <1>2, <2>1
    <3>2. DatagramsInOrder'
      BY <2>1, <2>2, Zenon DEF IInv, DatagramsInOrder
    <3>3. panicked' \in BOOLEAN
      BY <2>1, Zenon
    <3> QED
      BY <3>1, <3>2, <3>3, Zenon
<1>4. CASE ~ Fits(d)
  <2>1. read' = read /\ panicked' = TRUE
    BY <1>4, Zenon DEF PutSlice
  <2> QED
    BY <1>1, <2>1, Zenon DEF DatagramsInOrder
<1> QED
  BY <1>3, <1>4, Zenon

\* The actions that touch neither what was read nor what is queued.
LEMMA FrameStep ==
  ASSUME IInv, TypeOK', UNCHANGED <<readVars, arrived>>, ReaderWatched',
         WrittenOnce'
  PROVE  IInv'
BY Zenon DEF IInv, readVars, DatagramsInOrder

\* The actions that write nothing leave the account of the bytes alone.
LEMMA WriteFrame ==
  ASSUME WrittenOnce, UNCHANGED <<mtu, writeVars>>, upstream_open' => upstream_open
  PROVE  WrittenOnce'
<1>1. Room' = Room
  BY Zenon DEF Room
<1> QED
  BY <1>1, Zenon DEF WrittenOnce, writeVars

\* What wakes a reader, and a reader that runs, needs no watching.
LEMMA AwakeStep ==
  ASSUME reader' # "waiting"
  PROVE  ReaderWatched'
BY Zenon DEF ReaderWatched

\* A datagram is queued.
LEMMA ArriveStep ==
  ASSUME IInv, NEW n \in Lens, Arrive(n)
  PROVE  IInv'
<1>1. /\ arrived \in Seq(Lens) /\ read \in Seq(Datagram)
      /\ stream_receiver \in Seq(Datagram) /\ first_payload \in {<<>>, <<1>>}
  BY Zenon DEF IInv, TypeOK
<1>2. /\ arrived' = Append(arrived, n)
      /\ stream_receiver' = Append(stream_receiver, Len(arrived) + 1)
      /\ UNCHANGED <<mtu, first_payload, read, panicked, timer, upstream_open,
                     held, writeVars>>
  BY Zenon DEF Arrive
<1>3. first_payload \in Seq(Datagram)
  BY <1>1, DatagramNumbers, Zenon
<1>4. /\ arrived' \in Seq(Lens) /\ arrived' # <<>>
      /\ Len(arrived') = Len(arrived) + 1
      /\ \A d \in DOMAIN arrived : d \in DOMAIN arrived' /\ arrived'[d] = arrived[d]
      /\ stream_receiver' \in Seq(Datagram)
  <2>1. Len(arrived) \in Nat /\ Len(arrived) + 1 \in Datagram
    BY <1>1, DatagramNumbers
  <2>2. stream_receiver' \in Seq(Datagram)
    BY <1>1, <1>2, <2>1
  <2>3. /\ arrived' \in Seq(Lens) /\ arrived' # <<>>
        /\ Len(arrived') = Len(arrived) + 1
        /\ \A d \in 1 .. Len(arrived) : arrived'[d] = arrived[d]
    BY <1>1, <1>2
  <2>4. DOMAIN arrived = 1 .. Len(arrived) /\ DOMAIN arrived' = 1 .. Len(arrived')
    BY <1>1, <2>3
  <2> QED
    BY <2>1, <2>2, <2>3, <2>4
<1>5. /\ reader' \in {"running", "waiting", "woken"}
      /\ waker' \subseteq {"timer", "queue"} /\ wakes' = wakes
  BY Zenon DEF Arrive, Wake, IInv, TypeOK
<1>6. TypeOK'
  BY <1>2, <1>4, <1>5, Zenon DEF IInv, TypeOK, writeVars
<1>7. DatagramsInOrder'
  <2> SUFFICES ASSUME ~ panicked
               PROVE  read \o first_payload \o stream_receiver'
                        = Numbered(Len(arrived) + 1)
    BY <1>2, <1>4, Zenon DEF DatagramsInOrder, Numbered
  <2>1. read \o first_payload \o stream_receiver = Numbered(Len(arrived))
    BY Zenon DEF IInv, DatagramsInOrder, Numbered
  <2> QED
    <3>1. Len(arrived) \in Nat
      BY <1>1
    <3> QED
      BY <1>1, <1>2, <1>3, <2>1, <3>1, QueueGrows, Zenon
<1>8. ReaderWatched'
  <2>1. "woken" # "waiting"
    OBVIOUS
  <2>2. reader' # "waiting"
    BY <2>1, Zenon DEF Arrive, Wake, IInv, ReaderWatched
  <2> QED
    BY <2>2, AwakeStep, Zenon
<1>9. WrittenOnce'
  BY <1>2, WriteFrame, Zenon DEF IInv
<1> QED
  BY <1>4, <1>6, <1>7, <1>8, <1>9, Zenon DEF IInv

\* poll_read hands the first payload over.
LEMMA ReadFirstStep ==
  ASSUME IInv, ReadFirst
  PROVE  IInv'
<1>1. /\ arrived \in Seq(Lens) /\ read \in Seq(Datagram)
      /\ stream_receiver \in Seq(Datagram) /\ first_payload = <<1>>
  BY Zenon DEF IInv, TypeOK, ReadFirst
<1>2. /\ Reading /\ PutSlice(1)
      /\ first_payload' = <<>>
      /\ UNCHANGED <<mtu, stream_receiver, timer, waker, wakes, upstream_open,
                     held, arrived, writeVars>>
  BY <1>1, Zenon DEF ReadFirst
<1>3. 1 \in DOMAIN arrived
  BY <1>1 DEF IInv
<1>4. Append(read, 1) \o first_payload' \o stream_receiver'
        = read \o first_payload \o stream_receiver
  BY <1>1, <1>2, FirstTaken, DatagramNumbers
<1>5. first_payload' \in Seq(Datagram) /\ stream_receiver' \in Seq(Datagram)
  BY <1>1, <1>2
<1>6. /\ read' \in Seq(Datagram) /\ panicked' \in BOOLEAN
      /\ DatagramsInOrder'
  BY <1>2, <1>3, <1>4, <1>5, PutSliceStep, Zenon
<1>7. TypeOK'
  BY <1>2, <1>6, Zenon DEF IInv, TypeOK, PutSlice, writeVars
<1>8. ReaderWatched'
  <2>1. "running" # "waiting"
    OBVIOUS
  <2> QED
    BY <1>2, <2>1, AwakeStep, Zenon DEF PutSlice
<1>9. WrittenOnce'
  BY <1>2, WriteFrame, Zenon DEF IInv
<1> QED
  BY <1>2, <1>6, <1>7, <1>8, <1>9, Zenon DEF IInv

\* poll_read hands the head of the queue over.
LEMMA ReadDatagramStep ==
  ASSUME IInv, ReadDatagram
  PROVE  IInv'
<1> DEFINE d == Head(stream_receiver)
<1>1. /\ arrived \in Seq(Lens) /\ read \in Seq(Datagram)
      /\ stream_receiver \in Seq(Datagram)
      /\ first_payload = <<>> /\ stream_receiver # <<>>
  BY Zenon DEF IInv, TypeOK, ReadDatagram
<1>2. /\ Reading /\ PutSlice(d)
      /\ stream_receiver' = Tail(stream_receiver)
      /\ waker' = waker \cup {"timer"}
      /\ UNCHANGED <<mtu, first_payload, timer, wakes, upstream_open, held,
                     arrived, writeVars>>
  BY Zenon DEF ReadDatagram
<1>3. d \in DOMAIN arrived
  <2>1. read \o first_payload \o stream_receiver = Numbered(Len(arrived))
    BY <1>2, Zenon DEF IInv, DatagramsInOrder, Reading, Numbered
  <2>2. Len(arrived) \in Nat /\ DOMAIN arrived = 1 .. Len(arrived)
    BY <1>1
  <2>3. first_payload \in Seq(Datagram)
    BY <1>1
  <2> QED
    BY <1>1, <2>1, <2>2, <2>3, HeadArrived, Zenon
<1>4. Append(read, d) \o first_payload' \o stream_receiver'
        = read \o first_payload \o stream_receiver
  BY <1>1, <1>2, NextTaken, Zenon
<1>5. first_payload' \in Seq(Datagram) /\ stream_receiver' \in Seq(Datagram)
  BY <1>1, <1>2
<1> HIDE DEF d
<1>6. /\ read' \in Seq(Datagram) /\ panicked' \in BOOLEAN
      /\ DatagramsInOrder'
  BY <1>2, <1>3, <1>4, <1>5, PutSliceStep, Zenon
<1>7. TypeOK'
  BY <1>2, <1>5, <1>6, Zenon DEF IInv, TypeOK, PutSlice, writeVars
<1>8. ReaderWatched'
  <2>1. "running" # "waiting"
    OBVIOUS
  <2> QED
    BY <1>2, <2>1, AwakeStep, Zenon DEF PutSlice
<1>9. WrittenOnce'
  BY <1>2, WriteFrame, Zenon DEF IInv
<1> QED
  BY <1>2, <1>6, <1>7, <1>8, <1>9, Zenon DEF IInv

\* The application hands over a buffer, which is all still to be written.
LEMMA MessageStep ==
  ASSUME IInv, NEW n \in WriteLens, Message(n)
  PROVE  IInv'
<1>1. /\ handed \in Nat /\ unwritten = 0 /\ carried \in Nat /\ n \in Nat
      /\ unwritten' = n /\ handed' = handed + n
      /\ UNCHANGED <<mtu, readVars, timer, taskVars, upstream_open, held,
                     arrived, writes, carried>>
  BY UdpAssumption, Zenon DEF IInv, TypeOK, Message
<1>2. unwritten' \in Nat /\ handed' \in Nat
  BY <1>1
<1>3. TypeOK'
  BY <1>1, <1>2, Zenon DEF IInv, TypeOK, readVars, taskVars
<1>4. ReaderWatched'
  BY <1>1, Zenon DEF IInv, ReaderWatched, readVars, taskVars
<1>5. WrittenOnce'
  <2>1. Room' = Room
    BY <1>1, Zenon DEF Room
  <2>2. carried + unwritten = handed => carried + n = handed + n
    BY <1>1
  <2> QED
    BY <1>1, <2>1, <2>2, Zenon DEF IInv, WrittenOnce
<1> QED
  BY <1>1, <1>3, <1>4, <1>5, FrameStep, Zenon

\* poll_write: what the packet carries is taken from what is still to be
\* written, and the reader's wakers stay where they are.
LEMMA PollWriteStep ==
  ASSUME IInv, PollWrite
  PROVE  IInv'
<1>1. /\ mtu \in Nat /\ Overhead \in Nat /\ unwritten \in Nat /\ carried \in Nat
      /\ writes \in Nat /\ unwritten > 0
      /\ writes' = writes + 1
      /\ carried' = carried + Payload
      /\ unwritten' = IF Payload = 0 THEN 0 ELSE unwritten - Payload
      /\ timer' = "armed"
      /\ UNCHANGED <<mtu, readVars, taskVars, upstream_open, held, arrived, handed>>
  BY UdpAssumption, Zenon DEF IInv, TypeOK, PollWrite
<1>2. Payload \in 0 .. unwritten
  <2>1. Room \in Nat
    BY <1>1 DEF Room
  <2>2. Truncated(unwritten) \in 0 .. unwritten
    BY <1>1, <2>1 DEF Truncated
  <2>3. 0 \in 0 .. unwritten
    BY <1>1
  <2> QED
    BY <2>2, <2>3, Zenon DEF Payload
<1>3. writes' \in Nat /\ carried' \in Nat /\ unwritten' \in Nat
  BY <1>1, <1>2
<1>4. TypeOK'
  BY <1>1, <1>3, Zenon DEF IInv, TypeOK, readVars, taskVars
<1>5. ReaderWatched'
  BY <1>1, Zenon DEF IInv, ReaderWatched, readVars, taskVars
<1>6. WrittenOnce'
  <2>1. Room' = Room /\ handed' = handed /\ upstream_open' = upstream_open
    BY <1>1, Zenon DEF Room
  <2> SUFFICES ASSUME upstream_open, Room > 0
               PROVE  carried' + unwritten' = handed
    BY <2>1, Zenon DEF WrittenOnce
  <2>2. Payload # 0
    <3>1. Room \in Nat
      BY <1>1 DEF Room
    <3>2. Truncated(unwritten) # 0
      BY <1>1, <3>1 DEF Truncated
    <3> QED
      BY <3>2, Zenon DEF Payload
  <2>3. carried + unwritten = handed
    BY Zenon DEF IInv, WrittenOnce
  <2> QED
    BY <1>1, <1>2, <2>2, <2>3
<1> QED
  BY <1>1, <1>4, <1>5, <1>6, FrameStep, Zenon

\* Every step keeps the invariant.
LEMMA IInvStep == IInv /\ [Next]_vars => IInv'
<1> SUFFICES ASSUME IInv, [Next]_vars
             PROVE  IInv'
  BY Zenon
<1> USE DEF IInv
<1>0. "woken" # "waiting" /\ "running" # "waiting"
  OBVIOUS
<1>1. ASSUME NEW n \in Lens, Arrive(n) PROVE IInv'
  BY <1>1, ArriveStep, Zenon
<1>2. CASE TimerElapses
  <2>1. UNCHANGED <<mtu, readVars, upstream_open, held, arrived, writeVars>>
    BY <1>2, Zenon DEF TimerElapses
  <2>2. TypeOK'
    BY <1>2, <2>1, Zenon
       DEF TimerElapses, Wake, TypeOK, readVars, writeVars
  <2>3. reader' # "waiting"
    BY <1>0, <1>2, Zenon DEF TimerElapses, Wake, ReaderWatched
  <2> QED
    BY <2>1, <2>2, <2>3, AwakeStep, WriteFrame, FrameStep, Zenon
<1>3. CASE StackStops
  <2>1. UNCHANGED <<mtu, readVars, timer, taskVars, held, arrived, writeVars>>
    BY <1>3, Zenon DEF StackStops
  <2>2. upstream_open' = FALSE
    BY <1>3, Zenon DEF StackStops
  <2>3. TypeOK'
    BY <2>1, <2>2, Zenon DEF TypeOK, readVars, taskVars, writeVars
  <2>4. ReaderWatched'
    BY <2>1, Zenon DEF ReaderWatched, readVars, taskVars
  <2> QED
    BY <2>1, <2>2, <2>3, <2>4, WriteFrame, FrameStep, Zenon
<1>4. CASE ReadFirst
  BY <1>4, ReadFirstStep, Zenon
<1>5. CASE ReadDatagram
  BY <1>5, ReadDatagramStep, Zenon
<1>6. CASE ReadTimedOut \/ ReadPending
  <2>1. UNCHANGED <<mtu, readVars, timer, wakes, upstream_open, held, arrived,
                    writeVars>>
    BY <1>6, Zenon DEF ReadTimedOut, ReadPending
  <2>2. /\ reader' \in {"running", "waiting", "woken"}
        /\ waker' \subseteq {"timer", "queue"}
    BY <1>6, Zenon DEF ReadTimedOut, ReadPending, TypeOK
  <2>3. TypeOK'
    BY <2>1, <2>2, Zenon DEF TypeOK, readVars, writeVars
  <2>4. CASE ReadTimedOut
    <3>1. ReaderWatched'
      BY <1>0, <2>4, AwakeStep, Zenon DEF ReadTimedOut
    <3> QED
      BY <2>1, <2>3, <3>1, WriteFrame, FrameStep, Zenon
  <2>5. CASE ReadPending
    <3>1. ReaderWatched'
      BY <2>1, <2>5, Zenon DEF ReadPending, ReaderWatched, readVars
    <3> QED
      BY <2>1, <2>3, <3>1, WriteFrame, FrameStep, Zenon
  <2> QED
    BY <1>6, <2>4, <2>5, Zenon
<1>7. CASE PollWrite
  BY <1>7, PollWriteStep, Zenon
<1>8. ASSUME NEW n \in WriteLens, Message(n) PROVE IInv'
  BY <1>8, MessageStep, Zenon
<1>9. CASE WokenByOther
  <2>1. UNCHANGED <<mtu, readVars, timer, waker, upstream_open, held, arrived,
                    writeVars>>
    BY <1>9, Zenon DEF WokenByOther
  <2>2. reader' = "woken" /\ wakes' = wakes + 1
    BY <1>9, Zenon DEF WokenByOther
  <2>3. wakes' \in Nat
    BY <2>2 DEF TypeOK
  <2>4. TypeOK'
    BY <2>1, <2>2, <2>3, Zenon DEF TypeOK, readVars, writeVars
  <2> QED
    BY <1>0, <2>1, <2>2, <2>4, AwakeStep, WriteFrame, FrameStep, Zenon
<1>10. CASE DropStream
  <2>1. UNCHANGED <<mtu, readVars, timer, taskVars, upstream_open, arrived,
                    writeVars>>
    BY <1>10, Zenon DEF DropStream
  <2>2. held' = FALSE
    BY <1>10, Zenon DEF DropStream
  <2>3. TypeOK'
    BY <2>1, <2>2, Zenon DEF TypeOK, readVars, taskVars, writeVars
  <2>4. ReaderWatched'
    BY <2>1, Zenon DEF ReaderWatched, readVars, taskVars
  <2> QED
    BY <2>1, <2>3, <2>4, WriteFrame, FrameStep, Zenon
<1>11. CASE UNCHANGED vars
  <2>1. UNCHANGED <<mtu, readVars, timer, taskVars, upstream_open, held,
                    arrived, writeVars>>
    BY <1>11, Zenon DEF vars
  <2>2. TypeOK'
    BY <2>1, Zenon DEF TypeOK, readVars, taskVars, writeVars
  <2>3. ReaderWatched'
    BY <2>1, Zenon DEF ReaderWatched, readVars, taskVars
  <2> QED
    BY <2>1, <2>2, <2>3, WriteFrame, FrameStep, Zenon
<1> QED
  BY <1>1, <1>2, <1>3, <1>4, <1>5, <1>6, <1>7, <1>8, <1>9, <1>10, <1>11, Zenon
     DEF Next, PollRead, Finished

\* The inductive invariant holds throughout.
LEMMA IInvHolds == Spec => []IInv
BY IInvInit, IInvStep, PTL DEF Spec

\* However many datagrams arrive, poll_read hands them over in their order,
\* each once, and loses none, until put_slice panics.
THEOREM ReadsInOrder == Spec => []DatagramsInOrder
<1>1. IInv => DatagramsInOrder
  BY Zenon DEF IInv
<1> QED
  BY <1>1, IInvHolds, PTL

\* A reader that waits is woken by the next datagram and by the timer,
\* however writes, resets of the timer and other wake-ups of its task come
\* between.
THEOREM NoWakeupLost == Spec => []ReaderWatched
<1>1. IInv => ReaderWatched
  BY Zenon DEF IInv
<1> QED
  BY <1>1, IInvHolds, PTL

\* For every MTU that leaves room, and however often it has to be split, a
\* buffer leaves byte for byte: poll_write reports what its packet carries.
THEOREM BufferWrittenOnce == Spec => []WrittenOnce
<1>1. IInv => WrittenOnce
  BY Zenon DEF IInv
<1> QED
  BY <1>1, IInvHolds, PTL

\* Once the timer has elapsed, no read returns a datagram before a write has
\* set the timer again.
THEOREM TimeoutSticks == Spec => TimedOutSticks
<1> DEFINE Sticks == timer = "elapsed" /\ first_payload = <<>> =>
                       /\ read' = read
                       /\ timer' = "armed" => writes' = writes + 1
<1>1. ASSUME IInv, Next
      PROVE  Sticks
  <2>1. ASSUME NEW n \in Lens, Arrive(n) PROVE Sticks
    BY <2>1, Zenon DEF Arrive
  <2>2. CASE PollRead
    BY <2>2, Zenon
       DEF PollRead, ReadFirst, ReadTimedOut, ReadDatagram, ReadPending,
                readVars
  <2>3. CASE PollWrite
    BY <2>3, Zenon DEF PollWrite, readVars
  <2>4. ASSUME NEW n \in WriteLens, Message(n) PROVE Sticks
    BY <2>4, Zenon DEF Message, readVars
  <2>5. CASE TimerElapses \/ WokenByOther \/ StackStops
    BY <2>5, Zenon DEF TimerElapses, WokenByOther, StackStops, readVars
  <2>6. CASE DropStream \/ Finished
    BY <2>6, Zenon DEF DropStream, Finished, vars, readVars
  <2> QED
    BY <1>1, <2>1, <2>2, <2>3, <2>4, <2>5, <2>6, Zenon DEF Next
<1>2. ASSUME IInv, [Next]_vars
      PROVE  [Sticks]_vars
  BY <1>1, <1>2, Zenon
<1> QED
  BY <1>2, IInvHolds, PTL DEF Spec, TimedOutSticks

=============================================================================
