--------------------------- MODULE SessionsProofs ---------------------------
(***************************************************************************)
(* The inductive invariant of Sessions, for every set of addresses and     *)
(* every number of packets, its preservation by the stack's task, the      *)
(* application and the streams, and the theorems that follow: who owns an  *)
(* entry of the table, who has it removed, and that every packet of a      *)
(* session is dealt with once.                                             *)
(*                                                                         *)
(* The entry of a stream that is gone is removed by the stream's own       *)
(* request or by one that is in front of it in the channel, so a request   *)
(* that is sent later, by a packet that was refused because the stream is  *)
(* gone, finds the entry removed or taken by a stream newer than itself.   *)
(* The order of the channel is what the argument rests on.                 *)
(***************************************************************************)
EXTENDS Sessions, TLAPS

\* A stream has the number of the packet that opened it, and only TCP
\* streams are shut down by a task of their own.
StreamsOpened ==
  \A s \in Id : life[s] # "none" =>
    /\ s \in DOMAIN arrived
    /\ arrived[s].kind \in {"syn", "udp"}
    /\ life[s] \in {"orphan", "dying"} => IsTcp(arrived[s])

\* The table has streams under their own tuples, and nothing after the end
\* of the task.
TableOfStreams ==
  /\ \A t \in Tuple : sessions[t] # 0 =>
       life[sessions[t]] # "none" /\ TupleOf(sessions[t]) = t
  /\ ~ running => \A t \in Tuple : sessions[t] = 0

\* What is in the channel comes from a packet that arrived, has its tuple
\* reversed, and is TCP's if it is a request to forget a session.
SentByArrived ==
  \A i \in DOMAIN pkt_receiver :
    /\ pkt_receiver[i].by \in DOMAIN arrived
    /\ ReverseNetworkTuple(pkt_receiver[i]) = TupleOf(pkt_receiver[i].by)
    /\ pkt_receiver[i].ttl = DROP_TTL => pkt_receiver[i].tcp

\* The i-th packet of the channel q is a request to forget the tuple t.
Forgets(q, i, t) ==
  /\ i \in DOMAIN q
  /\ q[i].ttl = DROP_TTL
  /\ ReverseNetworkTuple(q[i]) = t

\* The entry of a TCP stream whose Drop has run is about to be removed.
DeadForgotten ==
  \A t \in Tuple :
    t.tcp /\ sessions[t] # 0 /\ ~ (life[sessions[t]] \in {"queued", "held", "orphan"})
      => \E j \in DOMAIN pkt_receiver : Forgets(pkt_receiver, j, t)

\* A request of something newer than the entry is behind another one.
NewerBehind ==
  \A t \in Tuple : \A i \in DOMAIN pkt_receiver :
    /\ Forgets(pkt_receiver, i, t)
    /\ sessions[t] # 0
    /\ sessions[t] < pkt_receiver[i].by
    => \E j \in DOMAIN pkt_receiver : j < i /\ Forgets(pkt_receiver, j, t)

\* Of the tuple of a stream that started with nothing older about, nothing
\* older can ask to be forgotten, now or later.
CleanStart ==
  \A s \in clean :
    /\ life[s] # "none"
    /\ \A r \in Id : Alive(r) /\ TupleOf(r) = TupleOf(s) => s <= r
    /\ \A i \in DOMAIN pkt_receiver :
         Forgets(pkt_receiver, i, TupleOf(s)) => s <= pkt_receiver[i].by

\* Streams and their packets have arrived; a stream that is cut was opened.
LogsArrived ==
  \A s \in Id :
    /\ \A i \in DOMAIN log[s] : log[s][i] \in DOMAIN arrived
    /\ log[s] # <<>> => s \in DOMAIN arrived
    /\ cut[s] # 0 => life[s] # "none" /\ cut[s] \in DOMAIN arrived

IInv ==
  /\ TypeOK
  /\ StreamsOpened
  /\ TableOfStreams
  /\ NewestOwnsEntry
  /\ SentByArrived
  /\ DeadForgotten
  /\ NewerBehind
  /\ CleanStart
  /\ LogsArrived
  /\ RoutedByTuple
  /\ CutOnlyByOlder

\* The tuples of the table, and what a reply says of the packet it answers.
LEMMA TupleFacts ==
  ASSUME NEW p \in InPacket, NEW s \in Id, NEW ttl \in {TTL, DROP_TTL}
  PROVE  /\ NetworkTuple(p) \in Tuple
         /\ NetworkTuple(p).tcp = IsTcp(p)
         /\ RevPacket(p, s, ttl) \in OutPacket
         /\ RevPacket(p, s, ttl).by = s
         /\ RevPacket(p, s, ttl).ttl = ttl
         /\ RevPacket(p, s, ttl).tcp = IsTcp(p)
         /\ ReverseNetworkTuple(RevPacket(p, s, ttl)) = NetworkTuple(p)
<1>1. p.src \in Addr /\ p.dst \in Addr /\ IsTcp(p) \in BOOLEAN
  BY DEF InPacket, IsTcp
<1> QED
  BY <1>1, Zenon
     DEF NetworkTuple, RevPacket, ReverseNetworkTuple, Tuple, OutPacket

\* The tuple of a packet in the channel is one of the table.
LEMMA ReverseTuple ==
  ASSUME NEW q \in OutPacket
  PROVE  /\ ReverseNetworkTuple(q) \in Tuple
         /\ ReverseNetworkTuple(q).tcp = q.tcp
         /\ q.by \in Id
BY Zenon DEF OutPacket, Tuple, ReverseNetworkTuple

\* A packet read from the device gets the next number, and the packets
\* before it keep theirs.
LEMMA ArrivedGrows ==
  ASSUME TypeOK, NEW p \in InPacket, DeviceRead(p)
  PROVE  /\ NextId \in Id
         /\ arrived' \in Seq(InPacket) /\ Len(arrived') <= MaxPackets
         /\ NextId \notin DOMAIN arrived
         /\ NextId \in DOMAIN arrived' /\ arrived'[NextId] = p
         /\ DOMAIN arrived \subseteq Id
         /\ \A s \in DOMAIN arrived : /\ s \in DOMAIN arrived'
                                      /\ arrived'[s] = arrived[s]
                                      /\ s < NextId
<1>1. /\ arrived \in Seq(InPacket) /\ arrived' = Append(arrived, p)
      /\ Len(arrived) < MaxPackets /\ MaxPackets \in Nat
  BY SessionsAssumption, Zenon DEF TypeOK, DeviceRead
<1>2. /\ arrived' \in Seq(InPacket) /\ Len(arrived') = Len(arrived) + 1
      /\ arrived'[Len(arrived) + 1] = p
      /\ \A s \in 1 .. Len(arrived) : arrived'[s] = arrived[s]
  BY <1>1
<1>3. /\ DOMAIN arrived = 1 .. Len(arrived) /\ Len(arrived) \in Nat
      /\ DOMAIN arrived' = 1 .. Len(arrived')
  BY <1>1, <1>2
<1> QED
  BY <1>1, <1>2, <1>3 DEF NextId, Id

\* What reading a packet leaves as it was, where only the packets that have
\* arrived change.
LEMMA GrownFrame ==
  ASSUME IInv, NEW p \in InPacket, DeviceRead(p)
  PROVE  /\ UNCHANGED life => StreamsOpened'
         /\ UNCHANGED <<life, sessions, running>> =>
              TableOfStreams' /\ NewestOwnsEntry'
         /\ UNCHANGED pkt_receiver => SentByArrived'
         /\ UNCHANGED <<life, clean>> /\ pkt_receiver' \in {pkt_receiver, <<>>} =>
              CleanStart'
         /\ UNCHANGED <<log, life>> => LogsArrived'
         /\ UNCHANGED log => RoutedByTuple'
         /\ UNCHANGED <<life, clean>>
            /\ (UNCHANGED <<sessions, running>> \/ ~ running') => CutOnlyByOlder'
<1>1. /\ DOMAIN arrived \subseteq Id
      /\ \A s \in DOMAIN arrived : s \in DOMAIN arrived' /\ arrived'[s] = arrived[s]
  BY ArrivedGrows, Zenon DEF IInv
<1>2. \A s \in DOMAIN arrived : TupleOf(s)' = TupleOf(s)
  BY <1>1, Zenon DEF TupleOf
<1>3. UNCHANGED cut
  BY Zenon DEF DeviceRead
<1>4. UNCHANGED life => StreamsOpened'
  BY <1>1, Zenon DEF IInv, StreamsOpened
<1>5. \A t \in Tuple : sessions[t] # 0 => sessions[t] \in Id
  BY DEF IInv, TypeOK, Id
<1>6. ASSUME UNCHANGED <<life, sessions, running>>
      PROVE  TableOfStreams'
  BY <1>2, <1>5, <1>6, Zenon DEF IInv, StreamsOpened, TableOfStreams
<1>7. ASSUME UNCHANGED <<life, sessions>>
      PROVE  NewestOwnsEntry'
  BY <1>2, <1>7 DEF IInv, StreamsOpened, TableOfStreams, NewestOwnsEntry, Id
<1>8. UNCHANGED pkt_receiver => SentByArrived'
  BY <1>1, <1>2, Zenon DEF IInv, SentByArrived
<1>9. ASSUME UNCHANGED <<life, clean>>, pkt_receiver' \in {pkt_receiver, <<>>}
      PROVE  CleanStart'
  <2>1. \A s \in Id : life[s] # "none" => TupleOf(s)' = TupleOf(s)
    BY <1>2, Zenon DEF IInv, StreamsOpened
  <2>2. \A r \in Id : Alive(r)' = Alive(r) /\ (Alive(r) => life[r] # "none")
    BY <1>9, Zenon DEF Alive
  <2>3. clean \subseteq Id
    BY Zenon DEF IInv, TypeOK
  <2> QED
    BY <1>9, <2>1, <2>2, <2>3 DEF IInv, CleanStart, Forgets
<1>10. UNCHANGED <<log, life>> => LogsArrived'
  BY <1>1, <1>3, Zenon DEF IInv, LogsArrived
<1>11. UNCHANGED log => RoutedByTuple'
  BY <1>1 DEF IInv, RoutedByTuple, LogsArrived
<1>12. ASSUME UNCHANGED <<life, clean>>,
              UNCHANGED <<sessions, running>> \/ ~ running'
       PROVE  CutOnlyByOlder'
  <2>1. \A s \in Id : life[s] # "none" => TupleOf(s)' = TupleOf(s)
    BY <1>2 DEF IInv, StreamsOpened
  <2>2. \A s \in Id : Alive(s)' = Alive(s) /\ (Alive(s) => life[s] # "none")
    BY <1>12, Zenon DEF Alive
  <2>3. \A s \in Id : cut[s] # 0 => /\ TupleOf(s)' = TupleOf(s)
                                    /\ TupleOf(cut[s])' = TupleOf(cut[s])
    BY <1>1, <1>3, <2>1, Zenon DEF IInv, LogsArrived, TupleOf
  <2> QED
    BY <1>3, <1>12, <2>1, <2>2, <2>3, Zenon DEF IInv, CutOnlyByOlder
<1> QED
  BY <1>4, <1>6, <1>7, <1>8, <1>9, <1>10, <1>11, <1>12, Zenon

\* After the end of the task the table and the channel are empty.
LEMMA TaskEnded ==
  ASSUME TaskEnds
  PROVE  TableOfStreams' /\ NewestOwnsEntry' /\ SentByArrived'
           /\ DeadForgotten' /\ NewerBehind'
BY DEF TaskEnds, TableOfStreams, NewestOwnsEntry, SentByArrived, DeadForgotten,
       NewerBehind, Id

\* The types of what the end of the task changes.
LEMMA TaskTypes ==
  ASSUME TaskEnds
  PROVE  /\ running' \in BOOLEAN /\ reading' \in BOOLEAN
         /\ sessions' \in [Tuple -> 0 .. MaxPackets]
         /\ pkt_receiver' \in Seq(OutPacket)
<1>1. 0 \in 0 .. MaxPackets
  BY SessionsAssumption
<1>2. sessions' \in [Tuple -> 0 .. MaxPackets]
  BY <1>1, Zenon DEF TaskEnds
<1>3. pkt_receiver' \in Seq(OutPacket)
  BY DEF TaskEnds
<1>4. running' \in BOOLEAN /\ reading' \in BOOLEAN
  BY Zenon DEF TaskEnds
<1> QED
  BY <1>2, <1>3, <1>4, Zenon

\* At the start the table and the channel are empty and no stream exists.
LEMMA IInvInit == Init => IInv
<1> SUFFICES ASSUME Init
             PROVE  IInv
  BY Zenon
<1>1. TypeOK
  BY SessionsAssumption DEF Init, TypeOK
<1>2. /\ \A s \in Id : life[s] = "none" /\ log[s] = <<>> /\ cut[s] = 0
      /\ \A t \in Tuple : sessions[t] = 0
      /\ arrived = <<>> /\ pkt_receiver = <<>> /\ clean = {} /\ running
  BY Zenon DEF Init
<1>3. StreamsOpened /\ TableOfStreams /\ NewestOwnsEntry /\ SentByArrived
  BY <1>2
     DEF StreamsOpened, TableOfStreams, NewestOwnsEntry, SentByArrived, Id
<1>4. DeadForgotten /\ NewerBehind /\ CleanStart /\ LogsArrived
  BY <1>2 DEF DeadForgotten, NewerBehind, CleanStart, LogsArrived
<1>5. RoutedByTuple /\ CutOnlyByOlder
  BY <1>2 DEF RoutedByTuple, CutOnlyByOlder, Alive
<1> QED
  BY <1>1, <1>3, <1>4, <1>5, Zenon DEF IInv

\* A packet without a session.
LEMMA ReadUnknownStep ==
  ASSUME IInv, NEW p \in InPacket, ReadUnknown(p)
  PROVE  IInv'
<1>1. /\ DeviceRead(p) /\ running
      /\ UNCHANGED <<life, log, refused, clean, asked, written, cut, ip_stack>>
  BY Zenon DEF ReadUnknown, DeviceRead
<1>2. /\ NextId \in Id
      /\ arrived' \in Seq(InPacket) /\ Len(arrived') <= MaxPackets
  BY <1>1, ArrivedGrows, Zenon DEF IInv
<1>3. accept_queue' \in Seq(Id)
  BY <1>2 DEF ReadUnknown, IInv, TypeOK
<1>4. CASE ip_stack
  <2>1. /\ UNCHANGED <<sessions, pkt_receiver>> /\ running' = TRUE
        /\ reading' = TRUE
    BY <1>4, Zenon DEF ReadUnknown, TaskGoesOn
  <2>2. TypeOK'
    BY <1>1, <1>2, <1>3, <2>1, Zenon DEF IInv, TypeOK
  <2>3. DeadForgotten' /\ NewerBehind'
    BY <1>1, <2>1, Zenon DEF IInv, DeadForgotten, NewerBehind
  <2> QED
    BY <1>1, <2>1, <2>2, <2>3, GrownFrame, Zenon DEF IInv
<1>5. CASE ~ ip_stack
  <2>1. TaskEnds
    BY <1>5, Zenon DEF ReadUnknown
  <2>2. TypeOK'
    BY <1>1, <1>2, <1>3, <2>1, TaskTypes, Zenon DEF IInv, TypeOK
  <2>3. pkt_receiver' = <<>> /\ ~ running'
    BY <2>1, Zenon DEF TaskEnds
  <2> QED
    BY <1>1, <2>1, <2>2, <2>3, GrownFrame, TaskEnded, Zenon DEF IInv
<1> QED
  BY <1>4, <1>5, Zenon

\* A packet for a stream that receives.
LEMMA ReadQueuedStep ==
  ASSUME IInv, NEW p \in InPacket, ReadQueued(p)
  PROVE  IInv'
<1>1. /\ DeviceRead(p) /\ HasSession(p)
      /\ UNCHANGED <<life, refused, clean, asked, written, cut, ip_stack,
                     accept_queue, sessions, pkt_receiver>>
      /\ running = TRUE /\ running' = TRUE /\ reading' = TRUE
  BY Zenon DEF ReadQueued, DeviceRead, TaskGoesOn, IInv, TypeOK
<1>2. PICK s \in Id : /\ sessions[NetworkTuple(p)] = s
                      /\ log' = [log EXCEPT ![s] = Append(@, NextId)]
  BY Zenon DEF ReadQueued
<1>3. /\ NextId \in Id
      /\ arrived' \in Seq(InPacket) /\ Len(arrived') <= MaxPackets
      /\ NextId \in DOMAIN arrived' /\ arrived'[NextId] = p
      /\ \A i \in DOMAIN arrived : i \in DOMAIN arrived' /\ arrived'[i] = arrived[i]
  BY <1>1, ArrivedGrows, Zenon DEF IInv
<1>4. log \in [Id -> Seq(Id)] /\ log' \in [Id -> Seq(Id)]
  BY <1>2, <1>3 DEF IInv, TypeOK
<1>5. TypeOK'
  BY <1>1, <1>3, <1>4, Zenon DEF IInv, TypeOK
<1>6. DeadForgotten' /\ NewerBehind'
  BY <1>1, Zenon DEF IInv, DeadForgotten, NewerBehind
<1>7. /\ s \in DOMAIN arrived
      /\ TupleOf(s) = NetworkTuple(p)
  <2>1. NetworkTuple(p) \in Tuple
    BY <1>2, TupleFacts, Zenon
  <2> QED
    BY <1>2, <2>1 DEF IInv, TableOfStreams, StreamsOpened, Id
<1>8. \A r \in Id : \A i \in DOMAIN log'[r] :
        \/ i \in DOMAIN log[r] /\ log'[r][i] = log[r][i]
        \/ r = s /\ log'[r][i] = NextId
  <2>1. ASSUME NEW i \in DOMAIN log'[s]
        PROVE  \/ i \in DOMAIN log[s] /\ log'[s][i] = log[s][i]
               \/ log'[s][i] = NextId
    <3>1. log'[s] = Append(log[s], NextId) /\ log[s] \in Seq(Id)
      BY <1>2, <1>4, Zenon
    <3> QED
      BY <1>3, <3>1
  <2>2. \A r \in Id : r # s => log'[r] = log[r]
    BY <1>2, <1>4, Zenon
  <2> QED
    BY <2>1, <2>2, Zenon
<1>9. LogsArrived'
  <2>1. \A r \in Id : log'[r] # <<>> => r \in DOMAIN arrived'
    BY <1>2, <1>3, <1>4, <1>7 DEF IInv, LogsArrived
  <2>2. \A r \in Id : cut'[r] # 0 => life'[r] # "none" /\ cut'[r] \in DOMAIN arrived'
    BY <1>1, <1>3, Zenon DEF IInv, LogsArrived
  <2> QED
    BY <1>3, <1>8, <2>1, <2>2 DEF IInv, LogsArrived
<1>10. RoutedByTuple'
  <2> SUFFICES ASSUME NEW r \in Id, NEW i \in DOMAIN log'[r]
               PROVE  /\ HasSession(arrived'[log'[r][i]])
                      /\ NetworkTuple(arrived'[log'[r][i]]) = NetworkTuple(arrived'[r])
    BY Zenon DEF RoutedByTuple, NetworkTuple
  <2>1. CASE i \in DOMAIN log[r] /\ log'[r][i] = log[r][i]
    <3>1. log[r][i] \in DOMAIN arrived /\ r \in DOMAIN arrived
      BY <1>4, <2>1 DEF IInv, LogsArrived
    <3>2. /\ HasSession(arrived[log[r][i]])
          /\ NetworkTuple(arrived[log[r][i]]) = NetworkTuple(arrived[r])
      BY <2>1, Zenon DEF IInv, RoutedByTuple, NetworkTuple
    <3> QED
      BY <1>3, <2>1, <3>1, <3>2
  <2>2. CASE r = s /\ log'[r][i] = NextId
    BY <1>1, <1>3, <1>7, <2>2, Zenon DEF TupleOf
  <2> QED
    BY <1>8, <2>1, <2>2, Zenon
<1> QED
  BY <1>1, <1>5, <1>6, <1>9, <1>10, GrownFrame, Zenon DEF IInv

\* A packet that opens a stream.
LEMMA ReadOpensStep ==
  ASSUME IInv, NEW p \in InPacket, ReadOpens(p)
  PROVE  IInv'
<1> DEFINE t == NetworkTuple(p)
<1>0. PICK n \in Id : n = NextId
  <2>1. DeviceRead(p)
    BY Zenon DEF ReadOpens
  <2> QED
    BY <2>1, ArrivedGrows, Zenon DEF IInv
<1>1. /\ DeviceRead(p) /\ p.kind \in {"syn", "udp"} /\ NoStream(t)
      /\ life' = [life EXCEPT ![n] = IF ip_stack THEN "queued" ELSE Abandoned(p)]
      /\ log' = [log EXCEPT ![n] = <<n>>]
      /\ clean' = IF NothingOlder(t) THEN clean \cup {n} ELSE clean
      /\ running = TRUE
      /\ UNCHANGED <<refused, asked, written, cut, ip_stack>>
  BY <1>0, Zenon DEF ReadOpens, DeviceRead, Opened, IInv, TypeOK
<1>2. /\ arrived' \in Seq(InPacket) /\ Len(arrived') <= MaxPackets
      /\ n \notin DOMAIN arrived
      /\ n \in DOMAIN arrived' /\ arrived'[n] = p
      /\ DOMAIN arrived \subseteq Id
      /\ \A i \in DOMAIN arrived :
           i \in DOMAIN arrived' /\ arrived'[i] = arrived[i] /\ i < n
  BY <1>0, <1>1, ArrivedGrows, Zenon DEF IInv
<1>3. accept_queue' \in Seq(Id)
  BY <1>0 DEF ReadOpens, IInv, TypeOK
<1>4. t \in Tuple /\ HasSession(p)
  BY <1>1, <1>2, TupleFacts, Zenon DEF HasSession, IsTcp
<1>5. /\ life[n] = "none" /\ cut[n] = 0
      /\ \A s \in Id : life[s] # "none" => s # n /\ s \in DOMAIN arrived
  BY <1>2, Zenon DEF IInv, StreamsOpened, LogsArrived
<1>6. /\ life'[n] \in {"queued", "orphan", "gone"}
      /\ life'[n] = "orphan" => IsTcp(p)
      /\ ip_stack => life'[n] = "queued"
      /\ \A s \in Id : s # n => life'[s] = life[s]
      /\ life' \in [Id -> {"none", "queued", "held", "orphan", "dying", "gone"}]
  BY <1>1, <1>2, Zenon DEF IInv, TypeOK, Abandoned
<1>7. /\ log' \in [Id -> Seq(Id)]
      /\ log'[n] = <<n>> /\ \A s \in Id : s # n => log'[s] = log[s]
      /\ clean' \subseteq Id
  BY <1>1, <1>2 DEF IInv, TypeOK
<1>8. /\ TupleOf(n)' = t
      /\ \A s \in DOMAIN arrived : TupleOf(s)' = TupleOf(s)
  BY <1>2, Zenon DEF TupleOf
<1>9. StreamsOpened'
  BY <1>1, <1>2, <1>6 DEF IInv, StreamsOpened
<1>10. LogsArrived'
  BY <1>1, <1>2, <1>5, <1>6, <1>7 DEF IInv, LogsArrived
<1>11. RoutedByTuple'
  <2> SUFFICES ASSUME NEW r \in Id, NEW i \in DOMAIN log'[r]
               PROVE  /\ HasSession(arrived'[log'[r][i]])
                      /\ NetworkTuple(arrived'[log'[r][i]]) = NetworkTuple(arrived'[r])
    BY DEF RoutedByTuple, NetworkTuple
  <2>1. CASE r = n
    BY <1>2, <1>4, <1>7, <2>1
  <2>2. CASE r # n
    <3>1. log'[r] = log[r] /\ log[r] # <<>>
      BY <1>7, <2>2 DEF IInv, TypeOK
    <3>2. log[r][i] \in DOMAIN arrived /\ r \in DOMAIN arrived
      BY <3>1, Zenon DEF IInv, LogsArrived
    <3>3. /\ HasSession(arrived[log[r][i]])
          /\ NetworkTuple(arrived[log[r][i]]) = NetworkTuple(arrived[r])
      BY <3>1, Zenon DEF IInv, RoutedByTuple, NetworkTuple
    <3> QED
      BY <1>2, <3>1, <3>2, <3>3, Zenon
  <2> QED
    BY <2>1, <2>2, Zenon
<1>12. ASSUME pkt_receiver' \in {pkt_receiver, <<>>}
       PROVE  CleanStart'
  <2> SUFFICES ASSUME NEW s \in clean'
               PROVE  /\ life'[s] # "none"
                      /\ \A r \in Id : Alive(r)' /\ TupleOf(r)' = TupleOf(s)' => s <= r
                      /\ \A i \in DOMAIN pkt_receiver :
                           Forgets(pkt_receiver, i, TupleOf(s)') =>
                             s <= pkt_receiver[i].by
    BY <1>12 DEF CleanStart
  <2>1. \A r \in Id : r # n /\ Alive(r)' =>
           Alive(r) /\ r \in DOMAIN arrived /\ TupleOf(r)' = TupleOf(r)
    BY <1>5, <1>6, <1>8, Zenon DEF Alive
  <2>2. CASE s \in clean
    <3>1. life[s] # "none" /\ s \in Id /\ s \in DOMAIN arrived /\ s # n
      BY <1>5, <2>2, Zenon DEF IInv, TypeOK, CleanStart
    <3>2. TupleOf(s)' = TupleOf(s) /\ s < n /\ life'[s] # "none"
      BY <1>2, <1>6, <1>8, <3>1, Zenon
    <3> QED
      BY <1>2, <2>1, <2>2, <3>1, <3>2 DEF IInv, CleanStart, Id
  <2>3. CASE s \notin clean
    <3>1. s = n /\ NothingOlder(t)
      BY <1>1, <2>3, Zenon
    <3>2. \A r \in Id : Alive(r)' /\ TupleOf(r)' = t => r = n
      BY <2>1, <3>1, Zenon DEF NothingOlder
    <3>3. \A i \in DOMAIN pkt_receiver : ~ Forgets(pkt_receiver, i, t)
      BY <3>1, Zenon DEF NothingOlder, Forgets
    <3> QED
      BY <1>2, <1>6, <1>8, <3>1, <3>2, <3>3 DEF Id
  <2> QED
    BY <2>2, <2>3, Zenon
<1>13. ASSUME running' => \A s \in Id : Alive(s)' /\ sessions'[TupleOf(s)'] # s => cut[s] # 0
       PROVE  CutOnlyByOlder'
  <2>1. ASSUME NEW s \in Id, cut[s] # 0
        PROVE  /\ cut[s] <= s
               /\ TupleOf(cut[s])' = TupleOf(s)'
               /\ s \in clean' => cut[s] = s
    <3>1. s # n /\ s \in DOMAIN arrived /\ cut[s] \in DOMAIN arrived
      BY <1>5, <2>1, Zenon DEF IInv, LogsArrived
    <3>2. TupleOf(s)' = TupleOf(s) /\ NetworkTuple(arrived'[cut[s]]) = TupleOf(cut[s])
      BY <1>2, <1>8, <3>1, Zenon DEF TupleOf
    <3>3. s \in clean' => s \in clean
      BY <1>1, <3>1, Zenon
    <3> QED
      BY <1>1, <2>1, <3>2, <3>3, Zenon DEF IInv, CutOnlyByOlder, TupleOf
  <2> QED
    BY <1>1, <1>13, <2>1, Zenon DEF CutOnlyByOlder
<1>14. CASE ip_stack
  <2>1. /\ sessions' = [sessions EXCEPT ![t] = n] /\ UNCHANGED pkt_receiver
        /\ running' = TRUE /\ reading' = TRUE
    BY <1>0, <1>14, Zenon DEF ReadOpens, TaskGoesOn, Inserted
  <2>2. /\ sessions' \in [Tuple -> 0 .. MaxPackets]
        /\ sessions'[t] = n
        /\ \A u \in Tuple : u # t => sessions'[u] = sessions[u]
        /\ \A u \in Tuple : sessions[u] # 0 => sessions[u] \in Id
    BY <1>2, <1>4, <2>1 DEF IInv, TypeOK, Id
  <2>3. TypeOK'
    BY <1>1, <1>2, <1>3, <1>6, <1>7, <2>1, <2>2, Zenon DEF IInv, TypeOK
  <2>4. TableOfStreams'
    BY <1>5, <1>6, <1>8, <2>1, <2>2 DEF IInv, TableOfStreams
  <2>5. NewestOwnsEntry'
    <3> SUFFICES ASSUME NEW u \in Tuple, NEW s \in Id, sessions'[u] = s,
                        NEW r \in Id, life'[r] # "none", TupleOf(r)' = u
                 PROVE  r <= s
      BY <2>4, <2>2 DEF NewestOwnsEntry, TableOfStreams, Id
    <3>1. CASE u = t
      <4>1. s = n /\ (r = n \/ r \in DOMAIN arrived)
        BY <1>5, <1>6, <2>2, <3>1, Zenon
      <4> QED
        BY <1>2, <4>1 DEF Id
    <3>2. CASE u # t
      <4>1. r # n /\ life[r] # "none" /\ r \in DOMAIN arrived
        BY <1>5, <1>6, <1>8, <3>2, Zenon
      <4> QED
        BY <1>8, <2>2, <3>2, <4>1, Zenon DEF IInv, NewestOwnsEntry
    <3> QED
      BY <3>1, <3>2, Zenon
  <2>6. SentByArrived'
    BY <1>1, <2>1, GrownFrame, Zenon
  <2>7. DeadForgotten'
    BY <1>5, <1>6, <1>14, <2>1, <2>2 DEF IInv, DeadForgotten, TableOfStreams
  <2>8. NewerBehind'
    <3> SUFFICES ASSUME NEW u \in Tuple, NEW i \in DOMAIN pkt_receiver,
                        Forgets(pkt_receiver, i, u), sessions'[u] # 0,
                        sessions'[u] < pkt_receiver[i].by
                 PROVE  \E j \in DOMAIN pkt_receiver : j < i /\ Forgets(pkt_receiver, j, u)
      BY <2>1, Zenon DEF NewerBehind
    <3>1. pkt_receiver[i].by \in DOMAIN arrived
      BY Zenon DEF IInv, SentByArrived
    <3>2. u # t
      BY <1>2, <2>2, <3>1 DEF Id
    <3> QED
      BY <2>2, <3>2, Zenon DEF IInv, NewerBehind
  <2>9. CutOnlyByOlder'
    <3>1. ASSUME NEW s \in Id, Alive(s)', sessions'[TupleOf(s)'] # s
          PROVE  cut[s] # 0
      <4>1. s # n
        BY <1>8, <2>2, <3>1, Zenon
      <4>2. Alive(s) /\ life[s] # "none"
        BY <1>6, <3>1, <4>1, Zenon DEF Alive
      <4>3. s \in DOMAIN arrived /\ TupleOf(s)' = TupleOf(s)
        BY <1>5, <1>8, <4>2, Zenon
      <4>4. TupleOf(s) \in Tuple
        BY <4>3, TupleFacts DEF TupleOf, IInv, TypeOK
      <4>5. sessions[TupleOf(s)] # s
        BY <2>2, <3>1, <4>2, <4>3, <4>4, <1>1, Zenon DEF NoStream
      <4> QED
        BY <1>1, <4>2, <4>5, Zenon DEF IInv, CutOnlyByOlder
    <3> QED
      BY <1>13, <3>1, Zenon
  <2> QED
    BY <1>9, <1>10, <1>11, <1>12, <2>1, <2>3, <2>4, <2>5, <2>6, <2>7,
       <2>8, <2>9, Zenon
       DEF IInv
<1>15. CASE ~ ip_stack
  <2>1. TaskEnds
    BY <1>15, Zenon DEF ReadOpens
  <2>2. pkt_receiver' = <<>> /\ ~ running'
    BY <2>1, Zenon DEF TaskEnds
  <2>3. TypeOK'
    BY <1>1, <1>2, <1>3, <1>6, <1>7, <2>1, TaskTypes, Zenon DEF IInv, TypeOK
  <2> QED
    BY <1>9, <1>10, <1>11, <1>12, <1>13, <2>1, <2>2, <2>3, TaskEnded, Zenon
       DEF IInv
<1> QED
  BY <1>14, <1>15, Zenon

----------------------------------------------------------------------------

\* The channel w has the packets of q, and behind them those of u.
Extends(w, q, u) ==
  /\ w \in Seq(OutPacket)
  /\ \A i \in DOMAIN q : i \in DOMAIN w /\ w[i] = q[i]
  /\ \A i \in DOMAIN w : i \notin DOMAIN q =>
       /\ \A j \in DOMAIN q : j < i
       /\ \E k \in DOMAIN u : w[i] = u[k]
  /\ \A k \in DOMAIN u : \E i \in DOMAIN w : w[i] = u[k]

\* What sending packets through the channel does to it.
LEMMA Extended ==
  ASSUME NEW q \in Seq(OutPacket), NEW u \in Seq(OutPacket), NEW w, w = q \o u
  PROVE  Extends(w, q, u)
<1>1. /\ q \o u \in Seq(OutPacket)
      /\ Len(q \o u) = Len(q) + Len(u)
      /\ \A i \in 1 .. Len(q) : (q \o u)[i] = q[i]
      /\ \A k \in 1 .. Len(u) : (q \o u)[Len(q) + k] = u[k]
  <2>1. q \o u \in Seq(OutPacket) /\ Len(q \o u) = Len(q) + Len(u)
    OBVIOUS
  <2>2. ASSUME NEW i \in 1 .. Len(q)
        PROVE  (q \o u)[i] = q[i]
    OBVIOUS
  <2>3. ASSUME NEW k \in 1 .. Len(u)
        PROVE  (q \o u)[Len(q) + k] = u[k]
    OBVIOUS
  <2> QED
    BY <2>1, <2>2, <2>3, Zenon
<1>2. /\ DOMAIN q = 1 .. Len(q) /\ DOMAIN u = 1 .. Len(u)
      /\ DOMAIN (q \o u) = 1 .. Len(q) + Len(u)
      /\ Len(q) \in Nat /\ Len(u) \in Nat
  BY <1>1
<1>3. ASSUME NEW i \in 1 .. Len(q) + Len(u), i \notin 1 .. Len(q)
      PROVE  \E k \in 1 .. Len(u) : (q \o u)[i] = u[k]
  <2>1. i - Len(q) \in 1 .. Len(u) /\ Len(q) + (i - Len(q)) = i
    BY <1>2, <1>3
  <2> QED
    BY <1>1, <2>1
<1>4. ASSUME NEW k \in 1 .. Len(u)
      PROVE  Len(q) + k \in 1 .. Len(q) + Len(u)
  BY <1>2
<1>5. \A i \in DOMAIN q : i \in DOMAIN w /\ w[i] = q[i]
  BY <1>1, <1>2
<1>6. \A i \in DOMAIN w : i \notin DOMAIN q =>
        (\A j \in DOMAIN q : j < i) /\ \E k \in DOMAIN u : w[i] = u[k]
  <2> SUFFICES ASSUME NEW i \in DOMAIN w, i \notin DOMAIN q
               PROVE  (\A j \in DOMAIN q : j < i) /\ \E k \in DOMAIN u : w[i] = u[k]
    BY Zenon
  <2>1. i \in 1 .. Len(q) + Len(u) /\ i \notin 1 .. Len(q)
    BY <1>2, Zenon
  <2>2. \A j \in DOMAIN q : j < i
    BY <1>2, <2>1
  <2>3. \E k \in DOMAIN u : w[i] = u[k]
    BY <1>2, <1>3, <2>1, Zenon
  <2> QED
    BY <2>2, <2>3, Zenon
<1>7. \A k \in DOMAIN u : \E i \in DOMAIN w : w[i] = u[k]
  BY <1>1, <1>2, <1>4, Zenon
<1> QED
  BY <1>1, <1>5, <1>6, <1>7, Zenon DEF Extends

\* What receiving from the channel does to it.
LEMMA FirstTaken ==
  ASSUME NEW q \in Seq(OutPacket), q # <<>>
  PROVE  /\ Tail(q) \in Seq(OutPacket)
         /\ 1 \in DOMAIN q /\ q[1] = Head(q) /\ DOMAIN q \subseteq Nat \ {0}
         /\ \A i \in DOMAIN Tail(q) : i + 1 \in DOMAIN q /\ Tail(q)[i] = q[i + 1]
         /\ \A j \in DOMAIN q : j # 1 =>
              j - 1 \in DOMAIN Tail(q) /\ Tail(q)[j - 1] = q[j]
<1>1. /\ Tail(q) \in Seq(OutPacket) /\ Len(Tail(q)) = Len(q) - 1
      /\ \A i \in 1 .. Len(q) - 1 : Tail(q)[i] = q[i + 1]
      /\ Len(q) \in Nat \ {0}
      /\ Head(q) = q[1]
  OBVIOUS
<1>2. DOMAIN q = 1 .. Len(q) /\ DOMAIN Tail(q) = 1 .. Len(q) - 1
  BY <1>1
<1> QED
  BY <1>1, <1>2

\* A packet that is refused: its request goes behind everything that was
\* sent, in particular behind the request of a stream that has gone.
LEMMA ReadRefusedStep ==
  ASSUME IInv, NEW p \in InPacket, ReadRefused(p)
  PROVE  IInv'
<1> DEFINE t == NetworkTuple(p)
<1>0. PICK n \in Id : n = NextId
  <2>1. DeviceRead(p)
    BY Zenon DEF ReadRefused
  <2> QED
    BY <2>1, ArrivedGrows DEF IInv
<1> DEFINE u == Refusal(p, n)
<1>1. /\ DeviceRead(p) /\ p.kind \in {"rst", "segment"} /\ NoStream(t)
      /\ pkt_receiver' = pkt_receiver \o u
      /\ refused' = refused \cup {n}
      /\ running = TRUE /\ running' = TRUE /\ reading' = TRUE
      /\ UNCHANGED <<sessions, accept_queue, life, log, clean, asked, written,
                     cut, ip_stack>>
  BY <1>0, Zenon DEF ReadRefused, DeviceRead, TaskGoesOn, IInv, TypeOK
<1>2. /\ arrived' \in Seq(InPacket) /\ Len(arrived') <= MaxPackets
      /\ n \in DOMAIN arrived' /\ arrived'[n] = p
      /\ DOMAIN arrived \subseteq Id
      /\ \A i \in DOMAIN arrived :
           i \in DOMAIN arrived' /\ arrived'[i] = arrived[i] /\ i < n
  BY <1>0, <1>1, ArrivedGrows, Zenon DEF IInv
<1>3. IsTcp(p) /\ t \in Tuple /\ t.tcp
  BY <1>1, TupleFacts, Zenon DEF IsTcp
<1>4. /\ u \in Seq(OutPacket)
      /\ \A k \in DOMAIN u : /\ u[k].by = n
                             /\ ReverseNetworkTuple(u[k]) = t
                             /\ u[k].tcp
  <2>1. \A ttl \in {TTL, DROP_TTL} :
          /\ RevPacket(p, n, ttl) \in OutPacket
          /\ RevPacket(p, n, ttl).by = n
          /\ ReverseNetworkTuple(RevPacket(p, n, ttl)) = t
          /\ RevPacket(p, n, ttl).tcp
    BY <1>3, TupleFacts
  <2> DEFINE x == IF p.kind = "rst" THEN <<>> ELSE <<RevPacket(p, n, TTL)>>
  <2> DEFINE y == <<RevPacket(p, n, DROP_TTL)>>
  <2>2. u = x \o y
    BY Zenon DEF Refusal
  <2>3. /\ x \in Seq(OutPacket) /\ y \in Seq(OutPacket)
        /\ \A k \in DOMAIN x : x[k] = RevPacket(p, n, TTL)
        /\ \A k \in DOMAIN y : y[k] = RevPacket(p, n, DROP_TTL)
    BY <2>1
  <2> HIDE DEF u, t, x, y
  <2>4. u \in Seq(OutPacket)
    BY <2>2, <2>3, Extended, Zenon DEF Extends
  <2>5. \A k \in DOMAIN u : u[k] \in {RevPacket(p, n, TTL), RevPacket(p, n, DROP_TTL)}
    BY <2>2, <2>3, Extended DEF Extends
  <2> QED
    BY <2>1, <2>4, <2>5, Zenon
<1> HIDE DEF u, t
<1>5. /\ pkt_receiver' \in Seq(OutPacket)
      /\ \A i \in DOMAIN pkt_receiver :
           i \in DOMAIN pkt_receiver' /\ pkt_receiver'[i] = pkt_receiver[i]
      /\ \A i \in DOMAIN pkt_receiver' : i \notin DOMAIN pkt_receiver =>
           /\ \A j \in DOMAIN pkt_receiver : j < i
           /\ \E k \in DOMAIN u : pkt_receiver'[i] = u[k]
  <2>1. pkt_receiver \in Seq(OutPacket)
    BY Zenon DEF IInv, TypeOK
  <2>2. u \in Seq(OutPacket) /\ pkt_receiver' = pkt_receiver \o u
    BY <1>1, <1>4, Zenon
  <2> QED
    <3>1. Extends(pkt_receiver', pkt_receiver, u)
      BY <2>1, <2>2, Extended, Zenon
    <3> QED
      BY <3>1, Zenon DEF Extends
<1>6. \A i \in DOMAIN pkt_receiver' : i \notin DOMAIN pkt_receiver =>
        /\ \A j \in DOMAIN pkt_receiver : j < i
        /\ pkt_receiver'[i].by = n
        /\ ReverseNetworkTuple(pkt_receiver'[i]) = t
        /\ pkt_receiver'[i].tcp
  BY <1>4, <1>5
<1>7. TypeOK'
  BY <1>1, <1>2, <1>5 DEF IInv, TypeOK
<1>8. /\ NetworkTuple(arrived'[n]) = t
      /\ \A s \in DOMAIN arrived : TupleOf(s)' = TupleOf(s)
  BY <1>2, Zenon DEF TupleOf, t
<1>9. SentByArrived'
  <2> SUFFICES ASSUME NEW i \in DOMAIN pkt_receiver'
               PROVE  /\ pkt_receiver'[i].by \in DOMAIN arrived'
                      /\ ReverseNetworkTuple(pkt_receiver'[i])
                           = NetworkTuple(arrived'[pkt_receiver'[i].by])
                      /\ pkt_receiver'[i].ttl = DROP_TTL => pkt_receiver'[i].tcp
    BY Zenon DEF SentByArrived, TupleOf
  <2>1. CASE i \in DOMAIN pkt_receiver
    BY <1>2, <1>5, <2>1 DEF IInv, SentByArrived, TupleOf
  <2>2. CASE i \notin DOMAIN pkt_receiver
    BY <1>2, <1>6, <1>8, <2>2
  <2> QED
    BY <2>1, <2>2, Zenon
<1>10. DeadForgotten'
  <2>1. \A v : \A j \in DOMAIN pkt_receiver :
          Forgets(pkt_receiver, j, v) =>
            j \in DOMAIN pkt_receiver' /\ Forgets(pkt_receiver', j, v)
    BY <1>5, Zenon DEF Forgets
  <2>2. UNCHANGED <<sessions, life>>
    BY <1>1, Zenon
  <2> QED
    BY <2>1, <2>2, Zenon DEF IInv, DeadForgotten
<1>11. NewerBehind'
  <2> SUFFICES ASSUME NEW v \in Tuple, NEW i \in DOMAIN pkt_receiver',
                      Forgets(pkt_receiver', i, v), sessions[v] # 0,
                      sessions[v] < pkt_receiver'[i].by
               PROVE  \E j \in DOMAIN pkt_receiver' :
                        j < i /\ Forgets(pkt_receiver', j, v)
    BY <1>1, Zenon DEF NewerBehind
  <2>1. CASE i \in DOMAIN pkt_receiver
    BY <1>5, <2>1 DEF IInv, NewerBehind, Forgets
  <2>2. CASE i \notin DOMAIN pkt_receiver
    <3>1. v = t /\ sessions[t] \in Id
      BY <1>6, <2>2 DEF Forgets, IInv, TypeOK, Id
    <3>2. ~ (life[sessions[t]] \in {"queued", "held", "orphan"})
      BY <1>1, <3>1, Zenon DEF NoStream, Alive
    <3>3. PICK j \in DOMAIN pkt_receiver : Forgets(pkt_receiver, j, t)
      BY <1>3, <3>1, <3>2, Zenon DEF IInv, DeadForgotten
    <3> QED
      BY <1>5, <2>2, <3>1, <3>3 DEF Forgets
  <2> QED
    BY <2>1, <2>2, Zenon
<1>12. CleanStart'
  <2> SUFFICES ASSUME NEW s \in clean
               PROVE  /\ life[s] # "none"
                      /\ \A r \in Id : Alive(r) /\ TupleOf(r)' = TupleOf(s)' => s <= r
                      /\ \A i \in DOMAIN pkt_receiver' :
                           Forgets(pkt_receiver', i, TupleOf(s)') =>
                             s <= pkt_receiver'[i].by
    BY <1>1, Zenon DEF CleanStart, Alive
  <2>1. /\ life[s] # "none" /\ s \in DOMAIN arrived /\ s \in Id
        /\ TupleOf(s)' = TupleOf(s)
    BY <1>8, Zenon DEF IInv, TypeOK, CleanStart, StreamsOpened
  <2>2. \A r \in Id : Alive(r) => TupleOf(r)' = TupleOf(r)
    BY <1>8, Zenon DEF IInv, StreamsOpened, Alive
  <2>3. ASSUME NEW i \in DOMAIN pkt_receiver', Forgets(pkt_receiver', i, TupleOf(s))
        PROVE  s <= pkt_receiver'[i].by
    <3>1. CASE i \in DOMAIN pkt_receiver
      BY <1>5, <2>3, <3>1 DEF IInv, CleanStart, Forgets
    <3>2. CASE i \notin DOMAIN pkt_receiver
      BY <1>2, <1>6, <2>1, <3>2 DEF Id
    <3> QED
      BY <3>1, <3>2, Zenon
  <2> QED
    BY <2>1, <2>2, <2>3, Zenon DEF IInv, CleanStart
<1> QED
  BY <1>1, <1>7, <1>9, <1>10, <1>11, <1>12, GrownFrame, Zenon DEF IInv

\* The rest of the channel keeps what was said of its packets, if the first
\* one either was no request or has been obeyed.
LEMMA RestOfChannel ==
  ASSUME IInv, pkt_receiver # <<>>, pkt_receiver' = Tail(pkt_receiver),
         UNCHANGED <<arrived, life, clean>>,
         \A t \in Tuple : sessions'[t] # 0 =>
           sessions'[t] = sessions[t] /\ ~ Forgets(pkt_receiver, 1, t)
  PROVE  /\ pkt_receiver' \in Seq(OutPacket)
         /\ SentByArrived' /\ DeadForgotten' /\ NewerBehind' /\ CleanStart'
<1>1. /\ pkt_receiver' \in Seq(OutPacket)
      /\ DOMAIN pkt_receiver \subseteq Nat \ {0}
      /\ \A i \in DOMAIN pkt_receiver' :
           i + 1 \in DOMAIN pkt_receiver /\ pkt_receiver'[i] = pkt_receiver[i + 1]
      /\ \A j \in DOMAIN pkt_receiver : j # 1 =>
           /\ j - 1 \in DOMAIN pkt_receiver'
           /\ pkt_receiver'[j - 1] = pkt_receiver[j]
  <2>1. pkt_receiver \in Seq(OutPacket)
    BY Zenon DEF IInv, TypeOK
  <2> QED
    BY <2>1, FirstTaken
<1>2. SentByArrived'
  BY <1>1 DEF IInv, SentByArrived, TupleOf
<1>3. DeadForgotten'
  <2> SUFFICES ASSUME NEW t \in Tuple, t.tcp, sessions'[t] # 0,
                      ~ (life[sessions'[t]] \in {"queued", "held", "orphan"})
               PROVE  \E j \in DOMAIN pkt_receiver' : Forgets(pkt_receiver', j, t)
    BY Zenon DEF DeadForgotten
  <2>1. sessions'[t] = sessions[t] /\ ~ Forgets(pkt_receiver, 1, t)
    BY Zenon
  <2>2. PICK j \in DOMAIN pkt_receiver : Forgets(pkt_receiver, j, t)
    BY <2>1, Zenon DEF IInv, DeadForgotten
  <2>3. j # 1
    BY <2>1, <2>2, Zenon
  <2>4. Forgets(pkt_receiver', j - 1, t) /\ j - 1 \in DOMAIN pkt_receiver'
    BY <1>1, <2>2, <2>3, Zenon DEF Forgets
  <2> QED
    BY <2>4, Zenon
<1>4. NewerBehind'
  <2> SUFFICES ASSUME NEW t \in Tuple, NEW i \in DOMAIN pkt_receiver',
                      Forgets(pkt_receiver', i, t), sessions'[t] # 0,
                      sessions'[t] < pkt_receiver'[i].by
               PROVE  \E j \in DOMAIN pkt_receiver' :
                        j < i /\ Forgets(pkt_receiver', j, t)
    BY DEF NewerBehind
  <2>1. sessions'[t] = sessions[t] /\ ~ Forgets(pkt_receiver, 1, t)
    OBVIOUS
  <2>2. i + 1 \in DOMAIN pkt_receiver /\ Forgets(pkt_receiver, i + 1, t)
          /\ pkt_receiver[i + 1].by = pkt_receiver'[i].by
    BY <1>1, Zenon DEF Forgets
  <2>3. PICK j \in DOMAIN pkt_receiver : j < i + 1 /\ Forgets(pkt_receiver, j, t)
    BY <2>1, <2>2, Zenon DEF IInv, NewerBehind
  <2>4. j # 1 /\ j \in Nat /\ i \in Nat
    BY <1>1, <2>1, <2>3
  <2>5. /\ Forgets(pkt_receiver', j - 1, t)
        /\ j - 1 \in DOMAIN pkt_receiver' /\ j - 1 < i
    BY <1>1, <2>3, <2>4 DEF Forgets
  <2> QED
    BY <2>5, Zenon
<1>5. CleanStart'
  <2>1. \A i \in DOMAIN pkt_receiver', t \in Tuple :
          Forgets(pkt_receiver', i, t) =>
            /\ i + 1 \in DOMAIN pkt_receiver /\ Forgets(pkt_receiver, i + 1, t)
            /\ pkt_receiver'[i].by = pkt_receiver[i + 1].by
    BY <1>1 DEF Forgets
  <2>2. \A s \in clean : TupleOf(s) \in Tuple /\ TupleOf(s)' = TupleOf(s)
    <3>1. \A s \in clean : s \in Id /\ s \in DOMAIN arrived
      BY Zenon DEF IInv, TypeOK, CleanStart, StreamsOpened
    <3>2. \A s \in clean : arrived[s] \in InPacket
      BY <3>1 DEF IInv, TypeOK
    <3> QED
      BY <3>1, <3>2, TupleFacts DEF TupleOf
  <2>3. \A r \in Id : Alive(r)' = Alive(r) /\ TupleOf(r)' = TupleOf(r)
    BY Zenon DEF Alive, TupleOf
  <2> QED
    BY <2>1, <2>2, <2>3 DEF IInv, CleanStart
<1> QED
  BY <1>1, <1>2, <1>3, <1>4, <1>5, Zenon

\* A request to forget a session is obeyed.
LEMMA UpstreamDropStep ==
  ASSUME IInv, UpstreamDrop
  PROVE  IInv'
<1>1. /\ pkt_receiver \in Seq(OutPacket) /\ pkt_receiver # <<>>
      /\ running = TRUE
  BY Zenon DEF IInv, TypeOK, UpstreamDrop
<1>2. PICK q \in OutPacket : /\ q = Head(pkt_receiver) /\ q = pkt_receiver[1]
                             /\ 1 \in DOMAIN pkt_receiver
                             /\ DOMAIN pkt_receiver \subseteq Nat \ {0}
  BY <1>1, FirstTaken
<1> DEFINE t == ReverseNetworkTuple(q)
<1>3. /\ q.ttl = DROP_TTL /\ pkt_receiver' = Tail(pkt_receiver)
      /\ sessions' = [sessions EXCEPT ![t] = 0]
      /\ cut' = [s \in Id |-> IF sessions[t] = s THEN q.by ELSE cut[s]]
      /\ running' = TRUE /\ reading' = TRUE
      /\ UNCHANGED <<arrived, ip_stack, accept_queue, life, log, asked, refused,
                     written, clean>>
  BY <1>2, Zenon DEF UpstreamDrop, TaskGoesOn, streamVars
<1>4. t \in Tuple /\ q.by \in Id
  BY ReverseTuple, Zenon
<1>5. q.by \in DOMAIN arrived /\ TupleOf(q.by) = t
  BY <1>2, Zenon DEF IInv, SentByArrived
<1>6. Forgets(pkt_receiver, 1, t)
  BY <1>2, <1>3, Zenon DEF Forgets
<1> HIDE DEF t
<1>7. /\ sessions' \in [Tuple -> 0 .. MaxPackets]
      /\ sessions'[t] = 0
      /\ \A v \in Tuple : v # t => sessions'[v] = sessions[v]
      /\ cut' \in [Id -> 0 .. MaxPackets]
  <2>1. sessions \in [Tuple -> 0 .. MaxPackets] /\ cut \in [Id -> 0 .. MaxPackets]
    BY Zenon DEF IInv, TypeOK
  <2>2. 0 \in 0 .. MaxPackets /\ q.by \in 0 .. MaxPackets
    BY <1>4, SessionsAssumption DEF Id
  <2>3. cut' \in [Id -> 0 .. MaxPackets]
    BY <1>3, <2>1, <2>2, Zenon
  <2> QED
    BY <1>3, <1>4, <2>1, <2>2, <2>3, Zenon
<1>8. \A v \in Tuple : sessions'[v] # 0 =>
        sessions'[v] = sessions[v] /\ ~ Forgets(pkt_receiver, 1, v)
  BY <1>6, <1>7, Zenon DEF Forgets
<1>9. /\ pkt_receiver' \in Seq(OutPacket)
      /\ SentByArrived' /\ DeadForgotten' /\ NewerBehind' /\ CleanStart'
  BY <1>1, <1>3, <1>8, RestOfChannel, Zenon
<1>10. TypeOK'
  BY <1>3, <1>7, <1>9, Zenon DEF IInv, TypeOK
<1>11. StreamsOpened' /\ RoutedByTuple'
  BY <1>3, Zenon DEF IInv, StreamsOpened, RoutedByTuple
<1>12. TableOfStreams'
  BY <1>3, <1>8 DEF IInv, TableOfStreams, TupleOf
<1>13. NewestOwnsEntry'
  BY <1>3, <1>8 DEF IInv, NewestOwnsEntry, TupleOf, Id
<1>14. \A s \in Id :
         /\ sessions[t] = s => cut'[s] = q.by
         /\ sessions[t] # s => cut'[s] = cut[s]
  BY <1>3, Zenon
<1>15. ASSUME NEW s \in Id, sessions[t] = s
       PROVE  life[s] # "none" /\ TupleOf(s) = t
  BY <1>4, <1>15 DEF IInv, TableOfStreams, Id
<1>16. LogsArrived'
  BY <1>3, <1>5, <1>14, <1>15 DEF IInv, LogsArrived
<1>17. CutOnlyByOlder'
  <2> SUFFICES ASSUME NEW s \in Id
               PROVE  /\ Alive(s) /\ sessions'[TupleOf(s)] # s => cut'[s] # 0
                      /\ cut'[s] # 0 =>
                           /\ cut'[s] <= s
                           /\ TupleOf(cut'[s]) = TupleOf(s)
                           /\ s \in clean => cut'[s] = s
    BY <1>3 DEF CutOnlyByOlder, Alive, TupleOf
  <2>1. CASE sessions[t] = s
    <3>1. cut'[s] = q.by /\ TupleOf(s) = t /\ q.by # 0
      BY <1>4, <1>14, <1>15, <2>1 DEF Id
    <3>2. q.by <= s
      <4>1. ~ (s < q.by)
        BY <1>2, <1>4, <1>6, <2>1 DEF IInv, NewerBehind, Id
      <4> QED
        BY <1>4, <4>1 DEF Id
    <3>3. s \in clean => s <= q.by
      BY <1>2, <1>6, <3>1, Zenon DEF IInv, CleanStart
    <3> QED
      BY <1>4, <1>5, <3>1, <3>2, <3>3 DEF Id
  <2>2. CASE sessions[t] # s
    <3>1. cut'[s] = cut[s]
      BY <1>14, <2>2, Zenon
    <3>2. Alive(s) /\ sessions'[TupleOf(s)] # s => sessions[TupleOf(s)] # s
      <4>1. ASSUME Alive(s)
            PROVE  TupleOf(s) \in Tuple
        <5>1. s \in DOMAIN arrived
          BY <4>1, Zenon DEF IInv, StreamsOpened, Alive
        <5>2. arrived[s] \in InPacket
          BY <5>1 DEF IInv, TypeOK
        <5> QED
          BY <5>2, TupleFacts, Zenon DEF TupleOf
      <4> QED
        BY <1>7, <2>2, <4>1, Zenon
    <3> QED
      BY <1>1, <3>1, <3>2 DEF IInv, CutOnlyByOlder
  <2> QED
    BY <2>1, <2>2, Zenon
<1> QED
  BY <1>9, <1>10, <1>11, <1>12, <1>13, <1>16, <1>17, Zenon DEF IInv

\* A packet is written to the device.
LEMMA UpstreamWriteStep ==
  ASSUME IInv, UpstreamWrite
  PROVE  IInv'
<1>1. /\ pkt_receiver \in Seq(OutPacket) /\ pkt_receiver # <<>>
      /\ running = TRUE
      /\ Head(pkt_receiver).ttl # DROP_TTL
      /\ pkt_receiver' = Tail(pkt_receiver)
      /\ running' = TRUE /\ reading' = TRUE
      /\ UNCHANGED <<sessions, arrived, ip_stack, accept_queue, life, log, asked,
                     refused, clean, cut>>
  BY Zenon DEF IInv, TypeOK, UpstreamWrite, TaskGoesOn, streamVars
<1>2. \A v \in Tuple : ~ Forgets(pkt_receiver, 1, v)
  BY <1>1, FirstTaken, Zenon DEF Forgets
<1>3. /\ pkt_receiver' \in Seq(OutPacket)
      /\ SentByArrived' /\ DeadForgotten' /\ NewerBehind' /\ CleanStart'
  BY <1>1, <1>2, RestOfChannel, Zenon
<1>4. written' \subseteq Id
  BY DEF UpstreamWrite, IInv, TypeOK
<1>5. TypeOK'
  BY <1>1, <1>3, <1>4, Zenon DEF IInv, TypeOK
<1>6. StreamsOpened' /\ RoutedByTuple' /\ LogsArrived' /\ TableOfStreams'
  BY <1>1 DEF IInv, StreamsOpened, RoutedByTuple, LogsArrived, TableOfStreams,
              TupleOf
<1>7. NewestOwnsEntry' /\ CutOnlyByOlder'
  BY <1>1 DEF IInv, NewestOwnsEntry, CutOnlyByOlder, TupleOf, Alive
<1> QED
  BY <1>3, <1>5, <1>6, <1>7, Zenon DEF IInv

----------------------------------------------------------------------------
(* The application and the streams. *)


\* What a step of the application or of a stream does to the lives: none
\* begins, none that is over comes back, and only TCP streams are shut down.
LivesGoOn ==
  /\ life' \in [Id -> {"none", "queued", "held", "orphan", "dying", "gone"}]
  /\ \A s \in Id :
       /\ life'[s] = "none" <=> life[s] = "none"
       /\ Alive(s)' => Alive(s)
       /\ life'[s] \in {"orphan", "dying"} => IsTcp(arrived[s])

\* ... and what it leaves as it was.
LEMMA LifeFrame ==
  ASSUME IInv, LivesGoOn,
         UNCHANGED <<running, arrived, sessions, log, ghostVars>>
  PROVE  StreamsOpened' /\ TableOfStreams' /\ NewestOwnsEntry' /\ LogsArrived'
           /\ RoutedByTuple' /\ CutOnlyByOlder'
<1> USE DEF ghostVars
<1>1. StreamsOpened'
  BY Zenon DEF IInv, StreamsOpened, LivesGoOn
<1>2. \A t \in Tuple : sessions[t] # 0 => sessions[t] \in Id
  BY DEF IInv, TypeOK, Id
<1>3. TableOfStreams'
  BY <1>2, Zenon DEF IInv, TableOfStreams, LivesGoOn, TupleOf
<1>4. NewestOwnsEntry'
  BY Zenon DEF IInv, NewestOwnsEntry, LivesGoOn, TupleOf
<1>5. LogsArrived'
  BY Zenon DEF IInv, LogsArrived, LivesGoOn
<1>6. RoutedByTuple'
  BY DEF IInv, RoutedByTuple
<1>7. CutOnlyByOlder'
  BY Zenon DEF IInv, CutOnlyByOlder, LivesGoOn, TupleOf
<1> QED
  BY <1>1, <1>3, <1>4, <1>5, <1>6, <1>7, Zenon

\* A step that sends nothing, and in which no Drop runs.
LEMMA QuietStep ==
  ASSUME IInv, LivesGoOn,
         UNCHANGED <<running, arrived, sessions, pkt_receiver, log, asked,
                     ghostVars>>,
         reading' \in BOOLEAN, ip_stack' \in BOOLEAN, accept_queue' \in Seq(Id),
         \A s \in Id : IsTcp(arrived[s]) /\ life[s] \in {"queued", "held", "orphan"} =>
                        life'[s] \in {"queued", "held", "orphan"}
  PROVE  IInv'
<1>1. TypeOK'
  BY Zenon DEF IInv, TypeOK, LivesGoOn, ghostVars
<1>2. SentByArrived' /\ NewerBehind'
  BY Zenon DEF IInv, SentByArrived, NewerBehind, TupleOf
<1>3. DeadForgotten'
  <2> SUFFICES ASSUME NEW t \in Tuple, t.tcp, sessions[t] # 0,
                      ~ (life'[sessions[t]] \in {"queued", "held", "orphan"})
               PROVE  ~ (life[sessions[t]] \in {"queued", "held", "orphan"})
    BY Zenon DEF IInv, DeadForgotten
  <2>1. /\ sessions[t] \in Id /\ TupleOf(sessions[t]) = t
        /\ life[sessions[t]] # "none"
    BY DEF IInv, TypeOK, TableOfStreams, Id
  <2>2. arrived[sessions[t]] \in InPacket
    BY <2>1 DEF IInv, TypeOK, StreamsOpened
  <2>3. IsTcp(arrived[sessions[t]])
    BY <2>1, <2>2, TupleFacts DEF TupleOf
  <2> QED
    BY <2>1, <2>3, Zenon
<1>4. CleanStart'
  <2>1. clean \subseteq Id
    BY Zenon DEF IInv, TypeOK
  <2> QED
    BY <2>1, Zenon DEF IInv, CleanStart, LivesGoOn, TupleOf, ghostVars
<1> QED
  BY <1>1, <1>2, <1>3, <1>4, LifeFrame, Zenon DEF IInv

\* A TCP stream asks to be forgotten: its request cannot be newer than the
\* entry, for the entry is that of the newest stream of the tuple.
LEMMA RequestStep ==
  ASSUME IInv, NEW s \in Id, Alive(s), IsTcp(arrived[s]), LivesGoOn,
         Send(<<RevPacket(arrived[s], s, DROP_TTL)>>),
         \A r \in Id : r # s => life'[r] = life[r],
         asked' \subseteq Id,
         UNCHANGED <<running, reading, arrived, sessions, ip_stack, accept_queue,
                     log, ghostVars>>
  PROVE  IInv'
<1> DEFINE d == RevPacket(arrived[s], s, DROP_TTL)
<1>1. /\ life[s] # "none" /\ s \in DOMAIN arrived
      /\ arrived[s] \in InPacket
  BY DEF Alive, IInv, StreamsOpened, TypeOK
<1>2. /\ TupleOf(s) \in Tuple /\ TupleOf(s).tcp
      /\ d \in OutPacket /\ d.by = s /\ d.ttl = DROP_TTL /\ d.tcp
      /\ ReverseNetworkTuple(d) = TupleOf(s)
  BY <1>1, TupleFacts DEF TupleOf
<1>3. pkt_receiver' = IF running THEN pkt_receiver \o <<d>> ELSE pkt_receiver
  BY Zenon DEF Send
<1> HIDE DEF d
<1>4. pkt_receiver \in Seq(OutPacket) /\ <<d>> \in Seq(OutPacket)
  BY <1>2 DEF IInv, TypeOK
<1>5. /\ pkt_receiver' \in Seq(OutPacket)
      /\ \A i \in DOMAIN pkt_receiver :
           i \in DOMAIN pkt_receiver' /\ pkt_receiver'[i] = pkt_receiver[i]
      /\ \A i \in DOMAIN pkt_receiver' : i \notin DOMAIN pkt_receiver =>
           pkt_receiver'[i] = d
      /\ running => \E i \in DOMAIN pkt_receiver' : pkt_receiver'[i] = d
  <2>1. CASE running
    <3>1. pkt_receiver' = pkt_receiver \o <<d>>
      BY <1>3, <2>1, Zenon
    <3>2. Extends(pkt_receiver', pkt_receiver, <<d>>)
      BY <1>4, <3>1, Extended, Zenon
    <3>3. DOMAIN <<d>> = {1} /\ <<d>>[1] = d
      OBVIOUS
    <3> QED
      BY <3>2, <3>3 DEF Extends
  <2>2. CASE ~ running
    BY <1>3, <1>4, <2>2, Zenon
  <2> QED
    BY <2>1, <2>2, Zenon
<1>6. TypeOK'
  BY <1>5, Zenon DEF IInv, TypeOK, LivesGoOn, ghostVars
<1>7. SentByArrived'
  <2> SUFFICES ASSUME NEW i \in DOMAIN pkt_receiver'
               PROVE  /\ pkt_receiver'[i].by \in DOMAIN arrived
                      /\ ReverseNetworkTuple(pkt_receiver'[i])
                           = TupleOf(pkt_receiver'[i].by)
                      /\ pkt_receiver'[i].ttl = DROP_TTL => pkt_receiver'[i].tcp
    BY Zenon DEF SentByArrived, TupleOf
  <2>1. CASE i \in DOMAIN pkt_receiver
    BY <1>5, <2>1, Zenon DEF IInv, SentByArrived
  <2>2. CASE i \notin DOMAIN pkt_receiver
    BY <1>1, <1>2, <1>5, <2>2, Zenon
  <2> QED
    BY <2>1, <2>2, Zenon
<1>8. DeadForgotten'
  <2> SUFFICES ASSUME NEW t \in Tuple, t.tcp, sessions[t] # 0,
                      ~ (life'[sessions[t]] \in {"queued", "held", "orphan"})
               PROVE  \E j \in DOMAIN pkt_receiver' : Forgets(pkt_receiver', j, t)
    BY Zenon DEF DeadForgotten
  <2>1. running /\ sessions[t] \in Id /\ TupleOf(sessions[t]) = t
    BY DEF IInv, TableOfStreams, TypeOK, Id
  <2>2. CASE sessions[t] = s
    BY <1>2, <1>5, <2>1, <2>2 DEF Forgets
  <2>3. CASE sessions[t] # s
    <3>1. PICK j \in DOMAIN pkt_receiver : Forgets(pkt_receiver, j, t)
      BY <2>1, <2>3, Zenon DEF IInv, DeadForgotten
    <3> QED
      BY <1>5, <3>1, Zenon DEF Forgets
  <2> QED
    BY <2>2, <2>3, Zenon
<1>9. NewerBehind'
  <2> SUFFICES ASSUME NEW t \in Tuple, NEW i \in DOMAIN pkt_receiver',
                      Forgets(pkt_receiver', i, t), sessions[t] # 0,
                      sessions[t] < pkt_receiver'[i].by
               PROVE  \E j \in DOMAIN pkt_receiver' :
                        j < i /\ Forgets(pkt_receiver', j, t)
    BY Zenon DEF NewerBehind
  <2>1. i \in DOMAIN pkt_receiver
    <3> SUFFICES ASSUME i \notin DOMAIN pkt_receiver
                 PROVE  FALSE
      BY Zenon
    <3>1. pkt_receiver'[i] = d /\ t = TupleOf(s)
      BY <1>2, <1>5, Zenon DEF Forgets
    <3>2. sessions[t] \in Id /\ sessions[t] < s
      BY <1>2, <3>1 DEF IInv, TypeOK, Id
    <3>3. s <= sessions[t]
      BY <1>1, <3>1, <3>2, Zenon DEF IInv, NewestOwnsEntry
    <3> QED
      BY <3>2, <3>3 DEF Id
  <2> QED
    BY <1>5, <2>1 DEF IInv, NewerBehind, Forgets
<1>10. CleanStart'
  <2> SUFFICES ASSUME NEW c \in clean
               PROVE  /\ life'[c] # "none"
                      /\ \A r \in Id : Alive(r)' /\ TupleOf(r) = TupleOf(c) => c <= r
                      /\ \A i \in DOMAIN pkt_receiver' :
                           Forgets(pkt_receiver', i, TupleOf(c)) =>
                             c <= pkt_receiver'[i].by
    BY Zenon DEF CleanStart, TupleOf, ghostVars
  <2>1. /\ c \in Id /\ life[c] # "none"
        /\ \A r \in Id : Alive(r) /\ TupleOf(r) = TupleOf(c) => c <= r
        /\ \A i \in DOMAIN pkt_receiver :
             Forgets(pkt_receiver, i, TupleOf(c)) => c <= pkt_receiver[i].by
    BY Zenon DEF IInv, TypeOK, CleanStart
  <2>2. ASSUME NEW i \in DOMAIN pkt_receiver', Forgets(pkt_receiver', i, TupleOf(c))
        PROVE  c <= pkt_receiver'[i].by
    <3>1. CASE i \in DOMAIN pkt_receiver
      BY <1>5, <2>1, <2>2, <3>1, Zenon DEF Forgets
    <3>2. CASE i \notin DOMAIN pkt_receiver
      BY <1>2, <1>5, <2>1, <2>2, <3>2 DEF Forgets
    <3> QED
      BY <3>1, <3>2, Zenon
  <2> QED
    BY <2>1, <2>2, Zenon DEF LivesGoOn
<1> QED
  BY <1>6, <1>7, <1>8, <1>9, <1>10, LifeFrame, Zenon DEF IInv

\* The task ends between two packets.
LEMMA EndStep ==
  ASSUME IInv, TaskEnds,
         UNCHANGED <<arrived, ip_stack, accept_queue, streamVars, ghostVars>>
  PROVE  IInv'
<1> USE DEF streamVars, ghostVars
<1>1. TypeOK'
  BY TaskTypes, Zenon DEF IInv, TypeOK
<1>2. StreamsOpened' /\ LogsArrived' /\ RoutedByTuple'
  BY Zenon DEF IInv, StreamsOpened, LogsArrived, RoutedByTuple
<1>3. pkt_receiver' = <<>> /\ ~ running'
  BY Zenon DEF TaskEnds
<1>4. CleanStart' /\ CutOnlyByOlder'
  BY <1>3 DEF IInv, CleanStart, CutOnlyByOlder, Alive, TupleOf
<1> QED
  BY <1>1, <1>2, <1>4, TaskEnded, Zenon DEF IInv

\* The application accepts a stream.
LEMMA AcceptStep ==
  ASSUME IInv, Accept
  PROVE  IInv'
<1>1. accept_queue \in Seq(Id) /\ accept_queue # <<>>
  BY Zenon DEF Accept, IInv, TypeOK
<1>2. accept_queue' \in Seq(Id) /\ Head(accept_queue) \in Id
  BY <1>1 DEF Accept
<1>3. PICK s \in Id : life' = [life EXCEPT ![s] = IF @ = "queued" THEN "held" ELSE @]
  BY <1>2, Zenon DEF Accept
<1>4. LivesGoOn
  BY <1>3, Zenon DEF LivesGoOn, IInv, TypeOK, StreamsOpened, Alive
<1>5. \A r \in Id : life[r] \in {"queued", "held", "orphan"} =>
                     life'[r] \in {"queued", "held", "orphan"}
  BY <1>3, Zenon DEF IInv, TypeOK
<1> QED
  BY <1>2, <1>4, <1>5, QuietStep, Zenon DEF Accept, taskVars, IInv, TypeOK

\* The application drops its IpStack and the streams in the accept queue.
LEMMA DropIpStackStep ==
  ASSUME IInv, DropIpStack
  PROVE  IInv'
<1>1. /\ accept_queue' = <<>> /\ ip_stack' = FALSE
      /\ UNCHANGED <<running, reading, arrived, sessions, pkt_receiver, log, asked,
                     ghostVars>>
  BY Zenon DEF DropIpStack, taskVars
<1>2. \A s \in Id : life'[s] = IF life[s] = "queued" THEN Abandoned(arrived[s]) ELSE life[s]
  BY Zenon DEF DropIpStack
<1>3. LivesGoOn
  <2>1. life' \in [Id -> {"none", "queued", "held", "orphan", "dying", "gone"}]
    BY Zenon DEF DropIpStack, Abandoned, IInv, TypeOK
  <2> QED
    BY <1>2, <2>1, Zenon DEF LivesGoOn, IInv, StreamsOpened, Alive, Abandoned
<1>4. \A r \in Id : IsTcp(arrived[r]) /\ life[r] \in {"queued", "held", "orphan"} =>
                     life'[r] \in {"queued", "held", "orphan"}
  BY <1>2, Zenon DEF Abandoned
<1>5. accept_queue' \in Seq(Id)
  BY <1>1
<1>6. ip_stack' \in BOOLEAN /\ reading' \in BOOLEAN
  BY <1>1, Zenon DEF IInv, TypeOK
<1> QED
  BY <1>1, <1>3, <1>4, <1>5, <1>6, QuietStep, Zenon

\* A stream is dropped, asks to be forgotten, or goes.
LEMMA StreamStep ==
  ASSUME IInv, NEW s \in Id, Stream(s)
  PROVE  IInv'
<1>1. life \in [Id -> {"none", "queued", "held", "orphan", "dying", "gone"}]
  BY Zenon DEF IInv, TypeOK
<1>2. CASE DropStream(s)
  <2>1. life[s] = "held" /\ life' = [life EXCEPT ![s] = Abandoned(arrived[s])]
    BY <1>2, Zenon DEF DropStream
  <2>2. LivesGoOn
    BY <1>1, <2>1, Zenon DEF LivesGoOn, IInv, StreamsOpened, Alive, Abandoned
  <2>3. \A r \in Id : IsTcp(arrived[r]) /\ life[r] \in {"queued", "held", "orphan"} =>
                       life'[r] \in {"queued", "held", "orphan"}
    BY <1>1, <2>1, Zenon DEF Abandoned
  <2> QED
    BY <1>2, <2>2, <2>3, QuietStep, Zenon
       DEF DropStream, taskVars, IInv, TypeOK
<1>3. CASE DropReceiver(s)
  <2>1. life[s] = "dying" /\ life' = [life EXCEPT ![s] = "gone"]
    BY <1>3, Zenon DEF DropReceiver
  <2>2. LivesGoOn
    BY <1>1, <2>1, Zenon DEF LivesGoOn, IInv, StreamsOpened, Alive
  <2>3. \A r \in Id : life[r] \in {"queued", "held", "orphan"} =>
                       life'[r] \in {"queued", "held", "orphan"}
    BY <1>1, <2>1, Zenon
  <2> QED
    BY <1>3, <2>2, <2>3, QuietStep, Zenon
       DEF DropReceiver, taskVars, IInv, TypeOK
<1>4. CASE AskForget(s)
  <2>1. Alive(s) /\ life[s] # "none" /\ UNCHANGED life
    BY <1>4, Zenon DEF AskForget, Alive
  <2>2. LivesGoOn
    BY <1>1, <2>1, Zenon DEF LivesGoOn, IInv, StreamsOpened, Alive
  <2>3. arrived[s] \in InPacket
    BY <2>1 DEF IInv, StreamsOpened, TypeOK
  <2>4. IsTcp(arrived[s])
    BY <1>4, <2>3, TupleFacts, Zenon DEF AskForget, TupleOf
  <2>5. asked' \subseteq Id
    BY <1>4, Zenon DEF AskForget, IInv, TypeOK
  <2> QED
    BY <1>4, <2>1, <2>2, <2>4, <2>5, RequestStep, Zenon DEF AskForget
<1>5. CASE DropInner(s)
  <2>1. life[s] = "orphan" /\ life' = [life EXCEPT ![s] = "dying"]
    BY <1>5, Zenon DEF DropInner
  <2>2. Alive(s) /\ IsTcp(arrived[s])
    BY <2>1, Zenon DEF Alive, IInv, StreamsOpened
  <2>3. LivesGoOn
    BY <1>1, <2>1, <2>2, Zenon DEF LivesGoOn, IInv, StreamsOpened, Alive
  <2>4. \A r \in Id : r # s => life'[r] = life[r]
    BY <1>1, <2>1, Zenon
  <2>5. asked' \subseteq Id
    BY <1>5, Zenon DEF DropInner, IInv, TypeOK
  <2> QED
    BY <1>5, <2>2, <2>3, <2>4, <2>5, RequestStep, Zenon DEF DropInner
<1> QED
  BY <1>2, <1>3, <1>4, <1>5, Zenon DEF Stream

\* Every step keeps the invariant.
LEMMA IInvStep == IInv /\ [Next]_vars => IInv'
<1> SUFFICES ASSUME IInv, [Next]_vars
             PROVE  IInv'
  BY Zenon
<1>1. ASSUME NEW p \in Packets, Read(p)
      PROVE  IInv'
  <2>1. p \in InPacket
    BY Zenon DEF Packets
  <2> QED
    BY <1>1, <2>1, ReadUnknownStep, ReadQueuedStep, ReadOpensStep,
       ReadRefusedStep, Zenon DEF Read
<1>2. CASE ReadFails
  <2>1. LivesGoOn
    BY <1>2, Zenon
       DEF ReadFails, LivesGoOn, IInv, TypeOK, StreamsOpened, streamVars, Alive
  <2>2. /\ UNCHANGED <<running, arrived, sessions, pkt_receiver, ip_stack,
                       accept_queue, life, log, asked, ghostVars>>
        /\ reading' = FALSE
    BY <1>2, Zenon DEF ReadFails, streamVars
  <2>3. ip_stack' \in BOOLEAN /\ accept_queue' \in Seq(Id)
    BY <2>2, Zenon DEF IInv, TypeOK
  <2>4. reading' \in BOOLEAN
    BY <2>2, Zenon
  <2> QED
    BY <2>1, <2>2, <2>3, <2>4, QuietStep, Zenon
<1>3. CASE ReadTooShort
  BY <1>3, EndStep, Zenon DEF ReadTooShort
<1>4. CASE UpstreamDrop
  BY <1>4, UpstreamDropStep, Zenon
<1>5. CASE UpstreamWrite
  BY <1>5, UpstreamWriteStep, Zenon
<1>6. CASE UpstreamFails
  BY <1>6, EndStep, Zenon DEF UpstreamFails
<1>7. CASE UpstreamData
  <2>1. /\ running' = running /\ reading' = TRUE
        /\ UNCHANGED <<arrived, sessions, pkt_receiver, ip_stack, accept_queue,
                       life, log, asked, ghostVars>>
    BY <1>7, Zenon DEF UpstreamData, TaskGoesOn, streamVars, IInv, TypeOK
  <2>2. LivesGoOn
    BY <2>1, Zenon DEF LivesGoOn, IInv, TypeOK, StreamsOpened, Alive
  <2>3. ip_stack' \in BOOLEAN /\ accept_queue' \in Seq(Id)
    BY <2>1, Zenon DEF IInv, TypeOK
  <2>4. reading' \in BOOLEAN
    BY <2>1, Zenon
  <2> QED
    BY <2>1, <2>2, <2>3, <2>4, QuietStep, Zenon
<1>8. CASE Accept
  BY <1>8, AcceptStep
<1>9. CASE DropIpStack
  BY <1>9, DropIpStackStep
<1>10. ASSUME NEW s \in Id, Stream(s)
      PROVE  IInv'
  BY <1>10, StreamStep, Zenon
<1>11. CASE UNCHANGED vars
  <2>1. TypeOK'
    BY <1>11, Zenon
       DEF vars, taskVars, streamVars, ghostVars, IInv, TypeOK
  <2>2. StreamsOpened' /\ TableOfStreams' /\ LogsArrived' /\ RoutedByTuple'
    BY <1>11
       DEF vars, taskVars, streamVars, ghostVars, IInv, StreamsOpened,
           TableOfStreams, LogsArrived, RoutedByTuple, TupleOf
  <2>3. NewestOwnsEntry' /\ CutOnlyByOlder'
    BY <1>11, Zenon
       DEF vars, taskVars, streamVars, ghostVars, IInv, NewestOwnsEntry,
           CutOnlyByOlder, TupleOf, Alive
  <2>4. SentByArrived' /\ DeadForgotten'
    BY <1>11, Zenon
       DEF vars, taskVars, streamVars, ghostVars, IInv, SentByArrived,
           DeadForgotten, TupleOf, Forgets
  <2>5. NewerBehind' /\ CleanStart'
    BY <1>11
       DEF vars, taskVars, streamVars, ghostVars, IInv, NewerBehind,
           CleanStart, TupleOf, Alive, Forgets
  <2> QED
    BY <2>1, <2>2, <2>3, <2>4, <2>5, Zenon DEF IInv
<1> QED
  BY <1>1, <1>2, <1>3, <1>4, <1>5, <1>6, <1>7, <1>8, <1>9, <1>10, <1>11, Zenon
     DEF Next, Upstream

\* The inductive invariant holds throughout.
LEMMA IInvHolds == Spec => []IInv
BY IInvInit, IInvStep, PTL DEF Spec

\* However many packets and streams there are, a stream is given only
\* packets of its own addresses and protocol.
THEOREM StreamsRouted == Spec => []RoutedByTuple
<1>1. IInv => RoutedByTuple
  BY Zenon DEF IInv
<1> QED
  BY <1>1, IInvHolds, PTL

\* The table always has the newest stream of a tuple, never an older one.
THEOREM NewestInTable == Spec => []NewestOwnsEntry
<1>1. IInv => NewestOwnsEntry
  BY Zenon DEF IInv
<1> QED
  BY <1>1, IInvHolds, PTL

\* A stream that receives loses its entry only by its own request or by one
\* of something older of its tuple, and by an older one only if that was
\* still about when the stream was opened.
THEOREM EntryCutOnlyByOlder == Spec => []CutOnlyByOlder
<1>1. IInv => CutOnlyByOlder
  BY Zenon DEF IInv
<1> QED
  BY <1>1, IInvHolds, PTL

\* While the entry of a TCP stream whose Drop has run is in the table, a
\* request to forget it is in the channel: the safety part of the promise
\* that the table forgets streams that have gone.
THEOREM ForgetRequestPending == Spec => []DeadForgotten
<1>1. IInv => DeadForgotten
  BY Zenon DEF IInv
<1> QED
  BY <1>1, IInvHolds, PTL

\* A stack that does not read the device any more and has nothing left that
\* could send a packet stays so: only packets of streams end the wait, and
\* only packets of the device open streams.
THEOREM DeafStaysDeaf == Spec => DeafForGood
<1>1. ASSUME IInv, Deaf, Next
      PROVE  Deaf'
  <2>1. /\ TypeOK /\ running /\ ~ reading /\ pkt_receiver = <<>>
        /\ \A s \in Id : life[s] \in {"none", "dying", "gone"}
        /\ \A i \in DOMAIN arrived : arrived[i].kind # "unknown"
    BY <1>1, Zenon DEF IInv, Deaf
  <2>2. \A s \in Id : life[s] \notin {"queued", "held", "orphan"}
    <3>1. \A x \in {"none", "dying", "gone"} : x \notin {"queued", "held", "orphan"}
      OBVIOUS
    <3> QED
      BY <2>1, <3>1, Zenon
  <2>3. ~ Sending
    <3>1. ASSUME NEW s \in DOMAIN arrived PROVE s \in Id
      <4>1. arrived \in Seq(InPacket) /\ Len(arrived) <= MaxPackets
        BY <2>1, Zenon DEF TypeOK
      <4> QED
        BY <4>1, SessionsAssumption DEF Id
    <3> QED
      BY <2>1, <2>2, <3>1, Zenon DEF Sending
  <2>4. ASSUME life' \in [Id -> {"none", "dying", "gone"}],
               UNCHANGED taskVars
        PROVE  Deaf'
    BY <2>1, <2>4, Zenon DEF Deaf, taskVars
  <2>5. ASSUME NEW p \in Packets, Read(p) PROVE FALSE
    BY <2>1, <2>5, Zenon
       DEF Read, ReadUnknown, ReadQueued, ReadOpens, ReadRefused, DeviceRead
  <2>6. CASE ReadFails \/ ReadTooShort
    BY <2>1, <2>6, Zenon DEF ReadFails, ReadTooShort
  <2>7. CASE Upstream \/ UpstreamData \/ UpstreamFails
    BY <2>1, <2>3, <2>7, Zenon
       DEF Upstream, UpstreamDrop, UpstreamWrite, UpstreamData, UpstreamFails
  <2>8. life \in [Id -> {"none", "dying", "gone"}]
    <3>1. life \in [Id -> {"none", "queued", "held", "orphan", "dying", "gone"}]
      BY <2>1, Zenon DEF TypeOK
    <3> QED
      BY <2>1, <3>1
  <2>9. CASE Accept
    <3>1. life' = [life EXCEPT ![Head(accept_queue)] =
                     IF @ = "queued" THEN "held" ELSE @]
      BY <2>9, Zenon DEF Accept
    <3>2. accept_queue # <<>> /\ accept_queue \in Seq(Id)
      BY <2>1, <2>9, Zenon DEF Accept, TypeOK
    <3>3. Head(accept_queue) \in Id
      BY <3>2
    <3>4. life' = life
      BY <2>2, <2>8, <3>1, <3>3
    <3> QED
      BY <2>4, <2>8, <2>9, <3>4, Zenon DEF Accept
  <2>10. CASE DropIpStack
    <3>1. life' = [s \in Id |-> IF life[s] = "queued" THEN Abandoned(arrived[s])
                                ELSE life[s]]
      BY <2>10, Zenon DEF DropIpStack
    <3>2. life' \in [Id -> {"none", "dying", "gone"}]
      BY <2>1, <2>2, <3>1, Zenon
    <3> QED
      BY <2>4, <2>10, <3>2, Zenon DEF DropIpStack
  <2>11. ASSUME NEW s \in Id, Stream(s) PROVE Deaf'
    <3>1. DropReceiver(s)
      BY <2>2, <2>11, Zenon DEF Stream, DropStream, AskForget, DropInner
    <3>2. life' = [life EXCEPT ![s] = "gone"] /\ UNCHANGED taskVars
      BY <3>1, Zenon DEF DropReceiver
    <3>3. life' \in [Id -> {"none", "dying", "gone"}]
      BY <2>8, <3>2
    <3> QED
      BY <2>4, <3>2, <3>3, Zenon
  <2> QED
    BY <1>1, <2>5, <2>6, <2>7, <2>9, <2>10, <2>11, Zenon DEF Next
<1>2. ASSUME IInv, [Next]_vars
      PROVE  [Deaf => Deaf']_vars
  BY <1>1, <1>2, Zenon
<1> QED
  BY <1>2, IInvHolds, PTL DEF Spec, DeafForGood

\* The entry of a UDP stream outlives the stream for as long as the task
\* runs, whatever TCP streams of the same addresses do.
THEOREM UdpEntriesStay == Spec => UdpEntryKept
<1> DEFINE Kept == \A t \in Tuple : ~ t.tcp /\ sessions[t] # 0 /\ running' =>
                                    sessions'[t] # 0
<1>1. ASSUME IInv, Next
      PROVE  Kept
  <2>1. TypeOK
    BY <1>1, Zenon DEF IInv
  <2>2. ASSUME NEW p \in Packets, Read(p)
        PROVE  Kept
    <3>1. p \in InPacket
      BY Zenon DEF Packets
    <3>2. CASE ReadUnknown(p) \/ ReadQueued(p) \/ ReadRefused(p)
      BY <3>2, Zenon
         DEF ReadUnknown, ReadQueued, ReadRefused, TaskGoesOn, TaskEnds
    <3>3. CASE ReadOpens(p)
      <4>1. NextId \in Id
        BY <2>1, <3>1, <3>3, ArrivedGrows, Zenon DEF ReadOpens
      <4>2. NextId # 0 /\ sessions \in [Tuple -> 0 .. MaxPackets]
        BY <2>1, <4>1 DEF TypeOK, Id
      <4> QED
        BY <3>3, <4>2, Zenon DEF ReadOpens, TaskGoesOn, TaskEnds, Inserted
    <3> QED
      BY <2>2, <3>2, <3>3, Zenon DEF Read
  <2>3. CASE UpstreamDrop
    <3>1. pkt_receiver \in Seq(OutPacket) /\ pkt_receiver # <<>>
      BY <2>1, <2>3, Zenon DEF UpstreamDrop, TypeOK
    <3>2. PICK q \in OutPacket : /\ q = Head(pkt_receiver) /\ q = pkt_receiver[1]
                                 /\ 1 \in DOMAIN pkt_receiver
      BY <3>1, FirstTaken
    <3>3. q.tcp
      BY <1>1, <2>3, <3>2, Zenon DEF IInv, SentByArrived, UpstreamDrop
    <3>4. ReverseNetworkTuple(q).tcp
      BY <3>3, ReverseTuple, Zenon
    <3>5. sessions' = [sessions EXCEPT ![ReverseNetworkTuple(q)] = 0]
      BY <2>3, <3>2, Zenon DEF UpstreamDrop, TaskGoesOn
    <3> QED
      BY <2>1, <3>4, <3>5, Zenon DEF TypeOK
  <2>4. CASE UpstreamWrite \/ UpstreamData
    BY <2>4, Zenon DEF UpstreamWrite, UpstreamData, TaskGoesOn
  <2>5. CASE ReadTooShort \/ UpstreamFails
    BY <2>5, Zenon DEF ReadTooShort, UpstreamFails, TaskEnds
  <2>6. CASE ReadFails \/ Accept \/ DropIpStack
    BY <2>6, Zenon DEF ReadFails, Accept, DropIpStack, taskVars
  <2>7. ASSUME NEW s \in Id, Stream(s)
        PROVE  Kept
    BY <2>7, Zenon
       DEF Stream, DropStream, AskForget, DropInner, DropReceiver, taskVars
  <2> QED
    BY <1>1, <2>2, <2>3, <2>4, <2>5, <2>6, <2>7, Zenon DEF Next, Upstream
<1>2. ASSUME IInv, [Next]_vars
      PROVE  [Kept]_vars
  BY <1>1, <1>2, Zenon
<1> QED
  BY <1>2, IInvHolds, PTL DEF Spec, UdpEntryKept

\* Only packets that have arrived are refused; with it HandledOnce is
\* inductive.
Handled == HandledOnce /\ refused \subseteq DOMAIN arrived

\* The step puts packet n at place k of the log of stream s, behind what is
\* there, and changes no other log.
PutAt(s, k, n) ==
  /\ log' \in [Id -> Seq(Id)]
  /\ k \in DOMAIN log'[s] /\ log'[s][k] = n
  /\ \A j \in DOMAIN log[s] : j < k
  /\ \A r \in Id : \A j \in DOMAIN log[r] :
       j \in DOMAIN log'[r] /\ log'[r][j] = log[r][j]
  /\ \A r \in Id : \A j \in DOMAIN log'[r] :
       j \in DOMAIN log[r] \/ (r = s /\ j = k)

\* A packet that is put at one place of one log is dealt with once.
LEMMA GivenOnce ==
  ASSUME IInv, Handled, NEW p \in InPacket, DeviceRead(p), UNCHANGED refused,
         NEW n, n = NextId, NEW s \in Id, NEW k, PutAt(s, k, n)
  PROVE  Handled'
<1>1. /\ n \notin DOMAIN arrived
      /\ DOMAIN arrived \subseteq Id /\ n \in Id
      /\ \A i \in DOMAIN arrived :
           i \in DOMAIN arrived' /\ arrived'[i] = arrived[i] /\ i < n
      /\ \A i \in DOMAIN arrived' : i = n \/ i \in DOMAIN arrived
  <2>1. /\ arrived \in Seq(InPacket) /\ arrived' = Append(arrived, p)
    BY Zenon DEF DeviceRead, IInv, TypeOK
  <2>2. \A i \in DOMAIN arrived' : i = Len(arrived) + 1 \/ i \in DOMAIN arrived
    BY <2>1
  <2> QED
    BY <2>2, ArrivedGrows, Zenon DEF IInv, NextId
<1>2. \A r \in Id : \A j \in DOMAIN log[r] : log[r][j] \in DOMAIN arrived
  BY Zenon DEF IInv, LogsArrived
<1> USE DEF PutAt
<1>3. \A i, j \in DOMAIN log'[s] : i < j => log'[s][i] < log'[s][j]
  <2> SUFFICES ASSUME NEW i \in DOMAIN log'[s], NEW j \in DOMAIN log'[s], i < j
               PROVE  log'[s][i] < log'[s][j]
    BY Zenon
  <2>1. log \in [Id -> Seq(Id)]
    BY Zenon DEF IInv, TypeOK
  <2>2. CASE i \in DOMAIN log[s] /\ j \in DOMAIN log[s]
    <3>1. log'[s][i] = log[s][i] /\ log'[s][j] = log[s][j]
      BY <2>2, Zenon
    <3>2. log[s][i] < log[s][j]
      BY <2>2, Zenon DEF Handled, HandledOnce
    <3> QED
      BY <3>1, <3>2, Zenon
  <2>3. CASE i \in DOMAIN log[s] /\ j = k
    BY <1>1, <1>2, <2>3
  <2>4. CASE i = k
    <3>1. DOMAIN log'[s] \subseteq Nat
      OBVIOUS
    <3>2. j = k \/ j < k
      BY Zenon
    <3> QED
      BY <2>4, <3>1, <3>2
  <2> QED
    BY <2>2, <2>3, <2>4, Zenon
<1>4. \A r \in Id : \A i, j \in DOMAIN log'[r] : i < j => log'[r][i] < log'[r][j]
  <2>1. \A r \in Id : r # s =>
          \A i, j \in DOMAIN log'[r] : i < j => log'[r][i] < log'[r][j]
    <3> SUFFICES ASSUME NEW r \in Id, r # s, NEW i \in DOMAIN log'[r],
                        NEW j \in DOMAIN log'[r], i < j
                 PROVE  log'[r][i] < log'[r][j]
      BY Zenon
    <3>1. /\ i \in DOMAIN log[r] /\ log'[r][i] = log[r][i]
          /\ j \in DOMAIN log[r] /\ log'[r][j] = log[r][j]
      BY Zenon
    <3> QED
      BY <3>1, Zenon DEF Handled, HandledOnce
  <2> QED
    BY <1>3, <2>1, Zenon
<1>5. ASSUME NEW i \in DOMAIN arrived', HasSession(arrived'[i]), i \in refused
      PROVE  \A r \in Id : \A j \in DOMAIN log'[r] : log'[r][j] # i
  <2>1. i \in DOMAIN arrived /\ i # n /\ HasSession(arrived[i])
    BY <1>1, <1>5 DEF Handled
  <2>2. \A r \in Id : \A j \in DOMAIN log[r] : log[r][j] # i
    BY <1>5, <2>1, Zenon DEF Handled, HandledOnce
  <2> QED
    BY <2>1, <2>2
<1>6. ASSUME NEW i \in DOMAIN arrived', HasSession(arrived'[i]), i \notin refused
      PROVE  \E q \in Id : \E l \in DOMAIN log'[q] :
               /\ log'[q][l] = i
               /\ \A r \in Id : \A j \in DOMAIN log'[r] :
                    log'[r][j] = i => r = q /\ j = l
  <2>1. CASE i = n
    <3>1. ASSUME NEW r \in Id, NEW j \in DOMAIN log'[r], log'[r][j] = n
          PROVE  r = s /\ j = k
      <4>1. j \notin DOMAIN log[r]
        BY <1>1, <1>2, <3>1
      <4> QED
        BY <4>1, Zenon
    <3> QED
      BY <2>1, <3>1
  <2>2. CASE i # n
    <3>1. i \in DOMAIN arrived /\ HasSession(arrived[i])
      BY <1>1, <1>6, <2>2, Zenon
    <3>2. PICK q \in Id : \E l \in DOMAIN log[q] :
                 /\ log[q][l] = i
                 /\ \A r \in Id : \A j \in DOMAIN log[r] :
                      log[r][j] = i => r = q /\ j = l
      BY <1>6, <3>1, Zenon DEF Handled, HandledOnce
    <3>3. PICK l \in DOMAIN log[q] :
                 /\ log[q][l] = i
                 /\ \A r \in Id : \A j \in DOMAIN log[r] :
                      log[r][j] = i => r = q /\ j = l
      BY <3>2, Zenon
    <3>4. l \in DOMAIN log'[q] /\ log'[q][l] = i
      BY <3>3, Zenon
    <3>5. ASSUME NEW r \in Id, NEW j \in DOMAIN log'[r], log'[r][j] = i
          PROVE  r = q /\ j = l
      <4>1. j \in DOMAIN log[r] /\ log[r][j] = i
        BY <2>2, <3>5, Zenon
      <4> QED
        BY <3>3, <4>1, Zenon
    <3> QED
      BY <3>4, <3>5
  <2> QED
    BY <2>1, <2>2, Zenon
<1>7. refused' \subseteq DOMAIN arrived'
  BY <1>1, Zenon DEF Handled
<1> QED
  BY <1>4, <1>5, <1>6, <1>7, Zenon DEF Handled, HandledOnce

\* A packet that is put into no log, and is refused or belongs to no session.
LEMMA GivenToNone ==
  ASSUME IInv, Handled, NEW p \in InPacket, DeviceRead(p), UNCHANGED log,
         \/ UNCHANGED refused /\ ~ HasSession(p)
         \/ refused' = refused \cup {NextId}
  PROVE  Handled'
<1>0. PICK n \in Id : n = NextId
  BY ArrivedGrows, Zenon DEF IInv
<1>1. /\ n \notin DOMAIN arrived
      /\ arrived'[n] = p /\ n \in DOMAIN arrived'
      /\ \A i \in DOMAIN arrived : i \in DOMAIN arrived' /\ arrived'[i] = arrived[i]
      /\ \A i \in DOMAIN arrived' : i = n \/ i \in DOMAIN arrived
  <2>1. /\ arrived \in Seq(InPacket) /\ arrived' = Append(arrived, p)
    BY Zenon DEF DeviceRead, IInv, TypeOK
  <2>2. \A i \in DOMAIN arrived' : i = Len(arrived) + 1 \/ i \in DOMAIN arrived
    BY <2>1
  <2> QED
    BY <1>0, <2>2, ArrivedGrows, Zenon DEF IInv, NextId
<1>2. \A r \in Id : \A j \in DOMAIN log[r] : log[r][j] # n
  BY <1>1 DEF IInv, LogsArrived
<1>3. \A i \in DOMAIN arrived : i \in refused' <=> i \in refused
  BY <1>0, <1>1, Zenon
<1>4. HasSession(p) => n \in refused'
  BY <1>0, Zenon
<1>5. refused' \subseteq DOMAIN arrived'
  BY <1>0, <1>1, Zenon DEF Handled
<1>6. HandledOnce'
  BY <1>1, <1>2, <1>3, <1>4 DEF Handled, HandledOnce
<1> QED
  BY <1>5, <1>6, Zenon DEF Handled

\* Every step keeps it.
LEMMA HandledStep == IInv /\ Handled /\ [Next]_vars => Handled'
<1> SUFFICES ASSUME IInv, Handled, [Next]_vars
             PROVE  Handled'
  BY Zenon
<1>1. ASSUME NEW p \in Packets, Read(p)
      PROVE  Handled'
  <2>1. p \in InPacket
    BY Zenon DEF Packets
  <2>2. CASE ReadUnknown(p) \/ ReadRefused(p)
    BY <2>1, <2>2, GivenToNone, Zenon DEF ReadUnknown, ReadRefused
  <2>3. CASE ReadQueued(p)
    <3>1. DeviceRead(p) /\ UNCHANGED refused
      BY <2>3, Zenon DEF ReadQueued
    <3>2. PICK n \in Id : n = NextId
      BY <2>1, <3>1, ArrivedGrows, Zenon DEF IInv
    <3>3. PICK s \in Id : log' = [log EXCEPT ![s] = Append(@, n)]
      BY <2>3, <3>2, Zenon DEF ReadQueued
    <3>4. log \in [Id -> Seq(Id)] /\ log[s] \in Seq(Id)
      BY Zenon DEF IInv, TypeOK
    <3>5. log' \in [Id -> Seq(Id)] /\ log'[s] = Append(log[s], n)
            /\ \A r \in Id : r # s => log'[r] = log[r]
      BY <3>3, <3>4
    <3> DEFINE k == Len(log[s]) + 1
    <3>6. PICK l \in DOMAIN log'[s] : /\ log'[s][l] = n
                                      /\ \A j \in DOMAIN log[s] : j < l
                                      /\ \A j \in DOMAIN log'[s] :
                                           j \in DOMAIN log[s] \/ j = l
      <4>1. k \in DOMAIN log'[s] /\ log'[s][k] = n
        BY <3>4, <3>5
      <4>2. \A j \in DOMAIN log[s] : j < k
        BY <3>4
      <4>3. \A j \in DOMAIN log'[s] : j \in DOMAIN log[s] \/ j = k
        BY <3>4, <3>5
      <4> QED
        BY <4>1, <4>2, <4>3, Zenon
    <3>7. ASSUME NEW j \in DOMAIN log[s]
          PROVE  j \in DOMAIN log'[s] /\ log'[s][j] = log[s][j]
      <4>1. j \in 1 .. Len(log[s])
        BY <3>4
      <4> DEFINE l0 == log[s]
      <4> HIDE DEF l0
      <4>2. l0 \in Seq(Id) /\ j \in 1 .. Len(l0)
        BY <3>4, <4>1, Zenon DEF l0
      <4>3. j \in DOMAIN Append(l0, n) /\ Append(l0, n)[j] = l0[j]
        BY <4>2
      <4> QED
        BY <3>5, <4>3, Zenon DEF l0
    <3>8. PutAt(s, l, n)
      BY <3>5, <3>6, <3>7, Zenon DEF PutAt
    <3> QED
      BY <2>1, <3>1, <3>2, <3>8, GivenOnce, Zenon
  <2>4. CASE ReadOpens(p)
    <3>1. DeviceRead(p) /\ UNCHANGED refused
      BY <2>4, Zenon DEF ReadOpens
    <3>2. PICK n \in Id : n = NextId /\ n \notin DOMAIN arrived
      BY <2>1, <3>1, ArrivedGrows, Zenon DEF IInv
    <3>3. log' = [log EXCEPT ![n] = <<n>>]
      BY <2>4, <3>2, Zenon DEF ReadOpens, Opened
    <3>4. log \in [Id -> Seq(Id)] /\ log[n] = <<>>
      BY <3>2, Zenon DEF IInv, TypeOK, LogsArrived
    <3>5. log' \in [Id -> Seq(Id)] /\ log'[n] = <<n>>
            /\ \A r \in Id : r # n => log'[r] = log[r]
      BY <3>3, <3>4
    <3>6. 1 \in DOMAIN log'[n] /\ log'[n][1] = n /\ DOMAIN log'[n] = {1}
            /\ DOMAIN log[n] = {}
      BY <3>4, <3>5
    <3>7. PutAt(n, 1, n)
      BY <3>5, <3>6, Zenon DEF PutAt
    <3> QED
      BY <2>1, <3>1, <3>2, <3>7, GivenOnce, Zenon
  <2> QED
    BY <1>1, <2>2, <2>3, <2>4, Zenon DEF Read
<1>2. CASE UNCHANGED <<arrived, log, refused>>
  BY <1>2 DEF Handled, HandledOnce
<1>3. ASSUME NEW s \in Id, Stream(s)
      PROVE  UNCHANGED <<arrived, log, refused>>
  BY <1>3, Zenon
     DEF Stream, DropStream, AskForget, DropInner, DropReceiver, taskVars,
              ghostVars
<1>4. CASE ReadFails \/ ReadTooShort \/ UpstreamFails
  <2>1. UNCHANGED <<arrived, log, refused>>
    BY <1>4 DEF ReadFails, ReadTooShort, UpstreamFails, streamVars, ghostVars
  <2> QED
    BY <1>2, <2>1, Zenon
<1>5. CASE Upstream \/ UpstreamData
  <2>1. UNCHANGED <<arrived, log, refused>>
    BY <1>5, Zenon
       DEF Upstream, UpstreamDrop, UpstreamWrite, UpstreamData, streamVars,
                ghostVars
  <2> QED
    BY <1>2, <2>1
<1>6. CASE Accept \/ DropIpStack \/ UNCHANGED vars
  <2>1. UNCHANGED <<arrived, log, refused>>
    BY <1>6, Zenon
       DEF Accept, DropIpStack, vars, taskVars, streamVars, ghostVars
  <2> QED
    BY <1>2, <2>1
<1> QED
  BY <1>1, <1>2, <1>3, <1>4, <1>5, <1>6, Zenon DEF Next

\* Every packet that belongs to a session is given to exactly one stream, at
\* one place of its queue and in the order of arrival, or is refused: for
\* any number of packets and streams that come and go.
THEOREM EveryPacketHandledOnce == Spec => []HandledOnce
<1>1. Init => Handled
  BY DEF Init, Handled, HandledOnce
<1>2. Handled => HandledOnce
  BY Zenon DEF Handled
<1> QED
  BY <1>1, <1>2, HandledStep, IInvHolds, PTL DEF Spec

=============================================================================
