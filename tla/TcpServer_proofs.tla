-------------------------- MODULE TcpServer_proofs --------------------------
(***************************************************************************)
(* Proofs about the TCP server: the types, the agreement of the client     *)
(* table with the epoll set and the kernel, and the answers to a stream of *)
(* commands.                                                               *)
(***************************************************************************)
EXTENDS TcpServer, SequenceTheorems, FiniteSetTheorems, TLAPS

----------------------------------------------------------------------------
(* The inductive invariants.                                               *)

Held == {d \in Descriptors : owner[d] \in Connections /\ conn[owner[d]] = "accepted"}

\* A connection has at most one number, an accepted one exactly one; a number about to
\* be closed again is no connection's.
Ownership ==
    /\ \A d \in Descriptors :
          owner[d] \in Connections => conn[owner[d]] \in {"accepted", "leaked"}
    /\ \A d, e \in Descriptors : owner[d] \in Connections /\ owner[d] = owner[e] => d = e
    /\ \A c \in Connections : conn[c] = "accepted" => \E d \in Descriptors : owner[d] = c
    /\ doomed # 0 => owner[doomed] \notin Connections

\* The backlog holds queued connections, each of them once.
Waiting ==
    /\ \A i \in 1..Len(backlog) : conn[backlog[i]] = "queued"
    /\ \A i, j \in 1..Len(backlog) : backlog[i] = backlog[j] => i = j

\* A batch names a descriptor once; while it names the server's socket, somebody waits.
Announced ==
    /\ \A i, j \in 1..Len(events) : events[i] = events[j] => i = j
    /\ \A i \in 1..Len(events) :
          pc \in {"batch", "messages"} /\ events[i] = Listening => backlog # << >>

\* The client table is what the kernel holds for accepted clients, the epoll set no more.
Table ==
    /\ m_clients = Held /\ interest \subseteq Held
    /\ pc = "done" => m_clients = {}

TableInv == Ownership /\ Waiting /\ Announced /\ Table

\* The message that was sent i-th on a connection.
Message(c, i) == [from |-> c, no |-> i, kind |-> sent[c][i]]

\* The units of q are those of the messages not answered yet, two of each.
Unanswered(c) == Len(sent[c]) - Len(answers[c])

Follows(c, q) ==
    /\ Len(q) = Unanswered(c) + Unanswered(c)
    /\ \A i \in 1..Unanswered(c) : q[i + i - 1].msg = Message(c, Len(answers[c]) + i)

Answered(c) ==
    /\ Len(answers[c]) <= Len(sent[c])
    /\ \A i \in 1..Len(answers[c]) : answers[c][i] = Message(c, i) /\ sent[c][i] = "command"

\* What is buffered and what has not been received are together the rest of the stream.
StreamInv ==
    /\ \A c \in Connections : Answered(c)
    /\ \A c \in Connections : conn[c] \in {"new", "queued"} => Follows(c, incoming[c])
    /\ \A d \in m_clients : Follows(owner[d], readBuffer[d] \o incoming[owner[d]])

----------------------------------------------------------------------------
(* Types.                                                                  *)

LEMMA PairsWithOne ==
    ASSUME NEW x, NEW n \in Nat
    PROVE  IsFiniteSet({x} \X (1..n)) /\ Cardinality({x} \X (1..n)) = n
  <1> DEFINE S == {x}
             T == 1..n
  <1>1. IsFiniteSet(S) /\ Cardinality(S) = 1
    BY FS_Singleton, Zenon DEF S
  <1>2. IsFiniteSet(T) /\ Cardinality(T) = n
    <2>1. 1 \in Int /\ n \in Int
      OBVIOUS
    <2>2. IsFiniteSet(1..n) /\ Cardinality(1..n) = IF 1 > n THEN 0 ELSE n - 1 + 1
      BY <2>1, FS_Interval
    <2> QED
      BY <2>2
  <1> HIDE DEF S, T
  <1>3. IsFiniteSet(S \X T) /\ Cardinality(S \X T) = Cardinality(S) * Cardinality(T)
    BY <1>1, <1>2, FS_Product, Zenon
  <1>4. Cardinality(S \X T) = n
    BY <1>1, <1>2, <1>3
  <1> QED
    BY <1>3, <1>4 DEF S, T

\* What is sent stays within the bound.
LEMMA SentBounded ==
    ASSUME TcpTypeOK, NEW c \in Connections,
           Cardinality(UNION {Sent(x) : x \in Connections}) < MaxMessages
    PROVE  Len(sent[c]) < MaxMessages
  <1> DEFINE n == Len(sent[c])
             All == UNION {Sent(x) : x \in Connections}
  <1>1. n \in Nat /\ DOMAIN sent[c] = 1..n
    BY LenProperties DEF TcpTypeOK
  <1>2. IsFiniteSet(All)
    <2>1. \A x \in Connections : IsFiniteSet(Sent(x))
      <3> TAKE x \in Connections
      <3>1. DOMAIN sent[x] = 1..Len(sent[x]) /\ Len(sent[x]) \in Nat
        BY LenProperties DEF TcpTypeOK
      <3> QED
        BY <3>1, PairsWithOne, Zenon DEF Sent
    <2>2. IsFiniteSet({Sent(x) : x \in Connections})
      <3>1. [x \in Connections |-> Sent(x)] \in Surjection(Connections, {Sent(x) : x \in Connections})
        BY DEF Surjection
      <3> QED
        BY <3>1, TcpAssumption, FS_Surjection
    <2> QED
      BY <2>1, <2>2, FS_UNION
  <1>3. Sent(c) \subseteq All
    OBVIOUS
  <1>4. Cardinality(Sent(c)) = n
    BY <1>1, PairsWithOne, Zenon DEF Sent
  <1>5. Cardinality(Sent(c)) <= Cardinality(All)
    BY <1>2, <1>3, FS_Subset
  <1>6. Cardinality(All) \in Nat
    BY <1>2, FS_CardinalityType
  <1> HIDE DEF All, n
  <1>7. Cardinality(All) < MaxMessages
    BY DEF All
  <1> QED
    BY <1>1, <1>4, <1>5, <1>6, <1>7, TcpAssumption DEF n

\* The client at the head of the backlog gets a free number.
LEMMA Accepting ==
    ASSUME TcpTypeOK, Waiting, Announced, NEW c \in Connections, NEW d \in Descriptors, Accept(c, d)
    PROVE  /\ conn[c] = "queued" /\ owner[d] = "free" /\ owner[d] \notin Connections
           /\ backlog' \in Seq(Connections) /\ Len(backlog') = Len(backlog) - 1
           /\ \A i \in 1..Len(backlog') : backlog'[i] = backlog[i + 1] /\ backlog'[i] # c
           /\ events' \in Seq(Descriptors \union {Listening}) /\ Len(events') = Len(events) - 1
           /\ \A i \in 1..Len(events') : events'[i] = events[i + 1] /\ events'[i] # Listening
  <1>1. events \in Seq(Descriptors \union {Listening}) /\ events # << >> /\ events[1] = Listening
    BY DEF Accept, TcpTypeOK
  <1>2. backlog # << >>
    <2>1. 1 \in 1..Len(events)
      BY <1>1
    <2> QED
      BY <1>1, <2>1 DEF Accept, Announced
  <1>3. /\ backlog \in Seq(Connections) /\ backlog[1] = c /\ backlog' = Tail(backlog)
        /\ 1 \in 1..Len(backlog)
    BY <1>2 DEF Accept, TcpTypeOK
  <1>4. conn[c] = "queued"
    BY <1>3 DEF Waiting
  <1>5. owner[d] = "free" /\ owner[d] \notin Connections
    BY TcpAssumption DEF Accept, LowestFree, Free
  <1>6. /\ backlog' \in Seq(Connections) /\ Len(backlog') = Len(backlog) - 1
        /\ \A i \in 1..Len(backlog') : backlog'[i] = backlog[i + 1]
    BY <1>2, <1>3, HeadTailProperties
  <1>7. ASSUME NEW i \in 1..Len(backlog') PROVE backlog'[i] # c
    <2>1. i + 1 \in 1..Len(backlog) /\ i + 1 # 1
      BY <1>3, <1>6
    <2> QED
      BY <1>3, <1>6, <2>1 DEF Waiting
  <1>8. /\ events' \in Seq(Descriptors \union {Listening}) /\ Len(events') = Len(events) - 1
        /\ \A i \in 1..Len(events') : events'[i] = events[i + 1]
    BY <1>1, HeadTailProperties DEF Accept
  <1>9. ASSUME NEW i \in 1..Len(events') PROVE events'[i] # Listening
    <2>1. i + 1 \in 1..Len(events) /\ i + 1 # 1 /\ 1 \in 1..Len(events)
      BY <1>1, <1>8
    <2> QED
      BY <1>1, <1>8, <2>1 DEF Announced
  <1> QED
    BY <1>4, <1>5, <1>6, <1>7, <1>8, <1>9

\* A client of the table is a connection's.
LEMMA ClientHeld ==
    ASSUME TcpTypeOK, Table, NEW d \in m_clients
    PROVE  /\ d \in Descriptors /\ owner[d] \in Connections /\ conn[owner[d]] = "accepted"
           /\ d # 0
  BY DEF TcpTypeOK, Table, Held, Descriptors

LEMMA RemoveTyped ==
    ASSUME TcpTypeOK, NEW d \in Descriptors, removeClient(d)
    PROVE  /\ conn' \in [Connections -> {"new", "queued", "accepted", "leaked", "closed"}]
           /\ owner' \in [Descriptors -> Connections \union {"free", "other"}]
           /\ interest' \subseteq Descriptors /\ m_clients' \subseteq Descriptors
           /\ readBuffer' \in [Descriptors -> Seq(Units)]
  <1>1. << >> \in Seq(Units)
    BY EmptySeq
  <1> QED
    BY <1>1 DEF TcpTypeOK, removeClient

LEMMA SendTyped ==
    ASSUME TcpTypeOK, NEW c \in Connections, Send(c)
    PROVE  TcpTypeOK'
  <1>1. PICK k \in Kinds :
           LET m == [from |-> c, no |-> Len(sent[c]) + 1, kind |-> k] IN
           /\ sent' = [sent EXCEPT ![c] = Append(@, k)]
           /\ incoming' = [incoming EXCEPT ![c] = @ \o <<[msg |-> m, part |-> "header"],
                                                         [msg |-> m, part |-> "data"]>>]
    BY DEF Send
  <1> DEFINE m == [from |-> c, no |-> Len(sent[c]) + 1, kind |-> k]
             h == [msg |-> m, part |-> "header"]
             b == [msg |-> m, part |-> "data"]
  <1>2. sent[c] \in Seq(Kinds) /\ incoming[c] \in Seq(Units) /\ Len(sent[c]) \in Nat
    BY DEF TcpTypeOK
  <1>3. Len(sent[c]) + 1 \in 1..MaxMessages
    <2>1. Len(sent[c]) < MaxMessages
      BY SentBounded, Zenon DEF Send
    <2> QED
      BY <1>2, <2>1, TcpAssumption
  <1>4. h \in Units /\ b \in Units
    BY <1>3 DEF Units, Messages
  <1> HIDE DEF h, b
  <1>5. <<h, b>> \in Seq(Units)
    BY <1>4
  <1>6. incoming[c] \o <<h, b>> \in Seq(Units) /\ Append(sent[c], k) \in Seq(Kinds)
    BY <1>2, <1>5, ConcatProperties, AppendProperties
  <1>7. sent' = [sent EXCEPT ![c] = Append(sent[c], k)]
        /\ incoming' = [incoming EXCEPT ![c] = incoming[c] \o <<h, b>>]
    BY <1>1 DEF h, b
  <1>8. sent' \in [Connections -> Seq(Kinds)] /\ incoming' \in [Connections -> Seq(Units)]
    BY <1>6, <1>7 DEF TcpTypeOK
  <1> QED
    BY <1>8 DEF TcpTypeOK, Send, loopVars, serverVars

\* What was received is cut off the front of what had arrived.
LEMMA ReceiveTyped ==
    ASSUME TcpTypeOK, Table, NEW d \in Descriptors, Receive(d)
    PROVE  TcpTypeOK'
  <1> DEFINE c == owner[d]
  <1>1. PICK n \in 1..Len(incoming[c]) :
           /\ readBuffer' = [readBuffer EXCEPT ![d] = readBuffer[d] \o SubSeq(incoming[c], 1, n)]
           /\ incoming' = [incoming EXCEPT ![c] = SubSeq(incoming[c], n + 1, Len(incoming[c]))]
    BY DEF Receive
  <1>2. d \in m_clients
    BY DEF Receive
  <1>3. c \in Connections
    BY <1>2, ClientHeld
  <1> HIDE DEF c
  <1>4. incoming[c] \in Seq(Units) /\ readBuffer[d] \in Seq(Units)
    BY <1>3 DEF TcpTypeOK
  <1>5. /\ SubSeq(incoming[c], 1, n) \in Seq(Units)
        /\ SubSeq(incoming[c], n + 1, Len(incoming[c])) \in Seq(Units)
    BY <1>4
  <1>6. readBuffer[d] \o SubSeq(incoming[c], 1, n) \in Seq(Units)
    BY <1>4, <1>5, ConcatProperties
  <1>7. incoming' \in [Connections -> Seq(Units)] /\ readBuffer' \in [Descriptors -> Seq(Units)]
    BY <1>1, <1>5, <1>6 DEF TcpTypeOK
  <1>8. Tail(events) \in Seq(Descriptors \union {Listening})
    BY HeadTailProperties DEF TcpTypeOK, Receive
  <1> QED
    BY <1>2, <1>7, <1>8 DEF TcpTypeOK, Receive

LEMMA AnswerTyped ==
    ASSUME TcpTypeOK, Table, Answer
    PROVE  TcpTypeOK'
  <1> DEFINE buffer == readBuffer[serving]
             c == owner[serving]
  <1>1. serving \in m_clients /\ serving \in Descriptors /\ c \in Connections
    BY ClientHeld DEF TcpTypeOK, Answer
  <1>2. buffer \in Seq(Units) /\ answers[c] \in Seq(Messages)
    BY <1>1 DEF TcpTypeOK
  <1>3. buffer # << >> /\ Len(buffer) >= 2
    BY <1>2 DEF Answer, deserializer
  <1>4. Head(buffer).msg \in Messages
    <2>1. Head(buffer) \in Units
      BY <1>2, <1>3, HeadTailProperties
    <2> QED
      BY <2>1 DEF Units
  <1>5. /\ answers' = [answers EXCEPT ![c] = Append(answers[c], Head(buffer).msg)]
        /\ readBuffer' = [readBuffer EXCEPT ![serving] = SubSeq(buffer, 3, Len(buffer))]
    BY DEF Answer, Consume
  <1> HIDE DEF buffer, c
  <1>6. Append(answers[c], Head(buffer).msg) \in Seq(Messages)
        /\ SubSeq(buffer, 3, Len(buffer)) \in Seq(Units)
    BY <1>2, <1>3, <1>4, AppendProperties
  <1>7. answers' \in [Connections -> Seq(Messages)] /\ readBuffer' \in [Descriptors -> Seq(Units)]
    BY <1>5, <1>6 DEF TcpTypeOK
  <1> QED
    BY <1>1, <1>7 DEF TcpTypeOK, Answer, loopVars

\* What epoll_wait returns.
LEMMA ReadyTyped ==
    ASSUME TcpTypeOK
    PROVE  /\ Ready \subseteq interest \union {Listening}
           /\ IsFiniteSet(Ready) /\ Cardinality(Ready) \in Nat
  <1>1. Ready \subseteq interest \union {Listening}
    BY DEF Ready
  <1>2. IsFiniteSet(Descriptors \union {Listening})
    <2>1. IsFiniteSet(0..MaxDescriptors)
      BY TcpAssumption, FS_Interval
    <2>2. Descriptors \union {Listening} = 0..MaxDescriptors
      BY TcpAssumption DEF Descriptors, Listening
    <2> QED
      BY <2>1, <2>2
  <1>3. Ready \subseteq Descriptors \union {Listening}
    BY <1>1 DEF TcpTypeOK
  <1>4. IsFiniteSet(Ready)
    BY <1>2, <1>3, FS_Subset
  <1> QED
    BY <1>1, <1>4, FS_CardinalityType

LEMMA WaitTyped ==
    ASSUME TcpTypeOK, EpollWait
    PROVE  /\ TcpTypeOK'
           /\ \A i, j \in 1..Len(events') : events'[i] = events'[j] => i = j
           /\ \A i \in 1..Len(events') : events'[i] = Listening => backlog # << >>
  <1> DEFINE n == Cardinality(Ready)
  <1>1. /\ n \in Nat /\ events' \in [1..n -> Ready]
        /\ \A i, j \in 1..n : i # j => events'[i] # events'[j]
    BY ReadyTyped DEF EpollWait, SetToSeqs
  <1>2. Len(events') = n /\ events' \in Seq(Ready)
    BY <1>1
  <1>3. Ready \subseteq Descriptors \union {Listening}
    BY ReadyTyped DEF TcpTypeOK
  <1>4. events' \in Seq(Descriptors \union {Listening})
    BY <1>2, <1>3, SeqMonotonic
  <1>5. Listening \in Ready => backlog # << >>
    BY DEF Ready, TcpTypeOK, Descriptors, Listening
  <1>6. TcpTypeOK'
    BY <1>4 DEF TcpTypeOK, EpollWait, netVars, serverVars
  <1> HIDE DEF n
  <1> QED
    BY <1>1, <1>2, <1>5, <1>6

\* The steps that accept a connection.
LEMMA AcceptTyped ==
    ASSUME TcpTypeOK, Waiting, Announced, NEW c \in Connections, NEW d \in Descriptors,
           acceptNewClient(c, d) \/ RejectNewClient(c, d) \/ AcceptLeaks(c, d)
    PROVE  TcpTypeOK'
  <1>1. Accept(c, d)
    BY DEF acceptNewClient, RejectNewClient, AcceptLeaks
  <1>2. backlog' \in Seq(Connections) /\ events' \in Seq(Descriptors \union {Listening})
    BY <1>1, Accepting
  <1>3. << >> \in Seq(Units)
    BY EmptySeq
  <1>4. CASE acceptNewClient(c, d)
    <2>1. readBuffer' \in [Descriptors -> Seq(Units)]
      BY <1>3, <1>4 DEF acceptNewClient, TcpTypeOK
    <2>2. /\ conn' \in [Connections -> {"new", "queued", "accepted", "leaked", "closed"}]
          /\ owner' \in [Descriptors -> Connections \union {"free", "other"}]
      BY <1>4 DEF acceptNewClient, TcpTypeOK
    <2>3. m_clients' \subseteq Descriptors /\ interest' \subseteq Descriptors
      BY <1>4 DEF acceptNewClient, TcpTypeOK
    <2>4. UNCHANGED <<doomed, pc, m_running, sent, incoming, hungUp, answers, serving, m_stopAccepting>>
      BY <1>1, <1>4 DEF acceptNewClient, Accept
    <2>5. pc = "batch"
      BY <1>1 DEF Accept
    <2> QED
      BY <1>2, <2>1, <2>2, <2>3, <2>4, <2>5 DEF TcpTypeOK
  <1>5. CASE RejectNewClient(c, d)
    BY <1>1, <1>2, <1>5 DEF RejectNewClient, Accept, TcpTypeOK
  <1>6. CASE AcceptLeaks(c, d)
    BY <1>1, <1>2, <1>6 DEF AcceptLeaks, Accept, TcpTypeOK
  <1> QED
    BY <1>4, <1>5, <1>6

\* The rest of the loop.
LEMMA LoopTyped ==
    ASSUME TcpTypeOK, TableInv, Loop
    PROVE  TcpTypeOK'
  <1> USE DEF TableInv
  <1>1. CASE EpollWait
    BY <1>1, WaitTyped
  <1>2. CASE BatchDone \/ CloseAgain
    BY <1>2 DEF TcpTypeOK, BatchDone, CloseAgain, netVars, loopVars, serverVars
  <1>3. CASE AcceptFails
    BY <1>3, HeadTailProperties DEF TcpTypeOK, AcceptFails, netVars, serverVars
  <1>4. ASSUME NEW c \in Connections, NEW d \in Descriptors,
               acceptNewClient(c, d) \/ RejectNewClient(c, d) \/ AcceptLeaks(c, d)
        PROVE  TcpTypeOK'
    BY <1>4, AcceptTyped
  <1>5. ASSUME NEW d \in Descriptors, Receive(d)
        PROVE  TcpTypeOK'
    BY <1>5, ReceiveTyped
  <1>6. ASSUME NEW d \in Descriptors, ReceiveEnds(d)
        PROVE  TcpTypeOK'
    <2>1. removeClient(d)
      BY <1>6 DEF ReceiveEnds
    <2>2. events' \in Seq(Descriptors \union {Listening})
      BY <1>6, HeadTailProperties DEF ReceiveEnds, TcpTypeOK
    <2> QED
      BY <1>6, <2>1, <2>2, RemoveTyped DEF ReceiveEnds, TcpTypeOK
  <1>7. ASSUME NEW d \in Descriptors, StopClient(d)
        PROVE  TcpTypeOK'
    <2>1. removeClient(d)
      BY <1>7 DEF StopClient
    <2> QED
      BY <1>7, <2>1, RemoveTyped DEF StopClient, TcpTypeOK
  <1>8. CASE NoMoreMessages
    BY <1>8 DEF TcpTypeOK, NoMoreMessages, netVars, serverVars
  <1>9. CASE Answer
    BY <1>9, AnswerTyped
  <1>10. CASE AnswerFails
    <2>1. removeClient(serving) /\ serving \in Descriptors
      BY <1>10 DEF AnswerFails, TcpTypeOK
    <2> QED
      BY <1>10, <2>1, RemoveTyped DEF AnswerFails, TcpTypeOK
  <1>11. CASE Stopped
    BY <1>11, EmptySeq DEF TcpTypeOK, Stopped, serverVars
  <1>12. CASE AcceptThrows
    BY <1>12, EmptySeq DEF TcpTypeOK, AcceptThrows
  <1> QED
    BY <1>1, <1>2, <1>3, <1>4, <1>5, <1>6, <1>7, <1>8, <1>9, <1>10, <1>11, <1>12 DEF Loop

LEMMA EnvironmentTyped ==
    ASSUME TcpTypeOK, Environment
    PROVE  TcpTypeOK'
  <1>1. ASSUME NEW c \in Connections, Connect(c)
        PROVE  TcpTypeOK'
    <2>1. backlog' \in Seq(Connections)
      BY <1>1, AppendProperties DEF TcpTypeOK, Connect
    <2> QED
      BY <1>1, <2>1 DEF TcpTypeOK, Connect, loopVars, serverVars
  <1>2. ASSUME NEW c \in Connections, Send(c)
        PROVE  TcpTypeOK'
    BY <1>2, SendTyped
  <1>3. ASSUME NEW c \in Connections, HangUp(c)
        PROVE  TcpTypeOK'
    BY <1>3 DEF TcpTypeOK, HangUp, loopVars, serverVars
  <1>4. ASSUME NEW d \in Descriptors, OtherOpens(d) \/ OtherCloses(d)
        PROVE  TcpTypeOK'
    BY <1>4 DEF TcpTypeOK, OtherOpens, OtherCloses, netVars, loopVars, serverVars
  <1>5. CASE stopAccepting \/ stop
    BY <1>5 DEF TcpTypeOK, stopAccepting, stop, netVars, loopVars
  <1> QED
    BY <1>1, <1>2, <1>3, <1>4, <1>5 DEF Environment

LEMMA NextTyped ==
    ASSUME TcpTypeOK, TableInv, [Next]_vars
    PROVE  TcpTypeOK'
  <1>1. CASE UNCHANGED vars
    BY <1>1 DEF TcpTypeOK, vars, netVars, loopVars, serverVars
  <1> QED
    BY <1>1, LoopTyped, EnvironmentTyped DEF Next, Terminated

----------------------------------------------------------------------------
(* The table, the epoll set and the kernel.                                *)

\* Removing a client leaves the others theirs.
LEMMA RemoveKeepsTable ==
    ASSUME TcpTypeOK, Ownership, Waiting, Table, NEW d \in m_clients, removeClient(d),
           backlog' = backlog, doomed' = doomed \/ doomed' = d
    PROVE  Ownership' /\ Waiting' /\ m_clients' = Held' /\ interest' \subseteq Held'
  <1> DEFINE c == owner[d]
  <1>1. /\ d \in Descriptors /\ c \in Connections /\ conn[c] = "accepted" /\ d # 0
    BY ClientHeld
  <1>2. /\ conn' = [conn EXCEPT ![c] = "closed"]
        /\ owner' = [owner EXCEPT ![d] = "free"]
        /\ interest' = interest \ {d} /\ m_clients' = m_clients \ {d}
    BY DEF removeClient
  <1> HIDE DEF c
  <1>3. c = owner[d]
    BY DEF c
  <1>4. /\ owner'[d] = "free" /\ "free" \notin Connections
        /\ \A e \in Descriptors : e # d => owner'[e] = owner[e]
        /\ conn'[c] = "closed" /\ \A x \in Connections : x # c => conn'[x] = conn[x]
    BY <1>1, <1>2, TcpAssumption DEF TcpTypeOK
  <1>5. \A e \in Descriptors : e # d => owner[e] # c
    BY <1>1, <1>3 DEF Ownership
  <1>6. \A e \in Descriptors : owner'[e] \in Connections =>
            e # d /\ owner'[e] = owner[e] /\ owner[e] # c /\ conn'[owner[e]] = conn[owner[e]]
    BY <1>4, <1>5
  <1>7. Ownership'
    <2>1. ASSUME NEW e \in Descriptors, owner'[e] \in Connections
          PROVE  conn'[owner'[e]] \in {"accepted", "leaked"}
      BY <1>6, <2>1 DEF Ownership
    <2>2. ASSUME NEW e \in Descriptors, NEW f \in Descriptors,
                 owner'[e] \in Connections, owner'[e] = owner'[f]
          PROVE  e = f
      BY <1>6, <2>2 DEF Ownership
    <2>3. ASSUME NEW x \in Connections, conn'[x] = "accepted"
          PROVE  \E e \in Descriptors : owner'[e] = x
      <3>1. x # c /\ conn[x] = "accepted"
        BY <1>4, <2>3
      <3>2. PICK e \in Descriptors : owner[e] = x
        BY <3>1 DEF Ownership
      <3> QED
        BY <1>3, <1>4, <3>1, <3>2
    <2>4. ASSUME doomed' # 0
          PROVE  owner'[doomed'] \notin Connections
      <3>1. CASE doomed' = d
        BY <1>4, <3>1
      <3>2. CASE doomed' = doomed
        BY <1>6, <2>4, <3>2 DEF Ownership, TcpTypeOK
      <3> QED
        BY <3>1, <3>2
    <2> QED
      BY <2>1, <2>2, <2>3, <2>4 DEF Ownership
  <1>8. Waiting'
    <2>1. ASSUME NEW i \in 1..Len(backlog) PROVE conn'[backlog[i]] = "queued"
      <3>1. backlog[i] \in Connections /\ conn[backlog[i]] = "queued"
        BY ElementOfSeq DEF TcpTypeOK, Waiting
      <3> QED
        BY <1>1, <1>4, <3>1
    <2> QED
      BY <2>1 DEF Waiting
  <1>9. Held' = Held \ {d}
    <2>1. ASSUME NEW e \in Descriptors PROVE e \in Held' <=> e \in Held \ {d}
      <3>1. CASE e = d
        BY <1>4, <3>1 DEF Held
      <3>2. CASE e # d
        BY <1>4, <1>5, <3>2 DEF Held
      <3> QED
        BY <3>1, <3>2
    <2> QED
      BY <2>1 DEF Held
  <1> QED
    BY <1>2, <1>7, <1>8, <1>9 DEF Table

\* The steps that leave the table and the events alone.
LEMMA QuietKeepsTable ==
    ASSUME TableInv, UNCHANGED <<conn, owner, doomed, backlog, events, pc, m_clients, interest>>
    PROVE  TableInv'
  BY DEF TableInv, Ownership, Waiting, Announced, Table, Held

\* The next event.
LEMMA NextEvent ==
    ASSUME TcpTypeOK, Announced, events # << >>, events' = Tail(events), pc = "batch",
           backlog' = backlog
    PROVE  Announced'
  <1>1. /\ Len(events') = Len(events) - 1 /\ Len(events) \in Nat
        /\ \A i \in 1..Len(events') : events'[i] = events[i + 1]
    BY HeadTailProperties DEF TcpTypeOK
  <1>2. \A i \in 1..Len(events') : i + 1 \in 1..Len(events)
    BY <1>1
  <1>3. ASSUME NEW i \in 1..Len(events'), NEW j \in 1..Len(events'), events'[i] = events'[j]
        PROVE  i = j
    <2>1. i + 1 = j + 1
      BY <1>1, <1>2, <1>3 DEF Announced
    <2> QED
      BY <2>1
  <1>4. ASSUME NEW i \in 1..Len(events'), events'[i] = Listening
        PROVE  backlog' # << >>
    BY <1>1, <1>2, <1>4 DEF Announced
  <1> QED
    BY <1>3, <1>4 DEF Announced

\* A connection leaves the backlog.
LEMMA AcceptKeepsQueues ==
    ASSUME TcpTypeOK, Waiting, Announced, NEW c \in Connections, NEW d \in Descriptors, Accept(c, d),
           NEW how, conn' = [conn EXCEPT ![c] = how]
    PROVE  Waiting' /\ Announced'
  <1>1. /\ Len(backlog') = Len(backlog) - 1 /\ Len(backlog) \in Nat
        /\ \A i \in 1..Len(backlog') : backlog'[i] = backlog[i + 1] /\ backlog'[i] # c
        /\ Len(events') = Len(events) - 1 /\ Len(events) \in Nat
        /\ \A i \in 1..Len(events') : events'[i] = events[i + 1] /\ events'[i] # Listening
    BY Accepting, SMTT(30) DEF TcpTypeOK
  <1>2. \A i \in 1..Len(backlog') : i + 1 \in 1..Len(backlog)
    BY <1>1
  <1>3. \A i \in 1..Len(events') : i + 1 \in 1..Len(events)
    BY <1>1
  <1>4. ASSUME NEW i \in 1..Len(backlog') PROVE conn'[backlog'[i]] = "queued"
    <2>1. backlog[i + 1] \in Connections /\ conn[backlog[i + 1]] = "queued"
      BY <1>2, ElementOfSeq DEF TcpTypeOK, Waiting
    <2> QED
      BY <1>1, <2>1 DEF TcpTypeOK
  <1>5. ASSUME NEW i \in 1..Len(backlog'), NEW j \in 1..Len(backlog'), backlog'[i] = backlog'[j]
        PROVE  i = j
    <2>1. i + 1 = j + 1
      BY <1>1, <1>2, <1>5 DEF Waiting
    <2> QED
      BY <2>1
  <1>6. ASSUME NEW i \in 1..Len(events'), NEW j \in 1..Len(events'), events'[i] = events'[j]
        PROVE  i = j
    <2>1. i + 1 = j + 1
      BY <1>1, <1>3, <1>6 DEF Announced
    <2> QED
      BY <2>1
  <1> QED
    BY <1>1, <1>4, <1>5, <1>6 DEF Waiting, Announced

\* An accepted or leaked connection gets the number that it alone has.
LEMMA TakesNumber ==
    ASSUME TcpTypeOK, Ownership, NEW c \in Connections, NEW d \in Descriptors,
           conn[c] = "queued", owner[d] \notin Connections, doomed' = 0,
           NEW how \in {"accepted", "leaked"}, conn' = [conn EXCEPT ![c] = how],
           owner' = [owner EXCEPT ![d] = c]
    PROVE  /\ Ownership'
           /\ Held' = IF how = "accepted" THEN Held \union {d} ELSE Held
  <1>1. /\ owner'[d] = c /\ conn'[c] = how
        /\ \A e \in Descriptors : e # d => owner'[e] = owner[e]
        /\ \A x \in Connections : x # c => conn'[x] = conn[x]
    BY DEF TcpTypeOK
  <1>2. \A e \in Descriptors : owner[e] # c
    BY DEF Ownership
  <1>3. ASSUME NEW e \in Descriptors, owner'[e] \in Connections
        PROVE  conn'[owner'[e]] \in {"accepted", "leaked"}
    BY <1>1, <1>2, <1>3 DEF Ownership
  <1>4. ASSUME NEW e \in Descriptors, NEW f \in Descriptors,
               owner'[e] \in Connections, owner'[e] = owner'[f]
        PROVE  e = f
    BY <1>1, <1>2, <1>4 DEF Ownership
  <1>5. ASSUME NEW x \in Connections, conn'[x] = "accepted"
        PROVE  \E e \in Descriptors : owner'[e] = x
    <2>1. CASE x = c
      BY <1>1, <2>1
    <2>2. CASE x # c
      <3>1. PICK e \in Descriptors : owner[e] = x
        BY <1>1, <1>5, <2>2 DEF Ownership
      <3> QED
        BY <1>1, <3>1
    <2> QED
      BY <2>1, <2>2
  <1>6. \A e \in Descriptors : e \in Held' <=> e \in Held \/ (e = d /\ how = "accepted")
    BY <1>1, <1>2 DEF Held
  <1>7. Held \subseteq Descriptors /\ Held' \subseteq Descriptors
    BY DEF Held
  <1> QED
    BY <1>3, <1>4, <1>5, <1>6, <1>7 DEF Ownership

LEMMA AcceptKeepsTable ==
    ASSUME TcpTypeOK, TableInv, NEW c \in Connections, NEW d \in Descriptors,
           acceptNewClient(c, d) \/ RejectNewClient(c, d) \/ AcceptLeaks(c, d)
    PROVE  TableInv'
  <1> USE DEF TableInv
  <1>1. Accept(c, d) /\ doomed = 0 /\ pc = "batch"
    BY DEF acceptNewClient, RejectNewClient, AcceptLeaks, Accept
  <1>2. conn[c] = "queued" /\ owner[d] = "free" /\ owner[d] \notin Connections
    BY <1>1, Accepting
  <1>3. CASE acceptNewClient(c, d)
    <2>1. Waiting' /\ Announced'
      BY <1>1, <1>3, AcceptKeepsQueues DEF acceptNewClient
    <2>2. Ownership' /\ Held' = Held \union {d}
      BY <1>1, <1>2, <1>3, TakesNumber DEF acceptNewClient
    <2>3. m_clients' = m_clients \union {d} /\ interest' \subseteq interest \union {d} /\ pc' = pc
      BY <1>3 DEF acceptNewClient
    <2> QED
      BY <1>1, <2>1, <2>2, <2>3 DEF Table
  <1>4. CASE AcceptLeaks(c, d)
    <2>1. Waiting' /\ Announced'
      BY <1>1, <1>4, AcceptKeepsQueues DEF AcceptLeaks
    <2>2. Ownership' /\ Held' = Held
      BY <1>1, <1>2, <1>4, TakesNumber DEF AcceptLeaks
    <2>3. UNCHANGED <<m_clients, interest, pc>>
      BY <1>4 DEF AcceptLeaks
    <2> QED
      BY <2>1, <2>2, <2>3 DEF Table
  <1>5. CASE RejectNewClient(c, d)
    <2>1. Waiting' /\ Announced'
      BY <1>1, <1>5, AcceptKeepsQueues DEF RejectNewClient
    <2>2. /\ owner' = owner /\ doomed' = d
          /\ conn'[c] = "closed" /\ \A x \in Connections : x # c => conn'[x] = conn[x]
      BY <1>5 DEF RejectNewClient, TcpTypeOK
    <2>3. \A e \in Descriptors : owner[e] # c
      BY <1>2 DEF Ownership
    <2>4. Ownership'
      BY <1>2, <2>2, <2>3 DEF Ownership
    <2>5. Held' = Held
      BY <2>2, <2>3 DEF Held
    <2>6. UNCHANGED <<m_clients, interest, pc>>
      BY <1>5 DEF RejectNewClient
    <2> QED
      BY <2>1, <2>4, <2>5, <2>6 DEF Table
  <1> QED
    BY <1>3, <1>4, <1>5

\* A number that is no connection's changes hands.
LEMMA OthersKeepTable ==
    ASSUME TcpTypeOK, TableInv, NEW d \in Descriptors, owner[d] \notin Connections,
           NEW who \in {"free", "other"}, owner' = [owner EXCEPT ![d] = who],
           doomed' = doomed \/ doomed' = 0,
           UNCHANGED <<conn, backlog, events, pc, m_clients, interest>>
    PROVE  TableInv'
  <1> USE DEF TableInv
  <1>1. /\ owner'[d] = who /\ who \notin Connections
        /\ \A e \in Descriptors : e # d => owner'[e] = owner[e]
    BY TcpAssumption DEF TcpTypeOK
  <1>2. Ownership'
    <2>1. ASSUME NEW x \in Connections, conn'[x] = "accepted"
          PROVE  \E e \in Descriptors : owner'[e] = x
      <3>1. PICK e \in Descriptors : owner[e] = x
        BY <2>1 DEF Ownership
      <3> QED
        BY <1>1, <3>1
    <2>2. doomed' # 0 => owner'[doomed'] \notin Connections
      BY <1>1 DEF Ownership, TcpTypeOK
    <2>3. \A e \in Descriptors : owner'[e] \in Connections => owner'[e] = owner[e]
      BY <1>1
    <2> QED
      BY <2>1, <2>2, <2>3 DEF Ownership
  <1>3. Held' = Held
    BY <1>1 DEF Held
  <1>4. Waiting' /\ Announced'
    BY DEF Waiting, Announced
  <1> QED
    BY <1>2, <1>3, <1>4 DEF Table

\* A client that connects goes to the end of the backlog.
LEMMA ConnectKeepsTable ==
    ASSUME TcpTypeOK, TableInv, NEW c \in Connections, Connect(c)
    PROVE  TableInv'
  <1> USE DEF TableInv
  <1>1. /\ conn[c] = "new" /\ conn'[c] = "queued"
        /\ \A x \in Connections : x # c => conn'[x] = conn[x]
        /\ UNCHANGED <<owner, doomed, events, pc, m_clients, interest>>
    BY DEF Connect, TcpTypeOK, loopVars, serverVars
  <1>2. /\ Len(backlog) \in Nat /\ Len(backlog') = Len(backlog) + 1 /\ backlog' # << >>
        /\ \A i \in 1..Len(backlog) : backlog'[i] = backlog[i] /\ backlog[i] \in Connections
        /\ backlog'[Len(backlog) + 1] = c
    <2>1. backlog \in Seq(Connections) /\ backlog' = Append(backlog, c)
      BY DEF Connect, TcpTypeOK
    <2>2. \A i \in 1..Len(backlog) : backlog[i] \in Connections
      BY <2>1, ElementOfSeq
    <2> QED
      BY <2>1, <2>2, AppendProperties
  <1>3. \A i \in 1..Len(backlog) : backlog[i] # c
    BY <1>1 DEF Waiting
  <1>4. \A i \in 1..Len(backlog') : i \in 1..Len(backlog) \/ i = Len(backlog) + 1
    BY <1>2
  <1>5. Waiting'
    <2>1. \A i \in 1..Len(backlog') : conn'[backlog'[i]] = "queued"
      BY <1>1, <1>2, <1>3, <1>4 DEF Waiting
    <2>2. \A i, j \in 1..Len(backlog') : backlog'[i] = backlog'[j] => i = j
      BY <1>2, <1>3, <1>4 DEF Waiting
    <2> QED
      BY <2>1, <2>2 DEF Waiting
  <1>6. \A e \in Descriptors : owner[e] # c
    BY <1>1 DEF Ownership
  <1>7. Ownership'
    BY <1>1, <1>6 DEF Ownership
  <1>8. Held' = Held
    BY <1>1, <1>6 DEF Held
  <1>9. Announced' /\ Table'
    BY <1>1, <1>2, <1>8 DEF Announced, Table
  <1> QED
    BY <1>5, <1>7, <1>9

\* The server has stopped: nobody waits any more.
LEMMA StoppedKeepsTable ==
    ASSUME TcpTypeOK, TableInv, Stopped
    PROVE  TableInv'
  <1> USE DEF TableInv
  <1>1. /\ m_clients = {} /\ backlog' = << >> /\ pc' = "done"
        /\ UNCHANGED <<owner, doomed, events, m_clients, interest>>
        /\ \A x \in Connections : conn'[x] = IF conn[x] = "queued" THEN "closed" ELSE conn[x]
    BY DEF Stopped, serverVars
  <1>2. Ownership'
    <2>1. ASSUME NEW x \in Connections, conn'[x] = "accepted"
          PROVE  \E e \in Descriptors : owner'[e] = x
      BY <1>1, <2>1 DEF Ownership
    <2>2. \A e \in Descriptors : owner[e] \in Connections => conn'[owner[e]] = conn[owner[e]]
      BY <1>1 DEF Ownership
    <2> QED
      BY <1>1, <2>1, <2>2 DEF Ownership
  <1>3. Held' = Held
    BY <1>1 DEF Held
  <1>4. Waiting' /\ Announced'
    BY <1>1, EmptySeq DEF Waiting, Announced
  <1> QED
    BY <1>1, <1>2, <1>3, <1>4 DEF Table

\* The process has died of the exception: everything is closed.
LEMMA AcceptThrowsKeepsTable ==
    ASSUME TcpTypeOK, TableInv, AcceptThrows
    PROVE  TableInv'
  <1>1. /\ backlog' = << >> /\ interest' = {} /\ m_clients' = {} /\ pc' = "dead" /\ doomed' = 0
        /\ events' = events
        /\ \A e \in Descriptors : owner'[e] \notin Connections
        /\ \A x \in Connections : conn'[x] \in {"new", "closed"}
    BY TcpAssumption DEF AcceptThrows
  <1>2. Held' = {}
    BY <1>1 DEF Held
  <1>3. Waiting' /\ Announced'
    BY <1>1, EmptySeq DEF Waiting, Announced, TableInv
  <1> QED
    BY <1>1, <1>2, <1>3 DEF TableInv, Ownership, Table

LEMMA LoopKeepsTable ==
    ASSUME TcpTypeOK, TableInv, Loop
    PROVE  TableInv'
  <1> USE DEF TableInv
  <1>1. CASE EpollWait
    <2>1. UNCHANGED <<conn, owner, doomed, backlog, m_clients, interest>> /\ pc' = "batch"
      BY <1>1 DEF EpollWait, netVars, serverVars
    <2>2. Announced'
      BY <1>1, <2>1, WaitTyped DEF Announced
    <2> QED
      BY <2>1, <2>2 DEF Ownership, Waiting, Table, Held
  <1>2. CASE BatchDone
    <2>1. /\ UNCHANGED <<conn, owner, doomed, backlog, events, m_clients, interest>>
          /\ pc' = "wait"
      BY <1>2 DEF BatchDone, netVars, serverVars
    <2> QED
      BY <2>1 DEF Ownership, Waiting, Announced, Table, Held
  <1>3. CASE AcceptFails
    <2>1. UNCHANGED <<conn, owner, doomed, backlog, pc, m_clients, interest>>
      BY <1>3 DEF AcceptFails, netVars, serverVars
    <2>2. Announced'
      BY <1>3, <2>1, NextEvent DEF AcceptFails
    <2> QED
      BY <2>1, <2>2 DEF Ownership, Waiting, Table, Held
  <1>4. CASE CloseAgain
    <2>1. doomed \in Descriptors /\ owner[doomed] \notin Connections
      BY <1>4 DEF CloseAgain, TcpTypeOK, Ownership
    <2>2. /\ owner' = [owner EXCEPT ![doomed] = "free"] /\ doomed' = 0
          /\ UNCHANGED <<conn, backlog, events, pc, m_clients, interest>>
      BY <1>4 DEF CloseAgain, netVars, loopVars, serverVars
    <2> QED
      BY <2>1, <2>2, OthersKeepTable
  <1>5. ASSUME NEW c \in Connections, NEW d \in Descriptors,
               acceptNewClient(c, d) \/ RejectNewClient(c, d) \/ AcceptLeaks(c, d)
        PROVE  TableInv'
    BY <1>5, AcceptKeepsTable
  <1>6. ASSUME NEW d \in Descriptors, Receive(d)
        PROVE  TableInv'
    <2>1. UNCHANGED <<conn, owner, doomed, backlog, m_clients, interest>> /\ pc' = "messages"
      BY <1>6 DEF Receive
    <2>2. Announced'
      BY <1>6, NextEvent DEF Receive
    <2> QED
      BY <2>1, <2>2 DEF Ownership, Waiting, Table, Held
  <1>7. ASSUME NEW d \in Descriptors, ReceiveEnds(d)
        PROVE  TableInv'
    <2>1. /\ d \in m_clients /\ removeClient(d) /\ UNCHANGED <<backlog, doomed, pc>>
          /\ events # << >> /\ events' = Tail(events) /\ pc = "batch"
      BY <1>7 DEF ReceiveEnds
    <2> QED
      BY <2>1, RemoveKeepsTable, NextEvent DEF Table
  <1>8. ASSUME NEW d \in Descriptors, StopClient(d)
        PROVE  TableInv'
    <2>1. /\ d \in m_clients /\ removeClient(d) /\ doomed' = d
          /\ UNCHANGED <<backlog, events, pc>> /\ pc = "stop"
      BY <1>8 DEF StopClient
    <2> QED
      BY <2>1, RemoveKeepsTable DEF Table, Announced
  <1>9. CASE NoMoreMessages
    <2>1. /\ UNCHANGED <<conn, owner, doomed, backlog, events, m_clients, interest>>
          /\ pc = "messages" /\ pc' = "batch"
      BY <1>9 DEF NoMoreMessages, netVars, serverVars
    <2> QED
      BY <2>1 DEF Ownership, Waiting, Announced, Table, Held
  <1>10. CASE Answer
    BY <1>10, QuietKeepsTable DEF Answer, loopVars
  <1>11. CASE AnswerFails
    <2>1. /\ serving \in m_clients /\ removeClient(serving)
          /\ UNCHANGED <<backlog, events, doomed>> /\ pc = "messages" /\ pc' = "batch"
      BY <1>11 DEF AnswerFails, TcpTypeOK
    <2>2. Announced'
      BY <2>1 DEF Announced
    <2> QED
      BY <2>1, <2>2, RemoveKeepsTable DEF Table
  <1>12. CASE Stopped
    BY <1>12, StoppedKeepsTable
  <1>13. CASE AcceptThrows
    BY <1>13, AcceptThrowsKeepsTable
  <1> QED
    BY <1>1, <1>2, <1>3, <1>4, <1>5, <1>6, <1>7, <1>8, <1>9, <1>10, <1>11, <1>12, <1>13 DEF Loop

LEMMA EnvironmentKeepsTable ==
    ASSUME TcpTypeOK, TableInv, Environment
    PROVE  TableInv'
  <1>1. ASSUME NEW c \in Connections, Connect(c)
        PROVE  TableInv'
    BY <1>1, ConnectKeepsTable
  <1>2. ASSUME NEW c \in Connections, Send(c) \/ HangUp(c)
        PROVE  TableInv'
    BY <1>2, QuietKeepsTable DEF Send, HangUp, loopVars, serverVars
  <1>3. ASSUME NEW d \in Descriptors, OtherOpens(d) \/ OtherCloses(d)
        PROVE  TableInv'
    <2>1. owner[d] \in {"free", "other"} /\ owner[d] \notin Connections
      BY <1>3, TcpAssumption DEF OtherOpens, OtherCloses, LowestFree, Free
    <2>2. /\ \E who \in {"free", "other"} : owner' = [owner EXCEPT ![d] = who]
          /\ UNCHANGED <<doomed, conn, backlog, events, pc, m_clients, interest>>
      BY <1>3 DEF OtherOpens, OtherCloses, netVars, loopVars, serverVars
    <2> QED
      BY <2>1, <2>2, OthersKeepTable
  <1>4. CASE stopAccepting
    BY <1>4, QuietKeepsTable DEF stopAccepting, netVars, loopVars
  <1>5. CASE stop
    <2>1. /\ UNCHANGED <<conn, owner, doomed, backlog, events, m_clients, interest>>
          /\ pc' = "stop"
      BY <1>5 DEF stop, netVars
    <2> QED
      BY <2>1 DEF TableInv, Ownership, Waiting, Announced, Table, Held
  <1> QED
    BY <1>1, <1>2, <1>3, <1>4, <1>5 DEF Environment

LEMMA NextKeepsTable ==
    ASSUME TcpTypeOK, TableInv, [Next]_vars
    PROVE  TableInv'
  <1>1. CASE UNCHANGED vars
    BY <1>1, QuietKeepsTable DEF vars, netVars, loopVars, serverVars
  <1> QED
    BY <1>1, LoopKeepsTable, EnvironmentKeepsTable DEF Next, Terminated

LEMMA InitialTable == Init => TcpTypeOK /\ TableInv
  <1> SUFFICES ASSUME Init PROVE TcpTypeOK /\ TableInv
    OBVIOUS
  <1>1. /\ << >> \in Seq(Units) /\ << >> \in Seq(Kinds) /\ << >> \in Seq(Messages)
        /\ << >> \in Seq(Connections) /\ << >> \in Seq(Descriptors \union {Listening})
        /\ Len(<< >>) = 0
    BY EmptySeq
  <1>2. TcpTypeOK
    BY <1>1 DEF Init, TcpTypeOK
  <1>3. \A d \in Descriptors : owner[d] \notin Connections
    BY TcpAssumption DEF Init
  <1>4. Ownership /\ Waiting /\ Announced
    BY <1>1, <1>3 DEF Init, Ownership, Waiting, Announced
  <1>5. Table
    BY <1>3 DEF Init, Table, Held
  <1> QED
    BY <1>2, <1>4, <1>5 DEF TableInv

\* The variables have their types.
THEOREM Typing == Spec => []TcpTypeOK
  <1>1. Init => TcpTypeOK /\ TableInv
    BY InitialTable
  <1>2. (TcpTypeOK /\ TableInv) /\ [Next]_vars => (TcpTypeOK /\ TableInv)'
    BY NextTyped, NextKeepsTable
  <1> QED
    BY <1>1, <1>2, PTL DEF Spec

LEMMA TableHolds == Spec => [](TcpTypeOK /\ TableInv)
  <1>1. (TcpTypeOK /\ TableInv) /\ [Next]_vars => (TcpTypeOK /\ TableInv)'
    BY NextTyped, NextKeepsTable
  <1> QED
    BY <1>1, InitialTable, PTL DEF Spec

\* However connections, other threads and the server interleave, and whatever numbers are
\* given out again: the client table is the descriptors of the accepted connections, one
\* each, the epoll set names no other, and none is left when the server has stopped.
THEOREM Agreement == Spec => []TableMatchesDescriptors
  <1>1. TcpTypeOK /\ TableInv => TableMatchesDescriptors
    <2> SUFFICES ASSUME TcpTypeOK, TableInv PROVE TableMatchesDescriptors
      OBVIOUS
    <2>1. m_clients = Held /\ interest \subseteq Held /\ (pc = "done" => Held = {})
      BY DEF TableInv, Table
    <2>2. \A d, e \in Held : owner[d] = owner[e] => d = e
      BY DEF TableInv, Ownership, Held
    <2>3. {owner[d] : d \in Held} = {c \in Connections : conn[c] = "accepted"}
      <3>1. ASSUME NEW c \in Connections, conn[c] = "accepted"
            PROVE  \E d \in Held : c = owner[d]
        BY <3>1 DEF TableInv, Ownership, Held
      <3>2. \A d \in Held : owner[d] \in Connections /\ conn[owner[d]] = "accepted"
        BY DEF Held
      <3> QED
        BY <3>1, <3>2
    <2> QED
      BY <2>1, <2>2, <2>3 DEF TableMatchesDescriptors, Held
  <1> QED
    BY <1>1, TableHolds, PTL

----------------------------------------------------------------------------
(* The stream of a connection.                                             *)

\* What was answered stays a part of what was sent, whatever else is sent.
LEMMA AnsweredKept ==
    ASSUME TcpTypeOK, NEW c \in Connections, Answered(c), answers'[c] = answers[c],
           Len(sent[c]) <= Len(sent'[c]), Len(sent'[c]) \in Nat,
           \A i \in 1..Len(sent[c]) : sent'[c][i] = sent[c][i]
    PROVE  Answered(c)'
  <1>1. Len(answers[c]) \in Nat /\ Len(sent[c]) \in Nat
    BY DEF TcpTypeOK
  <1>2. ASSUME NEW i \in 1..Len(answers[c])
        PROVE  i \in 1..Len(sent[c]) /\ sent'[c][i] = sent[c][i]
    BY <1>1 DEF Answered
  <1>3. ASSUME NEW i \in 1..Len(answers[c])
        PROVE  answers'[c][i] = Message(c, i)' /\ sent'[c][i] = "command"
    BY <1>2 DEF Answered, Message
  <1> QED
    BY <1>1, <1>3 DEF Answered

LEMMA OddPlace ==
    ASSUME NEW n \in Nat, NEW a \in Nat, a <= n, NEW i \in 1..(n + 1 - a), i # n + 1 - a
    PROVE  i \in 1..(n - a) /\ a + i \in 1..n /\ i + i - 1 \in 1..((n - a) + (n - a))
  OBVIOUS

LEMMA TwoMore ==
    ASSUME NEW q \in Seq(Units), NEW h \in Units, NEW b \in Units
    PROVE  /\ Len(q \o <<h, b>>) = Len(q) + 2
           /\ (q \o <<h, b>>)[Len(q) + 1] = h
           /\ \A i \in 1..Len(q) : (q \o <<h, b>>)[i] = q[i]
  OBVIOUS

\* Two units are sent, at the end of what is under way.
LEMMA FollowsSent ==
    ASSUME TcpTypeOK, NEW c \in Connections, Answered(c), NEW q \in Seq(Units), Follows(c, q),
           NEW k \in Kinds, NEW h \in Units, NEW b \in Units,
           h.msg = [from |-> c, no |-> Len(sent[c]) + 1, kind |-> k],
           sent'[c] = Append(sent[c], k), answers'[c] = answers[c],
           NEW r, r = q \o <<h, b>>
    PROVE  Follows(c, r)'
  <1> DEFINE n == Len(sent[c])
             a == Len(answers[c])
             l == Len(q)
  <1>1. n \in Nat /\ a \in Nat /\ a <= n /\ l \in Nat
    BY DEF TcpTypeOK, Answered
  <1>2. /\ Len(sent'[c]) = n + 1 /\ sent'[c][n + 1] = k
        /\ \A i \in 1..n : sent'[c][i] = sent[c][i]
    BY AppendProperties DEF TcpTypeOK
  <1>3. l = (n - a) + (n - a)
    BY DEF Follows, Unanswered
  <1>4. Unanswered(c)' = n + 1 - a
    BY <1>2 DEF Unanswered
  <1>5. \A i \in 1..n - a : q[i + i - 1].msg = Message(c, a + i)
    BY DEF Follows, Unanswered
  <1>6. Len(r) = l + 2 /\ r[l + 1] = h /\ \A i \in 1..l : r[i] = q[i]
    BY TwoMore, SMT
  <1> HIDE DEF n, a, l
  <1>7. ASSUME NEW i \in 1..(n + 1 - a)
        PROVE  r[i + i - 1].msg = [from |-> c, no |-> a + i, kind |-> sent'[c][a + i]]
    <2>1. CASE i = n + 1 - a
      <3>1. i + i - 1 = l + 1 /\ a + i = n + 1
        BY <1>1, <1>3, <2>1
      <3> QED
        BY <1>2, <1>6, <3>1 DEF n
    <2>2. CASE i # n + 1 - a
      <3>1. i \in 1..(n - a) /\ a + i \in 1..n /\ i + i - 1 \in 1..l
        BY <1>1, <1>3, <2>2, OddPlace, Zenon
      <3>2. q[i + i - 1].msg = [from |-> c, no |-> a + i, kind |-> sent[c][a + i]]
        BY <1>5, <3>1 DEF Message
      <3>3. r[i + i - 1] = q[i + i - 1] /\ sent'[c][a + i] = sent[c][a + i]
        BY <1>2, <1>6, <3>1
      <3> QED
        BY <3>2, <3>3
    <2> QED
      BY <2>1, <2>2
  <1>8. Len(r) = Unanswered(c)' + Unanswered(c)'
    BY <1>1, <1>3, <1>4, <1>6
  <1>9. Len(answers'[c]) = a
    BY DEF a
  <1>10. \A i \in 1..Unanswered(c)' : r[i + i - 1].msg = Message(c, Len(answers[c]) + i)'
    BY <1>4, <1>7, <1>9, Zenon DEF Message
  <1> QED
    BY <1>8, <1>10, Zenon DEF Follows

\* The message at the front is answered and cut off.
LEMMA FollowsAnswered ==
    ASSUME TcpTypeOK, NEW c \in Connections, Answered(c), NEW q \in Seq(Units), Follows(c, q),
           NEW r \in Seq(Units), Len(q) >= 2, q[1].msg.kind # "alien",
           Len(r) = Len(q) - 2, \A i \in 1..Len(r) : r[i] = q[i + 2],
           sent' = sent, answers'[c] = Append(answers[c], q[1].msg)
    PROVE  /\ Answered(c)'
           /\ Follows(c, r)'
  <1> DEFINE n == Len(sent[c])
             a == Len(answers[c])
             l == Len(q)
  <1>1. n \in Nat /\ a \in Nat /\ a <= n /\ l \in Nat
    BY DEF TcpTypeOK, Answered
  <1>2. l = (n - a) + (n - a)
    BY DEF Follows, Unanswered
  <1>3. \A i \in 1..n - a : q[i + i - 1].msg = Message(c, a + i)
    BY DEF Follows, Unanswered
  <1>4. \A i \in 1..a : answers[c][i] = Message(c, i) /\ sent[c][i] = "command"
    BY DEF Answered
  <1>5. q[1] \in Units
    <2>1. 1 \in 1..Len(q)
      BY <1>1
    <2> QED
      BY <2>1, ElementOfSeq
  <1>6. q[1].msg \in Messages
    BY <1>5 DEF Units
  <1>7. /\ Len(answers'[c]) = a + 1 /\ answers'[c][a + 1] = q[1].msg
        /\ \A i \in 1..a : answers'[c][i] = answers[c][i]
    BY <1>6, AppendProperties DEF TcpTypeOK
  <1>8. Unanswered(c)' = n - (a + 1)
    BY <1>7 DEF Unanswered
  <1> HIDE DEF a, l
  <1>9. a + 1 \in 1..n /\ 1 \in 1..n - a /\ 1 + 1 - 1 = 1
    BY <1>1, <1>2 DEF l
  <1>10. q[1].msg = Message(c, a + 1)
    BY <1>3, <1>9
  <1>11. sent[c][a + 1] = "command"
    <2>1. sent[c][a + 1] \in Kinds
      BY <1>9, ElementOfSeq DEF TcpTypeOK
    <2>2. sent[c][a + 1] # "alien"
      BY <1>10 DEF Message
    <2> QED
      BY <2>1, <2>2 DEF Kinds
  <1>12. Answered(c)'
    <2>1. ASSUME NEW i \in 1..(a + 1)
          PROVE  answers'[c][i] = Message(c, i) /\ sent[c][i] = "command"
      <3>1. CASE i = a + 1
        BY <1>7, <1>10, <1>11, <3>1
      <3>2. CASE i # a + 1
        <4>1. i \in 1..a
          BY <1>1, <3>2
        <4> QED
          BY <1>4, <1>7, <4>1
      <3> QED
        BY <3>1, <3>2
    <2>2. a + 1 <= n
      BY <1>9
    <2> QED
      BY <1>7, <2>1, <2>2, Zenon DEF Answered, Message
  <1>13. Len(r) = Unanswered(c)' + Unanswered(c)'
    <2>1. Len(r) = l - 2
      BY DEF l
    <2>2. l - 2 = (n - (a + 1)) + (n - (a + 1))
      <3> HIDE DEF n
      <3> QED
        BY <1>1, <1>2
    <2> QED
      BY <1>8, <2>1, <2>2, Zenon
  <1>14. ASSUME NEW i \in 1..(n - (a + 1))
         PROVE  r[i + i - 1].msg = Message(c, a + 1 + i)
    <2>1. /\ i + 1 \in 1..(n - a) /\ i + i - 1 \in 1..(l - 2)
          /\ i + i - 1 + 2 = (i + 1) + (i + 1) - 1 /\ a + (i + 1) = a + 1 + i
      BY <1>1, <1>2
    <2>2. q[(i + 1) + (i + 1) - 1].msg = Message(c, a + (i + 1))
      BY <1>3, <2>1
    <2>3. r[i + i - 1] = q[i + i - 1 + 2]
      BY <2>1 DEF l
    <2> QED
      BY <2>1, <2>2, <2>3
  <1>15. \A i \in 1..Unanswered(c)' : r[i + i - 1].msg = Message(c, Len(answers[c]) + i)'
    BY <1>7, <1>8, <1>14, Zenon DEF Message
  <1> QED
    BY <1>12, <1>13, <1>15, Zenon DEF Follows

\* The steps that neither send, receive nor answer, and accept nobody.
LEMMA StreamsKept ==
    ASSUME StreamInv, UNCHANGED <<sent, answers, incoming>>,
           \A c \in Connections : conn'[c] \in {"new", "queued"} => conn[c] \in {"new", "queued"},
           \A d \in m_clients' :
              d \in m_clients /\ owner'[d] = owner[d] /\ readBuffer'[d] = readBuffer[d]
    PROVE  StreamInv'
  <1>1. \A c \in Connections : Answered(c)'
    BY DEF StreamInv, Answered, Message
  <1>2. ASSUME NEW c \in Connections, conn'[c] \in {"new", "queued"}
        PROVE  Follows(c, incoming[c])'
    <2>1. Follows(c, incoming[c])
      BY <1>2 DEF StreamInv
    <2> QED
      BY <2>1 DEF Follows, Unanswered, Message
  <1>3. ASSUME NEW d \in m_clients'
        PROVE  Follows(owner[d], readBuffer[d] \o incoming[owner[d]])'
    <2>1. Follows(owner[d], readBuffer[d] \o incoming[owner[d]])
      BY DEF StreamInv
    <2> QED
      BY <2>1 DEF Follows, Unanswered, Message
  <1> QED
    BY <1>1, <1>2, <1>3 DEF StreamInv

\* Nothing of a new client's stream has been received.
LEMMA AcceptKeepsStreams ==
    ASSUME TcpTypeOK, TableInv, StreamInv, NEW c \in Connections, NEW d \in Descriptors,
           acceptNewClient(c, d)
    PROVE  StreamInv'
  <1>1. Accept(c, d) /\ UNCHANGED <<sent, answers, incoming>>
    BY DEF acceptNewClient, Accept
  <1>2. conn[c] = "queued" /\ owner[d] \notin Connections
    BY <1>1, Accepting DEF TableInv
  <1>3. /\ conn'[c] = "accepted" /\ \A x \in Connections : x # c => conn'[x] = conn[x]
        /\ owner'[d] = c /\ \A e \in Descriptors : e # d => owner'[e] = owner[e]
        /\ readBuffer'[d] = << >> /\ \A e \in Descriptors : e # d => readBuffer'[e] = readBuffer[e]
        /\ m_clients' = m_clients \union {d}
    BY DEF acceptNewClient, TcpTypeOK
  <1>4. \A x \in Connections : Answered(x)'
    BY <1>1 DEF StreamInv, Answered, Message
  <1>5. ASSUME NEW x \in Connections, conn'[x] \in {"new", "queued"}
        PROVE  Follows(x, incoming[x])'
    <2>1. Follows(x, incoming[x])
      BY <1>3, <1>5 DEF StreamInv
    <2> QED
      BY <1>1, <2>1 DEF Follows, Unanswered, Message
  <1>6. ASSUME NEW e \in m_clients'
        PROVE  Follows(owner[e], readBuffer[e] \o incoming[owner[e]])'
    <2>1. CASE e = d
      <3>1. Follows(c, incoming[c])
        BY <1>2 DEF StreamInv
      <3>2. << >> \o incoming[c] = incoming[c]
        BY ConcatEmptySeq DEF TcpTypeOK
      <3>3. owner'[e] = c /\ readBuffer'[e] \o incoming'[c] = incoming[c]
        BY <1>1, <1>3, <2>1, <3>2
      <3> QED
        BY <1>1, <3>1, <3>3, Zenon DEF Follows, Unanswered, Message
    <2>2. CASE e # d
      <3>1. e \in m_clients /\ owner'[e] = owner[e] /\ readBuffer'[e] = readBuffer[e]
        BY <1>3, <2>2 DEF TcpTypeOK
      <3>2. Follows(owner[e], readBuffer[e] \o incoming[owner[e]])
        BY <3>1 DEF StreamInv
      <3> QED
        BY <1>1, <3>1, <3>2 DEF Follows, Unanswered, Message
    <2> QED
      BY <2>1, <2>2
  <1> QED
    BY <1>4, <1>5, <1>6 DEF StreamInv

LEMMA Associative == \A s, t, u \in Seq(Units) : (s \o t) \o u = s \o (t \o u)
  BY ConcatAssociative

\* A piece received goes from the front of what had arrived to the end of the buffer.
LEMMA Recut ==
    ASSUME NEW buffer \in Seq(Units), NEW arrived \in Seq(Units), NEW n \in 1..Len(arrived)
    PROVE  (buffer \o SubSeq(arrived, 1, n)) \o SubSeq(arrived, n + 1, Len(arrived))
               = buffer \o arrived
  <1> DEFINE s == SubSeq(arrived, 1, n)
             t == SubSeq(arrived, n + 1, Len(arrived))
  <1>1. s \in Seq(Units) /\ t \in Seq(Units)
    OBVIOUS
  <1>2. s \o t = arrived
    <2>1. 1 \in 1..Len(arrived) + 1 /\ n \in 1 - 1..Len(arrived) /\ Len(arrived) \in n..Len(arrived)
      OBVIOUS
    <2>2. SubSeq(arrived, 1, n) \o SubSeq(arrived, n + 1, Len(arrived))
              = SubSeq(arrived, 1, Len(arrived))
      BY <2>1, ConcatAdjacentSubSeq
    <2> QED
      BY <2>2, SubSeqFull
  <1> HIDE DEF s, t
  <1>3. (buffer \o s) \o t = buffer \o (s \o t)
    BY <1>1, Associative, Zenon
  <1> QED
    BY <1>2, <1>3 DEF s, t

LEMMA ReceiveKeepsStreams ==
    ASSUME TcpTypeOK, TableInv, StreamInv, NEW d \in Descriptors, Receive(d)
    PROVE  StreamInv'
  <1> DEFINE c == owner[d]
  <1>1. d \in m_clients /\ c \in Connections /\ conn[c] = "accepted"
    BY ClientHeld DEF Receive, TableInv
  <1>2. PICK n \in 1..Len(incoming[c]) :
           /\ readBuffer' = [readBuffer EXCEPT ![d] = readBuffer[d] \o SubSeq(incoming[c], 1, n)]
           /\ incoming' = [incoming EXCEPT ![c] = SubSeq(incoming[c], n + 1, Len(incoming[c]))]
    BY DEF Receive
  <1>3. UNCHANGED <<conn, owner, sent, answers, m_clients>>
    BY DEF Receive
  <1>4. \A e \in m_clients : e # d => owner[e] # c
    BY <1>1 DEF TableInv, Ownership, Table, Held
  <1>5. readBuffer'[d] \o incoming'[c] = readBuffer[d] \o incoming[c]
    <2>1. readBuffer[d] \in Seq(Units) /\ incoming[c] \in Seq(Units)
      BY <1>1 DEF TcpTypeOK
    <2>2. /\ readBuffer'[d] = readBuffer[d] \o SubSeq(incoming[c], 1, n)
          /\ incoming'[c] = SubSeq(incoming[c], n + 1, Len(incoming[c]))
      BY <1>1, <1>2 DEF TcpTypeOK
    <2> QED
      BY <2>1, <2>2, Recut
  <1> HIDE DEF c
  <1>6. /\ \A e \in Descriptors : e # d => readBuffer'[e] = readBuffer[e]
        /\ \A x \in Connections : x # c => incoming'[x] = incoming[x]
    BY <1>2 DEF TcpTypeOK
  <1>7. \A x \in Connections : Answered(x)'
    BY <1>3 DEF StreamInv, Answered, Message
  <1>8. ASSUME NEW x \in Connections, conn'[x] \in {"new", "queued"}
        PROVE  Follows(x, incoming[x])'
    <2>1. Follows(x, incoming[x]) /\ incoming'[x] = incoming[x]
      BY <1>1, <1>3, <1>6, <1>8 DEF StreamInv
    <2> QED
      BY <1>3, <2>1 DEF Follows, Unanswered, Message
  <1>9. ASSUME NEW e \in m_clients'
        PROVE  Follows(owner[e], readBuffer[e] \o incoming[owner[e]])'
    <2>1. e \in m_clients /\ e \in Descriptors /\ owner[e] \in Connections
      BY <1>3, ClientHeld DEF TableInv
    <2>2. readBuffer'[e] \o incoming'[owner[e]] = readBuffer[e] \o incoming[owner[e]]
      <3>1. CASE e = d
        BY <1>5, <3>1, Zenon DEF c
      <3>2. CASE e # d
        BY <1>4, <1>6, <2>1, <3>2
      <3> QED
        BY <3>1, <3>2
    <2>3. Follows(owner[e], readBuffer[e] \o incoming[owner[e]])
      BY <2>1 DEF StreamInv
    <2> QED
      BY <1>3, <2>2, <2>3, Zenon DEF Follows, Unanswered, Message
  <1> QED
    BY <1>7, <1>8, <1>9 DEF StreamInv

LEMMA TwoParts ==
    ASSUME NEW s \in Seq(Units), NEW t \in Seq(Units)
    PROVE  /\ s \o t \in Seq(Units) /\ Len(s \o t) = Len(s) + Len(t)
           /\ \A i \in 1..Len(s) : (s \o t)[i] = s[i]
           /\ \A j \in 1..Len(t) : (s \o t)[Len(s) + j] = t[j]
  OBVIOUS

LEMMA CutTwo ==
    ASSUME NEW s, s \in Seq(Units), Len(s) >= 2
    PROVE  /\ SubSeq(s, 3, Len(s)) \in Seq(Units) /\ Len(SubSeq(s, 3, Len(s))) = Len(s) - 2
           /\ \A i \in 1..Len(s) - 2 : SubSeq(s, 3, Len(s))[i] = s[i + 2]
  <1>1. \A i \in 3..Len(s) : s[i] \in Units
    BY ElementOfSeq
  <1>2. Len(s) \in Nat /\ 3 \in Int /\ Len(s) \in Int
    OBVIOUS
  <1>3. \A i \in 1..Len(s) - 3 + 1 : SubSeq(s, 3, Len(s))[i] = s[3 + i - 1]
    BY <1>1, <1>2, SubSeqProperties
  <1>4. /\ SubSeq(s, 3, Len(s)) \in Seq(Units)
        /\ Len(SubSeq(s, 3, Len(s))) = IF 3 <= Len(s) THEN Len(s) - 3 + 1 ELSE 0
    BY <1>1, <1>2, SubSeqProperties
  <1>5. Len(SubSeq(s, 3, Len(s))) = Len(s) - 2
    <2>1. PICK l, x : l = Len(s) /\ x = Len(SubSeq(s, 3, Len(s)))
      OBVIOUS
    <2>2. l \in Nat /\ l >= 2 /\ x = IF 3 <= l THEN l - 3 + 1 ELSE 0
      BY <1>2, <1>4, <2>1
    <2>3. x = l - 2
      BY <2>2
    <2> QED
      BY <2>1, <2>3
  <1>6. ASSUME NEW i \in 1..Len(s) - 2 PROVE SubSeq(s, 3, Len(s))[i] = s[i + 2]
    <2>1. i \in 1..Len(s) - 3 + 1 /\ 3 + i - 1 = i + 2
      BY <1>2
    <2> QED
      BY <1>3, <2>1
  <1> QED
    BY <1>4, <1>5, <1>6

\* Cutting the first two units off the buffer cuts them off the stream.
LEMMA CutFront ==
    ASSUME NEW buffer, buffer \in Seq(Units), NEW arrived, arrived \in Seq(Units),
           Len(buffer) >= 2, NEW q, q = buffer \o arrived,
           NEW r, r = SubSeq(buffer, 3, Len(buffer)) \o arrived
    PROVE  /\ q \in Seq(Units) /\ Len(q) >= 2 /\ q[1] = Head(buffer)
           /\ r \in Seq(Units) /\ Len(r) = Len(q) - 2
           /\ \A i \in 1..Len(r) : r[i] = q[i + 2]
  <1>1. PICK rest, l, m, n :
           /\ rest = SubSeq(buffer, 3, Len(buffer)) /\ l = Len(buffer) /\ m = Len(rest)
           /\ n = Len(arrived)
    OBVIOUS
  <1>2. /\ l \in Nat /\ l >= 2 /\ n \in Nat /\ m = l - 2 /\ rest \in Seq(Units)
        /\ \A i \in 1..m : rest[i] = buffer[i + 2]
    BY <1>1, CutTwo, SMTT(30)
  <1>3. /\ q \in Seq(Units) /\ Len(q) = l + n
        /\ \A i \in 1..l : q[i] = buffer[i]
        /\ \A j \in 1..n : q[l + j] = arrived[j]
    BY <1>1, TwoParts
  <1>4. /\ r \in Seq(Units) /\ Len(r) = m + n
        /\ \A i \in 1..m : r[i] = rest[i]
        /\ \A j \in 1..n : r[m + j] = arrived[j]
    BY <1>1, <1>2, TwoParts
  <1>5. q[1] = Head(buffer)
    <2>1. 1 \in 1..l /\ Head(buffer) = buffer[1]
      BY <1>2
    <2> QED
      BY <1>3, <2>1
  <1>6. Len(r) = Len(q) - 2 /\ Len(q) >= 2
    BY <1>2, <1>3, <1>4
  <1>7. ASSUME NEW i \in 1..m + n PROVE r[i] = q[i + 2]
    <2>1. CASE i \in 1..m
      <3>1. i + 2 \in 1..l
        BY <1>2, <2>1
      <3> QED
        BY <1>2, <1>3, <1>4, <2>1, <3>1, Zenon
    <2>2. CASE i \notin 1..m
      <3>1. i - m \in 1..n /\ m + (i - m) = i /\ l + (i - m) = i + 2
        BY <1>2, <2>2
      <3>2. r[m + (i - m)] = q[l + (i - m)]
        BY <1>3, <1>4, <3>1, Zenon
      <3> QED
        BY <3>1, <3>2, Zenon
    <2> QED
      BY <2>1, <2>2
  <1> QED
    BY <1>3, <1>4, <1>5, <1>6, <1>7

\* The client's buffer begins with the message that is answered.
LEMMA AnswerKeepsStreams ==
    ASSUME TcpTypeOK, TableInv, StreamInv, Answer
    PROVE  StreamInv'
  <1>1. PICK d, c : d = serving /\ c = owner[d]
    OBVIOUS
  <1>2. PICK buffer, q, r :
           /\ buffer = readBuffer[d] /\ q = buffer \o incoming[c]
           /\ r = SubSeq(buffer, 3, Len(buffer)) \o incoming[c]
    OBVIOUS
  <1>3. d \in m_clients /\ d \in Descriptors /\ c \in Connections /\ conn[c] = "accepted"
    BY <1>1, ClientHeld DEF Answer, TableInv, TcpTypeOK
  <1>4. /\ buffer \in Seq(Units) /\ incoming[c] \in Seq(Units)
        /\ Len(buffer) >= 2 /\ Head(buffer).msg.kind # "alien"
    BY <1>1, <1>2, <1>3 DEF TcpTypeOK, Answer, deserializer
  <1>5. /\ answers' = [answers EXCEPT ![c] = Append(answers[c], Head(buffer).msg)]
        /\ readBuffer' = [readBuffer EXCEPT ![d] = SubSeq(buffer, 3, Len(buffer))]
        /\ UNCHANGED <<conn, owner, sent, incoming, m_clients>>
    BY <1>1, <1>2 DEF Answer, Consume, loopVars
  <1>6. \A e \in m_clients : e # d => owner[e] # c
    BY <1>1, <1>3 DEF TableInv, Ownership, Table, Held
  <1>7. /\ answers'[c] = Append(answers[c], Head(buffer).msg)
        /\ \A x \in Connections : x # c => answers'[x] = answers[x]
        /\ readBuffer'[d] = SubSeq(buffer, 3, Len(buffer))
        /\ \A e \in Descriptors : e # d => readBuffer'[e] = readBuffer[e]
    BY <1>3, <1>5 DEF TcpTypeOK
  <1>8. Follows(c, q) /\ Answered(c)
    BY <1>1, <1>2, <1>3 DEF StreamInv
  <1>9. /\ q \in Seq(Units) /\ Len(q) >= 2 /\ q[1] = Head(buffer)
        /\ r \in Seq(Units) /\ Len(r) = Len(q) - 2
        /\ \A i \in 1..Len(r) : r[i] = q[i + 2]
    <2>1. PICK arrived : arrived = incoming[c]
      OBVIOUS
    <2>2. /\ buffer \in Seq(Units) /\ arrived \in Seq(Units) /\ Len(buffer) >= 2
          /\ q = buffer \o arrived /\ r = SubSeq(buffer, 3, Len(buffer)) \o arrived
      BY <1>2, <1>4, <2>1
    <2> QED
      BY <2>2, CutFront, SMT
  <1>10. q[1].msg.kind # "alien" /\ sent' = sent /\ answers'[c] = Append(answers[c], q[1].msg)
    BY <1>4, <1>5, <1>7, <1>9
  <1>11. Answered(c)' /\ Follows(c, r)'
    BY <1>3, <1>8, <1>9, <1>10, FollowsAnswered, Zenon
  <1>12. ASSUME NEW x \in Connections PROVE Answered(x)'
    <2>1. CASE x = c
      BY <1>11, <2>1, Zenon
    <2>2. CASE x # c
      BY <1>5, <1>7, <2>2 DEF StreamInv, Answered, Message
    <2> QED
      BY <2>1, <2>2
  <1>13. ASSUME NEW x \in Connections, conn'[x] \in {"new", "queued"}
         PROVE  Follows(x, incoming[x])'
    <2>1. x # c /\ Follows(x, incoming[x])
      BY <1>3, <1>5, <1>13 DEF StreamInv
    <2>2. answers'[x] = answers[x] /\ sent' = sent /\ incoming' = incoming
      BY <1>5, <1>7, <2>1
    <2> QED
      BY <2>1, <2>2, Zenon DEF Follows, Unanswered, Message
  <1>14. ASSUME NEW e \in m_clients'
         PROVE  Follows(owner[e], readBuffer[e] \o incoming[owner[e]])'
    <2>1. e \in m_clients /\ e \in Descriptors /\ owner[e] \in Connections
      BY <1>5, ClientHeld DEF TableInv
    <2>2. CASE e = d
      <3>1. owner'[e] = c /\ readBuffer'[e] \o incoming'[c] = r
        BY <1>1, <1>2, <1>5, <1>7, <2>2, Zenon
      <3> QED
        BY <1>11, <3>1, Zenon DEF Follows
    <2>3. CASE e # d
      <3>1. /\ owner'[e] = owner[e] /\ owner[e] # c /\ readBuffer'[e] = readBuffer[e]
            /\ answers'[owner[e]] = answers[owner[e]] /\ incoming' = incoming /\ sent' = sent
        BY <1>5, <1>6, <1>7, <2>1, <2>3
      <3>2. Follows(owner[e], readBuffer[e] \o incoming[owner[e]])
        BY <2>1 DEF StreamInv
      <3> QED
        BY <3>1, <3>2, Zenon DEF Follows, Unanswered, Message
    <2> QED
      BY <2>2, <2>3
  <1> QED
    BY <1>12, <1>13, <1>14 DEF StreamInv

\* A message is sent, on a connection that waits or on a client's.
LEMMA SendKeepsStreams ==
    ASSUME TcpTypeOK, TableInv, StreamInv, NEW c \in Connections, Send(c)
    PROVE  StreamInv'
  <1>1. PICK k \in Kinds :
           LET m == [from |-> c, no |-> Len(sent[c]) + 1, kind |-> k] IN
           /\ sent' = [sent EXCEPT ![c] = Append(@, k)]
           /\ incoming' = [incoming EXCEPT ![c] = @ \o <<[msg |-> m, part |-> "header"],
                                                         [msg |-> m, part |-> "data"]>>]
    BY DEF Send
  <1>2. PICK m, h, b : /\ m = [from |-> c, no |-> Len(sent[c]) + 1, kind |-> k]
                       /\ h = [msg |-> m, part |-> "header"] /\ b = [msg |-> m, part |-> "data"]
    OBVIOUS
  <1>3. /\ h \in Units /\ b \in Units
        /\ h.msg = [from |-> c, no |-> Len(sent[c]) + 1, kind |-> k]
    <2>1. Len(sent[c]) < MaxMessages
      BY SentBounded, Zenon DEF Send
    <2>2. Len(sent[c]) + 1 \in 1..MaxMessages
      BY <2>1, TcpAssumption DEF TcpTypeOK
    <2> QED
      BY <1>2, <2>2 DEF Units, Messages
  <1>4. /\ sent' = [sent EXCEPT ![c] = Append(sent[c], k)]
        /\ incoming' = [incoming EXCEPT ![c] = incoming[c] \o <<h, b>>]
        /\ UNCHANGED <<conn, owner, answers, m_clients, readBuffer>>
    BY <1>1, <1>2 DEF Send, serverVars
  <1>5. /\ sent'[c] = Append(sent[c], k) /\ incoming'[c] = incoming[c] \o <<h, b>>
        /\ \A x \in Connections : x # c => sent'[x] = sent[x] /\ incoming'[x] = incoming[x]
    BY <1>4 DEF TcpTypeOK
  <1>6. ASSUME NEW x \in Connections PROVE Answered(x)'
    <2>1. CASE x = c
      <3>1. /\ Len(sent'[c]) = Len(sent[c]) + 1 /\ Len(sent[c]) \in Nat
            /\ \A i \in 1..Len(sent[c]) : sent'[c][i] = sent[c][i]
        BY <1>5, AppendProperties DEF TcpTypeOK
      <3>2. Len(sent[c]) <= Len(sent'[c]) /\ Len(sent'[c]) \in Nat
        BY <3>1
      <3>3. Answered(c) /\ answers'[c] = answers[c]
        BY <1>4 DEF StreamInv
      <3>4. Answered(c)'
        BY <3>1, <3>2, <3>3, AnsweredKept
      <3> QED
        BY <2>1, <3>4
    <2>2. CASE x # c
      BY <1>4, <1>5, <2>2 DEF StreamInv, Answered, Message
    <2> QED
      BY <2>1, <2>2
  <1>7. ASSUME NEW x \in Connections, conn'[x] \in {"new", "queued"}
        PROVE  Follows(x, incoming[x])'
    <2>1. Follows(x, incoming[x])
      BY <1>4, <1>7 DEF StreamInv
    <2>2. CASE x = c
      <3>1. Answered(c) /\ incoming[c] \in Seq(Units) /\ answers'[c] = answers[c]
        BY <1>4 DEF StreamInv, TcpTypeOK
      <3>2. PICK q, r : q = incoming[c] /\ r = q \o <<h, b>>
        OBVIOUS
      <3>3. Follows(c, r)'
        <4>1. q \in Seq(Units) /\ Follows(c, q)
          BY <2>1, <2>2, <3>1, <3>2, Zenon
        <4>2. sent'[c] = Append(sent[c], k)
          BY <1>5
        <4> QED
          BY <1>3, <3>1, <3>2, <4>1, <4>2, FollowsSent, Zenon
      <3>4. incoming'[x] = r
        BY <1>5, <2>2, <3>2
      <3> QED
        BY <2>2, <3>3, <3>4, Zenon DEF Follows
    <2>3. CASE x # c
      BY <1>4, <1>5, <2>1, <2>3 DEF Follows, Unanswered, Message
    <2> QED
      BY <2>2, <2>3
  <1>8. ASSUME NEW e \in m_clients'
        PROVE  Follows(owner[e], readBuffer[e] \o incoming[owner[e]])'
    <2>1. e \in m_clients /\ e \in Descriptors /\ owner[e] \in Connections
      BY <1>4, ClientHeld DEF TableInv
    <2>2. Follows(owner[e], readBuffer[e] \o incoming[owner[e]])
      BY <2>1 DEF StreamInv
    <2>3. CASE owner[e] = c
      <3>1. /\ Answered(c) /\ incoming[c] \in Seq(Units) /\ readBuffer[e] \in Seq(Units)
            /\ answers'[c] = answers[c]
        BY <1>4, <2>1 DEF StreamInv, TcpTypeOK
      <3>2. PICK q, r : q = readBuffer[e] \o incoming[c] /\ r = q \o <<h, b>>
        OBVIOUS
      <3>3. q \in Seq(Units) /\ Follows(c, q)
        BY <2>2, <2>3, <3>1, <3>2, ConcatProperties
      <3>4. Follows(c, r)'
        <4>1. sent'[c] = Append(sent[c], k)
          BY <1>5
        <4> QED
          BY <1>3, <3>1, <3>2, <3>3, <4>1, FollowsSent, Zenon
      <3>5. readBuffer'[e] \o incoming'[owner'[e]] = r
        <4>1. <<h, b>> \in Seq(Units)
          BY <1>3
        <4>2. (readBuffer[e] \o incoming[c]) \o <<h, b>> = readBuffer[e] \o (incoming[c] \o <<h, b>>)
          BY <3>1, <4>1, Associative, Zenon
        <4> QED
          BY <1>4, <1>5, <2>3, <3>2, <4>2, Zenon
      <3>6. owner'[e] = c
        BY <1>4, <2>3
      <3> QED
        BY <3>4, <3>5, <3>6, Zenon DEF Follows
    <2>4. CASE owner[e] # c
      <3>1. sent'[owner[e]] = sent[owner[e]] /\ incoming'[owner[e]] = incoming[owner[e]]
        BY <1>5, <2>1, <2>4
      <3> QED
        BY <1>4, <2>2, <3>1, ZenonT(30) DEF Follows, Unanswered, Message
    <2> QED
      BY <2>3, <2>4
  <1> QED
    BY <1>6, <1>7, <1>8 DEF StreamInv

LEMMA NextKeepsStreams ==
    ASSUME TcpTypeOK, TableInv, StreamInv, [Next]_vars
    PROVE  StreamInv'
  <1>1. \A d \in m_clients : d \in Descriptors /\ owner[d] \in Connections
    BY ClientHeld DEF TableInv
  <1>2. ASSUME NEW d \in m_clients, removeClient(d), UNCHANGED <<sent, answers, incoming>>
        PROVE  StreamInv'
    <2>1. \A e \in m_clients' :
             e \in m_clients /\ owner'[e] = owner[e] /\ readBuffer'[e] = readBuffer[e]
      BY <1>1, <1>2 DEF removeClient, TcpTypeOK
    <2>2. \A x \in Connections : conn'[x] \in {"new", "queued"} => conn[x] \in {"new", "queued"}
      BY <1>1, <1>2 DEF removeClient, TcpTypeOK
    <2> QED
      BY <1>2, <2>1, <2>2, StreamsKept
  <1>3. ASSUME UNCHANGED <<conn, sent, answers, incoming, m_clients, readBuffer>>,
               \A e \in m_clients : owner'[e] = owner[e]
        PROVE  StreamInv'
    BY <1>3, StreamsKept
  <1>4. CASE UNCHANGED vars \/ EpollWait \/ BatchDone \/ AcceptFails \/ NoMoreMessages
               \/ stopAccepting \/ stop
    <2>1. UNCHANGED <<conn, owner, sent, answers, incoming, m_clients, readBuffer>>
      BY <1>4 DEF vars, netVars, serverVars, EpollWait, BatchDone, AcceptFails, NoMoreMessages,
                  stopAccepting, stop
    <2> QED
      BY <1>3, <2>1
  <1>5. CASE CloseAgain
    <2>1. owner[doomed] \notin Connections
      BY <1>5 DEF CloseAgain, TableInv, Ownership
    <2>2. \A e \in m_clients : e # doomed /\ owner'[e] = owner[e]
      BY <1>1, <1>5, <2>1 DEF CloseAgain, TcpTypeOK
    <2> QED
      BY <1>3, <1>5, <2>2 DEF CloseAgain, netVars, serverVars
  <1>6. ASSUME NEW c \in Connections, NEW d \in Descriptors, acceptNewClient(c, d)
        PROVE  StreamInv'
    BY <1>6, AcceptKeepsStreams
  <1>7. ASSUME NEW c \in Connections, NEW d \in Descriptors,
               RejectNewClient(c, d) \/ AcceptLeaks(c, d)
        PROVE  StreamInv'
    <2>1. Accept(c, d)
      BY <1>7 DEF RejectNewClient, AcceptLeaks
    <2>2. owner[d] \notin Connections
      BY <2>1, Accepting DEF TableInv
    <2>3. \A e \in m_clients : owner'[e] = owner[e]
      BY <1>1, <1>7, <2>2 DEF RejectNewClient, AcceptLeaks, TcpTypeOK
    <2>4. \A x \in Connections : conn'[x] \in {"new", "queued"} => conn[x] \in {"new", "queued"}
      BY <1>7 DEF RejectNewClient, AcceptLeaks, TcpTypeOK
    <2>5. UNCHANGED <<sent, answers, incoming, m_clients, readBuffer>>
      BY <1>7, <2>1 DEF RejectNewClient, AcceptLeaks, Accept
    <2> QED
      BY <2>3, <2>4, <2>5, StreamsKept
  <1>8. ASSUME NEW d \in Descriptors, Receive(d)
        PROVE  StreamInv'
    BY <1>8, ReceiveKeepsStreams
  <1>9. ASSUME NEW d \in Descriptors, ReceiveEnds(d) \/ StopClient(d)
        PROVE  StreamInv'
    BY <1>2, <1>9 DEF ReceiveEnds, StopClient
  <1>10. CASE Answer
    BY <1>10, AnswerKeepsStreams
  <1>11. CASE AnswerFails
    BY <1>2, <1>11 DEF AnswerFails, TcpTypeOK
  <1>12. CASE Stopped
    <2>1. \A x \in Connections : conn'[x] \in {"new", "queued"} => conn[x] \in {"new", "queued"}
      BY <1>12 DEF Stopped
    <2> QED
      BY <1>12, <2>1, StreamsKept DEF Stopped, serverVars
  <1>16. CASE AcceptThrows
    <2>1. \A x \in Connections : conn'[x] \in {"new", "queued"} => conn[x] \in {"new", "queued"}
      BY <1>16 DEF AcceptThrows
    <2> QED
      BY <1>16, <2>1, StreamsKept DEF AcceptThrows
  <1>13. ASSUME NEW c \in Connections, Connect(c) \/ HangUp(c)
         PROVE  StreamInv'
    <2>1. \A x \in Connections : conn'[x] \in {"new", "queued"} => conn[x] \in {"new", "queued"}
      BY <1>13 DEF Connect, HangUp, TcpTypeOK
    <2> QED
      BY <1>13, <2>1, StreamsKept DEF Connect, HangUp, serverVars
  <1>14. ASSUME NEW c \in Connections, Send(c)
         PROVE  StreamInv'
    BY <1>14, SendKeepsStreams
  <1>15. ASSUME NEW d \in Descriptors, OtherOpens(d) \/ OtherCloses(d)
         PROVE  StreamInv'
    <2>1. owner[d] \notin Connections
      BY <1>15, TcpAssumption DEF OtherOpens, OtherCloses, LowestFree, Free
    <2>2. \A e \in m_clients : owner'[e] = owner[e]
      BY <1>1, <1>15, <2>1 DEF OtherOpens, OtherCloses, TcpTypeOK
    <2> QED
      BY <1>3, <1>15, <2>2 DEF OtherOpens, OtherCloses, netVars, serverVars
  <1> QED
    BY <1>4, <1>5, <1>6, <1>7, <1>8, <1>9, <1>10, <1>11, <1>12, <1>13, <1>14, <1>15, <1>16
       DEF Next, Loop, Environment, Terminated

\* However receive() cuts the stream up, whoever had the descriptor before, and whenever
\* a handler fails, a client hangs up or the server stops: the commands of a connection
\* are answered on it in order, each once, and none after a header of another version.
THEOREM AnswersFollowStream == Spec => []AnsweredOnceInOrder
  <1>1. Init => StreamInv
    <2> SUFFICES ASSUME Init PROVE StreamInv
      OBVIOUS
    <2>1. Len(<< >>) = 0
      BY EmptySeq
    <2>2. \A c \in Connections : Answered(c) /\ Follows(c, incoming[c])
      BY <2>1 DEF Init, Answered, Follows, Unanswered
    <2> QED
      BY <2>2 DEF Init, StreamInv
  <1>2. TcpTypeOK /\ TableInv /\ StreamInv /\ [Next]_vars => StreamInv'
    BY NextKeepsStreams
  <1>3. TcpTypeOK /\ StreamInv => AnsweredOnceInOrder
    <2> SUFFICES ASSUME TcpTypeOK, StreamInv, NEW c \in Connections
                 PROVE  /\ IsPrefix(answers[c], SentMessages(c))
                        /\ \A i \in 1..Len(answers[c]) : answers[c][i].kind = "command"
      BY DEF AnsweredOnceInOrder
    <2> DEFINE n == Len(sent[c])
               a == Len(answers[c])
    <2>1. Answered(c)
      BY DEF StreamInv
    <2>2. n \in Nat /\ a \in Nat /\ a <= n /\ answers[c] \in Seq(Messages)
      BY <2>1 DEF TcpTypeOK, Answered
    <2>3. SentMessages(c) = [i \in 1..n |-> Message(c, i)]
      BY DEF SentMessages, Message
    <2>4. Len(SentMessages(c)) = n
      BY <2>2, <2>3
    <2>5. \A i \in 1..a : answers[c][i] = SentMessages(c)[i]
      BY <2>1, <2>2, <2>3 DEF Answered
    <2>6. SubSeq(answers[c], 1, a) = SubSeq(SentMessages(c), 1, a)
      <3>1. SubSeq(answers[c], 1, a) = [i \in 1..a |-> answers[c][i]]
        BY <2>2
      <3>2. SubSeq(SentMessages(c), 1, a) = [i \in 1..a |-> SentMessages(c)[i]]
        BY <2>2, <2>3
      <3> QED
        BY <2>5, <3>1, <3>2
    <2>7. ASSUME NEW i \in 1..a PROVE answers[c][i].kind = "command"
      <3>1. answers[c][i] = Message(c, i) /\ sent[c][i] = "command"
        BY <2>1 DEF Answered
      <3>2. Message(c, i).kind = sent[c][i]
        BY DEF Message
      <3> QED
        BY <3>1, <3>2, Zenon
    <2> QED
      BY <2>2, <2>4, <2>6, <2>7 DEF IsPrefix
  <1> QED
    BY <1>1, <1>2, <1>3, TableHolds, PTL DEF Spec

=============================================================================
