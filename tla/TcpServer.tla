------------------------------ MODULE TcpServer ------------------------------
(***************************************************************************)
(* TcpServer, the TcpSocket and TcpSerializer functions it calls, and the  *)
(* lines of the event loop that accept, register and serve TCP clients.    *)
(*                                                                         *)
(* A message is a header and its data, each one unit of the byte stream; a *)
(* receive returns any number of units that have arrived.  A descriptor is *)
(* a number: the kernel gives the lowest one that is free, here or to the  *)
(* process's other threads (HTTP, CDR flusher).  The listening socket, the *)
(* epoll and timer descriptors and the UDP socket are not counted.         *)
(***************************************************************************)
EXTENDS Naturals, FiniteSets, SequencesExt

CONSTANTS
    Connections,        \* TCP connections that clients make
    MaxDescriptors,     \* open at a time (the process's limit)
    MaxMessages,        \* bound: messages that the clients send
    MaxOthers           \* bound: descriptors other threads hold at a time

ASSUME TcpAssumption ==
    /\ IsFiniteSet(Connections)
    /\ Connections \intersect {"free", "other"} = {}
    /\ MaxDescriptors \in Nat
    /\ MaxMessages \in Nat /\ MaxOthers \in Nat

VARIABLES
    conn,               \* how far a connection has got
    backlog,            \* connections to accept
    sent,               \* kinds of the messages sent on a connection
    incoming,           \* units that have arrived and are not received yet
    hungUp,             \* connections the client has closed
    answers,            \* messages that were answered on a connection
    owner,              \* who holds a descriptor
    interest,           \* descriptors in the epoll set
    events,             \* what epoll_wait returned and is not handled yet
    pc,                 \* where the loop is
    serving,            \* the client in handleClientData, or 0
    doomed,             \* a number closed once and about to be closed again, or 0
    m_clients, readBuffer, m_stopAccepting, m_running

netVars == <<conn, backlog, sent, incoming, hungUp, answers>>
loopVars == <<interest, events, pc, serving>>
serverVars == <<m_clients, readBuffer, m_stopAccepting, m_running>>
vars == <<netVars, owner, doomed, loopVars, serverVars>>

Descriptors == 1..MaxDescriptors
Listening == 0                  \* the server's own socket
Free == {d \in Descriptors : owner[d] = "free"}
LowestFree(d) == d \in Free /\ \A e \in Free : d <= e

\* What a client may send: a command, or a header with another protocol version.
Kinds == {"command", "alien"}
Messages == [from : Connections, no : 1..MaxMessages, kind : Kinds]
Units == [msg : Messages, part : {"header", "data"}]
Sent(c) == {c} \X DOMAIN sent[c]

Init ==
    /\ conn = [c \in Connections |-> "new"]
    /\ backlog = << >>
    /\ sent = [c \in Connections |-> << >>]
    /\ incoming = [c \in Connections |-> << >>]
    /\ hungUp = {}
    /\ answers = [c \in Connections |-> << >>]
    /\ owner = [d \in Descriptors |-> "free"]
    /\ interest = {} /\ events = << >> /\ pc = "wait"
    /\ serving = 0 /\ doomed = 0
    /\ m_clients = {}
    /\ readBuffer = [d \in Descriptors |-> << >>]
    /\ m_stopAccepting = FALSE /\ m_running = TRUE

----------------------------------------------------------------------------
(* The outside: clients and the other threads.                             *)

Connect(c) ==
    /\ conn[c] = "new" /\ m_running
    /\ conn' = [conn EXCEPT ![c] = "queued"]
    /\ backlog' = Append(backlog, c)
    /\ UNCHANGED <<sent, incoming, hungUp, answers, owner, doomed, loopVars, serverVars>>

Send(c) ==
    /\ conn[c] \in {"queued", "accepted"} /\ c \notin hungUp
    /\ Cardinality(UNION {Sent(x) : x \in Connections}) < MaxMessages
    /\ \E k \in Kinds :
          LET m == [from |-> c, no |-> Len(sent[c]) + 1, kind |-> k] IN
          /\ sent' = [sent EXCEPT ![c] = Append(@, k)]
          /\ incoming' = [incoming EXCEPT ![c] = @ \o <<[msg |-> m, part |-> "header"],
                                                        [msg |-> m, part |-> "data"]>>]
    /\ UNCHANGED <<conn, backlog, hungUp, answers, owner, doomed, loopVars, serverVars>>

HangUp(c) ==
    /\ conn[c] \in {"queued", "accepted"}
    /\ hungUp' = hungUp \union {c}
    /\ UNCHANGED <<conn, backlog, sent, incoming, answers, owner, doomed, loopVars, serverVars>>

\* They close what they hold; what they do with a number taken from them is not followed.
OtherOpens(d) ==
    /\ LowestFree(d) /\ pc # "dead"
    /\ Cardinality({e \in Descriptors : owner[e] = "other"}) < MaxOthers
    /\ owner' = [owner EXCEPT ![d] = "other"]
    /\ UNCHANGED <<netVars, doomed, loopVars, serverVars>>

OtherCloses(d) ==
    /\ owner[d] = "other" /\ pc # "dead"
    /\ owner' = [owner EXCEPT ![d] = "free"]
    /\ UNCHANGED <<netVars, doomed, loopVars, serverVars>>

----------------------------------------------------------------------------
(* The loop.                                                               *)

\* At most MAX_FDS of the readable descriptors, in any order.
Ready ==
    {d \in interest : owner[d] \in Connections
                         /\ (incoming[owner[d]] # << >> \/ owner[d] \in hungUp)}
        \union (IF backlog = << >> THEN {} ELSE {Listening})

EpollWait ==
    /\ pc = "wait"
    /\ events' \in SetToSeqs(Ready)
    /\ pc' = "batch"
    /\ UNCHANGED <<netVars, owner, doomed, interest, serving, serverVars>>

BatchDone ==
    /\ pc = "batch" /\ doomed = 0 /\ events = << >>
    /\ pc' = "wait"
    /\ UNCHANGED <<netVars, owner, doomed, interest, events, serving, serverVars>>

\* A shutdown was requested.
stopAccepting ==
    /\ pc = "wait" /\ ~m_stopAccepting
    /\ m_stopAccepting' = TRUE
    /\ UNCHANGED <<netVars, owner, doomed, loopVars, m_clients, readBuffer, m_running>>

\* TcpSocket::accept: the connection gets a number; the socket object made for it opens
\* another one for a moment.
Accept(c, d) ==
    /\ pc = "batch" /\ doomed = 0
    /\ events # << >> /\ Head(events) = Listening
    /\ c = Head(backlog) /\ backlog' = Tail(backlog)
    /\ LowestFree(d)
    /\ events' = Tail(events)
    /\ UNCHANGED <<sent, incoming, hungUp, answers, serving, m_stopAccepting>>

\* The client is entered in the table and in the epoll set; an epoll_ctl that fails is
\* logged, and the client stays in the table unwatched.
acceptNewClient(c, d) ==
    /\ Accept(c, d) /\ Cardinality(Free) > 1 /\ ~m_stopAccepting
    /\ conn' = [conn EXCEPT ![c] = "accepted"]
    /\ owner' = [owner EXCEPT ![d] = c]
    /\ m_clients' = m_clients \union {d}
    /\ readBuffer' = [readBuffer EXCEPT ![d] = << >>]
    /\ interest' \in {interest, interest \union {d}}
    /\ UNCHANGED <<doomed, pc, m_running>>

\* Closed by number; the number is closed again when the socket object dies.
RejectNewClient(c, d) ==
    /\ Accept(c, d) /\ Cardinality(Free) > 1 /\ m_stopAccepting
    /\ conn' = [conn EXCEPT ![c] = "closed"]
    /\ doomed' = d
    /\ UNCHANGED <<owner, interest, m_clients, readBuffer, pc, m_running>>

\* With no second number, here or in the system (ENFILE), the object cannot be made: its
\* constructor throws, and nobody closes the first.
AcceptLeaks(c, d) ==
    /\ Accept(c, d) /\ ~m_stopAccepting
    /\ conn' = [conn EXCEPT ![c] = "leaked"]
    /\ owner' = [owner EXCEPT ![d] = c]
    /\ UNCHANGED <<interest, doomed, m_clients, readBuffer, pc, m_running>>

\* While rejecting, that exception leaves the loop.  The process dies of it before stop() is
\* called (module Lifecycle), and the kernel closes all there is.
AcceptThrows ==
    /\ pc = "batch" /\ doomed = 0 /\ m_stopAccepting
    /\ events # << >> /\ Head(events) = Listening /\ Free # {}
    /\ conn' = [c \in Connections |-> IF conn[c] = "new" THEN "new" ELSE "closed"]
    /\ backlog' = << >>
    /\ owner' = [d \in Descriptors |-> "free"]
    /\ interest' = {} /\ m_clients' = {} /\ m_running' = FALSE
    /\ pc' = "dead"
    /\ UNCHANGED <<sent, incoming, hungUp, answers, events, serving, doomed, readBuffer,
                   m_stopAccepting>>

\* accept() fails for want of a number or of memory, and the connection waits.
AcceptFails ==
    /\ pc = "batch" /\ doomed = 0
    /\ events # << >> /\ Head(events) = Listening
    /\ events' = Tail(events)
    /\ UNCHANGED <<netVars, owner, doomed, interest, pc, serving, serverVars>>

\* close() of a number: it goes to the kernel, whoever holds it.
CloseAgain ==
    /\ doomed # 0
    /\ owner' = [owner EXCEPT ![doomed] = "free"]
    /\ doomed' = 0
    /\ UNCHANGED <<netVars, loopVars, serverVars>>

\* Mutant: the client stays in the table.
removeClientKeepsEntry(d) ==
    /\ conn' = [conn EXCEPT ![owner[d]] = "closed"]
    /\ owner' = [owner EXCEPT ![d] = "free"]
    /\ interest' = interest \ {d}
    /\ UNCHANGED <<m_clients, readBuffer>>

\* Closing takes the descriptor out of the epoll set too.
removeClient(d) ==
    /\ conn' = [conn EXCEPT ![owner[d]] = "closed"]
    /\ owner' = [owner EXCEPT ![d] = "free"]
    /\ interest' = interest \ {d}
    /\ m_clients' = m_clients \ {d}
    /\ readBuffer' = [readBuffer EXCEPT ![d] = << >>]

\* handleClientData, first half.  The client is in the table and, being readable, has
\* data or has hung up; a receive that finds neither does not occur in this loop.
Receive(d) ==
    /\ pc = "batch" /\ doomed = 0
    /\ events # << >> /\ Head(events) = d /\ d \in m_clients
    /\ \E n \in 1..Len(incoming[owner[d]]) :
          /\ readBuffer' = [readBuffer EXCEPT ![d] = @ \o SubSeq(incoming[owner[d]], 1, n)]
          /\ incoming' = [incoming EXCEPT ![owner[d]] = SubSeq(@, n + 1, Len(@))]
    /\ serving' = d
    /\ pc' = "messages"
    /\ events' = Tail(events)
    /\ UNCHANGED <<conn, backlog, sent, hungUp, answers, owner, doomed, interest, m_clients,
                   m_stopAccepting, m_running>>

\* End of the stream, or a reset, which makes receive() throw whatever has arrived.
ReceiveEnds(d) ==
    /\ pc = "batch" /\ doomed = 0
    /\ events # << >> /\ Head(events) = d /\ d \in m_clients
    /\ owner[d] \in hungUp
    /\ removeClient(d)
    /\ events' = Tail(events)
    /\ UNCHANGED <<backlog, sent, incoming, hungUp, answers, doomed, pc, serving,
                   m_stopAccepting, m_running>>

\* The buffer begins with a message that can be handled.
deserializer(buffer) ==
    /\ Len(buffer) >= 2
    /\ Head(buffer).msg.kind # "alien"

NoMoreMessages ==
    /\ pc = "messages" /\ ~deserializer(readBuffer[serving])
    /\ serving' = 0
    /\ pc' = "batch"
    /\ UNCHANGED <<netVars, owner, doomed, interest, events, serverVars>>

\* Mutant: only the header is erased.
ConsumeHeader(d) == readBuffer' = [readBuffer EXCEPT ![d] = Tail(@)]

Consume(d) == readBuffer' = [readBuffer EXCEPT ![d] = SubSeq(@, 3, Len(@))]

\* Mutant: one message for each receive.
AnswerOne ==
    /\ pc = "messages" /\ deserializer(readBuffer[serving])
    /\ answers' = [answers EXCEPT ![owner[serving]] = Append(@, Head(readBuffer[serving]).msg)]
    /\ Consume(serving)
    /\ serving' = 0
    /\ pc' = "batch"
    /\ UNCHANGED <<conn, backlog, sent, incoming, hungUp, owner, doomed, interest, events,
                   m_clients, m_stopAccepting, m_running>>

\* The command is handled and answered.
Answer ==
    /\ pc = "messages" /\ deserializer(readBuffer[serving])
    /\ answers' = [answers EXCEPT ![owner[serving]] = Append(@, Head(readBuffer[serving]).msg)]
    /\ Consume(serving)
    /\ UNCHANGED <<conn, backlog, sent, incoming, hungUp, owner, doomed, loopVars, m_clients,
                   m_stopAccepting, m_running>>

\* Mutant: the exception does not end the loop over the messages.
AnswerFailsGoesOn ==
    /\ pc = "messages" /\ deserializer(readBuffer[serving])
    /\ removeClient(serving)
    /\ UNCHANGED <<backlog, sent, incoming, hungUp, answers, doomed, events, pc, serving,
                   m_stopAccepting, m_running>>

\* The handler throws, or the answer cannot be sent: the client hung up or reads too slowly.
AnswerFails ==
    /\ pc = "messages" /\ deserializer(readBuffer[serving])
    /\ removeClient(serving)
    /\ serving' = 0
    /\ pc' = "batch"
    /\ UNCHANGED <<backlog, sent, incoming, hungUp, answers, doomed, events, m_stopAccepting,
                   m_running>>

\* The loop has ended.  Every client's number is closed, twice, then the
\* listening socket and with it what is in the backlog.
stop ==
    /\ pc = "wait"
    /\ m_running' = FALSE
    /\ pc' = "stop"
    /\ UNCHANGED <<netVars, owner, doomed, interest, events, serving, m_clients, readBuffer,
                   m_stopAccepting>>

StopClient(d) ==
    /\ pc = "stop" /\ doomed = 0 /\ d \in m_clients
    /\ removeClient(d)
    /\ doomed' = d
    /\ UNCHANGED <<backlog, sent, incoming, hungUp, answers, events, pc, serving, m_stopAccepting,
                   m_running>>

Stopped ==
    /\ pc = "stop" /\ doomed = 0 /\ m_clients = {}
    /\ conn' = [c \in Connections |-> IF conn[c] = "queued" THEN "closed" ELSE conn[c]]
    /\ backlog' = << >>
    /\ pc' = "done"
    /\ UNCHANGED <<sent, incoming, hungUp, answers, owner, doomed, interest, events, serving,
                   serverVars>>

Loop ==
    \/ EpollWait \/ BatchDone \/ AcceptFails \/ AcceptThrows \/ CloseAgain
    \/ \E c \in Connections, d \in Descriptors :
          acceptNewClient(c, d) \/ RejectNewClient(c, d) \/ AcceptLeaks(c, d)
    \/ \E d \in Descriptors : Receive(d) \/ ReceiveEnds(d) \/ StopClient(d)
    \/ NoMoreMessages \/ Answer \/ AnswerFails \/ Stopped

Environment ==
    \/ \E c \in Connections : Connect(c) \/ Send(c) \/ HangUp(c)
    \/ \E d \in Descriptors : OtherOpens(d) \/ OtherCloses(d)
    \/ stopAccepting \/ stop

Terminated == pc \in {"done", "dead"} /\ UNCHANGED vars

Next == Loop \/ Environment \/ Terminated

\* The thread is scheduled.
Spec == Init /\ [][Next]_vars /\ WF_vars(Loop)

----------------------------------------------------------------------------
(* Properties.                                                             *)

\* The variables have their types.
TcpTypeOK ==
    /\ conn \in [Connections -> {"new", "queued", "accepted", "leaked", "closed"}]
    /\ backlog \in Seq(Connections)
    /\ sent \in [Connections -> Seq(Kinds)]
    /\ incoming \in [Connections -> Seq(Units)]
    /\ hungUp \subseteq Connections
    /\ answers \in [Connections -> Seq(Messages)]
    /\ owner \in [Descriptors -> Connections \union {"free", "other"}]
    /\ interest \subseteq Descriptors
    /\ events \in Seq(Descriptors \union {Listening})
    /\ pc \in {"wait", "batch", "messages", "stop", "done", "dead"}
    /\ serving \in Descriptors \union {0}
    /\ pc = "messages" => serving \in m_clients
    /\ doomed \in Descriptors \union {0}
    /\ m_clients \subseteq Descriptors
    /\ readBuffer \in [Descriptors -> Seq(Units)]
    /\ m_stopAccepting \in BOOLEAN /\ m_running \in BOOLEAN

\* The messages of a connection, as sent.
SentMessages(c) == [i \in 1..Len(sent[c]) |-> [from |-> c, no |-> i, kind |-> sent[c][i]]]

\* However the stream is cut up by receive() and whoever had the descriptor before:
\* the commands of a connection are answered on it in order, each of them once, and
\* none after a message of another version.
AnsweredOnceInOrder ==
    \A c \in Connections :
        /\ IsPrefix(answers[c], SentMessages(c))
        /\ \A i \in 1..Len(answers[c]) : answers[c][i].kind = "command"

\* Between events the client table and the kernel name the same descriptors, each that of
\* one accepted connection, and the epoll set no other; none is left when the server has
\* stopped.  (What AcceptLeaks leaves behind is outside all three.)
TableMatchesDescriptors ==
    LET Held == {d \in Descriptors : owner[d] \in Connections /\ conn[owner[d]] = "accepted"} IN
    /\ m_clients = Held /\ interest \subseteq Held
    /\ {owner[d] : d \in Held} = {c \in Connections : conn[c] = "accepted"}
    /\ \A d, e \in Held : owner[d] = owner[e] => d = e
    /\ pc = "done" => Held = {}

\* Every command a client gets through before it sends another version is answered, or
\* the connection is closed: no client stays connected and unserved, but for one that could
\* not be entered in the epoll set.
Unwatched(c) == \E d \in m_clients \ interest : owner[d] = c
CommandsServed ==
    \A c \in Connections : \A i \in 1..MaxMessages :
        (/\ conn[c] = "accepted" /\ i <= Len(sent[c])
         /\ \A j \in 1..i : sent[c][j] = "command")
            ~> (Len(answers[c]) >= i \/ conn[c] = "closed" \/ Unwatched(c))

\* "Closes the socket if it is open" (TcpSocket.h:56): closing a client closes nothing
\* that belongs to another thread.
OthersUntouched ==
    [][\A d \in Descriptors : owner[d] = "other" /\ owner'[d] # "other" => doomed' = doomed]_vars
=============================================================================
