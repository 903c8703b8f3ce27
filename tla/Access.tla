------------------------------- MODULE Access -------------------------------
(***************************************************************************)
(* A subscriber's way in: client processes, the network, UdpServer,        *)
(* SessionManager and the file backend of the CDRs, over several lives of  *)
(* the server process.                                                     *)
(*                                                                         *)
(* A client sends one datagram, waits 500 ms for one answer and ends,      *)
(* answer or not.  The network loses, repeats, delays and reorders.  The   *)
(* clock of SessionManager stands still: sessions end by command or by the *)
(* shutdown timer (module Server has the time-outs).                       *)
(***************************************************************************)
EXTENDS FileCdrWriter

CONSTANTS
    ValidImsi, InitialBlacklist, MaxTotal,      \* of SessionManager
    Clients,
    MaxRecords,         \* bound: CDR records of all lives
    Repeated            \* bound: clients whose datagram may arrive twice

ASSUME AccessAssumption ==
    /\ IsFiniteSet(Imsi) /\ Imsi # {}
    /\ ValidImsi \subseteq Imsi /\ InitialBlacklist \subseteq Imsi
    /\ IsFiniteSet(Clients)

VARIABLES
    m_sessions, m_blacklist, m_draining, m_stats, cdr, now,     \* of SessionManager
    pc,                 \* the server: "down" or "loop"
    client,             \* client[c]: "new", "waiting" or "done"
    m_imsi,             \* m_imsi[c]: what c asks for
    m_response,         \* m_response[c]: "created", "rejected", or "" when none came
    requests,           \* requests[c]: copies of c's datagram on their way
    answers             \* answers[c]: answers on their way to c

S == INSTANCE SessionManager WITH m_sessionTimeoutSec <- 1, MaxTime <- 0

sessionVars == <<m_sessions, m_blacklist, m_draining, m_stats, cdr, now>>
clientVars == <<client, m_imsi, m_response>>
netVars == <<requests, answers>>
vars == <<fileVars, sessionVars, pc, clientVars, netVars>>

Init ==
    /\ FileInit /\ S!SessionInit
    /\ pc = "down"
    /\ client = [c \in Clients |-> "new"]
    /\ m_imsi = [c \in Clients |-> CHOOSE i \in Imsi : TRUE]
    /\ m_response = [c \in Clients |-> ""]
    /\ requests = [c \in Clients |-> 0]
    /\ answers = [c \in Clients |-> {}]

----------------------------------------------------------------------------
(* The client.                                                             *)

MaxCopies(c) == IF c \in Repeated THEN 2 ELSE 1

\* A bad configuration, no logger, or a datagram that cannot be sent end it with exit code 1.
Send(c) ==
    /\ client[c] = "new"
    /\ \/ /\ client' = [client EXCEPT ![c] = "waiting"]
          /\ \E i \in Imsi : m_imsi' = [m_imsi EXCEPT ![c] = i]
          /\ \E n \in 0..MaxCopies(c) : requests' = [requests EXCEPT ![c] = n]
       \/ client' = [client EXCEPT ![c] = "done"] /\ UNCHANGED <<m_imsi, requests>>
    /\ UNCHANGED <<fileVars, sessionVars, pc, m_response, answers>>

\* The socket is closed, and what is still on its way to it is dropped.
End(c) ==
    /\ client' = [client EXCEPT ![c] = "done"]
    /\ answers' = [answers EXCEPT ![c] = {}]

\* poll returns and one datagram is read; the others are never looked at.
Receive(c) ==
    /\ client[c] = "waiting"
    /\ \E a \in answers[c] : m_response' = [m_response EXCEPT ![c] = a]
    /\ End(c)
    /\ UNCHANGED <<fileVars, sessionVars, pc, m_imsi, requests>>

\* Nothing comes in time, poll fails, or receive throws (exit code 1; else 0, answer or not).
GiveUp(c) ==
    /\ client[c] = "waiting"
    /\ End(c)
    /\ UNCHANGED <<fileVars, sessionVars, pc, m_imsi, m_response, requests>>

----------------------------------------------------------------------------
(* The server's main thread.                                               *)

\* The records of all lives: which life, and which record of that life.
Handed == UNION {{l} \X DOMAIN written[l] : l \in 1..MaxLives}

\* The CDR record of a call of the session manager that concerns i, if there is one.
Recorded(i) ==
    IF Len(cdr'[i]) = Len(cdr[i])
    THEN UNCHANGED fileVars
    ELSE /\ Cardinality(Handed) < MaxRecords
         /\ writeAction([imsi |-> i, action |-> cdr'[i][Len(cdr'[i])]])

\* Mutant: a session that exists is answered like a new one.
AnswerExisting(c) ==
    IF m_imsi[c] \in ValidImsi /\ S!CreateResult(m_imsi[c]) \in {"CREATED", "ALREADY_EXISTS"}
    THEN "created" ELSE "rejected"

Answer(c) ==
    IF m_imsi[c] \in ValidImsi /\ S!CreateResult(m_imsi[c]) = "CREATED"
    THEN "created" ELSE "rejected"

\* One turn of the loop in processEvent: receive, validate, create, answer.  A failure to
\* receive ends the loop, a failure to send is reported, and either way the next datagram
\* waits for another turn.
UdpRequest(c) ==
    /\ pc = "loop" /\ requests[c] > 0
    /\ requests' = [requests EXCEPT ![c] = @ - 1]
    /\ IF m_imsi[c] \in ValidImsi
       THEN S!createSession(m_imsi[c]) /\ Recorded(m_imsi[c]) /\ UNCHANGED now
       ELSE UNCHANGED <<sessionVars, fileVars>>
    /\ \/ client[c] = "waiting" /\ answers' = [answers EXCEPT ![c] = @ \union {Answer(c)}]
       \/ UNCHANGED answers       \* it is lost, or not sent
    /\ UNCHANGED <<pc, clientVars>>

\* STOP_SESSION, and an expiration of the shutdown timer.
EndSession(i) ==
    /\ pc = "loop"
    /\ S!terminateSession(i) /\ Recorded(i)
    /\ UNCHANGED <<now, pc, clientVars, netVars>>

\* GET_CDR.
GetCdr ==
    /\ pc = "loop"
    /\ getRecentRecords
    /\ UNCHANGED <<sessionVars, pc, clientVars, netVars>>

StartDraining ==
    /\ pc = "loop" /\ ~m_draining
    /\ S!startDraining
    /\ UNCHANGED <<fileVars, now, pc, clientVars, netVars>>

\* The loop ends: the timer has found no session left, or epoll failed.
Exit ==
    /\ pc = "loop" /\ pc' = "down"
    /\ Destroy
    /\ UNCHANGED <<sessionVars, clientVars, netVars>>

\* What the session manager is born with.
NewSessions ==
    /\ m_sessions' = [i \in Imsi |-> S!Absent] /\ m_blacklist' = InitialBlacklist
    /\ m_draining' = FALSE /\ m_stats' = [f \in DOMAIN m_stats |-> 0]
    /\ cdr' = [i \in Imsi |-> << >>] /\ now' = 0

Dies ==
    /\ pc = "loop" /\ pc' = "down"
    /\ Crash /\ NewSessions
    /\ UNCHANGED <<clientVars, netVars>>

Boot ==
    /\ pc = "down" /\ pc' = "loop"
    /\ Construct /\ NewSessions
    /\ UNCHANGED <<clientVars, netVars>>

Next ==
    \/ \E c \in Clients : Send(c) \/ Receive(c) \/ GiveUp(c) \/ UdpRequest(c)
    \/ \E i \in Imsi : EndSession(i)
    \/ GetCdr \/ StartDraining \/ Exit \/ Dies \/ Boot

Spec == Init /\ [][Next]_vars

----------------------------------------------------------------------------
(* Properties.                                                             *)

\* Every variable has its type, and the file backend sees what the session manager wrote.
AccessTypeOK ==
    /\ FileTypeOK /\ S!SessionTypeOK
    /\ pc \in {"down", "loop"}
    /\ pc = "down" <=> m_writeFile = "none"
    /\ client \in [Clients -> {"new", "waiting", "done"}]
    /\ m_imsi \in [Clients -> Imsi]
    /\ m_response \in [Clients -> {"created", "rejected", ""}]
    /\ requests \in [Clients -> 0..2]
    /\ answers \in [Clients -> SUBSET {"created", "rejected"}]

\* The clients of subscriber i that have read "created", and the CREATED records of i that
\* were handed to the file backend, in all lives.
Told(i) == {c \in Clients : m_imsi[c] = i /\ m_response[c] = "created"}
Granted(i) == {r \in Handed : written[r[1]][r[2]] = [imsi |-> i, action |-> "CREATED"]}

\* A record is in the file, or on its way to it.
Stands(r) ==
    LET stream == file \o buffer IN \E k \in DOMAIN stream : stream[k] = Piece(r[1], r[2])

\* Life l is closed by "CDR ended" in the file, or still runs with its file in order: the
\* file was opened, the disk has not run full, and the process has not crashed.
Kept(l) ==
    \/ \E k \in DOMAIN file : file[k] = Piece(l, Ended)
    \/ l = life /\ m_writeFile = "good"

\* Whatever is repeated, lost or reordered on the way, and over restarts: each client of a
\* subscriber that reads "created" has a CREATED record to itself, and it stands in the
\* CDR file or its buffer, unless the file of that life could not be opened, ran full, or
\* was left by a crash.  (README.md:162 knows no such exception; FileCdrWriter.cpp:46 drops the
\* record of a file that could not be opened, and the client is answered all the same.)
CreatedMeansBilled ==
    \A i \in Imsi :
        Cardinality(Told(i)) <= Cardinality({r \in Granted(i) : Kept(r[1]) => Stands(r)})

\* What the file says of life l.
Says(l) == LET stored == Stored(l) IN [k \in DOMAIN stored |-> written[l][stored[k]]]

\* How many sessions of subscriber i the first n of these records have opened and not closed.
Naming(records, i, action, n) == {k \in 1..n : records[k] = [imsi |-> i, action |-> action]}
OpenAfter(records, i, n) ==
    Cardinality(Naming(records, i, "CREATED", n)) - Cardinality(Naming(records, i, "DELETED", n))

\* In the file, each life bills a subscriber CREATED, DELETED, CREATED, ...: a crash or a
\* full disk cuts the end of a life's records off and never leaves a hole, so that no
\* DELETED stands without its CREATED.
BilledPerLife ==
    \A l \in 1..MaxLives :
        LET says == Says(l) IN
        \A i \in Imsi : \A n \in 0..Len(says) : OpenAfter(says, i, n) \in {0, 1}

\* A file that says "CDR ended" for a life has all of the records of that life, and shows
\* open exactly the sessions that were open when the process left: none after a drain.
CleanExitComplete ==
    \A l \in 1..MaxLives :
        (\E k \in DOMAIN file : file[k] = Piece(l, Ended)) =>
            LET says == Says(l) IN
            /\ Len(says) = Len(written[l])
            /\ l = life => \A i \in Imsi : S!hasSession(i) <=> OpenAfter(says, i, Len(says)) = 1
=============================================================================
