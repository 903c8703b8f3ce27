----------------------------- MODULE TcpAnswers -----------------------------
(***************************************************************************)
(* What a management client gets back: TcpHandler, the answer half of      *)
(* TcpSerializer and of TcpServer::handleClientData, and TcpSocket::send,  *)
(* on one connection, with a client that sends commands ahead of reading   *)
(* the answers and takes these apart with the same deserializer.           *)
(*                                                                         *)
(* The stream of answers is a sequence of units: the first three bytes of  *)
(* a header (start), its length field, and the pieces of the JSON data.    *)
(* Commands arrive whole and in order (TcpServer has their half).  The     *)
(* session commands are for one subscriber, whose session only they        *)
(* create.                                                                 *)
(***************************************************************************)
EXTENDS Naturals, Sequences, FiniteSetsExt

CONSTANTS
    Commands,           \* the commands that are sent
    MaxCommands,        \* bound: how many of them
    SendBuffer,         \* units that the kernel keeps for the client
    JsonUnits           \* units of an answer's JSON data

Reports == {"GET_STATS", "GET_SESSIONS", "GET_CDR"}
SessionCommands == {"START_SESSION", "STOP_SESSION"}
Unknown == "TEST"       \* or any other code the server has no handler for
Command == Reports \union SessionCommands \union {"SHUTDOWN", Unknown}

ASSUME AnswersAssumption ==
    /\ Commands \subseteq Command
    /\ MaxCommands \in Nat
    /\ SendBuffer \in Nat \ {0} /\ JsonUnits \in Nat \ {0}

\* The imsi parameter: a string (well formed or not), of another JSON type, not there
\* (nor in data that is empty or cannot be parsed), or the data is no object.
Params == {"valid", "invalid", "wrongType", "missing", "notObject"}

Requests ==
    [command : Commands \ SessionCommands, params : {"valid"}]
        \union [command : Commands \intersect SessionCommands, params : Params]

VARIABLES
    requests,           \* what the client has sent
    answers,            \* what the handler has answered, serialized
    pc,                 \* of handleClientData: "handle" or "send"
    pipe,               \* units that are sent and not received
    cut,                \* the first answer that was sent in part, or 0
    buffer, decoded,    \* the client's: what it has received, the answers it found in it
    conn,               \* the connection, and why it has ended
    active,             \* the subscriber has a session
    m_shutdownRequest

streamVars == <<pipe, cut>>
clientVars == <<buffer, decoded>>
vars == <<requests, answers, pc, streamVars, clientVars, conn, active, m_shutdownRequest>>

PROTOCOL_VERSION == 1
Start(version, command, status) ==
    [part |-> "start", version |-> version, command |-> command, status |-> status]
Length(n) == [part |-> "length", length |-> n]
Json(result) == [i \in 1..JsonUnits |-> [part |-> "json", of |-> result, at |-> i]]

serializer(start, data) == <<start, Length(Len(data))>> \o data

\* Mutant: the length of an answer without data is left over from the one before.
createJsonMsgKeepsLength(command, status, data) ==
    <<Start(PROTOCOL_VERSION, command, status), Length(JsonUnits)>> \o data

createJsonMsg(command, status, data) ==
    serializer(Start(PROTOCOL_VERSION, command, status), data)

\* A message begins here and is complete.  A piece of a message where a header should be
\* has another first byte; where the length should be, it is taken for one out of reach.
deserializer(bytes) ==
    /\ Len(bytes) >= 2
    /\ bytes[1].part = "start" /\ bytes[1].version = PROTOCOL_VERSION
    /\ bytes[2].part = "length" /\ Len(bytes) >= 2 + bytes[2].length

Init ==
    /\ requests = << >> /\ answers = << >> /\ pc = "handle"
    /\ pipe = << >> /\ cut = 0
    /\ buffer = << >> /\ decoded = << >>
    /\ conn = "open"
    /\ active = FALSE /\ m_shutdownRequest = FALSE

----------------------------------------------------------------------------
(* TcpHandler::handle, one action for each way through it.                 *)

Front == requests[Len(answers) + 1]     \* the message at the front of readBuffer

Handling(commands) ==
    /\ conn = "open" /\ pc = "handle"
    /\ Len(answers) < Len(requests) /\ Front.command \in commands

Reply(message) ==
    /\ answers' = Append(answers, message)
    /\ pc' = "send"
    /\ UNCHANGED <<requests, streamVars, clientVars, conn>>

handleGet ==
    /\ Handling(Reports)
    /\ Reply(createJsonMsg(Front.command, "OK", Json("report")))
    /\ UNCHANGED <<active, m_shutdownRequest>>

InvalidParams ==
    /\ Handling(SessionCommands) /\ Front.params \in {"invalid", "missing"}
    /\ Reply(createJsonMsg(Front.command, "INVALID_PARAMS", << >>))
    /\ UNCHANGED <<active, m_shutdownRequest>>

\* createSession; a blacklisted subscriber, and everyone while draining, is rejected.
handleStartSession ==
    /\ Handling({"START_SESSION"}) /\ Front.params = "valid"
    /\ \E result \in {"rejected", IF active THEN "exists" ELSE "created"} :
          /\ Reply(createJsonMsg(Front.command, "OK", Json(result)))
          /\ active' = (active \/ result = "created")
    /\ UNCHANGED m_shutdownRequest

\* Mutant: the answer is made without ending the session.
handleStopSessionOnlySaysSo ==
    /\ Handling({"STOP_SESSION"}) /\ Front.params = "valid"
    /\ Reply(createJsonMsg(Front.command, "OK", Json(IF active THEN "deleted" ELSE "not_found")))
    /\ UNCHANGED <<active, m_shutdownRequest>>

handleStopSession ==
    /\ Handling({"STOP_SESSION"}) /\ Front.params = "valid"
    /\ Reply(createJsonMsg(Front.command, "OK", Json(IF active THEN "deleted" ELSE "not_found")))
    /\ active' = FALSE
    /\ UNCHANGED m_shutdownRequest

handleShutdown ==
    /\ Handling({"SHUTDOWN"})
    /\ Reply(createJsonMsg(Front.command, "OK", Json("requested")))
    /\ m_shutdownRequest' = TRUE
    /\ UNCHANGED active

\* Mutant: the status is not set either.
UnknownCommandNoStatus ==
    /\ Handling({Unknown})
    /\ \E version \in {PROTOCOL_VERSION, 0} :
          Reply(serializer(Start(version, Front.command, "?"), << >>))
    /\ UNCHANGED <<active, m_shutdownRequest>>

\* The version byte of this answer is not initialized.
UnknownCommand ==
    /\ Handling({Unknown})
    /\ \E version \in {PROTOCOL_VERSION, 0} :
          Reply(serializer(Start(version, Front.command, "INVALID_COMMAND"), << >>))
    /\ UNCHANGED <<active, m_shutdownRequest>>

\* The connection ends; when commands are unread, the kernel may reset it.  Sessions end
\* with the process.
Ends(how) ==
    /\ conn' = how
    /\ pipe' \in {pipe} \union (IF Len(answers) < Len(requests) THEN {<< >>} ELSE {})
    /\ active' = (active /\ how = "dropped")
    /\ UNCHANGED <<requests, answers, pc, cut, clientVars, m_shutdownRequest>>

\* The JSON library throws and the client is removed.
ParamsThrow ==
    /\ Handling(SessionCommands) /\ Front.params \in {"wrongType", "notObject"}
    /\ Ends("dropped")

\* A missing key is looked up in a const object, which is undefined: with assertions the
\* process ends, without them it may go on as with no string (InvalidParams).
ParamsUndefined ==
    /\ Handling(SessionCommands) /\ Front.params = "missing"
    /\ Ends("crashed")

----------------------------------------------------------------------------
(* TcpSocket::send, and the end of the connection.                         *)

Room == SendBuffer - Len(pipe)

\* What the kernel has no room for is dropped; the command counts as answered.
Send ==
    /\ conn = "open" /\ pc = "send" /\ Room > 0
    /\ LET message == answers[Len(answers)] IN
          /\ pipe' = pipe \o SubSeq(message, 1, Min({Room, Len(message)}))
          /\ cut' = IF cut = 0 /\ Room < Len(message) THEN Len(answers) ELSE cut
    /\ pc' = "handle"
    /\ UNCHANGED <<requests, answers, clientVars, conn, active, m_shutdownRequest>>

\* Mutant: the exception is swallowed before removeClient.
SendThrowsStays ==
    /\ conn = "open" /\ pc = "send" /\ Room = 0
    /\ pc' = "handle"
    /\ UNCHANGED <<requests, answers, streamVars, clientVars, conn, active, m_shutdownRequest>>

\* No room at all: EAGAIN is an error like any other, and the client is removed.
SendThrows ==
    /\ conn = "open" /\ pc = "send" /\ Room = 0
    /\ Ends("dropped")

\* The server stops, for a SHUTDOWN or otherwise.
Stop ==
    /\ conn = "open" /\ pc = "handle"
    /\ Ends("stopped")

----------------------------------------------------------------------------
(* The client, and what else ends sessions.                                *)

SendCommand ==
    /\ conn = "open" /\ Len(requests) < MaxCommands
    /\ \E r \in Requests : requests' = Append(requests, r)
    /\ UNCHANGED <<answers, pc, streamVars, clientVars, conn, active, m_shutdownRequest>>

Receive ==
    /\ \E n \in 1..Len(pipe) :
          /\ buffer' = buffer \o SubSeq(pipe, 1, n)
          /\ pipe' = SubSeq(pipe, n + 1, Len(pipe))
    /\ UNCHANGED <<requests, answers, pc, cut, decoded, conn, active, m_shutdownRequest>>

Read ==
    /\ deserializer(buffer)
    /\ LET size == 2 + buffer[2].length IN
          /\ decoded' = Append(decoded, SubSeq(buffer, 1, size))
          /\ buffer' = SubSeq(buffer, size + 1, Len(buffer))
    /\ UNCHANGED <<requests, answers, pc, streamVars, conn, active, m_shutdownRequest>>

\* Time-out, or the shutdown timer.
SessionEnds ==
    /\ active /\ active' = FALSE
    /\ UNCHANGED <<requests, answers, pc, streamVars, clientVars, conn, m_shutdownRequest>>

Handle ==
    \/ handleGet \/ handleStartSession \/ handleStopSession \/ handleShutdown
    \/ UnknownCommand \/ InvalidParams \/ ParamsThrow \/ ParamsUndefined

Serve == Handle \/ Send \/ SendThrows
Client == Receive \/ Read

Terminated == conn # "open" /\ UNCHANGED vars

Next == Serve \/ Client \/ SendCommand \/ Stop \/ SessionEnds \/ Terminated

\* The server's thread is scheduled, and the client keeps reading.
Spec == Init /\ [][Next]_vars /\ WF_vars(Serve) /\ WF_vars(Client)

----------------------------------------------------------------------------
(* Properties.                                                             *)

Result == {"report", "requested", "created", "exists", "rejected", "deleted", "not_found"}
Units ==
    [part : {"start"}, version : {0, PROTOCOL_VERSION}, command : Commands,
     status : {"OK", "INVALID_COMMAND", "INVALID_PARAMS"}]
        \union [part : {"length"}, length : {0, JsonUnits}]
        \union [part : {"json"}, of : Result, at : 1..JsonUnits]

\* The variables have their types, and the kernel's buffer its size.
AnswersTypeOK ==
    /\ requests \in Seq(Requests)
    /\ answers \in Seq(Seq(Units)) /\ Len(answers) <= Len(requests)
    /\ pc \in {"handle", "send"} /\ (pc = "send" => answers # << >>)
    /\ pipe \in Seq(Units) /\ Len(pipe) <= SendBuffer
    /\ cut \in 0..Len(answers)
    /\ buffer \in Seq(Units) /\ decoded \in Seq(Seq(Units))
    /\ conn \in {"open", "dropped", "stopped", "crashed"}
    /\ active \in BOOLEAN /\ m_shutdownRequest \in BOOLEAN

\* The i-th answer that the client reads is what the handler gave to the i-th command.
ReadRight(i) ==
    /\ i <= Len(answers) /\ decoded[i] = answers[i]
    /\ decoded[i][1].command = requests[i].command

\* Whatever pieces the answers arrive in, and whenever the connection ends: the client
\* reads the answers to its commands, in order and each of them once, as far as the first
\* one that send() cut short.
DecodedAsAnswered ==
    \A i \in 1..Len(decoded) : cut = 0 \/ i < cut => ReadRight(i)

\* The answers that the client has read, as far as the first one that was cut short, and
\* those of them that tell whether there is a session.
Sound == IF cut = 0 THEN Len(decoded) ELSE Min({Len(decoded), cut - 1})
Told == {i \in 1..Sound : /\ decoded[i][1].command \in SessionCommands
                          /\ decoded[i][1].status = "OK" /\ decoded[i][3].of # "rejected"}

StartRequest == [command |-> "START_SESSION", params |-> "valid"]

\* Whether answers are under way, cut short, lost in a reset, or not sent at all because
\* send() threw after the command was carried out: a session that exists is one that the
\* client was last told of as "created" or "exists", or it was begun by a START_SESSION
\* whose answer the client has not read.
SessionAsTold ==
    active =>
        \/ Told # {} /\ decoded[Max(Told)][3].of \in {"created", "exists"}
        \/ \E i \in (Sound + 1)..Len(answers) : requests[i] = StartRequest

\* A client that keeps reading has again and again nothing left to wait for: each of its
\* commands is answered, or the connection has ended, unless an answer was cut short or one of
\* the commands before has no handler.
CommandsAnswered ==
    []<>(\A i \in 1..Len(requests) :
            \/ \E j \in 1..i : requests[j].command = Unknown
            \/ Len(decoded) >= i \/ conn # "open" \/ (cut # 0 /\ cut <= i))
=============================================================================
