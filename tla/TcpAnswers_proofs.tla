------------------------- MODULE TcpAnswers_proofs -------------------------
(***************************************************************************)
(* Proofs about the answers to management commands.                        *)
(***************************************************************************)
EXTENDS TcpAnswers, SequenceTheorems, TLAPS

LEMMA MinOfTwo ==
    ASSUME NEW a \in Nat, NEW b \in Nat
    PROVE  Min({a, b}) \in Nat /\ Min({a, b}) \in {a, b} /\ Min({a, b}) <= a /\ Min({a, b}) <= b
  <1>1. \E x \in {a, b} : \A y \in {a, b} : x <= y
    OBVIOUS
  <1> QED
    BY <1>1 DEF Min

----------------------------------------------------------------------------
(* The messages.                                                           *)

LEMMA JsonTyped ==
    ASSUME NEW result \in Result
    PROVE  Json(result) \in Seq(Units) /\ Len(Json(result)) = JsonUnits
  <1>1. \A i \in 1..JsonUnits : [part |-> "json", of |-> result, at |-> i] \in Units
    BY DEF Units
  <1> QED
    BY <1>1, AnswersAssumption, IsASeq DEF Json

LEMMA MessageTyped ==
    ASSUME NEW start \in Units, NEW data \in Seq(Units), Len(data) \in {0, JsonUnits}
    PROVE  serializer(start, data) \in Seq(Units)
  <1>1. Length(Len(data)) \in Units
    BY DEF Units, Length
  <1>2. <<start, Length(Len(data))>> \in Seq(Units)
    BY <1>1
  <1> QED
    BY <1>2, ConcatProperties DEF serializer

LEMMA AnswerTyped ==
    ASSUME NEW command \in Commands, NEW status \in {"OK", "INVALID_COMMAND", "INVALID_PARAMS"},
           NEW version \in {0, PROTOCOL_VERSION}
    PROVE  /\ \A result \in Result :
                 serializer(Start(version, command, status), Json(result)) \in Seq(Units)
           /\ serializer(Start(version, command, status), << >>) \in Seq(Units)
  <1>1. Start(version, command, status) \in Units
    BY DEF Units, Start
  <1>2. << >> \in Seq(Units) /\ Len(<< >>) = 0
    OBVIOUS
  <1> QED
    BY <1>1, <1>2, JsonTyped, MessageTyped

----------------------------------------------------------------------------
(* The type invariant.                                                     *)

\* The command that a handler is given is one of those sent.
LEMMA FrontTyped ==
    ASSUME AnswersTypeOK, NEW commands, Handling(commands)
    PROVE  Front \in Requests /\ Front.command \in Commands
  <1>1. Len(answers) + 1 \in 1..Len(requests)
    BY DEF AnswersTypeOK, Handling
  <1>2. Front \in Requests
    BY <1>1, ElementOfSeq DEF AnswersTypeOK, Front
  <1> QED
    BY <1>2 DEF Requests

\* A handler that answers leaves the rest as it was.
LEMMA ReplyTyped ==
    ASSUME AnswersTypeOK, NEW commands, Handling(commands), NEW message \in Seq(Units), Reply(message),
           active' \in BOOLEAN, m_shutdownRequest' \in BOOLEAN
    PROVE  AnswersTypeOK'
  <1>1. /\ answers' \in Seq(Seq(Units)) /\ Len(answers') = Len(answers) + 1
        /\ answers' # << >>
    BY AppendProperties DEF AnswersTypeOK, Reply
  <1>2. Len(answers') <= Len(requests') /\ cut' \in 0..Len(answers')
    BY <1>1 DEF AnswersTypeOK, Reply, Handling, streamVars
  <1> QED
    BY <1>1, <1>2 DEF AnswersTypeOK, Reply, streamVars, clientVars

LEMMA EndsTyped ==
    ASSUME AnswersTypeOK, NEW how \in {"dropped", "stopped", "crashed"}, Ends(how)
    PROVE  AnswersTypeOK'
  <1>1. pipe' = pipe \/ pipe' = << >>
    BY DEF Ends
  <1>2. pipe' \in Seq(Units) /\ Len(pipe') <= SendBuffer
    <2>1. << >> \in Seq(Units) /\ Len(<< >>) <= SendBuffer
      BY EmptySeq, AnswersAssumption
    <2> QED
      BY <1>1, <2>1 DEF AnswersTypeOK
  <1>3. active' \in BOOLEAN /\ conn' = how
    BY DEF Ends
  <1> QED
    BY <1>2, <1>3 DEF AnswersTypeOK, Ends, clientVars

LEMMA SendTyped ==
    ASSUME AnswersTypeOK, Send
    PROVE  AnswersTypeOK'
  <1> DEFINE message == answers[Len(answers)]
             n == Min({Room, Len(message)})
  <1>1. Len(answers) \in 1..Len(answers) /\ message \in Seq(Units)
    <2>1. Len(answers) \in Nat /\ Len(answers) # 0
      BY DEF AnswersTypeOK, Send
    <2> QED
      BY <2>1, ElementOfSeq DEF AnswersTypeOK
  <1>2. Room \in Nat /\ Len(message) \in Nat
    BY <1>1, AnswersAssumption DEF AnswersTypeOK, Room
  <1>3. n \in Nat /\ n <= Room /\ n <= Len(message)
    BY <1>2, MinOfTwo
  <1> HIDE DEF n, message
  <1>4. SubSeq(message, 1, n) \in Seq(Units) /\ Len(SubSeq(message, 1, n)) = n
    BY <1>1, <1>3
  <1>5. pipe' = pipe \o SubSeq(message, 1, n)
    BY DEF Send, message, n
  <1>6. pipe' \in Seq(Units) /\ Len(pipe') = Len(pipe) + n
    BY <1>4, <1>5, ConcatProperties DEF AnswersTypeOK
  <1>7. Len(pipe') <= SendBuffer
    BY <1>3, <1>6, AnswersAssumption DEF AnswersTypeOK, Room
  <1>8. cut' \in 0..Len(answers)
    BY <1>1 DEF AnswersTypeOK, Send
  <1> QED
    BY <1>6, <1>7, <1>8 DEF AnswersTypeOK, Send, clientVars

LEMMA ClientTyped ==
    ASSUME AnswersTypeOK, Client
    PROVE  AnswersTypeOK'
  <1>1. CASE Receive
    <2>1. PICK n \in 1..Len(pipe) : /\ buffer' = buffer \o SubSeq(pipe, 1, n)
                                    /\ pipe' = SubSeq(pipe, n + 1, Len(pipe))
      BY <1>1 DEF Receive
    <2>2. /\ SubSeq(pipe, 1, n) \in Seq(Units)
          /\ SubSeq(pipe, n + 1, Len(pipe)) \in Seq(Units)
          /\ Len(SubSeq(pipe, n + 1, Len(pipe))) <= Len(pipe)
      BY DEF AnswersTypeOK
    <2>3. buffer' \in Seq(Units)
      BY <2>1, <2>2, ConcatProperties DEF AnswersTypeOK
    <2>4. pipe' \in Seq(Units) /\ Len(pipe') <= SendBuffer
      BY <2>1, <2>2, AnswersAssumption DEF AnswersTypeOK
    <2> QED
      BY <1>1, <2>3, <2>4 DEF AnswersTypeOK, Receive
  <1>2. CASE Read
    <2> DEFINE size == 2 + buffer[2].length
    <2>1. buffer[2] \in Units /\ buffer[2].part = "length"
      <3>1. 2 \in 1..Len(buffer)
        BY <1>2 DEF AnswersTypeOK, Read, deserializer
      <3> QED
        BY <1>2, <3>1, ElementOfSeq DEF AnswersTypeOK, Read, deserializer
    <2>2. size \in Nat /\ size <= Len(buffer)
      BY <1>2, <2>1, AnswersAssumption, SMTT(30) DEF AnswersTypeOK, Read, deserializer, Units
    <2> HIDE DEF size
    <2>3. SubSeq(buffer, 1, size) \in Seq(Units) /\ SubSeq(buffer, size + 1, Len(buffer)) \in Seq(Units)
      BY <2>2 DEF AnswersTypeOK
    <2>4. buffer' \in Seq(Units) /\ decoded' \in Seq(Seq(Units))
      BY <1>2, <2>3, AppendProperties DEF AnswersTypeOK, Read, size
    <2> QED
      BY <1>2, <2>4 DEF AnswersTypeOK, Read, streamVars
  <1> QED
    BY <1>1, <1>2 DEF Client

LEMMA HandleTyped ==
    ASSUME AnswersTypeOK, Handle
    PROVE  AnswersTypeOK'
  <1>1. CASE handleGet
    <2>1. createJsonMsg(Front.command, "OK", Json("report")) \in Seq(Units)
      BY <1>1, FrontTyped, AnswerTyped DEF handleGet, createJsonMsg, Result
    <2> QED
      BY <1>1, <2>1, ReplyTyped DEF handleGet, AnswersTypeOK
  <1>2. CASE InvalidParams
    <2>1. createJsonMsg(Front.command, "INVALID_PARAMS", << >>) \in Seq(Units)
      BY <1>2, FrontTyped, AnswerTyped DEF InvalidParams, createJsonMsg
    <2> QED
      BY <1>2, <2>1, ReplyTyped DEF InvalidParams, AnswersTypeOK
  <1>3. CASE handleStartSession
    <2>1. PICK result \in {"rejected", "exists", "created"} :
             /\ Reply(createJsonMsg(Front.command, "OK", Json(result)))
             /\ active' = (active \/ result = "created")
      BY <1>3 DEF handleStartSession
    <2>2. createJsonMsg(Front.command, "OK", Json(result)) \in Seq(Units)
      BY <1>3, FrontTyped, AnswerTyped DEF handleStartSession, createJsonMsg, Result
    <2>3. active' \in BOOLEAN
      BY <2>1
    <2> QED
      BY <1>3, <2>1, <2>2, <2>3, ReplyTyped DEF handleStartSession, AnswersTypeOK
  <1>4. CASE handleStopSession
    <2> DEFINE result == IF active THEN "deleted" ELSE "not_found"
    <2>1. createJsonMsg(Front.command, "OK", Json(result)) \in Seq(Units)
      BY <1>4, FrontTyped, AnswerTyped DEF handleStopSession, createJsonMsg, Result
    <2> QED
      BY <1>4, <2>1, ReplyTyped DEF handleStopSession, AnswersTypeOK
  <1>5. CASE handleShutdown
    <2>1. createJsonMsg(Front.command, "OK", Json("requested")) \in Seq(Units)
      BY <1>5, FrontTyped, AnswerTyped DEF handleShutdown, createJsonMsg, Result
    <2> QED
      BY <1>5, <2>1, ReplyTyped DEF handleShutdown, AnswersTypeOK
  <1>6. CASE UnknownCommand
    <2>1. PICK version \in {PROTOCOL_VERSION, 0} :
             Reply(serializer(Start(version, Front.command, "INVALID_COMMAND"), << >>))
      BY <1>6 DEF UnknownCommand
    <2>2. serializer(Start(version, Front.command, "INVALID_COMMAND"), << >>) \in Seq(Units)
      BY <1>6, FrontTyped, AnswerTyped DEF UnknownCommand
    <2> QED
      BY <1>6, <2>1, <2>2, ReplyTyped DEF UnknownCommand, AnswersTypeOK
  <1>7. CASE ParamsThrow
    BY <1>7, EndsTyped DEF ParamsThrow
  <1>8. CASE ParamsUndefined
    BY <1>8, EndsTyped DEF ParamsUndefined
  <1> QED
    BY <1>1, <1>2, <1>3, <1>4, <1>5, <1>6, <1>7, <1>8 DEF Handle

\* The variables keep their types for every set of commands and every size of the kernel's
\* buffer and of the answers: in particular send() never puts more on the way than there
\* is room for, and no more commands are answered than were sent.
THEOREM AnswersTypeCorrect == Spec => []AnswersTypeOK
  <1>1. Init => AnswersTypeOK
    <2>1. /\ << >> \in Seq(Requests) /\ << >> \in Seq(Units) /\ << >> \in Seq(Seq(Units))
          /\ Len(<< >>) = 0 /\ 0 <= SendBuffer
      BY EmptySeq, AnswersAssumption
    <2> SUFFICES ASSUME Init PROVE AnswersTypeOK
      OBVIOUS
    <2>2. /\ requests \in Seq(Requests) /\ answers \in Seq(Seq(Units))
          /\ buffer \in Seq(Units) /\ decoded \in Seq(Seq(Units)) /\ pipe \in Seq(Units)
      BY <2>1, Zenon DEF Init
    <2>3. Len(answers) <= Len(requests) /\ Len(pipe) <= SendBuffer /\ cut \in 0..Len(answers)
      <3>1. Len(answers) = 0 /\ Len(requests) = 0 /\ Len(pipe) = 0 /\ cut = 0
        BY <2>1, Zenon DEF Init
      <3> QED
        BY <2>1, <3>1
    <2> QED
      BY <2>2, <2>3, Zenon DEF Init, AnswersTypeOK
  <1>2. AnswersTypeOK /\ [Next]_vars => AnswersTypeOK'
    <2> SUFFICES ASSUME AnswersTypeOK, [Next]_vars PROVE AnswersTypeOK'
      OBVIOUS
    <2>1. CASE Handle
      BY <2>1, HandleTyped
    <2>2. CASE Send
      BY <2>2, SendTyped
    <2>3. CASE SendThrows \/ Stop
      BY <2>3, EndsTyped DEF SendThrows, Stop
    <2>4. CASE Client
      BY <2>4, ClientTyped
    <2>5. CASE SendCommand
      <3>1. PICK r \in Requests : requests' = Append(requests, r)
        BY <2>5 DEF SendCommand
      <3>2. requests' \in Seq(Requests) /\ Len(requests') = Len(requests) + 1
        BY <3>1, AppendProperties DEF AnswersTypeOK
      <3> QED
        BY <2>5, <3>2 DEF AnswersTypeOK, SendCommand, streamVars, clientVars
    <2>6. CASE SessionEnds
      BY <2>6 DEF SessionEnds, AnswersTypeOK, streamVars, clientVars
    <2>7. CASE UNCHANGED vars
      BY <2>7 DEF vars, AnswersTypeOK, streamVars, clientVars
    <2> QED
      BY <2>1, <2>2, <2>3, <2>4, <2>5, <2>6, <2>7 DEF Next, Serve, Terminated
  <1> QED
    BY <1>1, <1>2, PTL DEF Spec

----------------------------------------------------------------------------
(* What the client reads.                                                  *)

Stream == buffer \o pipe       \* what is sent and not taken apart

\* The answers that were handed to send(), and those of them before the first cut.
Given == IF pc = "send" THEN Len(answers) - 1 ELSE Len(answers)
Whole == IF cut = 0 THEN Given ELSE cut - 1

\* An answer counts its own data and names its command.
Formed(message, command) ==
    /\ Len(message) >= 2 /\ message[2].length = Len(message) - 2
    /\ message[1].command = command
AllFormed == \A i \in 1..Len(answers) : Formed(answers[i], requests[i].command)

\* off[i] is where the i-th answer ends in the stream as a whole.
Adjacent(off) == \A i \in 1..Len(answers) : off[i] = off[i - 1] + Len(answers[i])
Ascending(off) == \A i, j \in 0..Len(answers) : i <= j => off[i] <= off[j]
Offsets(off) == off \in [Nat -> Nat] /\ Adjacent(off) /\ Ascending(off)

\* The p-th unit of the i-th answer, if it is there, is in its place in the stream.
At(off, i, p) == off[i - 1] + p - off[Len(decoded)]
InPlace(off) ==
    \A i \in (Len(decoded) + 1)..Whole : \A p \in 1..Len(answers[i]) :
        At(off, i, p) <= Len(Stream) => Stream[At(off, i, p)] = answers[i][p]

\* Before a cut nothing but the answers that were sent whole is in the stream, and while
\* the connection is open nothing of them is missing.
NothingElse(off) ==
    cut = 0 => Len(decoded) <= Whole /\ Len(Stream) <= off[Whole] - off[Len(decoded)]
NothingMissing(off) ==
    conn = "open" /\ Len(decoded) <= Whole => Len(Stream) >= off[Whole] - off[Len(decoded)]

ReadSoFar == \A i \in 1..Len(decoded) : i <= Whole => decoded[i] = answers[i]

StreamInv ==
    /\ AllFormed /\ ReadSoFar
    /\ \E off : Offsets(off) /\ InPlace(off) /\ NothingElse(off) /\ NothingMissing(off)

LEMMA AdjacentAt ==
    ASSUME NEW off, Adjacent(off), NEW i \in 1..Len(answers)
    PROVE  off[i] = off[i - 1] + Len(answers[i])
  BY Zenon DEF Adjacent

LEMMA WholeBound ==
    ASSUME AnswersTypeOK
    PROVE  /\ Whole \in 0..Len(answers) /\ Given \in 0..Len(answers)
           /\ pc = "send" => Given + 1 = Len(answers)
  <1>1. Len(answers) \in Nat /\ cut \in 0..Len(answers) /\ (pc = "send" => Len(answers) # 0)
    BY DEF AnswersTypeOK
  <1> QED
    BY <1>1 DEF Whole, Given

LEMMA TwoBefore ==
    ASSUME NEW S, NEW a \in S, NEW b \in S, NEW rest \in Seq(S)
    PROVE  /\ Len(<<a, b>> \o rest) = 2 + Len(rest)
           /\ (<<a, b>> \o rest)[1] = a /\ (<<a, b>> \o rest)[2] = b
  <1> DEFINE two == <<a, b>>
  <1>1. two \in Seq(S) /\ Len(two) = 2 /\ two[1] = a /\ two[2] = b
    OBVIOUS
  <1>2. Len(rest) \in Nat
    OBVIOUS
  <1> HIDE DEF two
  <1>3. /\ Len(two \o rest) = 2 + Len(rest)
        /\ (two \o rest)[1] = two[1] /\ (two \o rest)[2] = two[2]
    <2>1. /\ Len(two \o rest) = Len(two) + Len(rest)
          /\ \A i \in 1 .. Len(two) + Len(rest) : (two \o rest)[i] =
                 IF i <= Len(two) THEN two[i] ELSE rest[i - Len(two)]
      BY <1>1, ConcatProperties
    <2> QED
      BY <1>1, <1>2, <2>1
  <1> QED
    BY <1>1, <1>3 DEF two

\* What the handlers make is well formed.
LEMMA SerializerForms ==
    ASSUME NEW version \in {0, PROTOCOL_VERSION}, NEW command \in Commands,
           NEW status \in {"OK", "INVALID_COMMAND", "INVALID_PARAMS"},
           NEW data \in Seq(Units), Len(data) \in {0, JsonUnits}
    PROVE  Formed(serializer(Start(version, command, status), data), command)
  <1> DEFINE start == Start(version, command, status)
             message == serializer(start, data)
  <1>1. start \in Units /\ start.command = command
    BY DEF Units, Start
  <1>2. Length(Len(data)) \in Units /\ Length(Len(data)).length = Len(data)
    BY DEF Units, Length
  <1>3. /\ Len(message) = 2 + Len(data)
        /\ message[1] = start /\ message[2] = Length(Len(data))
    <2> HIDE DEF start
    <2> QED
      BY <1>1, <1>2, TwoBefore DEF serializer
  <1>4. Len(data) \in Nat
    OBVIOUS
  <1> HIDE DEF start, message
  <1>5. Formed(message, command)
    BY <1>1, <1>2, <1>3, <1>4 DEF Formed
  <1> QED
    BY <1>5 DEF start, message

LEMMA HandleReplies ==
    ASSUME AnswersTypeOK, Handle
    PROVE  \/ /\ conn = "open" /\ pc = "handle" /\ Len(answers) < Len(requests)
              /\ \E message \in Seq(Units) : Reply(message) /\ Formed(message, Front.command)
           \/ \E how \in {"dropped", "crashed"} : Ends(how)
  <1> DEFINE Answer(status, data) ==
                 \E version \in {0, PROTOCOL_VERSION} :
                     Reply(serializer(Start(version, Front.command, status), data))
  <1>1. CASE /\ conn = "open" /\ pc = "handle" /\ Len(answers) < Len(requests)
             /\ Front.command \in Commands
             /\ \E status \in {"OK", "INVALID_COMMAND", "INVALID_PARAMS"} :
                    \/ \E result \in Result : Answer(status, Json(result))
                    \/ Answer(status, << >>)
    <2>1. PICK status \in {"OK", "INVALID_COMMAND", "INVALID_PARAMS"},
               version \in {0, PROTOCOL_VERSION},
               data \in {Json(result) : result \in Result} \union {<< >>} :
                   Reply(serializer(Start(version, Front.command, status), data))
      BY <1>1
    <2>2. data \in Seq(Units) /\ Len(data) \in {0, JsonUnits}
      <3>1. CASE data = << >>
        BY <3>1, EmptySeq
      <3>2. CASE \E result \in Result : data = Json(result)
        BY <3>2, JsonTyped
      <3> QED
        BY <3>1, <3>2
    <2>3. Formed(serializer(Start(version, Front.command, status), data), Front.command)
      BY <1>1, <2>1, <2>2, SerializerForms
    <2>4. serializer(Start(version, Front.command, status), data) \in Seq(Units)
      BY <1>1, <2>1, AnswerTyped
    <2> QED
      BY <1>1, <2>1, <2>3, <2>4
  <1>2. CASE handleGet
    <2>1. Answer("OK", Json("report")) /\ "report" \in Result
      BY <1>2 DEF handleGet, createJsonMsg, Result
    <2> QED
      BY <1>1, <1>2, <2>1, FrontTyped DEF handleGet, Handling
  <1>3. CASE InvalidParams
    <2>1. Answer("INVALID_PARAMS", << >>)
      BY <1>3 DEF InvalidParams, createJsonMsg
    <2> QED
      BY <1>1, <1>3, <2>1, FrontTyped DEF InvalidParams, Handling
  <1>4. CASE handleStartSession
    <2>1. \E result \in Result : Answer("OK", Json(result))
      BY <1>4 DEF handleStartSession, createJsonMsg, Result
    <2> QED
      BY <1>1, <1>4, <2>1, FrontTyped DEF handleStartSession, Handling
  <1>5. CASE handleStopSession
    <2>1. \E result \in Result : Answer("OK", Json(result))
      BY <1>5 DEF handleStopSession, createJsonMsg, Result
    <2> QED
      BY <1>1, <1>5, <2>1, FrontTyped DEF handleStopSession, Handling
  <1>6. CASE handleShutdown
    <2>1. Answer("OK", Json("requested")) /\ "requested" \in Result
      BY <1>6 DEF handleShutdown, createJsonMsg, Result
    <2> QED
      BY <1>1, <1>6, <2>1, FrontTyped DEF handleShutdown, Handling
  <1>7. CASE UnknownCommand
    <2>1. Answer("INVALID_COMMAND", << >>)
      BY <1>7 DEF UnknownCommand
    <2> QED
      BY <1>1, <1>7, <2>1, FrontTyped DEF UnknownCommand, Handling
  <1>8. CASE ParamsThrow \/ ParamsUndefined
    BY <1>8 DEF ParamsThrow, ParamsUndefined
  <1> QED
    BY <1>2, <1>3, <1>4, <1>5, <1>6, <1>7, <1>8 DEF Handle

LEMMA OneMore ==
    ASSUME NEW off \in [Nat -> Nat], NEW n \in Nat, NEW m \in Nat
    PROVE  \E on : /\ on \in [Nat -> Nat]
                   /\ on[n + 1] = off[n] + m
                   /\ \A i \in 0..n : on[i] = off[i] /\ off[i] \in Nat
  <1> DEFINE on == [i \in Nat |-> IF i = n + 1 THEN off[n] + m ELSE off[i]]
  <1>1. on \in [Nat -> Nat]
    OBVIOUS
  <1>2. on[n + 1] = off[n] + m
    OBVIOUS
  <1>3. \A i \in 0..n : on[i] = off[i] /\ off[i] \in Nat
    OBVIOUS
  <1> QED
    BY <1>1, <1>2, <1>3, Zenon

\* A new answer is not in the stream yet.
LEMMA ReplyKeepsStream ==
    ASSUME AnswersTypeOK, StreamInv, conn = "open", pc = "handle", Len(answers) < Len(requests),
           NEW message \in Seq(Units), Formed(message, Front.command), Reply(message)
    PROVE  StreamInv'
  <1>0. PICK n \in Nat : n = Len(answers)
    BY DEF AnswersTypeOK
  <1>1. PICK off : Offsets(off) /\ InPlace(off) /\ NothingElse(off) /\ NothingMissing(off)
    BY DEF StreamInv
  <1>2. n \in Nat /\ n = Len(answers) /\ Len(message) \in Nat
    BY <1>0
  <1>3. /\ Len(answers') = n + 1 /\ answers'[n + 1] = message
        /\ \A i \in 1..n : answers'[i] = answers[i]
    BY <1>2, AppendProperties DEF AnswersTypeOK, Reply
  <1>4. /\ Stream' = Stream /\ decoded' = decoded /\ cut' = cut /\ conn' = conn /\ requests' = requests
        /\ Whole' = Whole
    BY <1>2, <1>3 DEF Reply, streamVars, clientVars, Stream, Whole, Given
  <1>5. Whole \in 0..n /\ Len(decoded) \in Nat
    BY <1>2, WholeBound DEF AnswersTypeOK
  <1>6. AllFormed'
    <2> SUFFICES ASSUME NEW i \in 1..n + 1
                 PROVE  Formed(answers'[i], requests[i].command)
      BY <1>3, <1>4, Zenon DEF AllFormed, Formed
    <2>1. CASE i \in 1..n
      BY <1>2, <1>3, <2>1, Zenon DEF StreamInv, AllFormed
    <2>2. CASE i = n + 1
      BY <1>2, <1>3, <2>2, Zenon DEF Front
    <2> QED
      BY <2>1, <2>2
  <1>7. ReadSoFar'
    BY <1>2, <1>3, <1>4, <1>5 DEF StreamInv, ReadSoFar
  <1>8. off \in [Nat -> Nat]
    BY <1>1 DEF Offsets
  <1>9. PICK on : /\ on \in [Nat -> Nat]
                  /\ on[n + 1] = off[n] + Len(message)
                  /\ \A i \in 0..n : on[i] = off[i] /\ off[i] \in Nat
    BY <1>2, <1>8, OneMore, ZenonT(40)
  <1>10. /\ on[n + 1] = off[n] + Len(message)
         /\ \A i \in 0..n : on[i] = off[i] /\ off[i] \in Nat
    BY <1>9
  <1>11. Offsets(on)'
    <2>1. Adjacent(on)'
      <3> SUFFICES ASSUME NEW i \in 1..n + 1
                   PROVE  on[i] = on[i - 1] + Len(answers'[i])
        BY <1>3, Zenon DEF Adjacent
      <3>1. CASE i \in 1..n
        <4>1. off[i] = off[i - 1] + Len(answers[i])
          BY <1>1, <1>2, <3>1, AdjacentAt DEF Offsets
        <4>2. i \in 0..n /\ i - 1 \in 0..n
          BY <3>1
        <4> QED
          BY <1>3, <1>10, <3>1, <4>1, <4>2
      <3>2. CASE i = n + 1
        <4>1. i - 1 = n /\ n \in 0..n
          BY <1>2, <3>2
        <4> QED
          BY <1>3, <1>10, <3>2, <4>1, Zenon
      <3> QED
        BY <3>1, <3>2
    <2>2. Ascending(on)'
      <3>1. \A i, j \in 0..n : i <= j => off[i] <= off[j]
        BY <1>1, <1>2 DEF Offsets, Ascending
      <3>2. \A i \in 0..n : off[i] <= off[n] + Len(message)
        <4> SUFFICES ASSUME NEW i \in 0..n PROVE off[i] <= off[n] + Len(message)
          OBVIOUS
        <4>1. n \in 0..n /\ i <= n
          BY <1>2
        <4>2. off[i] <= off[n] /\ off[i] \in Nat /\ off[n] \in Nat
          BY <1>10, <3>1, <4>1, Zenon
        <4> QED
          BY <1>2, <4>2
      <3>3. \A i, j \in 0..n + 1 : i <= j => on[i] <= on[j]
        <4> SUFFICES ASSUME NEW i \in 0..n + 1, NEW j \in 0..n + 1, i <= j
                     PROVE  on[i] <= on[j]
          OBVIOUS
        <4>1. CASE j \in 0..n
          <5>1. i \in 0..n
            BY <4>1
          <5> QED
            BY <1>10, <3>1, <4>1, <5>1, Zenon
        <4>2. CASE i \in 0..n /\ j = n + 1
          BY <1>10, <3>2, <4>2
        <4>3. CASE i = n + 1 /\ j = n + 1
          BY <1>10, <4>3
        <4> QED
          BY <1>2, <4>1, <4>2, <4>3
      <3> QED
        BY <1>3, <3>3 DEF Ascending
    <2> QED
      BY <1>9, <2>1, <2>2 DEF Offsets
  <1>12. CASE Len(decoded) <= Whole
    <2>1. Len(decoded) \in 0..n /\ on[Len(decoded)] = off[Len(decoded)] /\ on[Whole] = off[Whole]
      <3>1. Len(decoded) \in 0..n
        BY <1>5, <1>12
      <3> QED
        BY <1>5, <1>10, <3>1, Zenon
    <2>2. InPlace(on)'
      <3> SUFFICES ASSUME NEW i \in (Len(decoded) + 1)..Whole, NEW p \in 1..Len(answers'[i]),
                          At(on, i, p)' <= Len(Stream)
                   PROVE  Stream[At(on, i, p)'] = answers'[i][p]
        BY <1>4 DEF InPlace
      <3>1. i \in 1..n /\ answers'[i] = answers[i] /\ on[i - 1] = off[i - 1]
        <4>1. i \in 1..n /\ i - 1 \in 0..n
          BY <1>2, <1>5
        <4> QED
          BY <1>3, <1>10, <4>1, Zenon
      <3>2. At(on, i, p)' = At(off, i, p)
        BY <1>4, <2>1, <3>1 DEF At
      <3> QED
        BY <1>1, <3>1, <3>2 DEF InPlace
    <2>3. NothingElse(on)' /\ NothingMissing(on)'
      BY <1>1, <1>4, <2>1 DEF NothingElse, NothingMissing
    <2> QED
      BY <1>6, <1>7, <1>11, <2>2, <2>3 DEF StreamInv
  <1>13. CASE ~(Len(decoded) <= Whole)
    <2>1. InPlace(on)' /\ NothingElse(on)' /\ NothingMissing(on)'
      BY <1>1, <1>4, <1>5, <1>13 DEF InPlace, NothingElse, NothingMissing
    <2> QED
      BY <1>6, <1>7, <1>11, <2>1 DEF StreamInv
  <1> QED
    BY <1>12, <1>13

LEMMA Between ==
    ASSUME NEW a \in Nat, NEW b \in Nat, NEW c \in Nat, NEW e \in Nat, NEW l \in Nat, NEW p \in 1..l,
           c = b + l, a <= b, c <= e
    PROVE  b + p - a \in Nat /\ b + p - a >= 1 /\ b + p - a <= e - a /\ e - a \in Int
  OBVIOUS

LEMMA OffsetTyped ==
    ASSUME NEW off, off \in [Nat -> Nat], NEW n, n \in Nat, NEW x, x \in 0..n
    PROVE  off[x] \in Nat
  OBVIOUS

LEMMA WholeTyped ==
    ASSUME AnswersTypeOK, NEW off, Offsets(off), Len(decoded) <= Whole
    PROVE  /\ off[Whole] \in Nat /\ off[Len(decoded)] \in Nat
           /\ off[Whole] - off[Len(decoded)] \in Int /\ Len(decoded) \in 0..Len(answers)
  <1>1. Len(decoded) \in Nat /\ Len(answers) \in Nat /\ Whole \in 0..Len(answers)
    BY WholeBound DEF AnswersTypeOK
  <1>2. Len(decoded) \in 0..Len(answers)
    BY <1>1
  <1>3. off[Whole] \in Nat /\ off[Len(decoded)] \in Nat
    BY <1>1, <1>2, OffsetTyped, Zenon DEF Offsets
  <1>4. \A a, b \in Nat : a - b \in Int
    OBVIOUS
  <1> QED
    BY <1>2, <1>3, <1>4, Zenon

\* An answer that was sent whole has its place between the answers read and the last of them.
LEMMA PlaceBound ==
    ASSUME AnswersTypeOK, NEW off, Offsets(off),
           NEW i, i \in (Len(decoded) + 1)..Whole, NEW p, p \in 1..Len(answers[i])
    PROVE  /\ At(off, i, p) \in Nat /\ At(off, i, p) >= 1
           /\ At(off, i, p) <= off[Whole] - off[Len(decoded)]
           /\ i \in 1..Len(answers) /\ off[Whole] - off[Len(decoded)] \in Int
  <1>1. PICK d, w, n : /\ d = Len(decoded) /\ w = Whole /\ n = Len(answers)
                       /\ d \in Nat /\ n \in Nat /\ w \in 0..n
    <2>1. Len(decoded) \in Nat /\ Len(answers) \in Nat
      BY DEF AnswersTypeOK
    <2>2. Whole \in 0..Len(answers)
      BY WholeBound
    <2> QED
      BY <2>1, <2>2, Zenon
  <1>2. i \in (d + 1)..w
    BY <1>1
  <1>3. i \in 1..n /\ i - 1 \in 0..n /\ i \in 0..n /\ d \in 0..n /\ d <= i - 1 /\ i <= w
    BY <1>1, <1>2
  <1>4. off[i] = off[i - 1] + Len(answers[i])
    BY <1>1, <1>3, AdjacentAt, Zenon DEF Offsets
  <1>5. off[d] <= off[i - 1] /\ off[i] <= off[w]
    BY <1>1, <1>3, Zenon DEF Offsets, Ascending
  <1>6. off[d] \in Nat /\ off[i - 1] \in Nat /\ off[i] \in Nat /\ off[w] \in Nat
    BY <1>1, <1>3, OffsetTyped, Zenon DEF Offsets
  <1>7. Len(answers[i]) \in Nat
    BY <1>1, <1>3, ElementOfSeq DEF AnswersTypeOK
  <1>8. LET at == off[i - 1] + p - off[d] IN
        at \in Nat /\ at >= 1 /\ at <= off[w] - off[d] /\ off[w] - off[d] \in Int
    BY <1>4, <1>5, <1>6, <1>7, Between, Zenon
  <1> QED
    BY <1>1, <1>3, <1>8, Zenon DEF At

LEMMA StreamTyped ==
    ASSUME AnswersTypeOK
    PROVE  /\ Stream \in Seq(Units) /\ Len(Stream) = Len(buffer) + Len(pipe) /\ Len(Stream) \in Nat
           /\ \A k \in 1..Len(buffer) : Stream[k] = buffer[k]
  <1>1. buffer \in Seq(Units) /\ pipe \in Seq(Units)
    BY DEF AnswersTypeOK
  <1>2. /\ Stream \in Seq(Units)
        /\ Len(Stream) = Len(buffer) + Len(pipe)
        /\ \A k \in 1 .. Len(buffer) + Len(pipe) : Stream[k] =
               IF k <= Len(buffer) THEN buffer[k] ELSE pipe[k - Len(buffer)]
    BY <1>1, ConcatProperties, Zenon DEF Stream
  <1>3. Len(buffer) \in Nat /\ Len(pipe) \in Nat
    BY <1>1
  <1> QED
    BY <1>2, <1>3

\* What is lost with a connection does not put anything else in its place.
LEMMA EndsKeepsStream ==
    ASSUME AnswersTypeOK, StreamInv, NEW how \in {"dropped", "stopped", "crashed"}, Ends(how)
    PROVE  StreamInv'
  <1>1. PICK off : Offsets(off) /\ InPlace(off) /\ NothingElse(off) /\ NothingMissing(off)
    BY DEF StreamInv
  <1>2. /\ answers' = answers /\ requests' = requests /\ decoded' = decoded /\ cut' = cut /\ pc' = pc
        /\ buffer' = buffer /\ conn' # "open" /\ pipe' \in {pipe, << >>}
    BY DEF Ends, clientVars
  <1>3. Whole' = Whole /\ AllFormed' /\ ReadSoFar' /\ Offsets(off)'
    BY <1>1, <1>2 DEF StreamInv, Whole, Given, AllFormed, ReadSoFar, Offsets, Adjacent, Ascending, Formed
  <1>4. /\ Len(Stream') \in Nat /\ Len(Stream') <= Len(Stream)
        /\ \A k \in 1..Len(Stream') : Stream'[k] = Stream[k]
    <2>1. CASE pipe' = pipe
      BY <1>2, <2>1, StreamTyped DEF Stream
    <2>2. CASE pipe' = << >>
      <3>1. Stream' = buffer
        BY <1>2, <2>2 DEF Stream, AnswersTypeOK
      <3>2. Len(buffer) \in Nat /\ Len(pipe) \in Nat
        BY DEF AnswersTypeOK
      <3> QED
        BY <3>1, <3>2, StreamTyped
    <2> QED
      BY <1>2, <2>1, <2>2
  <1>5. InPlace(off)'
    <2> SUFFICES ASSUME NEW i, i \in (Len(decoded) + 1)..Whole, NEW p, p \in 1..Len(answers[i]),
                        At(off, i, p) <= Len(Stream')
                 PROVE  Stream'[At(off, i, p)] = answers[i][p]
      BY <1>2, <1>3, SMTT(30) DEF InPlace, At
    <2>1. At(off, i, p) \in 1..Len(Stream') /\ At(off, i, p) <= Len(Stream)
      BY <1>1, <1>4, PlaceBound, StreamTyped, SMTT(30)
    <2>2. Stream[At(off, i, p)] = answers[i][p]
      BY <1>1, <2>1, Zenon DEF InPlace
    <2> QED
      BY <1>4, <2>1, <2>2
  <1>6. NothingElse(off)'
    <2> SUFFICES ASSUME cut = 0
                 PROVE  Len(decoded) <= Whole /\ Len(Stream') <= off[Whole] - off[Len(decoded)]
      BY <1>2, <1>3, Zenon DEF NothingElse
    <2>1. Len(decoded) <= Whole /\ Len(Stream) <= off[Whole] - off[Len(decoded)]
      BY <1>1 DEF NothingElse
    <2>2. off[Whole] - off[Len(decoded)] \in Int
      BY <1>1, <2>1, WholeTyped
    <2> QED
      BY <1>4, <2>1, <2>2, StreamTyped
  <1> QED
    BY <1>1, <1>2, <1>3, <1>5, <1>6, Zenon DEF StreamInv, NothingMissing

LEMMA SameStream ==
    ASSUME StreamInv, answers' = answers, decoded' = decoded, cut' = cut, pc' = pc, conn' = conn,
           Stream' = Stream, \A i \in 1..Len(answers) : requests'[i] = requests[i]
    PROVE  StreamInv'
  <1>1. PICK off : Offsets(off) /\ InPlace(off) /\ NothingElse(off) /\ NothingMissing(off)
    BY DEF StreamInv
  <1>2. Whole' = Whole
    BY DEF Whole, Given
  <1>3. AllFormed' /\ ReadSoFar'
    BY <1>2, Zenon DEF StreamInv, AllFormed, ReadSoFar, Formed
  <1>4. Offsets(off)' /\ InPlace(off)'
    BY <1>1, <1>2, Zenon DEF Offsets, Adjacent, Ascending, InPlace, At
  <1>5. NothingElse(off)' /\ NothingMissing(off)'
    BY <1>1, <1>2, Zenon DEF NothingElse, NothingMissing
  <1> QED
    BY <1>3, <1>4, <1>5, Zenon DEF StreamInv

LEMMA Resplit ==
    ASSUME NEW S, NEW s \in Seq(S), NEW t \in Seq(S), NEW m \in 1..Len(t)
    PROVE  (s \o SubSeq(t, 1, m)) \o SubSeq(t, m + 1, Len(t)) = s \o t
  <1> DEFINE a == SubSeq(t, 1, m)
             b == SubSeq(t, m + 1, Len(t))
  <1>1. Len(t) \in Nat /\ Len(s) \in Nat
    OBVIOUS
  <1>2. /\ a \in Seq(S) /\ b \in Seq(S) /\ Len(a) = m /\ Len(b) = Len(t) - m
        /\ \A k \in 1..m : a[k] = t[k]
        /\ \A k \in 1..(Len(t) - m) : b[k] = t[m + k]
    BY <1>1
  <1> HIDE DEF a, b
  <1>3. /\ s \o a \in Seq(S) /\ Len(s \o a) = Len(s) + m
        /\ \A k \in 1..(Len(s) + m) : (s \o a)[k] = IF k <= Len(s) THEN s[k] ELSE t[k - Len(s)]
    <2>1. /\ s \o a \in Seq(S) /\ Len(s \o a) = Len(s) + m
          /\ \A k \in 1..(Len(s) + m) : (s \o a)[k] = IF k <= Len(s) THEN s[k] ELSE a[k - Len(s)]
      BY <1>2, ConcatProperties, ZenonT(30)
    <2>2. \A k \in 1..(Len(s) + m) : ~(k <= Len(s)) => k - Len(s) \in 1..m
      BY <1>1
    <2> QED
      BY <1>2, <2>1, <2>2, Zenon
  <1>4. /\ (s \o a) \o b \in Seq(S) /\ Len((s \o a) \o b) = Len(s) + Len(t)
        /\ \A k \in 1..(Len(s) + Len(t)) : ((s \o a) \o b)[k] =
               IF k <= Len(s) + m THEN (s \o a)[k] ELSE b[k - (Len(s) + m)]
    <2> DEFINE c == s \o a
    <2>1. /\ c \o b \in Seq(S)
          /\ Len(c \o b) = Len(c) + Len(b)
          /\ \A k \in 1..(Len(c) + Len(b)) : (c \o b)[k] = IF k <= Len(c) THEN c[k] ELSE b[k - Len(c)]
      <3>1. c \in Seq(S) /\ b \in Seq(S)
        BY <1>2, <1>3
      <3> HIDE DEF c
      <3> QED
        BY <3>1, ConcatProperties, Zenon
    <2>2. Len(c) + Len(b) = Len(s) + Len(t) /\ Len(c) = Len(s) + m
      BY <1>1, <1>2, <1>3
    <2> HIDE DEF c
    <2>3. /\ c \o b \in Seq(S) /\ Len(c \o b) = Len(s) + Len(t)
          /\ \A k \in 1..(Len(s) + Len(t)) : (c \o b)[k] =
                 IF k <= Len(s) + m THEN c[k] ELSE b[k - (Len(s) + m)]
      BY <2>1, <2>2, Zenon
    <2> QED
      BY <2>3 DEF c
  <1>5. /\ s \o t \in Seq(S) /\ Len(s \o t) = Len(s) + Len(t)
        /\ \A k \in 1..(Len(s) + Len(t)) : (s \o t)[k] = IF k <= Len(s) THEN s[k] ELSE t[k - Len(s)]
    BY <1>1, ConcatProperties
  <1>6. \A k \in 1..(Len(s) + Len(t)) : ((s \o a) \o b)[k] = (s \o t)[k]
    <2> SUFFICES ASSUME NEW k \in 1..(Len(s) + Len(t)) PROVE ((s \o a) \o b)[k] = (s \o t)[k]
      OBVIOUS
    <2>1. CASE k <= Len(s) + m
      BY <1>1, <1>3, <1>4, <1>5, <2>1
    <2>2. CASE ~(k <= Len(s) + m)
      <3>1. k - (Len(s) + m) \in 1..(Len(t) - m) /\ m + (k - (Len(s) + m)) = k - Len(s) /\ ~(k <= Len(s))
        BY <1>1, <2>2
      <3> QED
        BY <1>2, <1>4, <1>5, <2>2, <3>1
    <2> QED
      BY <2>1, <2>2
  <1> QED
    BY <1>4, <1>5, <1>6, SeqEqual DEF a, b

LEMMA ReceiveKeepsStream ==
    ASSUME AnswersTypeOK, StreamInv, Receive
    PROVE  StreamInv'
  <1>1. Stream' = Stream
    BY Resplit DEF Receive, Stream, AnswersTypeOK
  <1>2. /\ answers' = answers /\ requests' = requests /\ decoded' = decoded /\ cut' = cut /\ pc' = pc
        /\ conn' = conn
    BY DEF Receive
  <1> QED
    BY <1>1, <1>2, SameStream

LEMMA SendCommandKeepsStream ==
    ASSUME AnswersTypeOK, StreamInv, SendCommand
    PROVE  StreamInv'
  <1>1. /\ answers' = answers /\ decoded' = decoded /\ cut' = cut /\ pc' = pc /\ conn' = conn
        /\ Stream' = Stream
    BY DEF SendCommand, streamVars, clientVars, Stream
  <1>2. \A i \in 1..Len(answers) : requests'[i] = requests[i]
    BY AppendProperties DEF SendCommand, AnswersTypeOK
  <1> QED
    BY <1>1, <1>2, SameStream

LEMMA Cutting ==
    ASSUME NEW S, NEW s \in Seq(S), NEW t \in Seq(S), NEW m \in 0..Len(s)
    PROVE  LET rest == SubSeq(s, m + 1, Len(s)) \o t IN
           /\ Len(rest) = Len(s) + Len(t) - m
           /\ \A k \in 1..Len(rest) : rest[k] = (s \o t)[m + k] /\ m + k \in 1..Len(s \o t)
  <1> DEFINE a == SubSeq(s, m + 1, Len(s))
  <1>1. Len(t) \in Nat /\ Len(s) \in Nat
    OBVIOUS
  <1>2. /\ a \in Seq(S) /\ Len(a) = Len(s) - m
        /\ \A k \in 1..(Len(s) - m) : a[k] = s[m + k]
    BY <1>1
  <1> HIDE DEF a
  <1>3. /\ Len(a \o t) = Len(a) + Len(t)
        /\ \A k \in 1..(Len(a) + Len(t)) : (a \o t)[k] = IF k <= Len(a) THEN a[k] ELSE t[k - Len(a)]
    BY <1>2, ConcatProperties, Zenon
  <1>4. /\ Len(s \o t) = Len(s) + Len(t)
        /\ \A k \in 1..(Len(s) + Len(t)) : (s \o t)[k] = IF k <= Len(s) THEN s[k] ELSE t[k - Len(s)]
    BY ConcatProperties, Zenon
  <1>5. Len(a \o t) = Len(s) + Len(t) - m
    BY <1>1, <1>2, <1>3
  <1>6. ASSUME NEW k \in 1..Len(a \o t)
        PROVE  (a \o t)[k] = (s \o t)[m + k] /\ m + k \in 1..Len(s \o t)
    <2>1. k \in 1..(Len(a) + Len(t)) /\ m + k \in 1..(Len(s) + Len(t))
      BY <1>1, <1>2, <1>5
    <2>2. CASE k <= Len(a)
      <3>1. m + k <= Len(s) /\ k \in 1..(Len(s) - m)
        BY <1>1, <1>2, <2>1, <2>2
      <3> QED
        BY <1>2, <1>3, <1>4, <2>1, <2>2, <3>1, Zenon
    <2>3. CASE ~(k <= Len(a))
      <3>1. ~(m + k <= Len(s)) /\ k - Len(a) = m + k - Len(s)
        BY <1>1, <1>2, <2>1, <2>3
      <3>2. (a \o t)[k] = t[k - Len(a)] /\ (s \o t)[m + k] = t[(m + k) - Len(s)]
        BY <1>3, <1>4, <2>1, <2>3, <3>1, Zenon
      <3> QED
        BY <1>4, <2>1, <3>1, <3>2
    <2> QED
      BY <2>2, <2>3
  <1> QED
    BY <1>5, <1>6 DEF a

\* What the client takes for a message is the next answer, if that was sent whole.
LEMMA NextAnswer ==
    ASSUME AnswersTypeOK, AllFormed, NEW off, Offsets(off), InPlace(off), deserializer(buffer),
           Len(decoded) + 1 <= Whole
    PROVE  LET size == 2 + buffer[2].length IN
           /\ size \in 0..Len(buffer)
           /\ SubSeq(buffer, 1, size) = answers[Len(decoded) + 1]
           /\ off[Len(decoded) + 1] = off[Len(decoded)] + size
  <1> DEFINE d == Len(decoded)
             answer == answers[d + 1]
  <1>1. /\ d \in Nat /\ d + 1 \in 1..Len(answers) /\ d \in 0..Len(answers) /\ d + 1 \in (d + 1)..Whole
        /\ (d + 1) - 1 = d
    <2>1. Len(decoded) \in Nat /\ Len(answers) \in Nat /\ Whole \in 0..Len(answers)
      BY WholeBound DEF AnswersTypeOK
    <2> QED
      BY <2>1
  <1>2. answer \in Seq(Units) /\ Len(answer) \in Nat /\ Len(answer) >= 2 /\ answer[2].length = Len(answer) - 2
    <2>1. answer \in Seq(Units)
      BY <1>1, ElementOfSeq, Zenon DEF AnswersTypeOK
    <2>2. Formed(answer, requests[d + 1].command)
      BY <1>1, Zenon DEF AllFormed
    <2> HIDE DEF answer
    <2> QED
      BY <2>1, <2>2 DEF Formed
  <1>3. buffer \in Seq(Units) /\ Len(buffer) \in Nat /\ Len(buffer) >= 2
    BY DEF AnswersTypeOK, deserializer
  <1>4. off[d] \in Nat
    BY <1>1, OffsetTyped, Zenon DEF Offsets, AnswersTypeOK
  <1>5. ASSUME NEW p \in 1..Len(answer), p <= Len(buffer)
        PROVE  buffer[p] = answer[p]
    <2>1. At(off, d + 1, p) = p
      <3>1. off[d] + p - off[d] = p
        BY <1>4
      <3> QED
        BY <1>1, <3>1, Zenon DEF At
    <2>2. p \in 1..Len(buffer) /\ p <= Len(Stream)
      <3>1. Len(pipe) \in Nat
        BY DEF AnswersTypeOK
      <3> QED
        BY <1>3, <1>5, <3>1, StreamTyped
    <2>3. Stream[p] = answer[p]
      BY <1>1, <2>1, <2>2, Zenon DEF InPlace
    <2> QED
      BY <2>2, <2>3, StreamTyped, Zenon
  <1>6. 2 + buffer[2].length = Len(answer)
    <2>1. 2 \in 1..Len(answer) /\ 2 <= Len(buffer)
      BY <1>2, <1>3
    <2>2. buffer[2].length = Len(answer) - 2
      BY <1>2, <1>5, <2>1, Zenon
    <2> QED
      BY <1>2, <2>2
  <1>7. Len(answer) \in 0..Len(buffer)
    BY <1>2, <1>3, <1>6 DEF deserializer
  <1>8. SubSeq(buffer, 1, Len(answer)) = answer
    <2> HIDE DEF answer
    <2>1. /\ SubSeq(buffer, 1, Len(answer)) \in Seq(Units)
          /\ Len(SubSeq(buffer, 1, Len(answer))) = Len(answer)
          /\ \A p \in 1..Len(answer) : SubSeq(buffer, 1, Len(answer))[p] = buffer[p]
      BY <1>2, <1>3, <1>7
    <2>2. \A p \in 1..Len(answer) : p <= Len(buffer)
      BY <1>2, <1>3, <1>7
    <2>3. \A p \in 1..Len(answer) : SubSeq(buffer, 1, Len(answer))[p] = answer[p]
      BY <1>5, <2>1, <2>2, Zenon
    <2> QED
      BY <1>2, <2>1, <2>3, SeqEqual, Zenon
  <1>9. off[d + 1] = off[d] + Len(answer)
    BY <1>1, AdjacentAt, Zenon DEF Offsets
  <1> QED
    BY <1>6, <1>7, <1>8, <1>9, Zenon

LEMMA ReadKeepsStream ==
    ASSUME AnswersTypeOK, StreamInv, Read
    PROVE  StreamInv'
  <1> DEFINE d == Len(decoded)
             size == 2 + buffer[2].length
  <1>1. PICK off : Offsets(off) /\ InPlace(off) /\ NothingElse(off) /\ NothingMissing(off)
    BY DEF StreamInv
  <1>2. /\ answers' = answers /\ requests' = requests /\ cut' = cut /\ pc' = pc /\ conn' = conn
        /\ pipe' = pipe /\ buffer' = SubSeq(buffer, size + 1, Len(buffer))
        /\ decoded' = Append(decoded, SubSeq(buffer, 1, size))
    BY DEF Read, streamVars
  <1>3. Whole' = Whole /\ AllFormed' /\ Offsets(off)'
    <2>1. Whole' = Whole
      BY <1>2 DEF Whole, Given
    <2> QED
      BY <1>1, <1>2, <2>1, Zenon DEF StreamInv, AllFormed, Offsets, Adjacent, Ascending, Formed
  <1>4. d \in Nat /\ Len(answers) \in Nat /\ Whole \in 0..Len(answers) /\ Len(buffer) >= 2
    BY WholeBound DEF AnswersTypeOK, Read, deserializer
  <1>5. /\ Len(decoded') = d + 1 /\ decoded'[d + 1] = SubSeq(buffer, 1, size)
        /\ \A i \in 1..d : decoded'[i] = decoded[i]
    <2>1. \A message : LET longer == Append(decoded, message) IN
              /\ Len(longer) = d + 1 /\ longer[d + 1] = message
              /\ \A i \in 1..d : longer[i] = decoded[i]
      BY DEF AnswersTypeOK
    <2> QED
      BY <1>2, <2>1, Zenon
  <1>6. CASE d + 1 <= Whole
    <2>1. size \in 0..Len(buffer) /\ SubSeq(buffer, 1, size) = answers[d + 1] /\ off[d + 1] = off[d] + size
      BY <1>1, <1>6, NextAnswer DEF Read, StreamInv
    <2>2. /\ Len(Stream') = Len(buffer) + Len(pipe) - size
          /\ \A k \in 1..Len(Stream') : Stream'[k] = Stream[size + k] /\ size + k \in 1..Len(Stream)
      <3>1. buffer \in Seq(Units) /\ pipe \in Seq(Units)
        BY DEF AnswersTypeOK
      <3> HIDE DEF size
      <3>2. Stream' = SubSeq(buffer, size + 1, Len(buffer)) \o pipe
        BY <1>2 DEF Stream
      <3> DEFINE rest == SubSeq(buffer, size + 1, Len(buffer)) \o pipe
      <3>3. /\ Len(rest) = Len(buffer) + Len(pipe) - size
            /\ \A k \in 1..Len(rest) : rest[k] = (buffer \o pipe)[size + k] /\ size + k \in 1..Len(buffer \o pipe)
        BY <2>1, <3>1, Cutting, Zenon
      <3> HIDE DEF rest
      <3>4. Stream' = rest /\ Stream = buffer \o pipe
        BY <3>2 DEF rest, Stream
      <3> QED
        BY <3>3, <3>4, Zenon
    <2>3. Len(Stream) = Len(buffer) + Len(pipe) /\ Len(buffer) \in Nat /\ Len(pipe) \in Nat
      BY StreamTyped DEF AnswersTypeOK
    <2>4. ReadSoFar'
      <3> SUFFICES ASSUME NEW i, i \in 1..(d + 1), i <= Whole PROVE decoded'[i] = answers[i]
        BY <1>2, <1>3, <1>5, Zenon DEF ReadSoFar
      <3>1. CASE i \in 1..d
        BY <1>5, <3>1, Zenon DEF StreamInv, ReadSoFar
      <3>2. CASE i = d + 1
        BY <1>5, <2>1, <3>2, Zenon
      <3> QED
        BY <1>4, <3>1, <3>2
    <2>5. off[d] \in Nat /\ off[d + 1] \in Nat /\ off[Whole] \in Nat /\ d <= Whole
      <3>1. d \in 0..Len(answers) /\ d + 1 \in 0..Len(answers) /\ d <= Whole
        BY <1>4, <1>6
      <3> QED
        BY <1>1, <1>4, <3>1, OffsetTyped, Zenon DEF Offsets
    <2>6. InPlace(off)'
      <3> SUFFICES ASSUME NEW i, i \in (d + 2)..Whole, NEW p, p \in 1..Len(answers[i]),
                          off[i - 1] + p - off[d + 1] <= Len(Stream')
                   PROVE  Stream'[off[i - 1] + p - off[d + 1]] = answers[i][p]
        <4>1. Len(decoded') + 1 = d + 2 /\ Len(decoded') = d + 1
          BY <1>4, <1>5
        <4>2. InPlace(off)' <=>
                  \A i \in (d + 2)..Whole : \A p \in 1..Len(answers[i]) :
                      off[i - 1] + p - off[d + 1] <= Len(Stream') =>
                          Stream'[off[i - 1] + p - off[d + 1]] = answers[i][p]
          BY <1>2, <1>3, <4>1 DEF InPlace, At
        <4> QED
          BY <4>2, Zenon
      <3> DEFINE k == off[i - 1] + p - off[d + 1]
      <3>1. i \in (d + 1)..Whole /\ i - 1 \in 0..Len(answers) /\ d + 1 \in 0..Len(answers) /\ d + 1 <= i - 1
            /\ i \in 1..Len(answers)
        BY <1>4
      <3>2. off[i - 1] \in Nat /\ off[d + 1] <= off[i - 1]
        BY <1>1, <1>4, <3>1, OffsetTyped, Zenon DEF Offsets, Ascending
      <3>3. Len(answers[i]) \in Nat
        BY <3>1, ElementOfSeq, SMTT(30) DEF AnswersTypeOK
      <3>4. k \in 1..Len(Stream') /\ size + k = off[i - 1] + p - off[d]
        <4>1. size \in Int /\ Len(Stream') \in Int
          BY <2>1, <2>2, <2>3
        <4> HIDE DEF size
        <4>2. PICK a, b, c, l, n : /\ a = off[d] /\ b = off[d + 1] /\ c = off[i - 1]
                                   /\ l = Len(answers[i]) /\ n = Len(Stream')
          OBVIOUS
        <4>3. /\ a \in Nat /\ b \in Nat /\ c \in Nat /\ l \in Nat /\ p \in 1..l /\ n \in Int
              /\ b = a + size /\ b <= c /\ c + p - b <= n
          BY <2>1, <2>5, <3>2, <3>3, <4>1, <4>2, Zenon
        <4>4. c + p - b \in 1..n /\ size + (c + p - b) = c + p - a
          BY <4>1, <4>3
        <4> QED
          BY <4>2, <4>4, Zenon
      <3>5. Stream'[k] = Stream[size + k] /\ size + k <= Len(Stream)
        <4>1. Stream'[k] = Stream[size + k] /\ size + k \in 1..Len(Stream)
          BY <2>2, <3>4, Zenon
        <4> QED
          BY <4>1
      <3>6. Stream[At(off, i, p)] = answers[i][p]
        BY <1>1, <3>1, <3>4, <3>5, Zenon DEF InPlace, At
      <3> QED
        BY <3>4, <3>5, <3>6, Zenon DEF At
    <2>7. NothingElse(off)' /\ NothingMissing(off)'
      <3>1. /\ Len(Stream') = Len(Stream) - size /\ Len(Stream) \in Int /\ size \in Int
        BY <2>1, <2>2, <2>3
      <3>2. (off[Whole] - off[d]) - size = off[Whole] - off[d + 1]
        <4> HIDE DEF size
        <4> QED
          BY <2>1, <2>5, <3>1
      <3>3. cut = 0 => Len(Stream') <= off[Whole] - off[d + 1]
        <4> HIDE DEF size
        <4>1. cut = 0 => Len(Stream) <= off[Whole] - off[d]
          BY <1>1 DEF NothingElse
        <4> QED
          BY <2>1, <2>5, <3>1, <3>2, <4>1, SMTT(30)
      <3>4. conn = "open" => Len(Stream') >= off[Whole] - off[d + 1]
        <4> HIDE DEF size
        <4>1. conn = "open" => Len(Stream) >= off[Whole] - off[d]
          BY <1>1, <2>5 DEF NothingMissing
        <4> QED
          BY <2>1, <2>5, <3>1, <3>2, <4>1, SMTT(30)
      <3> QED
        BY <1>2, <1>3, <1>5, <1>6, <3>3, <3>4, Zenon DEF NothingElse, NothingMissing
    <2> QED
      BY <1>3, <2>4, <2>6, <2>7, Zenon DEF StreamInv
  <1>7. CASE ~(d + 1 <= Whole)
    <2>1. cut # 0
      <3> SUFFICES ASSUME cut = 0 PROVE FALSE
        OBVIOUS
      <3>1. d = Whole
        BY <1>1, <1>4, <1>7 DEF NothingElse
      <3>2. off[d] \in Nat /\ Len(Stream) <= off[d] - off[d]
        BY <1>1, <3>1, WholeTyped DEF NothingElse
      <3>3. Len(Stream) >= 2 /\ Len(Stream) \in Nat
        <4>1. Len(buffer) \in Nat /\ Len(pipe) \in Nat
          BY DEF AnswersTypeOK
        <4> QED
          BY <1>4, <4>1, StreamTyped
      <3> QED
        BY <3>2, <3>3
    <2>2. ReadSoFar'
      <3> SUFFICES ASSUME NEW i, i \in 1..(d + 1), i <= Whole PROVE decoded'[i] = answers[i]
        BY <1>2, <1>3, <1>5, Zenon DEF ReadSoFar
      <3>1. i \in 1..d
        BY <1>4, <1>7
      <3> QED
        BY <1>5, <3>1, Zenon DEF StreamInv, ReadSoFar
    <2>3. InPlace(off)'
      <3>1. \A i : i \notin ((d + 1) + 1)..Whole
        BY <1>4, <1>7
      <3> QED
        BY <1>3, <1>5, <3>1, Zenon DEF InPlace
    <2>4. NothingElse(off)' /\ NothingMissing(off)'
      BY <1>2, <1>3, <1>5, <1>7, <2>1, Zenon DEF NothingElse, NothingMissing
    <2> QED
      BY <1>3, <2>2, <2>3, <2>4, Zenon DEF StreamInv
  <1> QED
    BY <1>6, <1>7

LEMMA Lengthening ==
    ASSUME NEW s \in Seq(Units), NEW t \in Seq(Units), NEW u \in Seq(Units), NEW m \in 0..Len(u)
    PROVE  LET longer == s \o (t \o SubSeq(u, 1, m)) IN
           /\ Len(longer) = Len(s \o t) + m
           /\ \A k \in 1..Len(s \o t) : longer[k] = (s \o t)[k]
           /\ \A k \in 1..m : longer[Len(s \o t) + k] = u[k]
  <1> DEFINE a == SubSeq(u, 1, m)
             b == t \o a
  <1>1. Len(s) \in Nat /\ Len(t) \in Nat /\ Len(u) \in Nat /\ m \in Nat
    OBVIOUS
  <1>2. a \in Seq(Units) /\ Len(a) = m /\ \A k \in 1..m : a[k] = u[k]
    BY <1>1
  <1> HIDE DEF a
  <1>3. /\ b \in Seq(Units) /\ Len(b) = Len(t) + m
        /\ \A k \in 1..(Len(t) + m) : b[k] = IF k <= Len(t) THEN t[k] ELSE a[k - Len(t)]
    BY <1>2, ConcatProperties, Zenon
  <1> HIDE DEF b
  <1>4. /\ Len(s \o b) = Len(s) + (Len(t) + m)
        /\ \A k \in 1..(Len(s) + (Len(t) + m)) : (s \o b)[k] = IF k <= Len(s) THEN s[k] ELSE b[k - Len(s)]
    <2>1. /\ Len(s \o b) = Len(s) + Len(b)
          /\ \A k \in 1..(Len(s) + Len(b)) : (s \o b)[k] = IF k <= Len(s) THEN s[k] ELSE b[k - Len(s)]
      BY <1>3, ConcatProperties, Zenon
    <2>2. Len(s) + Len(b) = Len(s) + (Len(t) + m)
      BY <1>3
    <2> QED
      BY <2>1, <2>2, Zenon
  <1>5. /\ Len(s \o t) = Len(s) + Len(t)
        /\ \A k \in 1..(Len(s) + Len(t)) : (s \o t)[k] = IF k <= Len(s) THEN s[k] ELSE t[k - Len(s)]
    BY ConcatProperties, Zenon
  <1>6. Len(s \o b) = Len(s \o t) + m
    BY <1>1, <1>4, <1>5
  <1>7. ASSUME NEW k \in 1..Len(s \o t)
        PROVE  (s \o b)[k] = (s \o t)[k]
    <2>1. k \in 1..(Len(s) + Len(t)) /\ k \in 1..(Len(s) + (Len(t) + m))
      BY <1>1, <1>5
    <2>2. CASE k <= Len(s)
      BY <1>4, <1>5, <2>1, <2>2, Zenon
    <2>3. CASE ~(k <= Len(s))
      <3>1. k - Len(s) \in 1..(Len(t) + m) /\ k - Len(s) <= Len(t)
        BY <1>1, <2>1, <2>3
      <3> QED
        BY <1>3, <1>4, <1>5, <2>1, <2>3, <3>1, Zenon
    <2> QED
      BY <2>2, <2>3
  <1>8. ASSUME NEW k \in 1..m
        PROVE  (s \o b)[Len(s \o t) + k] = u[k]
    <2>1. PICK x : x = Len(s) + Len(t) + k
      OBVIOUS
    <2>2. /\ x \in 1..(Len(s) + (Len(t) + m)) /\ ~(x <= Len(s))
          /\ x - Len(s) \in 1..(Len(t) + m) /\ ~(x - Len(s) <= Len(t)) /\ (x - Len(s)) - Len(t) = k
      BY <1>1, <2>1
    <2>3. (s \o b)[x] = b[x - Len(s)]
      BY <1>4, <2>2, Zenon
    <2>4. b[x - Len(s)] = a[(x - Len(s)) - Len(t)]
      BY <1>3, <2>2, Zenon
    <2>5. a[(x - Len(s)) - Len(t)] = u[k]
      BY <1>2, <2>2, Zenon
    <2> QED
      BY <1>5, <2>1, <2>3, <2>4, <2>5, Zenon
  <1> QED
    BY <1>6, <1>7, <1>8, Zenon DEF a, b

LEMMA StreamLengthens ==
    ASSUME AnswersTypeOK, NEW message \in Seq(Units), NEW m \in 0..Len(message),
           buffer' = buffer, pipe' = pipe \o SubSeq(message, 1, m)
    PROVE  /\ Len(Stream') = Len(Stream) + m
           /\ \A k \in 1..Len(Stream) : Stream'[k] = Stream[k]
           /\ \A k \in 1..m : Stream'[Len(Stream) + k] = message[k]
  <1>1. buffer \in Seq(Units) /\ pipe \in Seq(Units)
    BY DEF AnswersTypeOK
  <1> DEFINE longer == buffer \o (pipe \o SubSeq(message, 1, m))
  <1>2. Len(longer) = Len(buffer \o pipe) + m
    BY <1>1, Lengthening, Zenon
  <1>3. \A k \in 1..Len(buffer \o pipe) : longer[k] = (buffer \o pipe)[k]
    BY <1>1, Lengthening, SMTT(30)
  <1>4. \A k \in 1..m : longer[Len(buffer \o pipe) + k] = message[k]
    BY <1>1, Lengthening, SMTT(30)
  <1>5. Stream = buffer \o pipe /\ Stream' = longer
    BY DEF Stream
  <1> HIDE DEF longer
  <1> QED
    BY <1>2, <1>3, <1>4, <1>5, Zenon

\* What was whole stays in its place, and so does what is whole now.
LEMMA SendKeepsStream ==
    ASSUME AnswersTypeOK, StreamInv, Send
    PROVE  StreamInv'
  <1> DEFINE d == Len(decoded)
  <1>1. PICK off : Offsets(off) /\ InPlace(off) /\ NothingElse(off) /\ NothingMissing(off)
    BY DEF StreamInv
  <1>2. PICK message, n : message = answers[n] /\ n = Len(answers)
    OBVIOUS
  <1>3. n \in Nat /\ n \in 1..n /\ n - 1 \in 0..n /\ n \in 0..n /\ n - 1 \in Nat /\ d \in Nat
    BY <1>2 DEF AnswersTypeOK, Send
  <1>4. message \in Seq(Units) /\ Len(message) \in Nat
    BY <1>2, <1>3, ElementOfSeq DEF AnswersTypeOK
  <1>5. PICK m : /\ m \in 0..Len(message) /\ (~(Room < Len(message)) => m = Len(message))
                 /\ pipe' = pipe \o SubSeq(message, 1, m)
    <2>1. Room \in Nat
      BY AnswersAssumption DEF AnswersTypeOK, Room
    <2> DEFINE m == Min({Room, Len(message)})
    <2>2. m \in Nat /\ m \in {Room, Len(message)} /\ m <= Room /\ m <= Len(message)
      BY <1>4, <2>1, MinOfTwo, Zenon
    <2>3. pipe' = pipe \o SubSeq(message, 1, m)
      BY <1>2 DEF Send
    <2> HIDE DEF m
    <2>4. m \in 0..Len(message) /\ (~(Room < Len(message)) => m = Len(message))
      BY <1>4, <2>1, <2>2
    <2> QED
      BY <2>3, <2>4, Zenon
  <1>6. /\ Len(Stream') = Len(Stream) + m
        /\ \A k \in 1..Len(Stream) : Stream'[k] = Stream[k]
        /\ \A k \in 1..m : Stream'[Len(Stream) + k] = message[k]
    BY <1>4, <1>5, StreamLengthens DEF Send, clientVars
  <1>7. /\ answers' = answers /\ requests' = requests /\ decoded' = decoded /\ conn' = conn
        /\ conn = "open" /\ pc = "send" /\ pc' = "handle" /\ cut \in Nat
        /\ cut' = IF cut = 0 /\ Room < Len(message) THEN n ELSE cut
    BY <1>2 DEF Send, clientVars, AnswersTypeOK
  <1>8. AllFormed' /\ Offsets(off)'
    BY <1>1, <1>7, Zenon DEF StreamInv, AllFormed, Offsets, Adjacent, Ascending, Formed
  <1>9. Len(Stream) \in Nat
    BY StreamTyped
  <1>10. Whole \in 0..n
    BY <1>2, WholeBound, Zenon
  \* What was whole.
  <1>11. ASSUME d <= Whole, NEW i, i \in (d + 1)..Whole, NEW p, p \in 1..Len(answers[i])
         PROVE  Stream'[At(off, i, p)] = answers[i][p]
    <2>1. Len(Stream) >= off[Whole] - off[d]
      BY <1>1, <1>7, <1>11 DEF NothingMissing
    <2>2. /\ At(off, i, p) \in Nat /\ At(off, i, p) >= 1
          /\ At(off, i, p) <= off[Whole] - off[d] /\ off[Whole] - off[d] \in Int
      BY <1>1, <1>11, PlaceBound, Zenon
    <2>3. At(off, i, p) \in 1..Len(Stream) /\ At(off, i, p) <= Len(Stream)
      BY <1>9, <2>1, <2>2
    <2>4. Stream[At(off, i, p)] = answers[i][p]
      BY <1>1, <1>11, <2>3, Zenon DEF InPlace
    <2> QED
      BY <1>6, <2>3, <2>4, Zenon
  <1>12. CASE cut # 0 \/ Room < Len(message)
    <2>1. Whole' = Whole /\ cut' # 0
      BY <1>2, <1>3, <1>7, <1>12 DEF Whole, Given
    <2>2. ReadSoFar'
      BY <1>7, <2>1, Zenon DEF StreamInv, ReadSoFar
    <2>3. InPlace(off)'
      <3> SUFFICES ASSUME NEW i, i \in (d + 1)..Whole, NEW p, p \in 1..Len(answers[i])
                   PROVE  Stream'[At(off, i, p)] = answers[i][p]
        BY <1>7, <2>1, SMTT(30) DEF InPlace, At
      <3>1. d <= Whole
        BY <1>3, <1>10
      <3> QED
        BY <1>11, <3>1, Zenon
    <2>4. d <= Whole => Len(Stream') >= off[Whole] - off[d]
      <3> SUFFICES ASSUME d <= Whole PROVE Len(Stream') >= off[Whole] - off[d]
        OBVIOUS
      <3>1. Len(Stream) >= off[Whole] - off[d] /\ off[Whole] - off[d] \in Int
        BY <1>1, <1>7, WholeTyped DEF NothingMissing
      <3>2. m \in Nat
        BY <1>4, <1>5
      <3> QED
        BY <1>6, <1>9, <3>1, <3>2
    <2>5. NothingElse(off)' /\ NothingMissing(off)'
      BY <1>7, <2>1, <2>4, Zenon DEF NothingElse, NothingMissing
    <2> QED
      BY <1>8, <2>2, <2>3, <2>5, Zenon DEF StreamInv
  <1>13. CASE cut = 0 /\ ~(Room < Len(message))
    <2>1. Whole = n - 1 /\ Whole' = n /\ cut' = 0 /\ m = Len(message)
      BY <1>2, <1>3, <1>5, <1>7, <1>13 DEF Whole, Given
    <2>2. d <= n - 1 /\ d \in 0..n /\ d <= Whole /\ d <= n
      <3>1. d <= Whole
        BY <1>1, <1>13 DEF NothingElse
      <3> QED
        BY <1>3, <2>1, <3>1
    <2>3. /\ off[d] \in Nat /\ off[n - 1] \in Nat /\ off[n] \in Nat /\ off[n] = off[n - 1] + Len(message)
      <3>1. off[d] \in Nat /\ off[n - 1] \in Nat /\ off[n] \in Nat
        BY <1>1, <1>3, <2>2, OffsetTyped, Zenon DEF Offsets
      <3> QED
        BY <1>1, <1>2, <1>3, <3>1, AdjacentAt, Zenon DEF Offsets
    <2>4. Len(Stream) = off[n - 1] - off[d]
      <3>1. Len(Stream) <= off[n - 1] - off[d] /\ Len(Stream) >= off[n - 1] - off[d]
        BY <1>1, <1>7, <1>13, <2>1, <2>2 DEF NothingElse, NothingMissing
      <3> QED
        BY <1>9, <2>3, <3>1
    <2>5. Len(Stream') = off[n] - off[d]
      BY <1>4, <1>6, <2>1, <2>3, <2>4
    <2>6. ReadSoFar'
      <3>1. \A i \in 1..d : i <= Whole /\ i <= n
        BY <1>3, <2>1, <2>2
      <3> QED
        BY <1>7, <2>1, <3>1, Zenon DEF StreamInv, ReadSoFar
    <2>7. InPlace(off)'
      <3> SUFFICES ASSUME NEW i, i \in (d + 1)..n, NEW p, p \in 1..Len(answers[i])
                   PROVE  Stream'[At(off, i, p)] = answers[i][p]
        BY <1>7, <2>1, SMTT(30) DEF InPlace, At
      <3>1. CASE i \in (d + 1)..Whole
        BY <1>11, <2>2, <3>1, Zenon
      <3>2. CASE i = n
        <4>1. At(off, n, p) = Len(Stream) + p
          <5>1. p \in Int /\ off[n - 1] + p - off[d] = off[n - 1] - off[d] + p
            BY <2>3
          <5> QED
            BY <2>4, <5>1 DEF At
        <4> QED
          BY <1>2, <1>6, <2>1, <3>2, <4>1, Zenon
      <3> QED
        BY <1>3, <2>1, <3>1, <3>2
    <2>8. NothingElse(off)' /\ NothingMissing(off)'
      <3>1. Len(Stream') <= off[n] - off[d] /\ Len(Stream') >= off[n] - off[d]
        BY <2>3, <2>5
      <3> QED
        BY <1>7, <2>1, <2>2, <3>1, Zenon DEF NothingElse, NothingMissing
    <2> QED
      BY <1>8, <2>6, <2>7, <2>8, Zenon DEF StreamInv
  <1> QED
    BY <1>12, <1>13

\* Every answer the client reads, as far as the first that was cut, is the one the handler
\* gave to that command, for every set of commands, size of the kernel's buffer and length
\* of the data, and wherever receives and the end of the connection divide the stream.
THEOREM ClientReadsTheAnswers == Spec => []DecodedAsAnswered
  <1>1. Init => StreamInv
    <2> SUFFICES ASSUME Init PROVE StreamInv
      OBVIOUS
    <2>1. Len(answers) = 0 /\ Len(decoded) = 0 /\ Whole = 0
      BY DEF Init, Whole, Given
    <2>2. Len(Stream) = 0
      BY DEF Init, Stream
    <2> DEFINE off == [i \in Nat |-> 0]
    <2>3. Offsets(off)
      BY <2>1 DEF Offsets, Adjacent, Ascending
    <2>4. InPlace(off) /\ NothingElse(off) /\ NothingMissing(off)
      BY <2>1, <2>2 DEF InPlace, NothingElse, NothingMissing
    <2>5. AllFormed /\ ReadSoFar
      BY <2>1 DEF AllFormed, ReadSoFar
    <2> HIDE DEF off
    <2> QED
      BY <2>3, <2>4, <2>5, Zenon DEF StreamInv
  <1>2. AnswersTypeOK /\ StreamInv /\ [Next]_vars => StreamInv'
    <2> SUFFICES ASSUME AnswersTypeOK, StreamInv, [Next]_vars PROVE StreamInv'
      OBVIOUS
    <2>1. CASE Handle
      <3>1. CASE \E how \in {"dropped", "crashed"} : Ends(how)
        BY <3>1, EndsKeepsStream
      <3>2. CASE /\ conn = "open" /\ pc = "handle" /\ Len(answers) < Len(requests)
                 /\ \E message \in Seq(Units) : Reply(message) /\ Formed(message, Front.command)
        BY <3>2, ReplyKeepsStream
      <3> QED
        BY <2>1, <3>1, <3>2, HandleReplies
    <2>2. CASE Send
      BY <2>2, SendKeepsStream
    <2>3. CASE SendThrows \/ Stop
      BY <2>3, EndsKeepsStream DEF SendThrows, Stop
    <2>4. CASE Client
      BY <2>4, ReceiveKeepsStream, ReadKeepsStream DEF Client
    <2>5. CASE SendCommand
      BY <2>5, SendCommandKeepsStream
    <2>6. CASE SessionEnds \/ UNCHANGED vars
      BY <2>6, SameStream DEF SessionEnds, vars, streamVars, clientVars, Stream
    <2> QED
      BY <2>1, <2>2, <2>3, <2>4, <2>5, <2>6 DEF Next, Serve, Terminated
  <1>3. AnswersTypeOK /\ StreamInv => DecodedAsAnswered
    <2> SUFFICES ASSUME AnswersTypeOK, StreamInv, NEW i \in 1..Len(decoded), cut = 0 \/ i < cut
                 PROVE  ReadRight(i)
      BY DEF DecodedAsAnswered
    <2>1. Len(answers) \in Nat /\ Len(decoded) \in Nat /\ Whole \in 0..Len(answers) /\ cut \in Nat
      BY WholeBound, SMTT(30) DEF AnswersTypeOK
    <2>2. i <= Whole
      <3>1. CASE cut = 0
        BY <2>1, <3>1 DEF StreamInv, NothingElse
      <3>2. CASE cut # 0
        BY <2>1, <3>2 DEF Whole
      <3> QED
        BY <3>1, <3>2
    <2>3. i \in 1..Len(answers) /\ i <= Len(answers)
      BY <2>1, <2>2
    <2>4. decoded[i] = answers[i] /\ Formed(answers[i], requests[i].command)
      BY <2>2, <2>3, Zenon DEF StreamInv, ReadSoFar, AllFormed
    <2> QED
      BY <2>3, <2>4, Zenon DEF ReadRight, Formed
  <1> QED
    BY <1>1, <1>2, <1>3, AnswersTypeCorrect, PTL DEF Spec

----------------------------------------------------------------------------
(* What the client is told of the session.                                 *)

\* An answer that tells whether there is a session, and one that tells of one.
Tells(message) ==
    /\ message[1].command \in SessionCommands
    /\ message[1].status = "OK" /\ message[3].of # "rejected"
TellsOfOne(message) == Tells(message) /\ message[3].of \in {"created", "exists"}

\* The last answer that told anything of the session told of one, when there is one, and
\* was given to a START_SESSION: what the handlers have answered, sent, read or neither.
LastTold ==
    active => \E n \in 1..Len(answers) :
                  /\ TellsOfOne(answers[n]) /\ requests[n] = StartRequest
                  /\ \A j \in (n + 1)..Len(answers) : ~Tells(answers[j])

LEMMA MaxIs ==
    ASSUME NEW S, S \subseteq Nat, NEW n \in S, \A j \in S : j <= n
    PROVE  Max(S) = n
  <1>1. \E x \in S : \A y \in S : x >= y
    OBVIOUS
  <1>2. Max(S) \in S /\ \A y \in S : Max(S) >= y
    BY <1>1 DEF Max
  <1>3. PICK m \in Nat : m = Max(S)
    BY <1>2
  <1>4. m <= n /\ n <= m
    BY <1>2, <1>3
  <1> QED
    BY <1>3, <1>4

\* What can be read off an answer.
LEMMA AnswerSays ==
    ASSUME NEW command \in Commands, NEW status \in {"OK", "INVALID_COMMAND", "INVALID_PARAMS"},
           NEW version \in {0, PROTOCOL_VERSION}, NEW result \in Result
    PROVE  LET long == serializer(Start(version, command, status), Json(result))
               short == serializer(Start(version, command, status), << >>) IN
           /\ long[1].command = command /\ long[1].status = status /\ long[3].of = result
           /\ short[1].command = command /\ short[1].status = status
  <1> DEFINE start == Start(version, command, status)
             data == Json(result)
             length == Length(Len(data))
             two == <<start, length>>
  <1>1. start \in Units /\ start.command = command /\ start.status = status
    BY DEF Units, Start
  <1>2. data \in Seq(Units) /\ Len(data) = JsonUnits /\ 1 \in 1..JsonUnits /\ data[1].of = result
    <2>1. 1 \in 1..JsonUnits
      BY AnswersAssumption
    <2> QED
      BY <2>1, JsonTyped DEF Json
  <1>3. length \in Units /\ Length(0) \in Units /\ Len(<< >>) = 0 /\ << >> \in Seq(Units)
    BY <1>2 DEF Units, Length
  <1> HIDE DEF start, data, length
  <1>4. two \in Seq(Units) /\ Len(two) = 2 /\ two[1] = start
    BY <1>1, <1>3
  <1>5. (two \o data)[1] = start /\ (two \o data)[3] = data[1]
    <2> HIDE DEF two
    <2>1. /\ Len(two \o data) = Len(two) + Len(data)
          /\ \A i \in 1 .. Len(two) + Len(data) : (two \o data)[i] =
                 IF i <= Len(two) THEN two[i] ELSE data[i - Len(two)]
      BY <1>2, <1>4, ConcatProperties
    <2> QED
      BY <1>2, <1>4, <2>1, AnswersAssumption
  <1>6. (<<start, Length(0)>> \o << >>)[1] = start
    BY <1>1, <1>3, TwoBefore
  <1>7. serializer(start, data) = two \o data /\ serializer(start, << >>) = <<start, Length(0)>> \o << >>
    BY <1>3 DEF serializer, length
  <1>8. /\ serializer(start, data)[1] = start /\ serializer(start, data)[3] = data[1]
        /\ serializer(start, << >>)[1] = start
    BY <1>5, <1>6, <1>7, Zenon
  <1> QED
    BY <1>1, <1>2, <1>8, Zenon DEF start, data

\* An answer that tells nothing changes nothing.
LEMMA SilentReply ==
    ASSUME AnswersTypeOK, LastTold, NEW message, Reply(message), ~Tells(message), active' => active
    PROVE  LastTold'
  <1> SUFFICES ASSUME active' PROVE LastTold'
    BY DEF LastTold
  <1>1. PICK n \in 1..Len(answers) :
           /\ TellsOfOne(answers[n]) /\ requests[n] = StartRequest
           /\ \A j \in (n + 1)..Len(answers) : ~Tells(answers[j])
    BY DEF LastTold
  <1>2. PICK l \in Nat : l = Len(answers)
    <2>1. Len(answers) \in Nat
      BY DEF AnswersTypeOK
    <2> QED
      BY <2>1
  <1>3. /\ Len(answers') = l + 1 /\ answers'[l + 1] = message
        /\ \A i \in 1..l : answers'[i] = answers[i]
    BY <1>2, AppendProperties DEF AnswersTypeOK, Reply
  <1>4. n \in 1..Len(answers') /\ TellsOfOne(answers'[n]) /\ requests'[n] = StartRequest
    BY <1>1, <1>2, <1>3 DEF Reply
  <1>5. ASSUME NEW j \in (n + 1)..Len(answers') PROVE ~Tells(answers'[j])
    <2>1. j = l + 1 \/ (j \in (n + 1)..l /\ j \in 1..l)
      BY <1>1, <1>2, <1>3
    <2> QED
      BY <1>1, <1>2, <1>3, <2>1, Zenon
  <1> QED
    BY <1>4, <1>5, Zenon DEF LastTold

LEMMA TellingReply ==
    ASSUME AnswersTypeOK, NEW message, Reply(message), TellsOfOne(message), Front = StartRequest
    PROVE  LastTold'
  <1>1. PICK l \in Nat : l = Len(answers)
    <2>1. Len(answers) \in Nat
      BY DEF AnswersTypeOK
    <2> QED
      BY <2>1
  <1>2. /\ Len(answers') = l + 1 /\ answers'[l + 1] = message
        /\ requests'[l + 1] = StartRequest
    BY <1>1, AppendProperties DEF AnswersTypeOK, Reply, Front
  <1>3. /\ l + 1 \in 1..Len(answers') /\ TellsOfOne(answers'[l + 1])
        /\ requests'[l + 1] = StartRequest
        /\ \A j \in ((l + 1) + 1)..Len(answers') : ~Tells(answers'[j])
    <2>1. l + 1 \in 1..(l + 1) /\ \A j : j \notin ((l + 1) + 1)..(l + 1)
      BY <1>1
    <2> QED
      BY <1>2, <2>1, Zenon
  <1> QED
    BY <1>3, Zenon DEF LastTold

LEMMA HandleTells ==
    ASSUME AnswersTypeOK, LastTold, Handle
    PROVE  LastTold'
  <1> DEFINE command == Front.command
  <1>1. CASE handleGet
    <2>1. command \in Commands /\ command \notin SessionCommands
      BY <1>1, FrontTyped DEF handleGet, Handling, Reports, SessionCommands
    <2> DEFINE message == createJsonMsg(command, "OK", Json("report"))
    <2>2. message[1].command = command
      BY <2>1, AnswerSays DEF createJsonMsg, Result
    <2>3. Reply(message) /\ active' = active
      BY <1>1 DEF handleGet
    <2>4. ~Tells(message)
      BY <2>1, <2>2, Zenon DEF Tells
    <2> HIDE DEF message
    <2> QED
      BY <2>3, <2>4, SilentReply
  <1>2. CASE InvalidParams
    <2>1. command \in Commands
      BY <1>2, FrontTyped DEF InvalidParams
    <2> DEFINE message == createJsonMsg(command, "INVALID_PARAMS", << >>)
    <2>2. message[1].status = "INVALID_PARAMS"
      BY <2>1, AnswerSays DEF createJsonMsg, Result
    <2>3. Reply(message) /\ active' = active
      BY <1>2 DEF InvalidParams
    <2>4. ~Tells(message)
      BY <2>2 DEF Tells
    <2> HIDE DEF message
    <2> QED
      BY <2>3, <2>4, SilentReply
  <1>3. CASE handleStartSession
    <2>1. PICK result \in {"rejected", IF active THEN "exists" ELSE "created"} :
             /\ Reply(createJsonMsg(command, "OK", Json(result)))
             /\ active' = (active \/ result = "created")
      BY <1>3 DEF handleStartSession
    <2>2. command \in Commands /\ command \in SessionCommands /\ result \in Result
      BY <1>3, FrontTyped DEF handleStartSession, Handling, SessionCommands, Result
    <2> DEFINE message == createJsonMsg(command, "OK", Json(result))
    <2>3. message[1].command = command /\ message[1].status = "OK" /\ message[3].of = result
      BY <2>2, AnswerSays DEF createJsonMsg
    <2>4. Reply(message)
      BY <2>1
    <2> HIDE DEF message
    <2>5. CASE result = "rejected"
      BY <2>1, <2>3, <2>4, <2>5, SilentReply DEF Tells
    <2>6. CASE result \in {"created", "exists"}
      <3>1. TellsOfOne(message)
        BY <2>2, <2>3, <2>6 DEF TellsOfOne, Tells
      <3>2. Front = StartRequest
        <4>1. Front \in Requests /\ Front.command = "START_SESSION" /\ Front.params = "valid"
          BY <1>3, FrontTyped DEF handleStartSession, Handling
        <4> HIDE DEF Front
        <4>2. Front = [command |-> Front.command, params |-> Front.params]
          BY <4>1 DEF Requests
        <4> QED
          BY <4>1, <4>2, Zenon DEF StartRequest
      <3> QED
        BY <2>4, <3>1, <3>2, TellingReply
    <2> QED
      BY <2>1, <2>5, <2>6
  <1>4. CASE handleStopSession \/ ParamsUndefined
    BY <1>4 DEF handleStopSession, ParamsUndefined, Ends, LastTold
  <1>5. CASE handleShutdown
    <2>1. command \in Commands /\ command \notin SessionCommands
      BY <1>5, FrontTyped DEF handleShutdown, Handling, SessionCommands
    <2> DEFINE message == createJsonMsg(command, "OK", Json("requested"))
    <2>2. message[1].command = command
      BY <2>1, AnswerSays DEF createJsonMsg, Result
    <2>3. Reply(message) /\ active' = active
      BY <1>5 DEF handleShutdown
    <2>4. ~Tells(message)
      BY <2>1, <2>2, Zenon DEF Tells
    <2> HIDE DEF message
    <2> QED
      BY <2>3, <2>4, SilentReply
  <1>6. CASE UnknownCommand
    <2>1. command \in Commands /\ command \notin SessionCommands
      BY <1>6, FrontTyped DEF UnknownCommand, Handling, SessionCommands, Unknown
    <2>2. PICK version \in {PROTOCOL_VERSION, 0} :
             Reply(serializer(Start(version, command, "INVALID_COMMAND"), << >>))
      BY <1>6 DEF UnknownCommand
    <2> DEFINE message == serializer(Start(version, command, "INVALID_COMMAND"), << >>)
    <2>3. message[1].command = command
      BY <2>1, AnswerSays DEF Result
    <2>4. Reply(message) /\ active' = active
      BY <1>6, <2>2 DEF UnknownCommand
    <2>5. ~Tells(message)
      BY <2>1, <2>3, Zenon DEF Tells
    <2> HIDE DEF message
    <2> QED
      BY <2>4, <2>5, SilentReply
  <1>7. CASE ParamsThrow
    BY <1>7 DEF ParamsThrow, Ends, LastTold
  <1> QED
    BY <1>1, <1>2, <1>3, <1>4, <1>5, <1>6, <1>7 DEF Handle

\* However far the client has read, whatever was cut short or never sent, and whatever
\* else ends sessions: a session there is doubt about is one that an unread answer's
\* START_SESSION began; of any other the client was last told that there is one.  For every
\* set of commands, every size of the kernel's buffer and of the answers.
THEOREM DoubtOnlyAboutUnread == Spec => []SessionAsTold
  <1>1. Init => LastTold
    BY DEF Init, LastTold
  <1>2. AnswersTypeOK /\ LastTold /\ [Next]_vars => LastTold'
    <2> SUFFICES ASSUME AnswersTypeOK, LastTold, [Next]_vars PROVE LastTold'
      OBVIOUS
    <2>1. CASE Handle
      BY <2>1, HandleTells
    <2>2. CASE SendThrows \/ Stop
      BY <2>2 DEF SendThrows, Stop, Ends, LastTold
    <2>3. CASE SessionEnds
      BY <2>3 DEF SessionEnds, LastTold
    <2>4. CASE Send \/ Client \/ UNCHANGED vars
      <3>1. active' = active /\ answers' = answers /\ requests' = requests
        BY <2>4 DEF Send, Client, Receive, Read, vars
      <3> QED
        BY <3>1 DEF LastTold
    <2>5. CASE SendCommand
      <3>1. active' = active /\ answers' = answers
        BY <2>5 DEF SendCommand
      <3>2. \A n \in 1..Len(answers) : requests'[n] = requests[n]
        <4>1. PICK r \in Requests : requests' = Append(requests, r)
          BY <2>5 DEF SendCommand
        <4>2. \A n \in 1..Len(answers) : n \in 1..Len(requests)
          BY DEF AnswersTypeOK
        <4> QED
          BY <4>1, <4>2, AppendProperties DEF AnswersTypeOK
      <3> QED
        BY <3>1, <3>2 DEF LastTold
    <2> QED
      BY <2>1, <2>2, <2>3, <2>4, <2>5 DEF Next, Serve, Terminated
  <1>3. AnswersTypeOK /\ DecodedAsAnswered /\ LastTold => SessionAsTold
    <2> SUFFICES ASSUME AnswersTypeOK, DecodedAsAnswered, LastTold, active
                 PROVE  \/ Told # {} /\ decoded[Max(Told)][3].of \in {"created", "exists"}
                        \/ \E i \in (Sound + 1)..Len(answers) : requests[i] = StartRequest
      BY DEF SessionAsTold
    <2>1. PICK n \in 1..Len(answers) :
             /\ TellsOfOne(answers[n]) /\ requests[n] = StartRequest
             /\ \A j \in (n + 1)..Len(answers) : ~Tells(answers[j])
      BY DEF LastTold
    <2>2. Len(answers) \in Nat /\ Len(decoded) \in Nat /\ cut \in Nat
      BY DEF AnswersTypeOK
    <2>3. Sound \in Int /\ Sound <= Len(decoded) /\ (cut = 0 \/ Sound < cut)
      <3>1. CASE cut = 0
        BY <2>2, <3>1 DEF Sound
      <3>2. CASE cut # 0
        <4>1. /\ Min({Len(decoded), cut - 1}) \in {Len(decoded), cut - 1}
              /\ Min({Len(decoded), cut - 1}) <= Len(decoded)
              /\ Min({Len(decoded), cut - 1}) <= cut - 1
          BY <2>2, <3>2, MinOfTwo
        <4> QED
          BY <2>2, <3>2, <4>1 DEF Sound
      <3> QED
        BY <3>1, <3>2
    <2>4. CASE n > Sound
      BY <2>1, <2>2, <2>3, <2>4
    <2>5. CASE n <= Sound
      <3>1. ASSUME NEW i \in 1..Sound PROVE decoded[i] = answers[i] /\ i \in 1..Len(answers)
        BY <2>2, <2>3 DEF DecodedAsAnswered, ReadRight
      <3>2. Told = {i \in 1..Sound : Tells(decoded[i])}
        BY DEF Told, Tells
      <3>3. n \in Told /\ Told \subseteq Nat
        BY <2>1, <2>3, <2>5, <3>1, <3>2 DEF TellsOfOne
      <3>4. ASSUME NEW j \in Told PROVE j <= n
        <4>1. j \in 1..Len(answers) /\ Tells(answers[j])
          BY <3>1, <3>2, <3>4
        <4>2. j \notin (n + 1)..Len(answers)
          BY <2>1, <4>1
        <4> QED
          BY <2>1, <2>2, <4>1, <4>2
      <3>5. Max(Told) = n
        BY <3>3, <3>4, MaxIs
      <3>6. decoded[n][3].of \in {"created", "exists"}
        <4>1. n \in 1..Sound
          BY <3>2, <3>3
        <4> QED
          BY <2>1, <3>1, <4>1 DEF TellsOfOne
      <3> QED
        BY <3>3, <3>5, <3>6, Zenon
    <2> QED
      BY <2>1, <2>2, <2>3, <2>4, <2>5
  <1> QED
    BY <1>1, <1>2, <1>3, AnswersTypeCorrect, ClientReadsTheAnswers, PTL DEF Spec
=============================================================================
