---------------------------- MODULE Access_proofs ----------------------------
(***************************************************************************)
(* Proofs about the way from a client's datagram to the CDR file, over all *)
(* lives of the server process.                                            *)
(***************************************************************************)
EXTENDS Access, FileCdrWriter_proofs

Actions == {"CREATED", "DELETED", "REJECTED"}

\* The session manager's call has the backend write one record of i, or none.
Wrote(i, action) == writeAction([imsi |-> i, action |-> action])

\* ... as the session manager's table says.
Bills(i, action) ==
    /\ Wrote(i, action)
    /\ \/ action = "REJECTED" /\ m_sessions' = m_sessions
       \/ /\ action = "CREATED" /\ m_sessions[i] = S!Absent
          /\ m_sessions' = [m_sessions EXCEPT ![i] = now] /\ now # S!Absent
       \/ /\ action = "DELETED" /\ m_sessions[i] # S!Absent
          /\ m_sessions' = [m_sessions EXCEPT ![i] = S!Absent]

----------------------------------------------------------------------------
(* The session manager's calls, and the records they have written.         *)

\* A set of subscribers is finite.
LEMMA SubscribersCounted ==
    ASSUME NEW T \in SUBSET Imsi
    PROVE  Cardinality(T) \in Nat
  BY AccessAssumption, FS_Subset, FS_CardinalityType

\* The session manager counts like everyone else.
LEMMA SameCardinality ==
    ASSUME NEW T
    PROVE  S!Cardinality(T) = Cardinality(T)
  BY DEF S!Cardinality, Cardinality

LEMMA ActiveCountedNext == S!Cardinality(S!Active') \in Nat
  <1>1. S!Active' \in SUBSET Imsi
    BY DEF S!Active
  <1>2. Cardinality(S!Active') \in Nat
    BY <1>1, SubscribersCounted, Zenon
  <1> QED
    BY <1>2, SameCardinality, Zenon

\* Statistics that a call changes stay statistics.
LEMMA StatisticsTyped ==
    ASSUME NEW s \in S!Statistics, NEW n \in Nat
    PROVE  /\ [s EXCEPT !.rejectedSessions = @ + 1, !.totalSessions = @ + 1] \in S!Statistics
           /\ [s EXCEPT !.createdSessions = @ + 1, !.totalSessions = @ + 1,
                        !.activeSessions = n] \in S!Statistics
           /\ [s EXCEPT !.activeSessions = n, !.terminateSessions = @ + 1] \in S!Statistics
  <1> DEFINE terminated == s.terminateSessions + 1
             rejected == s.rejectedSessions + 1
             created == s.createdSessions + 1
             total == s.totalSessions + 1
  <1>1. terminated \in Nat /\ rejected \in Nat /\ created \in Nat /\ total \in Nat
    BY DEF S!Statistics
  <1> HIDE DEF terminated, rejected, created, total
  <1>2. [s EXCEPT !.activeSessions = n, !.terminateSessions = terminated] \in S!Statistics
    BY <1>1 DEF S!Statistics
  <1>3. [s EXCEPT !.rejectedSessions = rejected, !.totalSessions = total] \in S!Statistics
    BY <1>1 DEF S!Statistics
  <1>4. [s EXCEPT !.createdSessions = created, !.totalSessions = total,
                  !.activeSessions = n] \in S!Statistics
    BY <1>1 DEF S!Statistics
  <1> QED
    BY <1>2, <1>3, <1>4 DEF terminated, rejected, created, total

\* The types at the next state, from what a call leaves.
LEMMA TypedNext ==
    ASSUME now' \in Nat, m_sessions' \in [Imsi -> Int],
           \A i \in Imsi : m_sessions'[i] \in (0..now') \union {S!Absent},
           m_blacklist' \in SUBSET Imsi, m_draining' \in BOOLEAN, m_stats' \in S!Statistics,
           cdr' \in [Imsi -> Seq(Actions)]
    PROVE  S!SessionTypeOK'
  BY DEF S!SessionTypeOK, S!SESSION_CREATED, S!SESSION_DELETED, S!SESSION_REJECTED, Actions

\* One session begins or ends: the table keeps its type.
LEMMA TableTyped ==
    ASSUME S!SessionTypeOK, now' = now, NEW i \in Imsi, NEW t \in {now, S!Absent},
           m_sessions' = [m_sessions EXCEPT ![i] = t]
    PROVE  /\ m_sessions' \in [Imsi -> Int]
           /\ \A j \in Imsi : m_sessions'[j] \in (0..now') \union {S!Absent}
  <1>1. t \in Int /\ t \in (0..now) \union {S!Absent}
    BY DEF S!SessionTypeOK, S!Absent
  <1>2. m_sessions \in [Imsi -> Int]
    BY DEF S!SessionTypeOK
  <1>3. ASSUME NEW j \in Imsi
        PROVE  m_sessions'[j] \in (0..now') \union {S!Absent}
    <2>1. m_sessions'[j] = IF j = i THEN t ELSE m_sessions[j]
      BY <1>2
    <2> QED
      BY <1>1, <2>1 DEF S!SessionTypeOK
  <1> QED
    BY <1>1, <1>2, <1>3

\* A record of i alone is appended.
LEMMA CdrAppended ==
    ASSUME cdr \in [Imsi -> Seq(Actions)], NEW i \in Imsi, NEW a \in Actions, S!writeAction({i}, a)
    PROVE  cdr' \in [Imsi -> Seq(Actions)] /\ cdr'[i] = Append(cdr[i], a)
  BY DEF S!writeAction

\* Recorded follows the CDR of the session manager.
LEMMA RecordedNone ==
    ASSUME NEW i, cdr' = cdr, Recorded(i)
    PROVE  UNCHANGED fileVars
  BY DEF Recorded

LEMMA RecordedOne ==
    ASSUME cdr \in [Imsi -> Seq(Actions)], NEW i \in Imsi, NEW a \in Actions,
           cdr'[i] = Append(cdr[i], a), Recorded(i)
    PROVE  Wrote(i, a)
  <1>1. /\ cdr[i] \in Seq(Actions) /\ Len(cdr'[i]) = Len(cdr[i]) + 1 /\ Len(cdr[i]) \in Nat
        /\ cdr'[i][Len(cdr[i]) + 1] = a
    BY AppendProperties, LenProperties
  <1>2. Len(cdr'[i]) # Len(cdr[i]) /\ cdr'[i][Len(cdr'[i])] = a
    BY <1>1
  <1> QED
    BY <1>2 DEF Recorded, Wrote

\* What createSession comes to, with its CDR record.
LEMMA CreateComesTo ==
    ASSUME S!SessionTypeOK, NEW i \in Imsi, S!createSession(i), Recorded(i), now' = now
    PROVE  /\ S!SessionTypeOK'
           /\ \/ m_sessions' = m_sessions /\ UNCHANGED fileVars /\ S!CreateResult(i) # "CREATED"
              \/ Bills(i, "REJECTED") /\ S!CreateResult(i) # "CREATED"
              \/ Bills(i, "CREATED")
  <1>1. /\ cdr \in [Imsi -> Seq(Actions)] /\ m_stats \in S!Statistics /\ now \in Nat
        /\ m_sessions \in [Imsi -> Int]
    BY DEF S!SessionTypeOK, S!SESSION_CREATED, S!SESSION_DELETED, S!SESSION_REJECTED, Actions
  <1>2. CASE S!Refuse(i)
    <2>1. UNCHANGED <<m_sessions, m_blacklist, m_draining, m_stats, cdr>> /\ S!CreateResult(i) # "CREATED"
      BY <1>2 DEF S!Refuse, S!sessionVars
    <2>2. S!SessionTypeOK'
      BY <2>1 DEF S!SessionTypeOK
    <2> QED
      BY <2>1, <2>2, RecordedNone
  <1>3. CASE S!Reject(i)
    <2>1. /\ m_stats' \in S!Statistics /\ UNCHANGED <<m_sessions, m_blacklist, m_draining>>
          /\ S!writeAction({i}, "REJECTED") /\ S!CreateResult(i) # "CREATED"
      BY <1>1, <1>3, StatisticsTyped DEF S!Reject, S!SESSION_REJECTED
    <2>2. cdr' \in [Imsi -> Seq(Actions)] /\ cdr'[i] = Append(cdr[i], "REJECTED")
      BY <1>1, <2>1, CdrAppended DEF Actions
    <2>3. S!SessionTypeOK'
      BY <2>1, <2>2 DEF S!SessionTypeOK, S!SESSION_CREATED, S!SESSION_DELETED, S!SESSION_REJECTED, Actions
    <2>4. Wrote(i, "REJECTED")
      BY <1>1, <2>2, RecordedOne DEF Actions
    <2> QED
      BY <2>1, <2>3, <2>4 DEF Bills
  <1>4. CASE S!Create(i)
    <2>1. /\ UNCHANGED <<m_blacklist, m_draining>>
          /\ m_sessions' = [m_sessions EXCEPT ![i] = now] /\ S!writeAction({i}, "CREATED")
      BY <1>4 DEF S!Create, S!SESSION_CREATED
    <2>6. m_stats' \in S!Statistics
      <3> DEFINE n == S!Cardinality(S!Active')
      <3>1. n \in Nat
        BY ActiveCountedNext
      <3>2. m_stats' = [m_stats EXCEPT !.createdSessions = @ + 1, !.totalSessions = @ + 1,
                                       !.activeSessions = n]
        BY <1>4 DEF S!Create
      <3> HIDE DEF n
      <3> QED
        BY <1>1, <3>1, <3>2, StatisticsTyped
    <2>2. cdr' \in [Imsi -> Seq(Actions)] /\ cdr'[i] = Append(cdr[i], "CREATED")
      BY <1>1, <2>1, CdrAppended DEF Actions
    <2>7. /\ m_sessions' \in [Imsi -> Int]
          /\ \A j \in Imsi : m_sessions'[j] \in (0..now') \union {S!Absent}
      BY <2>1, TableTyped
    <2>3. S!SessionTypeOK'
      BY <1>1, <2>1, <2>2, <2>6, <2>7, TypedNext DEF S!SessionTypeOK
    <2>4. Wrote(i, "CREATED")
      BY <1>1, <2>2, RecordedOne DEF Actions
    <2>5. m_sessions[i] = S!Absent /\ now # S!Absent
      BY <1>1, <1>4 DEF S!Create, S!CreateResult, S!hasSession, S!Absent
    <2> QED
      BY <2>1, <2>3, <2>4, <2>5 DEF Bills
  <1> QED
    BY <1>2, <1>3, <1>4 DEF S!createSession

\* What terminateSession comes to.
LEMMA TerminateComesTo ==
    ASSUME S!SessionTypeOK, NEW i \in Imsi, S!terminateSession(i), Recorded(i), now' = now
    PROVE  /\ S!SessionTypeOK'
           /\ (m_sessions' = m_sessions /\ UNCHANGED fileVars) \/ Bills(i, "DELETED")
  <1>1. /\ cdr \in [Imsi -> Seq(Actions)] /\ m_stats \in S!Statistics /\ now \in Nat
        /\ m_sessions \in [Imsi -> Int]
    BY DEF S!SessionTypeOK, S!SESSION_CREATED, S!SESSION_DELETED, S!SESSION_REJECTED, Actions
  <1>2. CASE UNCHANGED S!sessionVars
    <2>1. UNCHANGED <<m_sessions, m_blacklist, m_draining, m_stats, cdr>>
      BY <1>2 DEF S!sessionVars
    <2>2. S!SessionTypeOK'
      BY <2>1 DEF S!SessionTypeOK
    <2> QED
      BY <2>1, <2>2, RecordedNone
  <1>3. CASE S!hasSession(i) /\ ~(UNCHANGED S!sessionVars)
    <2>1. UNCHANGED <<m_blacklist, m_draining>> /\ S!deleteSessions({i})
      BY <1>3 DEF S!terminateSession
    <2>6. m_stats' \in S!Statistics
      <3> DEFINE n == S!Cardinality(S!Active')
      <3>1. n \in Nat
        BY ActiveCountedNext
      <3>2. m_stats' = [m_stats EXCEPT !.activeSessions = n, !.terminateSessions = @ + 1]
        BY <1>3 DEF S!terminateSession
      <3> HIDE DEF n
      <3> QED
        BY <1>1, <3>1, <3>2, StatisticsTyped
    <2>2. m_sessions' = [m_sessions EXCEPT ![i] = S!Absent] /\ S!writeAction({i}, "DELETED")
      BY <1>1, <2>1 DEF S!deleteSessions, S!SESSION_DELETED
    <2>3. cdr' \in [Imsi -> Seq(Actions)] /\ cdr'[i] = Append(cdr[i], "DELETED")
      BY <1>1, <2>2, CdrAppended DEF Actions
    <2>7. /\ m_sessions' \in [Imsi -> Int]
          /\ \A j \in Imsi : m_sessions'[j] \in (0..now') \union {S!Absent}
      BY <2>2, TableTyped
    <2>4. S!SessionTypeOK'
      BY <1>1, <2>1, <2>3, <2>6, <2>7, TypedNext DEF S!SessionTypeOK
    <2>5. Wrote(i, "DELETED")
      BY <1>1, <2>3, RecordedOne DEF Actions
    <2> QED
      BY <1>3, <2>2, <2>4, <2>5 DEF S!hasSession, Bills
  <1> QED
    BY <1>2, <1>3 DEF S!terminateSession

\* A session manager that is born again has its types.
LEMMA BornTyped ==
    ASSUME S!SessionTypeOK, NewSessions
    PROVE  /\ S!SessionTypeOK' /\ \A i \in Imsi : m_sessions'[i] = S!Absent
  <1>1. m_stats' \in S!Statistics
    BY DEF S!SessionTypeOK, S!Statistics, NewSessions
  <1>2. cdr' \in [Imsi -> Seq(Actions)]
    BY EmptySeq DEF NewSessions
  <1>3. m_sessions' \in [Imsi -> Int] /\ \A i \in Imsi : m_sessions'[i] = S!Absent
    BY DEF NewSessions, S!Absent
  <1>4. now' \in Nat /\ m_blacklist' \in SUBSET Imsi /\ m_draining' \in BOOLEAN
    BY AccessAssumption DEF NewSessions
  <1> QED
    BY <1>1, <1>2, <1>3, <1>4, TypedNext

----------------------------------------------------------------------------
(* A step of the system, and what it is to the file backend.               *)

ClientsTyped ==
    /\ client \in [Clients -> {"new", "waiting", "done"}]
    /\ m_imsi \in [Clients -> Imsi]
    /\ m_response \in [Clients -> {"created", "rejected", ""}]
    /\ requests \in [Clients -> 0..2]
    /\ answers \in [Clients -> SUBSET {"created", "rejected"}]

\* The backend is there while the loop runs.
Runs == pc \in {"down", "loop"} /\ (pc = "down" <=> m_writeFile = "none")

AccessInv == S!SessionTypeOK /\ ClientsTyped /\ Runs

\* What a step is to the session table and to the file backend.
Moves ==
    \/ m_sessions' = m_sessions /\ UNCHANGED fileVars
    \/ \E i \in Imsi, a \in Actions : Bills(i, a)
    \/ m_sessions' = m_sessions /\ (getRecentRecords \/ Destroy)
    \/ (Crash \/ Construct) /\ \A i \in Imsi : m_sessions'[i] = S!Absent

LEMMA WritingRuns ==
    ASSUME NEW i, NEW a, Wrote(i, a)
    PROVE  m_writeFile # "none" /\ m_writeFile' # "none"
  BY DEF Wrote, writeAction, PutLine

\* A call of the session manager keeps the backend.
LEMMA CallRuns ==
    ASSUME Runs, pc' = pc, NEW i,
           (m_sessions' = m_sessions /\ UNCHANGED fileVars) \/ \E a \in Actions : Bills(i, a)
    PROVE  Runs'
  BY WritingRuns DEF Runs, Bills, fileVars

LEMMA SessionsUnchanged ==
    ASSUME S!SessionTypeOK, UNCHANGED sessionVars
    PROVE  S!SessionTypeOK' /\ m_sessions' = m_sessions
  BY DEF S!SessionTypeOK, sessionVars

\* What becomes of a client concerns nobody else.
LEMMA ClientStep ==
    ASSUME AccessInv, NEW c \in Clients, Send(c) \/ Receive(c) \/ GiveUp(c)
    PROVE  AccessInv' /\ Moves
  <1>1. UNCHANGED <<fileVars, sessionVars, pc>>
    BY DEF Send, Receive, GiveUp
  <1>2. S!SessionTypeOK' /\ m_sessions' = m_sessions
    BY <1>1, SessionsUnchanged DEF AccessInv
  <1>3. Runs'
    BY <1>1 DEF AccessInv, Runs, fileVars
  <1>4. ClientsTyped'
    <2>1. CASE Send(c)
      <3>1. \A i \in Imsi : [m_imsi EXCEPT ![c] = i] \in [Clients -> Imsi]
        BY DEF AccessInv, ClientsTyped
      <3>2. ASSUME NEW n \in 0..MaxCopies(c)
            PROVE  [requests EXCEPT ![c] = n] \in [Clients -> 0..2]
        <4>1. n \in 0..2
          BY DEF MaxCopies
        <4> QED
          BY <4>1 DEF AccessInv, ClientsTyped
      <3>3. m_imsi' \in [Clients -> Imsi] /\ requests' \in [Clients -> 0..2]
        <4>1. CASE UNCHANGED <<m_imsi, requests>>
          BY <4>1 DEF AccessInv, ClientsTyped
        <4>2. ASSUME NEW i \in Imsi, NEW n \in 0..MaxCopies(c),
                     m_imsi' = [m_imsi EXCEPT ![c] = i], requests' = [requests EXCEPT ![c] = n]
              PROVE  m_imsi' \in [Clients -> Imsi] /\ requests' \in [Clients -> 0..2]
          BY <3>1, <3>2, <4>2, Zenon
        <4> QED
          BY <2>1, <4>1, <4>2, Zenon DEF Send
      <3>4. UNCHANGED <<m_response, answers>>
        BY <2>1 DEF Send
      <3>5. client' \in [Clients -> {"new", "waiting", "done"}]
        BY <2>1 DEF Send, AccessInv, ClientsTyped
      <3> QED
        BY <3>3, <3>4, <3>5 DEF AccessInv, ClientsTyped
    <2>2. CASE Receive(c)
      BY <2>2 DEF Receive, End, AccessInv, ClientsTyped
    <2>3. CASE GiveUp(c)
      BY <2>3 DEF GiveUp, End, AccessInv, ClientsTyped
    <2> QED
      BY <2>1, <2>2, <2>3
  <1> QED
    BY <1>1, <1>2, <1>3, <1>4 DEF AccessInv, Moves

\* A datagram that is read is a call of createSession, or not looked at further.
LEMMA UdpRequestStep ==
    ASSUME AccessInv, NEW c \in Clients, UdpRequest(c)
    PROVE  /\ AccessInv'
           /\ (m_sessions' = m_sessions /\ UNCHANGED fileVars)
              \/ \E a \in Actions : Bills(m_imsi[c], a)
           /\ Answer(c) = "created" => Bills(m_imsi[c], "CREATED")
  <1>1. m_imsi[c] \in Imsi /\ UNCHANGED <<pc, clientVars>>
    BY DEF AccessInv, ClientsTyped, UdpRequest
  <1>2. ClientsTyped'
    <2>1. requests' \in [Clients -> 0..2]
      <3>1. requests[c] \in 0..2 /\ requests[c] > 0 /\ requests' = [requests EXCEPT ![c] = @ - 1]
        BY DEF UdpRequest, AccessInv, ClientsTyped
      <3>2. requests[c] - 1 \in 0..2
        BY <3>1
      <3> QED
        BY <3>1, <3>2 DEF AccessInv, ClientsTyped
    <2>2. answers' \in [Clients -> SUBSET {"created", "rejected"}]
      <3>1. Answer(c) \in {"created", "rejected"}
        BY DEF Answer
      <3>2. answers' = answers \/ answers' = [answers EXCEPT ![c] = @ \union {Answer(c)}]
        BY DEF UdpRequest
      <3>3. answers[c] \union {Answer(c)} \in SUBSET {"created", "rejected"}
        BY <3>1 DEF AccessInv, ClientsTyped
      <3> QED
        BY <3>2, <3>3 DEF AccessInv, ClientsTyped
    <2> QED
      BY <1>1, <2>1, <2>2 DEF clientVars, AccessInv, ClientsTyped
  <1>3. CASE m_imsi[c] \in ValidImsi
    <2>1. S!createSession(m_imsi[c]) /\ Recorded(m_imsi[c]) /\ now' = now
      BY <1>3 DEF UdpRequest
    <2>2. /\ S!SessionTypeOK'
          /\ \/ m_sessions' = m_sessions /\ UNCHANGED fileVars /\ S!CreateResult(m_imsi[c]) # "CREATED"
             \/ Bills(m_imsi[c], "REJECTED") /\ S!CreateResult(m_imsi[c]) # "CREATED"
             \/ Bills(m_imsi[c], "CREATED")
      BY <1>1, <2>1, CreateComesTo DEF AccessInv
    <2>3. Answer(c) = "created" => S!CreateResult(m_imsi[c]) = "CREATED"
      BY DEF Answer
    <2>4. (m_sessions' = m_sessions /\ UNCHANGED fileVars) \/ \E a \in Actions : Bills(m_imsi[c], a)
      BY <2>2 DEF Actions
    <2>5. Runs'
      BY <1>1, <2>4, CallRuns DEF AccessInv
    <2> QED
      BY <1>2, <2>2, <2>3, <2>4, <2>5 DEF AccessInv
  <1>4. CASE m_imsi[c] \notin ValidImsi
    <2>1. UNCHANGED <<sessionVars, fileVars>>
      BY <1>4 DEF UdpRequest
    <2>2. S!SessionTypeOK' /\ m_sessions' = m_sessions
      BY <2>1, SessionsUnchanged DEF AccessInv
    <2>3. Runs'
      BY <1>1, <2>1 DEF AccessInv, Runs, fileVars
    <2> QED
      BY <1>2, <1>4, <2>1, <2>2, <2>3 DEF AccessInv, Answer
  <1> QED
    BY <1>3, <1>4

\* The other turns of the loop.
LEMMA LoopStep ==
    ASSUME AccessInv, (\E i \in Imsi : EndSession(i)) \/ GetCdr \/ StartDraining
    PROVE  AccessInv' /\ Moves
  <1>1. UNCHANGED <<pc, clientVars, netVars>> /\ m_writeFile # "none"
    BY DEF EndSession, GetCdr, StartDraining, AccessInv, Runs
  <1>2. ClientsTyped'
    BY <1>1 DEF AccessInv, ClientsTyped, clientVars, netVars
  <1>3. ASSUME NEW i \in Imsi, EndSession(i)
        PROVE  AccessInv' /\ Moves
    <2>1. S!terminateSession(i) /\ Recorded(i) /\ now' = now
      BY <1>3 DEF EndSession
    <2>2. S!SessionTypeOK' /\ ((m_sessions' = m_sessions /\ UNCHANGED fileVars) \/ Bills(i, "DELETED"))
      BY <2>1, TerminateComesTo DEF AccessInv
    <2>3. (m_sessions' = m_sessions /\ UNCHANGED fileVars) \/ \E a \in Actions : Bills(i, a)
      BY <2>2 DEF Actions
    <2>4. Runs'
      BY <1>1, <2>3, CallRuns DEF AccessInv
    <2> QED
      BY <1>2, <2>2, <2>3, <2>4 DEF AccessInv, Moves
  <1>4. CASE GetCdr
    <2>1. getRecentRecords /\ S!SessionTypeOK' /\ m_sessions' = m_sessions
      BY <1>4, SessionsUnchanged DEF GetCdr, AccessInv
    <2>2. m_writeFile' # "none"
      BY <1>1, <2>1 DEF getRecentRecords, Flush
    <2> QED
      BY <1>1, <1>2, <2>1, <2>2 DEF AccessInv, Runs, Moves
  <1>5. CASE StartDraining
    <2>1. m_sessions' = m_sessions /\ UNCHANGED fileVars
      BY <1>5 DEF StartDraining, S!startDraining
    <2>2. S!SessionTypeOK'
      BY <1>5 DEF StartDraining, S!startDraining, AccessInv, S!SessionTypeOK
    <2> QED
      BY <1>1, <1>2, <2>1, <2>2 DEF AccessInv, Runs, Moves, fileVars
  <1> QED
    BY <1>3, <1>4, <1>5

\* The process begins and ends.
LEMMA ProcessStep ==
    ASSUME AccessInv, Exit \/ Dies \/ Boot
    PROVE  AccessInv' /\ Moves
  <1>1. UNCHANGED <<clientVars, netVars>>
    BY DEF Exit, Dies, Boot
  <1>2. ClientsTyped'
    BY <1>1 DEF AccessInv, ClientsTyped, clientVars, netVars
  <1>3. CASE Exit
    <2>1. Destroy /\ S!SessionTypeOK' /\ m_sessions' = m_sessions
      BY <1>3, SessionsUnchanged DEF Exit, AccessInv
    <2>2. Runs'
      BY <1>3 DEF Exit, Destroy, Gone, Runs
    <2> QED
      BY <1>2, <2>1, <2>2 DEF AccessInv, Moves
  <1>4. CASE Dies \/ Boot
    <2>1. S!SessionTypeOK' /\ (\A i \in Imsi : m_sessions'[i] = S!Absent)
      BY <1>4, BornTyped DEF Dies, Boot, AccessInv
    <2>2. (Crash \/ Construct) /\ Runs'
      BY <1>4 DEF Dies, Boot, Crash, Construct, Gone, Runs
    <2> QED
      BY <1>2, <2>1, <2>2 DEF AccessInv, Moves
  <1> QED
    BY <1>3, <1>4

LEMMA AccessStep ==
    ASSUME AccessInv, [Next]_vars
    PROVE  AccessInv' /\ Moves
  <1>1. CASE UNCHANGED vars
    <2>1. UNCHANGED <<fileVars, sessionVars, pc, clientVars, netVars>>
      BY <1>1 DEF vars
    <2>2. S!SessionTypeOK' /\ m_sessions' = m_sessions
      BY <2>1, SessionsUnchanged DEF AccessInv
    <2> QED
      BY <2>1, <2>2
         DEF AccessInv, ClientsTyped, Runs, Moves, fileVars, clientVars, netVars
  <1>2. ASSUME NEW c \in Clients, UdpRequest(c)
        PROVE  AccessInv' /\ Moves
    <2>1. m_imsi[c] \in Imsi
      BY DEF AccessInv, ClientsTyped
    <2> QED
      BY <1>2, <2>1, UdpRequestStep DEF Moves
  <1> QED
    BY <1>1, <1>2, ClientStep, LoopStep, ProcessStep DEF Next

LEMMA AccessStarts == Init => AccessInv /\ FileInit
  <1> SUFFICES ASSUME Init PROVE AccessInv
    BY DEF Init
  <1>1. S!SessionTypeOK
    <2>1. m_sessions \in [Imsi -> Int] /\ \A i \in Imsi : m_sessions[i] = S!Absent
      <3>1. m_sessions = [i \in Imsi |-> S!Absent]
        BY DEF Init, S!SessionInit
      <3>2. S!Absent \in Int
        BY DEF S!Absent
      <3> QED
        BY <3>1, <3>2
    <2>2. m_stats \in S!Statistics
      BY DEF Init, S!SessionInit, S!Statistics
    <2>3. cdr \in [Imsi -> Seq(Actions)]
      BY EmptySeq DEF Init, S!SessionInit
    <2> QED
      BY <2>1, <2>2, <2>3, AccessAssumption
         DEF Init, S!SessionInit, S!SessionTypeOK, S!SESSION_CREATED, S!SESSION_DELETED,
             S!SESSION_REJECTED, Actions
  <1>2. ClientsTyped
    <2>1. (CHOOSE i \in Imsi : TRUE) \in Imsi
      BY AccessAssumption
    <2>2. m_imsi \in [Clients -> Imsi]
      BY <2>1 DEF Init
    <2>3. requests \in [Clients -> 0..2] /\ answers \in [Clients -> SUBSET {"created", "rejected"}]
      <3>1. 0 \in 0..2 /\ {} \in SUBSET {"created", "rejected"}
        OBVIOUS
      <3>2. requests = [c \in Clients |-> 0] /\ answers = [c \in Clients |-> {}]
        BY DEF Init
      <3> QED
        BY <3>1, <3>2
    <2>4. /\ client \in [Clients -> {"new", "waiting", "done"}]
          /\ m_response \in [Clients -> {"created", "rejected", ""}]
      BY DEF Init
    <2> QED
      BY <2>2, <2>3, <2>4 DEF ClientsTyped
  <1>3. Runs
    BY DEF Init, FileInit, Runs
  <1> QED
    BY <1>1, <1>2, <1>3 DEF AccessInv

LEMMA AccessInvariant == Spec => []AccessInv
  <1>1. AccessInv /\ [Next]_vars => AccessInv'
    BY AccessStep
  <1> QED
    BY <1>1, AccessStarts, PTL DEF Spec

\* A move is a step of the file backend, or none.
LEMMA MovesAreFileSteps ==
    ASSUME Moves
    PROVE  [FileNext]_fileVars
  <1>1. ASSUME NEW i \in Imsi, NEW a \in Actions, Bills(i, a)
        PROVE  FileNext
    <2>1. [imsi |-> i, action |-> a] \in Record
      BY DEF Record, Actions
    <2> QED
      BY <1>1, <2>1 DEF Bills, Wrote, FileNext
  <1> QED
    BY <1>1 DEF Moves, FileNext

\* What the server does to the file backend is what the class allows.
LEMMA AccessImplementsFile == Spec => FileSpec
  <1>1. AccessInv /\ [Next]_vars => [FileNext]_fileVars
    BY AccessStep, MovesAreFileSteps
  <1> QED
    BY <1>1, AccessInvariant, AccessStarts, PTL DEF Spec, FileSpec

\* Every variable of the server, its clients and the network between them has its type,
\* and the file backend exists exactly while the event loop runs.
THEOREM AccessTypeCorrect == Spec => []AccessTypeOK
  <1>1. AccessInv /\ FileInv => AccessTypeOK
    BY DEF AccessInv, ClientsTyped, Runs, FileInv, AccessTypeOK
  <1> QED
    BY <1>1, AccessInvariant, AccessImplementsFile, FileInvInductive, PTL

\* In the whole server, with its sessions, its clients, restarts and crashes, GET_CDR
\* shows the last records, and each life's part of the file is a CDR ledger.
THEOREM AccessKeepsLedgers == Spec => []RecentRecordsRight /\ EachLifeIsALedger
  BY AccessImplementsFile, GetCdrShowsTheLastRecords, LivesAreLedgers, PTL

----------------------------------------------------------------------------
(* Counting what the records say.                                          *)

LEMMA NamingCounted ==
    ASSUME NEW s, NEW i, NEW a, NEW n \in Nat
    PROVE  IsFiniteSet(Naming(s, i, a, n)) /\ Cardinality(Naming(s, i, a, n)) \in Nat
  <1>1. Naming(s, i, a, n) \in SUBSET (1..n) /\ IsFiniteSet(1..n)
    BY FS_Interval DEF Naming
  <1>2. IsFiniteSet(Naming(s, i, a, n))
    BY <1>1, FS_Subset, Zenon
  <1> QED
    BY <1>2, FS_CardinalityType

\* Sequences that begin alike say the same.
LEMMA OpenAlike ==
    ASSUME NEW s, NEW t, NEW i, NEW n \in Nat, \A k \in 1..n : s[k] = t[k]
    PROVE  OpenAfter(s, i, n) = OpenAfter(t, i, n)
  <1>1. \A a : Naming(s, i, a, n) = Naming(t, i, a, n)
    BY DEF Naming
  <1> QED
    BY <1>1 DEF OpenAfter

LEMMA OpenAtFirst ==
    ASSUME NEW s, NEW i
    PROVE  OpenAfter(s, i, 0) = 0
  <1>1. \A a : Naming(s, i, a, 0) = {}
    BY DEF Naming
  <1> QED
    BY <1>1, FS_EmptySet DEF OpenAfter

\* The next record counts when it names the subscriber and the action.
LEMMA NamingNext ==
    ASSUME NEW s, NEW i, NEW a, NEW n \in Nat
    PROVE  Cardinality(Naming(s, i, a, n + 1)) =
               Cardinality(Naming(s, i, a, n)) +
                   (IF s[n + 1] = [imsi |-> i, action |-> a] THEN 1 ELSE 0)
  <1>1. IsFiniteSet(Naming(s, i, a, n)) /\ Cardinality(Naming(s, i, a, n)) \in Nat
    BY NamingCounted
  <1>2. n + 1 \notin Naming(s, i, a, n)
    BY DEF Naming
  <1>3. CASE s[n + 1] = [imsi |-> i, action |-> a]
    <2>1. Naming(s, i, a, n + 1) = Naming(s, i, a, n) \union {n + 1}
      BY <1>3 DEF Naming
    <2> QED
      BY <1>1, <1>2, <1>3, <2>1, FS_AddElement
  <1>4. CASE s[n + 1] # [imsi |-> i, action |-> a]
    <2>1. Naming(s, i, a, n + 1) = Naming(s, i, a, n)
      BY <1>4 DEF Naming
    <2> QED
      BY <1>1, <1>4, <2>1
  <1> QED
    BY <1>3, <1>4

\* What one more record of subscriber j opens and closes.
LEMMA OpenNext ==
    ASSUME NEW s, NEW i, NEW n \in Nat, NEW j, NEW a, s[n + 1] = [imsi |-> j, action |-> a]
    PROVE  /\ OpenAfter(s, i, n) \in Int
           /\ j # i \/ a \notin {"CREATED", "DELETED"} => OpenAfter(s, i, n + 1) = OpenAfter(s, i, n)
           /\ j = i /\ a = "CREATED" => OpenAfter(s, i, n + 1) = OpenAfter(s, i, n) + 1
           /\ j = i /\ a = "DELETED" => OpenAfter(s, i, n + 1) = OpenAfter(s, i, n) - 1
  <1> DEFINE created == Cardinality(Naming(s, i, "CREATED", n))
             deleted == Cardinality(Naming(s, i, "DELETED", n))
  <1>1. created \in Nat /\ deleted \in Nat
    BY NamingCounted
  <1>2. /\ Cardinality(Naming(s, i, "CREATED", n + 1)) =
               created + (IF j = i /\ a = "CREATED" THEN 1 ELSE 0)
        /\ Cardinality(Naming(s, i, "DELETED", n + 1)) =
               deleted + (IF j = i /\ a = "DELETED" THEN 1 ELSE 0)
    <2>1. ASSUME NEW b
          PROVE  Cardinality(Naming(s, i, b, n + 1)) =
                     Cardinality(Naming(s, i, b, n)) + (IF j = i /\ a = b THEN 1 ELSE 0)
      <3>1. (s[n + 1] = [imsi |-> i, action |-> b]) <=> (j = i /\ a = b)
        OBVIOUS
      <3>2. Cardinality(Naming(s, i, b, n + 1)) =
                Cardinality(Naming(s, i, b, n)) +
                    (IF s[n + 1] = [imsi |-> i, action |-> b] THEN 1 ELSE 0)
        BY NamingNext
      <3> QED
        BY <3>1, <3>2
    <2> QED
      BY <2>1
  <1>3. OpenAfter(s, i, n) = created - deleted
    BY DEF OpenAfter
  <1>4. OpenAfter(s, i, n + 1) = (created + (IF j = i /\ a = "CREATED" THEN 1 ELSE 0))
                                 - (deleted + (IF j = i /\ a = "DELETED" THEN 1 ELSE 0))
    BY <1>2 DEF OpenAfter
  <1> HIDE DEF created, deleted
  <1> QED
    BY <1>1, <1>3, <1>4

----------------------------------------------------------------------------
(* Each life bills a session from its start to its end.                    *)

EndedIn(l) == \E k \in 1..Len(file) : file[k] = Piece(l, Ended)

Paired(l) == \A i \in Imsi : \A n \in 0..Len(written[l]) : OpenAfter(written[l], i, n) \in {0, 1}

\* While the process runs, and when it has left in order, the records of its life show open
\* the sessions there are.
TableBilled ==
    m_writeFile # "none" \/ EndedIn(life) =>
        \A i \in Imsi :
            m_sessions[i] # S!Absent <=> OpenAfter(written[life], i, Len(written[life])) = 1

BillInv == (\A l \in 1..MaxLives : Paired(l)) /\ TableBilled

\* A process that runs has not said that it ended.
LEMMA RunningNotEnded ==
    ASSUME FileInv, LedgerInv, m_writeFile # "none"
    PROVE  life \in 1..MaxLives /\ ~EndedIn(life)
  <1>1. life \in 1..MaxLives
    BY DEF FileInv, Counted
  <1>2. Len(file) \in Nat /\ \A p \in 1..Len(file) : p \in 1..Len(Stream) /\ Stream[p] = file[p]
    <2>1. Len(Stream) = Len(file) + Len(buffer) /\ buffer \in Seq(Pieces) /\ file \in Seq(Pieces)
      BY StreamIs
    <2>2. Len(buffer) \in Nat /\ Len(file) \in Nat
      BY <2>1, LenProperties
    <2>3. \A p \in 1..Len(file) : Stream[p] = file[p]
      BY <2>1 DEF Stream
    <2> QED
      BY <2>1, <2>2, <2>3
  <1>3. Complete(Stream, life)
    BY <1>1 DEF LedgerInv
  <1>4. life \in Nat
    BY <1>1
  <1> QED
    BY <1>1, <1>2, <1>3, <1>4 DEF Complete, EndedIn

\* A record of subscriber i: what the life that runs has been given says at each place.
LEMMA RecordedSays ==
    ASSUME FileInv, NEW i \in Imsi, NEW a \in Actions, Wrote(i, a)
    PROVE  /\ life \in 1..MaxLives /\ life' = life
           /\ \A l \in 1..MaxLives : l # life => written'[l] = written[l]
           /\ Len(written'[life]) = Len(written[life]) + 1 /\ Len(written[life]) \in Nat
           /\ \A k \in 1..Len(written[life]) : written'[life][k] = written[life][k]
           /\ written'[life][Len(written[life]) + 1] = [imsi |-> i, action |-> a]
  <1> DEFINE r == [imsi |-> i, action |-> a]
  <1>1. r \in Record
    BY DEF Record, Actions
  <1>2. life \in 1..MaxLives /\ life' = life /\ written' = [written EXCEPT ![life] = Append(@, r)]
    BY DEF Wrote, writeAction, FileInv, Counted
  <1>3. written \in [1..MaxLives -> Seq(Record)]
    BY DEF FileInv, FileTypeOK
  <1> HIDE DEF r
  <1>4. written[life] \in Seq(Record) /\ written'[life] = Append(written[life], r)
    BY <1>2, <1>3
  <1>5. /\ Len(written'[life]) = Len(written[life]) + 1 /\ Len(written[life]) \in Nat
        /\ \A k \in 1..Len(written[life]) : written'[life][k] = written[life][k]
        /\ written'[life][Len(written[life]) + 1] = r
    BY <1>1, <1>4, AppendProperties, LenProperties
  <1>6. \A l \in 1..MaxLives : l # life => written'[l] = written[l]
    BY <1>2, <1>3
  <1> QED
    BY <1>2, <1>5, <1>6 DEF r

\* A record opens a session that is not there, or closes one that is.
LEMMA BillsStep ==
    ASSUME S!SessionTypeOK, FileInv, LedgerInv, BillInv, NEW i \in Imsi, NEW a \in Actions, Bills(i, a)
    PROVE  BillInv'
  <1> DEFINE s == written[life]
             t == written'[life]
             m == Len(written[life])
  <1>1. /\ life \in 1..MaxLives /\ life' = life
        /\ \A l \in 1..MaxLives : l # life => written'[l] = written[l]
        /\ Len(t) = m + 1 /\ m \in Nat
        /\ \A k \in 1..m : t[k] = s[k]
        /\ t[m + 1] = [imsi |-> i, action |-> a]
    BY RecordedSays DEF Bills
  <1>2. m_writeFile # "none"
    BY WritingRuns DEF Bills
  <1>3. /\ \A j \in Imsi : \A n \in 0..m : OpenAfter(s, j, n) \in {0, 1}
        /\ \A j \in Imsi : m_sessions[j] # S!Absent <=> OpenAfter(s, j, m) = 1
    BY <1>1, <1>2 DEF BillInv, Paired, TableBilled
  <1> HIDE DEF s, t, m
  <1>4. ASSUME NEW j \in Imsi, NEW n \in 0..m
        PROVE  OpenAfter(t, j, n) = OpenAfter(s, j, n)
    BY <1>1, OpenAlike
  <1>5. ASSUME NEW j \in Imsi
        PROVE  /\ OpenAfter(t, j, m + 1) \in {0, 1}
               /\ m_sessions'[j] # S!Absent <=> OpenAfter(t, j, m + 1) = 1
    <2>1. /\ OpenAfter(t, j, m) = OpenAfter(s, j, m) /\ OpenAfter(s, j, m) \in {0, 1}
          /\ m_sessions[j] # S!Absent <=> OpenAfter(s, j, m) = 1
      BY <1>1, <1>3, <1>4
    <2>2. /\ i # j \/ a \notin {"CREATED", "DELETED"} => OpenAfter(t, j, m + 1) = OpenAfter(t, j, m)
          /\ i = j /\ a = "CREATED" => OpenAfter(t, j, m + 1) = OpenAfter(t, j, m) + 1
          /\ i = j /\ a = "DELETED" => OpenAfter(t, j, m + 1) = OpenAfter(t, j, m) - 1
      BY <1>1, OpenNext
    <2>3. m_sessions \in [Imsi -> Int]
      BY DEF S!SessionTypeOK
    <2>4. CASE i # j \/ a = "REJECTED"
      <3>1. m_sessions'[j] = m_sessions[j]
        BY <2>3, <2>4 DEF Bills
      <3> QED
        BY <2>1, <2>2, <2>4, <3>1
    <2>5. CASE i = j /\ a = "CREATED"
      <3>1. m_sessions[j] = S!Absent /\ m_sessions'[j] # S!Absent
        BY <2>3, <2>5 DEF Bills
      <3> QED
        BY <2>1, <2>2, <2>5, <3>1
    <2>6. CASE i = j /\ a = "DELETED"
      <3>1. m_sessions[j] # S!Absent /\ m_sessions'[j] = S!Absent
        BY <2>3, <2>6 DEF Bills
      <3> QED
        BY <2>1, <2>2, <2>6, <3>1
    <2> QED
      BY <2>4, <2>5, <2>6 DEF Actions
  <1>6. TableBilled'
    BY <1>1, <1>5 DEF TableBilled, t
  <1>7. ASSUME NEW l \in 1..MaxLives
        PROVE  Paired(l)'
    <2>1. CASE l = life
      <3>1. \A j \in Imsi : \A n \in 0..(m + 1) : OpenAfter(t, j, n) \in {0, 1}
        <4>1. ASSUME NEW n \in 0..(m + 1) PROVE n \in 0..m \/ n = m + 1
          BY <1>1
        <4> QED
          BY <1>3, <1>4, <1>5, <4>1
      <3> QED
        BY <1>1, <2>1, <3>1 DEF Paired, t
    <2>2. CASE l # life
      <3>1. Paired(l) /\ written'[l] = written[l]
        BY <1>1, <2>2 DEF BillInv
      <3> QED
        BY <3>1 DEF Paired
    <2> QED
      BY <2>1, <2>2
  <1> QED
    BY <1>6, <1>7 DEF BillInv

LEMMA PairedStays ==
    ASSUME \A l \in 1..MaxLives : Paired(l), written' = written
    PROVE  (\A l \in 1..MaxLives : Paired(l))'
  BY DEF Paired

\* The other moves: the life goes on, it ends, or another one begins.
LEMMA OtherMovesStep ==
    ASSUME FileInv, FileInv', LedgerInv, BillInv,
           \/ m_sessions' = m_sessions /\ UNCHANGED fileVars
           \/ m_sessions' = m_sessions /\ (getRecentRecords \/ Destroy)
           \/ (Crash \/ Construct) /\ \A i \in Imsi : m_sessions'[i] = S!Absent
    PROVE  BillInv'
  <1>1. written' = written
    BY DEF fileVars, getRecentRecords, Destroy, Crash, Construct, Gone
  <1>2. (\A l \in 1..MaxLives : Paired(l))'
    BY <1>1, PairedStays DEF BillInv
  <1>3. CASE UNCHANGED <<m_sessions, life>> /\ (m_writeFile # "none" \/ UNCHANGED fileVars)
    <2>1. TableBilled
      BY DEF BillInv
    <2>2. (m_writeFile # "none" \/ EndedIn(life))' => m_writeFile # "none" \/ EndedIn(life)
      BY <1>3 DEF EndedIn, fileVars
    <2> QED
      BY <1>1, <1>2, <1>3, <2>1, <2>2 DEF BillInv, TableBilled
  <1>4. CASE Crash
    <2>1. life \in 1..MaxLives /\ ~EndedIn(life) /\ m_writeFile' = "none" /\ life' = life
      BY <1>4, RunningNotEnded DEF Crash, Gone
    <2>2. ~EndedIn(life)'
      <3>1. file \in Seq(Pieces) /\ Len(file) \in Nat
        BY StreamIs
      <3>2. file' = file \/ file' = Append(file, Piece(life, Cut))
        BY <1>4 DEF Crash
      <3>3. Piece(life, Cut) # Piece(life, Ended)
        BY DEF Piece, Cut, Ended
      <3>4. CASE file' = file
        BY <2>1, <3>4 DEF EndedIn
      <3>5. CASE file' = Append(file, Piece(life, Cut))
        <4>1. Piece(life, Cut) \in Pieces
          BY <2>1 DEF Piece, Pieces, Cut
        <4>2. /\ Len(file') = Len(file) + 1 /\ file'[Len(file) + 1] = Piece(life, Cut)
              /\ \A k \in 1..Len(file) : file'[k] = file[k]
          BY <3>1, <3>5, <4>1, AppendProperties
        <4>3. \A k \in 1..Len(file') : k \in 1..Len(file) \/ k = Len(file) + 1
          BY <3>1, <4>2
        <4> QED
          BY <2>1, <3>3, <4>2, <4>3 DEF EndedIn
      <3> QED
        BY <3>2, <3>4, <3>5
    <2> QED
      BY <1>2, <2>1, <2>2 DEF BillInv, TableBilled
  <1>5. CASE Construct /\ \A i \in Imsi : m_sessions'[i] = S!Absent
    <2>1. life' = life + 1 /\ life' \in 1..MaxLives
      BY <1>5 DEF Construct, FileInv, FileTypeOK
    <2>2. written'[life'] = << >>
      BY <1>1, <1>5, <2>1 DEF FileInv, Counted, FileTypeOK
    <2>3. \A i \in Imsi : OpenAfter(written'[life'], i, Len(written'[life'])) = 0
      BY <2>2, OpenAtFirst
    <2> QED
      BY <1>2, <1>5, <2>3 DEF BillInv, TableBilled
  <1> QED
    BY <1>3, <1>4, <1>5 DEF getRecentRecords, Destroy, Gone, fileVars

LEMMA BillStep ==
    ASSUME AccessInv, FileInv, FileInv', LedgerInv, BillInv, [Next]_vars
    PROVE  BillInv'
  <1>1. Moves /\ S!SessionTypeOK
    BY AccessStep DEF AccessInv
  <1> QED
    BY <1>1, BillsStep, OtherMovesStep DEF Moves

LEMMA BillStarts == Init => BillInv
  <1> SUFFICES ASSUME Init PROVE BillInv
    OBVIOUS
  <1>1. \A l \in 1..MaxLives : written[l] = << >> /\ Len(written[l]) = 0
    BY DEF Init, FileInit
  <1>2. m_writeFile = "none" /\ Len(file) = 0
    BY DEF Init, FileInit
  <1>3. TableBilled
    BY <1>2 DEF TableBilled, EndedIn
  <1>4. ASSUME NEW l \in 1..MaxLives PROVE Paired(l)
    <2>1. \A n \in 0..Len(written[l]) : n = 0
      BY <1>1
    <2> QED
      BY <2>1, OpenAtFirst DEF Paired
  <1> QED
    BY <1>3, <1>4 DEF BillInv

LEMMA BillInvariant == Spec => [](AccessInv /\ FileInv /\ LedgerInv /\ BillInv)
  <1>1. Spec => [](FileInv /\ LedgerInv)
    BY AccessImplementsFile, LedgerInvariant, PTL
  <1>2. AccessInv /\ FileInv /\ FileInv' /\ LedgerInv /\ BillInv /\ [Next]_vars => BillInv'
    BY BillStep
  <1> QED
    BY <1>1, <1>2, AccessInvariant, BillStarts, PTL DEF Spec

\* What the file says of a life is the beginning of what the life was given.
LEMMA FileSays ==
    ASSUME FileInv, LedgerInv, NEW l \in 1..MaxLives
    PROVE  /\ Len(Says(l)) = Len(Stored(l)) /\ Len(Stored(l)) \in Nat
           /\ Len(Stored(l)) <= Len(written[l]) /\ Len(written[l]) \in Nat
           /\ \A i \in Imsi : \A n \in 0..Len(Says(l)) :
                 OpenAfter(Says(l), i, n) = OpenAfter(written[l], i, n)
  <1>1. /\ Stored(l) = [k \in 1..Len(Stored(l)) |-> k]
        /\ Len(Stored(l)) \in Nat /\ Len(Stored(l)) <= Len(written[l])
    BY StoredBounded DEF Numbered
  <1>2. PICK m \in Nat : m = Len(Stored(l)) /\ Stored(l) = [k \in 1..m |-> k]
    BY <1>1
  <1>3. Says(l) = [k \in 1..m |-> written[l][k]]
    BY <1>2 DEF Says
  <1>4. Len(Says(l)) = m /\ \A k \in 1..m : Says(l)[k] = written[l][k]
    BY <1>3
  <1>5. ASSUME NEW i \in Imsi, NEW n \in 0..m
        PROVE  OpenAfter(Says(l), i, n) = OpenAfter(written[l], i, n)
    <2>1. n \in Nat /\ \A k \in 1..n : Says(l)[k] = written[l][k]
      BY <1>4
    <2> QED
      BY <2>1, OpenAlike
  <1>6. Len(written[l]) \in Nat
    BY DEF FileInv, FileTypeOK
  <1> QED
    BY <1>1, <1>2, <1>4, <1>5, <1>6

\* "CDR ended" stands behind all of them.
LEMMA EndedSaysAll ==
    ASSUME FileInv, LedgerInv, NEW l \in 1..MaxLives, EndedIn(l)
    PROVE  Len(Says(l)) = Len(written[l])
  <1>1. PICK p \in 1..Len(file) : file[p] = Piece(l, Ended)
    BY DEF EndedIn
  <1>2. /\ file \in Seq(Pieces) /\ Len(file) \in Nat
        /\ Len(file) \in 0..Len(Stream) /\ \A q \in 1..Len(file) : Stream[q] = file[q]
    <2>1. Len(Stream) = Len(file) + Len(buffer) /\ buffer \in Seq(Pieces) /\ file \in Seq(Pieces)
      BY StreamIs
    <2>2. Len(buffer) \in Nat /\ Len(file) \in Nat
      BY <2>1, LenProperties
    <2>3. \A q \in 1..Len(file) : Stream[q] = file[q]
      BY <2>1 DEF Stream
    <2> QED
      BY <2>1, <2>2, <2>3
  <1>3. \A k \in 1..Len(written[l]) : \E q \in 1..(p - 1) : Stream[q] = Piece(l, k)
    <2>1. Complete(Stream, l) /\ p \in 1..Len(Stream) /\ Stream[p] = Piece(l, Ended)
      BY <1>1, <1>2 DEF LedgerInv
    <2> QED
      BY <2>1 DEF Complete
  <1>4. \A k \in 1..Len(written[l]) : k <= Len(Stored(l))
    <2> SUFFICES ASSUME NEW k \in 1..Len(written[l]) PROVE k <= Len(Stored(l))
      OBVIOUS
    <2>1. PICK q \in 1..(p - 1) : Stream[q] = Piece(l, k)
      BY <1>3
    <2>2. q \in 1..Len(file) /\ file[q] = Piece(l, k)
      BY <1>2, <2>1
    <2>3. q \in Lines(l) /\ file[q].line = k
      BY <1>2, <2>2 DEF Lines, Piece
    <2>4. file[q].line \in 1..Len(Stored(l)) /\ Len(Stored(l)) \in Nat
      BY <2>3, StoredBounded DEF Numbered
    <2> QED
      BY <2>3, <2>4
  <1>5. /\ Len(Says(l)) = Len(Stored(l)) /\ Len(Stored(l)) \in Nat
        /\ Len(Stored(l)) <= Len(written[l]) /\ Len(written[l]) \in Nat
    BY FileSays
  <1>6. PICK n, m : n = Len(written[l]) /\ m = Len(Stored(l))
    OBVIOUS
  <1>7. n \in Nat /\ m \in Nat /\ m <= n /\ \A k \in 1..n : k <= m
    BY <1>4, <1>5, <1>6
  <1>8. n <= m
    <2>1. n = 0 \/ n \in 1..n
      BY <1>7
    <2> QED
      BY <1>7, <2>1
  <1> QED
    BY <1>5, <1>6, <1>7, <1>8

\* In the CDR file, the records of a life bill each subscriber one session after another,
\* from CREATED to DELETED, whatever a full buffer, a full disk or a crash cut off.
THEOREM FileBillsSessions == Spec => []BilledPerLife
  <1>1. FileInv /\ LedgerInv /\ BillInv => BilledPerLife
    <2> SUFFICES ASSUME FileInv, LedgerInv, BillInv, NEW l \in 1..MaxLives, NEW i \in Imsi,
                        NEW n \in 0..Len(Says(l))
                 PROVE  OpenAfter(Says(l), i, n) \in {0, 1}
      BY DEF BilledPerLife
    <2>1. OpenAfter(Says(l), i, n) = OpenAfter(written[l], i, n) /\ n \in 0..Len(written[l])
      BY FileSays
    <2> QED
      BY <2>1 DEF BillInv, Paired
  <1> QED
    BY <1>1, BillInvariant, PTL

\* A file that says "CDR ended" has all records of that life, and shows open exactly the
\* sessions that were open when the loop was left.
THEOREM ExitTellsAll == Spec => []CleanExitComplete
  <1>1. FileInv /\ LedgerInv /\ BillInv => CleanExitComplete
    <2> SUFFICES ASSUME FileInv, LedgerInv, BillInv, NEW l \in 1..MaxLives, EndedIn(l)
                 PROVE  /\ Len(Says(l)) = Len(written[l])
                        /\ l = life => \A i \in Imsi :
                              S!hasSession(i) <=> OpenAfter(Says(l), i, Len(Says(l))) = 1
      <3>1. DOMAIN file = 1..Len(file)
        BY DEF FileInv, FileTypeOK
      <3> QED
        BY <3>1 DEF CleanExitComplete, EndedIn
    <2>1. Len(Says(l)) = Len(written[l])
      BY EndedSaysAll
    <2>2. ASSUME l = life, NEW i \in Imsi
          PROVE  S!hasSession(i) <=> OpenAfter(Says(l), i, Len(Says(l))) = 1
      <3>1. m_sessions[i] # S!Absent <=> OpenAfter(written[l], i, Len(written[l])) = 1
        BY <2>2 DEF BillInv, TableBilled
      <3>2. OpenAfter(Says(l), i, Len(Says(l))) = OpenAfter(written[l], i, Len(Says(l)))
        <4>1. Len(Says(l)) \in 0..Len(Says(l))
          BY FileSays
        <4> QED
          BY <4>1, FileSays
      <3> QED
        BY <2>1, <3>1, <3>2 DEF S!hasSession
    <2> QED
      BY <2>1, <2>2
  <1> QED
    BY <1>1, BillInvariant, PTL

----------------------------------------------------------------------------
(* Nobody is told of a session that is not billed.                         *)

\* The clients of subscriber i that have been told of a session, or will be if the answer
\* arrives.
Owed(i) ==
    {c \in Clients : m_imsi[c] = i /\ (m_response[c] = "created" \/ "created" \in answers[c])}

\* Nothing is answered before it is asked for.
NewUntold == \A c \in Clients : client[c] = "new" => m_response[c] = "" /\ answers[c] = {}

OwedInv == NewUntold /\ \A i \in Imsi : Cardinality(Owed(i)) <= Cardinality(Granted(i))

LEMMA OwedCounted ==
    ASSUME NEW i
    PROVE  IsFiniteSet(Owed(i)) /\ Cardinality(Owed(i)) \in Nat
  <1>1. Owed(i) \in SUBSET Clients
    BY DEF Owed
  <1>2. IsFiniteSet(Owed(i))
    BY <1>1, AccessAssumption, FS_Subset, Zenon
  <1> QED
    BY <1>2, FS_CardinalityType

LEMMA HandedCounted ==
    ASSUME FileInv
    PROVE  IsFiniteSet(Handed)
  <1> DEFINE Of(l) == {l} \X DOMAIN written[l]
             Parts == {Of(l) : l \in 1..MaxLives}
  <1>1. ASSUME NEW l \in 1..MaxLives PROVE IsFiniteSet(Of(l))
    <2>1. Len(written[l]) \in Nat /\ DOMAIN written[l] = 1..Len(written[l])
      BY DEF FileInv, FileTypeOK
    <2>2. IsFiniteSet(1..Len(written[l]))
      BY <2>1, FS_Interval
    <2>3. IsFiniteSet({l}) /\ IsFiniteSet(DOMAIN written[l])
      BY <2>1, <2>2, FS_Singleton
    <2> QED
      BY <2>3, FS_Product
  <1>2. IsFiniteSet(Parts)
    <2> DEFINE lives == 1..MaxLives
               f == [l \in lives |-> Of(l)]
    <2>1. f \in Surjection(lives, Parts)
      BY DEF Surjection
    <2>2. IsFiniteSet(lives)
      BY FileAssumption, FS_Interval
    <2> HIDE DEF lives, f, Parts
    <2> QED
      BY <2>1, <2>2, FS_Surjection
  <1>3. IsFiniteSet(UNION Parts)
    <2> HIDE DEF Of
    <2>1. \A T \in Parts : IsFiniteSet(T)
      BY <1>1
    <2> HIDE DEF Parts
    <2> QED
      BY <1>2, <2>1, FS_UNION
  <1> QED
    BY <1>3 DEF Handed

LEMMA AllGrantedCounted ==
    FileInv => \A i \in Imsi : IsFiniteSet(Granted(i)) /\ Cardinality(Granted(i)) \in Nat
  <1> SUFFICES ASSUME FileInv, NEW i \in Imsi
               PROVE  IsFiniteSet(Granted(i)) /\ Cardinality(Granted(i)) \in Nat
    OBVIOUS
  <1>1. Granted(i) \in SUBSET Handed
    BY DEF Granted
  <1>2. IsFiniteSet(Granted(i))
    BY <1>1, HandedCounted, FS_Subset, Zenon
  <1> QED
    BY <1>2, FS_CardinalityType

LEMMA AllGrantedCountedNext ==
    FileInv' => (\A i \in Imsi : IsFiniteSet(Granted(i)) /\ Cardinality(Granted(i)) \in Nat)'
  BY AllGrantedCounted, PTL

\* No step takes a CREATED record back, and a record that bills a session is one more.
LEMMA GrantedStep ==
    ASSUME FileInv, FileInv', Moves, NEW j \in Imsi
    PROVE  /\ Cardinality(Granted(j)) <= Cardinality(Granted(j)')
           /\ Bills(j, "CREATED") => Cardinality(Granted(j)) + 1 <= Cardinality(Granted(j)')
  <1>1. /\ IsFiniteSet(Granted(j)) /\ Cardinality(Granted(j)) \in Nat
        /\ IsFiniteSet(Granted(j)') /\ Cardinality(Granted(j)') \in Nat
    <2>1. (\A i \in Imsi : IsFiniteSet(Granted(i)) /\ Cardinality(Granted(i)) \in Nat)'
      BY AllGrantedCountedNext
    <2>2. IsFiniteSet(Granted(j)') /\ Cardinality(Granted(j)') \in Nat
      BY <2>1, Zenon
    <2> QED
      BY <2>2, AllGrantedCounted
  <1>2. \A l \in 1..MaxLives : /\ DOMAIN written[l] = 1..Len(written[l])
                               /\ DOMAIN written'[l] = 1..Len(written'[l])
    BY DEF FileInv, FileTypeOK
  <1> DEFINE Unchanged ==
                \A l \in 1..MaxLives : \A k \in DOMAIN written[l] :
                    k \in DOMAIN written'[l] /\ written'[l][k] = written[l][k]
  <1>3. ASSUME NEW i \in Imsi, NEW a \in Actions, Bills(i, a)
        PROVE  Unchanged
    <2>1. /\ \A l \in 1..MaxLives : l # life => written'[l] = written[l]
          /\ life \in 1..MaxLives
          /\ Len(written'[life]) = Len(written[life]) + 1 /\ Len(written[life]) \in Nat
          /\ \A k \in 1..Len(written[life]) : written'[life][k] = written[life][k]
      BY <1>3, RecordedSays DEF Bills
    <2>2. ASSUME NEW k \in DOMAIN written[life]
          PROVE  k \in DOMAIN written'[life] /\ written'[life][k] = written[life][k]
      BY <1>2, <2>1
    <2> QED
      BY <2>1, <2>2
  <1>4. Unchanged
    <2>1. CASE written' = written
      BY <2>1
    <2>2. CASE \E i \in Imsi, a \in Actions : Bills(i, a)
      BY <1>3, <2>2
    <2> QED
      BY <2>1, <2>2
         DEF Moves, fileVars, getRecentRecords, Destroy, Crash, Construct, Gone
  <1>5. Granted(j) \in SUBSET (Granted(j)')
    BY <1>4 DEF Granted, Handed
  <1>6. Cardinality(Granted(j)) <= Cardinality(Granted(j)')
    BY <1>1, <1>5, FS_Subset, Zenon
  <1>7. ASSUME Bills(j, "CREATED")
        PROVE  Cardinality(Granted(j)) + 1 <= Cardinality(Granted(j)')
    <2> DEFINE n == Len(written[life]) + 1
               r == <<life, n>>
    <2>1. /\ life \in 1..MaxLives /\ Len(written'[life]) = n /\ n \in 1..n
          /\ written'[life][n] = [imsi |-> j, action |-> "CREATED"] /\ n \notin DOMAIN written[life]
      <3>1. /\ life \in 1..MaxLives /\ Len(written'[life]) = n /\ Len(written[life]) \in Nat
            /\ written'[life][n] = [imsi |-> j, action |-> "CREATED"]
        BY <1>7, RecordedSays DEF Bills, Actions
      <3> QED
        BY <1>2, <3>1
    <2> HIDE DEF n
    <2>2. r \in Handed' /\ r \notin Handed
      BY <1>2, <2>1 DEF Handed
    <2>3. r \in Granted(j)'
      BY <2>1, <2>2 DEF Granted
    <2>4. r \notin Granted(j)
      BY <2>2 DEF Granted
    <2> HIDE DEF r
    <2>5. Granted(j) \union {r} \in SUBSET (Granted(j)')
      BY <1>5, <2>3
    <2>6. Cardinality(Granted(j) \union {r}) = Cardinality(Granted(j)) + 1
      BY <1>1, <2>4, FS_AddElement
    <2>7. Cardinality(Granted(j) \union {r}) <= Cardinality(Granted(j)')
      BY <1>1, <2>5, FS_Subset, Zenon
    <2> QED
      BY <2>6, <2>7
  <1> QED
    BY <1>6, <1>7

\* A step makes a client owed a session only by billing one.
OwesMore(j) ==
    \/ Owed(j)' \subseteq Owed(j)
    \/ Bills(j, "CREATED") /\ \E c \in Clients : Owed(j)' \subseteq Owed(j) \union {c}

\* Who neither sends nor is sent anything is owed what it was.
LEMMA OwedStays ==
    ASSUME UNCHANGED <<clientVars, netVars>>, NewUntold, NEW j \in Imsi
    PROVE  NewUntold' /\ OwesMore(j)
  BY DEF clientVars, netVars, NewUntold, OwesMore, Owed

LEMMA ClientOwed ==
    ASSUME AccessInv, NewUntold, NEW c \in Clients, Send(c) \/ Receive(c) \/ GiveUp(c), NEW j \in Imsi
    PROVE  NewUntold' /\ OwesMore(j)
  <1>1. /\ client \in [Clients -> {"new", "waiting", "done"}] /\ m_imsi \in [Clients -> Imsi]
        /\ m_response \in [Clients -> {"created", "rejected", ""}]
        /\ answers \in [Clients -> SUBSET {"created", "rejected"}]
    BY DEF AccessInv, ClientsTyped
  <1>2. \A d \in Clients \ {c} : /\ client'[d] = client[d] /\ m_imsi'[d] = m_imsi[d]
                                 /\ m_response'[d] = m_response[d] /\ answers'[d] = answers[d]
    BY <1>1 DEF Send, Receive, GiveUp, End
  <1>3. /\ client'[c] = "new" => client[c] = "new" /\ m_response'[c] = m_response[c] /\ answers'[c] = answers[c]
        /\ m_response'[c] = "created" \/ "created" \in answers'[c] =>
              m_imsi'[c] = m_imsi[c] /\ (m_response[c] = "created" \/ "created" \in answers[c])
    <2>1. CASE Send(c)
      <3>1. client[c] = "new" /\ m_response' = m_response /\ answers' = answers
            /\ client'[c] # "new"
        BY <1>1, <2>1 DEF Send
      <3> QED
        BY <3>1 DEF NewUntold
    <2>2. CASE Receive(c)
      <3>1. client'[c] # "new" /\ answers'[c] = {} /\ m_response'[c] \in answers[c] /\ m_imsi' = m_imsi
        BY <1>1, <2>2 DEF Receive, End
      <3> QED
        BY <3>1
    <2>3. CASE GiveUp(c)
      <3>1. client'[c] # "new" /\ answers'[c] = {} /\ m_response' = m_response /\ m_imsi' = m_imsi
        BY <1>1, <2>3 DEF GiveUp, End
      <3> QED
        BY <3>1
    <2> QED
      BY <2>1, <2>2, <2>3
  <1>4. NewUntold'
    BY <1>2, <1>3 DEF NewUntold
  <1>5. Owed(j)' \subseteq Owed(j)
    BY <1>2, <1>3 DEF Owed
  <1> QED
    BY <1>4, <1>5 DEF OwesMore

LEMMA RequestOwed ==
    ASSUME AccessInv, NewUntold, NEW c \in Clients, UdpRequest(c), NEW j \in Imsi
    PROVE  NewUntold' /\ OwesMore(j)
  <1>1. UNCHANGED <<client, m_imsi, m_response>>
    BY DEF UdpRequest, clientVars
  <1>2. answers \in [Clients -> SUBSET {"created", "rejected"}]
    BY DEF AccessInv, ClientsTyped
  <1>3. Answer(c) = "created" => Bills(m_imsi[c], "CREATED")
    BY UdpRequestStep
  <1>4. CASE answers' = answers
    BY <1>1, <1>4 DEF NewUntold, OwesMore, Owed
  <1>5. CASE client[c] = "waiting" /\ answers' = [answers EXCEPT ![c] = @ \union {Answer(c)}]
    <2>1. /\ answers'[c] = answers[c] \union {Answer(c)}
          /\ \A d \in Clients \ {c} : answers'[d] = answers[d]
      BY <1>2, <1>5
    <2>2. NewUntold'
      BY <1>1, <1>5, <2>1 DEF NewUntold
    <2>3. Owed(j)' \subseteq Owed(j) \union {c}
      BY <1>1, <2>1 DEF Owed
    <2>4. ~(Answer(c) = "created" /\ m_imsi[c] = j) => Owed(j)' \subseteq Owed(j)
      BY <1>1, <2>1 DEF Owed
    <2> QED
      BY <1>3, <2>2, <2>3, <2>4 DEF OwesMore
  <1> QED
    BY <1>4, <1>5 DEF UdpRequest

LEMMA OwedStep ==
    ASSUME AccessInv, FileInv, FileInv', OwedInv, [Next]_vars
    PROVE  OwedInv'
  <1>1. Moves
    BY AccessStep
  <1>2. ASSUME NEW j \in Imsi
        PROVE  NewUntold' /\ OwesMore(j)
    <2>1. CASE UNCHANGED <<clientVars, netVars>>
      BY <2>1, OwedStays DEF OwedInv
    <2>2. CASE \E c \in Clients : Send(c) \/ Receive(c) \/ GiveUp(c)
      BY <2>2, ClientOwed DEF OwedInv
    <2>3. CASE \E c \in Clients : UdpRequest(c)
      BY <2>3, RequestOwed DEF OwedInv
    <2> QED
      BY <2>1, <2>2, <2>3
         DEF Next, vars, EndSession, GetCdr, StartDraining, Exit, Dies, Boot
  <1>3. ASSUME NEW j \in Imsi
        PROVE  Cardinality(Owed(j)') <= Cardinality(Granted(j)')
    <2>1. /\ Cardinality(Granted(j)) <= Cardinality(Granted(j)')
          /\ Bills(j, "CREATED") => Cardinality(Granted(j)) + 1 <= Cardinality(Granted(j)')
      BY <1>1, GrantedStep
    <2>2. /\ Cardinality(Granted(j)) \in Nat /\ Cardinality(Owed(j)) \in Nat
          /\ Cardinality(Owed(j)) <= Cardinality(Granted(j))
          /\ IsFiniteSet(Owed(j))
      BY AllGrantedCounted, OwedCounted DEF OwedInv
    <2>3. Cardinality(Granted(j)') \in Nat
      <3>1. (\A i \in Imsi : IsFiniteSet(Granted(i)) /\ Cardinality(Granted(i)) \in Nat)'
        BY AllGrantedCountedNext
      <3> QED
        BY <3>1, Zenon
    <2>4. Owed(j)' \in SUBSET Clients
      BY DEF Owed
    <2>5. Cardinality(Owed(j)') \in Nat
      <3>1. IsFiniteSet(Owed(j)')
        BY <2>4, AccessAssumption, FS_Subset, Zenon
      <3> QED
        BY <3>1, FS_CardinalityType
    <2>6. CASE Owed(j)' \subseteq Owed(j)
      <3>1. Cardinality(Owed(j)') <= Cardinality(Owed(j))
        <4>1. Owed(j)' \in SUBSET Owed(j)
          BY <2>6
        <4> QED
          BY <2>2, <4>1, FS_Subset, Zenon
      <3> QED
        BY <2>1, <2>2, <2>3, <2>5, <3>1
    <2>7. ASSUME Bills(j, "CREATED"), NEW c \in Clients, Owed(j)' \subseteq Owed(j) \union {c}
          PROVE  Cardinality(Owed(j)') <= Cardinality(Granted(j)')
      <3>1. /\ IsFiniteSet(Owed(j) \union {c})
            /\ Cardinality(Owed(j) \union {c}) \in {Cardinality(Owed(j)), Cardinality(Owed(j)) + 1}
        BY <2>2, FS_AddElement
      <3>2. Cardinality(Owed(j)') <= Cardinality(Owed(j) \union {c})
        <4>1. Owed(j)' \in SUBSET (Owed(j) \union {c})
          BY <2>7
        <4> QED
          BY <3>1, <4>1, FS_Subset, Zenon
      <3> QED
        BY <2>1, <2>2, <2>3, <2>5, <2>7, <3>1, <3>2
    <2> QED
      BY <1>2, <2>6, <2>7 DEF OwesMore
  <1>4. NewUntold'
    BY <1>2, AccessAssumption
  <1> QED
    BY <1>3, <1>4 DEF OwedInv

LEMMA OwedStarts == Init => OwedInv
  <1> SUFFICES ASSUME Init PROVE OwedInv
    OBVIOUS
  <1>1. NewUntold
    BY DEF Init, NewUntold
  <1>2. ASSUME NEW j \in Imsi PROVE Cardinality(Owed(j)) <= Cardinality(Granted(j))
    <2>1. Owed(j) = {}
      BY DEF Init, Owed
    <2>2. Granted(j) = {}
      <3>1. \A l \in 1..MaxLives : written[l] = << >>
        BY DEF Init, FileInit
      <3>2. DOMAIN << >> = {}
        OBVIOUS
      <3>3. \A l \in 1..MaxLives : DOMAIN written[l] = {}
        BY <3>1, <3>2
      <3> QED
        BY <3>3 DEF Granted, Handed
    <2> QED
      BY <2>1, <2>2, FS_EmptySet
  <1> QED
    BY <1>1, <1>2 DEF OwedInv

\* In a life that is kept, every record stands in the file or in its buffer.
LEMMA KeptStands ==
    ASSUME FileInv, LedgerInv, NEW r \in Handed, Kept(r[1])
    PROVE  Stands(r)
  <1>1. PICK l \in 1..MaxLives, n \in Nat : n \in DOMAIN written[l] /\ r[1] = l /\ r[2] = n
    <2>1. PICK l \in 1..MaxLives : r \in {l} \X DOMAIN written[l]
      BY DEF Handed
    <2>2. DOMAIN written[l] = 1..Len(written[l]) /\ Len(written[l]) \in Nat
      BY DEF FileInv, FileTypeOK
    <2> QED
      BY <2>1, <2>2
  <1>2. n \in 1..Len(written[l])
    BY <1>1 DEF FileInv, FileTypeOK
  <1>3. /\ Stream \in Seq(Pieces) /\ file \in Seq(Pieces) /\ buffer \in Seq(Pieces)
        /\ Len(Stream) = Len(file) + Len(buffer) /\ DOMAIN Stream = 1..Len(Stream)
    BY StreamIs, LenProperties, ConcatProperties DEF Stream
  <1>4. ASSUME NEW q \in 1..Len(Stream), Stream[q] = Piece(l, n)
        PROVE  Stands(r)
    BY <1>1, <1>3, <1>4, Zenon DEF Stands, Stream
  <1>5. CASE EndedIn(l)
    <2>1. PICK p \in 1..Len(file) : file[p] = Piece(l, Ended)
      BY <1>5 DEF EndedIn
    <2>2. p \in 1..Len(Stream) /\ Stream[p] = Piece(l, Ended)
      <3>1. Len(file) \in Nat /\ Len(buffer) \in Nat
        BY <1>3, LenProperties
      <3> QED
        BY <1>3, <2>1, <3>1 DEF Stream
    <2>3. \E q \in 1..(p - 1) : Stream[q] = Piece(l, n)
      BY <1>2, <2>2 DEF LedgerInv, Complete
    <2>4. \A q \in 1..(p - 1) : q \in 1..Len(Stream)
      BY <1>3, <2>2
    <2> QED
      BY <1>4, <2>3, <2>4
  <1>6. CASE l = life /\ m_writeFile = "good"
    <2>1. n \in 1..Len(m_index)
      BY <1>2, <1>6 DEF FileInv, Counted
    <2> QED
      BY <1>4, <1>6, <2>1 DEF FileInv, GoodIndex
  <1>7. EndedIn(l) \/ (l = life /\ m_writeFile = "good")
    <2>1. DOMAIN file = 1..Len(file)
      BY <1>3, LenProperties
    <2> QED
      BY <1>1, <2>1 DEF Kept, EndedIn
  <1> QED
    BY <1>5, <1>6, <1>7

\* However often a datagram arrives, whatever answer is lost or late, and over restarts:
\* to each client that reads "created" belongs a CREATED record of its subscriber that
\* stands in the CDR file or its buffer, wherever a life's file was opened, did not run
\* full and was not left by a crash.
THEOREM NobodyToldOfNothing == Spec => []CreatedMeansBilled
  <1>1. AccessInv /\ FileInv /\ FileInv' /\ OwedInv /\ [Next]_vars => OwedInv'
    BY OwedStep
  <1>2. FileInv /\ LedgerInv /\ OwedInv => CreatedMeansBilled
    <2> SUFFICES ASSUME FileInv, LedgerInv, OwedInv, NEW i \in Imsi
                 PROVE  Cardinality(Told(i))
                            <= Cardinality({r \in Granted(i) : Kept(r[1]) => Stands(r)})
      BY DEF CreatedMeansBilled
    <2>1. IsFiniteSet(Owed(i)) /\ Cardinality(Owed(i)) \in Nat /\ Cardinality(Granted(i)) \in Nat
          /\ Cardinality(Owed(i)) <= Cardinality(Granted(i))
      BY OwedCounted, AllGrantedCounted DEF OwedInv
    <2>2. Told(i) \in SUBSET Owed(i)
      BY DEF Told, Owed
    <2>3. IsFiniteSet(Told(i)) /\ Cardinality(Told(i)) <= Cardinality(Owed(i))
      BY <2>1, <2>2, FS_Subset, Zenon
    <2>4. Cardinality(Told(i)) \in Nat
      BY <2>3, FS_CardinalityType
    <2>5. {r \in Granted(i) : Kept(r[1]) => Stands(r)} = Granted(i)
      BY KeptStands, Zenon DEF Granted
    <2>6. Cardinality(Told(i)) <= Cardinality(Granted(i))
      BY <2>1, <2>3, <2>4
    <2> QED
      BY <2>5, <2>6, Zenon
  <1> QED
    BY <1>1, <1>2, BillInvariant, OwedStarts, PTL DEF Spec
=============================================================================
