----------------------- MODULE SessionManager_proofs -----------------------
(***************************************************************************)
(* Proofs about SessionManager.  The lemmas about one method each serve    *)
(* the event loop (Server_proofs) too.                                     *)
(***************************************************************************)
EXTENDS SessionManager, FiniteSetTheorems, TLAPS

Action == {SESSION_CREATED, SESSION_DELETED, SESSION_REJECTED}

\* Types and accounts: together they are inductive.
Accounts == SessionTypeOK /\ StatisticsAddUp

\* The active sessions are a finite set of subscribers.
LEMMA ActiveFinite ==
    IsFiniteSet(Active) /\ Cardinality(Active) \in Nat /\ Active \subseteq Imsi
  <1>1. Active \subseteq Imsi
    BY DEF Active
  <1> QED
    BY <1>1, SessionAssumption, FS_Subset, FS_CardinalityType

\* A CDR record keeps the type of cdr.
LEMMA WriteActionType ==
    ASSUME SessionTypeOK, NEW S, NEW a \in Action, writeAction(S, a)
    PROVE  cdr' \in [Imsi -> Seq(Action)]
  BY DEF SessionTypeOK, writeAction, Action

\* What deleteSessions does to the session table.
LEMMA DeleteStep ==
    ASSUME SessionTypeOK, NEW S \in SUBSET Active, deleteSessions(S), now' = now
    PROVE  /\ m_sessions' \in [Imsi -> Int]
           /\ \A i \in Imsi : m_sessions'[i] \in (0..now') \union {Absent}
           /\ cdr' \in [Imsi -> Seq(Action)]
           /\ Active' = Active \ S
           /\ Cardinality(Active') = Cardinality(Active) - Cardinality(S)
           /\ Cardinality(Active') \in Nat
           /\ Cardinality(S) \in Nat
  <1>1. cdr' \in [Imsi -> Seq(Action)]
    BY WriteActionType DEF deleteSessions, Action
  <1>2. /\ m_sessions' \in [Imsi -> Int]
        /\ \A i \in Imsi : m_sessions'[i] \in (0..now') \union {Absent}
    BY DEF deleteSessions, SessionTypeOK, Absent
  <1>3. Active' = Active \ S
    BY DEF deleteSessions, SessionTypeOK, Active, Absent
  <1>4. IsFiniteSet(S) /\ Cardinality(S) \in Nat /\ Active \cap S = S
    BY ActiveFinite, FS_Subset, FS_CardinalityType
  <1>5. Cardinality(Active \ S) = Cardinality(Active) - Cardinality(S)
    BY <1>4, ActiveFinite, FS_Difference
  <1>6. Cardinality(Active \ S) \in Nat
    BY ActiveFinite, FS_Difference, FS_CardinalityType
  <1> QED
    BY <1>1, <1>2, <1>3, <1>4, <1>5, <1>6

\* The updates of the counters keep their type.
LEMMA StatisticsType ==
    ASSUME NEW s \in Statistics, NEW n \in Nat, NEW k \in Nat
    PROVE  /\ [s EXCEPT !.activeSessions = n, !.terminateSessions = @ + k] \in Statistics
           /\ [s EXCEPT !.activeSessions = n, !.expiredSessions = @ + k] \in Statistics
           /\ [s EXCEPT !.rejectedSessions = @ + 1, !.totalSessions = @ + 1] \in Statistics
           /\ [s EXCEPT !.createdSessions = @ + 1, !.totalSessions = @ + 1,
                         !.activeSessions = n] \in Statistics
  <1> DEFINE terminated == s.terminateSessions + k
             expired == s.expiredSessions + k
             rejected == s.rejectedSessions + 1
             created == s.createdSessions + 1
             total == s.totalSessions + 1
  <1>1. terminated \in Nat /\ expired \in Nat /\ rejected \in Nat /\ created \in Nat /\ total \in Nat
    BY DEF Statistics
  <1> HIDE DEF terminated, expired, rejected, created, total
  <1>2. [s EXCEPT !.activeSessions = n, !.terminateSessions = terminated] \in Statistics
    BY <1>1 DEF Statistics
  <1>3. [s EXCEPT !.activeSessions = n, !.expiredSessions = expired] \in Statistics
    BY <1>1 DEF Statistics
  <1>4. [s EXCEPT !.rejectedSessions = rejected, !.totalSessions = total] \in Statistics
    BY <1>1 DEF Statistics
  <1>5. [s EXCEPT !.createdSessions = created, !.totalSessions = total,
                  !.activeSessions = n] \in Statistics
    BY <1>1 DEF Statistics
  <1> QED
    BY <1>2, <1>3, <1>4, <1>5 DEF terminated, expired, rejected, created, total

\* Ending the sessions of S, counted as terminated.
LEMMA TerminateStep ==
    ASSUME Accounts, NEW S \in SUBSET Active, deleteSessions(S), now' = now,
           m_stats' = [m_stats EXCEPT !.activeSessions = Cardinality(Active'),
                                      !.terminateSessions = @ + Cardinality(S)],
           UNCHANGED m_blacklist, m_draining' \in BOOLEAN
    PROVE  Accounts'
  <1>1. SessionTypeOK'
    <2>1. /\ m_sessions' \in [Imsi -> Int]
          /\ \A i \in Imsi : m_sessions'[i] \in (0..now') \union {Absent}
          /\ cdr' \in [Imsi -> Seq(Action)]
          /\ Cardinality(Active') \in Nat /\ Cardinality(S) \in Nat
      BY DeleteStep DEF Accounts
    <2>2. m_stats' \in Statistics
      BY <2>1, StatisticsType DEF Accounts, SessionTypeOK
    <2> QED
      BY <2>1, <2>2 DEF Accounts, SessionTypeOK, Action
  <1>2. StatisticsAddUp'
    BY DeleteStep, ActiveFinite, SMTT(30) DEF Accounts, SessionTypeOK, Statistics, StatisticsAddUp
  <1> QED
    BY <1>1, <1>2 DEF Accounts

\* STOP_SESSION.
LEMMA TerminateOneStep ==
    ASSUME Accounts, NEW imsi \in Imsi, terminateSession(imsi), now' = now
    PROVE  Accounts'
  <1>1. CASE hasSession(imsi)
    <2>1. {imsi} \in SUBSET Active /\ Cardinality({imsi}) = 1
      BY <1>1, FS_Singleton DEF hasSession, Active
    <2>2. /\ deleteSessions({imsi}) /\ UNCHANGED <<m_blacklist, m_draining>>
          /\ m_stats' = [m_stats EXCEPT !.activeSessions = Cardinality(Active'),
                                        !.terminateSessions = @ + 1]
      BY <1>1 DEF terminateSession
    <2>3. m_draining' \in BOOLEAN
      BY <2>2 DEF Accounts, SessionTypeOK
    <2> QED
      BY <2>1, <2>2, <2>3, TerminateStep
  <1>2. CASE ~hasSession(imsi)
    BY <1>2 DEF terminateSession, sessionVars, Accounts, SessionTypeOK, StatisticsAddUp, Active
  <1> QED
    BY <1>1, <1>2

\* Draining and ending everything in one call.
LEMMA GracefulStep ==
    ASSUME Accounts, gracefulShutdown, now' = now
    PROVE  Accounts'
  <1>1. deleteSessions(Active) /\ m_draining' \in BOOLEAN /\ UNCHANGED m_blacklist
    BY DEF gracefulShutdown
  <1>2. Active' = Active \ Active
    BY <1>1, DeleteStep DEF Accounts
  <1>3. Cardinality(Active') = 0
    BY <1>2, FS_EmptySet
  <1>4. m_stats' = [m_stats EXCEPT !.activeSessions = Cardinality(Active'),
                                   !.terminateSessions = @ + Cardinality(Active)]
    BY <1>3 DEF gracefulShutdown
  <1>5. Active \in SUBSET Active
    OBVIOUS
  <1> QED
    BY <1>1, <1>4, <1>5, TerminateStep

\* The periodic cleanup.
LEMMA CleanStep ==
    ASSUME Accounts, cleanTimeoutSessions, now' = now
    PROVE  Accounts'
  <1>1. Expired \in SUBSET Active
    BY DEF Expired
  <1>2. deleteSessions(Expired) /\ UNCHANGED <<m_blacklist, m_draining>>
    BY DEF cleanTimeoutSessions
  <1>3. /\ Active' = Active \ Expired
        /\ Cardinality(Active') = Cardinality(Active) - Cardinality(Expired)
        /\ Cardinality(Active') \in Nat /\ Cardinality(Expired) \in Nat
    BY <1>1, <1>2, DeleteStep DEF Accounts
  <1>4. m_stats' = [m_stats EXCEPT !.activeSessions = Cardinality(Active'),
                                   !.expiredSessions = @ + Cardinality(Expired)]
    <2>1. CASE Expired = {}
      BY <1>3, <2>1 DEF cleanTimeoutSessions, Accounts, StatisticsAddUp, SessionTypeOK, Statistics
    <2>2. CASE Expired # {}
      BY <2>2 DEF cleanTimeoutSessions
    <2> QED
      BY <2>1, <2>2
  <1>5. SessionTypeOK'
    <2>1. /\ m_sessions' \in [Imsi -> Int]
          /\ \A i \in Imsi : m_sessions'[i] \in (0..now') \union {Absent}
          /\ cdr' \in [Imsi -> Seq(Action)]
      BY <1>1, <1>2, DeleteStep DEF Accounts
    <2>2. m_stats' \in Statistics
      BY <1>3, <1>4, StatisticsType DEF Accounts, SessionTypeOK
    <2> QED
      BY <1>2, <2>1, <2>2 DEF Accounts, SessionTypeOK, Action
  <1>6. StatisticsAddUp'
    BY <1>3, <1>4, ActiveFinite DEF Accounts, SessionTypeOK, Statistics, StatisticsAddUp
  <1> QED
    BY <1>5, <1>6 DEF Accounts

\* A request for a session, with each of its answers.
LEMMA CreateStep ==
    ASSUME Accounts, NEW imsi \in Imsi, createSession(imsi), now' = now
    PROVE  Accounts'
  <1>1. CASE Refuse(imsi)
    BY <1>1 DEF Refuse, sessionVars, Accounts, SessionTypeOK, StatisticsAddUp, Active
  <1>2. CASE Reject(imsi)
    <2>1. cdr' \in [Imsi -> Seq(Action)]
      BY <1>2, WriteActionType DEF Reject, Accounts, Action
    <2>2. Active' = Active
      BY <1>2 DEF Reject, Active
    <2>3. SessionTypeOK'
      <3>1. m_stats' \in Statistics
        BY <1>2, StatisticsType DEF Reject, Accounts, SessionTypeOK
      <3> QED
        BY <1>2, <2>1, <3>1 DEF Reject, Accounts, SessionTypeOK, Action
    <2>4. StatisticsAddUp'
      BY <1>2, <2>2, ActiveFinite DEF Reject, Accounts, SessionTypeOK, Statistics, StatisticsAddUp
    <2> QED
      BY <2>3, <2>4 DEF Accounts
  <1>3. CASE Create(imsi)
    <2>1. cdr' \in [Imsi -> Seq(Action)]
      BY <1>3, WriteActionType DEF Create, Accounts, Action
    <2>2. imsi \notin Active /\ Active' = Active \union {imsi}
      BY <1>3 DEF Create, CreateResult, hasSession, Active, Accounts, SessionTypeOK, Absent
    <2>3. Cardinality(Active') = Cardinality(Active) + 1
      BY <2>2, ActiveFinite, FS_AddElement
    <2>4. SessionTypeOK'
      <3>1. m_stats' \in Statistics
        <4>1. Cardinality(Active') \in Nat
          BY <2>3, ActiveFinite
        <4> QED
          BY <1>3, <4>1, StatisticsType DEF Create, Accounts, SessionTypeOK
      <3>2. /\ m_sessions' \in [Imsi -> Int]
            /\ \A i \in Imsi : m_sessions'[i] \in (0..now') \union {Absent}
        <4>1. now \in Nat /\ m_sessions' = [m_sessions EXCEPT ![imsi] = now]
          BY <1>3 DEF Create, Accounts, SessionTypeOK
        <4>2. /\ m_sessions \in [Imsi -> Int]
              /\ \A i \in Imsi : m_sessions[i] \in (0..now) \union {Absent}
          BY DEF Accounts, SessionTypeOK
        <4> QED
          BY <4>1, <4>2
      <3> QED
        BY <1>3, <2>1, <3>1, <3>2 DEF Create, Accounts, SessionTypeOK, Action
    <2>5. StatisticsAddUp'
      <3>1. /\ m_stats'.activeSessions = Cardinality(Active')
            /\ m_stats'.createdSessions = m_stats.createdSessions + 1
            /\ m_stats'.totalSessions = m_stats.totalSessions + 1
            /\ m_stats'.expiredSessions = m_stats.expiredSessions
            /\ m_stats'.terminateSessions = m_stats.terminateSessions
            /\ m_stats'.rejectedSessions = m_stats.rejectedSessions
        BY <1>3 DEF Create, Accounts, SessionTypeOK, Statistics
      <3>2. /\ m_stats.expiredSessions \in Nat /\ m_stats.terminateSessions \in Nat
            /\ m_stats.createdSessions \in Nat /\ m_stats.rejectedSessions \in Nat
        BY DEF Accounts, SessionTypeOK, Statistics
      <3>3. /\ m_stats.createdSessions =
                   Cardinality(Active) + m_stats.expiredSessions + m_stats.terminateSessions
            /\ m_stats.totalSessions = m_stats.createdSessions + m_stats.rejectedSessions
        BY DEF Accounts, StatisticsAddUp
      <3> QED
        BY <2>3, <3>1, <3>2, <3>3, ActiveFinite DEF StatisticsAddUp
    <2> QED
      BY <2>4, <2>5 DEF Accounts
  <1> QED
    BY <1>1, <1>2, <1>3 DEF createSession

\* The constructor's state.
LEMMA InitAccounts == SessionInit => Accounts
  <1> SUFFICES ASSUME SessionInit PROVE Accounts
    OBVIOUS
  <1>1. Active = {} /\ Cardinality(Active) = 0
    BY FS_EmptySet DEF SessionInit, Active
  <1>2. SessionTypeOK
    <2>1. m_stats \in Statistics
      BY DEF SessionInit, Statistics
    <2>2. /\ m_sessions \in [Imsi -> Int] /\ now = 0
          /\ \A i \in Imsi : m_sessions[i] \in (0..now) \union {Absent}
      BY DEF SessionInit, Absent
    <2>3. cdr \in [Imsi -> Seq({SESSION_CREATED, SESSION_DELETED, SESSION_REJECTED})]
      BY DEF SessionInit
    <2>4. m_draining \in BOOLEAN /\ m_blacklist \subseteq Imsi /\ now \in Nat
      BY SessionAssumption DEF SessionInit
    <2> QED
      BY <2>1, <2>2, <2>3, <2>4 DEF SessionTypeOK
  <1>3. StatisticsAddUp
    BY <1>1 DEF SessionInit, StatisticsAddUp
  <1> QED
    BY <1>2, <1>3 DEF Accounts

\* The calls that touch neither sessions nor counters, and the clock.
LEMMA QuietStep ==
    ASSUME Accounts, UNCHANGED <<m_sessions, m_stats, cdr>>, now' \in Nat, now' >= now,
           m_blacklist' \subseteq Imsi, m_draining' \in BOOLEAN
    PROVE  Accounts'
  <1>1. SessionTypeOK'
    BY DEF Accounts, SessionTypeOK, Absent
  <1>2. StatisticsAddUp'
    BY DEF Accounts, StatisticsAddUp, Active
  <1> QED
    BY <1>1, <1>2 DEF Accounts

\* Every step of the class keeps types and accounts.
LEMMA AccountsStep ==
    ASSUME Accounts, [SessionNext]_<<sessionVars, now>>
    PROVE  Accounts'
  <1>1. ASSUME NEW imsi \in Imsi, createSession(imsi), now' = now PROVE Accounts'
    BY <1>1, CreateStep
  <1>2. ASSUME NEW imsi \in Imsi, terminateSession(imsi), now' = now PROVE Accounts'
    BY <1>2, TerminateOneStep
  <1>3. ASSUME NEW imsi \in Imsi, addToBlacklist(imsi), now' = now PROVE Accounts'
    BY <1>3, QuietStep DEF addToBlacklist, Accounts, SessionTypeOK
  <1>4. ASSUME shutdownSession, now' = now PROVE Accounts'
    BY <1>4, TerminateOneStep DEF shutdownSession, Active
  <1>5. ASSUME cleanTimeoutSessions, now' = now PROVE Accounts'
    BY <1>5, CleanStep
  <1>6. ASSUME startDraining, now' = now PROVE Accounts'
    BY <1>6, QuietStep DEF startDraining, Accounts, SessionTypeOK
  <1>7. ASSUME Tick PROVE Accounts'
    BY <1>7, QuietStep DEF Tick, sessionVars, Accounts, SessionTypeOK
  <1>8. ASSUME UNCHANGED <<sessionVars, now>> PROVE Accounts'
    BY <1>8, QuietStep DEF sessionVars, Accounts, SessionTypeOK
  <1>9. ASSUME gracefulShutdown, now' = now PROVE Accounts'
    BY <1>9, GracefulStep
  <1> QED
    BY <1>1, <1>2, <1>3, <1>4, <1>5, <1>6, <1>7, <1>8, <1>9 DEF SessionNext, SessionCall

\* Types and accounts hold in every reachable state.
LEMMA AccountsInvariant == SessionSpec => []Accounts
  BY InitAccounts, AccountsStep, PTL DEF SessionSpec

\* Type correctness: in particular no session was created in the future.
THEOREM SessionTypeCorrect == SessionSpec => []SessionTypeOK
  <1>1. Accounts => SessionTypeOK
    BY DEF Accounts
  <1> QED
    BY <1>1, AccountsInvariant, PTL

\* The figures of GET_STATS: whatever the order of requests, time-outs and shutdowns,
\* every session created is active, expired or terminated, and every request counted was
\* created or rejected.
THEOREM AccountsBalance == SessionSpec => []StatisticsAddUp
  <1>1. Accounts => StatisticsAddUp
    BY DEF Accounts
  <1> QED
    BY <1>1, AccountsInvariant, PTL

----------------------------------------------------------------------------
(* Who gets a session.                                                     *)

\* The step gives no session to a subscriber that draining or the blacklist refuses.
NoneGranted ==
    \A i \in Imsi : (m_draining \/ i \in m_blacklist) /\ i \in Active'
                      => i \in Active /\ m_sessions'[i] = m_sessions[i]

\* A request for a session.
LEMMA CreateGrants ==
    ASSUME SessionTypeOK, NEW imsi \in Imsi, createSession(imsi)
    PROVE  NoneGranted
  BY DEF createSession, Refuse, Reject, Create, CreateResult, sessionVars, Active, SessionTypeOK,
         NoneGranted

\* The end of sessions.
LEMMA DeleteGrants ==
    ASSUME SessionTypeOK, NEW S, deleteSessions(S)
    PROVE  NoneGranted
  BY DEF deleteSessions, Active, SessionTypeOK, NoneGranted

\* STOP_SESSION.
LEMMA TerminateGrants ==
    ASSUME SessionTypeOK, NEW imsi \in Imsi, terminateSession(imsi)
    PROVE  NoneGranted
  BY DeleteGrants DEF terminateSession, sessionVars, Active, NoneGranted

\* Draining and the blacklist admit no session: no call, in any order, starts one for a
\* subscriber they refuse, or renews one it has.
THEOREM NoSessionIsGranted == SessionSpec => NoSessionGranted
  <1>1. ASSUME Accounts, [SessionNext]_<<sessionVars, now>>
        PROVE  [NoneGranted]_<<sessionVars, now>>
    <2>1. SessionTypeOK
      BY <1>1 DEF Accounts
    <2>2. CASE UNCHANGED m_sessions
      BY <2>2 DEF Active, NoneGranted
    <2>3. CASE SessionCall
      BY <2>1, <2>3, CreateGrants, TerminateGrants, DeleteGrants, <2>2
      DEF SessionCall, addToBlacklist, shutdownSession, cleanTimeoutSessions, startDraining,
          gracefulShutdown, Active
    <2> QED
      BY <1>1, <2>2, <2>3 DEF SessionNext, Tick, sessionVars
  <1> QED
    BY <1>1, AccountsInvariant, PTL DEF SessionSpec, NoSessionGranted, NoneGranted

----------------------------------------------------------------------------
(* The CDR records.                                                        *)

\* What writeAction leaves for a subscriber.
LEMMA Written ==
    ASSUME SessionTypeOK, NEW S, NEW a \in Action, writeAction(S, a), NEW i \in Imsi
    PROVE  /\ i \notin S => cdr'[i] = cdr[i]
           /\ i \in S => /\ Len(cdr'[i]) = Len(cdr[i]) + 1
                         /\ \A k \in 1..Len(cdr[i]) : cdr'[i][k] = cdr[i][k]
                         /\ cdr'[i][Len(cdr[i]) + 1] = a
           /\ Len(cdr[i]) \in Nat /\ Len(cdr'[i]) \in Nat
  <1>1. cdr[i] \in Seq(Action)
    BY DEF SessionTypeOK, Action
  <1>2. cdr'[i] = IF i \in S THEN Append(cdr[i], a) ELSE cdr[i]
    BY DEF writeAction
  <1> QED
    BY <1>1, <1>2

\* There are finitely many records.
LEMMA RecordsFinite ==
    ASSUME NEW i, NEW b, NEW n \in Nat
    PROVE  /\ IsFiniteSet(Records(i, b, n)) /\ Cardinality(Records(i, b, n)) \in Nat
           /\ Records(i, b, n) \subseteq 1..n
  <1>1. Records(i, b, n) \subseteq 1..n
    BY DEF Records
  <1>2. IsFiniteSet(1..n)
    BY FS_Interval
  <1> QED
    BY <1>1, <1>2, FS_Subset, FS_CardinalityType

\* A record counts for its action, from its place on.
LEMMA RecordsStep ==
    ASSUME SessionTypeOK, NEW S, NEW a \in Action, writeAction(S, a), NEW i \in Imsi, NEW b
    PROVE  /\ \A n \in 0..Len(cdr[i]) : Records(i, b, n)' = Records(i, b, n)
           /\ i \in S => \A n \in Nat : n = Len(cdr[i]) =>
                 Cardinality(Records(i, b, n + 1)') =
                     Cardinality(Records(i, b, n)) + IF a = b THEN 1 ELSE 0
  <1>1. /\ Len(cdr[i]) \in Nat
        /\ \A k \in 1..Len(cdr[i]) : cdr'[i][k] = cdr[i][k]
    BY Written
  <1>2. ASSUME NEW n \in 0..Len(cdr[i]) PROVE Records(i, b, n)' = Records(i, b, n)
    BY <1>1 DEF Records
  <1>3. ASSUME i \in S, NEW n \in Nat, n = Len(cdr[i])
        PROVE  Cardinality(Records(i, b, n + 1)') =
                   Cardinality(Records(i, b, n)) + IF a = b THEN 1 ELSE 0
    <2>1. cdr'[i][n + 1] = a
      BY <1>1, <1>3, Written
    <2>2. Records(i, b, n + 1)' = IF a = b THEN Records(i, b, n) \union {n + 1} ELSE Records(i, b, n)
      BY <1>1, <1>3, <2>1 DEF Records
    <2>3. /\ IsFiniteSet(Records(i, b, n)) /\ Cardinality(Records(i, b, n)) \in Nat
          /\ n + 1 \notin Records(i, b, n)
      BY RecordsFinite
    <2>4. Cardinality(Records(i, b, n) \union {n + 1}) = Cardinality(Records(i, b, n)) + 1
      BY <2>3, FS_AddElement
    <2> QED
      BY <2>2, <2>3, <2>4
  <1> QED
    BY <1>2, <1>3

\* A record opens a session, closes one, or leaves the books as they are.
LEMMA OpenStep ==
    ASSUME SessionTypeOK, NEW S, NEW a \in Action, writeAction(S, a), NEW i \in Imsi
    PROVE  /\ \A n \in 0..Len(cdr[i]) : OpenAfter(i, n)' = OpenAfter(i, n)
           /\ i \in S => \A n \in Nat : n = Len(cdr[i]) =>
                 OpenAfter(i, n + 1)' = OpenAfter(i, n) + CASE a = SESSION_CREATED -> 1
                                                            [] a = SESSION_DELETED -> -1
                                                            [] a = SESSION_REJECTED -> 0
  <1>1. ASSUME NEW n \in 0..Len(cdr[i]) PROVE OpenAfter(i, n)' = OpenAfter(i, n)
    BY <1>1, RecordsStep DEF OpenAfter
  <1>2. ASSUME i \in S, NEW n \in Nat, n = Len(cdr[i])
        PROVE  OpenAfter(i, n + 1)' = OpenAfter(i, n) + CASE a = SESSION_CREATED -> 1
                                                            [] a = SESSION_DELETED -> -1
                                                            [] a = SESSION_REJECTED -> 0
    <2> DEFINE created == Cardinality(Records(i, SESSION_CREATED, n))
               deleted == Cardinality(Records(i, SESSION_DELETED, n))
    <2>2. created \in Nat /\ deleted \in Nat
      BY RecordsFinite
    <2>3. /\ Cardinality(Records(i, SESSION_CREATED, n + 1)') = created + IF a = SESSION_CREATED THEN 1 ELSE 0
          /\ Cardinality(Records(i, SESSION_DELETED, n + 1)') = deleted + IF a = SESSION_DELETED THEN 1 ELSE 0
      BY <1>2, RecordsStep
    <2>4. /\ OpenAfter(i, n) = created - deleted
          /\ OpenAfter(i, n + 1)' = Cardinality(Records(i, SESSION_CREATED, n + 1)')
                                    - Cardinality(Records(i, SESSION_DELETED, n + 1)')
      BY DEF OpenAfter
    <2> HIDE DEF created, deleted
    <2> QED
      BY <2>2, <2>3, <2>4 DEF Action, SESSION_CREATED, SESSION_DELETED, SESSION_REJECTED
  <1> QED
    BY <1>1, <1>2

\* Records that open the sessions that begin and close those that end keep the billing.
LEMMA BillingStep ==
    ASSUME SessionTypeOK, BillingMatchesSessions, NEW S, NEW a \in Action, writeAction(S, a),
           \A i \in Imsi \ S : m_sessions'[i] = m_sessions[i],
           \A i \in Imsi \cap S :
              CASE a = SESSION_CREATED -> ~hasSession(i) /\ hasSession(i)'
                [] a = SESSION_DELETED -> hasSession(i) /\ ~hasSession(i)'
                [] a = SESSION_REJECTED -> m_sessions'[i] = m_sessions[i]
    PROVE  BillingMatchesSessions'
  <1> SUFFICES ASSUME NEW i \in Imsi
               PROVE  /\ \A n \in 0..Len(cdr'[i]) : OpenAfter(i, n)' \in {0, 1}
                      /\ hasSession(i)' <=> OpenAfter(i, Len(cdr[i]))' = 1
    BY DEF BillingMatchesSessions
  <1> PICK m \in Nat : m = Len(cdr[i])
    BY Written
  <1>1. /\ \A n \in 0..m : OpenAfter(i, n) \in {0, 1}
        /\ hasSession(i) <=> OpenAfter(i, m) = 1
    BY DEF BillingMatchesSessions
  <1>2. \A n \in 0..m : OpenAfter(i, n)' = OpenAfter(i, n)
    BY OpenStep
  <1>3. CASE i \notin S
    <2>1. cdr'[i] = cdr[i] /\ (hasSession(i)' <=> hasSession(i))
      BY <1>3, Written DEF hasSession
    <2>2. OpenAfter(i, Len(cdr[i]))' = OpenAfter(i, m)'
      BY <2>1 DEF OpenAfter
    <2> QED
      BY <1>1, <1>2, <2>1, <2>2
  <1>4. CASE i \in S
    <2>1. Len(cdr'[i]) = m + 1
      BY <1>4, Written
    <2>2. OpenAfter(i, m + 1)' = OpenAfter(i, m) + CASE a = SESSION_CREATED -> 1
                                                     [] a = SESSION_DELETED -> -1
                                                     [] a = SESSION_REJECTED -> 0
      BY <1>4, OpenStep, ZenonT(60)
    <2>3. OpenAfter(i, Len(cdr[i]))' = OpenAfter(i, m + 1)'
      BY <2>1 DEF OpenAfter
    <2>4. CASE a = SESSION_CREATED
      <3>1. OpenAfter(i, m) = 0 /\ OpenAfter(i, m + 1)' = 1 /\ hasSession(i)'
        BY <1>1, <1>4, <2>2, <2>4
        DEF SESSION_CREATED, SESSION_DELETED, SESSION_REJECTED
      <3> QED
        BY <1>1, <1>2, <2>1, <2>3, <3>1
    <2>5. CASE a = SESSION_DELETED
      <3>1. OpenAfter(i, m) = 1 /\ OpenAfter(i, m + 1)' = 0 /\ ~hasSession(i)'
        BY <1>1, <1>4, <2>2, <2>5
        DEF SESSION_CREATED, SESSION_DELETED, SESSION_REJECTED
      <3> QED
        BY <1>1, <1>2, <2>1, <2>3, <3>1
    <2>6. CASE a = SESSION_REJECTED
      <3>1. OpenAfter(i, m + 1)' = OpenAfter(i, m) /\ (hasSession(i)' <=> hasSession(i))
        BY <1>1, <1>4, <2>2, <2>6
        DEF SESSION_CREATED, SESSION_DELETED, SESSION_REJECTED, hasSession
      <3> QED
        BY <1>1, <1>2, <2>1, <2>3, <3>1
    <2> QED
      BY <2>4, <2>5, <2>6 DEF Action
  <1> QED
    BY <1>3, <1>4

\* Finitely many records of all subscribers.
LEMMA CdrRecordsFinite ==
    ASSUME SessionTypeOK, NEW b
    PROVE  IsFiniteSet(CdrRecords(b)) /\ Cardinality(CdrRecords(b)) \in Nat
  <1> DEFINE Of(i) == {i} \X Records(i, b, Len(cdr[i]))
             Parts == {Of(i) : i \in Imsi}
  <1>1. ASSUME NEW i \in Imsi PROVE IsFiniteSet(Of(i))
    <2>1. Len(cdr[i]) \in Nat
      BY DEF SessionTypeOK
    <2>2. IsFiniteSet({i}) /\ IsFiniteSet(Records(i, b, Len(cdr[i])))
      BY <2>1, RecordsFinite, FS_Singleton
    <2> QED
      BY <2>2, FS_Product
  <1>2. IsFiniteSet(Parts)
    <2> DEFINE f == [i \in Imsi |-> Of(i)]
    <2>1. f \in Surjection(Imsi, Parts)
      BY DEF Surjection
    <2> QED
      BY <2>1, SessionAssumption, FS_Surjection, Zenon DEF ExistsSurjection
  <1>3. IsFiniteSet(UNION Parts)
    <2> HIDE DEF Of
    <2>1. \A T \in Parts : IsFiniteSet(T)
      BY <1>1
    <2> HIDE DEF Parts
    <2> QED
      BY <1>2, <2>1, FS_UNION
  <1> QED
    BY <1>3, FS_CardinalityType DEF CdrRecords

\* What a record of a subscriber is.
LEMMA CdrRecordsAre ==
    ASSUME NEW b, NEW r
    PROVE  r \in CdrRecords(b) <=>
              \E i \in Imsi : \E k : (k \in 1..Len(cdr[i]) /\ cdr[i][k] = b) /\ r = <<i, k>>
  BY DEF CdrRecords, Records

\* One record for every subscriber of S.
LEMMA CdrRecordsStep ==
    ASSUME SessionTypeOK, NEW S \in SUBSET Imsi, NEW a \in Action, writeAction(S, a)
    PROVE  /\ \A b : b # a => CdrRecords(b)' = CdrRecords(b)
           /\ Cardinality(CdrRecords(a)') = Cardinality(CdrRecords(a)) + Cardinality(S)
           /\ Cardinality(S) \in Nat
  <1> DEFINE New == {<<i, Len(cdr[i]) + 1>> : i \in S}
  <1>0. IsFiniteSet(S) /\ Cardinality(S) \in Nat
    BY SessionAssumption, FS_Subset, FS_CardinalityType
  <1>1. ASSUME NEW i \in Imsi, NEW k, NEW b
        PROVE  k \in 1..Len(cdr'[i]) /\ cdr'[i][k] = b <=>
                 \/ k \in 1..Len(cdr[i]) /\ cdr[i][k] = b
                 \/ i \in S /\ k = Len(cdr[i]) + 1 /\ b = a
    <2>1. CASE i \in S
      BY <2>1, Written
    <2>2. CASE i \notin S
      BY <2>2, Written
    <2> QED
      BY <2>1, <2>2
  <1>2. ASSUME NEW b, NEW r
        PROVE  r \in CdrRecords(b)' <=>
                 \E i \in Imsi : \E k : (k \in 1..Len(cdr'[i]) /\ cdr'[i][k] = b) /\ r = <<i, k>>
    BY DEF CdrRecords, Records
  <1>3. ASSUME NEW b, NEW r
        PROVE  r \in CdrRecords(b)' <=> r \in CdrRecords(b) \/ (b = a /\ r \in New)
    <2>1. ASSUME r \in CdrRecords(b)' PROVE r \in CdrRecords(b) \/ (b = a /\ r \in New)
      <3>0. PICK i \in Imsi : \E k : (k \in 1..Len(cdr'[i]) /\ cdr'[i][k] = b) /\ r = <<i, k>>
        BY <1>2, <2>1
      <3>1. PICK k : (k \in 1..Len(cdr'[i]) /\ cdr'[i][k] = b) /\ r = <<i, k>>
        BY <3>0
      <3>2. \/ k \in 1..Len(cdr[i]) /\ cdr[i][k] = b
            \/ i \in S /\ k = Len(cdr[i]) + 1 /\ b = a
        BY <1>1, <3>1
      <3> QED
        BY <3>1, <3>2, CdrRecordsAre
    <2>2. ASSUME r \in CdrRecords(b) PROVE r \in CdrRecords(b)'
      <3>0. PICK i \in Imsi : \E k : (k \in 1..Len(cdr[i]) /\ cdr[i][k] = b) /\ r = <<i, k>>
        BY <2>2, CdrRecordsAre
      <3>1. PICK k : (k \in 1..Len(cdr[i]) /\ cdr[i][k] = b) /\ r = <<i, k>>
        BY <3>0
      <3>2. k \in 1..Len(cdr'[i]) /\ cdr'[i][k] = b
        BY <1>1, <3>1
      <3> QED
        BY <1>2, <3>1, <3>2
    <2>3. ASSUME b = a, r \in New PROVE r \in CdrRecords(b)'
      <3>1. PICK i \in S : r = <<i, Len(cdr[i]) + 1>>
        BY <2>3
      <3>2. Len(cdr[i]) + 1 \in 1..Len(cdr'[i]) /\ cdr'[i][Len(cdr[i]) + 1] = b
        BY <1>1, <2>3, SMTT(30)
      <3> QED
        BY <1>2, <3>1, <3>2
    <2> QED
      BY <2>1, <2>2, <2>3
  <1>4. (\A b : b # a => CdrRecords(b)' = CdrRecords(b)) /\ CdrRecords(a)' = CdrRecords(a) \union New
    <2> HIDE DEF New
    <2> QED
      BY <1>3
  <1>5. CdrRecords(a) \cap New = {}
    <2>1. \A i \in S : Len(cdr[i]) + 1 \notin 1..Len(cdr[i])
      BY Written
    <2> QED
      BY <2>1, CdrRecordsAre
  <1>6. IsFiniteSet(New) /\ Cardinality(New) = Cardinality(S)
    <2> DEFINE f == [i \in S |-> <<i, Len(cdr[i]) + 1>>]
    <2>1. f \in Bijection(S, New)
      BY DEF Bijection, Injection, Surjection, IsInjective
    <2> QED
      BY <1>0, <2>1, FS_Bijection, Zenon DEF ExistsBijection
  <1>7. Cardinality(CdrRecords(a) \union New) = Cardinality(CdrRecords(a)) + Cardinality(S)
    <2> HIDE DEF New
    <2>1. /\ IsFiniteSet(CdrRecords(a)) /\ Cardinality(CdrRecords(a)) \in Nat
          /\ Cardinality({}) = 0
      BY CdrRecordsFinite, FS_EmptySet
    <2>2. Cardinality(CdrRecords(a) \union New) =
              Cardinality(CdrRecords(a)) + Cardinality(New) - Cardinality(CdrRecords(a) \cap New)
      BY <1>6, <2>1, FS_Union, Zenon
    <2>3. Cardinality(CdrRecords(a) \cap New) = 0
      BY <1>5, <2>1
    <2> QED
      BY <1>0, <1>6, <2>1, <2>2, <2>3
  <1> QED
    BY <1>0, <1>4, <1>7

\* The sessions, the statistics and the records together are inductive.
Books == Accounts /\ BillingMatchesSessions /\ StatisticsMatchCdr

\* The calls that touch neither sessions, counters nor records.
LEMMA BooksStand ==
    ASSUME Books, UNCHANGED <<m_sessions, m_stats, cdr>>
    PROVE  BillingMatchesSessions' /\ StatisticsMatchCdr'
  <1>1. \A i, n : OpenAfter(i, n)' = OpenAfter(i, n)
    BY DEF OpenAfter, Records
  <1>2. BillingMatchesSessions'
    <2>1. ASSUME NEW i \in Imsi
          PROVE  /\ OpenAfter(i, Len(cdr[i]))' = OpenAfter(i, Len(cdr[i]))
                 /\ hasSession(i)' <=> hasSession(i)
      BY DEF OpenAfter, Records, hasSession
    <2> QED
      BY <1>1, <2>1 DEF Books, BillingMatchesSessions
  <1>3. \A b : CdrRecords(b)' = CdrRecords(b)
    BY DEF CdrRecords, Records
  <1> QED
    BY <1>2, <1>3 DEF Books, StatisticsMatchCdr

\* The end of the sessions of S: one DELETED for each, and one more in the counters.
LEMMA BooksOfTheEnd ==
    ASSUME Books, NEW S \in SUBSET Active, deleteSessions(S),
           m_stats'.createdSessions = m_stats.createdSessions,
           m_stats'.rejectedSessions = m_stats.rejectedSessions,
           m_stats'.expiredSessions + m_stats'.terminateSessions =
               m_stats.expiredSessions + m_stats.terminateSessions + Cardinality(S)
    PROVE  BillingMatchesSessions' /\ StatisticsMatchCdr'
  <1>1. /\ SessionTypeOK /\ BillingMatchesSessions /\ writeAction(S, SESSION_DELETED)
        /\ SESSION_DELETED \in Action /\ S \in SUBSET Imsi
    BY DEF Books, Accounts, deleteSessions, Action, Active
  <1>2. BillingMatchesSessions'
    <2>1. \A i \in Imsi \ S : m_sessions'[i] = m_sessions[i]
      BY DEF deleteSessions
    <2>2. \A i \in Imsi \cap S :
             CASE SESSION_DELETED = SESSION_CREATED -> ~hasSession(i) /\ hasSession(i)'
               [] SESSION_DELETED = SESSION_DELETED -> hasSession(i) /\ ~hasSession(i)'
               [] SESSION_DELETED = SESSION_REJECTED -> m_sessions'[i] = m_sessions[i]
      BY DEF deleteSessions, hasSession, Active, SESSION_CREATED, SESSION_DELETED, SESSION_REJECTED
    <2> QED
      BY <1>1, <2>1, <2>2, BillingStep
  <1>3. /\ CdrRecords(SESSION_CREATED)' = CdrRecords(SESSION_CREATED)
        /\ CdrRecords(SESSION_REJECTED)' = CdrRecords(SESSION_REJECTED)
        /\ Cardinality(CdrRecords(SESSION_DELETED)') =
               Cardinality(CdrRecords(SESSION_DELETED)) + Cardinality(S)
    <2>1. SESSION_CREATED # SESSION_DELETED /\ SESSION_REJECTED # SESSION_DELETED
      BY DEF SESSION_CREATED, SESSION_DELETED, SESSION_REJECTED
    <2> QED
      BY <1>1, <2>1, CdrRecordsStep
  <1> QED
    BY <1>2, <1>3 DEF Books, StatisticsMatchCdr

\* STOP_SESSION.
LEMMA BooksOfTerminate ==
    ASSUME Books, NEW imsi \in Imsi, terminateSession(imsi)
    PROVE  BillingMatchesSessions' /\ StatisticsMatchCdr'
  <1>1. CASE hasSession(imsi)
    <2>1. {imsi} \in SUBSET Active /\ Cardinality({imsi}) = 1
      BY <1>1, FS_Singleton DEF hasSession, Active
    <2>2. deleteSessions({imsi})
      BY <1>1 DEF terminateSession
    <2>3. /\ m_stats'.createdSessions = m_stats.createdSessions
          /\ m_stats'.rejectedSessions = m_stats.rejectedSessions
          /\ m_stats'.expiredSessions = m_stats.expiredSessions
          /\ m_stats'.terminateSessions = m_stats.terminateSessions + 1
          /\ m_stats.expiredSessions \in Nat /\ m_stats.terminateSessions \in Nat
      BY <1>1 DEF terminateSession, Books, Accounts, SessionTypeOK, Statistics
    <2> QED
      BY <2>1, <2>2, <2>3, BooksOfTheEnd
  <1>2. CASE ~hasSession(imsi)
    BY <1>2, BooksStand DEF terminateSession, sessionVars
  <1> QED
    BY <1>1, <1>2

\* A request for a session, with each of its answers.
LEMMA BooksOfCreate ==
    ASSUME Books, NEW imsi \in Imsi, createSession(imsi)
    PROVE  BillingMatchesSessions' /\ StatisticsMatchCdr'
  <1>1. /\ SessionTypeOK /\ BillingMatchesSessions /\ m_stats \in Statistics
        /\ SESSION_CREATED \in Action /\ SESSION_REJECTED \in Action /\ Cardinality({imsi}) = 1
        /\ m_sessions \in [Imsi -> Int] /\ now \in Nat
    BY FS_Singleton DEF Books, Accounts, SessionTypeOK, Action
  <1>2. /\ SESSION_CREATED # SESSION_DELETED /\ SESSION_REJECTED # SESSION_DELETED
        /\ SESSION_CREATED # SESSION_REJECTED
    BY DEF SESSION_CREATED, SESSION_DELETED, SESSION_REJECTED
  <1>3. CASE Refuse(imsi)
    BY <1>3, BooksStand DEF Refuse, sessionVars
  <1>4. CASE Reject(imsi)
    <2>1. writeAction({imsi}, SESSION_REJECTED) /\ m_sessions' = m_sessions
      BY <1>4 DEF Reject
    <2>2. BillingMatchesSessions'
      <3>1. \A i \in Imsi \cap {imsi} :
               CASE SESSION_REJECTED = SESSION_CREATED -> ~hasSession(i) /\ hasSession(i)'
                 [] SESSION_REJECTED = SESSION_DELETED -> hasSession(i) /\ ~hasSession(i)'
                 [] SESSION_REJECTED = SESSION_REJECTED -> m_sessions'[i] = m_sessions[i]
        BY <1>2, <2>1
      <3> QED
        BY <1>1, <2>1, <3>1, BillingStep
    <2>3. /\ CdrRecords(SESSION_CREATED)' = CdrRecords(SESSION_CREATED)
          /\ CdrRecords(SESSION_DELETED)' = CdrRecords(SESSION_DELETED)
          /\ Cardinality(CdrRecords(SESSION_REJECTED)') =
                 Cardinality(CdrRecords(SESSION_REJECTED)) + 1
      BY <1>1, <1>2, <2>1, CdrRecordsStep
    <2>4. /\ m_stats'.createdSessions = m_stats.createdSessions
          /\ m_stats'.rejectedSessions = m_stats.rejectedSessions + 1
          /\ m_stats'.expiredSessions = m_stats.expiredSessions
          /\ m_stats'.terminateSessions = m_stats.terminateSessions
      BY <1>1, <1>4 DEF Reject, Statistics
    <2> QED
      BY <2>2, <2>3, <2>4 DEF Books, StatisticsMatchCdr
  <1>5. CASE Create(imsi)
    <2>1. /\ writeAction({imsi}, SESSION_CREATED) /\ m_sessions' = [m_sessions EXCEPT ![imsi] = now]
          /\ ~hasSession(imsi)
      BY <1>5 DEF Create, CreateResult
    <2>2. BillingMatchesSessions'
      <3>1. \A i \in Imsi \cap {imsi} :
               CASE SESSION_CREATED = SESSION_CREATED -> ~hasSession(i) /\ hasSession(i)'
                 [] SESSION_CREATED = SESSION_DELETED -> hasSession(i) /\ ~hasSession(i)'
                 [] SESSION_CREATED = SESSION_REJECTED -> m_sessions'[i] = m_sessions[i]
        BY <1>1, <1>2, <2>1 DEF hasSession, Absent
      <3>2. \A i \in Imsi \ {imsi} : m_sessions'[i] = m_sessions[i]
        BY <1>1, <2>1
      <3> QED
        BY <1>1, <2>1, <3>1, <3>2, BillingStep
    <2>3. /\ CdrRecords(SESSION_REJECTED)' = CdrRecords(SESSION_REJECTED)
          /\ CdrRecords(SESSION_DELETED)' = CdrRecords(SESSION_DELETED)
          /\ Cardinality(CdrRecords(SESSION_CREATED)') =
                 Cardinality(CdrRecords(SESSION_CREATED)) + 1
      BY <1>1, <1>2, <2>1, CdrRecordsStep
    <2>4. /\ m_stats'.createdSessions = m_stats.createdSessions + 1
          /\ m_stats'.rejectedSessions = m_stats.rejectedSessions
          /\ m_stats'.expiredSessions = m_stats.expiredSessions
          /\ m_stats'.terminateSessions = m_stats.terminateSessions
      BY <1>1, <1>5 DEF Create, Statistics
    <2> QED
      BY <2>2, <2>3, <2>4 DEF Books, StatisticsMatchCdr
  <1> QED
    BY <1>3, <1>4, <1>5 DEF createSession

\* The constructor's state: nothing written, nothing counted.
LEMMA InitBooks == SessionInit => Books
  <1> SUFFICES ASSUME SessionInit PROVE BillingMatchesSessions /\ StatisticsMatchCdr
    BY InitAccounts DEF Books
  <1>1. \A i \in Imsi : cdr[i] = << >> /\ m_sessions[i] = Absent
    BY DEF SessionInit
  <1>2. \A i, b : Records(i, b, 0) = {}
    BY DEF Records
  <1>3. Cardinality({}) = 0
    BY FS_EmptySet
  <1>4. BillingMatchesSessions
    <2>1. \A i : OpenAfter(i, 0) = 0
      BY <1>2, <1>3 DEF OpenAfter
    <2>2. \A i \in Imsi : ~hasSession(i) /\ Len(cdr[i]) = 0
      BY <1>1 DEF hasSession
    <2> QED
      BY <2>1, <2>2 DEF BillingMatchesSessions
  <1>5. \A b : CdrRecords(b) = {}
    BY <1>1, <1>2 DEF CdrRecords
  <1>6. m_stats.createdSessions = 0 /\ m_stats.rejectedSessions = 0
        /\ m_stats.expiredSessions = 0 /\ m_stats.terminateSessions = 0
    BY DEF SessionInit
  <1> QED
    BY <1>3, <1>4, <1>5, <1>6 DEF StatisticsMatchCdr

\* Every step of the class keeps the books.
LEMMA BooksStep ==
    ASSUME Books, [SessionNext]_<<sessionVars, now>>
    PROVE  Books'
  <1> DEFINE Kept == BillingMatchesSessions' /\ StatisticsMatchCdr'
  <1> SUFFICES Kept
    BY AccountsStep DEF Books
  <1>1. /\ m_stats \in Statistics /\ Active \in SUBSET Active /\ Expired \in SUBSET Active
        /\ m_stats.expiredSessions \in Nat /\ m_stats.terminateSessions \in Nat
        /\ Cardinality(Expired) \in Nat /\ Cardinality(Active) \in Nat
    <2>1. Expired \in SUBSET Active
      BY DEF Expired
    <2>2. Cardinality(Expired) \in Nat
      BY <2>1, ActiveFinite, FS_Subset, FS_CardinalityType
    <2> QED
      BY <2>1, <2>2, ActiveFinite DEF Books, Accounts, SessionTypeOK, Statistics
  <1>2. ASSUME NEW imsi \in Imsi, createSession(imsi) \/ terminateSession(imsi) PROVE Kept
    BY <1>2, BooksOfCreate, BooksOfTerminate
  <1>3. CASE shutdownSession
    BY <1>2, <1>3 DEF shutdownSession, Active
  <1>4. CASE cleanTimeoutSessions
    <2>1. /\ m_stats'.createdSessions = m_stats.createdSessions
          /\ m_stats'.rejectedSessions = m_stats.rejectedSessions
          /\ m_stats'.expiredSessions = m_stats.expiredSessions + Cardinality(Expired)
          /\ m_stats'.terminateSessions = m_stats.terminateSessions
      BY <1>1, <1>4 DEF cleanTimeoutSessions, Statistics
    <2>2. deleteSessions(Expired)
      BY <1>4 DEF cleanTimeoutSessions
    <2> QED
      BY <1>1, <2>1, <2>2, BooksOfTheEnd
  <1>5. CASE gracefulShutdown
    <2>1. /\ m_stats'.createdSessions = m_stats.createdSessions
          /\ m_stats'.rejectedSessions = m_stats.rejectedSessions
          /\ m_stats'.expiredSessions = m_stats.expiredSessions
          /\ m_stats'.terminateSessions = m_stats.terminateSessions + Cardinality(Active)
      BY <1>1, <1>5 DEF gracefulShutdown, Statistics
    <2>2. deleteSessions(Active)
      BY <1>5 DEF gracefulShutdown
    <2> QED
      BY <1>1, <2>1, <2>2, BooksOfTheEnd
  <1>6. CASE UNCHANGED <<m_sessions, m_stats, cdr>>
    BY <1>6, BooksStand
  <1> HIDE DEF Kept
  <1> QED
    BY <1>2, <1>3, <1>4, <1>5, <1>6
    DEF SessionNext, SessionCall, addToBlacklist, startDraining, Tick, sessionVars

\* The books are kept in every reachable state.
LEMMA BooksInvariant == SessionSpec => []Books
  BY InitBooks, BooksStep, PTL DEF SessionSpec

\* Every session is billed once from its start to its end, however it ends: for every set
\* of subscribers and order of calls, CREATED and DELETED alternate, and the last of them
\* tells whether there is a session.
THEOREM BillingIsExact == SessionSpec => []BillingMatchesSessions
  <1>1. Books => BillingMatchesSessions
    BY DEF Books
  <1> QED
    BY <1>1, BooksInvariant, PTL

\* The statistics are the numbers of the records, over all subscribers.
THEOREM StatisticsAreExact == SessionSpec => []StatisticsMatchCdr
  <1>1. Books => StatisticsMatchCdr
    BY DEF Books
  <1> QED
    BY <1>1, BooksInvariant, PTL
=============================================================================
