--------------------------- MODULE SessionManager ---------------------------
(***************************************************************************)
(* SessionManager: the table of active sessions, the blacklist, the drain  *)
(* flag and the statistics, and the CDR records each change produces.      *)
(*                                                                         *)
(* Every method runs to its end on the event-loop thread, so a method is   *)
(* one action.  An IMSI is an opaque value.  The CDR writer is external    *)
(* here: cdr[i] is the sequence of actions handed to writeAction for       *)
(* subscriber i (DatabaseCdrWriter and CdrLedger say what becomes of it).  *)
(* Time is a counter of whole seconds.                                     *)
(***************************************************************************)
EXTENDS Integers, Sequences, FiniteSets

CONSTANTS
    Imsi,                   \* subscribers the requests name
    ValidImsi,              \* those of them with a well-formed IMSI
    InitialBlacklist,       \* blacklist of the configuration
    m_sessionTimeoutSec,    \* session lifetime
    MaxTotal,               \* bound: totalSessions
    MaxTime                 \* bound: the clock

ASSUME SessionAssumption ==
    /\ IsFiniteSet(Imsi)
    /\ ValidImsi \subseteq Imsi
    /\ InitialBlacklist \subseteq Imsi
    /\ m_sessionTimeoutSec \in Nat \ {0}
    /\ MaxTotal \in Nat
    /\ MaxTime \in Nat

VARIABLES
    m_sessions,     \* m_sessions[i]: createdTime, or Absent
    m_blacklist,
    m_draining,
    m_stats,
    cdr,            \* cdr[i]: actions written for i, oldest first
    now             \* steady_clock

sessionVars == <<m_sessions, m_blacklist, m_draining, m_stats, cdr>>

Absent == -1

\* The keys of m_sessions.
Active == {i \in Imsi : m_sessions[i] # Absent}

SESSION_CREATED == "CREATED"
SESSION_DELETED == "DELETED"
SESSION_REJECTED == "REJECTED"

Statistics ==
    [activeSessions : Nat, createdSessions : Nat, expiredSessions : Nat,
     terminateSessions : Nat, rejectedSessions : Nat, totalSessions : Nat]

SessionInit ==
    /\ m_sessions = [i \in Imsi |-> Absent]
    /\ m_blacklist = InitialBlacklist
    /\ m_draining = FALSE
    /\ m_stats = [activeSessions |-> 0, createdSessions |-> 0, expiredSessions |-> 0,
                  terminateSessions |-> 0, rejectedSessions |-> 0, totalSessions |-> 0]
    /\ cdr = [i \in Imsi |-> << >>]
    /\ now = 0

----------------------------------------------------------------------------
hasSession(imsi) == m_sessions[imsi] # Absent

\* One record for every subscriber of the set S.
writeAction(S, action) ==
    cdr' = [i \in Imsi |-> IF i \in S THEN Append(cdr[i], action) ELSE cdr[i]]

\* Mutant: an existing session is not looked for.
CreateResultTwice(imsi) ==
    CASE m_draining -> "SERVICE_UNAVAILABLE"
      [] ~m_draining /\ imsi \in m_blacklist -> "REJECTED_BLACKLIST"
      [] OTHER -> "CREATED"

\* Mutant: draining is not looked at.
CreateResultDraining(imsi) ==
    CASE imsi \in m_blacklist -> "REJECTED_BLACKLIST"
      [] imsi \notin m_blacklist /\ hasSession(imsi) -> "ALREADY_EXISTS"
      [] OTHER -> "CREATED"

\* What createSession answers, in the order of its early returns.
CreateResult(imsi) ==
    CASE m_draining -> "SERVICE_UNAVAILABLE"
      [] ~m_draining /\ imsi \in m_blacklist -> "REJECTED_BLACKLIST"
      [] ~m_draining /\ imsi \notin m_blacklist /\ hasSession(imsi) -> "ALREADY_EXISTS"
      [] OTHER -> "CREATED"

Refuse(imsi) ==
    /\ CreateResult(imsi) \in {"SERVICE_UNAVAILABLE", "ALREADY_EXISTS"}
    /\ UNCHANGED sessionVars

\* Mutant: a rejection leaves no CDR record.
RejectUnrecorded(imsi) ==
    /\ CreateResult(imsi) = "REJECTED_BLACKLIST"
    /\ m_stats.totalSessions < MaxTotal
    /\ m_stats' = [m_stats EXCEPT !.rejectedSessions = @ + 1, !.totalSessions = @ + 1]
    /\ UNCHANGED <<m_sessions, m_blacklist, m_draining, cdr>>

Reject(imsi) ==
    /\ CreateResult(imsi) = "REJECTED_BLACKLIST"
    /\ m_stats.totalSessions < MaxTotal
    /\ writeAction({imsi}, SESSION_REJECTED)
    /\ m_stats' = [m_stats EXCEPT !.rejectedSessions = @ + 1, !.totalSessions = @ + 1]
    /\ UNCHANGED <<m_sessions, m_blacklist, m_draining>>

\* Mutant: the time of expiry is stored for the time of creation.
CreateStoresExpiry(imsi) ==
    /\ CreateResult(imsi) = "CREATED"
    /\ m_stats.totalSessions < MaxTotal
    /\ m_sessions' = [m_sessions EXCEPT ![imsi] = now + m_sessionTimeoutSec]
    /\ writeAction({imsi}, SESSION_CREATED)
    /\ m_stats' = [m_stats EXCEPT !.createdSessions = @ + 1, !.totalSessions = @ + 1,
                                  !.activeSessions = Cardinality(Active')]
    /\ UNCHANGED <<m_blacklist, m_draining>>

Create(imsi) ==
    /\ CreateResult(imsi) = "CREATED"
    /\ m_stats.totalSessions < MaxTotal
    /\ m_sessions' = [m_sessions EXCEPT ![imsi] = now]
    /\ writeAction({imsi}, SESSION_CREATED)
    /\ m_stats' = [m_stats EXCEPT !.createdSessions = @ + 1, !.totalSessions = @ + 1,
                                  !.activeSessions = Cardinality(Active')]
    /\ UNCHANGED <<m_blacklist, m_draining>>

createSession(imsi) == Refuse(imsi) \/ Reject(imsi) \/ Create(imsi)

\* deleteSession for every subscriber of S: erase, CDR record, active count.
deleteSessions(S) ==
    /\ m_sessions' = [i \in Imsi |-> IF i \in S THEN Absent ELSE m_sessions[i]]
    /\ writeAction(S, SESSION_DELETED)

\* Mutant: a session that is not there is counted too.
terminateSessionUnchecked(imsi) ==
    /\ IF hasSession(imsi) THEN deleteSessions({imsi}) ELSE UNCHANGED <<m_sessions, cdr>>
    /\ m_stats' = [m_stats EXCEPT !.activeSessions = Cardinality(Active'),
                                  !.terminateSessions = @ + 1]
    /\ UNCHANGED <<m_blacklist, m_draining>>

terminateSession(imsi) ==
    \/ ~hasSession(imsi) /\ UNCHANGED sessionVars
    \/ /\ hasSession(imsi)
       /\ deleteSessions({imsi})
       /\ m_stats' = [m_stats EXCEPT !.activeSessions = Cardinality(Active'),
                                     !.terminateSessions = @ + 1]
       /\ UNCHANGED <<m_blacklist, m_draining>>

\* Removes the first session of the hash table, which may be any; it returns
\* FALSE, and changes nothing, when there is none.
shutdownSession == \E imsi \in Active : terminateSession(imsi)

Expired == {i \in Active : now - m_sessions[i] >= m_sessionTimeoutSec}

cleanTimeoutSessions ==
    /\ deleteSessions(Expired)
    /\ m_stats' = [m_stats EXCEPT
                     !.activeSessions = IF Expired = {} THEN @ ELSE Cardinality(Active'),
                     !.expiredSessions = @ + Cardinality(Expired)]
    /\ UNCHANGED <<m_blacklist, m_draining>>

addToBlacklist(imsi) ==
    /\ m_blacklist' = IF imsi \in ValidImsi THEN m_blacklist \union {imsi} ELSE m_blacklist
    /\ UNCHANGED <<m_sessions, m_draining, m_stats, cdr>>

startDraining ==
    /\ m_draining' = TRUE
    /\ UNCHANGED <<m_sessions, m_blacklist, m_stats, cdr>>

\* A second passes.
Tick == now < MaxTime /\ now' = now + 1 /\ UNCHANGED sessionVars

\* Drains, then ends every session, one shutdownSession after another, on the caller's
\* thread: nothing comes in between.  The delays in the loop are left out.
gracefulShutdown ==
    /\ m_draining' = TRUE
    /\ deleteSessions(Active)
    /\ m_stats' = [m_stats EXCEPT !.activeSessions = 0,
                                  !.terminateSessions = @ + Cardinality(Active)]
    /\ UNCHANGED m_blacklist

----------------------------------------------------------------------------
(* The class on its own, called in any order.                              *)

SessionCall ==
    \/ \E imsi \in Imsi : \/ createSession(imsi)
                          \/ terminateSession(imsi)
                          \/ addToBlacklist(imsi)
    \/ shutdownSession \/ cleanTimeoutSessions \/ startDraining \/ gracefulShutdown

SessionNext == (SessionCall /\ UNCHANGED now) \/ Tick

SessionSpec == SessionInit /\ [][SessionNext]_<<sessionVars, now>>

----------------------------------------------------------------------------
(* Properties.                                                             *)

\* Every variable has its type; no session was created in the future.
SessionTypeOK ==
    /\ now \in Nat
    /\ m_sessions \in [Imsi -> Int]
    /\ \A i \in Imsi : m_sessions[i] \in (0..now) \union {Absent}
    /\ m_blacklist \subseteq Imsi
    /\ m_draining \in BOOLEAN
    /\ m_stats \in Statistics
    /\ cdr \in [Imsi -> Seq({SESSION_CREATED, SESSION_DELETED, SESSION_REJECTED})]

\* The figures of GET_STATS add up, whichever of the four ways a session ends:
\* every session created is active, expired or terminated, and every request
\* counted was created or rejected.
StatisticsAddUp ==
    /\ m_stats.createdSessions =
           Cardinality(Active) + m_stats.expiredSessions + m_stats.terminateSessions
    /\ m_stats.totalSessions = m_stats.createdSessions + m_stats.rejectedSessions
    /\ m_stats.activeSessions = Cardinality(Active)

\* The first n CDR records of a subscriber: those that tell of the action, and how many
\* sessions they have opened and not closed.
Records(i, action, n) == {k \in 1..n : cdr[i][k] = action}
OpenAfter(i, n) ==
    Cardinality(Records(i, SESSION_CREATED, n)) - Cardinality(Records(i, SESSION_DELETED, n))

\* The CDR records of a subscriber, rejections left out, are CREATED, DELETED,
\* CREATED, ... (no two sessions are open, none is closed twice) and end with CREATED
\* exactly while the session is active: every session is billed once from its start
\* to its end.
BillingMatchesSessions ==
    \A i \in Imsi :
        /\ \A n \in 0..Len(cdr[i]) : OpenAfter(i, n) \in {0, 1}
        /\ hasSession(i) <=> OpenAfter(i, Len(cdr[i])) = 1

\* The statistics and the CDR records tell the same story.
CdrRecords(action) == UNION {{i} \X Records(i, action, Len(cdr[i])) : i \in Imsi}
StatisticsMatchCdr ==
    /\ m_stats.createdSessions = Cardinality(CdrRecords(SESSION_CREATED))
    /\ m_stats.rejectedSessions = Cardinality(CdrRecords(SESSION_REJECTED))
    /\ m_stats.expiredSessions + m_stats.terminateSessions
           = Cardinality(CdrRecords(SESSION_DELETED))

\* Once draining has started a session may end but none begins, and a blacklisted
\* subscriber gets no new session, even one that had a session when it was
\* blacklisted and lost it since.
NoSessionGranted ==
    [][\A i \in Imsi : (m_draining \/ i \in m_blacklist) /\ i \in Active'
                          => i \in Active /\ m_sessions'[i] = m_sessions[i]]_<<sessionVars, now>>
=============================================================================
