--------------------------- MODULE Server_proofs ---------------------------
(***************************************************************************)
(* Proofs about the event loop.                                            *)
(***************************************************************************)
EXTENDS Server, SessionManager_proofs, SequenceTheorems

\* Once the loop has begun to drain, the session manager refuses and the request stands;
\* once it stops, no session is left.
Draining ==
    /\ state # "RUNNING" => m_draining /\ m_shutdownRequest
    /\ state \in {"STOPPING", "STOPPED"} => Active = {}

\* A TCP event stands for a command that is there: a descriptor is in a batch once.
TcpPending ==
    /\ \A i, j \in 1..Len(events) : events[i] = events[j] => i = j
    /\ \A i \in 1..Len(events) : events[i] = "tcp" => tcpQueue # << >> /\ pc # "tcp"
    /\ pc = "tcp" => tcpQueue # << >>

LoopInv == Accounts /\ LoopTypeOK /\ TcpPending /\ Draining

----------------------------------------------------------------------------
(* The session manager's calls, as the loop makes them.                    *)

\* While draining, a session may end and none begins.
Shrinks == m_draining => m_draining' /\ Active' \subseteq Active

\* A request for a session.
LEMMA CreateShrinks ==
    ASSUME NEW imsi \in Imsi, createSession(imsi)
    PROVE  Shrinks
  BY DEF createSession, Refuse, Reject, Create, CreateResult, sessionVars, Shrinks, Active

\* The end of sessions.
LEMMA DeleteShrinks ==
    ASSUME SessionTypeOK, NEW S, deleteSessions(S), UNCHANGED m_draining
    PROVE  Shrinks
  BY DEF SessionTypeOK, deleteSessions, Shrinks, Active

\* STOP_SESSION.
LEMMA TerminateShrinks ==
    ASSUME SessionTypeOK, NEW imsi \in Imsi, terminateSession(imsi)
    PROVE  Shrinks
  BY DeleteShrinks DEF terminateSession, sessionVars, Shrinks, Active

\* No call at all.
LEMMA StandStill ==
    ASSUME Accounts, UNCHANGED sessionVars, now' \in Nat, now' >= now
    PROVE  Accounts' /\ Shrinks
  BY QuietStep DEF Accounts, SessionTypeOK, sessionVars, Shrinks, Active

\* A command.
LEMMA HandleStep ==
    ASSUME Accounts, NEW c, Handle(c), now' = now
    PROVE  /\ Accounts' /\ Shrinks
           /\ m_shutdownRequest' \in {TRUE, m_shutdownRequest}
  <1>1. ValidImsi \subseteq Imsi /\ now \in Nat
    BY SessionAssumption DEF Accounts, SessionTypeOK
  <1>0. m_shutdownRequest' \in {TRUE, m_shutdownRequest}
    BY DEF Handle
  <1>2. CASE UNCHANGED sessionVars
    <2>1. now' \in Nat /\ now' >= now
      BY <1>1
    <2> QED
      BY <1>0, <1>2, <2>1, StandStill
  <1>3. CASE c.imsi \in ValidImsi /\ createSession(c.imsi)
    BY <1>0, <1>1, <1>3, CreateStep, CreateShrinks
  <1>4. CASE c.imsi \in ValidImsi /\ terminateSession(c.imsi)
    BY <1>0, <1>1, <1>4, TerminateOneStep, TerminateShrinks DEF Accounts
  <1> QED
    BY <1>2, <1>3, <1>4 DEF Handle

\* In every step of the loop and its environment, accounts balance and draining holds.
LEMMA SessionsStep ==
    ASSUME LoopInv, Next
    PROVE  Accounts' /\ (Shrinks \/ BeginDraining)
  <1>1. now \in Nat /\ ValidImsi \subseteq Imsi
    BY SessionAssumption DEF LoopInv, Accounts, SessionTypeOK
  <1>2. CASE UNCHANGED <<sessionVars, now>>
    BY <1>1, <1>2, StandStill DEF LoopInv
  <1>3. CASE Second
    BY <1>1, <1>3, StandStill DEF Second, Tick, LoopInv
  <1>4. CASE BeginDraining
    BY <1>1, <1>4, QuietStep DEF BeginDraining, startDraining, LoopInv, Accounts, SessionTypeOK
  <1>5. CASE ShutdownTimer
    <2>1. PICK S \in SUBSET Active :
             /\ deleteSessions(S)
             /\ m_stats' = [m_stats EXCEPT !.activeSessions = Cardinality(Active'),
                                           !.terminateSessions = @ + Cardinality(S)]
      BY <1>5 DEF ShutdownTimer
    <2>2. UNCHANGED <<m_blacklist, m_draining, now>>
      BY <1>5 DEF ShutdownTimer
    <2>3. Accounts /\ m_draining' \in BOOLEAN
      BY <2>2 DEF LoopInv, Accounts, SessionTypeOK
    <2>4. Accounts'
      BY <2>1, <2>2, <2>3, TerminateStep
    <2> QED
      BY <2>1, <2>2, <2>4, DeleteShrinks DEF LoopInv, Accounts
  <1>6. CASE UdpRequest
    <2>1. /\ now' = now
          /\ \/ createSession(Head(udpQueue)) /\ Head(udpQueue) \in Imsi
             \/ UNCHANGED sessionVars
      BY <1>1, <1>6 DEF UdpRequest
    <2> QED
      BY <1>1, <2>1, CreateStep, CreateShrinks, StandStill DEF LoopInv
  <1>7. CASE TcpEvent
    BY <1>7, HandleStep DEF TcpEvent, LoopInv
  <1>8. CASE PeriodicCleanup
    <2>1. now' = now /\ (cleanTimeoutSessions \/ UNCHANGED sessionVars)
      BY <1>8 DEF PeriodicCleanup
    <2>2. CASE cleanTimeoutSessions
      BY <2>1, <2>2, CleanStep, DeleteShrinks DEF cleanTimeoutSessions, LoopInv, Accounts
    <2> QED
      BY <1>1, <2>1, <2>2, StandStill DEF LoopInv
  <1> QED
    BY <1>2, <1>3, <1>4, <1>5, <1>6, <1>7, <1>8
    DEF Next, Loop, Environment, Terminated, vars, UdpArrives, TcpArrives, HttpShutdown, TimerExpires,
        StopServers, GoOn, EpollWait, EpollFails, AcceptThrows, UdpEvent, UdpDone

----------------------------------------------------------------------------
(* The loop's own variables.                                               *)

\* There are finitely many descriptors.
LEMMA ReadyFinite ==
    Ready \subseteq {"timer", "udp", "tcp"} /\ Cardinality(Ready) \in Nat
  <1> DEFINE Names == {"timer", "udp", "tcp"}
  <1>1. IsFiniteSet(Names)
    <2>1. IsFiniteSet({"timer"}) /\ IsFiniteSet({"timer"} \union {"udp"})
      BY FS_Singleton, FS_AddElement
    <2>2. IsFiniteSet(({"timer"} \union {"udp"}) \union {"tcp"})
      BY <2>1, FS_AddElement
    <2>3. Names = ({"timer"} \union {"udp"}) \union {"tcp"}
      OBVIOUS
    <2> QED
      BY <2>2, <2>3
  <1>2. Ready \in SUBSET Names
    BY DEF Ready
  <1> HIDE DEF Names
  <1>3. Cardinality(Ready) \in Nat
    BY <1>1, <1>2, FS_Subset, FS_CardinalityType
  <1> QED
    BY <1>2, <1>3 DEF Names

\* epoll_wait returns a list of descriptors that are ready.
LEMMA EventsType ==
    ASSUME NEW q \in SetToSeqs(Ready)
    PROVE  q \in Seq({"timer", "udp", "tcp"})
  <1>1. q \in [1..Cardinality(Ready) -> Ready]
    BY DEF SetToSeqs
  <1>2. q \in [1..Cardinality(Ready) -> {"timer", "udp", "tcp"}]
    BY <1>1, ReadyFinite
  <1> QED
    BY <1>2, ReadyFinite

\* The first of a batch is handled: the others keep their order.
LEMMA TailOfEvents ==
    ASSUME LoopTypeOK, events # << >>
    PROVE  /\ Len(events) \in Nat \ {0} /\ Head(events) = events[1]
           /\ Len(Tail(events)) = Len(events) - 1
           /\ \A i \in 1..Len(Tail(events)) : Tail(events)[i] = events[i + 1]
  BY HeadTailProperties, EmptySeq, LenProperties DEF LoopTypeOK

\* A TCP event finds a command.
LEMMA TcpThere ==
    ASSUME LoopTypeOK, TcpPending, TcpEvent
    PROVE  tcpQueue # << >>
  <1>1. CASE pc = "tcp"
    BY <1>1 DEF TcpPending
  <1>2. CASE events # << >> /\ Head(events) = "tcp"
    BY <1>2, TailOfEvents DEF TcpPending
  <1> QED
    BY <1>1, <1>2 DEF TcpEvent

\* Handling the first of a batch leaves a batch in which every descriptor is named once.
LEMMA TailKeepsOnce ==
    ASSUME LoopTypeOK, TcpPending, events # << >>, events' = Tail(events)
    PROVE  /\ \A i, j \in 1..Len(events') : events'[i] = events'[j] => i = j
           /\ \A i \in 1..Len(events') :
                 events'[i] = "tcp" => tcpQueue # << >> /\ pc # "tcp" /\ Head(events) # "tcp"
  <1>1. /\ Len(events) \in Nat \ {0} /\ Head(events) = events[1]
        /\ Len(events') = Len(events) - 1
        /\ \A i \in 1..Len(events') : events'[i] = events[i + 1]
    BY TailOfEvents
  <1>2. \A i \in 1..Len(events') : i + 1 \in 1..Len(events) /\ i + 1 # 1
    BY <1>1
  <1>3. 1 \in 1..Len(events)
    BY <1>1
  <1>4. ASSUME NEW i \in 1..Len(events'), NEW j \in 1..Len(events'), events'[i] = events'[j]
        PROVE  i = j
    BY <1>1, <1>2, <1>4 DEF TcpPending
  <1>5. ASSUME NEW i \in 1..Len(events'), events'[i] = "tcp"
        PROVE  tcpQueue # << >> /\ pc # "tcp" /\ Head(events) # "tcp"
    BY <1>1, <1>2, <1>3, <1>5 DEF TcpPending
  <1> QED
    BY <1>4, <1>5

\* Batches name a descriptor once, and a client only while it has sent something.
LEMMA TcpPendingStep ==
    ASSUME LoopInv, Next
    PROVE  TcpPending'
  <1> USE DEF LoopInv
  <1>1. CASE EpollWait
    <2>1. PICK q \in SetToSeqs(Ready) : events' = q
      BY <1>1 DEF EpollWait
    <2>2. /\ q \in [1..Cardinality(Ready) -> Ready]
          /\ \A i, j \in 1..Cardinality(Ready) : i # j => q[i] # q[j]
      BY DEF SetToSeqs
    <2>3. Cardinality(Ready) \in Nat
      BY ReadyFinite
    <2>4. Len(q) = Cardinality(Ready)
      BY <2>2, <2>3
    <2>5. pc' = "batch" /\ tcpQueue' = tcpQueue
      BY <1>1 DEF EpollWait, netVars
    <2>6. "tcp" \in Ready => tcpQueue # << >>
      BY DEF Ready
    <2> QED
      BY <2>1, <2>2, <2>4, <2>5, <2>6 DEF TcpPending
  <1>2. CASE TcpEvent
    <2>1. tcpQueue' = << >> => pc' = "batch"
      BY <1>2 DEF TcpEvent
    <2>2. CASE pc = "tcp" /\ UNCHANGED events
      BY <2>1, <2>2 DEF TcpPending
    <2>3. CASE events # << >> /\ Head(events) = "tcp" /\ events' = Tail(events)
      BY <2>1, <2>3, TailKeepsOnce DEF TcpPending
    <2> QED
      BY <1>2, <2>2, <2>3 DEF TcpEvent
  <1>3. CASE ShutdownTimer \/ UdpEvent
    <2>1. /\ pc' # "tcp" /\ tcpQueue' = tcpQueue
          /\ events # << >> /\ events' = Tail(events)
      BY <1>3 DEF ShutdownTimer, UdpEvent, netVars
    <2> QED
      BY <2>1, TailKeepsOnce DEF TcpPending
  <1>4. CASE TcpArrives
    <2>1. PICK c \in Commands : tcpQueue' = Append(tcpQueue, c)
      BY <1>4 DEF TcpArrives
    <2>2. tcpQueue' # << >>
      BY <2>1, AppendProperties DEF LoopTypeOK
    <2> QED
      BY <1>4, <2>2 DEF TcpArrives, TcpPending
  <1>5. CASE UNCHANGED <<events, tcpQueue>> /\ (pc' # "tcp" \/ pc' = pc)
    BY <1>5 DEF TcpPending
  <1> QED
    BY <1>1, <1>2, <1>3, <1>4, <1>5
    DEF Next, Loop, Environment, Terminated, vars, netVars, UdpArrives, HttpShutdown, TimerExpires, Second,
        BeginDraining, StopServers, GoOn, EpollFails, AcceptThrows, UdpRequest, UdpDone, PeriodicCleanup

\* The queues and the counters of the environment.
LEMMA EnvironmentTypeStep ==
    ASSUME LoopInv, Environment
    PROVE  LoopTypeOK'
  <1>1. now \in Nat /\ MaxArrivals \in Nat /\ MaxExpirations \in Nat
    BY SessionAssumption, ServerAssumption DEF LoopInv, Accounts, SessionTypeOK
  <1>2. CASE UdpArrives
    BY <1>1, <1>2 DEF UdpArrives, LoopInv, LoopTypeOK, loopVars
  <1>3. CASE TcpArrives
    BY <1>1, <1>3 DEF TcpArrives, LoopInv, LoopTypeOK, loopVars
  <1>4. CASE HttpShutdown
    BY <1>1, <1>4 DEF HttpShutdown, LoopInv, LoopTypeOK, netVars
  <1>5. CASE TimerExpires
    BY <1>1, <1>5 DEF TimerExpires, LoopInv, LoopTypeOK, netVars
  <1>6. CASE Second
    <2>1. lastCleanup' = lastCleanup /\ now' = now + 1
      BY <1>6 DEF Second, Tick
    <2>2. lastCleanup' \in 0..now'
      BY <1>1, <2>1 DEF LoopInv, LoopTypeOK
    <2> QED
      BY <1>6, <2>2 DEF Second, LoopInv, LoopTypeOK, loopVars, netVars
  <1> QED
    BY <1>2, <1>3, <1>4, <1>5, <1>6 DEF Environment

\* The steps of the loop.
LEMMA LoopTypeStep ==
    ASSUME LoopInv, Loop
    PROVE  LoopTypeOK'
  <1>1. /\ now \in Nat /\ MaxArrivals \in Nat /\ MaxExpirations \in Nat /\ lastCleanup \in 0..now
        /\ TimerRuns \in BOOLEAN
    BY SessionAssumption, ServerAssumption DEF LoopInv, Accounts, SessionTypeOK, LoopTypeOK, TimerRuns
  <1>2. events # << >> => Tail(events) \in Seq({"timer", "udp", "tcp"})
    BY HeadTailProperties DEF LoopInv, LoopTypeOK
  <1>3. udpQueue # << >> => Tail(udpQueue) \in Seq(Datagrams)
    BY HeadTailProperties DEF LoopInv, LoopTypeOK
  <1>4. CASE BeginDraining
    BY <1>1, <1>4 DEF BeginDraining, LoopInv, LoopTypeOK, netVars
  <1>5. CASE StopServers
    BY <1>1, <1>5 DEF StopServers, LoopInv, LoopTypeOK, netVars
  <1>6. CASE GoOn
    BY <1>1, <1>6 DEF GoOn, LoopInv, LoopTypeOK, netVars, loopVars
  <1>7. CASE EpollWait
    BY <1>1, <1>7, EventsType DEF EpollWait, LoopInv, LoopTypeOK, netVars, loopVars
  <1>8. CASE EpollFails
    BY <1>1, <1>8 DEF EpollFails, LoopInv, LoopTypeOK, netVars, loopVars
  <1>15. CASE AcceptThrows
    BY <1>1, <1>15 DEF AcceptThrows, LoopInv, LoopTypeOK, netVars, loopVars
  <1>9. CASE ShutdownTimer
    BY <1>1, <1>2, <1>9 DEF ShutdownTimer, LoopInv, LoopTypeOK, netVars
  <1>10. CASE UdpEvent
    BY <1>1, <1>2, <1>10 DEF UdpEvent, LoopInv, LoopTypeOK, netVars, loopVars
  <1>11. CASE UdpRequest
    BY <1>1, <1>3, <1>11 DEF UdpRequest, LoopInv, LoopTypeOK, loopVars
  <1>12. CASE UdpDone
    BY <1>1, <1>3, <1>12 DEF UdpDone, LoopInv, LoopTypeOK, loopVars
  <1>13. CASE TcpEvent
    <2>1. tcpQueue # << >>
      BY <1>13, TcpThere DEF LoopInv
    <2>2. tcpQueue' \in Seq(Commands)
      BY <1>13, <2>1, HeadTailProperties DEF TcpEvent, LoopInv, LoopTypeOK
    <2>3. m_shutdownRequest' \in BOOLEAN
      BY <1>13, HandleStep DEF TcpEvent, LoopInv, LoopTypeOK
    <2>4. events' \in Seq({"timer", "udp", "tcp"})
      BY <1>2, <1>13 DEF TcpEvent, LoopInv, LoopTypeOK
    <2> QED
      BY <1>1, <1>13, <2>2, <2>3, <2>4 DEF TcpEvent, LoopInv, LoopTypeOK
  <1>14. CASE PeriodicCleanup
    BY <1>1, <1>14 DEF PeriodicCleanup, LoopInv, LoopTypeOK, netVars, loopVars
  <1> QED
    BY <1>4, <1>5, <1>6, <1>7, <1>8, <1>9, <1>10, <1>11, <1>12, <1>13, <1>14, <1>15 DEF Loop

----------------------------------------------------------------------------
(* Draining.                                                               *)

\* The drain flag and the request stand once set, and STOPPING is reached with an empty
\* session table only, which stays empty.
LEMMA DrainingStep ==
    ASSUME LoopInv, Next
    PROVE  Draining'
  <1>1. m_shutdownRequest => m_shutdownRequest'
    <2>1. CASE TcpEvent
      BY <2>1, HandleStep DEF TcpEvent, LoopInv
    <2> QED
      BY <2>1 DEF Next, Loop, Environment, Terminated, vars, loopVars, UdpArrives, TcpArrives, HttpShutdown,
                  TimerExpires, Second, BeginDraining, StopServers, GoOn, EpollWait, EpollFails, AcceptThrows,
                  ShutdownTimer, UdpEvent, UdpRequest, UdpDone, PeriodicCleanup
  <1>2. CASE BeginDraining
    BY <1>2 DEF BeginDraining, startDraining, Draining, LoopInv
  <1>3. CASE Shrinks /\ state' = state
    BY <1>1, <1>3 DEF Shrinks, Draining, LoopInv
  <1>4. CASE Shrinks /\ StopServers
    BY <1>1, <1>4 DEF Shrinks, StopServers, Draining, LoopInv
  <1>5. CASE Shrinks /\ ShutdownTimer
    <2>1. m_draining' /\ m_shutdownRequest'
      BY <1>1, <1>5 DEF Shrinks, ShutdownTimer, Draining, LoopInv
    <2>2. ASSUME state' # state PROVE Active' = {}
      <3>1. deleteSessions(Active)
        BY <1>5, <2>2 DEF ShutdownTimer
      <3> QED
        BY <3>1 DEF deleteSessions, Active
    <2>3. state = "DRAINING"
      BY <1>5 DEF ShutdownTimer
    <2> QED
      BY <2>1, <2>2, <2>3 DEF Draining
  <1>6. Shrinks \/ BeginDraining
    BY SessionsStep
  <1>7. state' = state \/ BeginDraining \/ StopServers \/ ShutdownTimer
    BY DEF Next, Loop, Environment, Terminated, vars, loopVars, UdpArrives, TcpArrives, HttpShutdown,
           TimerExpires, Second, GoOn, EpollWait, EpollFails, AcceptThrows, UdpEvent, UdpRequest, UdpDone, TcpEvent,
           PeriodicCleanup
  <1> QED
    BY <1>2, <1>3, <1>4, <1>5, <1>6, <1>7

\* The invariant of the loop is inductive.
LEMMA LoopInvInductive ==
    /\ Init => LoopInv
    /\ LoopInv /\ [Next]_vars => LoopInv'
  <1>1. ASSUME Init PROVE LoopInv
    <2>1. Accounts /\ now = 0
      BY <1>1, InitAccounts DEF Init, SessionInit
    <2>2. LoopTypeOK
      <3>1. events \in Seq({"timer", "udp", "tcp"}) /\ udpQueue \in Seq(Datagrams) /\ tcpQueue \in Seq(Commands)
        BY <1>1, EmptySeq DEF Init
      <3>2. expirations \in 0..MaxExpirations /\ arrivals \in 0..MaxArrivals /\ lastCleanup \in 0..now
        BY <1>1, <2>1, SessionAssumption, ServerAssumption DEF Init
      <3> QED
        BY <1>1, <3>1, <3>2, Zenon DEF Init, LoopTypeOK
    <2>3. TcpPending /\ Draining
      BY <1>1, EmptySeq DEF Init, TcpPending, Draining
    <2> QED
      BY <2>1, <2>2, <2>3 DEF LoopInv
  <1>2. ASSUME LoopInv, Next PROVE LoopInv'
    <2>1. LoopTypeOK'
      <3>1. CASE Terminated
        BY <1>2, <3>1 DEF Terminated, vars, loopVars, netVars, LoopInv, LoopTypeOK
      <3> QED
        BY <1>2, <3>1, LoopTypeStep, EnvironmentTypeStep DEF Next
    <2> QED
      BY <1>2, <2>1, SessionsStep, TcpPendingStep, DrainingStep DEF LoopInv
  <1>3. ASSUME LoopInv, UNCHANGED vars PROVE LoopInv'
    <2>1. Accounts'
      <3>1. Accounts /\ UNCHANGED sessionVars /\ now' \in Nat /\ now' >= now
        BY <1>3 DEF vars, LoopInv, Accounts, SessionTypeOK
      <3> QED
        BY <3>1, StandStill
    <2>2. LoopTypeOK' /\ TcpPending'
      BY <1>3 DEF vars, loopVars, netVars, LoopInv, LoopTypeOK, TcpPending
    <2>3. Draining'
      BY <1>3 DEF vars, loopVars, sessionVars, LoopInv, Draining, Active
    <2> QED
      BY <2>1, <2>2, <2>3 DEF LoopInv
  <1> QED
    BY <1>1, <1>2, <1>3

\* Type correctness of the loop; in particular every TCP event finds a command.
THEOREM LoopTypeCorrect == Spec => [](SessionTypeOK /\ LoopTypeOK)
  <1>1. LoopInv => SessionTypeOK /\ LoopTypeOK
    BY DEF LoopInv, Accounts
  <1> QED
    BY <1>1, LoopInvInductive, PTL DEF Spec

\* The server stops only when it is drained: in STOPPING and STOPPED no session is
\* left, none comes back, and each session ever created has been counted as ended.
THEOREM StopsOnlyWhenDrained == Spec => []StoppedMeansDrained
  <1>1. LoopInv => StoppedMeansDrained
    <2> SUFFICES ASSUME LoopInv, state \in {"STOPPING", "STOPPED"}
                 PROVE  StoppedMeansDrained
      BY DEF StoppedMeansDrained
    <2>1. m_draining /\ m_shutdownRequest /\ Active = {} /\ Cardinality(Active) = 0
      BY FS_EmptySet DEF LoopInv, Draining
    <2>2. m_stats.expiredSessions \in Nat /\ m_stats.terminateSessions \in Nat
      BY DEF LoopInv, Accounts, SessionTypeOK, Statistics
    <2> QED
      BY <2>1, <2>2 DEF StoppedMeansDrained, LoopInv, Accounts, StatisticsAddUp
  <1> QED
    BY <1>1, LoopInvInductive, PTL DEF Spec

----------------------------------------------------------------------------
(* The lifetime of a session.                                              *)

\* The bound is not inductive by itself: it rests on when the last cleanup was, which
\* let no session pass that had expired, and on the loop getting to its end, where the
\* cleanup is, before a second passes.
CleanedInTime ==
    /\ now - lastCleanup <= CleanupInterval + 1
    /\ iterated => now - lastCleanup <= CleanupInterval
    /\ \A i \in Active : lastCleanup - m_sessions[i] < m_sessionTimeoutSec

LifetimeInv == LoopInv /\ CleanedInTime

\* A session keeps the time of its creation, and one that begins has the present time.
NewOrKept ==
    \A i \in Active' : m_sessions'[i] # now => i \in Active /\ m_sessions'[i] = m_sessions[i]

\* A request for a session.
LEMMA CreateKeeps ==
    ASSUME SessionTypeOK, NEW imsi \in Imsi, createSession(imsi)
    PROVE  NewOrKept
  <1>1. m_sessions' \in {m_sessions, [m_sessions EXCEPT ![imsi] = now]}
    BY DEF createSession, Refuse, Reject, Create, sessionVars
  <1>2. m_sessions \in [Imsi -> Int]
    BY DEF SessionTypeOK
  <1>3. \A i \in Imsi : m_sessions'[i] = m_sessions[i] \/ m_sessions'[i] = now
    BY <1>1, <1>2
  <1> QED
    BY <1>3 DEF NewOrKept, Active

\* The end of sessions, of none in particular too.
LEMMA DeleteKeeps ==
    ASSUME NEW S, deleteSessions(S)
    PROVE  NewOrKept
  BY DEF deleteSessions, NewOrKept, Active

\* No step but the cleanup looks at lastCleanup, and none changes when a session began.
LEMMA BeginningsStand ==
    ASSUME LoopInv, Next
    PROVE  NewOrKept
  <1>1. ValidImsi \subseteq Imsi /\ SessionTypeOK
    BY SessionAssumption DEF LoopInv, Accounts
  <1>2. CASE UNCHANGED m_sessions
    BY <1>2 DEF NewOrKept, Active
  <1>3. ASSUME NEW imsi \in Imsi, createSession(imsi) \/ terminateSession(imsi)
        PROVE  NewOrKept
    BY <1>1, <1>2, <1>3, CreateKeeps, DeleteKeeps DEF terminateSession, sessionVars
  <1>4. CASE ShutdownTimer
    BY <1>4, DeleteKeeps DEF ShutdownTimer
  <1>5. CASE UdpRequest
    BY <1>1, <1>2, <1>3, <1>5 DEF UdpRequest, sessionVars
  <1>6. CASE TcpEvent
    <2>1. PICK c : Handle(c)
      BY <1>6 DEF TcpEvent
    <2> QED
      BY <1>1, <1>2, <1>3, <2>1 DEF Handle, sessionVars
  <1>7. CASE PeriodicCleanup
    BY <1>2, <1>7, DeleteKeeps DEF PeriodicCleanup, cleanTimeoutSessions, sessionVars
  <1> QED
    BY <1>2, <1>4, <1>5, <1>6, <1>7
    DEF Next, Loop, Environment, Terminated, vars, sessionVars, UdpArrives, TcpArrives, HttpShutdown,
        TimerExpires, Second, Tick, BeginDraining, startDraining, StopServers, GoOn, EpollWait,
        EpollFails, AcceptThrows, UdpEvent, UdpDone

\* Between two cleanups no session gets too old, and a second passes only after an
\* iteration of the loop, which cleans when it is time.
LEMMA CleanedInTimeStep ==
    ASSUME LifetimeInv, Next
    PROVE  CleanedInTime'
  <1>1. /\ now \in Nat /\ lastCleanup \in Nat /\ lastCleanup <= now /\ CleanupInterval \in Nat
        /\ m_sessionTimeoutSec \in Nat \ {0}
        /\ \A i \in Imsi : m_sessions[i] \in Int
    BY SessionAssumption DEF LifetimeInv, LoopInv, Accounts, SessionTypeOK, LoopTypeOK, CleanupInterval
  <1>2. Active \subseteq Imsi
    BY DEF Active
  <1> HIDE DEF CleanupInterval
  <1>3. ASSUME lastCleanup' = lastCleanup
        PROVE  \A i \in Active' : lastCleanup' - m_sessions'[i] < m_sessionTimeoutSec
    BY <1>1, <1>2, <1>3, BeginningsStand DEF LifetimeInv, CleanedInTime, NewOrKept
  <1>4. CASE UNCHANGED <<now, lastCleanup, iterated>>
    BY <1>3, <1>4 DEF LifetimeInv, CleanedInTime, CleanupInterval
  <1>5. CASE Second
    BY <1>1, <1>3, <1>5 DEF Second, Tick, LifetimeInv, CleanedInTime, CleanupInterval
  <1>6. CASE PeriodicCleanup /\ ~(now - lastCleanup > CleanupInterval)
    BY <1>1, <1>3, <1>6 DEF PeriodicCleanup, LifetimeInv, CleanedInTime, CleanupInterval
  <1>7. CASE PeriodicCleanup /\ now - lastCleanup > CleanupInterval
    <2>1. /\ deleteSessions(Expired) /\ lastCleanup' = now /\ now' = now
      BY <1>7 DEF PeriodicCleanup, cleanTimeoutSessions
    <2>2. \A i \in Active' : i \in Active \ Expired /\ m_sessions'[i] = m_sessions[i]
      BY <2>1 DEF deleteSessions, Active
    <2>3. \A i \in Active \ Expired : now - m_sessions[i] < m_sessionTimeoutSec
      BY <1>1, <1>2 DEF Expired
    <2> QED
      BY <1>1, <2>1, <2>2, <2>3 DEF CleanedInTime, CleanupInterval
  <1> QED
    BY <1>4, <1>5, <1>6, <1>7
    DEF Next, Loop, Environment, Terminated, vars, UdpArrives, TcpArrives, HttpShutdown, TimerExpires,
        BeginDraining, StopServers, GoOn, EpollWait, EpollFails, AcceptThrows, ShutdownTimer, UdpEvent, UdpRequest,
        UdpDone, TcpEvent

\* No session outlives its timeout by more than the cleanup interval, for every
\* subscriber base, timeout, shutdown rate and load: neither a batch of events, nor
\* draining, nor a failing epoll_wait puts the cleanup off for longer.
THEOREM LifetimesBounded == Spec => []SessionLifetimeBounded
  <1>1. Init => LifetimeInv
    <2> SUFFICES ASSUME Init PROVE LifetimeInv
      OBVIOUS
    <2>1. now = 0 /\ lastCleanup = 0 /\ Active = {} /\ CleanupInterval \in Nat
      BY DEF Init, SessionInit, Active, CleanupInterval
    <2> QED
      BY <2>1, LoopInvInductive DEF LifetimeInv, CleanedInTime
  <1>2. LifetimeInv /\ [Next]_vars => LifetimeInv'
    <2>1. ASSUME LifetimeInv, UNCHANGED vars PROVE CleanedInTime'
      BY <2>1 DEF vars, sessionVars, LifetimeInv, CleanedInTime, Active
    <2> QED
      BY <2>1, LoopInvInductive, CleanedInTimeStep DEF LifetimeInv
  <1>3. LifetimeInv => SessionLifetimeBounded
    <2> SUFFICES ASSUME LifetimeInv, NEW i \in Active
                 PROVE  now - m_sessions[i] <= m_sessionTimeoutSec + CleanupInterval
      BY DEF SessionLifetimeBounded
    <2>1. /\ now \in Nat /\ lastCleanup \in Nat /\ m_sessions[i] \in Int
          /\ m_sessionTimeoutSec \in Nat /\ CleanupInterval \in Nat
      BY SessionAssumption
      DEF LifetimeInv, LoopInv, Accounts, SessionTypeOK, LoopTypeOK, CleanupInterval, Active
    <2>2. /\ now - lastCleanup <= CleanupInterval + 1
          /\ lastCleanup - m_sessions[i] < m_sessionTimeoutSec
      BY DEF LifetimeInv, CleanedInTime
    <2> HIDE DEF CleanupInterval
    <2> QED
      BY <2>1, <2>2
  <1> QED
    BY <1>1, <1>2, <1>3, PTL DEF Spec

----------------------------------------------------------------------------
(* The books of the session manager, kept by the loop.                     *)

LoopBooks == LoopInv /\ Books

\* Whatever the loop does, one record is written for every session that begins or ends and
\* for every rejection.  The shutdown timer ends several sessions in one step.
LEMMA BooksInTheLoop ==
    ASSUME LoopBooks, Next
    PROVE  BillingMatchesSessions' /\ StatisticsMatchCdr'
  <1> DEFINE Kept == BillingMatchesSessions' /\ StatisticsMatchCdr'
  <1> SUFFICES Kept
    OBVIOUS
  <1>1. /\ ValidImsi \subseteq Imsi /\ Books
        /\ m_stats \in Statistics
        /\ m_stats.expiredSessions \in Nat /\ m_stats.terminateSessions \in Nat
        /\ \A S \in SUBSET Active : Cardinality(S) \in Nat
    BY SessionAssumption, ActiveFinite, FS_Subset, FS_CardinalityType
    DEF LoopBooks, Books, Accounts, SessionTypeOK, Statistics
  <1>2. CASE UNCHANGED <<m_sessions, m_stats, cdr>>
    BY <1>1, <1>2, BooksStand
  <1>3. ASSUME NEW imsi \in Imsi, createSession(imsi) \/ terminateSession(imsi) PROVE Kept
    BY <1>1, <1>3, BooksOfCreate, BooksOfTerminate
  <1>4. CASE ShutdownTimer
    <2>1. PICK S \in SUBSET Active :
             /\ deleteSessions(S)
             /\ m_stats' = [m_stats EXCEPT !.activeSessions = Cardinality(Active'),
                                           !.terminateSessions = @ + Cardinality(S)]
      BY <1>4 DEF ShutdownTimer
    <2>2. /\ m_stats'.createdSessions = m_stats.createdSessions
          /\ m_stats'.rejectedSessions = m_stats.rejectedSessions
          /\ m_stats'.expiredSessions = m_stats.expiredSessions
          /\ m_stats'.terminateSessions = m_stats.terminateSessions + Cardinality(S)
      BY <1>1, <2>1 DEF Statistics
    <2> QED
      BY <1>1, <2>1, <2>2, BooksOfTheEnd
  <1>5. CASE UdpRequest
    BY <1>1, <1>2, <1>3, <1>5 DEF UdpRequest, sessionVars
  <1>6. CASE TcpEvent
    <2>1. PICK c : Handle(c)
      BY <1>6 DEF TcpEvent
    <2> QED
      BY <1>1, <1>2, <1>3, <2>1 DEF Handle, sessionVars
  <1>7. CASE cleanTimeoutSessions
    <2>1. Expired \in SUBSET Active /\ deleteSessions(Expired)
      BY <1>7 DEF cleanTimeoutSessions, Expired
    <2>2. /\ m_stats'.createdSessions = m_stats.createdSessions
          /\ m_stats'.rejectedSessions = m_stats.rejectedSessions
          /\ m_stats'.expiredSessions = m_stats.expiredSessions + Cardinality(Expired)
          /\ m_stats'.terminateSessions = m_stats.terminateSessions
      BY <1>1, <1>7 DEF cleanTimeoutSessions, Statistics
    <2> QED
      BY <1>1, <2>1, <2>2, BooksOfTheEnd
  <1> HIDE DEF Kept
  <1> QED
    BY <1>2, <1>4, <1>5, <1>6, <1>7
    DEF Next, Loop, Environment, Terminated, vars, sessionVars, UdpArrives, TcpArrives, HttpShutdown,
        TimerExpires, Second, Tick, BeginDraining, startDraining, StopServers, GoOn, EpollWait,
        EpollFails, AcceptThrows, UdpEvent, UdpDone, PeriodicCleanup

\* The program bills every session once, and its statistics agree with the records: with
\* requests over UDP and TCP, time-outs and the shutdown timer in any order.
THEOREM LoopBillsExactly == Spec => [](BillingMatchesSessions /\ StatisticsMatchCdr)
  <1>1. Init => LoopBooks
    BY LoopInvInductive, InitBooks DEF Init, LoopBooks
  <1>2. LoopBooks /\ [Next]_vars => LoopBooks'
    <2>1. ASSUME LoopBooks, UNCHANGED vars PROVE BillingMatchesSessions' /\ StatisticsMatchCdr'
      BY <2>1, BooksStand DEF vars, sessionVars, LoopBooks
    <2>2. LoopInv /\ [Next]_vars => Accounts'
      BY LoopInvInductive DEF LoopInv
    <2> QED
      BY <2>1, <2>2, LoopInvInductive, BooksInTheLoop DEF LoopBooks, Books
  <1>3. LoopBooks => BillingMatchesSessions /\ StatisticsMatchCdr
    BY DEF LoopBooks, Books
  <1> QED
    BY <1>1, <1>2, <1>3, PTL DEF Spec

\* Once it drains, the program gives nobody a session, and it never gives one to a
\* blacklisted subscriber: over UDP or TCP, in the batch in which draining begins too.
THEOREM LoopGrantsNone == Spec => NoSessionGranted
  <1>1. ASSUME LoopInv, [Next]_vars PROVE NoneGranted
    <2>1. SessionTypeOK /\ ValidImsi \subseteq Imsi
      BY <1>1, SessionAssumption DEF LoopInv, Accounts
    <2>2. CASE UNCHANGED m_sessions
      BY <2>2 DEF Active, NoneGranted
    <2>3. ASSUME NEW imsi \in Imsi, createSession(imsi) \/ terminateSession(imsi)
          PROVE  NoneGranted
      BY <2>1, <2>3, CreateGrants, TerminateGrants
    <2>4. CASE ShutdownTimer
      BY <2>1, <2>4, DeleteGrants DEF ShutdownTimer
    <2>5. CASE UdpRequest
      BY <2>1, <2>2, <2>3, <2>5 DEF UdpRequest, sessionVars
    <2>6. CASE TcpEvent
      <3>1. PICK c : Handle(c)
        BY <2>6 DEF TcpEvent
      <3> QED
        BY <2>1, <2>2, <2>3, <3>1 DEF Handle, sessionVars
    <2>7. CASE PeriodicCleanup
      BY <2>1, <2>2, <2>7, DeleteGrants DEF PeriodicCleanup, cleanTimeoutSessions, sessionVars
    <2> QED
      BY <1>1, <2>2, <2>4, <2>5, <2>6, <2>7
      DEF Next, Loop, Environment, Terminated, vars, sessionVars, UdpArrives, TcpArrives, HttpShutdown,
          TimerExpires, Second, Tick, BeginDraining, startDraining, StopServers, GoOn, EpollWait,
          EpollFails, AcceptThrows, UdpEvent, UdpDone
  <1> QED
    BY <1>1, LoopInvInductive, PTL DEF Spec, NoSessionGranted, NoneGranted
=============================================================================
