-------------------------- MODULE Lifecycle_proofs --------------------------
(***************************************************************************)
(* Proofs about the life of the server process.                            *)
(***************************************************************************)
EXTENDS Lifecycle, TLAPS

Base == {"m_config", "m_shutdownRequest"}
AllMembers == {Members[n] : n \in DOMAIN Members}

\* The members that are there at a place of the start-up.
BuiltAt(place) ==
    CASE place \in {"config", "logger", "database", "cdr"} -> Base
      [] place = "manager" -> Base \union {"m_cdrWriter"}
      [] place = "udp" -> Base \union {"m_cdrWriter", "m_sessionManager"}
      [] place = "http" -> Base \union {"m_cdrWriter", "m_sessionManager", "m_udpServer"}
      [] place = "handler" -> AllMembers \ {"m_dbManager", "m_tcpHandler", "m_tcpServer"}
      [] place = "tcp" -> AllMembers \ {"m_dbManager", "m_tcpServer"}
      [] place \in {"startUdp", "startHttp", "startTcp", "loop"} -> AllMembers \ {"m_dbManager"}
      [] place \in {"httpStop", "httplibStop", "join"} -> {"m_httpServer"}
      [] OTHER -> {}

BeforeHttp ==
    {"config", "logger", "database", "cdr", "manager", "udp", "http", "handler", "tcp",
     "startUdp", "startHttp"}

\* What exists: everything built so far, and whatever a member refers to.
Structure ==
    /\ BuiltAt(pc) \subseteq alive
    /\ \A m \in alive : Refers(m) \subseteq alive
    /\ pc \in {"startHttp", "startTcp", "loop"} => udpRunning
    /\ pc = "loop" => tcpRunning

\* HttpServer, its thread and its handlers.
HttpInv ==
    /\ pc \in BeforeHttp => listener = "none"
    /\ pc \in {"httplibStop", "join"} => ~httpRunning
    /\ \/ httpRunning \/ listener \in {"none", "joined"} \/ pc \in {"httplibStop", "join", "crashed"}
    /\ listener \notin {"none", "joined"} => "m_httpServer" \in alive
    /\ (\E r \in HttpRequests : request[r] # "none") => listener \in {"listening", "closing"}

\* The null logger comes with the exit code 1, and never back to the start.
LoggerInv ==
    /\ pc \in BeforeHttp \union {"startTcp", "loop", "throw"} => default_logger # "null"
    /\ default_logger = "null" => exitCode = 1

\* A server that has been in its loop, and has thrown, was draining.
ThrownInv ==
    /\ pc \in BeforeHttp \union {"startTcp"} => ~tcpRunning
    /\ pc \in BeforeHttp \union {"startTcp", "loop"} => exitCode = -1
    /\ tcpRunning /\ (pc = "throw" \/ exitCode = 1) => m_shutdownRequest

\* A file that is refused leads to nothing.
ConfigInv ==
    \/ m_verification(configFile)
    \/ pc \in {"config", "unwind", "ended", "crashed"} /\ alive \subseteq Base

LifeInv ==
    /\ LifecycleTypeOK /\ Structure /\ HttpInv /\ LoggerInv /\ ThrownInv /\ ConfigInv
    /\ CrashOnlyAfterException

----------------------------------------------------------------------------
(* Members and their references.                                           *)

\* The members, spelled out.
LEMMA MembersAre ==
    /\ DOMAIN Members = 1..9
    /\ AllMembers = {"m_config", "m_shutdownRequest", "m_dbManager", "m_cdrWriter",
                     "m_sessionManager", "m_tcpHandler", "m_tcpServer", "m_udpServer",
                     "m_httpServer"}
  <1>1. DOMAIN Members = 1..9
    BY DEF Members
  <1>2. \A n \in 1..9 : n = 1 \/ n = 2 \/ n = 3 \/ n = 4 \/ n = 5 \/ n = 6 \/ n = 7 \/ n = 8 \/ n = 9
    OBVIOUS
  <1> QED
    BY <1>1, <1>2 DEF AllMembers, Members

\* A set of places has a last one.
LEMMA LastOfFew ==
    ASSUME NEW S \in SUBSET (1..9), S # {}
    PROVE  \E n \in S : \A k \in S : k <= n
  <1> SUFFICES ASSUME \A n \in S : \E k \in S : k > n PROVE FALSE
    OBVIOUS
  <1>1. \A n \in S : n <= 6
    <2>1. 9 \notin S
      OBVIOUS
    <2>2. 8 \notin S
      BY <2>1
    <2>3. 7 \notin S
      BY <2>1, <2>2
    <2> QED
      BY <2>1, <2>2, <2>3
  <1>2. \A n \in S : n <= 3
    <2>1. 6 \notin S
      BY <1>1
    <2>2. 5 \notin S
      BY <1>1, <2>1
    <2>3. 4 \notin S
      BY <1>1, <2>1, <2>2
    <2> QED
      BY <1>1, <2>1, <2>2, <2>3
  <1>3. 3 \notin S
    BY <1>2
  <1>4. 2 \notin S
    BY <1>2, <1>3
  <1>5. 1 \notin S
    BY <1>2, <1>3, <1>4
  <1>6. ASSUME NEW n \in S PROVE FALSE
    <2>1. n \in 1..3
      BY <1>2
    <2>2. n = 1 \/ n = 2 \/ n = 3
      BY <2>1
    <2> QED
      BY <2>2, <1>3, <1>4, <1>5, <1>6
  <1> QED
    BY <1>6

\* The member destroyed next is there, and no member that is there refers to it.
LEMMA YoungestIsFree ==
    ASSUME alive \subseteq AllMembers, alive # {}
    PROVE  /\ Youngest \in alive
           /\ \A m \in alive : Youngest \notin Refers(m)
  <1> DEFINE IsLast(n) == Members[n] \in alive /\ \A k \in DOMAIN Members : Members[k] \in alive => k <= n
  <1>1. \E n \in DOMAIN Members : IsLast(n)
    <2> DEFINE Places == {n \in 1..9 : Members[n] \in alive}
    <2>1. Places # {}
      BY MembersAre DEF AllMembers
    <2>2. PICK n \in Places : \A k \in Places : k <= n
      BY <2>1, LastOfFew
    <2> QED
      BY <2>2, MembersAre
  <1>2. PICK n \in 1..9 : Youngest = Members[n] /\ IsLast(n)
    BY <1>1, MembersAre DEF Youngest
  <1>3. ASSUME NEW m \in alive, Youngest \in Refers(m) PROVE FALSE
    BY <1>2, <1>3, MembersAre DEF Members, Refers
  <1> QED
    BY <1>2, <1>3

----------------------------------------------------------------------------
(* Every step keeps the invariant.                                         *)

\* The process dies.
LEMMA DiesStep ==
    ASSUME LifeInv, Dies, default_logger = "null", "m_cdrWriter" \in alive
    PROVE  LifeInv'
  BY DEF LifeInv, Dies, logVars, runVars, httpVars, LifecycleTypeOK, LoggerInv, ThrownInv, BeforeHttp,
         CrashOnlyAfterException, Structure, BuiltAt, Refers, HttpInv, ConfigInv, Base

\* Start-up gives up.
LEMMA ThrowsStep ==
    ASSUME LifeInv, NEW from \in {"udp", "tcp", "startUdp", "startTcp"}, Throws(from)
    PROVE  LifeInv'
  BY DEF LifeInv, Throws, Step, logVars, runVars, httpVars, LifecycleTypeOK, LoggerInv, ThrownInv, BeforeHttp,
         CrashOnlyAfterException, Structure, BuiltAt, Refers, HttpInv, ConfigInv, Base

\* Start-up gains a member.
LEMMA ConstructStep ==
    ASSUME LifeInv,
           \/ initializeSessionManager
           \/ Construct("m_udpServer", "udp", "http")
           \/ Construct("m_httpServer", "http", "handler")
           \/ Construct("m_tcpHandler", "handler", "tcp")
           \/ Construct("m_tcpServer", "tcp", "startUdp")
    PROVE  LifeInv'
  <1> USE DEF LifeInv, initializeSessionManager, Construct, Step, logVars, runVars, httpVars
  <1>1. LifecycleTypeOK'
    BY MembersAre DEF LifecycleTypeOK, AllMembers
  <1>2. BuiltAt(pc)' \subseteq alive'
    BY MembersAre DEF Structure, BuiltAt, Base
  <1>3. \A m \in alive' : Refers(m)' \subseteq alive'
    BY MembersAre DEF Structure, BuiltAt, Base, Refers
  <1>4. Structure' /\ HttpInv' /\ LoggerInv' /\ ThrownInv' /\ ConfigInv' /\ CrashOnlyAfterException'
    BY <1>2, <1>3 DEF Structure, HttpInv, LoggerInv, ThrownInv, BeforeHttp, ConfigInv, CrashOnlyAfterException
  <1> QED
    BY <1>1, <1>4

\* The other steps of the start-up, up to the servers.
LEMMA InitializeStep ==
    ASSUME LifeInv, CheckConfig \/ initializeLogger \/ initializeDatabase \/ initializeCdrWriter
    PROVE  LifeInv'
  <1> USE DEF LifeInv, Step, logVars, runVars, httpVars, LifecycleTypeOK, LoggerInv, ThrownInv, BeforeHttp,
              CrashOnlyAfterException, Structure, BuiltAt, Refers, HttpInv, ConfigInv, Base
  <1>1. CASE CheckConfig
    BY <1>1 DEF CheckConfig
  <1>2. CASE initializeLogger
    BY <1>2 DEF initializeLogger
  <1>3. CASE initializeDatabase
    BY <1>3, MembersAre, ZenonT(60) DEF initializeDatabase, AllMembers
  <1>4. CASE initializeCdrWriter
    <2> USE <1>4 DEF initializeCdrWriter
    <2>1. LifecycleTypeOK'
      BY MembersAre DEF AllMembers
    <2>2. Structure'
      BY ZenonT(30)
    <2>3. HttpInv' /\ LoggerInv' /\ ThrownInv' /\ ConfigInv' /\ CrashOnlyAfterException'
      OBVIOUS
    <2> QED
      BY ONLY <2>1, <2>2, <2>3, LifeInv DEF LifeInv
  <1> QED
    BY ONLY <1>1, <1>2, <1>3, <1>4, CheckConfig \/ initializeLogger \/ initializeDatabase \/ initializeCdrWriter

\* The servers start.
LEMMA StartStep ==
    ASSUME LifeInv, StartUdp \/ StartHttp \/ StartTcp
    PROVE  LifeInv'
  <1> USE MembersAre DEF LifeInv, Throws, Step, logVars, runVars, httpVars, LifecycleTypeOK,
              LoggerInv, ThrownInv, BeforeHttp, CrashOnlyAfterException, Structure, BuiltAt, Refers,
              HttpInv, ConfigInv, Base, AllMembers
  <1>1. CASE StartUdp
    <2>1. CASE Throws("startUdp")
      BY <2>1, ThrowsStep
    <2>2. CASE pc' = "startHttp"
      <3>1. LifecycleTypeOK'
        BY <1>1, <2>2 DEF StartUdp
      <3>2. Structure'
        BY <1>1, <2>2 DEF StartUdp
      <3>3. HttpInv' /\ LoggerInv' /\ ThrownInv' /\ ConfigInv' /\ CrashOnlyAfterException'
        BY <1>1, <2>2 DEF StartUdp
      <3> QED
        BY ONLY <3>1, <3>2, <3>3 DEF LifeInv
    <2> QED
      BY ONLY <1>1, <2>1, <2>2 DEF StartUdp, Step
  <1>2. CASE StartHttp
    <2>1. LifecycleTypeOK'
      <3>1. "m_httpServer" \in alive
        BY <1>2 DEF StartHttp
      <3> QED
        <4>1. CASE httpRunning' = TRUE /\ listener' = "starting"
          BY ONLY <1>2, <3>1, <4>1, LifecycleTypeOK DEF StartHttp, Step, logVars, LifecycleTypeOK
        <4>2. CASE UNCHANGED <<httpRunning, listener>>
          BY ONLY <1>2, <3>1, <4>2, LifecycleTypeOK DEF StartHttp, Step, logVars, LifecycleTypeOK
        <4> QED
          BY ONLY <1>2, <4>1, <4>2 DEF StartHttp
    <2>2. Structure'
      BY <1>2 DEF StartHttp
    <2>3. HttpInv' /\ LoggerInv' /\ ThrownInv' /\ ConfigInv' /\ CrashOnlyAfterException'
      BY <1>2 DEF StartHttp
    <2> QED
      BY ONLY <2>1, <2>2, <2>3 DEF LifeInv
  <1>3. CASE StartTcp
    <2>1. CASE Throws("startTcp")
      BY <2>1, ThrowsStep
    <2>2. CASE pc' = "loop"
      <3>1. LifecycleTypeOK'
        BY <1>3, <2>2 DEF StartTcp
      <3>2. Structure'
        BY <1>3, <2>2 DEF StartTcp
      <3>3. HttpInv' /\ LoggerInv' /\ ThrownInv' /\ ConfigInv' /\ CrashOnlyAfterException'
        BY <1>3, <2>2 DEF StartTcp
      <3> QED
        BY ONLY <3>1, <3>2, <3>3 DEF LifeInv
    <2> QED
      BY ONLY <1>3, <2>1, <2>2 DEF StartTcp, Step
  <1> QED
    BY ONLY <1>1, <1>2, <1>3, StartUdp \/ StartHttp \/ StartTcp

\* Server::run catches what the start-up has thrown.
LEMMA CatchStep ==
    ASSUME LifeInv, Catch
    PROVE  LifeInv'
  <1> USE DEF LifeInv, Catch, Step, runVars, httpVars
  <1>1. LifecycleTypeOK' /\ LoggerInv' /\ ThrownInv' /\ ConfigInv' /\ CrashOnlyAfterException'
    BY DEF LifecycleTypeOK, LoggerInv, ThrownInv, BeforeHttp, ConfigInv, CrashOnlyAfterException
  <1>2. Structure' /\ HttpInv'
    BY DEF Structure, BuiltAt, Refers, HttpInv, BeforeHttp
  <1> QED
    BY <1>1, <1>2

\* The whole start-up.
LEMMA StartUpStep ==
    ASSUME LifeInv, StartUp
    PROVE  LifeInv'
  BY InitializeStep, ConstructStep, ThrowsStep, StartStep, CatchStep DEF StartUp, ConstructServers

\* Where there is an HTTP server, or a thread or handler of it, there is a CDR backend.
LEMMA HttpMeansCdr ==
    ASSUME LifeInv
    PROVE  /\ "m_httpServer" \in alive => "m_cdrWriter" \in alive
           /\ \A m \in LogsInDestructor : m \in alive => "m_cdrWriter" \in alive
           /\ listener \notin {"none", "joined"} => "m_cdrWriter" \in alive
           /\ (\E r \in HttpRequests : request[r] # "none") => "m_cdrWriter" \in alive
  <1>1. \A m \in alive : Refers(m) \subseteq alive
    BY DEF LifeInv, Structure
  <1>2. "m_sessionManager" \in alive => "m_cdrWriter" \in alive
    BY <1>1 DEF Refers
  <1>3. \A m \in {"m_httpServer", "m_udpServer", "m_tcpHandler"} : m \in alive => "m_sessionManager" \in alive
    BY <1>1 DEF Refers
  <1>4. "m_tcpServer" \in alive => "m_tcpHandler" \in alive
    BY <1>1 DEF Refers
  <1> QED
    BY <1>2, <1>3, <1>4 DEF LogsInDestructor, LifeInv, HttpInv

\* The listening thread and the handlers.
LEMMA HttpStep ==
    ASSUME LifeInv, Http
    PROVE  LifeInv'
  <1> USE DEF logVars, runVars, httpVars, Live
  <1>1. CASE Dies /\ default_logger = "null" /\ listener = "starting"
    BY <1>1, DiesStep, HttpMeansCdr
  <1>2. CASE Dies /\ default_logger = "null" /\ \E r \in HttpRequests : request[r] # "none"
    BY <1>2, DiesStep, HttpMeansCdr
  <1>3. ASSUME default_logger # "null", Listen PROVE LifeInv'
    BY <1>3 DEF Listen, LifeInv, LifecycleTypeOK, Structure, HttpInv, LoggerInv, ThrownInv, BeforeHttp,
           ConfigInv, CrashOnlyAfterException, BuiltAt, Refers
  <1>4. ASSUME NEW r \in HttpRequests, Route(r) PROVE LifeInv'
    BY <1>4 DEF Route, LifeInv, LifecycleTypeOK, Structure, HttpInv, LoggerInv, ThrownInv, BeforeHttp,
           ConfigInv, CrashOnlyAfterException, BuiltAt, Refers
  <1>5. ASSUME NEW r \in HttpRequests, default_logger # "null", Handle(r) PROVE LifeInv'
    BY <1>5 DEF Handle, LifeInv, LifecycleTypeOK, Structure, HttpInv, LoggerInv, ThrownInv, BeforeHttp,
           ConfigInv, CrashOnlyAfterException, BuiltAt, Refers
  <1>6. ASSUME ListenEnds PROVE LifeInv'
    BY <1>6 DEF ListenEnds, LifeInv, LifecycleTypeOK, Structure, HttpInv, LoggerInv, ThrownInv, BeforeHttp,
           ConfigInv, CrashOnlyAfterException, BuiltAt, Refers
  <1> QED
    BY <1>1, <1>2, <1>3, <1>4, <1>5, <1>6 DEF Http, Listen, Handle

\* The event loop, as a place.
LEMMA LoopStep ==
    ASSUME LifeInv, RequestShutdown \/ LoopStops \/ LoopBreaks \/ LoopThrows
    PROVE  LifeInv'
  <1> USE DEF LifeInv, Step, logVars, runVars, httpVars, BeforeHttp
  <1>1. LifecycleTypeOK'
    <2> USE DEF LifecycleTypeOK
    <2>1. CASE RequestShutdown
      BY <2>1 DEF RequestShutdown
    <2>2. CASE LoopStops
      <3>1. pc' \in {"httpStop", "unwind"}
        BY <2>2 DEF LoopStops
      <3> QED
        BY <2>2, <3>1 DEF LoopStops
    <2>3. CASE LoopBreaks
      BY <2>3 DEF LoopBreaks
    <2>4. CASE LoopThrows
      BY <2>4 DEF LoopThrows
    <2> QED
      BY <2>1, <2>2, <2>3, <2>4
  <1>2. Structure'
    BY MembersAre DEF RequestShutdown, LoopStops, LoopBreaks, LoopThrows, Structure, BuiltAt, Refers,
                      AllMembers
  <1>3. HttpInv' /\ LoggerInv' /\ ThrownInv'
    BY DEF RequestShutdown, LoopStops, LoopBreaks, LoopThrows, HttpInv, LoggerInv, ThrownInv
  <1>4. ConfigInv' /\ CrashOnlyAfterException'
    BY DEF RequestShutdown, LoopStops, LoopBreaks, LoopThrows, ConfigInv, CrashOnlyAfterException
  <1> QED
    BY <1>1, <1>2, <1>3, <1>4

\* HttpServer::stop.
LEMMA HttpStopStep ==
    ASSUME LifeInv, HttpStop \/ HttplibStop \/ Join
    PROVE  LifeInv'
  <1> USE DEF LifeInv, Step, logVars, runVars, httpVars, BeforeHttp
  <1>1. CASE pc = "httpStop" /\ default_logger = "null" /\ Dies
    BY <1>1, DiesStep, HttpMeansCdr DEF Structure, BuiltAt
  <1>2. ASSUME \/ HttpStop /\ default_logger # "null"
               \/ HttplibStop \/ Join
        PROVE  LifeInv'
    <2> USE <1>2 DEF HttpStop, HttplibStop, Join
    <2>1. LifecycleTypeOK'
      <3> USE DEF LifecycleTypeOK
      <3>1. ASSUME HttpStop, default_logger # "null" PROVE LifecycleTypeOK'
        <4>1. /\ pc' = "httplibStop" /\ ~httpRunning' /\ httpRunning' \in BOOLEAN
              /\ UNCHANGED <<configFile, exitCode, alive, fileBackend, logVars, udpRunning,
                              tcpRunning, httpVars>>
          BY ONLY <3>1 DEF HttpStop
        <4> QED
          BY ONLY <4>1, LifecycleTypeOK DEF logVars, httpVars, LifecycleTypeOK
      <3>2. CASE HttplibStop
        BY ONLY <3>2, LifecycleTypeOK DEF HttplibStop, Step, logVars, runVars
      <3>3. CASE Join
        BY ONLY <3>3, LifecycleTypeOK, HttpInv DEF Join, Step, logVars, runVars, HttpInv
      <3> QED
        BY ONLY <1>2, <3>1, <3>2, <3>3
    <2>2. Structure'
      BY DEF Structure, BuiltAt, Refers
    <2>3. HttpInv' /\ LoggerInv' /\ ThrownInv'
      BY DEF HttpInv, LoggerInv, ThrownInv, Structure, BuiltAt, LifecycleTypeOK
    <2>4. ConfigInv' /\ CrashOnlyAfterException'
      BY DEF ConfigInv, CrashOnlyAfterException
    <2> QED
      BY <2>1, <2>2, <2>3, <2>4
  <1> QED
    BY <1>1, <1>2 DEF HttpStop

\* One member goes, and nothing that stays refers to it.
LEMMA DestroyMemberStep ==
    ASSUME LifeInv, pc = "unwind", alive # {}, DestroyMember, Youngest = "m_httpServer" => ~httpRunning
    PROVE  LifeInv'
  <1>1. alive \subseteq AllMembers
    BY DEF LifeInv, LifecycleTypeOK, AllMembers
  <1>2. Youngest \in alive /\ \A m \in alive : Youngest \notin Refers(m)
    BY <1>1, YoungestIsFree
  <1>3. CASE Youngest = "m_httpServer" /\ listener \notin {"none", "joined"}
    BY <1>3 DEF LifeInv, HttpInv
  <1>4. CASE Dies /\ Youngest \in LogsInDestructor /\ default_logger = "null"
    BY <1>2, <1>4, DiesStep, HttpMeansCdr
  <1>5. ASSUME /\ Youngest = "m_httpServer" => listener \in {"none", "joined"}
               /\ alive' = alive \ {Youngest}
               /\ udpRunning' = (udpRunning /\ Youngest # "m_udpServer")
               /\ tcpRunning' = (tcpRunning /\ Youngest # "m_tcpServer")
               /\ UNCHANGED <<configFile, pc, exitCode, fileBackend, logVars, httpRunning, httpVars>>
        PROVE  LifeInv'
    <2> USE <1>2, <1>5 DEF LifeInv, logVars, httpVars
    <2>1. LifecycleTypeOK'
      <3> USE DEF LifecycleTypeOK
      <3>1. /\ udpRunning' \in BOOLEAN /\ (udpRunning' => "m_udpServer" \in alive')
            /\ tcpRunning' \in BOOLEAN /\ (tcpRunning' => "m_tcpServer" \in alive')
            /\ httpRunning => "m_httpServer" \in alive'
        OBVIOUS
      <3> QED
        BY ONLY LifecycleTypeOK, <1>5, <3>1 DEF LifecycleTypeOK, logVars, httpVars
    <2>2. Structure'
      BY DEF Structure, BuiltAt, Refers
    <2>3. HttpInv' /\ LoggerInv' /\ ThrownInv'
      BY DEF HttpInv, LoggerInv, ThrownInv, BeforeHttp
    <2>4. ConfigInv' /\ CrashOnlyAfterException'
      BY DEF ConfigInv, CrashOnlyAfterException
    <2> QED
      BY <2>1, <2>2, <2>3, <2>4
  <1> QED
    BY <1>3, <1>4, <1>5 DEF DestroyMember

\* The destructor of Impl, and the return of main.
LEMMA DestroyStep ==
    ASSUME LifeInv, Destroy \/ End
    PROVE  LifeInv'
  <1>1. CASE Destroy /\ pc' = "httpStop" /\ Youngest = "m_httpServer" /\ httpRunning
    <2> USE <1>1 DEF LifeInv, Destroy, logVars, runVars, httpVars
    <2>1. "m_httpServer" \in alive
      BY DEF LifecycleTypeOK
    <2>2. UNCHANGED <<configFile, exitCode, alive, fileBackend, logVars, runVars, httpVars>>
      OBVIOUS
    <2> HIDE DEF Destroy
    <2>3. LifecycleTypeOK' /\ Structure'
      BY <2>1, <2>2 DEF LifecycleTypeOK, Structure, BuiltAt, Refers
    <2>4. HttpInv' /\ LoggerInv' /\ ThrownInv' /\ CrashOnlyAfterException'
      BY <2>1, <2>2 DEF HttpInv, LoggerInv, ThrownInv, BeforeHttp, CrashOnlyAfterException
    <2>5. ConfigInv'
      BY <2>1, <2>2 DEF ConfigInv, Base, Destroy
    <2> QED
      BY <2>3, <2>4, <2>5
  <1>2. CASE End
    <2> USE <1>2 DEF LifeInv, End, Step, logVars, runVars, httpVars
    <2>1. LifecycleTypeOK' /\ Structure'
      BY DEF LifecycleTypeOK, Structure, BuiltAt, Refers
    <2>2. HttpInv' /\ LoggerInv' /\ ThrownInv' /\ ConfigInv' /\ CrashOnlyAfterException'
      BY DEF HttpInv, LoggerInv, ThrownInv, BeforeHttp, ConfigInv, CrashOnlyAfterException
    <2> QED
      BY <2>1, <2>2
  <1>3. CASE pc = "unwind" /\ alive # {} /\ DestroyMember /\ ~(Youngest = "m_httpServer" /\ httpRunning)
    BY <1>3, DestroyMemberStep
  <1> QED
    BY <1>1, <1>2, <1>3 DEF Destroy

\* LifeInv is inductive.
LEMMA LifeInvInductive == Init /\ [][Next]_vars => []LifeInv
  <1>1. ASSUME Init PROVE LifeInv
    BY <1>1, MembersAre DEF Init, LifeInv, LifecycleTypeOK, AllMembers, Structure, BuiltAt, Refers, Base,
           HttpInv, BeforeHttp, LoggerInv, ThrownInv, ConfigInv, CrashOnlyAfterException
  <1>2. ASSUME LifeInv, Next PROVE LifeInv'
    BY <1>2, StartUpStep, HttpStep, LoopStep, HttpStopStep, DestroyStep DEF Next, WindDown
  <1>3. ASSUME LifeInv, UNCHANGED vars PROVE LifeInv'
    <2> USE <1>3 DEF vars, logVars, runVars, httpVars, LifeInv
    <2>1. LifecycleTypeOK' /\ Structure'
      BY DEF LifecycleTypeOK, Structure, BuiltAt, Refers
    <2>2. HttpInv' /\ LoggerInv' /\ ThrownInv' /\ ConfigInv' /\ CrashOnlyAfterException'
      BY DEF HttpInv, LoggerInv, ThrownInv, BeforeHttp, ConfigInv, CrashOnlyAfterException
    <2> QED
      BY <2>1, <2>2
  <1> QED
    BY <1>1, <1>2, <1>3, PTL

----------------------------------------------------------------------------
(* The configuration.                                                      *)

\* A port that fits is stored as it is.
LEMMA PortsThatFit ==
    ASSUME NEW n \in Int
    PROVE  /\ ToPort(n) \in 0..MAX_PORT
           /\ n \in 0..MAX_PORT => ToPort(n) = n
  BY ConfigAssumption DEF ToPort, MAX_PORT

\* So is a timeout.
LEMMA TimeoutsThatFit ==
    ASSUME NEW n \in Int
    PROVE  /\ n \in 0..((IntModulus \div 2) - 1) => ToInt(n) = n
           /\ ToInt(n) \in Int /\ ToInt(n) <= (IntModulus \div 2) - 1
  <1>1. PICK h \in Nat : h = IntModulus \div 2 /\ IntModulus = 2 * h /\ h > 0
    BY ConfigAssumption
  <1>2. (n + h) % IntModulus \in 0..(IntModulus - 1)
    BY <1>1
  <1>3. n \in 0..(h - 1) => (n + h) % IntModulus = n + h
    BY <1>1
  <1>4. ToInt(n) = ((n + h) % IntModulus) - h
    BY <1>1 DEF ToInt
  <1> QED
    BY <1>1, <1>2, <1>3, <1>4

\* A port that is read and validated.
LEMMA ValidPorts ==
    ASSUME NEW number \in Number, NEW default \in 1..MAX_PORT, isValidPort(readPort(number, default))
    PROVE  /\ AsWritten(number, readPort(number, default), MAX_PORT, default)
           /\ readPort(number, default) > MIN_PORT
  <1>1. PortModulus \in Nat /\ PortModulus > 9090
    BY ConfigAssumption
  <1>2. Value(number, default) \in Int
    BY DEF Value, Number, Written
  <1>3. ToPort(default) = default
    <2>1. default \in Int /\ default \in 0..MAX_PORT
      BY <1>1 DEF MAX_PORT
    <2> QED
      BY <2>1, PortsThatFit
  <1>4. readPort(number, default) \in 1..MAX_PORT
    <2>1. readPort(number, default) \in 0..MAX_PORT
      BY <1>2, PortsThatFit DEF readPort
    <2> QED
      BY <1>1, <2>1 DEF isValidPort, MIN_PORT, MAX_PORT
  <1>5. number = << >> => readPort(number, default) = default
    BY <1>3 DEF readPort, Value
  <1>6. number # << >> /\ number[1].whole \in 1..MAX_PORT => readPort(number, default) = number[1].whole
    <2> SUFFICES ASSUME number # << >>, number[1].whole \in 1..MAX_PORT
                 PROVE  ToPort(number[1].whole) = number[1].whole
      BY DEF readPort, Value
    <2>1. number[1].whole \in Int /\ number[1].whole \in 0..MAX_PORT
      BY <1>1 DEF MAX_PORT
    <2> QED
      BY <2>1, PortsThatFit
  <1> QED
    BY <1>4, <1>5, <1>6 DEF AsWritten, isValidPort

\* Every file that is accepted gives the server what it assumes, as it is written.
LEMMA AcceptedFilesAreMeant ==
    ASSUME configFile \in ServerFile, m_verification(configFile)
    PROVE  ConfigMeetsAssumptions
  <1>1. m_config = readConfigFile(configFile) /\ validateConfigData(m_config) /\ configFile.readable
    BY DEF m_config, ServerConfig, m_verification
  <1>2. /\ configFile.udp_port \in Number /\ configFile.tcp_port \in Number
        /\ configFile.http_port \in Number /\ configFile.session_timeout_sec \in Number
        /\ configFile.graceful_shutdown_rate \in Number
    BY DEF ServerFile
  <1>3. /\ m_config.m_udpPort = readPort(configFile.udp_port, UDP_PORT)
        /\ m_config.m_tcpPort = readPort(configFile.tcp_port, TCP_PORT)
        /\ m_config.m_httpPort = readPort(configFile.http_port, HTTP_PORT)
        /\ m_config.m_sessionTimeoutSec = ToInt(Value(configFile.session_timeout_sec, TIMEOUT_SEC))
        /\ m_config.m_gracefulShutdownRate = Value(configFile.graceful_shutdown_rate, GRACEFUL_SHUTDOWN_RATE)
    BY <1>1 DEF readConfigFile
  <1>4. /\ isValidPort(m_config.m_udpPort) /\ isValidPort(m_config.m_tcpPort)
        /\ isValidPort(m_config.m_httpPort)
        /\ m_config.m_sessionTimeoutSec > 0 /\ m_config.m_gracefulShutdownRate > 0
        /\ m_config.m_blackList \subseteq ValidImsi
    BY <1>1 DEF validateConfigData
  <1>5. UDP_PORT \in 1..MAX_PORT /\ TCP_PORT \in 1..MAX_PORT /\ HTTP_PORT \in 1..MAX_PORT
    BY ConfigAssumption DEF UDP_PORT, TCP_PORT, HTTP_PORT, MAX_PORT
  <1>6. /\ AsWritten(configFile.udp_port, m_config.m_udpPort, MAX_PORT, UDP_PORT)
        /\ AsWritten(configFile.tcp_port, m_config.m_tcpPort, MAX_PORT, TCP_PORT)
        /\ AsWritten(configFile.http_port, m_config.m_httpPort, MAX_PORT, HTTP_PORT)
        /\ \A port \in {m_config.m_udpPort, m_config.m_tcpPort, m_config.m_httpPort} : port > MIN_PORT
    <2>1. /\ isValidPort(readPort(configFile.udp_port, UDP_PORT))
          /\ isValidPort(readPort(configFile.tcp_port, TCP_PORT))
          /\ isValidPort(readPort(configFile.http_port, HTTP_PORT))
      BY <1>3, <1>4
    <2>2. /\ AsWritten(configFile.udp_port, readPort(configFile.udp_port, UDP_PORT), MAX_PORT, UDP_PORT)
          /\ readPort(configFile.udp_port, UDP_PORT) > MIN_PORT
      BY <1>2, <1>5, <2>1, ValidPorts, Zenon
    <2>3. /\ AsWritten(configFile.tcp_port, readPort(configFile.tcp_port, TCP_PORT), MAX_PORT, TCP_PORT)
          /\ readPort(configFile.tcp_port, TCP_PORT) > MIN_PORT
      BY <1>2, <1>5, <2>1, ValidPorts, Zenon
    <2>4. /\ AsWritten(configFile.http_port, readPort(configFile.http_port, HTTP_PORT), MAX_PORT, HTTP_PORT)
          /\ readPort(configFile.http_port, HTTP_PORT) > MIN_PORT
      BY <1>2, <1>5, <2>1, ValidPorts, Zenon
    <2> QED
      BY <1>3, <2>2, <2>3, <2>4
  <1>7. AsWritten(configFile.session_timeout_sec, m_config.m_sessionTimeoutSec,
                  (IntModulus \div 2) - 1, TIMEOUT_SEC)
    <2> DEFINE value == Value(configFile.session_timeout_sec, TIMEOUT_SEC)
    <2>1. value \in Int
      BY <1>2 DEF Value, Number, Written, TIMEOUT_SEC
    <2>2. PICK last \in Int : last = (IntModulus \div 2) - 1 /\ last >= TIMEOUT_SEC
      BY ConfigAssumption DEF TIMEOUT_SEC
    <2>3. m_config.m_sessionTimeoutSec \in 1..last
      BY <1>3, <1>4, <2>1, <2>2, TimeoutsThatFit
    <2>4. value \in 0..last => m_config.m_sessionTimeoutSec = value
      BY <1>3, <2>1, <2>2, TimeoutsThatFit
    <2> QED
      BY <2>2, <2>3, <2>4 DEF AsWritten, Value, TIMEOUT_SEC
  <1>8. m_config.m_gracefulShutdownRate # 0
    <2>1. m_config.m_gracefulShutdownRate \in Int
      BY <1>2, <1>3 DEF Value, Number, Written, GRACEFUL_SHUTDOWN_RATE
    <2> QED
      BY <1>4, <2>1
  <1>9. ClientConfig([readable |-> TRUE, server_port |-> configFile.udp_port])
            = [valid |-> TRUE, m_serverPort |-> m_config.m_udpPort]
    BY <1>3, <1>4 DEF ClientConfig
  <1> QED
    BY <1>4, <1>6, <1>7, <1>8, <1>9 DEF ConfigMeetsAssumptions

----------------------------------------------------------------------------
(* What follows.                                                           *)

\* Type correctness: in particular a server that runs exists, and HTTP's has its thread.
THEOREM LifecycleTypeCorrect == Spec => []LifecycleTypeOK
  <1>1. LifeInv => LifecycleTypeOK
    BY DEF LifeInv
  <1> QED
    BY <1>1, LifeInvInductive, PTL DEF Spec

\* On every way up and down, with the thread and any number of handlers beside it, no
\* member outlives what it refers to and no handler or thread the HTTP server.
THEOREM NothingOutlivesItsReferents == Spec => []NothingDangles
  <1>1. LifeInv => NothingDangles
    BY DEF LifeInv, Structure, HttpInv, NothingDangles
  <1> QED
    BY <1>1, LifeInvInductive, PTL DEF Spec

\* The process is killed by its own way down only behind an exception with the CDR backend
\* built: of the start-up, or of a loop that was asked to shut down.  After a loop that
\* returns, drained or on an epoll error, nothing that the destructors, the HTTP thread and
\* its handlers do kills it.
THEOREM CrashesNeedAnException == Spec => []CrashOnlyAfterException
  <1>1. LifeInv => CrashOnlyAfterException
    BY DEF LifeInv
  <1> QED
    BY <1>1, LifeInvInductive, PTL DEF Spec

\* run() returns 0 only from the place of the loop, with every component but perhaps the
\* database built, and UDP and TCP started.
THEOREM SuccessMeansServed == Spec => ExitZeroMeansServed
  <1>1. ASSUME LifeInv, Next, exitCode' = 0, exitCode # 0
        PROVE  pc = "loop"
    <2>1. StartUp => exitCode' \in {1, exitCode}
      BY DEF StartUp, CheckConfig, initializeLogger, initializeDatabase, initializeCdrWriter,
             initializeSessionManager, ConstructServers, Construct, Throws, StartUdp, StartHttp, StartTcp,
             Catch, Step
    <2>2. Http \/ WindDown => exitCode' = exitCode
      BY DEF Http, Listen, Route, Handle, ListenEnds, Dies, WindDown, HttpStop, HttplibStop, Join,
             Destroy, DestroyMember, End, Step
    <2> QED
      BY <1>1, <2>1, <2>2 DEF Next, RequestShutdown, LoopStops, LoopBreaks, LoopThrows, Step
  <1>2. ASSUME LifeInv, pc = "loop"
        PROVE  udpRunning /\ tcpRunning /\ {Members[n] : n \in DOMAIN Members} \ {"m_dbManager"} \subseteq alive
    BY <1>2 DEF LifeInv, Structure, BuiltAt, AllMembers
  <1>3. LifeInv /\ [Next]_vars => [exitCode' = 0 /\ exitCode # 0 =>
           /\ udpRunning /\ tcpRunning
           /\ {Members[n] : n \in DOMAIN Members} \ {"m_dbManager"} \subseteq alive]_vars
    BY <1>1, <1>2
  <1> QED
    BY <1>3, LifeInvInductive, PTL DEF Spec, ExitZeroMeansServed

\* Of no file is a server built with a port up to 1024, a timeout of 0 or less, a rate of 0 or
\* a blacklist that is no list of IMSIs, or with another number than the one written, if its
\* type can hold that, or than the default, if none is.
THEOREM ConfigIsAsWritten == Spec => []ConfigMeetsAssumptions
  <1>1. LifeInv => ConfigMeetsAssumptions
    <2> SUFFICES ASSUME LifeInv, "m_sessionManager" \in alive PROVE ConfigMeetsAssumptions
      BY DEF ConfigMeetsAssumptions
    <2> QED
      BY AcceptedFilesAreMeant, LifecycleAssumption
         DEF LifeInv, LifecycleTypeOK, ConfigInv, Base
  <1> QED
    BY <1>1, LifeInvInductive, PTL DEF Spec
=============================================================================
