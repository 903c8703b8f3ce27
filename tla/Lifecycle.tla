----------------------------- MODULE Lifecycle -----------------------------
(***************************************************************************)
(* The life of the server process: Server::run builds its components, one  *)
(* after another and each able to fail, runs the event loop, and the       *)
(* destructors take them down again, while HttpServer's thread and its     *)
(* handlers run beside.                                                    *)
(*                                                                         *)
(* The event loop is module Server's; here it is a place where requests    *)
(* are served until it ends.  A LOG_ macro goes through spdlog's default   *)
(* logger, which is gone after logger::shutdown: the macro then uses a     *)
(* null pointer and the process dies.                                      *)
(***************************************************************************)
EXTENDS Config

CONSTANTS
    Files,              \* bound: the configuration files considered
    HttpRequests        \* bound: HTTP requests that are handled at one time

ASSUME LifecycleAssumption == Files \subseteq ServerFile

VARIABLES
    configFile,
    pc,                 \* main thread
    exitCode,           \* of run(); -1 before it returns
    alive,              \* members of Server::Impl that are constructed
    fileBackend,        \* the CDR backend is the file
    g_logger,           \* logger::isInit()
    default_logger,     \* of spdlog: "spdlog", "pgw" or "null"
    udpRunning, tcpRunning, httpRunning,    \* m_running of the three servers
    listener,           \* thread of HttpServer, with httplib's listen()
    request,            \* request[r]: handler that runs, or "none"
    m_shutdownRequest

logVars == <<g_logger, default_logger>>
runVars == <<udpRunning, tcpRunning, httpRunning>>
httpVars == <<listener, request, m_shutdownRequest>>
vars == <<configFile, pc, exitCode, alive, fileBackend, logVars, runVars, httpVars>>

m_config == ServerConfig(configFile)

\* Mutant: the session manager is declared last.
MembersManagerLast ==
    << "m_config", "m_shutdownRequest", "m_dbManager", "m_cdrWriter",
       "m_tcpHandler", "m_tcpServer", "m_udpServer", "m_httpServer", "m_sessionManager" >>

\* In the order of their declaration; they are destroyed in the opposite one.
Members ==
    << "m_config", "m_shutdownRequest", "m_dbManager", "m_cdrWriter", "m_sessionManager",
       "m_tcpHandler", "m_tcpServer", "m_udpServer", "m_httpServer" >>

\* What a member holds a reference or a pointer to.
Refers(m) ==
    CASE m = "m_cdrWriter" -> IF fileBackend THEN {} ELSE {"m_dbManager"}
      [] m = "m_sessionManager" -> {"m_config", "m_cdrWriter"}
      [] m = "m_tcpHandler" -> {"m_sessionManager", "m_cdrWriter", "m_shutdownRequest"}
      [] m = "m_tcpServer" -> {"m_tcpHandler"}
      [] m = "m_udpServer" -> {"m_sessionManager"}
      [] m = "m_httpServer" -> {"m_sessionManager", "m_shutdownRequest"}
      [] OTHER -> {}

Init ==
    /\ configFile \in Files
    /\ pc = "config" /\ exitCode = -1
    /\ alive = {"m_config", "m_shutdownRequest"}
    /\ fileBackend = FALSE
    /\ g_logger = FALSE /\ default_logger = "spdlog"
    /\ udpRunning = FALSE /\ tcpRunning = FALSE /\ httpRunning = FALSE
    /\ listener = "none" /\ request = [r \in HttpRequests |-> "none"]
    /\ m_shutdownRequest = FALSE

----------------------------------------------------------------------------
(* Start-up.                                                               *)

Step(from, to) == pc = from /\ pc' = to

\* isValid.
CheckConfig ==
    /\ \/ m_verification(configFile) /\ Step("config", "logger") /\ UNCHANGED exitCode
       \/ ~m_verification(configFile) /\ Step("config", "unwind") /\ exitCode' = 1
    /\ UNCHANGED <<configFile, alive, fileBackend, logVars, runVars, httpVars>>

\* logger::init registers the logger after parse_level, which throws on an unknown level;
\* then addFileSink, which throws when it cannot open the file.
initializeLogger ==
    /\ g_logger' = TRUE
    /\ \/ /\ m_config.m_logLevel = "unknown" /\ Step("logger", "throw")
          /\ UNCHANGED default_logger
       \/ /\ m_config.m_logLevel = "known" /\ default_logger' = "pgw"
          /\ Step("logger", "database") \/ Step("logger", "throw")
    /\ UNCHANGED <<configFile, exitCode, alive, fileBackend, runVars, httpVars>>

\* Without a database the server goes on.
initializeDatabase ==
    /\ Step("database", "cdr")
    /\ \/ UNCHANGED alive
       \/ m_config.m_databaseFile # "" /\ alive' = alive \union {"m_dbManager"}
    /\ UNCHANGED <<configFile, exitCode, fileBackend, logVars, runVars, httpVars>>

\* The database backend throws when it gets no table or statement; there is no second
\* attempt with a file.
initializeCdrWriter ==
    /\ \/ /\ "m_dbManager" \in alive /\ Step("cdr", "throw")
          /\ UNCHANGED <<alive, fileBackend>>
       \/ /\ Step("cdr", "manager")
          /\ alive' = alive \union {"m_cdrWriter"}
          /\ fileBackend' = ("m_dbManager" \notin alive)
    /\ UNCHANGED <<configFile, exitCode, logVars, runVars, httpVars>>

\* The check for a null pointer before it cannot fail.
Construct(m, from, to) ==
    /\ Step(from, to)
    /\ alive' = alive \union {m}
    /\ UNCHANGED <<configFile, exitCode, fileBackend, logVars, runVars, httpVars>>

\* No descriptor for the socket, or no address to bind it to.
Throws(from) ==
    /\ Step(from, "throw")
    /\ UNCHANGED <<configFile, exitCode, alive, fileBackend, logVars, runVars, httpVars>>

initializeSessionManager == Construct("m_sessionManager", "manager", "udp")

\* The constructors of initializeServers.
ConstructServers ==
    \/ Construct("m_udpServer", "udp", "http") \/ Throws("udp")
    \/ Construct("m_httpServer", "http", "handler")
    \/ Construct("m_tcpHandler", "handler", "tcp")
    \/ Construct("m_tcpServer", "tcp", "startUdp") \/ Throws("tcp")

\* Mutant: a port that cannot be bound is logged, and that is all.
StartUdpQuietly ==
    /\ Step("startUdp", "startHttp")
    /\ udpRunning' \in BOOLEAN
    /\ UNCHANGED <<configFile, exitCode, alive, fileBackend, logVars, tcpRunning, httpRunning,
                   httpVars>>

StartUdp ==
    \/ /\ Step("startUdp", "startHttp")
       /\ udpRunning' = TRUE
       /\ UNCHANGED <<configFile, exitCode, alive, fileBackend, logVars, tcpRunning, httpRunning,
                      httpVars>>
    \/ Throws("startUdp")

\* Mutant: m_running stays set when there is no thread.
StartHttpRegardless ==
    /\ Step("startHttp", "startTcp")
    /\ httpRunning' = TRUE
    /\ listener' \in {"none", "starting"}
    /\ UNCHANGED <<configFile, exitCode, alive, fileBackend, logVars, udpRunning, tcpRunning,
                   request, m_shutdownRequest>>

\* When there is no thread to be had, the server goes on without HTTP.
StartHttp ==
    /\ Step("startHttp", "startTcp")
    /\ \/ httpRunning' = TRUE /\ listener' = "starting"
       \/ UNCHANGED <<httpRunning, listener>>
    /\ UNCHANGED <<configFile, exitCode, alive, fileBackend, logVars, udpRunning, tcpRunning,
                   request, m_shutdownRequest>>

StartTcp ==
    \/ /\ Step("startTcp", "loop")
       /\ tcpRunning' = TRUE
       /\ UNCHANGED <<configFile, exitCode, alive, fileBackend, logVars, udpRunning, httpRunning,
                      httpVars>>
    \/ Throws("startTcp")

\* logger::shutdown drops the logger, and with it spdlog's default when it is that one.
Catch ==
    /\ Step("throw", "unwind") /\ exitCode' = 1
    /\ g_logger' = FALSE
    /\ default_logger' = IF default_logger = "pgw" THEN "null" ELSE default_logger
    /\ UNCHANGED <<configFile, alive, fileBackend, runVars, httpVars>>

----------------------------------------------------------------------------
(* HttpServer's thread and handlers.                                       *)

Dies ==
    /\ pc' = "crashed"
    /\ UNCHANGED <<configFile, exitCode, alive, fileBackend, logVars, runVars, httpVars>>

Live == pc \notin {"ended", "crashed"}

\* listen() binds and accepts; when it cannot bind it returns, and nobody is told.  When
\* httplib's stop() has been called already, nothing will end it: "late".
Listen ==
    /\ Live /\ listener = "starting"
    /\ IF default_logger = "null" THEN Dies ELSE
       /\ listener' \in {"ended", IF pc = "join" THEN "late" ELSE "listening"}
       /\ UNCHANGED <<configFile, pc, exitCode, alive, fileBackend, logVars, runVars, request,
                      m_shutdownRequest>>

\* The pre-routing handler lets it pass; once m_running is false it answers 503 instead.
Route(r) ==
    /\ Live /\ listener = "listening" /\ httpRunning /\ request[r] = "none"
    /\ \E h \in {"handleSubscriberCheck", "handleShutdown"} :
          request' = [request EXCEPT ![r] = h]
    /\ UNCHANGED <<configFile, pc, exitCode, alive, fileBackend, logVars, runVars, listener,
                   m_shutdownRequest>>

\* A handler logs, does its work and answers.
Handle(r) ==
    /\ Live /\ request[r] # "none"
    /\ IF default_logger = "null" THEN Dies ELSE
       /\ m_shutdownRequest' = (m_shutdownRequest \/ request[r] = "handleShutdown")
       /\ request' = [request EXCEPT ![r] = "none"]
       /\ UNCHANGED <<configFile, pc, exitCode, alive, fileBackend, logVars, runVars, listener>>

\* listen() returns when its socket is closed and its workers are done.
ListenEnds ==
    /\ Live /\ listener = "closing" /\ \A r \in HttpRequests : request[r] = "none"
    /\ listener' = "ended"
    /\ UNCHANGED <<configFile, pc, exitCode, alive, fileBackend, logVars, runVars, request,
                   m_shutdownRequest>>

----------------------------------------------------------------------------
(* The event loop and the way down.                                        *)

\* SHUTDOWN over TCP; Server::stop does the same.
RequestShutdown ==
    /\ pc = "loop" /\ ~m_shutdownRequest
    /\ m_shutdownRequest' = TRUE
    /\ UNCHANGED <<configFile, pc, exitCode, alive, fileBackend, logVars, runVars, listener, request>>

\* runEventLoop stops the servers after a drain, HTTP last.
LoopStops ==
    /\ pc = "loop" /\ m_shutdownRequest
    /\ udpRunning' = FALSE /\ tcpRunning' = FALSE
    /\ exitCode' = 0
    /\ pc' = IF httpRunning THEN "httpStop" ELSE "unwind"
    /\ UNCHANGED <<configFile, alive, fileBackend, logVars, httpRunning, httpVars>>

\* epoll fails: run() returns 0 all the same, with the servers running.
LoopBreaks ==
    /\ Step("loop", "unwind") /\ exitCode' = 0
    /\ UNCHANGED <<configFile, alive, fileBackend, logVars, runVars, httpVars>>

\* An exception out of the loop: while it drains, acceptNewClient accepts outside of its try
\* block, and accept() throws when it gets no second descriptor.
LoopThrows ==
    /\ m_shutdownRequest /\ Step("loop", "throw")
    /\ UNCHANGED <<configFile, exitCode, alive, fileBackend, logVars, runVars, httpVars>>

\* HttpServer::stop, until it sleeps.
HttpStop ==
    /\ pc = "httpStop"
    /\ IF default_logger = "null" THEN Dies ELSE
       /\ pc' = "httplibStop"
       /\ httpRunning' = FALSE
       /\ UNCHANGED <<configFile, exitCode, alive, fileBackend, logVars, udpRunning, tcpRunning,
                      httpVars>>

\* Mutant: httplib is not told.
HttplibStopForgotten ==
    /\ Step("httplibStop", "join")
    /\ UNCHANGED <<configFile, exitCode, alive, fileBackend, logVars, runVars, httpVars>>

\* httplib's stop() closes the socket of a listen() that is running, and does nothing else.
HttplibStop ==
    /\ Step("httplibStop", "join")
    /\ listener' = IF listener = "listening" THEN "closing" ELSE listener
    /\ UNCHANGED <<configFile, exitCode, alive, fileBackend, logVars, runVars, request,
                   m_shutdownRequest>>

Join ==
    /\ Step("join", "unwind") /\ listener = "ended"
    /\ listener' = "joined"
    /\ UNCHANGED <<configFile, exitCode, alive, fileBackend, logVars, runVars, request,
                   m_shutdownRequest>>

\* The member that is destroyed next.
Youngest ==
    Members[CHOOSE n \in DOMAIN Members :
               Members[n] \in alive /\ \A k \in DOMAIN Members : Members[k] \in alive => k <= n]

LogsInDestructor == {"m_udpServer", "m_tcpServer", "m_sessionManager", "m_cdrWriter"}

\* One member is gone, unless its destructor logs without a logger or, HttpServer's, leaves a
\* thread that is still joinable.
DestroyMember ==
    IF \/ Youngest \in LogsInDestructor /\ default_logger = "null"
       \/ Youngest = "m_httpServer" /\ listener \notin {"none", "joined"}
    THEN Dies
    ELSE /\ alive' = alive \ {Youngest}
         /\ udpRunning' = (udpRunning /\ Youngest # "m_udpServer")
         /\ tcpRunning' = (tcpRunning /\ Youngest # "m_tcpServer")
         /\ UNCHANGED <<configFile, pc, exitCode, fileBackend, logVars, httpRunning, httpVars>>

\* Mutant: the destructor of HttpServer leaves its thread alone.
DestroyAtOnce == pc = "unwind" /\ alive # {} /\ DestroyMember

\* The destructor of Impl takes one member after another; that of HttpServer stops the
\* server first when it runs.
Destroy ==
    /\ pc = "unwind" /\ alive # {}
    /\ IF Youngest = "m_httpServer" /\ httpRunning
       THEN /\ pc' = "httpStop"
            /\ UNCHANGED <<configFile, exitCode, alive, fileBackend, logVars, runVars, httpVars>>
       ELSE DestroyMember

\* main returns.
End ==
    /\ Step("unwind", "ended") /\ alive = {}
    /\ UNCHANGED <<configFile, exitCode, alive, fileBackend, logVars, runVars, httpVars>>

StartUp ==
    \/ CheckConfig \/ initializeLogger \/ initializeDatabase \/ initializeCdrWriter
    \/ initializeSessionManager \/ ConstructServers \/ StartUdp \/ StartHttp \/ StartTcp \/ Catch

WindDown == HttpStop \/ HttplibStop \/ Join \/ Destroy \/ End

Http == Listen \/ ListenEnds \/ \E r \in HttpRequests : Route(r) \/ Handle(r)

Next == StartUp \/ RequestShutdown \/ LoopStops \/ LoopBreaks \/ LoopThrows \/ WindDown \/ Http

\* Threads are scheduled; nothing says that the event loop ends.
Fairness ==
    /\ WF_vars(StartUp \/ WindDown)
    /\ WF_vars(Listen) /\ WF_vars(ListenEnds)
    /\ \A r \in HttpRequests : WF_vars(Handle(r))

Spec == Init /\ [][Next]_vars /\ Fairness

----------------------------------------------------------------------------
(* Properties.                                                             *)

\* Every variable has its type, and a server that runs exists, HTTP's with its thread.
LifecycleTypeOK ==
    /\ configFile \in Files
    /\ pc \in {"config", "logger", "database", "cdr", "manager", "udp", "http", "handler", "tcp",
               "startUdp", "startHttp", "startTcp", "throw", "loop", "httpStop", "httplibStop",
               "join", "unwind", "ended", "crashed"}
    /\ exitCode \in {-1, 0, 1}
    /\ alive \subseteq {Members[n] : n \in DOMAIN Members}
    /\ fileBackend \in BOOLEAN /\ g_logger \in BOOLEAN
    /\ default_logger \in {"spdlog", "pgw", "null"}
    /\ udpRunning \in BOOLEAN /\ tcpRunning \in BOOLEAN /\ httpRunning \in BOOLEAN
    /\ listener \in {"none", "starting", "listening", "late", "closing", "ended", "joined"}
    /\ request \in [HttpRequests -> {"none", "handleSubscriberCheck", "handleShutdown"}]
    /\ m_shutdownRequest \in BOOLEAN
    /\ udpRunning => "m_udpServer" \in alive
    /\ tcpRunning => "m_tcpServer" \in alive
    /\ httpRunning => "m_httpServer" \in alive /\ listener \notin {"none", "joined"}

\* Whatever the file says, a server that has been built has ports above 1024, a timeout of a
\* second or more and a blacklist of IMSIs, each number as written where its type can hold it
\* and the default where none is written; and a client that is given the server's UDP port,
\* in its own file, sends to the port that the server binds.  A rate is only no divisor of 0
\* in runEventLoop: that the timer cannot take all of them shows in the run server_rate.  Nor
\* is a port past its type refused: it is stored modulo 2^16, and that must be valid, though
\* test_config.cpp:143 expects 70000 refused (it is, for the // comment in that JSON text).
AsWritten(number, got, last, default) ==
    /\ got \in 1..last
    /\ number = << >> => got = default
    /\ number # << >> /\ number[1].whole \in 1..last => got = number[1].whole
ConfigMeetsAssumptions ==
    "m_sessionManager" \in alive =>
        /\ AsWritten(configFile.udp_port, m_config.m_udpPort, MAX_PORT, UDP_PORT)
        /\ AsWritten(configFile.tcp_port, m_config.m_tcpPort, MAX_PORT, TCP_PORT)
        /\ AsWritten(configFile.http_port, m_config.m_httpPort, MAX_PORT, HTTP_PORT)
        /\ \A port \in {m_config.m_udpPort, m_config.m_tcpPort, m_config.m_httpPort} : port > MIN_PORT
        /\ AsWritten(configFile.session_timeout_sec, m_config.m_sessionTimeoutSec,
                     (IntModulus \div 2) - 1, TIMEOUT_SEC)
        /\ m_config.m_gracefulShutdownRate # 0
        /\ m_config.m_blackList \subseteq ValidImsi
        /\ ClientConfig([readable |-> TRUE, server_port |-> configFile.udp_port])
               = [valid |-> TRUE, m_serverPort |-> m_config.m_udpPort]

\* Nothing outlives what it refers to, on any way up or down: a member's referents are
\* alive while it is, and an HTTP handler runs, and the listening thread may start one,
\* only while the HTTP server and the session manager are alive.
NothingDangles ==
    Live =>
        /\ \A m \in alive : Refers(m) \subseteq alive
        /\ (\E r \in HttpRequests : request[r] # "none") => "m_httpServer" \in alive
        /\ listener \in {"starting", "listening", "late", "closing"} => "m_httpServer" \in alive

\* The null logger, or a joinable thread, ends the process only behind an exception with the
\* CDR backend built: one in the start-up, or, in a server that got as far as its event loop
\* (tcpRunning), one out of the loop while it drains, which is not the "graceful shutdown" of
\* README.md:102.  No loop that returns, drained or because epoll failed, is followed by a
\* crash, and no configuration, logger or database that fails leads to one.
CrashOnlyAfterException ==
    pc = "crashed" => /\ exitCode = 1 /\ "m_cdrWriter" \in alive
                      /\ tcpRunning => m_shutdownRequest

\* The exit code 0 is given at the event loop only, with every component built and both ports
\* bound; no way out of the start-up, and none of the way down, gives it.  It does not say
\* that requests were served: epoll may have failed at once, and HTTP's listen() in silence.
ExitZeroMeansServed ==
    [][exitCode' = 0 /\ exitCode # 0 =>
           /\ udpRunning /\ tcpRunning
           /\ {Members[n] : n \in DOMAIN Members} \ {"m_dbManager"} \subseteq alive]_vars

\* The process never hangs on its way up or down, HTTP requests in progress or not, but in
\* one case: the listening thread was so slow that httplib's stop() came first.
NeverStuck == []<>(pc \in {"loop", "ended", "crashed"} \/ listener = "late")
=============================================================================
