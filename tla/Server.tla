------------------------------- MODULE Server -------------------------------
(***************************************************************************)
(* Server::Impl::runEventLoop: one thread multiplexes the UDP socket, the  *)
(* TCP clients and the shutdown timer with epoll, drives SessionManager,   *)
(* and takes the process through RUNNING, DRAINING, STOPPING and STOPPED.  *)
(* HTTP requests run on a thread of their own and reach the loop through   *)
(* the atomic m_shutdownRequest only.                                      *)
(*                                                                         *)
(* A UDP datagram or a TCP command is one element of a queue.  `now'       *)
(* counts seconds, the shutdown timer runs on its own (its period is below *)
(* a second).                                                              *)
(***************************************************************************)
EXTENDS SessionManager, SequencesExt

CONSTANTS
    m_shutdownRate,     \* graceful_shutdown_rate, sessions per second
    MaxArrivals,        \* bound: datagrams and commands that arrive
    MaxExpirations      \* bound: timer expirations that pile up unread

ASSUME ServerAssumption ==
    /\ m_shutdownRate \in Nat \ {0}     \* all that the configuration checks
    /\ MaxArrivals \in 0..MaxTotal      \* no request is held up by MaxTotal
    /\ MaxExpirations \in Nat \ {0}

VARIABLES
    state,              \* of the loop
    m_shutdownRequest,
    pc,                 \* where the loop is
    events,             \* what epoll_wait returned and is not handled yet
    timerArmed,         \* the timerfd is running (and in the epoll set)
    expirations,        \* of the timer since it was last read
    udpQueue,           \* datagrams in the socket
    tcpQueue,           \* commands of the management clients
    arrivals,           \* datagrams and commands so far
    lastCleanup,
    iterated            \* the loop ended an iteration in this second

loopVars == <<state, m_shutdownRequest, timerArmed, expirations>>
netVars == <<udpQueue, tcpQueue, arrivals>>
vars == <<sessionVars, now, loopVars, netVars, pc, events, lastCleanup, iterated>>

Empty == "empty"                                    \* a datagram with no bytes
Datagrams == Imsi \union {Empty}
Commands == [name : {"START_SESSION", "STOP_SESSION"}, imsi : Imsi]
                \union [name : {"SHUTDOWN"}]

\* Seconds that must be exceeded between two cleanups: SESSION_CLEANUP_INTERVAL_S / 3.
CleanupInterval == 10 \div 3

\* Milliseconds, in integer division.  tv_nsec is a million times that: timerfd_settime
\* takes it below 10^9 (else EINVAL, which the code ignores), and zero disarms the timer.
shutdownInterval == 1000 \div m_shutdownRate
TimerRuns == 0 < shutdownInterval /\ shutdownInterval < 1000

Init ==
    /\ SessionInit
    /\ state = "RUNNING"
    /\ m_shutdownRequest = FALSE
    /\ pc = "top"
    /\ events = << >>
    /\ timerArmed = FALSE
    /\ expirations = 0
    /\ udpQueue = << >>
    /\ tcpQueue = << >>
    /\ arrivals = 0
    /\ lastCleanup = 0
    /\ iterated = FALSE

----------------------------------------------------------------------------
(* The outside: clients, the HTTP thread, the timer, the clock.            *)

UdpArrives ==
    /\ pc # "done" /\ arrivals < MaxArrivals
    /\ \E d \in Datagrams : udpQueue' = Append(udpQueue, d)
    /\ arrivals' = arrivals + 1
    /\ UNCHANGED <<sessionVars, now, loopVars, tcpQueue, pc, events, lastCleanup, iterated>>

TcpArrives ==
    /\ pc # "done" /\ arrivals < MaxArrivals
    /\ \E c \in Commands : tcpQueue' = Append(tcpQueue, c)
    /\ arrivals' = arrivals + 1
    /\ UNCHANGED <<sessionVars, now, loopVars, udpQueue, pc, events, lastCleanup, iterated>>

\* POST /stop, on the HTTP thread.
HttpShutdown ==
    /\ pc # "done"
    /\ m_shutdownRequest' = TRUE
    /\ UNCHANGED <<sessionVars, now, state, timerArmed, expirations, netVars, pc, events,
                   lastCleanup, iterated>>

TimerExpires ==
    /\ timerArmed /\ pc # "done"
    /\ expirations < MaxExpirations
    /\ expirations' = expirations + 1
    /\ UNCHANGED <<sessionVars, now, state, m_shutdownRequest, timerArmed, netVars, pc, events,
                   lastCleanup, iterated>>

\* A second passes; the loop, which waits at most POLL_TIMEOUT_MS, gets through
\* at least one iteration in it.
Second ==
    /\ iterated /\ pc # "done"
    /\ Tick
    /\ iterated' = FALSE
    /\ UNCHANGED <<loopVars, netVars, pc, events, lastCleanup>>

----------------------------------------------------------------------------
(* The loop.                                                               *)

\* Mutant: the session manager is not told.
BeginDrainingSilently ==
    /\ pc = "top" /\ state = "RUNNING" /\ m_shutdownRequest
    /\ timerArmed' = TimerRuns
    /\ state' = "DRAINING"
    /\ pc' = "wait"
    /\ UNCHANGED <<sessionVars, now, m_shutdownRequest, expirations, netVars, events, lastCleanup,
                   iterated>>

BeginDraining ==
    /\ pc = "top" /\ state = "RUNNING" /\ m_shutdownRequest
    /\ startDraining
    /\ timerArmed' = TimerRuns
    /\ state' = "DRAINING"
    /\ pc' = "wait"
    /\ UNCHANGED <<now, m_shutdownRequest, expirations, netVars, events, lastCleanup, iterated>>

\* UDP, TCP and HTTP servers are stopped and the loop ends.
StopServers ==
    /\ pc = "top" /\ state = "STOPPING"
    /\ state' = "STOPPED"
    /\ pc' = "done"
    /\ UNCHANGED <<sessionVars, now, m_shutdownRequest, timerArmed, expirations, netVars, events,
                   lastCleanup, iterated>>

GoOn ==
    /\ pc = "top"
    /\ ~(state = "RUNNING" /\ m_shutdownRequest) /\ state # "STOPPING"
    /\ pc' = "wait"
    /\ UNCHANGED <<sessionVars, now, loopVars, netVars, events, lastCleanup, iterated>>

\* Descriptors that are readable; epoll may name them in any order.
Ready ==
    {e \in {"timer", "udp", "tcp"} :
        \/ e = "timer" /\ expirations > 0
        \/ e = "udp" /\ udpQueue # << >>
        \/ e = "tcp" /\ tcpQueue # << >>}

\* With nothing ready it returns after POLL_TIMEOUT_MS with no event.
EpollWait ==
    /\ pc = "wait"
    /\ events' \in SetToSeqs(Ready)
    /\ pc' = "batch"
    /\ UNCHANGED <<sessionVars, now, loopVars, netVars, lastCleanup, iterated>>

\* EINTR starts the loop over; any other error leaves it, whatever the state.
EpollFails ==
    /\ pc = "wait"
    /\ pc' \in {"top", "done"}
    /\ UNCHANGED <<sessionVars, now, loopVars, netVars, events, lastCleanup, iterated>>

\* acceptNewClient accepts what it is to reject outside of its try block: when a client
\* connects to a loop that no longer runs, and accept() throws, the exception ends the loop.
AcceptThrows ==
    /\ pc = "batch" /\ state \in {"DRAINING", "STOPPING"}
    /\ pc' = "done"
    /\ UNCHANGED <<sessionVars, now, loopVars, netVars, events, lastCleanup, iterated>>

\* Mutant: the timer is not periodic.
ShutdownTimerOnce ==
    /\ pc = "batch" /\ events # << >> /\ Head(events) = "timer"
    /\ state = "DRAINING"
    /\ \E S \in SUBSET Active :
          /\ IF expirations > Cardinality(Active)
             THEN S = Active /\ state' = "STOPPING"
             ELSE Cardinality(S) = expirations /\ state' = state
          /\ deleteSessions(S)
          /\ m_stats' = [m_stats EXCEPT !.activeSessions = Cardinality(Active'),
                                        !.terminateSessions = @ + Cardinality(S)]
    /\ expirations' = 0
    /\ timerArmed' = FALSE
    /\ events' = Tail(events)
    /\ UNCHANGED <<m_blacklist, m_draining, now, m_shutdownRequest, netVars, pc, lastCleanup,
                   iterated>>

\* One session ends for every expiration read, until there is none left.
ShutdownTimer ==
    /\ pc = "batch" /\ events # << >> /\ Head(events) = "timer"
    /\ state = "DRAINING"
    /\ \E S \in SUBSET Active :
          /\ IF expirations > Cardinality(Active)
             THEN S = Active /\ state' = "STOPPING"
             ELSE Cardinality(S) = expirations /\ state' = state
          /\ deleteSessions(S)
          /\ m_stats' = [m_stats EXCEPT !.activeSessions = Cardinality(Active'),
                                        !.terminateSessions = @ + Cardinality(S)]
    /\ expirations' = 0
    /\ events' = Tail(events)
    /\ UNCHANGED <<m_blacklist, m_draining, now, m_shutdownRequest, timerArmed, netVars, pc,
                   lastCleanup, iterated>>

\* UdpServer::processEvent reads until the socket is empty.
UdpEvent ==
    /\ pc = "batch" /\ events # << >> /\ Head(events) = "udp"
    /\ pc' = "udp"
    /\ events' = Tail(events)
    /\ UNCHANGED <<sessionVars, now, loopVars, netVars, lastCleanup, iterated>>

\* One datagram: an invalid IMSI is answered "rejected" with no session.  When the
\* answer cannot be sent the exception ends processEvent.
UdpRequest ==
    /\ pc = "udp" /\ udpQueue # << >> /\ Head(udpQueue) # Empty
    /\ IF Head(udpQueue) \in ValidImsi THEN createSession(Head(udpQueue)) ELSE UNCHANGED sessionVars
    /\ udpQueue' = Tail(udpQueue)
    /\ pc' \in {"udp", "batch"}
    /\ UNCHANGED <<now, loopVars, tcpQueue, arrivals, events, lastCleanup, iterated>>

\* No data, or a datagram with no bytes, which reads the same.
UdpDone ==
    /\ pc = "udp" /\ (udpQueue # << >> => Head(udpQueue) = Empty)
    /\ udpQueue' = IF udpQueue = << >> THEN << >> ELSE Tail(udpQueue)
    /\ pc' = "batch"
    /\ UNCHANGED <<sessionVars, now, loopVars, tcpQueue, arrivals, events, lastCleanup, iterated>>

\* TcpHandler::handle on one command; the other commands change nothing here.
Handle(c) ==
    \/ /\ c.name = "SHUTDOWN"
       /\ m_shutdownRequest' = TRUE
       /\ UNCHANGED sessionVars
    \/ /\ c.name # "SHUTDOWN" /\ c.imsi \notin ValidImsi        \* INVALID_PARAMS
       /\ UNCHANGED <<sessionVars, m_shutdownRequest>>
    \/ /\ c.name # "SHUTDOWN" /\ c.imsi \in ValidImsi
       /\ IF c.name = "START_SESSION" THEN createSession(c.imsi) ELSE terminateSession(c.imsi)
       /\ UNCHANGED m_shutdownRequest

\* handleClientData: one receive, which may hold several commands, then the handler on
\* each of them.
TcpEvent ==
    /\ \/ pc = "batch" /\ events # << >> /\ Head(events) = "tcp" /\ events' = Tail(events)
       \/ pc = "tcp" /\ UNCHANGED events
    /\ Handle(Head(tcpQueue))
    /\ tcpQueue' = Tail(tcpQueue)
    /\ pc' \in IF tcpQueue' = << >> THEN {"batch"} ELSE {"batch", "tcp"}
    /\ UNCHANGED <<now, state, timerArmed, expirations, udpQueue, arrivals, lastCleanup, iterated>>

\* Mutant: the time of the NEXT cleanup is stored.
PeriodicCleanupAhead ==
    /\ pc = "batch" /\ events = << >>
    /\ IF now - lastCleanup > CleanupInterval
       THEN cleanTimeoutSessions /\ lastCleanup' = now + CleanupInterval
       ELSE UNCHANGED <<sessionVars, lastCleanup>>
    /\ iterated' = TRUE
    /\ pc' = "top"
    /\ UNCHANGED <<now, loopVars, netVars, events>>

\* Mutant: the time of the last cleanup is set in every iteration.
PeriodicCleanupPutOff ==
    /\ pc = "batch" /\ events = << >>
    /\ IF now - lastCleanup > CleanupInterval THEN cleanTimeoutSessions ELSE UNCHANGED sessionVars
    /\ lastCleanup' = now
    /\ iterated' = TRUE
    /\ pc' = "top"
    /\ UNCHANGED <<now, loopVars, netVars, events>>

PeriodicCleanup ==
    /\ pc = "batch" /\ events = << >>
    /\ IF now - lastCleanup > CleanupInterval
       THEN cleanTimeoutSessions /\ lastCleanup' = now
       ELSE UNCHANGED <<sessionVars, lastCleanup>>
    /\ iterated' = TRUE
    /\ pc' = "top"
    /\ UNCHANGED <<now, loopVars, netVars, events>>

Loop ==
    \/ BeginDraining \/ StopServers \/ GoOn \/ EpollWait \/ EpollFails \/ AcceptThrows
    \/ ShutdownTimer \/ UdpEvent \/ UdpRequest \/ UdpDone \/ TcpEvent \/ PeriodicCleanup

Environment == UdpArrives \/ TcpArrives \/ HttpShutdown \/ TimerExpires \/ Second

\* The loop is over.
Terminated == pc = "done" /\ UNCHANGED vars

Next == Loop \/ Environment \/ Terminated

\* The thread is scheduled, an armed timer expires, and signals do not interrupt
\* every epoll_wait.
Fairness ==
    /\ WF_vars(Loop)
    /\ SF_vars(EpollWait)
    /\ WF_vars(TimerExpires)

Spec == Init /\ [][Next]_vars /\ Fairness

----------------------------------------------------------------------------
(* Properties.                                                             *)

\* The loop's variables have their types.
LoopTypeOK ==
    /\ state \in {"RUNNING", "DRAINING", "STOPPING", "STOPPED"}
    /\ m_shutdownRequest \in BOOLEAN
    /\ pc \in {"top", "wait", "batch", "udp", "tcp", "done"}
    /\ events \in Seq({"timer", "udp", "tcp"})
    /\ timerArmed \in BOOLEAN
    /\ expirations \in 0..MaxExpirations
    /\ udpQueue \in Seq(Datagrams)
    /\ tcpQueue \in Seq(Commands)
    /\ arrivals \in 0..MaxArrivals
    /\ lastCleanup \in 0..now
    /\ iterated \in BOOLEAN

\* The servers are stopped only when every session has ended and been billed, and
\* nothing brings one back: not the UDP and TCP events that are left in the batch
\* in which the timer found the table empty.
StoppedMeansDrained ==
    state \in {"STOPPING", "STOPPED"} =>
        /\ m_draining /\ m_shutdownRequest
        /\ Active = {}
        /\ m_stats.createdSessions = m_stats.expiredSessions + m_stats.terminateSessions

\* A session outlives its timeout by the cleanup interval at most, whatever the loop
\* is busy with.
SessionLifetimeBounded ==
    pc # "done" => \A i \in Active : now - m_sessions[i] <= m_sessionTimeoutSec + CleanupInterval

\* "POST /stop: initiates graceful shutdown" (README.md:76): once requested, over HTTP
\* or TCP, the shutdown completes: the loop ends.  (Epoll or accept() may end it early; the
\* fairness relies on neither.)
ShutdownCompletes == m_shutdownRequest ~> pc = "done"
=============================================================================
