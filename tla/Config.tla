------------------------------- MODULE Config -------------------------------
(***************************************************************************)
(* The configuration of the server and of the client: what is read from a  *)
(* JSON file, what is validated, and the defaults taken when either fails. *)
(*                                                                         *)
(* A file is a record.  A number is << >> when its key is missing, or a    *)
(* sequence of the value; it is converted to the type of its default       *)
(* before it is validated.  `readable' says that the file opens, parses to *)
(* an object and has no value of a JSON type that has no conversion at all *)
(* (a string for a number, say).  Addresses and names of files are left    *)
(* out, but for "no database".                                             *)
(***************************************************************************)
EXTENDS Integers, Sequences

CONSTANTS
    Imsi,
    ValidImsi,          \* isValidImsi: 15 characters, all of them digits
    PortModulus,        \* 2^16: port_t
    IntModulus          \* 2^32: int, of the session timeout

ASSUME ConfigAssumption ==
    /\ ValidImsi \subseteq Imsi
    /\ PortModulus \in Nat /\ PortModulus > 9090
    /\ IntModulus \in Nat /\ IntModulus > 60 /\ IntModulus % 2 = 0

MIN_PORT == 1024
MAX_PORT == PortModulus - 1
UDP_PORT == 9000
TCP_PORT == 9090
HTTP_PORT == 8080
TIMEOUT_SEC == 30
GRACEFUL_SHUTDOWN_RATE == 10

\* A value by its JSON type: of a float only the whole part, to which every conversion cuts
\* it.  (One that the type cannot hold is undefined: `whole' is what the conversion gave.)
Written == [type : {"integer", "float"}, whole : Int] \union [type : {"boolean"}, whole : {0, 1}]

Number == Seq(Written)  \* << >>, or one value

ServerFile ==
    [readable : BOOLEAN, udp_port : Number, tcp_port : Number, http_port : Number,
     session_timeout_sec : Number, graceful_shutdown_rate : Number,
     database_file : {"", "db"}, log_level : {"known", "unknown"},
     blacklist : SUBSET Imsi]           \* {} also when it is no array

----------------------------------------------------------------------------
\* json::value: the value, or the default when the key is missing.
Value(number, default) == IF number = << >> THEN default ELSE number[1].whole

\* From a boolean there is a conversion to uint16_t, but none to the library's own number
\* types, uint64_t and int64_t: value() throws.
Converts(number) == \A n \in DOMAIN number : number[n].type # "boolean"

ToPort(n) == n % PortModulus

\* Two's complement.
ToInt(n) == ((n + (IntModulus \div 2)) % IntModulus) - (IntModulus \div 2)

readPort(number, default) == ToPort(Value(number, default))

readConfigFile(f) ==
    [m_udpPort |-> readPort(f.udp_port, UDP_PORT),
     m_tcpPort |-> readPort(f.tcp_port, TCP_PORT),
     m_httpPort |-> readPort(f.http_port, HTTP_PORT),
     m_sessionTimeoutSec |-> ToInt(Value(f.session_timeout_sec, TIMEOUT_SEC)),
     m_gracefulShutdownRate |-> Value(f.graceful_shutdown_rate, GRACEFUL_SHUTDOWN_RATE),
     m_databaseFile |-> f.database_file,
     m_logLevel |-> f.log_level,
     m_blackList |-> f.blacklist]

isValidPort(port) == port > MIN_PORT /\ port <= MAX_PORT

\* Mutant: a timeout of 0 seconds is taken.
validateConfigDataLax(c) ==
    /\ isValidPort(c.m_udpPort) /\ isValidPort(c.m_tcpPort) /\ isValidPort(c.m_httpPort)
    /\ c.m_sessionTimeoutSec >= 0
    /\ c.m_gracefulShutdownRate > 0
    /\ c.m_blackList \subseteq ValidImsi

validateConfigData(c) ==
    /\ isValidPort(c.m_udpPort) /\ isValidPort(c.m_tcpPort) /\ isValidPort(c.m_httpPort)
    /\ c.m_sessionTimeoutSec > 0
    /\ c.m_gracefulShutdownRate > 0
    /\ c.m_blackList \subseteq ValidImsi

setDefaultConfig ==
    [m_udpPort |-> UDP_PORT, m_tcpPort |-> TCP_PORT, m_httpPort |-> HTTP_PORT,
     m_sessionTimeoutSec |-> TIMEOUT_SEC, m_gracefulShutdownRate |-> GRACEFUL_SHUTDOWN_RATE,
     m_databaseFile |-> "", m_logLevel |-> "known", m_blackList |-> {}]

m_verification(f) ==
    /\ f.readable /\ Converts(f.session_timeout_sec) /\ Converts(f.graceful_shutdown_rate)
    /\ validateConfigData(readConfigFile(f))

\* The constructor.
ServerConfig(f) == IF m_verification(f) THEN readConfigFile(f) ELSE setDefaultConfig

\* The client's constructor: of its numbers only the server's port is validated.
ClientConfig(f) ==
    LET port == readPort(f.server_port, UDP_PORT)
    IN  IF f.readable /\ isValidPort(port)
        THEN [valid |-> TRUE, m_serverPort |-> port]
        ELSE [valid |-> FALSE, m_serverPort |-> UDP_PORT]
=============================================================================
