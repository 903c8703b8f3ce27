---------------------------- MODULE MCLifecycle ----------------------------
(***************************************************************************)
(* Configuration files for TLC: one that says nothing, one that cannot be  *)
(* read, and those that say one thing: a number at or next to a boundary,  *)
(* or past the width it is stored in, a fraction, or a boolean.            *)
(***************************************************************************)
EXTENDS Lifecycle

Silent ==
    [readable |-> TRUE, udp_port |-> << >>, tcp_port |-> << >>, http_port |-> << >>,
     session_timeout_sec |-> << >>, graceful_shutdown_rate |-> << >>,
     database_file |-> "", log_level |-> "known", blacklist |-> {}]

Ports == {-1, 0, MIN_PORT, MIN_PORT + 1, MAX_PORT, PortModulus, PortModulus + 4464}

Timeouts == {-1, 0, 1, (IntModulus \div 2) - 1, IntModulus \div 2, IntModulus, IntModulus + 30}

\* The integers, a fraction next to the first of them that is accepted, and "true".
Values(integers, least) ==
    {<< [type |-> "integer", whole |-> n] >> : n \in integers}
    \union {<< [type |-> "float", whole |-> n] >> : n \in {least - 1, least}}
    \union {<< [type |-> "boolean", whole |-> 1] >>}

MCFiles ==
    {Silent, [Silent EXCEPT !.readable = FALSE]}
    \union {[Silent EXCEPT !.udp_port = v] : v \in Values(Ports, MIN_PORT + 1)}
    \union {[Silent EXCEPT !.tcp_port = v] : v \in Values(Ports, MIN_PORT + 1)}
    \union {[Silent EXCEPT !.http_port = v] : v \in Values(Ports, MIN_PORT + 1)}
    \union {[Silent EXCEPT !.session_timeout_sec = v] : v \in Values(Timeouts, 1)}
    \union {[Silent EXCEPT !.graceful_shutdown_rate = v] : v \in Values({-1, 0, 1, 5000}, 1)}
    \union {[Silent EXCEPT !.blacklist = B] : B \in SUBSET Imsi}
    \union {[Silent EXCEPT !.database_file = "db", !.log_level = l] : l \in {"known", "unknown"}}
=============================================================================
