----------------------------- MODULE CdrLedger -----------------------------
(***************************************************************************)
(* What a CDR backend (ICdrWriter) promises to the session manager, with   *)
(* nothing of how it does it: the n-th record it accepted is the n-th one  *)
(* of the ledger, a record is stored once, never changed or taken back,    *)
(* and every accepted record is stored in the end.                         *)
(*                                                                         *)
(* A record is the number of the writeAction call that made it.            *)
(***************************************************************************)
EXTENDS Naturals, Sequences

VARIABLES
    accepted,   \* writeAction calls so far
    ledger      \* the stored records, oldest first

vars == <<accepted, ledger>>

Init == accepted = 0 /\ ledger = << >>

Accept ==
    /\ accepted' = accepted + 1
    /\ UNCHANGED ledger

\* A batch of accepted records becomes durable.
Store ==
    /\ \E n \in (Len(ledger) + 1)..accepted : ledger' = [i \in 1..n |-> i]
    /\ UNCHANGED accepted

\* A record is accepted and, with those before it, durable at once.
WriteThrough ==
    /\ accepted' = accepted + 1
    /\ \E n \in (Len(ledger) + 1)..accepted' : ledger' = [i \in 1..n |-> i]

Next == Accept \/ WriteThrough \/ Store

Safety == Init /\ [][Next]_vars

Spec == Safety /\ WF_vars(Store)
=============================================================================
