------------------------- MODULE DatabaseCdrWriter -------------------------
(***************************************************************************)
(* DatabaseCdrWriter: CDR records are pushed to m_buffer by the main       *)
(* (event loop) thread and moved to SQLite in transactions by flush(),     *)
(* which three callers run: the background thread (flushLoop), the main    *)
(* thread (getRecentRecords, for the management command GET_CDR) and the   *)
(* destructor.  Both threads use ONE sqlite3 connection and ONE prepared   *)
(* INSERT statement; m_mutex guards m_buffer only.                         *)
(*                                                                         *)
(* A record is the number of the writeAction call that made it.  A section *)
(* of code under m_mutex is one action, except that flushLoop evaluates    *)
(* its wait predicate and falls asleep in two steps: the destructor sets   *)
(* m_stop and notifies without the mutex, in between if it likes.          *)
(* sqlite3_* calls are atomic (the library's default serialized mode).     *)
(***************************************************************************)
EXTENDS Naturals, Sequences, FiniteSets, SequencesExt

CONSTANTS
    BATCH_SIZE,     \* buffer size at which writeAction wakes the flusher
    READ_LIMIT,     \* most records one getRecentRecords call returns
    Faults,         \* the SQLite failures that may happen
    GetCdr,         \* TRUE: GET_CDR commands arrive
    MaxRecords,     \* bound: writeAction calls
    MaxCrashes      \* bound: process crashes

(***************************************************************************)
(* "begin", "insert", "commit": the statement fails and leaves the         *)
(* transaction as it was.  "insertRollback", "commitRollback": it fails    *)
(* and SQLite has rolled the transaction back by itself (disk full, I/O    *)
(* error, out of memory).                                                  *)
(***************************************************************************)
SqliteFaults == {"begin", "insert", "insertRollback", "commit", "commitRollback"}

ASSUME ConstantsAssumption ==
    /\ BATCH_SIZE \in Nat \ {0}
    /\ READ_LIMIT \in Nat
    /\ Faults \subseteq SqliteFaults
    /\ GetCdr \in BOOLEAN
    /\ MaxRecords \in Nat
    /\ MaxCrashes \in Nat

Main == "main"
Flusher == "flusher"
Threads == {Main, Flusher}

NoRecord == 0
Record == Nat \ {NoRecord}

VARIABLES
    written,    \* writeAction calls so far
    m_buffer,   \* queue shared by the threads, under m_mutex
    m_stop,     \* set by the destructor
    toFlush,    \* toFlush[t]: the queue local to t's flush() call
    pc,         \* pc[t]: where thread t is
    inTxn,      \* the connection has an open transaction
    pending,    \* rows inserted by the open transaction
    rows,       \* committed rows of cdr_records, by id
    bound,      \* record bound to the prepared INSERT statement
    reported,   \* records the last getRecentRecords call returned
    crashes     \* crashes so far

storage == <<inTxn, pending, rows, bound>>
vars == <<written, m_buffer, m_stop, toFlush, pc, storage, reported, crashes>>

----------------------------------------------------------------------------
(* Where a thread can be.                                                  *)

FlushSteps == {"swap", "begin", "giveBack", "bind", "step", "rollback", "requeue", "commit"}
MainSteps == {"idle", "read", "join", "close", "deleted"} \union FlushSteps
FlusherSteps == {"top", "lock", "blocking", "waiting", "woken", "exited"} \union FlushSteps

\* Inside the part of flush() that uses the transaction.
InTransaction(t) == pc[t] \in {"bind", "step", "rollback", "commit"}

\* The flusher keeps m_mutex from the wait predicate until it is asleep.
MutexFree == pc[Flusher] # "blocking"

\* Mutant: the flusher, too, returns to getRecentRecords.
ReturnMixedUp(t) == IF m_stop THEN "close" ELSE "read"

\* The caller that flush() returns to: flushLoop, the destructor, getRecentRecords.
Return(t) ==
    IF t = Flusher THEN "top" ELSE IF m_stop THEN "close" ELSE "read"

Goto(t, label) == pc' = [pc EXCEPT ![t] = label]

\* The whole table as the shared connection sees it, open transaction included.
Visible == rows \o pending

----------------------------------------------------------------------------
\* The constructor: connected, table created, flusher started.
Init ==
    /\ written = 0
    /\ m_buffer = << >>
    /\ m_stop = FALSE
    /\ toFlush = [t \in Threads |-> << >>]
    /\ pc = [t \in Threads |-> IF t = Main THEN "idle" ELSE "top"]
    /\ inTxn = FALSE
    /\ pending = << >>
    /\ rows = << >>
    /\ bound = NoRecord
    /\ reported = {}
    /\ crashes = 0

\* m_cv.notify_one(): a sleeping flusher goes back to its predicate.
Notified(p) == [p EXCEPT ![Flusher] = IF @ = "waiting" THEN "lock" ELSE @]

writeAction ==
    /\ pc[Main] = "idle" /\ MutexFree
    /\ written < MaxRecords
    /\ written' = written + 1
    /\ m_buffer' = Append(m_buffer, written + 1)
    /\ pc' = IF Len(m_buffer') >= BATCH_SIZE THEN Notified(pc) ELSE pc
    /\ UNCHANGED <<m_stop, toFlush, storage, reported, crashes>>

----------------------------------------------------------------------------
(* flush(), run by thread t.                                               *)

\* Mutant: the records are copied out and stay in the buffer.
SwapOutCopies(t) ==
    /\ pc[t] = "swap" /\ MutexFree
    /\ IF m_buffer = << >>
       THEN Goto(t, Return(t)) /\ UNCHANGED toFlush
       ELSE Goto(t, "begin") /\ toFlush' = [toFlush EXCEPT ![t] = m_buffer]
    /\ UNCHANGED <<written, m_buffer, m_stop, storage, reported, crashes>>

SwapOut(t) ==
    /\ pc[t] = "swap" /\ MutexFree
    /\ IF m_buffer = << >>
       THEN Goto(t, Return(t)) /\ UNCHANGED <<toFlush, m_buffer>>
       ELSE /\ Goto(t, "begin")
            /\ toFlush' = [toFlush EXCEPT ![t] = m_buffer]
            /\ m_buffer' = << >>
    /\ UNCHANGED <<written, m_stop, storage, reported, crashes>>

\* Mutant: the result of BEGIN is not looked at.
BeginUnchecked(t) ==
    /\ pc[t] = "begin"
    /\ inTxn' = TRUE
    /\ Goto(t, "bind")
    /\ UNCHANGED <<written, m_buffer, m_stop, toFlush, pending, rows, bound, reported, crashes>>

\* Mutant: a refused BEGIN is followed by a ROLLBACK.
BeginRollsBack(t) ==
    /\ pc[t] = "begin"
    /\ \/ /\ ~inTxn
          /\ inTxn' = TRUE
          /\ Goto(t, "bind")
          /\ UNCHANGED pending
       \/ /\ inTxn \/ "begin" \in Faults
          /\ inTxn' = FALSE
          /\ pending' = << >>
          /\ Goto(t, "giveBack")
    /\ UNCHANGED <<written, m_buffer, m_stop, toFlush, rows, bound, reported, crashes>>

\* BEGIN IMMEDIATE also fails when the connection is in a transaction already.
Begin(t) ==
    /\ pc[t] = "begin"
    /\ \/ /\ ~inTxn
          /\ inTxn' = TRUE
          /\ Goto(t, "bind")
       \/ /\ inTxn \/ "begin" \in Faults
          /\ inTxn' = inTxn
          /\ Goto(t, "giveBack")
    /\ UNCHANGED <<written, m_buffer, m_stop, toFlush, pending, rows, bound, reported, crashes>>

\* Mutant: the records are given back and flush() goes on with them.
GiveBackGoesOn(t) ==
    /\ pc[t] = "giveBack" /\ MutexFree
    /\ m_buffer' = toFlush[t]
    /\ Goto(t, "bind")
    /\ UNCHANGED <<written, m_stop, toFlush, storage, reported, crashes>>

\* Mutant: the records are given back behind the newer ones.
GiveBackBehind(t) ==
    /\ pc[t] = "giveBack" /\ MutexFree
    /\ m_buffer' = m_buffer \o toFlush[t]
    /\ toFlush' = [toFlush EXCEPT ![t] = << >>]
    /\ Goto(t, Return(t))
    /\ UNCHANGED <<written, m_stop, storage, reported, crashes>>

\* "Return the records to the buffer": the queues are swapped, and what
\* the buffer received meanwhile dies with the local queue.
GiveBack(t) ==
    /\ pc[t] = "giveBack" /\ MutexFree
    /\ m_buffer' = toFlush[t]
    /\ toFlush' = [toFlush EXCEPT ![t] = << >>]
    /\ Goto(t, Return(t))
    /\ UNCHANGED <<written, m_stop, storage, reported, crashes>>

\* Head of the insert loop: bind the front record, or leave when none is left.
Bind(t) ==
    /\ pc[t] = "bind"
    /\ IF toFlush[t] = << >>
       THEN Goto(t, "commit") /\ UNCHANGED bound
       ELSE Goto(t, "step") /\ bound' = Head(toFlush[t])
    /\ UNCHANGED <<written, m_buffer, m_stop, toFlush, inTxn, pending, rows, reported, crashes>>

\* sqlite3_step of the INSERT.  Outside a transaction it commits by itself; with
\* nothing bound (the other thread cleared it) NOT NULL refuses the row.
InsertOk(t) ==
    /\ bound # NoRecord
    /\ IF inTxn THEN pending' = Append(pending, bound) /\ UNCHANGED rows
                ELSE rows' = Append(rows, bound) /\ UNCHANGED pending
    /\ toFlush' = [toFlush EXCEPT ![t] = Tail(@)]
    /\ Goto(t, "bind")
    /\ UNCHANGED inTxn

InsertFails(t) ==
    /\ \/ /\ bound = NoRecord \/ "insert" \in Faults
          /\ UNCHANGED <<inTxn, pending>>
       \/ /\ "insertRollback" \in Faults
          /\ inTxn' = FALSE
          /\ pending' = << >>
    /\ Goto(t, "rollback")
    /\ UNCHANGED <<rows, toFlush>>

Step(t) ==
    /\ pc[t] = "step"
    /\ InsertOk(t) \/ InsertFails(t)
    /\ bound' = NoRecord
    /\ UNCHANGED <<written, m_buffer, m_stop, reported, crashes>>

\* ROLLBACK ends whatever transaction the connection has.
Rollback(t) ==
    /\ pc[t] = "rollback"
    /\ inTxn' = FALSE
    /\ pending' = << >>
    /\ Goto(t, "requeue")
    /\ UNCHANGED <<written, m_buffer, m_stop, toFlush, rows, bound, reported, crashes>>

\* "Return the remaining records": those not popped yet, behind the newer ones.
Requeue(t) ==
    /\ pc[t] = "requeue" /\ MutexFree
    /\ m_buffer' = m_buffer \o toFlush[t]
    /\ toFlush' = [toFlush EXCEPT ![t] = << >>]
    /\ Goto(t, Return(t))
    /\ UNCHANGED <<written, m_stop, storage, reported, crashes>>

\* COMMIT fails too when no transaction is open; flush() returns either way.
Commit(t) ==
    /\ pc[t] = "commit"
    /\ \/ /\ inTxn
          /\ inTxn' = FALSE
          /\ rows' = rows \o pending
          /\ pending' = << >>
       \/ /\ ~inTxn \/ "commit" \in Faults
          /\ UNCHANGED <<inTxn, pending, rows>>
       \/ /\ "commitRollback" \in Faults
          /\ inTxn' = FALSE
          /\ pending' = << >>
          /\ UNCHANGED rows
    /\ Goto(t, Return(t))
    /\ UNCHANGED <<written, m_buffer, m_stop, toFlush, bound, reported, crashes>>

flush(t) ==
    \/ SwapOut(t) \/ Begin(t) \/ GiveBack(t) \/ Bind(t)
    \/ Step(t) \/ Rollback(t) \/ Requeue(t) \/ Commit(t)

----------------------------------------------------------------------------
(* flushLoop(), the background thread.                                     *)

LoopTest ==
    /\ pc[Flusher] = "top"
    /\ Goto(Flusher, IF m_stop THEN "exited" ELSE "lock")
    /\ UNCHANGED <<written, m_buffer, m_stop, toFlush, storage, reported, crashes>>

\* wait_for evaluates its predicate under m_mutex.
WaitPredicate ==
    /\ pc[Flusher] = "lock"
    /\ Goto(Flusher, IF m_stop \/ Len(m_buffer) >= BATCH_SIZE THEN "woken" ELSE "blocking")
    /\ UNCHANGED <<written, m_buffer, m_stop, toFlush, storage, reported, crashes>>

Block ==
    /\ pc[Flusher] = "blocking"
    /\ Goto(Flusher, "waiting")
    /\ UNCHANGED <<written, m_buffer, m_stop, toFlush, storage, reported, crashes>>

\* Mutant: a wait without a timeout.
FlushIntervalNever ==
    /\ pc[Flusher] = "waiting"
    /\ Len(m_buffer) >= BATCH_SIZE
    /\ Goto(Flusher, "woken")
    /\ UNCHANGED <<written, m_buffer, m_stop, toFlush, storage, reported, crashes>>

\* FLUSH_INTERVAL has passed.
FlushInterval ==
    /\ pc[Flusher] = "waiting"
    /\ Goto(Flusher, "woken")
    /\ UNCHANGED <<written, m_buffer, m_stop, toFlush, storage, reported, crashes>>

StopTest ==
    /\ pc[Flusher] = "woken"
    /\ Goto(Flusher, IF m_stop THEN "exited" ELSE "swap")
    /\ UNCHANGED <<written, m_buffer, m_stop, toFlush, storage, reported, crashes>>

flushLoop ==
    \/ LoopTest \/ WaitPredicate \/ Block \/ FlushInterval \/ StopTest
    \/ flush(Flusher)

----------------------------------------------------------------------------
(* The main thread: getRecentRecords and the destructor.                   *)

getRecentRecords ==
    /\ GetCdr
    /\ pc[Main] = "idle"
    /\ Goto(Main, "swap")
    /\ UNCHANGED <<written, m_buffer, m_stop, toFlush, storage, reported, crashes>>

\* SELECT ... ORDER BY timestamp DESC LIMIT: timestamps have a resolution of a
\* second, so which of the rows of one second come out is open.
ReadRows ==
    /\ pc[Main] = "read"
    /\ \E S \in SUBSET ToSet(Visible) :
          /\ Cardinality(S) = IF Len(Visible) < READ_LIMIT THEN Cardinality(ToSet(Visible)) ELSE READ_LIMIT
          /\ reported' = S
    /\ Goto(Main, "idle")
    /\ UNCHANGED <<written, m_buffer, m_stop, toFlush, storage, crashes>>

\* ~DatabaseCdrWriter: stop flag and notification, without m_mutex.
Destroy ==
    /\ pc[Main] = "idle"
    /\ m_stop' = TRUE
    /\ pc' = [Notified(pc) EXCEPT ![Main] = "join"]
    /\ UNCHANGED <<written, m_buffer, toFlush, storage, reported, crashes>>

\* Mutant: no last flush() after the join.
JoinForgetsFlush ==
    /\ pc[Main] = "join"
    /\ pc[Flusher] = "exited"
    /\ Goto(Main, "close")
    /\ UNCHANGED <<written, m_buffer, m_stop, toFlush, storage, reported, crashes>>

\* m_thread.join(), then the last flush().
Join ==
    /\ pc[Main] = "join"
    /\ pc[Flusher] = "exited"
    /\ Goto(Main, "swap")
    /\ UNCHANGED <<written, m_buffer, m_stop, toFlush, storage, reported, crashes>>

\* Statements finalized and connection closed: an open transaction is undone,
\* and what is left in m_buffer is destroyed with the object.
Close ==
    /\ pc[Main] = "close"
    /\ m_buffer' = << >>
    /\ inTxn' = FALSE
    /\ pending' = << >>
    /\ Goto(Main, "deleted")
    /\ UNCHANGED <<written, m_stop, toFlush, rows, bound, reported, crashes>>

mainThread ==
    \/ writeAction \/ getRecentRecords \/ ReadRows \/ Destroy \/ Join \/ Close
    \/ flush(Main)

\* The process dies and is started again on the same database file.
Crash ==
    /\ crashes < MaxCrashes
    /\ crashes' = crashes + 1
    /\ m_buffer' = << >>
    /\ m_stop' = FALSE
    /\ toFlush' = [t \in Threads |-> << >>]
    /\ pc' = [t \in Threads |-> IF t = Main THEN "idle" ELSE "top"]
    /\ inTxn' = FALSE
    /\ pending' = << >>
    /\ bound' = NoRecord
    /\ reported' = {}
    /\ UNCHANGED <<written, rows>>

\* The object is gone: nothing is left to do.
Terminated == pc[Main] = "deleted" /\ UNCHANGED vars

Next == mainThread \/ flushLoop \/ Crash \/ Terminated

\* Both threads are scheduled and a timed wait ends; the event loop need not
\* ever call the writer again.
Fairness ==
    /\ WF_vars(flushLoop)
    /\ WF_vars(flush(Main) \/ ReadRows \/ Join \/ Close)

Spec == Init /\ [][Next]_vars /\ Fairness

----------------------------------------------------------------------------
(* Properties.                                                             *)

\* Every variable has its type, and each thread is at one of its own steps.
TypeOK ==
    /\ written \in 0..MaxRecords
    /\ m_buffer \in Seq(Record)
    /\ m_stop \in BOOLEAN
    /\ toFlush \in [Threads -> Seq(Record)]
    /\ pc \in [Threads -> MainSteps \union FlusherSteps]
    /\ pc[Main] \in MainSteps /\ pc[Flusher] \in FlusherSteps
    /\ inTxn \in BOOLEAN
    /\ pending \in Seq(Record)
    /\ rows \in Seq(Record)
    /\ bound \in Nat
    /\ reported \subseteq Record
    /\ crashes \in 0..MaxCrashes

\* The two threads share a connection and an INSERT statement with no lock of
\* their own: BEGIN IMMEDIATE alone keeps them apart, so that a thread that
\* binds, inserts, rolls back or commits is alone there, in an open transaction.
OneWriter ==
    /\ ~(InTransaction(Main) /\ InTransaction(Flusher))
    /\ \A t \in Threads : InTransaction(t) => inTxn

\* A record is in at most one place and there once: in the buffer, in the queue
\* of one flush(), or in the table.  No path of flush() (a failed BEGIN, INSERT
\* or COMMIT, two flushes at once) stores a CDR record twice.
Places == <<m_buffer, toFlush[Main], toFlush[Flusher], pending, rows>>
NoDuplicates ==
    /\ \A i \in DOMAIN Places : IsInjective(Places[i])
    /\ \A i, j \in DOMAIN Places : i # j => ToSet(Places[i]) \cap ToSet(Places[j]) = {}

\* What getRecentRecords returned to a management client stays in the table,
\* although it may have read rows of a transaction the flusher had not
\* committed: a BEGIN refused because of the other thread undoes nothing.
ReportedStaysStored == reported \subseteq ToSet(Visible)

RowsInOrder == \A i, j \in DOMAIN rows : i < j => rows[i] < rows[j]
FailedInsert == \E t \in Threads : pc[t] = "rollback"

\* Unless an INSERT fails, the rows of the table are in the order of the writeAction calls,
\* whatever is lost in between to a crash or to a failed transaction.
RowsInWriteOrder == []RowsInOrder \/ <>FailedInsert

\* With no storage fault and no GET_CDR the writer is a pipeline: table, open
\* transaction, local queue and buffer, in this order, hold exactly the records
\* written so far, each once, in order; after the destructor all are in the table.
Pipeline == rows \o pending \o toFlush[Flusher] \o toFlush[Main] \o m_buffer
Lossless ==
    /\ Pipeline = [i \in 1..written |-> i]
    /\ pc[Main] = "deleted" => Len(rows) = written

\* ... and so it implements the promise of a CDR backend.
Ledger == INSTANCE CdrLedger WITH accepted <- written, ledger <- rows
ImplementsLedger == Ledger!Spec

\* "Return the records to the buffer" (DatabaseCdrWriter.cpp:102): while the
\* process runs and storage does not fail, a record that was written is in a
\* queue or in the table.
NothingLost == \A r \in 1..written : \E i \in DOMAIN Places : r \in ToSet(Places[i])

\* The destructor ends, or the process does: the flusher sees m_stop and join()
\* returns, although m_stop is set and signalled without the mutex, so that the
\* signal may come between the flusher's predicate and its sleep.
DestructorTerminates ==
    \A k \in 0..MaxCrashes :
        (m_stop /\ crashes = k) ~> (pc[Main] = "deleted" \/ crashes > k)
=============================================================================
