---------------------- MODULE DatabaseCdrWriter_proofs ----------------------
(***************************************************************************)
(* Proofs about DatabaseCdrWriter, for every number of records and of      *)
(* crashes and every batch size.                                           *)
(***************************************************************************)
EXTENDS DatabaseCdrWriter, SequenceTheorems, TLAPS

\* The thread names are two different values.
LEMMA TwoThreads ==
    /\ Threads = {Main, Flusher}
    /\ Main # Flusher
  BY DEF Threads, Main, Flusher

----------------------------------------------------------------------------
(* Type correctness: the program counters first, then the data.            *)

StepsOf(t) == IF t = Main THEN MainSteps ELSE FlusherSteps

PcOK ==
    /\ pc \in [Threads -> MainSteps \union FlusherSteps]
    /\ pc[Main] \in MainSteps
    /\ pc[Flusher] \in FlusherSteps

DataOK ==
    /\ written \in 0..MaxRecords
    /\ m_buffer \in Seq(Record)
    /\ m_stop \in BOOLEAN
    /\ toFlush \in [Threads -> Seq(Record)]
    /\ inTxn \in BOOLEAN
    /\ pending \in Seq(Record)
    /\ rows \in Seq(Record)
    /\ bound \in Nat
    /\ reported \subseteq Record
    /\ crashes \in 0..MaxCrashes

\* The local queue of a flush() call: filled by the swap, drained by the insert
\* loop, empty outside.  The loop never pops an empty queue.
Holding == {"begin", "giveBack", "bind", "step", "rollback", "requeue"}
LocalQueue ==
    \A t \in Threads :
        /\ pc[t] \notin Holding => toFlush[t] = << >>
        /\ pc[t] \in Holding \ {"bind"} => toFlush[t] # << >>

TypeInv == PcOK /\ DataOK /\ LocalQueue

\* A jump to a step of the thread itself keeps the program counters' type.
LEMMA GotoPcOK ==
    ASSUME PcOK, NEW t \in Threads, NEW label \in StepsOf(t), Goto(t, label)
    PROVE  PcOK'
  BY TwoThreads DEF PcOK, StepsOf, Goto

\* flush() runs at steps both threads have, and returns to one of its caller's.
LEMMA FlushLabels ==
    ASSUME NEW t \in Threads
    PROVE  FlushSteps \subseteq StepsOf(t) /\ Return(t) \in StepsOf(t)
  BY TwoThreads DEF StepsOf, Return, MainSteps, FlusherSteps

\* Every step of flush(), by either thread, keeps the types.
LEMMA FlushTypeInv ==
    ASSUME TypeInv, NEW t \in Threads, flush(t)
    PROVE  TypeInv'
  <1> USE DEF TypeInv
  <1>1. PcOK'
    <2>1. \E label \in StepsOf(t) : Goto(t, label)
      BY FlushLabels DEF flush, SwapOut, Begin, GiveBack, Bind, Step, InsertOk, InsertFails,
           Rollback, Requeue, Commit, FlushSteps
    <2> QED
      BY <2>1, GotoPcOK
  <1>2. DataOK'
    <2> USE DEF DataOK, storage
    <2>0. /\ toFlush[t] \in Seq(Record)
          /\ << >> \in Seq(Record)
      BY EmptySeq
    <2>1. CASE SwapOut(t)
      BY <2>0, <2>1 DEF SwapOut
    <2>2. CASE Begin(t)
      BY <2>2 DEF Begin
    <2>3. CASE GiveBack(t)
      BY <2>0, <2>3 DEF GiveBack
    <2>4. CASE Bind(t)
      BY <2>0, <2>4, HeadTailProperties DEF Bind, Record
    <2>5. CASE Step(t)
      <3>1. bound # NoRecord => bound \in Record
        BY DEF Record
      <3>2. CASE InsertOk(t)
        <4>1. bound \in Record
          BY <3>1, <3>2 DEF InsertOk
        <4>2. Append(pending, bound) \in Seq(Record) /\ Append(rows, bound) \in Seq(Record)
          BY <4>1, AppendProperties
        <4>3. Tail(toFlush[t]) \in Seq(Record)
          BY <2>0, <2>5, HeadTailProperties DEF Step, LocalQueue, Holding
        <4> QED
          BY <2>5, <3>2, <4>2, <4>3 DEF Step, InsertOk, NoRecord
      <3>3. CASE InsertFails(t)
        BY <2>0, <2>5, <3>3 DEF Step, InsertFails, NoRecord
      <3> QED
        BY <2>5, <3>2, <3>3 DEF Step
    <2>6. CASE Rollback(t)
      BY <2>0, <2>6 DEF Rollback
    <2>7. CASE Requeue(t)
      BY <2>0, <2>7, ConcatProperties DEF Requeue
    <2>8. CASE Commit(t)
      <3>1. rows \o pending \in Seq(Record)
        BY ConcatProperties
      <3> QED
        BY <2>0, <2>8, <3>1 DEF Commit
    <2> QED
      BY <2>1, <2>2, <2>3, <2>4, <2>5, <2>6, <2>7, <2>8 DEF flush
  <1>3. LocalQueue'
    <2> SUFFICES ASSUME NEW u \in Threads
                 PROVE  /\ pc'[u] \notin Holding => toFlush'[u] = << >>
                        /\ pc'[u] \in Holding \ {"bind"} => toFlush'[u] # << >>
      BY DEF LocalQueue
    <2> USE DEF LocalQueue, Holding, storage, Goto, PcOK, DataOK
    <2>1. Return(t) \notin Holding
      BY DEF Return
    <2>2. CASE SwapOut(t)
      BY <2>1, <2>2 DEF SwapOut
    <2>3. CASE Begin(t)
      BY <2>3 DEF Begin
    <2>4. CASE GiveBack(t)
      BY <2>1, <2>4 DEF GiveBack
    <2>5. CASE Bind(t)
      BY <2>5 DEF Bind
    <2>6. CASE Step(t)
      BY <2>6 DEF Step, InsertOk, InsertFails
    <2>7. CASE Rollback(t)
      BY <2>7 DEF Rollback
    <2>8. CASE Requeue(t)
      BY <2>1, <2>8 DEF Requeue
    <2>9. CASE Commit(t)
      BY <2>1, <2>9 DEF Commit
    <2> QED
      BY <2>2, <2>3, <2>4, <2>5, <2>6, <2>7, <2>8, <2>9 DEF flush
  <1> QED
    BY <1>1, <1>2, <1>3

\* A wake-up moves the flusher between two of its own steps.
LEMMA NotifiedPcOK ==
    ASSUME PcOK
    PROVE  /\ Notified(pc) \in [Threads -> MainSteps \union FlusherSteps]
           /\ Notified(pc)[Main] = pc[Main]
           /\ Notified(pc)[Flusher] \in FlusherSteps
           /\ \A t \in Threads : Notified(pc)[t] # pc[t] =>
                  t = Flusher /\ pc[t] = "waiting" /\ Notified(pc)[t] = "lock"
  BY TwoThreads DEF PcOK, Notified, FlusherSteps

\* The type invariant is inductive.
LEMMA TypeInvStep ==
    ASSUME TypeInv, [Next]_vars
    PROVE  TypeInv'
  <1> USE ConstantsAssumption, TwoThreads DEF TypeInv, PcOK, DataOK, LocalQueue, Holding, storage
  <1>1. CASE writeAction
    <2>1. Append(m_buffer, written + 1) \in Seq(Record) /\ written + 1 \in 0..MaxRecords
      BY <1>1, AppendProperties DEF writeAction, Record, NoRecord
    <2>2. pc' = pc \/ pc' = Notified(pc)
      BY <1>1 DEF writeAction
    <2> QED
      BY <1>1, <2>1, <2>2, NotifiedPcOK DEF writeAction
  <1>2. CASE getRecentRecords
    BY <1>2 DEF getRecentRecords, Goto, MainSteps, FlushSteps
  <1>3. CASE ReadRows
    <2>1. ToSet(Visible) \subseteq Record
      BY ConcatProperties, ElementOfSeq, LenProperties DEF Visible, ToSet
    <2> QED
      BY <1>3, <2>1 DEF ReadRows, Goto, MainSteps
  <1>4. CASE Destroy
    <2>1. pc' = [Notified(pc) EXCEPT ![Main] = "join"]
      BY <1>4 DEF Destroy
    <2> QED
      BY <1>4, <2>1, NotifiedPcOK DEF Destroy, MainSteps
  <1>5. CASE Join
    BY <1>5 DEF Join, Goto, MainSteps, FlushSteps
  <1>6. CASE Close
    BY <1>6, EmptySeq DEF Close, Goto, MainSteps
  <1>7. CASE flush(Main) \/ flush(Flusher)
    BY <1>7, FlushTypeInv
  <1>8. CASE LoopTest \/ WaitPredicate \/ Block \/ FlushInterval \/ StopTest
    BY <1>8, SMTT(30) DEF LoopTest, WaitPredicate, Block, FlushInterval, StopTest, Goto, FlusherSteps, FlushSteps
  <1>9. CASE Crash
    <2>1. << >> \in Seq(Record)
      BY EmptySeq
    <2>2. crashes' \in 0..MaxCrashes
      BY <1>9 DEF Crash
    <2>3. DataOK'
      BY <1>9, <2>1, <2>2 DEF Crash, NoRecord
    <2>4. PcOK' /\ LocalQueue'
      BY <1>9 DEF Crash, MainSteps, FlusherSteps
    <2> QED
      BY <2>3, <2>4
  <1>10. CASE Terminated \/ UNCHANGED vars
    BY <1>10 DEF Terminated, vars
  <1> QED
    BY <1>1, <1>2, <1>3, <1>4, <1>5, <1>6, <1>7, <1>8, <1>9, <1>10
    DEF Next, mainThread, flushLoop

\* The constructor leaves a well-typed object.
LEMMA InitTypeInv ==
    ASSUME Init
    PROVE  TypeInv
  <1>1. << >> \in Seq(Record)
    BY EmptySeq
  <1>2. DataOK
    <2>1. 0 \in 0..MaxRecords /\ 0 \in 0..MaxCrashes
      BY ConstantsAssumption
    <2> QED
      BY <1>1, <2>1 DEF Init, DataOK, NoRecord
  <1>3. PcOK /\ LocalQueue
    BY TwoThreads DEF Init, PcOK, LocalQueue, Holding, MainSteps, FlusherSteps
  <1> QED
    BY <1>2, <1>3 DEF TypeInv

\* Type correctness: whatever fails and however the threads interleave, the queues
\* hold records, each thread is at a step of its own, and flush() never takes the
\* front of an empty queue.
THEOREM TypeCorrect == Spec => []TypeOK
  <1>1. Init => TypeInv
    BY InitTypeInv
  <1>2. TypeInv /\ [Next]_vars => TypeInv'
    BY TypeInvStep
  <1>3. TypeInv => TypeOK
    BY DEF TypeInv, PcOK, DataOK, TypeOK
  <1> QED
    BY <1>1, <1>2, <1>3, PTL DEF Spec

----------------------------------------------------------------------------
(* One writer at a time, and no record stored twice.  Both need that a     *)
(* failing INSERT leaves the transaction to the ROLLBACK that follows it:  *)
(* when SQLite rolls back by itself, the other thread may begin its own    *)
(* transaction before, and the late ROLLBACK undoes that one.              *)

\* The destructor runs its last flush() and closes the connection alone.
Joined ==
    /\ pc[Main] \in {"idle", "read"} => ~m_stop
    /\ pc[Main] \in {"join", "close", "deleted"} => m_stop
    /\ pc[Main] \in {"close", "deleted"} => pc[Flusher] = "exited"
    /\ m_stop /\ pc[Main] \in FlushSteps => pc[Flusher] = "exited"

\* join() holds the destructor until the flusher has left its loop.
LEMMA JoinedStep ==
    ASSUME TypeInv, Joined, [Next]_vars
    PROVE  Joined'
  <1> USE TwoThreads DEF TypeInv, PcOK, Joined, FlushSteps, storage, Goto
  <1>1. CASE writeAction
    BY <1>1, NotifiedPcOK DEF writeAction
  <1>2. CASE getRecentRecords \/ ReadRows \/ Join \/ Close
    BY <1>2 DEF getRecentRecords, ReadRows, Join, Close
  <1>3. CASE Destroy
    <2>1. pc' = [Notified(pc) EXCEPT ![Main] = "join"]
      BY <1>3 DEF Destroy
    <2> QED
      BY <1>3, <2>1, NotifiedPcOK DEF Destroy
  <1>4. ASSUME NEW t \in Threads, flush(t) PROVE Joined'
    <2>1. m_stop' = m_stop /\ pc[t] \in FlushSteps
          /\ (Goto(t, Return(t)) \/ \E l \in FlushSteps : Goto(t, l))
      BY <1>4 DEF flush, SwapOut, Begin, GiveBack, Bind, Step, InsertOk, InsertFails,
           Rollback, Requeue, Commit
    <2> QED
      BY <2>1 DEF Return
  <1>5. CASE LoopTest \/ WaitPredicate \/ Block \/ FlushInterval \/ StopTest
    BY <1>5 DEF LoopTest, WaitPredicate, Block, FlushInterval, StopTest
  <1>6. CASE Crash
    BY <1>6 DEF Crash
  <1>7. CASE Terminated \/ UNCHANGED vars
    BY <1>7 DEF Terminated, vars
  <1> QED
    BY <1>1, <1>2, <1>3, <1>4, <1>5, <1>6, <1>7 DEF Next, mainThread, flushLoop

\* While a thread is about to step the INSERT, its front record is what is bound.
BoundIsFront == \A t \in Threads : pc[t] = "step" => bound = Head(toFlush[t])

\* BEGIN IMMEDIATE keeps the threads apart, hence the shared statement is used by
\* one of them at a time.
LEMMA OneWriterStep ==
    ASSUME "insertRollback" \notin Faults \/ ~FailedInsert',
           TypeInv, Joined, OneWriter, BoundIsFront, [Next]_vars
    PROVE  OneWriter' /\ BoundIsFront'
  <1> USE TwoThreads DEF TypeInv, PcOK, DataOK, OneWriter, BoundIsFront, InTransaction, storage, Goto
  <1>1. CASE writeAction
    BY <1>1, NotifiedPcOK DEF writeAction
  <1>2. CASE getRecentRecords \/ ReadRows \/ Join
    BY <1>2 DEF getRecentRecords, ReadRows, Join
  <1>3. CASE Close
    BY <1>3 DEF Close, Joined
  <1>4. CASE Destroy
    <2>1. pc' = [Notified(pc) EXCEPT ![Main] = "join"]
      BY <1>4 DEF Destroy
    <2> QED
      BY <1>4, <2>1, NotifiedPcOK DEF Destroy
  <1>5. ASSUME NEW t \in Threads, flush(t) PROVE OneWriter' /\ BoundIsFront'
    <2>0. Return(t) \in {"top", "close", "read"}
      BY DEF Return
    <2>1. CASE SwapOut(t)
      BY <2>0, <2>1 DEF SwapOut
    <2>2. CASE Begin(t)
      BY <2>2 DEF Begin
    <2>3. CASE GiveBack(t)
      BY <2>0, <2>3 DEF GiveBack
    <2>4. CASE Bind(t)
      BY <2>4 DEF Bind
    <2>5. CASE Step(t)
      <3>1. InsertOk(t) \/ (InsertFails(t) /\ "insertRollback" \notin Faults)
        BY <2>5 DEF Step, InsertFails, FailedInsert
      <3> QED
        BY <1>5, <2>5, <3>1 DEF Step, InsertOk, InsertFails
    <2>6. CASE Rollback(t)
      BY <2>6 DEF Rollback
    <2>7. CASE Requeue(t)
      BY <2>0, <2>7 DEF Requeue
    <2>8. CASE Commit(t)
      BY <2>0, <2>8 DEF Commit
    <2> QED
      BY <1>5, <2>1, <2>2, <2>3, <2>4, <2>5, <2>6, <2>7, <2>8 DEF flush
  <1>6. CASE LoopTest \/ WaitPredicate \/ Block \/ FlushInterval \/ StopTest
    BY <1>6 DEF LoopTest, WaitPredicate, Block, FlushInterval, StopTest
  <1>7. CASE Crash
    BY <1>7 DEF Crash
  <1>8. CASE Terminated \/ UNCHANGED vars
    BY <1>8 DEF Terminated, vars
  <1> QED
    BY <1>1, <1>2, <1>3, <1>4, <1>5, <1>6, <1>7, <1>8 DEF Next, mainThread, flushLoop

\* An empty queue has no record.  (This lemma and the next three: what the queue operators
\* do to the records of a queue and to its having each once.)
LEMMA SetOfEmpty == ToSet(<< >>) = {} /\ IsInjective(<< >>)
  BY DEF ToSet, IsInjective

\* A record appended is one more element, and stays unique if it is new.
LEMMA SetOfAppend ==
    ASSUME NEW s \in Seq(Record), NEW r \in Record
    PROVE  /\ ToSet(Append(s, r)) = ToSet(s) \union {r}
           /\ IsInjective(s) /\ r \notin ToSet(s) => IsInjective(Append(s, r))
  <1>1. /\ Len(s) \in Nat /\ DOMAIN s = 1..Len(s)
        /\ DOMAIN Append(s, r) = 1..(Len(s) + 1)
        /\ \A k \in 1..Len(s) : Append(s, r)[k] = s[k]
        /\ Append(s, r)[Len(s) + 1] = r
    BY AppendProperties, LenProperties
  <1> QED
    BY <1>1 DEF ToSet, IsInjective

\* Taking the front record leaves the others, without it.
LEMMA SetOfTail ==
    ASSUME NEW s \in Seq(Record), s # << >>, IsInjective(s)
    PROVE  /\ ToSet(Tail(s)) = ToSet(s) \ {Head(s)}
           /\ Head(s) \in ToSet(s)
           /\ IsInjective(Tail(s))
  <1>1. /\ Len(s) \in Nat /\ Len(s) > 0 /\ DOMAIN s = 1..Len(s)
        /\ Head(s) = s[1]
        /\ DOMAIN Tail(s) = 1..(Len(s) - 1)
        /\ \A k \in 1..(Len(s) - 1) : Tail(s)[k] = s[k + 1]
    BY HeadTailProperties, LenProperties, EmptySeq
  <1>2. \A k \in 2..Len(s) : k - 1 \in 1..(Len(s) - 1) /\ Tail(s)[k - 1] = s[k]
    BY <1>1
  <1>3. ASSUME NEW k \in DOMAIN Tail(s) PROVE Tail(s)[k] \in ToSet(s) \ {Head(s)}
    <2>1. k + 1 \in 1..Len(s) /\ 1 \in 1..Len(s) /\ k + 1 # 1 /\ Tail(s)[k] = s[k + 1]
      BY <1>1
    <2> QED
      BY <1>1, <2>1 DEF ToSet, IsInjective
  <1>4. ASSUME NEW k \in DOMAIN s, s[k] # Head(s) PROVE s[k] \in ToSet(Tail(s))
    <2>1. k \in 2..Len(s)
      BY <1>1, <1>4
    <2> QED
      BY <1>1, <1>2, <2>1 DEF ToSet
  <1>5. ASSUME NEW j \in DOMAIN Tail(s), NEW k \in DOMAIN Tail(s), Tail(s)[j] = Tail(s)[k]
        PROVE  j = k
    <2>1. j + 1 \in DOMAIN s /\ k + 1 \in DOMAIN s /\ s[j + 1] = s[k + 1]
      BY <1>1, <1>5
    <2>2. j + 1 = k + 1
      BY <2>1 DEF IsInjective
    <2> QED
      BY <1>1, <2>2
  <1>6. Head(s) \in ToSet(s)
    BY <1>1 DEF ToSet
  <1> QED
    BY <1>3, <1>4, <1>5, <1>6 DEF ToSet, IsInjective

\* Two queues without a common record make one with each record once.
LEMMA SetOfConcat ==
    ASSUME NEW s \in Seq(Record), NEW u \in Seq(Record)
    PROVE  /\ ToSet(s \o u) = ToSet(s) \union ToSet(u)
           /\ IsInjective(s) /\ IsInjective(u) /\ ToSet(s) \cap ToSet(u) = {}
                  => IsInjective(s \o u)
  <1>1. /\ Len(s) \in Nat /\ DOMAIN s = 1..Len(s)
        /\ Len(u) \in Nat /\ DOMAIN u = 1..Len(u)
        /\ DOMAIN (s \o u) = 1..(Len(s) + Len(u))
        /\ \A k \in 1..(Len(s) + Len(u)) :
              (s \o u)[k] = IF k <= Len(s) THEN s[k] ELSE u[k - Len(s)]
    BY ConcatProperties, LenProperties
  <1>2. \A k \in 1..Len(u) : Len(s) + k \in 1..(Len(s) + Len(u)) /\ (s \o u)[Len(s) + k] = u[k]
    BY <1>1
  <1>3. ASSUME NEW k \in DOMAIN (s \o u)
        PROVE  \/ k \in DOMAIN s /\ (s \o u)[k] = s[k]
               \/ k > Len(s) /\ k - Len(s) \in DOMAIN u /\ (s \o u)[k] = u[k - Len(s)]
    BY <1>1
  <1>4. ToSet(s \o u) \subseteq ToSet(s) \union ToSet(u)
    BY <1>3 DEF ToSet
  <1>5. ToSet(s) \subseteq ToSet(s \o u)
    BY <1>1 DEF ToSet
  <1>6. ASSUME NEW k \in DOMAIN u PROVE u[k] \in ToSet(s \o u)
    <2>1. Len(s) + k \in DOMAIN (s \o u) /\ (s \o u)[Len(s) + k] = u[k]
      BY <1>1, <1>2
    <2> QED
      BY <2>1 DEF ToSet
  <1>7. ASSUME IsInjective(s), IsInjective(u), ToSet(s) \cap ToSet(u) = {},
               NEW j \in DOMAIN (s \o u), NEW k \in DOMAIN (s \o u), (s \o u)[j] = (s \o u)[k]
        PROVE  j = k
    <2>1. ASSUME NEW a \in DOMAIN s, NEW b \in DOMAIN u PROVE s[a] # u[b]
      BY <1>7 DEF ToSet
    <2>2. CASE j \in DOMAIN s /\ k \in DOMAIN s
      BY <1>1, <1>7, <2>2 DEF IsInjective
    <2>3. CASE j > Len(s) /\ k > Len(s)
      <3>1. j - Len(s) \in DOMAIN u /\ k - Len(s) \in DOMAIN u /\ u[j - Len(s)] = u[k - Len(s)]
        BY <1>1, <1>7, <2>3
      <3>2. j - Len(s) = k - Len(s)
        BY <1>7, <3>1 DEF IsInjective
      <3> QED
        BY <1>1, <3>2
    <2> QED
      BY <1>1, <1>3, <1>7, <2>1, <2>2, <2>3
  <1>8. ToSet(u) \subseteq ToSet(s \o u)
    BY <1>6 DEF ToSet
  <1> QED
    BY <1>4, <1>5, <1>7, <1>8 DEF IsInjective

\* The places of a record, spelled out.
Apart ==
    /\ IsInjective(m_buffer) /\ IsInjective(toFlush[Main]) /\ IsInjective(toFlush[Flusher])
    /\ IsInjective(pending) /\ IsInjective(rows)
    /\ ToSet(m_buffer) \cap (ToSet(toFlush[Main]) \union ToSet(toFlush[Flusher])
                                 \union ToSet(pending) \union ToSet(rows)) = {}
    /\ ToSet(toFlush[Main]) \cap (ToSet(toFlush[Flusher]) \union ToSet(pending)
                                      \union ToSet(rows)) = {}
    /\ ToSet(toFlush[Flusher]) \cap (ToSet(pending) \union ToSet(rows)) = {}
    /\ ToSet(pending) \cap ToSet(rows) = {}

\* Only numbers given out already are around, so the next record is new.
Numbered ==
    ToSet(m_buffer) \union ToSet(toFlush[Main]) \union ToSet(toFlush[Flusher])
        \union ToSet(pending) \union ToSet(rows) \subseteq 1..written

\* The spelled-out form says what the property says.
LEMMA ApartIsNoDuplicates == Apart => NoDuplicates
  <1> SUFFICES ASSUME Apart PROVE NoDuplicates
    OBVIOUS
  <1>1. /\ DOMAIN Places = 1..5
        /\ Places[1] = m_buffer /\ Places[2] = toFlush[Main] /\ Places[3] = toFlush[Flusher]
        /\ Places[4] = pending /\ Places[5] = rows
    BY DEF Places
  <1>2. \A i \in 1..5 : i = 1 \/ i = 2 \/ i = 3 \/ i = 4 \/ i = 5
    OBVIOUS
  <1>3. \A i \in DOMAIN Places : IsInjective(Places[i])
    BY <1>1, <1>2 DEF Apart
  <1>4. \A i, j \in DOMAIN Places : i # j => ToSet(Places[i]) \cap ToSet(Places[j]) = {}
    BY <1>1, <1>2, Zenon DEF Apart
  <1> QED
    BY <1>3, <1>4 DEF NoDuplicates

\* No step of flush() copies a record.
LEMMA FlushApart ==
    ASSUME TypeInv, OneWriter, BoundIsFront, Apart, Numbered, NEW t \in Threads, flush(t)
    PROVE  Apart' /\ Numbered'
  <1> DEFINE other == IF t = Main THEN Flusher ELSE Main
  <1>0. /\ t # other /\ other \in Threads
        /\ toFlush[t] \in Seq(Record) /\ toFlush[other] \in Seq(Record)
        /\ m_buffer \in Seq(Record) /\ pending \in Seq(Record) /\ rows \in Seq(Record)
        /\ toFlush \in [Threads -> Seq(Record)]
    BY TwoThreads DEF TypeInv, DataOK
  \* The invariant as thread t sees it.
  <1> DEFINE View(b, mine, his, p, r) ==
         /\ IsInjective(b) /\ IsInjective(mine) /\ IsInjective(his) /\ IsInjective(p) /\ IsInjective(r)
         /\ ToSet(b) \cap (ToSet(mine) \union ToSet(his) \union ToSet(p) \union ToSet(r)) = {}
         /\ ToSet(mine) \cap (ToSet(his) \union ToSet(p) \union ToSet(r)) = {}
         /\ ToSet(his) \cap (ToSet(p) \union ToSet(r)) = {}
         /\ ToSet(p) \cap ToSet(r) = {}
         /\ ToSet(b) \union ToSet(mine) \union ToSet(his) \union ToSet(p) \union ToSet(r)
               \subseteq 1..written
  <1>1. View(m_buffer, toFlush[t], toFlush[other], pending, rows)
    BY TwoThreads DEF Apart, Numbered
  <1>2. /\ View(m_buffer', toFlush'[t], toFlush'[other], pending', rows')
        /\ written' = written
        => Apart' /\ Numbered'
    BY TwoThreads DEF Apart, Numbered
  <1>3. written' = written
    BY DEF flush, SwapOut, Begin, GiveBack, Bind, Step, Rollback, Requeue, Commit
  <1>4. View(m_buffer', toFlush'[t], toFlush'[other], pending', rows')
    <2> USE DEF storage
    <2>1. CASE SwapOut(t)
      <3>1. UNCHANGED <<pending, rows>> /\ toFlush'[other] = toFlush[other]
        BY <1>0, <2>1 DEF SwapOut
      <3>2. \/ m_buffer' = m_buffer /\ toFlush'[t] = toFlush[t]
            \/ m_buffer' = << >> /\ toFlush'[t] = m_buffer
        BY <1>0, <2>1 DEF SwapOut
      <3> QED
        BY <1>1, <3>1, <3>2, SetOfEmpty
    <2>2. CASE Begin(t) \/ Bind(t)
      BY <1>1, <2>2 DEF Begin, Bind
    <2>3. CASE GiveBack(t)
      <3>1. /\ UNCHANGED <<pending, rows>> /\ toFlush'[other] = toFlush[other]
            /\ m_buffer' = toFlush[t] /\ toFlush'[t] = << >>
        BY <1>0, <2>3 DEF GiveBack
      <3> QED
        BY <1>1, <3>1, SetOfEmpty
    <2>4. CASE Step(t) /\ InsertOk(t)
      <3>1. /\ inTxn /\ bound = Head(toFlush[t]) /\ toFlush[t] # << >>
        BY <2>4 DEF Step, OneWriter, InTransaction, BoundIsFront, TypeInv, LocalQueue, Holding
      <3>2. /\ m_buffer' = m_buffer /\ rows' = rows /\ toFlush'[other] = toFlush[other]
            /\ pending' = Append(pending, Head(toFlush[t])) /\ toFlush'[t] = Tail(toFlush[t])
        BY <1>0, <2>4, <3>1 DEF Step, InsertOk
      <3>3. Head(toFlush[t]) \in Record
        BY <1>0, <3>1, HeadTailProperties
      <3>4. /\ ToSet(Tail(toFlush[t])) = ToSet(toFlush[t]) \ {Head(toFlush[t])}
            /\ Head(toFlush[t]) \in ToSet(toFlush[t])
            /\ IsInjective(Tail(toFlush[t]))
        BY <1>0, <1>1, <3>1, SetOfTail
      <3>5. /\ ToSet(Append(pending, Head(toFlush[t]))) = ToSet(pending) \union {Head(toFlush[t])}
            /\ IsInjective(Append(pending, Head(toFlush[t])))
        BY <1>0, <1>1, <3>3, <3>4, SetOfAppend
      <3> QED
        BY <1>1, <3>2, <3>4, <3>5
    <2>5. CASE Step(t) /\ InsertFails(t)
      BY <1>1, <2>5, SetOfEmpty DEF Step, InsertFails
    <2>6. CASE Rollback(t)
      BY <1>1, <2>6, SetOfEmpty DEF Rollback
    <2>7. CASE Requeue(t)
      <3>1. /\ UNCHANGED <<pending, rows>> /\ toFlush'[other] = toFlush[other]
            /\ m_buffer' = m_buffer \o toFlush[t] /\ toFlush'[t] = << >>
        BY <1>0, <2>7 DEF Requeue
      <3>2. /\ ToSet(m_buffer \o toFlush[t]) = ToSet(m_buffer) \union ToSet(toFlush[t])
            /\ IsInjective(m_buffer \o toFlush[t])
        BY <1>0, <1>1, SetOfConcat
      <3> QED
        BY <1>1, <3>1, <3>2, SetOfEmpty
    <2>8. CASE Commit(t)
      <3>1. /\ ToSet(rows \o pending) = ToSet(rows) \union ToSet(pending)
            /\ IsInjective(rows \o pending)
        BY <1>0, <1>1, SetOfConcat
      <3>2. /\ m_buffer' = m_buffer /\ toFlush' = toFlush
            /\ \/ rows' = rows \o pending /\ pending' = << >>
               \/ UNCHANGED <<pending, rows>>
               \/ rows' = rows /\ pending' = << >>
        BY <2>8 DEF Commit
      <3> QED
        BY <1>1, <3>1, <3>2, SetOfEmpty
    <2> QED
      BY <2>1, <2>2, <2>3, <2>4, <2>5, <2>6, <2>7, <2>8 DEF flush, Step
  <1> QED
    BY <1>2, <1>3, <1>4

SharedInv == TypeInv /\ Joined /\ OneWriter /\ BoundIsFront /\ Apart /\ Numbered

\* The invariant of the shared connection is inductive.
LEMMA SharedInvStep ==
    ASSUME "insertRollback" \notin Faults \/ ~FailedInsert', SharedInv, [Next]_vars
    PROVE  SharedInv'
  <1> USE DEF SharedInv
  <1>1. TypeInv' /\ Joined' /\ OneWriter' /\ BoundIsFront'
    BY TypeInvStep, JoinedStep, OneWriterStep
  <1>2. Apart' /\ Numbered'
    <2> USE DEF Apart, Numbered, storage
    <2>1. CASE writeAction
      <3>1. /\ written' = written + 1 /\ m_buffer' = Append(m_buffer, written + 1)
            /\ UNCHANGED <<toFlush, pending, rows>>
        BY <2>1 DEF writeAction
      <3>2. written \in Nat /\ m_buffer \in Seq(Record) /\ written + 1 \in Record
        BY ConstantsAssumption DEF TypeInv, DataOK, Record, NoRecord
      <3>3. 1..written \subseteq 1..(written + 1) /\ written + 1 \notin 1..written
            /\ written + 1 \in 1..(written + 1)
        BY <3>2
      <3>4. /\ ToSet(m_buffer') = ToSet(m_buffer) \union {written + 1}
            /\ IsInjective(m_buffer')
        BY <3>1, <3>2, <3>3, SetOfAppend
      <3> QED
        BY <3>1, <3>3, <3>4
    <2>2. CASE flush(Main) \/ flush(Flusher)
      BY <2>2, TwoThreads, FlushApart
    <2>3. CASE Close
      BY <2>3, SetOfEmpty DEF Close
    <2>4. CASE Crash
      <3>1. /\ m_buffer' = << >> /\ pending' = << >> /\ UNCHANGED <<written, rows>>
            /\ toFlush'[Main] = << >> /\ toFlush'[Flusher] = << >>
        BY <2>4, TwoThreads DEF Crash
      <3> QED
        BY <3>1, SetOfEmpty
    <2>5. CASE UNCHANGED <<written, m_buffer, toFlush, pending, rows>>
      BY <2>5
    <2> QED
      BY <2>1, <2>2, <2>3, <2>4, <2>5
      DEF Next, mainThread, flushLoop, getRecentRecords, ReadRows, Destroy, Join, LoopTest,
          WaitPredicate, Block, FlushInterval, StopTest, Terminated, vars
  <1> QED
    BY <1>1, <1>2

\* It holds of a new writer.
LEMMA InitSharedInv ==
    ASSUME Init
    PROVE  SharedInv
  <1>1. TypeInv
    BY InitTypeInv
  <1>2. Joined /\ OneWriter /\ BoundIsFront
    BY TwoThreads DEF Init, Joined, OneWriter, BoundIsFront, InTransaction, FlushSteps
  <1>3. /\ m_buffer = << >> /\ pending = << >> /\ rows = << >>
        /\ toFlush[Main] = << >> /\ toFlush[Flusher] = << >>
    BY TwoThreads DEF Init
  <1>4. Apart /\ Numbered
    BY <1>3, SetOfEmpty DEF Apart, Numbered
  <1> QED
    BY <1>1, <1>2, <1>4 DEF SharedInv

\* It holds in every reachable state, unless SQLite rolls a transaction back behind
\* flush()'s back.
LEMMA SharedInvariant ==
    ASSUME "insertRollback" \notin Faults
    PROVE  Spec => []SharedInv
  <1>1. Init => SharedInv
    BY InitSharedInv
  <1>2. SharedInv /\ [Next]_vars => SharedInv'
    BY SharedInvStep
  <1> QED
    BY <1>1, <1>2, PTL DEF Spec

\* Unless SQLite rolls a transaction back behind flush()'s back, two threads never use the
\* transaction and the INSERT statement at once, although no lock of the program guards
\* them: whichever statement fails, whenever the process crashes.
THEOREM WritersTakeTurns ==
    ASSUME "insertRollback" \notin Faults
    PROVE  Spec => []OneWriter
  <1>1. SharedInv => OneWriter
    BY DEF SharedInv
  <1> QED
    BY <1>1, SharedInvariant, PTL

\* ... and no CDR record is stored twice.
THEOREM NoRecordStoredTwice ==
    ASSUME "insertRollback" \notin Faults
    PROVE  Spec => []NoDuplicates
  <1>1. SharedInv => NoDuplicates
    BY ApartIsNoDuplicates DEF SharedInv
  <1> QED
    BY <1>1, SharedInvariant, PTL

----------------------------------------------------------------------------
(* What a management client has seen stays in the table.                   *)

\* getRecentRecords may report rows that are not committed yet.  They stay because no
\* transaction is undone, and because the connection is closed after join(), when the
\* flusher has left no transaction open.
Undisturbed ==
    /\ \A t \in Threads : pc[t] \notin {"rollback", "requeue"}
    /\ pending # << >> => InTransaction(Main) \/ InTransaction(Flusher)
    /\ reported \subseteq ToSet(rows) \union ToSet(pending)

\* flush() by either thread: rows are added, and leave the transaction for the table.
LEMMA FlushUndisturbed ==
    ASSUME Faults \subseteq {"begin"}, SharedInv, Undisturbed, NEW t \in Threads, flush(t)
    PROVE  Undisturbed'
  <1> USE TwoThreads DEF Undisturbed, InTransaction, storage, Goto
  <1>0. /\ pc \in [Threads -> MainSteps \union FlusherSteps]
        /\ pending \in Seq(Record) /\ rows \in Seq(Record)
        /\ toFlush \in [Threads -> Seq(Record)]
        /\ Return(t) \in {"top", "close", "read"}
    BY DEF SharedInv, TypeInv, PcOK, DataOK, Return
  <1>1. CASE SwapOut(t)
    BY <1>0, <1>1 DEF SwapOut
  <1>2. CASE Begin(t)
    BY <1>0, <1>2 DEF Begin
  <1>3. CASE GiveBack(t)
    BY <1>0, <1>3 DEF GiveBack
  <1>4. CASE Bind(t)
    BY <1>0, <1>4 DEF Bind
  <1>5. CASE Step(t)
    <2>1. inTxn /\ bound \in Record
      <3>1. inTxn /\ bound = Head(toFlush[t]) /\ toFlush[t] # << >>
        BY <1>5 DEF Step, SharedInv, OneWriter, BoundIsFront, TypeInv, LocalQueue, Holding
      <3> QED
        BY <1>0, <3>1, HeadTailProperties
    <2>2. InsertOk(t)
      BY <1>5, <2>1 DEF Step, InsertFails, Record
    <2>3. pending' = Append(pending, bound) /\ rows' = rows /\ pc' = [pc EXCEPT ![t] = "bind"]
      BY <2>1, <2>2 DEF InsertOk
    <2>4. ToSet(pending') = ToSet(pending) \union {bound}
      BY <1>0, <2>1, <2>3, SetOfAppend
    <2>5. reported' = reported
      BY <1>5 DEF Step
    <2> QED
      BY <1>0, <2>3, <2>4, <2>5
  <1>6. CASE Commit(t)
    <2>1. inTxn
      BY <1>6 DEF Commit, SharedInv, OneWriter
    <2>2. rows' = rows \o pending /\ pending' = << >> /\ reported' = reported
      BY <1>6, <2>1 DEF Commit
    <2>3. ToSet(rows') = ToSet(rows) \union ToSet(pending)
      BY <1>0, <2>2, SetOfConcat
    <2>4. pc' = [pc EXCEPT ![t] = Return(t)]
      BY <1>6 DEF Commit
    <2> QED
      BY <1>0, <2>2, <2>3, <2>4
  <1>7. ~Rollback(t) /\ ~Requeue(t)
    BY DEF Rollback, Requeue
  <1> QED
    BY <1>1, <1>2, <1>3, <1>4, <1>5, <1>6, <1>7 DEF flush

\* Every step of the writer, a crash included, which forgets what was reported.
LEMMA UndisturbedStep ==
    ASSUME Faults \subseteq {"begin"}, SharedInv, Undisturbed, [Next]_vars
    PROVE  Undisturbed'
  <1> USE TwoThreads DEF Undisturbed, InTransaction, storage, Goto
  <1>0. /\ PcOK /\ pc \in [Threads -> MainSteps \union FlusherSteps]
        /\ pending \in Seq(Record) /\ rows \in Seq(Record)
    BY DEF SharedInv, TypeInv, PcOK, DataOK
  <1>1. CASE writeAction
    BY <1>0, <1>1, NotifiedPcOK DEF writeAction
  <1>2. CASE getRecentRecords \/ Join
    BY <1>0, <1>2 DEF getRecentRecords, Join
  <1>3. CASE ReadRows
    <2>1. PICK S \in SUBSET ToSet(Visible) : reported' = S
      BY <1>3 DEF ReadRows
    <2>2. ToSet(Visible) = ToSet(rows) \union ToSet(pending)
      BY <1>0, SetOfConcat DEF Visible
    <2> QED
      BY <1>0, <1>3, <2>1, <2>2 DEF ReadRows
  <1>4. CASE Close
    <2>1. pc[Main] = "close" /\ pc[Flusher] = "exited"
      BY <1>4 DEF Close, SharedInv, Joined
    <2>2. pending = << >>
      BY <2>1
    <2> QED
      BY <1>0, <1>4, <2>1, <2>2 DEF Close
  <1>5. CASE Destroy
    <2>1. pc' = [Notified(pc) EXCEPT ![Main] = "join"]
      BY <1>5 DEF Destroy
    <2> QED
      BY <1>0, <1>5, <2>1, NotifiedPcOK DEF Destroy
  <1>6. CASE flush(Main) \/ flush(Flusher)
    BY <1>6, FlushUndisturbed
  <1>7. CASE LoopTest \/ WaitPredicate \/ Block \/ FlushInterval \/ StopTest
    BY <1>0, <1>7 DEF LoopTest, WaitPredicate, Block, FlushInterval, StopTest
  <1>8. CASE Crash
    BY <1>8 DEF Crash
  <1>9. CASE Terminated \/ UNCHANGED vars
    BY <1>9 DEF Terminated, vars
  <1> QED
    BY <1>1, <1>2, <1>3, <1>4, <1>5, <1>6, <1>7, <1>8, <1>9 DEF Next, mainThread, flushLoop

\* Unless an INSERT or a COMMIT fails, the records that GET_CDR has shown stay in the
\* table, also those it read from a transaction that was not committed: a BEGIN refused
\* because of the other thread, or for a storage fault, undoes nothing.
THEOREM ReportedRecordsStay ==
    ASSUME Faults \subseteq {"begin"}
    PROVE  Spec => []ReportedStaysStored
  <1>1. Init => Undisturbed
    BY TwoThreads, SetOfEmpty DEF Init, Undisturbed
  <1>2. SharedInv /\ Undisturbed /\ [Next]_vars => Undisturbed'
    BY UndisturbedStep
  <1>3. SharedInv /\ Undisturbed => ReportedStaysStored
    BY SetOfConcat DEF SharedInv, TypeInv, DataOK, Undisturbed, ReportedStaysStored, Visible
  <1>4. Spec => []SharedInv
    <2>1. "insertRollback" \notin Faults
      OBVIOUS
    <2> QED
      BY <2>1, SharedInvariant
  <1> QED
    BY <1>1, <1>2, <1>3, <1>4, PTL DEF Spec

----------------------------------------------------------------------------
(* The order of the rows, whatever fails but an INSERT.                    *)

Increasing(s) == \A i, j \in DOMAIN s : i < j => s[i] < s[j]
Before(S, T) == \A x \in S, y \in T : x < y

\* With no GET_CDR only the destructor flushes on the main thread, when the flusher has
\* left; and no INSERT has failed so far.
OneFlush ==
    /\ pc[Main] \in FlushSteps => m_stop
    /\ pc[Main] # "read"
    /\ \A t \in Threads : pc[t] \notin {"rollback", "requeue"}

\* The table, the transaction, the local queues and the buffer: each in order, and older
\* records before newer ones.
InWriteOrder ==
    /\ Increasing(rows) /\ Increasing(pending) /\ Increasing(m_buffer)
    /\ \A t \in Threads :
          /\ Increasing(toFlush[t])
          /\ Before(ToSet(rows) \union ToSet(pending), ToSet(toFlush[t]))
          /\ Before(ToSet(toFlush[t]), ToSet(m_buffer))
    /\ Before(ToSet(rows), ToSet(pending))
    /\ Before(ToSet(rows) \union ToSet(pending), ToSet(m_buffer))

OrderInv == SharedInv /\ OneFlush /\ InWriteOrder

\* Appending the newest record.
LEMMA IncreasingAppend ==
    ASSUME NEW s \in Seq(Record), NEW r \in Record, Increasing(s), Before(ToSet(s), {r})
    PROVE  Increasing(Append(s, r))
  <1>1. /\ Len(s) \in Nat /\ DOMAIN s = 1..Len(s)
        /\ DOMAIN Append(s, r) = 1..(Len(s) + 1)
        /\ \A k \in 1..Len(s) : Append(s, r)[k] = s[k]
        /\ Append(s, r)[Len(s) + 1] = r
    BY AppendProperties, LenProperties
  <1>2. \A k \in 1..Len(s) : s[k] < r
    BY <1>1 DEF Before, ToSet
  <1> QED
    BY <1>1, <1>2 DEF Increasing

\* Taking the oldest record.
LEMMA IncreasingTail ==
    ASSUME NEW s \in Seq(Record), s # << >>, Increasing(s)
    PROVE  /\ Increasing(Tail(s)) /\ Before({Head(s)}, ToSet(Tail(s)))
           /\ Head(s) \in ToSet(s) /\ ToSet(Tail(s)) \subseteq ToSet(s)
  <1>1. /\ Len(s) \in Nat /\ Len(s) > 0 /\ DOMAIN s = 1..Len(s)
        /\ Head(s) = s[1]
        /\ DOMAIN Tail(s) = 1..(Len(s) - 1)
        /\ \A k \in 1..(Len(s) - 1) : Tail(s)[k] = s[k + 1]
    BY HeadTailProperties, LenProperties, EmptySeq
  <1>2. ASSUME NEW k \in DOMAIN Tail(s)
        PROVE  k + 1 \in DOMAIN s /\ Tail(s)[k] = s[k + 1] /\ s[1] < s[k + 1] /\ k \in Nat
    <2>1. k + 1 \in DOMAIN s /\ 1 \in DOMAIN s /\ 1 < k + 1 /\ Tail(s)[k] = s[k + 1] /\ k \in Nat
      BY <1>1
    <2> QED
      BY <2>1 DEF Increasing
  <1>3. Increasing(Tail(s))
    <2>1. ASSUME NEW i \in DOMAIN Tail(s), NEW j \in DOMAIN Tail(s), i < j
          PROVE  Tail(s)[i] < Tail(s)[j]
      <3>1. i + 1 < j + 1
        BY <1>2, <2>1
      <3> QED
        BY <1>2, <3>1 DEF Increasing
    <2> QED
      BY <2>1 DEF Increasing
  <1>4. Before({Head(s)}, ToSet(Tail(s))) /\ ToSet(Tail(s)) \subseteq ToSet(s)
    BY <1>1, <1>2 DEF Before, ToSet
  <1>5. Head(s) \in ToSet(s)
    BY <1>1 DEF ToSet
  <1> QED
    BY <1>3, <1>4, <1>5

\* One queue behind another of older records.
LEMMA IncreasingConcat ==
    ASSUME NEW s \in Seq(Record), NEW u \in Seq(Record), Increasing(s), Increasing(u),
           Before(ToSet(s), ToSet(u))
    PROVE  Increasing(s \o u)
  <1>1. /\ Len(s) \in Nat /\ DOMAIN s = 1..Len(s)
        /\ Len(u) \in Nat /\ DOMAIN u = 1..Len(u)
        /\ DOMAIN (s \o u) = 1..(Len(s) + Len(u))
        /\ \A k \in 1..(Len(s) + Len(u)) :
              (s \o u)[k] = IF k <= Len(s) THEN s[k] ELSE u[k - Len(s)]
    BY ConcatProperties, LenProperties
  <1>2. ASSUME NEW i \in DOMAIN (s \o u), NEW j \in DOMAIN (s \o u), i < j
        PROVE  (s \o u)[i] < (s \o u)[j]
    <2>1. CASE j <= Len(s)
      BY <1>1, <1>2, <2>1 DEF Increasing
    <2>2. CASE i <= Len(s) /\ ~(j <= Len(s))
      <3>1. i \in DOMAIN s /\ j - Len(s) \in DOMAIN u
        BY <1>1, <2>2
      <3> QED
        BY <1>1, <2>2, <3>1 DEF Before, ToSet
    <2>3. CASE ~(i <= Len(s))
      <3>1. /\ i - Len(s) \in DOMAIN u /\ j - Len(s) \in DOMAIN u /\ i - Len(s) < j - Len(s)
            /\ ~(j <= Len(s))
        BY <1>1, <1>2, <2>3
      <3> QED
        BY <1>1, <2>3, <3>1 DEF Increasing
    <2> QED
      BY <1>1, <1>2, <2>1, <2>2, <2>3
  <1> QED
    BY <1>2 DEF Increasing

\* No flush() by the event loop, and none by the destructor before the flusher has left.
LEMMA OneFlushStep ==
    ASSUME GetCdr = FALSE, ~FailedInsert', SharedInv, OneFlush, [Next]_vars
    PROVE  OneFlush'
  <1> USE TwoThreads DEF SharedInv, TypeInv, PcOK, Joined, OneFlush, FlushSteps, storage, Goto
  <1>1. CASE writeAction
    BY <1>1, NotifiedPcOK DEF writeAction
  <1>2. CASE getRecentRecords \/ ReadRows \/ Join \/ Close
    BY <1>2 DEF getRecentRecords, ReadRows, Join, Close
  <1>3. CASE Destroy
    <2>1. pc' = [Notified(pc) EXCEPT ![Main] = "join"]
      BY <1>3 DEF Destroy
    <2> QED
      BY <1>3, <2>1, NotifiedPcOK DEF Destroy
  <1>4. ASSUME NEW t \in Threads, flush(t) PROVE OneFlush'
    <2>0. \A u \in Threads : pc'[u] # "rollback"
      BY DEF FailedInsert
    <2>1. /\ m_stop' = m_stop /\ pc[t] \in FlushSteps
          /\ (Goto(t, Return(t)) \/ \E l \in FlushSteps \ {"requeue"} : Goto(t, l))
      BY <1>4 DEF flush, SwapOut, Begin, GiveBack, Bind, Step, InsertOk, InsertFails,
           Rollback, Requeue, Commit
    <2> QED
      BY <2>0, <2>1 DEF Return
  <1>5. CASE LoopTest \/ WaitPredicate \/ Block \/ FlushInterval \/ StopTest
    BY <1>5 DEF LoopTest, WaitPredicate, Block, FlushInterval, StopTest
  <1>6. CASE Crash
    BY <1>6 DEF Crash
  <1>7. CASE Terminated \/ UNCHANGED vars
    BY <1>7 DEF Terminated, vars
  <1> QED
    BY <1>1, <1>2, <1>3, <1>4, <1>5, <1>6, <1>7 DEF Next, mainThread, flushLoop

\* flush() keeps the order: the other thread has no local queue, so that the buffer a
\* failed BEGIN overwrites holds newer records only.
LEMMA FlushInWriteOrder ==
    ASSUME OrderInv, ~FailedInsert', NEW t \in Threads, flush(t)
    PROVE  InWriteOrder'
  <1> DEFINE other == IF t = Main THEN Flusher ELSE Main
  <1>0. /\ t # other /\ other \in Threads /\ Threads = {t, other}
        /\ toFlush[t] \in Seq(Record)
        /\ m_buffer \in Seq(Record) /\ pending \in Seq(Record) /\ rows \in Seq(Record)
        /\ toFlush \in [Threads -> Seq(Record)]
    BY TwoThreads DEF OrderInv, SharedInv, TypeInv, DataOK
  <1>1. toFlush[other] = << >>
    <2>1. pc[t] \in FlushSteps
      BY DEF flush, SwapOut, Begin, GiveBack, Bind, Step, Rollback, Requeue, Commit, FlushSteps
    <2>2. pc[other] \notin Holding
      BY <2>1, TwoThreads DEF OrderInv, SharedInv, OneFlush, Joined, FlushSteps, Holding
    <2> QED
      BY <1>0, <2>2 DEF OrderInv, SharedInv, TypeInv, LocalQueue
  \* The order as thread t sees it.
  <1> DEFINE View(r, p, q, b) ==
         /\ Increasing(r) /\ Increasing(p) /\ Increasing(q) /\ Increasing(b)
         /\ Before(ToSet(r), ToSet(p)) /\ Before(ToSet(r) \union ToSet(p), ToSet(q))
         /\ Before(ToSet(r) \union ToSet(p), ToSet(b)) /\ Before(ToSet(q), ToSet(b))
  <1>2. View(rows, pending, toFlush[t], m_buffer)
    BY <1>0 DEF OrderInv, InWriteOrder
  <1>3. ASSUME View(rows', pending', toFlush'[t], m_buffer'), toFlush'[other] = << >>
        PROVE  InWriteOrder'
    <2>1. /\ Increasing(<< >>) /\ Before(ToSet(rows') \union ToSet(pending'), ToSet(<< >>))
          /\ Before(ToSet(<< >>), ToSet(m_buffer'))
      BY SetOfEmpty DEF Increasing, Before
    <2> QED
      BY <1>0, <1>3, <2>1 DEF InWriteOrder
  <1>4. Increasing(<< >>) /\ (\A S : Before(S, {}) /\ Before({}, S)) /\ ToSet(<< >>) = {}
    BY SetOfEmpty DEF Increasing, Before
  <1> USE DEF storage
  <1>5. CASE SwapOut(t)
    <2>1. UNCHANGED <<pending, rows>> /\ toFlush'[other] = toFlush[other]
      BY <1>0, <1>5 DEF SwapOut
    <2>2. \/ m_buffer' = m_buffer /\ toFlush'[t] = toFlush[t]
          \/ m_buffer' = << >> /\ toFlush'[t] = m_buffer
      BY <1>0, <1>5 DEF SwapOut
    <2> QED
      BY <1>1, <1>2, <1>3, <1>4, <2>1, <2>2
  <1>6. CASE Begin(t) \/ Bind(t)
    BY <1>1, <1>2, <1>3, <1>6 DEF Begin, Bind
  <1>7. CASE GiveBack(t)
    <2>1. /\ UNCHANGED <<pending, rows>> /\ toFlush'[other] = toFlush[other]
          /\ m_buffer' = toFlush[t] /\ toFlush'[t] = << >>
      BY <1>0, <1>7 DEF GiveBack
    <2> QED
      BY <1>1, <1>2, <1>3, <1>4, <2>1
  <1>8. CASE Step(t)
    <2>1. inTxn /\ bound = Head(toFlush[t]) /\ toFlush[t] # << >>
      BY <1>8 DEF Step, OrderInv, SharedInv, OneWriter, InTransaction, BoundIsFront, TypeInv, LocalQueue,
                  Holding
    <2>2. InsertOk(t)
      BY <1>0, <1>8 DEF Step, InsertFails, Goto, FailedInsert, OrderInv, SharedInv, TypeInv, PcOK
    <2>3. /\ m_buffer' = m_buffer /\ rows' = rows /\ toFlush'[other] = toFlush[other]
          /\ pending' = Append(pending, Head(toFlush[t])) /\ toFlush'[t] = Tail(toFlush[t])
      BY <1>0, <1>8, <2>1, <2>2 DEF Step, InsertOk
    <2>4. Head(toFlush[t]) \in Record
      BY <1>0, <2>1, HeadTailProperties
    <2>5. /\ Increasing(Tail(toFlush[t])) /\ Before({Head(toFlush[t])}, ToSet(Tail(toFlush[t])))
          /\ Head(toFlush[t]) \in ToSet(toFlush[t]) /\ ToSet(Tail(toFlush[t])) \subseteq ToSet(toFlush[t])
      BY <1>0, <1>2, <2>1, IncreasingTail
    <2>6. Before(ToSet(pending), {Head(toFlush[t])})
      BY <1>2, <2>5 DEF Before
    <2>7. /\ Increasing(Append(pending, Head(toFlush[t])))
          /\ ToSet(Append(pending, Head(toFlush[t]))) = ToSet(pending) \union {Head(toFlush[t])}
      BY <1>0, <1>2, <2>4, <2>6, IncreasingAppend, SetOfAppend
    <2>8. /\ Before(ToSet(rows), ToSet(pending'))
          /\ Before(ToSet(rows) \union ToSet(pending'), ToSet(toFlush'[t]))
          /\ Before(ToSet(rows) \union ToSet(pending'), ToSet(m_buffer))
          /\ Before(ToSet(toFlush'[t]), ToSet(m_buffer))
      BY <1>2, <2>3, <2>5, <2>7 DEF Before
    <2> QED
      BY <1>1, <1>2, <1>3, <2>3, <2>5, <2>7, <2>8
  <1>9. CASE Commit(t)
    <2>1. /\ ToSet(rows \o pending) = ToSet(rows) \union ToSet(pending)
          /\ Increasing(rows \o pending)
      BY <1>0, <1>2, SetOfConcat, IncreasingConcat
    <2>2. /\ m_buffer' = m_buffer /\ toFlush' = toFlush
          /\ \/ rows' = rows \o pending /\ pending' = << >>
             \/ UNCHANGED <<pending, rows>>
             \/ rows' = rows /\ pending' = << >>
      BY <1>9 DEF Commit
    <2>3. \A S, T, U : Before(S \union T, U) => Before(S, U)
      BY DEF Before
    <2> QED
      BY <1>1, <1>2, <1>3, <1>4, <2>1, <2>2, <2>3
  <1>10. ~Rollback(t) /\ ~Requeue(t)
    BY DEF Rollback, Requeue, OrderInv, OneFlush
  <1> QED
    BY <1>5, <1>6, <1>7, <1>8, <1>9, <1>10 DEF flush

\* Every step of the writer, a crash included.
LEMMA OrderInvStep ==
    ASSUME GetCdr = FALSE, ~FailedInsert', OrderInv, [Next]_vars
    PROVE  OrderInv'
  <1>1. SharedInv' /\ OneFlush'
    BY SharedInvStep, OneFlushStep DEF OrderInv
  <1>2. InWriteOrder'
    <2>0. /\ rows \in Seq(Record) /\ pending \in Seq(Record) /\ m_buffer \in Seq(Record)
          /\ toFlush \in [Threads -> Seq(Record)] /\ written \in Nat
          /\ InWriteOrder
      BY ConstantsAssumption DEF OrderInv, SharedInv, TypeInv, DataOK
    <2>1. Increasing(<< >>) /\ (\A S : Before(S, {}) /\ Before({}, S)) /\ ToSet(<< >>) = {}
      BY SetOfEmpty DEF Increasing, Before
    <2>2. CASE writeAction
      <3>1. m_buffer' = Append(m_buffer, written + 1) /\ UNCHANGED <<toFlush, pending, rows>>
        BY <2>2 DEF writeAction, storage
      <3>2. written + 1 \in Record
        BY <2>0 DEF Record, NoRecord
      <3>3. ASSUME NEW S \in SUBSET (1..written) PROVE Before(S, {written + 1})
        BY <2>0 DEF Before
      <3>4. /\ ToSet(rows) \union ToSet(pending) \in SUBSET (1..written)
            /\ \A t \in Threads : ToSet(toFlush[t]) \in SUBSET (1..written)
            /\ ToSet(m_buffer) \in SUBSET (1..written)
        BY TwoThreads DEF OrderInv, SharedInv, Numbered
      <3>5. /\ Increasing(m_buffer')
            /\ ToSet(m_buffer') = ToSet(m_buffer) \union {written + 1}
        BY <2>0, <3>1, <3>2, <3>3, <3>4, IncreasingAppend, SetOfAppend DEF InWriteOrder
      <3>6. ASSUME NEW S \in SUBSET (1..written), Before(S, ToSet(m_buffer))
            PROVE  Before(S, ToSet(m_buffer'))
        BY <3>3, <3>5, <3>6 DEF Before
      <3>7. /\ Before(ToSet(rows) \union ToSet(pending), ToSet(m_buffer'))
            /\ \A t \in Threads : Before(ToSet(toFlush[t]), ToSet(m_buffer'))
        BY <3>4, <3>6, Zenon, <2>0 DEF InWriteOrder
      <3> QED
        BY <2>0, <3>1, <3>5, <3>7 DEF InWriteOrder
    <2>3. CASE flush(Main) \/ flush(Flusher)
      BY <2>3, TwoThreads, FlushInWriteOrder
    <2>4. CASE Close
      <3>1. /\ m_buffer' = << >> /\ pending' = << >> /\ UNCHANGED <<rows, toFlush>>
        BY <2>4 DEF Close
      <3>2. \A S, T, U : Before(S \union T, U) => Before(S \union {}, U)
        BY DEF Before
      <3> QED
        BY <2>0, <2>1, <3>1, <3>2 DEF InWriteOrder
    <2>5. CASE Crash
      <3>1. /\ m_buffer' = << >> /\ pending' = << >> /\ rows' = rows
            /\ \A t \in Threads : toFlush'[t] = << >>
        BY <2>5 DEF Crash
      <3> QED
        BY <2>0, <2>1, <3>1 DEF InWriteOrder
    <2>6. CASE UNCHANGED <<m_buffer, toFlush, pending, rows>>
      BY <2>0, <2>6 DEF InWriteOrder
    <2> QED
      BY <2>2, <2>3, <2>4, <2>5, <2>6
      DEF Next, mainThread, flushLoop, getRecentRecords, ReadRows, Destroy, Join, LoopTest,
          WaitPredicate, Block, FlushInterval, StopTest, Terminated, vars, storage
  <1> QED
    BY <1>1, <1>2 DEF OrderInv

\* With no GET_CDR: unless an INSERT fails, the table is in the order of the writeAction
\* calls for ever, whatever else fails, with SQLite's own rollback or without, and
\* whenever the process crashes.  (With GET_CDR the event loop can store newer records
\* while the flusher holds older ones in its local queue.)
THEOREM RowsStayInOrder ==
    ASSUME GetCdr = FALSE
    PROVE  Spec => RowsInWriteOrder
  <1>1. Init => OrderInv
    <2> SUFFICES ASSUME Init PROVE OrderInv
      OBVIOUS
    <2>1. /\ m_buffer = << >> /\ pending = << >> /\ rows = << >>
          /\ \A t \in Threads : toFlush[t] = << >>
      BY DEF Init
    <2>2. Increasing(<< >>) /\ (\A S : Before(S, {}) /\ Before({}, S)) /\ ToSet(<< >>) = {}
      BY SetOfEmpty DEF Increasing, Before
    <2>3. InWriteOrder
      BY <2>1, <2>2 DEF InWriteOrder
    <2>4. OneFlush
      BY TwoThreads DEF Init, OneFlush, FlushSteps
    <2> QED
      BY <2>3, <2>4, InitSharedInv DEF OrderInv
  <1>2. OrderInv /\ ~FailedInsert' /\ [Next]_vars => OrderInv'
    BY OrderInvStep
  <1>3. OrderInv => RowsInOrder
    BY DEF OrderInv, InWriteOrder, Increasing, RowsInOrder
  <1> QED
    BY <1>1, <1>2, <1>3, PTL DEF Spec, RowsInWriteOrder

----------------------------------------------------------------------------
(* Without storage faults, crashes and GET_CDR commands nothing is lost.   *)

Count(n) == [i \in 1..n |-> i]

\* Appending to the last of two queues appends to the two together.
LEMMA AppendLast ==
    ASSUME NEW s \in Seq(Record), NEW u \in Seq(Record), NEW r \in Record
    PROVE  s \o Append(u, r) = Append(s \o u, r)
  <1>1. << r >> \in Seq(Record) /\ Append(u, r) = u \o << r >>
    BY AppendIsConcat
  <1>2. s \o u \in Seq(Record)
    BY ConcatProperties
  <1>3. Append(s \o u, r) = (s \o u) \o << r >>
    BY <1>2, AppendIsConcat
  <1> QED
    BY <1>1, <1>3, ConcatAssociative

\* Moving the front record of a queue to the end of the one before it.
LEMMA MoveFront ==
    ASSUME NEW s \in Seq(Record), NEW q \in Seq(Record), q # << >>
    PROVE  Append(s, Head(q)) \o Tail(q) = s \o q
  <1> DEFINE lhs == Append(s, Head(q)) \o Tail(q)
             rhs == s \o q
  <1>1. /\ Head(q) \in Record /\ Head(q) = q[1] /\ Tail(q) \in Seq(Record)
        /\ Len(Tail(q)) = Len(q) - 1 /\ Len(q) \in Nat /\ Len(q) > 0 /\ Len(s) \in Nat
        /\ \A i \in 1..(Len(q) - 1) : Tail(q)[i] = q[i + 1]
    BY HeadTailProperties, LenProperties, EmptySeq
  <1>2. /\ Append(s, Head(q)) \in Seq(Record) /\ Len(Append(s, Head(q))) = Len(s) + 1
        /\ \A i \in 1..Len(s) : Append(s, Head(q))[i] = s[i]
        /\ Append(s, Head(q))[Len(s) + 1] = Head(q)
    BY <1>1, AppendProperties
  <1>3. /\ lhs \in Seq(Record) /\ Len(lhs) = Len(s) + Len(q)
        /\ \A i \in 1..(Len(s) + Len(q)) :
              lhs[i] = IF i <= Len(s) + 1 THEN Append(s, Head(q))[i] ELSE Tail(q)[i - (Len(s) + 1)]
    BY <1>1, <1>2, ConcatProperties
  <1>4. /\ rhs \in Seq(Record) /\ Len(rhs) = Len(s) + Len(q)
        /\ \A i \in 1..(Len(s) + Len(q)) : rhs[i] = IF i <= Len(s) THEN s[i] ELSE q[i - Len(s)]
    BY ConcatProperties
  <1> HIDE DEF lhs, rhs
  <1>5. ASSUME NEW i \in 1..(Len(s) + Len(q)) PROVE lhs[i] = rhs[i]
    <2>1. CASE i <= Len(s)
      BY <1>1, <1>2, <1>3, <1>4, <2>1
    <2>2. CASE i = Len(s) + 1
      BY <1>1, <1>2, <1>3, <1>4, <2>2
    <2>3. CASE i > Len(s) + 1
      <3>1. /\ i - (Len(s) + 1) \in 1..(Len(q) - 1)
            /\ (i - (Len(s) + 1)) + 1 = i - Len(s)
        BY <1>1, <2>3
      <3> QED
        BY <1>1, <1>3, <1>4, <2>3, <3>1
    <2> QED
      BY <1>1, <2>1, <2>2, <2>3
  <1>6. lhs = rhs
    BY <1>3, <1>4, <1>5, SeqEqual
  <1> QED
    BY <1>6 DEF lhs, rhs

\* The records written so far, and one more.
LEMMA CountNext ==
    ASSUME NEW n \in Nat
    PROVE  Count(n) \in Seq(Record) /\ Append(Count(n), n + 1) = Count(n + 1)
  <1>1. \A m \in Nat : Count(m) \in Seq(Record) /\ Len(Count(m)) = m
    BY DEF Count, Record, NoRecord
  <1>2. /\ Append(Count(n), n + 1) \in Seq(Record) /\ Len(Append(Count(n), n + 1)) = n + 1
        /\ \A i \in 1..n : Append(Count(n), n + 1)[i] = Count(n)[i]
        /\ Append(Count(n), n + 1)[n + 1] = n + 1
    BY <1>1, AppendProperties DEF Record, NoRecord
  <1>3. \A i \in 1..(n + 1) : Append(Count(n), n + 1)[i] = Count(n + 1)[i]
    BY <1>2 DEF Count
  <1> QED
    BY <1>1, <1>2, <1>3, SeqEqual

\* Only the destructor flushes on the main thread, the flusher is alone before that,
\* so no BEGIN is ever refused, and an open transaction belongs to one of them.
Quiet ==
    /\ pc[Main] \in FlushSteps => m_stop
    /\ pc[Main] # "read"
    /\ \A t \in Threads : pc[t] \notin {"giveBack", "rollback", "requeue"}
    /\ inTxn => InTransaction(Main) \/ InTransaction(Flusher)
    /\ ~inTxn => pending = << >>
    /\ pc[Main] \in (FlushSteps \ {"swap"}) \union {"close", "deleted"} => m_buffer = << >>

InOrder == Pipeline = Count(written)

CleanInv == TypeInv /\ Joined /\ OneWriter /\ BoundIsFront /\ Quiet /\ InOrder

\* Nothing disturbs the pipeline.
LEMMA QuietStep ==
    ASSUME Faults = {}, GetCdr = FALSE, MaxCrashes = 0,
           TypeInv, Joined, OneWriter, BoundIsFront, Quiet, [Next]_vars
    PROVE  Quiet'
  <1> USE TwoThreads DEF TypeInv, PcOK, DataOK, Joined, Quiet, InTransaction, FlushSteps, storage, Goto
  <1>1. CASE writeAction
    BY <1>1, NotifiedPcOK DEF writeAction
  <1>2. CASE getRecentRecords \/ ReadRows
    BY <1>2 DEF getRecentRecords, ReadRows
  <1>3. CASE Join \/ Close
    BY <1>3 DEF Join, Close
  <1>4. CASE Destroy
    <2>1. pc' = [Notified(pc) EXCEPT ![Main] = "join"]
      BY <1>4 DEF Destroy
    <2> QED
      BY <1>4, <2>1, NotifiedPcOK DEF Destroy
  <1>5. ASSUME NEW t \in Threads, flush(t) PROVE Quiet'
    <2>0. /\ t = Main => Return(t) = "close" /\ pc[Flusher] = "exited"
          /\ t = Flusher => Return(t) = "top" /\ pc[Main] \notin FlushSteps
          /\ pc[t] \in FlushSteps
      BY <1>5 DEF Return, flush, SwapOut, Begin, GiveBack, Bind, Step, Rollback, Requeue, Commit
    <2>1. CASE SwapOut(t)
      BY <2>0, <2>1 DEF SwapOut
    <2>2. CASE Begin(t)
      BY <2>0, <2>2 DEF Begin
    <2>3. CASE Bind(t)
      BY <2>0, <2>3 DEF Bind
    <2>4. CASE Step(t)
      <3>1. bound # NoRecord
        BY <2>4, HeadTailProperties DEF Step, BoundIsFront, LocalQueue, Holding, Record
      <3> QED
        BY <2>0, <2>4, <3>1 DEF Step, InsertOk, InsertFails, OneWriter
    <2>5. CASE Commit(t)
      BY <2>0, <2>5 DEF Commit, OneWriter
    <2>6. ~GiveBack(t) /\ ~Rollback(t) /\ ~Requeue(t)
      BY DEF GiveBack, Rollback, Requeue
    <2> QED
      BY <1>5, <2>1, <2>2, <2>3, <2>4, <2>5, <2>6 DEF flush
  <1>6. CASE LoopTest \/ WaitPredicate \/ Block \/ FlushInterval \/ StopTest
    BY <1>6 DEF LoopTest, WaitPredicate, Block, FlushInterval, StopTest
  <1>7. ~Crash
    BY DEF Crash
  <1>8. CASE Terminated \/ UNCHANGED vars
    BY <1>8 DEF Terminated, vars
  <1> QED
    BY <1>1, <1>2, <1>3, <1>4, <1>5, <1>6, <1>7, <1>8 DEF Next, mainThread, flushLoop

\* A record written, inserted or committed keeps the pipeline in order.
LEMMA InOrderStep ==
    ASSUME Faults = {}, GetCdr = FALSE, MaxCrashes = 0, CleanInv, [Next]_vars
    PROVE  InOrder'
  <1> USE DEF CleanInv
  <1>0. /\ rows \in Seq(Record) /\ pending \in Seq(Record) /\ m_buffer \in Seq(Record)
        /\ toFlush[Flusher] \in Seq(Record) /\ toFlush[Main] \in Seq(Record)
        /\ toFlush \in [Threads -> Seq(Record)]
        /\ rows \o pending \in Seq(Record)
        /\ (rows \o pending) \o toFlush[Flusher] \in Seq(Record)
        /\ ((rows \o pending) \o toFlush[Flusher]) \o toFlush[Main] \in Seq(Record)
        /\ written \in Nat
    BY TwoThreads, ConcatProperties, ConstantsAssumption DEF TypeInv, DataOK
  <1>e. /\ \A q \in Seq(Record) : q \o << >> = q /\ << >> \o q = q
        /\ << >> \in Seq(Record)
    BY ConcatEmptySeq, EmptySeq
  <1>1. CASE writeAction
    <2>1. /\ written' = written + 1 /\ m_buffer' = Append(m_buffer, written + 1)
          /\ UNCHANGED <<toFlush, pending, rows>>
      BY <1>1 DEF writeAction, storage
    <2>2. written + 1 \in Record
      BY <1>0 DEF Record, NoRecord
    <2>3. Pipeline' = Append(Pipeline, written + 1)
      BY <1>0, <2>1, <2>2, AppendLast DEF Pipeline
    <2> QED
      BY <1>0, <2>1, <2>3, CountNext DEF InOrder
  <1>2. CASE SwapOut(Main) \/ SwapOut(Flusher)
    <2>1. toFlush[Main] = << >> /\ toFlush[Flusher] = << >>
      BY <1>2, TwoThreads DEF SwapOut, TypeInv, LocalQueue, Holding, Quiet, Joined, FlushSteps
    <2>2. /\ UNCHANGED <<written, pending, rows>>
          /\ \/ UNCHANGED <<toFlush, m_buffer>>
             \/ m_buffer' = << >> /\ toFlush'[Main] = m_buffer /\ toFlush'[Flusher] = << >>
             \/ m_buffer' = << >> /\ toFlush'[Main] = << >> /\ toFlush'[Flusher] = m_buffer
      BY <1>0, <1>2, <2>1, TwoThreads DEF SwapOut, storage
    <2>3. (rows \o pending) \o m_buffer \in Seq(Record)
      BY <1>0, ConcatProperties
    <2>4. Pipeline = (rows \o pending) \o m_buffer
      <3>1. ((rows \o pending) \o << >>) \o << >> = rows \o pending
        BY <1>0, <1>e
      <3> QED
        BY <2>1, <3>1 DEF Pipeline
    <2>5. Pipeline' = (rows \o pending) \o m_buffer
      <3>1. CASE UNCHANGED <<toFlush, m_buffer>>
        BY <2>2, <2>4, <3>1 DEF Pipeline
      <3>2. CASE m_buffer' = << >> /\ toFlush'[Main] = m_buffer /\ toFlush'[Flusher] = << >>
        <4>1. (((rows \o pending) \o << >>) \o m_buffer) \o << >> = (rows \o pending) \o m_buffer
          BY <1>0, <1>e, <2>3
        <4> QED
          BY <2>2, <3>2, <4>1 DEF Pipeline
      <3>3. CASE m_buffer' = << >> /\ toFlush'[Main] = << >> /\ toFlush'[Flusher] = m_buffer
        <4>1. (((rows \o pending) \o m_buffer) \o << >>) \o << >> = (rows \o pending) \o m_buffer
          BY <1>0, <1>e, <2>3
        <4> QED
          BY <2>2, <3>3, <4>1 DEF Pipeline
      <3> QED
        BY <2>2, <3>1, <3>2, <3>3
    <2> QED
      BY <2>2, <2>4, <2>5 DEF InOrder
  <1>3. CASE Begin(Main) \/ Begin(Flusher) \/ Bind(Main) \/ Bind(Flusher)
    BY <1>3 DEF Begin, Bind, InOrder, Pipeline
  <1>4. ASSUME NEW t \in Threads, Step(t) PROVE InOrder'
    <2>1. /\ bound = Head(toFlush[t]) /\ toFlush[t] # << >> /\ inTxn
          /\ t = Main => toFlush[Flusher] = << >>
      BY <1>4, TwoThreads DEF Step, BoundIsFront, TypeInv, LocalQueue, Holding, OneWriter,
           InTransaction, Quiet, Joined, FlushSteps
    <2>2. Head(toFlush[t]) \in Record
      BY <1>0, <2>1, HeadTailProperties
    <2>3. InsertOk(t)
      BY <1>4, <2>1, <2>2 DEF Step, InsertFails, Record
    <2>4. /\ UNCHANGED <<written, rows, m_buffer>> /\ pending' = Append(pending, Head(toFlush[t]))
          /\ toFlush' = [toFlush EXCEPT ![t] = Tail(toFlush[t])]
      BY <1>4, <2>1, <2>3 DEF Step, InsertOk
    <2>5. rows' \o pending' = Append(rows \o pending, Head(toFlush[t]))
      BY <1>0, <2>2, <2>4, AppendLast
    <2>6. (rows' \o pending') \o toFlush'[t] = (rows \o pending) \o toFlush[t]
      <3>1. toFlush'[t] = Tail(toFlush[t]) /\ toFlush[t] \in Seq(Record)
        BY <1>0, <2>4
      <3>2. Append(rows \o pending, Head(toFlush[t])) \o Tail(toFlush[t])
              = (rows \o pending) \o toFlush[t]
        BY <1>0, <2>1, <3>1, MoveFront
      <3> QED
        BY <2>5, <3>1, <3>2, Zenon
    <2>7. CASE t = Flusher
      <3>1. toFlush'[Main] = toFlush[Main]
        BY <1>0, <2>4, <2>7, TwoThreads
      <3>2. Pipeline' = Pipeline
        BY <2>4, <2>6, <2>7, <3>1, Zenon DEF Pipeline
      <3> QED
        BY <2>4, <3>2 DEF InOrder
    <2>8. CASE t = Main
      <3>1. toFlush'[Flusher] = << >> /\ toFlush[Flusher] = << >>
        BY <1>0, <2>1, <2>4, <2>8, TwoThreads
      <3>2. rows' \o pending' \in Seq(Record)
        BY <1>0, <2>2, <2>5, AppendProperties
      <3>3. /\ (rows' \o pending') \o << >> = rows' \o pending'
            /\ (rows \o pending) \o << >> = rows \o pending
        BY <1>0, <1>e, <3>2
      <3>4. Pipeline' = Pipeline
        BY <2>4, <2>6, <2>8, <3>1, <3>3, Zenon DEF Pipeline
      <3> QED
        BY <2>4, <3>4 DEF InOrder
    <2> QED
      BY <2>7, <2>8, TwoThreads
  <1>5. CASE Commit(Main) \/ Commit(Flusher)
    <2>1. inTxn
      BY <1>5, TwoThreads DEF Commit, OneWriter, InTransaction
    <2>2. /\ UNCHANGED <<written, toFlush, m_buffer>>
          /\ rows' = rows \o pending /\ pending' = << >>
      BY <1>5, <2>1 DEF Commit
    <2>3. rows' \o pending' = rows \o pending
      BY <1>0, <1>e, <2>2
    <2> QED
      BY <2>2, <2>3 DEF InOrder, Pipeline
  <1>6. CASE Close
    <2>1. ~inTxn
      BY <1>6, TwoThreads DEF Close, Joined, Quiet, InTransaction
    <2>2. UNCHANGED <<written, toFlush, rows, pending, m_buffer>>
      BY <1>6, <2>1 DEF Close, Quiet
    <2> QED
      BY <2>2 DEF InOrder, Pipeline
  <1>7. CASE UNCHANGED <<written, m_buffer, toFlush, pending, rows>>
    BY <1>7 DEF InOrder, Pipeline
  <1>8. \A t \in Threads : ~GiveBack(t) /\ ~Rollback(t) /\ ~Requeue(t)
    BY DEF GiveBack, Rollback, Requeue, Quiet
  <1>9. ~Crash
    BY DEF Crash, TypeInv, DataOK
  <1> QED
    BY <1>1, <1>2, <1>3, <1>4, <1>5, <1>6, <1>7, <1>8, <1>9, TwoThreads
    DEF Next, mainThread, flushLoop, flush, getRecentRecords, ReadRows, Destroy, Join, LoopTest,
        WaitPredicate, Block, FlushInterval, StopTest, Terminated, vars, storage

\* r is the beginning of s.
Begins(r, s) == Len(r) <= Len(s) /\ \A i \in 1..Len(r) : s[i] = r[i]

\* What begins a queue begins it also when more is queued behind.
LEMMA BeginsConcat ==
    ASSUME NEW r \in Seq(Record), NEW s \in Seq(Record), NEW t \in Seq(Record), Begins(r, s)
    PROVE  s \o t \in Seq(Record) /\ Begins(r, s \o t)
  <1>1. Len(r) \in Nat /\ Len(s) \in Nat /\ Len(t) \in Nat
    BY LenProperties
  <1>2. /\ s \o t \in Seq(Record)
        /\ Len(s \o t) = Len(s) + Len(t)
        /\ \A i \in 1..(Len(s) + Len(t)) :
              (s \o t)[i] = IF i <= Len(s) THEN s[i] ELSE t[i - Len(s)]
    BY ConcatProperties
  <1> QED
    BY <1>1, <1>2 DEF Begins

\* The table holds the first records written, in order.
LEMMA RowsArePrefix ==
    ASSUME CleanInv
    PROVE  /\ Len(rows) \in 0..written
           /\ rows = Count(Len(rows))
           /\ pc[Main] = "deleted" => Len(rows) = written
  <1>1. /\ rows \in Seq(Record) /\ pending \in Seq(Record) /\ m_buffer \in Seq(Record)
        /\ toFlush[Flusher] \in Seq(Record) /\ toFlush[Main] \in Seq(Record)
        /\ written \in Nat
    BY TwoThreads, ConstantsAssumption DEF CleanInv, TypeInv, DataOK
  <1>2. Begins(rows, Count(written))
    <2>1. Begins(rows, rows)
      BY <1>1, LenProperties DEF Begins
    <2>2. rows \o pending \in Seq(Record) /\ Begins(rows, rows \o pending)
      BY <1>1, <2>1, BeginsConcat
    <2>3. /\ rows \o pending \o toFlush[Flusher] \in Seq(Record)
          /\ Begins(rows, rows \o pending \o toFlush[Flusher])
      BY <1>1, <2>2, BeginsConcat
    <2>4. /\ rows \o pending \o toFlush[Flusher] \o toFlush[Main] \in Seq(Record)
          /\ Begins(rows, rows \o pending \o toFlush[Flusher] \o toFlush[Main])
      BY <1>1, <2>3, BeginsConcat
    <2>5. Begins(rows, Pipeline)
      BY <1>1, <2>4, BeginsConcat DEF Pipeline
    <2> QED
      BY <2>5 DEF CleanInv, InOrder
  <1>3. /\ Len(rows) \in 0..written
        /\ \A i \in 1..Len(rows) : rows[i] = Count(written)[i]
    <2>1. Len(Count(written)) = written
      BY <1>1 DEF Count
    <2> QED
      BY <1>1, <1>2, <2>1, LenProperties DEF Begins
  <1>4. rows = Count(Len(rows))
    <2>1. Count(Len(rows)) \in Seq(Record) /\ Len(Count(Len(rows))) = Len(rows)
      BY <1>3 DEF Count, Record, NoRecord
    <2>2. ASSUME NEW i \in 1..Len(rows) PROVE rows[i] = Count(Len(rows))[i]
      <3>1. i \in 1..written
        BY <1>1, <1>3
      <3> QED
        BY <1>3, <3>1 DEF Count
    <2> QED
      BY <1>1, <2>1, <2>2, SeqEqual
  <1>5. ASSUME pc[Main] = "deleted" PROVE Len(rows) = written
    <2>1. /\ m_buffer = << >> /\ toFlush[Main] = << >> /\ toFlush[Flusher] = << >> /\ pending = << >>
      BY <1>5, TwoThreads DEF CleanInv, Quiet, Joined, TypeInv, LocalQueue, Holding, InTransaction
    <2>2. Pipeline = rows
      BY <1>1, <2>1, EmptySeq, ConcatEmptySeq DEF Pipeline
    <2> QED
      BY <1>1, <2>2 DEF CleanInv, InOrder, Count
  <1> QED
    BY <1>3, <1>4, <1>5

\* The invariant of the undisturbed writer holds throughout.
LEMMA CleanRun ==
    ASSUME Faults = {}, GetCdr = FALSE, MaxCrashes = 0
    PROVE  Spec => []CleanInv
  <1>1. Init => CleanInv
    <2> SUFFICES ASSUME Init PROVE CleanInv
      OBVIOUS
    <2>1. TypeInv
      BY InitTypeInv
    <2>2. Joined /\ OneWriter /\ BoundIsFront /\ Quiet
      BY TwoThreads DEF Init, Joined, OneWriter, BoundIsFront, InTransaction, FlushSteps, Quiet
    <2>3. /\ m_buffer = << >> /\ pending = << >> /\ rows = << >> /\ written = 0
          /\ toFlush[Main] = << >> /\ toFlush[Flusher] = << >>
      BY TwoThreads DEF Init
    <2>4. Pipeline = << >>
      BY <2>3, EmptySeq, ConcatEmptySeq DEF Pipeline
    <2>5. Count(0) = << >>
      BY DEF Count
    <2> QED
      BY <2>1, <2>2, <2>3, <2>4, <2>5 DEF CleanInv, InOrder
  <1>2. CleanInv /\ [Next]_vars => CleanInv'
    <2> SUFFICES ASSUME CleanInv, [Next]_vars PROVE CleanInv'
      OBVIOUS
    <2>0. "insertRollback" \notin Faults
      OBVIOUS
    <2>1. TypeInv' /\ Joined'
      BY TypeInvStep, JoinedStep DEF CleanInv
    <2>2. OneWriter' /\ BoundIsFront'
      BY <2>0, OneWriterStep DEF CleanInv
    <2>3. Quiet' /\ InOrder'
      BY QuietStep, InOrderStep DEF CleanInv
    <2> QED
      BY <2>1, <2>2, <2>3 DEF CleanInv
  <1> QED
    BY <1>1, <1>2, PTL DEF Spec

\* With no storage fault, crash or GET_CDR, every record written is in the pipeline,
\* once and in order, and in the table when the destructor is done.
THEOREM CleanWriterIsLossless ==
    ASSUME Faults = {}, GetCdr = FALSE, MaxCrashes = 0
    PROVE  Spec => []Lossless
  <1>1. CleanInv => Lossless
    BY RowsArePrefix DEF CleanInv, InOrder, Lossless, Count
  <1> QED
    BY <1>1, CleanRun, PTL

\* ... and every step of it is a step of the abstract CDR ledger: records are stored in
\* batches, in the order of the writeAction calls, and never taken back.
THEOREM CleanWriterRefinesLedger ==
    ASSUME Faults = {}, GetCdr = FALSE, MaxCrashes = 0
    PROVE  Spec => Ledger!Safety
  <1>1. Init => Ledger!Init
    BY DEF Init, Ledger!Init
  <1>2. CleanInv /\ CleanInv' /\ [Next]_vars => [Ledger!Next]_(Ledger!vars)
    <2> SUFFICES ASSUME CleanInv, CleanInv', [Next]_vars
                 PROVE  [Ledger!Next]_(Ledger!vars)
      OBVIOUS
    <2>1. CASE writeAction
      BY <2>1 DEF writeAction, storage, Ledger!Next, Ledger!Accept
    <2>2. ASSUME NEW t \in Threads, Commit(t) PROVE [Ledger!Next]_(Ledger!vars)
      <3>1. written' = written /\ (rows' = rows \/ rows' = rows \o pending)
        BY <2>2 DEF Commit
      <3>2. /\ Len(rows) \in 0..written /\ rows = Count(Len(rows))
            /\ Len(rows') \in 0..written' /\ rows' = Count(Len(rows'))
        <4>1. Len(rows) \in 0..written /\ rows = Count(Len(rows))
          BY RowsArePrefix
        <4>2. (Len(rows) \in 0..written /\ rows = Count(Len(rows)))'
          BY RowsArePrefix, PTL
        <4> QED
          BY <4>1, <4>2 DEF Count
      <3>3. written \in Nat /\ (Len(rows') > Len(rows) \/ rows' = rows)
        <4>1. /\ rows \in Seq(Record) /\ pending \in Seq(Record) /\ written \in Nat
          BY ConstantsAssumption DEF CleanInv, TypeInv, DataOK
        <4>2. pending = << >> \/ Len(pending) > 0
          BY <4>1, EmptySeq, LenProperties
        <4> QED
          BY <3>1, <4>1, <4>2, ConcatProperties, ConcatEmptySeq, LenProperties
      <3>4. CASE rows' = rows
        BY <3>1, <3>4 DEF Ledger!vars
      <3>5. CASE Len(rows') > Len(rows)
        <4>1. Len(rows') \in (Len(rows) + 1)..written
          BY <3>1, <3>2, <3>3, <3>5
        <4> QED
          BY <3>1, <3>2, <4>1 DEF Ledger!Next, Ledger!Store, Count
      <3> QED
        BY <3>3, <3>4, <3>5
    <2>3. ASSUME NEW t \in Threads, Step(t) PROVE UNCHANGED <<written, rows>>
      <3>1. inTxn
        BY <2>3 DEF CleanInv, OneWriter, InTransaction, Step
      <3> QED
        BY <2>3, <3>1 DEF Step, InsertOk, InsertFails
    <2>4. CASE UNCHANGED <<written, rows>>
      BY <2>4 DEF Ledger!vars
    <2> QED
      BY <2>1, <2>2, <2>3, <2>4, TwoThreads
      DEF Next, mainThread, flushLoop, flush, SwapOut, Begin, GiveBack, Bind, Rollback, Requeue,
          getRecentRecords, ReadRows, Destroy, Join, Close, LoopTest, WaitPredicate, Block,
          FlushInterval, StopTest, Crash, Terminated, vars, storage
  <1> QED
    BY <1>1, <1>2, CleanRun, PTL DEF Spec, Ledger!Safety
=============================================================================
