----------------------- MODULE ConnectionResultProofs -----------------------
(***************************************************************************)
(* What a call of Connection tells its caller: theorems about the rows,    *)
(* the count, the row id and the error text of a call, and about closing.  *)
(***************************************************************************)
EXTENDS ConnectionProofs

\* The phases between sqlite3_prepare16 and sqlite3_finalize.
HasStatement == {"bind", "step", "callback", "count", "finalize", "unwind"}

\* A thread has a statement exactly between the two, waits for a callback only
\* in Each, and is then one row ahead of it, otherwise none; only Run reads the
\* count of changes.
ThreadInv ==
  \A o \in Op :
    /\ stmt[o] # "none" <=> phase[o] \in HasStatement
    /\ phase[o] = "callback" => Kind[o] = "each"
    /\ phase[o] = "count" => Kind[o] = "run"
    /\ Kind[o] = "each" => rows[o] = delivered[o] + (IF phase[o] = "callback" THEN 1 ELSE 0)

\* A call whose promise is settled by its thread has a thread that has ended.
OutcomeInv ==
  \A i \in Item :
    /\ outcome[i] = "complete" => phase[i] = "succeeded"
    /\ outcome[i] = "error" => phase[i] = "failed"

-----------------------------------------------------------------------------
\* A step of a thread, or of the callback it waits for, is its own affair.
LEMMA OthersStand ==
  ASSUME DatabaseTypeOK, NEW o \in Op, WorkerStep(o) \/ RunCallback(o),
         NEW p \in Op \ {o}
  PROVE  /\ phase'[p] = phase[p] /\ stmt'[p] = stmt[p] /\ fault'[p] = fault[p]
         /\ rows'[p] = rows[p] /\ delivered'[p] = delivered[p] /\ count'[p] = count[p]
<1> USE DEF DatabaseTypeOK, Goes, Throws
<1>1. CASE Prepare(o) \/ PrepareStray(o)
  BY <1>1 DEF Prepare, PrepareStray
<1>2. CASE Bind(o)
  BY <1>2 DEF Bind
<1>3. CASE StepRow(o)
  BY <1>3 DEF StepRow, YieldRow
<1>4. CASE StepDone(o) \/ StepFail(o) \/ StepThrow(o)
  BY <1>4 DEF StepDone, StepFail, StepThrow
<1>5. CASE ReadCount(o) \/ Finalize(o)
  BY <1>5 DEF ReadCount, Finalize
<1>6. CASE CheckError(o) \/ CopyError(o)
  BY <1>6 DEF CheckError, CopyError
<1>7. CASE RunCallback(o)
  BY <1>7 DEF RunCallback, GiveRow
<1>8. QED
  BY <1>1, <1>2, <1>3, <1>4, <1>5, <1>6, <1>7 DEF WorkerStep

\* A thread keeps to its phases.
LEMMA ThreadStep ==
  ASSUME DatabaseTypeOK, ThreadInv, NEW o \in Op, WorkerStep(o) \/ RunCallback(o)
  PROVE  ThreadInv'
<1> USE DEF DatabaseTypeOK, Goes, Throws, Caught, HasStatement
<1> DEFINE Thread(p) ==
      /\ stmt[p] # "none" <=> phase[p] \in HasStatement
      /\ phase[p] = "callback" => Kind[p] = "each"
      /\ phase[p] = "count" => Kind[p] = "run"
      /\ Kind[p] = "each" => rows[p] = delivered[p] + (IF phase[p] = "callback" THEN 1 ELSE 0)
<1>0. Thread(o)
  BY DEF ThreadInv
<1>k. Kind[o] \in {"run", "one", "all", "each"}
  BY OpAssumption
<1>r. rows[o] \in Nat /\ delivered[o] \in Nat
  BY OpAssumption
<1>8. Thread(o)'
  <2>1. CASE Prepare(o) \/ PrepareStray(o)
    BY <1>0, <2>1 DEF Prepare, PrepareStray
  <2>2. CASE Bind(o)
    BY <1>0, <2>2 DEF Bind
  <2>3. CASE StepRow(o)
    BY <1>0, <2>3, <1>k, <1>r DEF StepRow, YieldRow
  <2>4. CASE StepDone(o) \/ StepFail(o) \/ StepThrow(o)
    BY <1>0, <2>4 DEF StepDone, StepFail, StepThrow
  <2>5. CASE ReadCount(o) \/ Finalize(o)
    BY <1>0, <2>5 DEF ReadCount, Finalize
  <2>6. CASE CheckError(o) \/ CopyError(o)
    BY <1>0, <2>6 DEF CheckError, CopyError
  <2>7. CASE RunCallback(o)
    BY <1>0, <2>7, <1>r DEF RunCallback, GiveRow
  <2>8. QED
    BY <2>1, <2>2, <2>3, <2>4, <2>5, <2>6, <2>7 DEF WorkerStep
<1>9. \A p \in Op \ {o} : Thread(p)'
  BY OthersStand DEF ThreadInv
<1>10. QED
  BY <1>8, <1>9 DEF ThreadInv

\* The thread that takes a step is at work, has been started and stays so, and
\* leaves the handle as it is.
LEMMA WorkerFacts ==
  ASSUME DatabaseTypeOK, ThreadInv, NEW o \in Op, WorkerStep(o) \/ RunCallback(o)
  PROVE  /\ phase[o] \notin {"idle", "succeeded", "failed"}
         /\ phase'[o] # "idle"
         /\ handle' = handle
<1> USE DEF DatabaseTypeOK, Goes, Throws, Caught
<1>g. phase[o] \notin {"idle", "succeeded", "failed"} /\ phase'[o] # "idle" /\ handle' = handle
  <2>1. CASE Prepare(o) \/ PrepareStray(o)
    BY <2>1 DEF Prepare, PrepareStray
  <2>2. CASE Bind(o)
    BY <2>2 DEF Bind
  <2>3. CASE StepRow(o)
    <3>1. Kind[o] \in {"run", "one", "all", "each"}
      BY OpAssumption
    <3>2. QED
      BY <2>3, <3>1 DEF StepRow, YieldRow
  <2>4. CASE StepDone(o) \/ StepFail(o) \/ StepThrow(o)
    BY <2>4 DEF StepDone, StepFail, StepThrow
  <2>5. CASE ReadCount(o) \/ Finalize(o)
    BY <2>5 DEF ReadCount, Finalize
  <2>6. CASE CheckError(o) \/ CopyError(o)
    BY <2>6 DEF CheckError, CopyError
  <2>7. CASE RunCallback(o)
    <3>1. phase[o] = "callback"
      BY <2>7, OpAssumption DEF RunCallback, GiveRow, ThreadInv
    <3>2. QED
      BY <2>7, <3>1 DEF RunCallback, GiveRow
  <2>8. QED
    BY <2>1, <2>2, <2>3, <2>4, <2>5, <2>6, <2>7 DEF WorkerStep
<1> QED BY <1>g

\* Cancellations and vacuums are not undone, threads that have ended or begun
\* do not begin again.
LEMMA StepFacts ==
  ASSUME QueueInv, DatabaseTypeOK, ThreadInv, [ConnectionNext]_connVars
  PROVE  /\ Canceled \subseteq Canceled'
         /\ \A o \in Op : phase[o] # "idle" => phase'[o] # "idle"
         /\ \A o \in Op : phase[o] \in {"succeeded", "failed"} =>
              phase'[o] = phase[o] /\ fault'[o] = fault[o] /\ count'[o] = count[o]
<1> DEFINE Goal ==
       /\ Canceled \subseteq Canceled'
       /\ \A o \in Op : phase[o] # "idle" => phase'[o] # "idle"
       /\ \A o \in Op : phase[o] \in {"succeeded", "failed"} =>
            phase'[o] = phase[o] /\ fault'[o] = fault[o] /\ count'[o] = count[o]
<1>0. QueueTypeOK /\ Placed
  BY DEF QueueInv
<1>1. ASSUME NEW o \in Op, Launch(o), UNCHANGED outcome PROVE Goal
  BY <1>1 DEF Launch, Goes, DatabaseTypeOK, Canceled
<1>2. CASE Begin
  <2>1. Head(items) \in Op
    BY <1>0, <1>2, TailFacts, CallsAreOps DEF Begin, StartItem, Dequeue, QueueTypeOK
  <2>2. Launch(Head(items)) /\ UNCHANGED outcome
    BY <1>2 DEF Begin, StartItem
  <2>3. QED
    BY <1>1, <2>1, <2>2
<1>3. ASSUME NEW v \in Vacuum, StartVacuum(v) PROVE Goal
  <2>1. v \in Op /\ Launch(v) /\ UNCHANGED outcome
    BY <1>3, CallsAreOps DEF StartVacuum, queueVars
  <2>2. QED
    BY <1>1, <2>1
<1>4. ASSUME NEW o \in Op, Work(o) \/ (o \in Item /\ Callback(o)) PROVE Goal
  <2>1. WorkerStep(o) \/ RunCallback(o)
    BY <1>4 DEF Work, Callback
  <2>2. UNCHANGED outcome
    BY <1>4 DEF Work, Callback, queueVars
  <2>3. Canceled' = Canceled
    BY <2>2 DEF Canceled
  <2>4. QED
    BY <2>1, <2>3, WorkerFacts, OthersStand
<1>5. ASSUME UNCHANGED <<phase, fault, count>>, Canceled \subseteq Canceled' PROVE Goal
  BY <1>5
<1>6. ASSUME NEW i \in Item, Call(i) PROVE Goal
  <2>1. UNCHANGED <<phase, fault, count>>
    BY <1>6 DEF Call, dbVars
  <2>2. Canceled \subseteq Canceled'
    BY <1>0, <1>6 DEF Call, AppendItem, Join, Canceled, QueueTypeOK
  <2>3. QED
    BY <1>5, <2>1, <2>2
<1>7. ASSUME NEW i \in Item, Complete(i) PROVE Goal
  <2>1. UNCHANGED <<phase, fault, count>>
    BY <1>7 DEF Complete, dbVars
  <2>2. Canceled \subseteq Canceled'
    BY <1>0, <1>7 DEF Complete, FinishItem, Settle, Canceled, QueueTypeOK, Placed
  <2>3. QED
    BY <1>5, <2>1, <2>2
<1>8. ASSUME NEW i \in Item, Cancel(i) PROVE Goal
  <2>1. UNCHANGED <<phase, fault, count>>
    BY <1>8 DEF Cancel, dbVars
  <2>2. Canceled \subseteq Canceled'
    BY <1>0, <1>8
    DEF Cancel, CancelInFlight, CancelQueued, CancelWaiting, Settle, Canceled, QueueTypeOK
  <2>3. QED
    BY <1>5, <2>1, <2>2
<1>9. CASE Turn \/ Close \/ Rest \/ UNCHANGED connVars
  <2>1. UNCHANGED <<phase, fault, count, outcome>>
    BY <1>9, Zenon DEF Turn, ThrowItem, SkipItem, GoIdle, Close, CloseHandle, Rest,
                       dbVars, queueVars, connVars
  <2>2. QED
    BY <1>5, <2>1 DEF Canceled
<1>10. QED
  BY <1>2, <1>3, <1>4, <1>6, <1>7, <1>8, <1>9, CallsAreOps DEF ConnectionNext

\* The threads keep to their phases in every step of the connection.
LEMMA ThreadInvStep ==
  ASSUME QueueInv, DatabaseTypeOK, ThreadInv, [ConnectionNext]_connVars
  PROVE  ThreadInv'
<1>0. QueueTypeOK
  BY DEF QueueInv
<1>1. ASSUME NEW o \in Op, Launch(o) PROVE ThreadInv'
  BY <1>1 DEF Launch, Goes, DatabaseTypeOK, ThreadInv, HasStatement
<1>2. CASE Begin
  <2>1. Head(items) \in Op
    BY <1>0, <1>2, TailFacts, CallsAreOps DEF Begin, StartItem, Dequeue, QueueTypeOK
  <2>2. QED
    BY <1>1, <1>2, <2>1 DEF Begin
<1>3. ASSUME NEW v \in Vacuum, StartVacuum(v) PROVE ThreadInv'
  BY <1>1, <1>3, CallsAreOps DEF StartVacuum
<1>4. ASSUME NEW o \in Op, Work(o) \/ (o \in Item /\ Callback(o)) PROVE ThreadInv'
  BY <1>4, ThreadStep DEF Work, Callback
<1>5. ASSUME \/ Turn \/ Close \/ Rest
             \/ \E i \in Item : Call(i) \/ Complete(i) \/ Cancel(i)
             \/ UNCHANGED connVars
      PROVE  UNCHANGED <<phase, stmt, rows, delivered>>
  BY <1>5, Zenon DEF Turn, Close, CloseHandle, Rest, Call, Complete, Cancel, connVars, dbVars
<1>6. CASE UNCHANGED <<phase, stmt, rows, delivered>>
  BY <1>6 DEF ThreadInv
<1>7. QED
  BY <1>2, <1>3, <1>4, <1>5, <1>6, CallsAreOps DEF ConnectionNext

\* The only step that makes an outcome "complete" or "error" finds the thread
\* at its end.
LEMMA OutcomeInvStep ==
  ASSUME QueueInv, DatabaseTypeOK, ThreadInv, OutcomeInv, [ConnectionNext]_connVars
  PROVE  OutcomeInv'
<1>0. QueueTypeOK
  BY DEF QueueInv
<1>1. ASSUME NEW i \in Item
      PROVE  /\ outcome'[i] = "complete" => outcome[i] = "complete" \/ phase[i] = "succeeded"
             /\ outcome'[i] = "error" => outcome[i] = "error" \/ phase[i] = "failed"
  <2>1. ASSUME NEW j \in Item, Call(j) \/ Cancel(j)
        PROVE  outcome'[i] = outcome[i] \/ outcome'[i] \in {"pending", "canceled"}
    BY <1>0, <2>1 DEF Call, AppendItem, Join, Cancel, CancelInFlight, CancelQueued, CancelWaiting,
                      Settle, QueueTypeOK
  <2>2. ASSUME NEW j \in Item, Complete(j)
        PROVE  \/ outcome'[i] = outcome[i]
               \/ outcome'[i] = "complete" /\ phase[i] = "succeeded"
               \/ outcome'[i] = "error" /\ phase[i] = "failed"
    BY <1>0, <2>2 DEF Complete, FinishItem, Settle, QueueTypeOK
  <2>3. ASSUME \/ Begin \/ Turn \/ Close \/ Rest
               \/ \E j \in Item : Callback(j)
               \/ \E v \in Vacuum : StartVacuum(v)
               \/ \E o \in Op : Work(o)
               \/ UNCHANGED connVars
        PROVE  outcome' = outcome
    BY <2>3, Zenon DEF Begin, StartItem, Turn, ThrowItem, SkipItem, GoIdle, Close, Rest,
                       Callback, StartVacuum, Work, queueVars, connVars
  <2>4. QED
    BY <2>1, <2>2, <2>3 DEF ConnectionNext
<1>2. \A i \in Item : i \in Op
  BY CallsAreOps
<1>3. QED
  BY <1>1, <1>2, StepFacts DEF OutcomeInv

\* What every property below rests on.
ResultInv == QueueInv /\ DatabaseTypeOK /\ RunsForCall /\ ThreadInv /\ OutcomeInv

\* The base of the properties below: threads and statements, callbacks and
\* rows, promises and threads stay in step with each other.
THEOREM ConnectionThreads == ConnectionSpec => []ResultInv
<1>1. ConnectionInit => ThreadInv /\ OutcomeInv
  BY CallsAreOps
  DEF ConnectionInit, DatabaseInit, QueueInit, ThreadInv, OutcomeInv, HasStatement
<1>2. /\ QueueInv /\ DatabaseTypeOK /\ ThreadInv /\ OutcomeInv /\ [ConnectionNext]_connVars
      => ThreadInv' /\ OutcomeInv'
  BY ThreadInvStep, OutcomeInvStep
<1>3. QED
  BY <1>1, <1>2, ConnectionBase, PTL DEF ConnectionSpec, ResultInv

\* A completed eachAsync has given its callback every row: Statement::Each does
\* not step on before the dispatcher has run the callback of the last row.
THEOREM ConnectionEachDelivers == ConnectionSpec => []EachDeliversAll
<1>1. ResultInv => EachDeliversAll
  <2> SUFFICES ASSUME ResultInv, NEW i \in Item, outcome[i] = "complete", Kind[i] = "each"
               PROVE  delivered[i] = rows[i]
    BY DEF EachDeliversAll
  <2>1. i \in Op /\ phase[i] = "succeeded"
    BY CallsAreOps DEF ResultInv, OutcomeInv
  <2>2. rows[i] \in Nat /\ delivered[i] \in Nat /\ rows[i] = delivered[i] + 0
    BY <2>1, OpAssumption DEF ResultInv, ThreadInv, DatabaseTypeOK
  <2>3. QED
    BY <2>2
<1>2. QED
  BY <1>1, ConnectionThreads, PTL

-----------------------------------------------------------------------------
\* After close nobody waits for a promise, because the client closes only then
\* and makes no call afterwards.
ClosedInv == handle # "open" => \A i \in Item : outcome[i] # "pending"

\* A queued call whose thread is at work is pending or cancelled.
LEMMA WorkingPending ==
  ASSUME QueueInv, RunsForCall, NEW i \in Item, phase[i] \notin {"idle", "succeeded", "failed"}
  PROVE  (i \in inFlight /\ outcome[i] = "pending") \/ i \in Canceled
  BY CallsAreOps DEF QueueInv, Placed, RunsForCall, Working, Canceled

\* Once a call was cancelled or a vacuum started it remains so.
LEMMA AbandonedStays ==
  ASSUME QueueInv, DatabaseTypeOK, ThreadInv, [ConnectionNext]_connVars, Abandoned
  PROVE  Abandoned'
  BY StepFacts, CallsAreOps DEF Abandoned, Begun

\* No step leaves a pending call behind a closed handle.
LEMMA ClosedInvStep ==
  ASSUME ResultInv, ClosedInv, [ConnectionNext]_connVars
  PROVE  ClosedInv'
<1>0. QueueTypeOK /\ DatabaseTypeOK /\ ThreadInv
  BY DEF ResultInv, QueueInv
<1>1. ASSUME NEW i \in Item, Call(i) PROVE ClosedInv'
  BY <1>1 DEF Call, dbVars, ClosedInv
<1>2. CASE Begin
  BY <1>2 DEF Begin, StartItem, Launch, ClosedInv
<1>3. ASSUME NEW v \in Vacuum, StartVacuum(v) PROVE ClosedInv'
  BY <1>3 DEF StartVacuum, Launch, queueVars, ClosedInv
<1>4. ASSUME NEW o \in Op, Work(o) \/ (o \in Item /\ Callback(o)) PROVE ClosedInv'
  BY <1>0, <1>4, WorkerFacts DEF Work, Callback, queueVars, ClosedInv
<1>5. ASSUME NEW i \in Item, Complete(i) PROVE ClosedInv'
  <2>1. handle' = handle /\ \A j \in Item : outcome'[j] = outcome[j] \/ outcome'[j] \in {"complete", "error"}
    BY <1>0, <1>5 DEF Complete, FinishItem, Settle, QueueTypeOK, dbVars
  <2>2. QED
    BY <2>1 DEF ClosedInv
<1>6. ASSUME NEW i \in Item, Cancel(i) PROVE ClosedInv'
  <2>1. handle' = handle /\ \A j \in Item : outcome'[j] = outcome[j] \/ outcome'[j] = "canceled"
    BY <1>0, <1>6
    DEF Cancel, CancelInFlight, CancelQueued, CancelWaiting, Settle, QueueTypeOK, dbVars
  <2>2. QED
    BY <2>1 DEF ClosedInv
<1>7. CASE Close
  BY <1>7 DEF Close, queueVars, ClosedInv
<1>8. CASE Turn \/ Rest \/ UNCHANGED connVars
  <2>1. UNCHANGED <<handle, outcome>>
    BY <1>8, Zenon DEF Turn, ThrowItem, SkipItem, GoIdle, Rest, dbVars, connVars
  <2>2. QED
    BY <2>1 DEF ClosedInv
<1>9. QED
  BY <1>1, <1>2, <1>3, <1>4, <1>5, <1>6, <1>7, <1>8, CallsAreOps DEF ConnectionNext

\* What the step of a thread does about a freed handle.
LEMMA StrayFacts ==
  ASSUME DatabaseTypeOK, NEW o \in Op, WorkerStep(o) \/ RunCallback(o)
  PROVE  stray' = stray \/ (handle = "closed" /\ stray' = stray \cup {o})
<1>1. CASE PrepareStray(o)
  BY <1>1 DEF PrepareStray
<1>2. CASE CheckError(o)
  BY <1>2 DEF CheckError, Strays
<1>3. CASE CopyError(o)
  BY <1>3 DEF CopyError, Strays
<1>4. CASE \/ Prepare(o) \/ Bind(o) \/ StepRow(o) \/ StepDone(o) \/ StepFail(o) \/ StepThrow(o)
           \/ ReadCount(o) \/ Finalize(o) \/ RunCallback(o)
  BY <1>4, Zenon DEF Prepare, Bind, StepRow, YieldRow, StepDone, StepFail, StepThrow, ReadCount,
                     Finalize, RunCallback, GiveRow
<1>5. QED
  BY <1>1, <1>2, <1>3, <1>4 DEF WorkerStep

\* A close by a patient client and a thread at work behind it break nothing
\* that a cancelled call or a vacuum does not account for.
LEMMA CleanCloseStep ==
  ASSUME ResultInv, ClosedInv, CleanClose, [ConnectionNext]_connVars
  PROVE  CleanClose'
<1>0. QueueInv /\ DatabaseTypeOK /\ ThreadInv /\ RunsForCall
  BY DEF ResultInv
<1>1. Canceled \subseteq Canceled' /\ (Abandoned => Abandoned')
  BY <1>0, StepFacts, AbandonedStays
<1>2. ASSUME NEW o \in Op, Work(o) \/ (o \in Item /\ Callback(o)) PROVE CleanClose'
  <2>1. /\ phase[o] \notin {"idle", "succeeded", "failed"}
        /\ handle' = handle
        /\ stray' = stray \/ (handle = "closed" /\ stray' = stray \cup {o})
    BY <1>0, <1>2, WorkerFacts, StrayFacts DEF Work, Callback
  <2>2. o \in Item /\ handle = "closed" => o \in Canceled
    BY <1>0, <2>1, WorkingPending DEF ClosedInv
  <2>3. stray' \subseteq Canceled \cup Vacuum
    BY <2>1, <2>2, CallsAreOps DEF CleanClose
  <2>4. QED
    BY <1>1, <2>1, <2>3 DEF CleanClose
<1>3. CASE Close
  <2>1. /\ \A i \in Item : outcome[i] # "pending"
        /\ stray' = stray
        /\ handle' = "leaked" => \E o \in Op : stmt[o] # "none"
    BY <1>3 DEF Close, CloseHandle
  <2>2. ASSUME NEW o \in Op, stmt[o] # "none" PROVE Abandoned
    <3>1. phase[o] \notin {"idle", "succeeded", "failed"}
      BY <1>0, <2>2 DEF ThreadInv, HasStatement
    <3>2. CASE o \in Vacuum
      BY <3>1, <3>2 DEF Abandoned, Begun
    <3>3. CASE o \in Item
      BY <1>0, <2>1, <3>1, <3>3, WorkingPending DEF Abandoned, Begun
    <3>4. QED
      BY <3>2, <3>3, CallsAreOps
  <2>3. QED
    BY <1>1, <2>1, <2>2 DEF CleanClose
<1>4. ASSUME \/ Begin \/ Turn \/ Rest
             \/ \E i \in Item : Call(i) \/ Complete(i) \/ Cancel(i)
             \/ \E v \in Vacuum : StartVacuum(v)
             \/ UNCHANGED connVars
      PROVE  UNCHANGED <<handle, stray>>
  BY <1>4, Zenon DEF Begin, Launch, Turn, Rest, Call, Complete, Cancel, StartVacuum, dbVars, connVars
<1>5. CASE UNCHANGED <<handle, stray>>
  BY <1>1, <1>5 DEF CleanClose
<1>6. QED
  BY <1>2, <1>3, <1>4, <1>5, CallsAreOps DEF ConnectionNext

\* close by a client that waits for its promises leaks no handle behind
\* unfinished statements unless a call was cancelled or a vacuum started, and
\* no thread but those of such operations uses the freed handle (the
\* sqlite3_close of Database.cpp:133-135, whose answer nobody looks at).
THEOREM ConnectionCloses == ConnectionSpec => [](ClosedInv /\ CleanClose)
<1>1. ConnectionInit => ClosedInv /\ CleanClose
  BY DEF ConnectionInit, DatabaseInit, ClosedInv, CleanClose
<1>2. ResultInv /\ ClosedInv /\ CleanClose /\ [ConnectionNext]_connVars => ClosedInv' /\ CleanClose'
  BY ClosedInvStep, CleanCloseStep
<1>3. QED
  BY <1>1, <1>2, ConnectionThreads, PTL DEF ConnectionSpec

-----------------------------------------------------------------------------
\* Until a call is cancelled no two calls are in flight, and no two queued
\* calls are at work.
LEMMA OneInFlight ==
  ASSUME QueueInv, Canceled = {}, NEW i \in inFlight, NEW j \in inFlight
  PROVE  i = j
<1> SUFFICES ASSUME i # j PROVE FALSE
  OBVIOUS
<1>1. /\ IsFiniteSet(inFlight) /\ Cardinality(inFlight) \in Nat /\ immediates \in Nat
      /\ Cardinality(inFlight) + immediates <= 1
  BY CountingFacts, FS_EmptySet DEF QueueInv, QueueTypeOK, Counted
<1>2. /\ IsFiniteSet(inFlight \ {i})
      /\ Cardinality(inFlight \ {i}) = Cardinality(inFlight) - 1
  BY <1>1, FS_RemoveElement
<1>3. /\ IsFiniteSet((inFlight \ {i}) \ {j})
      /\ Cardinality((inFlight \ {i}) \ {j}) = Cardinality(inFlight \ {i}) - 1
  BY <1>2, FS_RemoveElement
<1>4. Cardinality((inFlight \ {i}) \ {j}) \in Nat
  BY <1>3, FS_CardinalityType
<1>5. QED
  BY <1>1, <1>2, <1>3, <1>4

\* The same of the threads: two queued calls at work are one.
LEMMA OneAtWork ==
  ASSUME QueueInv, RunsForCall, Canceled = {},
         NEW o \in Item, phase[o] \notin {"idle", "succeeded", "failed"}
  PROVE  /\ o \in inFlight
         /\ \A i \in inFlight : i = o
         /\ \A i \in Item : phase[i] \notin {"idle", "succeeded", "failed"} => i = o
<1>1. \A i \in Item : phase[i] \notin {"idle", "succeeded", "failed"} => i \in inFlight
  BY WorkingPending
<1>2. QED
  BY <1>1, OneInFlight

-----------------------------------------------------------------------------
\* Between the step of a writing call and its promise's completion the last
\* change of the handle is its own or one a vacuum left, and so is the count
\* that RunAsync has read; for a call that inserts, so is the last row id.
WriterInv ==
  Canceled = {} =>
    \A i \in Writer :
      /\ i \in inFlight /\ phase[i] \in {"count", "finalize", "succeeded"} =>
           /\ lastChange \in {i} \cup Begun
           /\ i \in Inserts => lastRow \in {i} \cup Begun
      /\ Kind[i] = "run" /\ phase[i] \in {"finalize", "succeeded"} => count[i] \in {i} \cup Begun

\* Only queued calls write.
LEMMA WritersQueued == Writer \subseteq Item
  BY OpAssumption, CallsAreOps

\* A vacuum that may be copying has begun.
LEMMA CopyingBegun == Copying \subseteq Begun
  BY DEF Copying, Begun

\* What the step of a thread does to the last change, the row id and the count.
LEMMA WriterFacts ==
  ASSUME DatabaseTypeOK, ThreadInv, NEW o \in Op, WorkerStep(o) \/ RunCallback(o)
  PROVE  /\ lastChange' = lastChange \/ (o \in Writer \cup Vacuum /\ lastChange' = o)
         /\ lastRow' = lastRow \/ (o \in MayInsert \cup Vacuum /\ lastRow' = o)
         /\ o \in Writer /\ phase'[o] \in {"count", "finalize", "succeeded"} =>
              \/ lastChange' = o /\ (o \in Inserts => lastRow' = o)
              \/ /\ phase[o] \in {"count", "finalize"}
                 /\ lastChange' \in {lastChange, o} /\ lastRow' = lastRow
         /\ o \in Writer /\ Kind[o] = "run" /\ phase'[o] \in {"finalize", "succeeded"} =>
              \/ phase[o] = "count" /\ count'[o] \in {lastChange} \cup Copying
              \/ phase[o] = "finalize" /\ count'[o] = count[o]
<1> USE DEF DatabaseTypeOK, Goes, Throws, Caught
<1> DEFINE Goal ==
         /\ lastChange' = lastChange \/ (o \in Writer \cup Vacuum /\ lastChange' = o)
         /\ lastRow' = lastRow \/ (o \in MayInsert \cup Vacuum /\ lastRow' = o)
         /\ o \in Writer /\ phase'[o] \in {"count", "finalize", "succeeded"} =>
              \/ lastChange' = o /\ (o \in Inserts => lastRow' = o)
              \/ /\ phase[o] \in {"count", "finalize"}
                 /\ lastChange' \in {lastChange, o} /\ lastRow' = lastRow
         /\ o \in Writer /\ Kind[o] = "run" /\ phase'[o] \in {"finalize", "succeeded"} =>
              \/ phase[o] = "count" /\ count'[o] \in {lastChange} \cup Copying
              \/ phase[o] = "finalize" /\ count'[o] = count[o]
<1>g. Goal
  <2>1. CASE Prepare(o) \/ PrepareStray(o)
    BY <2>1 DEF Prepare, PrepareStray
  <2>2. CASE Bind(o)
    BY <2>2 DEF Bind
  <2>3. CASE StepRow(o)
    BY <2>3 DEF StepRow, YieldRow
  <2>4. CASE StepDone(o)
    BY <2>4 DEF StepDone
  <2>5. CASE StepFail(o) \/ StepThrow(o)
    BY <2>5 DEF StepFail, StepThrow
  <2>6. CASE ReadCount(o)
    BY <2>6 DEF ReadCount
  <2>7. CASE Finalize(o)
    BY <2>7 DEF Finalize
  <2>8. CASE CheckError(o) \/ CopyError(o)
    BY <2>8 DEF CheckError, CopyError
  <2>9. CASE RunCallback(o)
    <3>1. phase[o] = "callback"
      BY <2>9, OpAssumption DEF RunCallback, GiveRow, ThreadInv
    <3>2. QED
      BY <2>9, <3>1 DEF RunCallback, GiveRow
  <2>10. QED
    BY <2>1, <2>2, <2>3, <2>4, <2>5, <2>6, <2>7, <2>8, <2>9 DEF WorkerStep
<1> QED BY <1>g

\* A vacuum that has begun remains so.
LEMMA BegunStays ==
  ASSUME DatabaseTypeOK, ThreadInv, NEW o \in Op, WorkerStep(o) \/ RunCallback(o)
  PROVE  Begun \subseteq Begun'
<1>1. \A p \in Op : phase[p] # "idle" => phase'[p] # "idle"
  BY WorkerFacts, OthersStand
<1>2. QED
  BY <1>1, CallsAreOps DEF Begun

\* Each step of the connection keeps track of the last change.
LEMMA WriterInvStep ==
  ASSUME ResultInv, WriterInv, [ConnectionNext]_connVars
  PROVE  WriterInv'
<1>0. QueueInv /\ QueueTypeOK /\ DatabaseTypeOK /\ ThreadInv /\ RunsForCall
  BY DEF ResultInv, QueueInv
<1>1. Canceled' = {} => Canceled = {}
  BY <1>0, StepFacts
<1>2. ASSUME NEW o \in Op, Work(o) \/ (o \in Item /\ Callback(o)) PROVE WriterInv'
  <2> SUFFICES ASSUME Canceled' = {}, NEW i \in Writer
               PROVE  /\ i \in inFlight' /\ phase'[i] \in {"count", "finalize", "succeeded"} =>
                           /\ lastChange' \in {i} \cup Begun'
                           /\ i \in Inserts => lastRow' \in {i} \cup Begun'
                      /\ Kind[i] = "run" /\ phase'[i] \in {"finalize", "succeeded"} =>
                           count'[i] \in {i} \cup Begun'
    BY DEF WriterInv
  <2>1. Canceled = {} /\ i \in Item /\ i \in Op
    BY <1>1, WritersQueued, CallsAreOps
  <2>2. (WorkerStep(o) \/ RunCallback(o)) /\ inFlight' = inFlight
    BY <1>2 DEF Work, Callback, queueVars
  <2>3. phase[o] \notin {"idle", "succeeded", "failed"}
    BY <1>0, <2>2, WorkerFacts
  <2>4. o \in Item => o \in inFlight /\ \A j \in inFlight : j = o
    BY <1>0, <2>1, <2>3, OneAtWork
  <2>b. Begun \subseteq Begun' /\ (o \in Vacuum => o \in Begun)
    BY <1>0, <2>2, <2>3, BegunStays DEF Begun
  <2>5. CASE i = o
    <3>1. CASE i \in inFlight /\ phase'[i] \in {"count", "finalize", "succeeded"}
      <4>1. \/ lastChange' = i /\ (i \in Inserts => lastRow' = i)
            \/ /\ phase[i] \in {"count", "finalize"}
               /\ lastChange' \in {lastChange, i} /\ lastRow' = lastRow
        BY <1>0, <2>2, <2>5, <3>1, WriterFacts
      <4>2. /\ lastChange' \in {i} \cup Begun'
            /\ i \in Inserts => lastRow' \in {i} \cup Begun'
        BY <2>1, <2>b, <3>1, <4>1 DEF WriterInv
      <4>3. ASSUME Kind[i] = "run", phase'[i] \in {"finalize", "succeeded"}
            PROVE  count'[i] \in {i} \cup Begun'
        <5>1. \/ phase[i] = "count" /\ count'[i] \in {lastChange} \cup Copying
              \/ phase[i] = "finalize" /\ count'[i] = count[i]
          BY <1>0, <2>2, <2>5, <4>3, WriterFacts
        <5>2. QED
          BY <2>1, <2>b, <3>1, <4>3, <5>1, CopyingBegun DEF WriterInv
      <4>4. QED
        BY <4>2, <4>3
    <3>2. QED
      BY <2>2, <2>4, <2>5, <3>1, <2>1
  <2>6. CASE i # o
    <3>1. phase'[i] = phase[i] /\ count'[i] = count[i]
      BY <1>0, <2>1, <2>2, <2>6, OthersStand
    <3>2. i \in inFlight => o \notin Writer
      BY <2>4, <2>6, WritersQueued
    <3>3. i \in inFlight => /\ lastChange' \in {lastChange} \cup Begun
                           /\ lastRow' \in {lastRow} \cup Begun
      BY <1>0, <2>2, <2>b, <3>2, WriterFacts, OpAssumption
    <3>4. QED
      BY <2>1, <2>2, <2>b, <3>1, <3>3 DEF WriterInv
  <2>7. QED
    BY <2>5, <2>6
<1>3. ASSUME NEW o \in Op, Launch(o), inFlight' \subseteq inFlight \cup {o} PROVE WriterInv'
  <2>1. /\ phase'[o] = "prepare" /\ UNCHANGED <<lastChange, lastRow, count>>
        /\ \A p \in Op \ {o} : phase'[p] = phase[p]
    BY <1>0, <1>3 DEF Launch, Goes, DatabaseTypeOK
  <2>2. Begun \subseteq Begun'
    BY <2>1, CallsAreOps DEF Begun
  <2>3. QED
    BY <1>1, <1>3, <2>1, <2>2, WritersQueued, CallsAreOps DEF WriterInv
<1>4. CASE Begin
  <2>1. Head(items) \in Op
    BY <1>0, <1>4, TailFacts, CallsAreOps DEF Begin, StartItem, Dequeue, QueueTypeOK
  <2>2. QED
    BY <1>3, <1>4, <2>1 DEF Begin, StartItem
<1>5. ASSUME NEW v \in Vacuum, StartVacuum(v) PROVE WriterInv'
  BY <1>3, <1>5, CallsAreOps DEF StartVacuum, queueVars
<1>6. ASSUME \/ Turn \/ Close \/ Rest
             \/ \E i \in Item : Call(i) \/ Complete(i) \/ Cancel(i)
             \/ UNCHANGED connVars
      PROVE  UNCHANGED <<phase, lastChange, lastRow, count>>
  BY <1>6, Zenon DEF Turn, Close, CloseHandle, Rest, Call, Complete, Cancel, connVars, dbVars
<1>7. ASSUME \/ Turn \/ Close \/ Rest
             \/ \E i \in Item : Call(i)
             \/ UNCHANGED connVars
      PROVE  inFlight' = inFlight
  BY <1>7, Zenon DEF Turn, ThrowItem, SkipItem, GoIdle, Close, Rest, Call, AppendItem, Join,
                     connVars, queueVars
<1>8. ASSUME NEW i \in Item, Complete(i) \/ Cancel(i) PROVE inFlight' \subseteq inFlight
  BY <1>8 DEF Complete, FinishItem, Settle, Cancel, CancelInFlight, CancelQueued, CancelWaiting
<1>9. ASSUME UNCHANGED <<phase, lastChange, lastRow, count>>, inFlight' \subseteq inFlight PROVE WriterInv'
  BY <1>1, <1>9 DEF WriterInv, Begun
<1>10. QED
  BY <1>2, <1>4, <1>5, <1>6, <1>7, <1>8, <1>9, CallsAreOps DEF ConnectionNext

\* WriterInv holds all along.
LEMMA ConnectionWriters == ConnectionSpec => []WriterInv
<1>1. ConnectionInit => WriterInv
  BY WritersQueued, CallsAreOps DEF ConnectionInit, DatabaseInit, WriterInv
<1>2. ResultInv /\ WriterInv /\ [ConnectionNext]_connVars => WriterInv'
  BY WriterInvStep
<1>3. QED
  BY <1>1, <1>2, ConnectionThreads, PTL DEF ConnectionSpec

\* runAsync of a statement that changes rows returns the count of its own
\* changes while no call has been cancelled and no vacuum has begun, although
\* sqlite3_changes is read in a call after the step, without the mutex
\* (Database.cpp:224-228).  Beside a vacuum the count may be the vacuum's, which
\* counts the rows it copies while it runs; it is never another queued call's.
THEOREM ConnectionWriterCount == ConnectionSpec => []WriterCountIsOwn
<1>1. ResultInv /\ WriterInv => WriterCountIsOwn
  BY WritersQueued DEF ResultInv, OutcomeInv, WriterInv, WriterCountIsOwn
<1>2. QED
  BY <1>1, ConnectionThreads, ConnectionWriters, PTL

\* At the moment a call that inserts a row completes, lastInsertRowId is still
\* its own, while no call has been cancelled and no vacuum has begun.  Beside a
\* vacuum it may be of a row the vacuum copies; it is never another queued
\* call's.  An UPDATE, a DELETE or an INSERT that inserts nothing has no row id
\* of its own, and the theorem promises none.
THEOREM ConnectionRowId == ConnectionSpec => RowIdIsOwn
<1> DEFINE Own == \A i \in Inserts : Canceled = {} /\ outcome[i] = "pending" /\ outcome'[i] = "complete"
                                    => RowIds \subseteq {i} \cup Begun
<1>1. ResultInv /\ WriterInv /\ [ConnectionNext]_connVars => [Own]_connVars
  <2> SUFFICES ASSUME ResultInv, WriterInv, [ConnectionNext]_connVars, NEW i \in Inserts, Canceled = {},
                      outcome[i] = "pending", outcome'[i] = "complete"
               PROVE  RowIds \subseteq {i} \cup Begun
    BY Zenon
  <2>0. QueueTypeOK /\ i \in Item /\ i \in Writer
    BY WritersQueued, OpAssumption DEF ResultInv, QueueInv
  <2>1. ASSUME NEW j \in Item, Call(j) \/ Cancel(j) PROVE FALSE
    BY <2>0, <2>1 DEF Call, AppendItem, Join, Cancel, CancelInFlight, CancelQueued, CancelWaiting,
                      Settle, QueueTypeOK
  <2>2. ASSUME NEW j \in Item, Complete(j) PROVE i \in inFlight /\ phase[i] = "succeeded"
    BY <2>0, <2>2 DEF Complete, FinishItem, Settle, QueueTypeOK
  <2>3. ASSUME \/ Begin \/ Turn \/ Close \/ Rest
               \/ \E j \in Item : Callback(j)
               \/ \E v \in Vacuum : StartVacuum(v)
               \/ \E o \in Op : Work(o)
               \/ UNCHANGED connVars
        PROVE  outcome' = outcome
    BY <2>3, Zenon DEF Begin, StartItem, Turn, ThrowItem, SkipItem, GoIdle, Close, Rest,
                       Callback, StartVacuum, Work, queueVars, connVars
  <2>4. i \in inFlight /\ phase[i] = "succeeded"
    BY <2>1, <2>2, <2>3 DEF ConnectionNext
  <2>5. QED
    BY <2>0, <2>4, CopyingBegun DEF WriterInv, RowIds
<1>2. QED
  BY <1>1, ConnectionThreads, ConnectionWriters, PTL DEF ConnectionSpec, RowIdIsOwn

-----------------------------------------------------------------------------
\* Whose failure may stand in the handle and in lastErrorMessage while call i
\* is under way and no call has been cancelled: its own, or a vacuum's.
Texts(i) == {i, Nobody, Vague} \cup Vacuum

TextInv ==
  Canceled = {} =>
    /\ \A i \in inFlight :
         /\ phase[i] \notin {"idle", "prepare"} => dbErr \in Texts(i)
         /\ phase[i] = "failed" /\ fault[i] \notin Foreign => lastError \in Texts(i)
    /\ \A i \in Item : outcome[i] = "error" /\ fault[i] \notin Foreign => told[i] \in Texts(i)

\* Whose failure the message of call i should tell.
Mine(i) == IF fault[i] \in {"sql", "range", "step"} THEN i ELSE Nobody

\* What the only operation at work has left in the handle, place by place.
Own(i) ==
  /\ phase[i] = "bind" => dbErr = Nobody /\ stmt[i] = "ready"
  /\ phase[i] = "callback" => stmt[i] = "active"
  /\ phase[i] = "unwind" /\ fault[i] \notin Foreign \cup {"step"} =>
       IF stmt[i] = "ready" THEN dbErr = Mine(i) ELSE Mine(i) = Nobody
  /\ phase[i] = "save" => dbErr = Mine(i)
  /\ phase[i] = "copy" => dbErr = Mine(i) /\ dbErr # Nobody
  /\ phase[i] = "failed" /\ fault[i] \notin Foreign => lastError = Mine(i)

OwnInv ==
  ~Abandoned =>
    /\ \A i \in inFlight : Own(i)
    /\ \A i \in Item : outcome[i] = "error" /\ fault[i] \notin Foreign => told[i] = Mine(i)

\* What the step of a thread does to the error of the handle and to the message.
LEMMA TextFacts ==
  ASSUME DatabaseTypeOK, ThreadInv, NEW o \in Op, WorkerStep(o) \/ RunCallback(o)
  PROVE  /\ dbErr' = dbErr \/ dbErr' \in {o, Nobody, Vague}
         /\ phase[o] = "prepare" => dbErr' \in {o, Nobody} \/ handle = "closed"
         /\ lastError' = lastError \/ lastError' \in {Nobody, Vague, dbErr}
         /\ phase'[o] = "failed" /\ fault'[o] \notin Foreign =>
              phase[o] # "prepare" /\ lastError' \in {Nobody, Vague, dbErr}
<1> USE DEF DatabaseTypeOK, Goes, Throws, Caught, Foreign, Kept
<1> DEFINE Goal ==
         /\ dbErr' = dbErr \/ dbErr' \in {o, Nobody, Vague}
         /\ phase[o] = "prepare" => dbErr' \in {o, Nobody} \/ handle = "closed"
         /\ lastError' = lastError \/ lastError' \in {Nobody, Vague, dbErr}
         /\ phase'[o] = "failed" /\ fault'[o] \notin Foreign =>
              phase[o] # "prepare" /\ lastError' \in {Nobody, Vague, dbErr}
<1>g. Goal
  <2>1. CASE Prepare(o) \/ PrepareStray(o)
    BY <2>1 DEF Prepare, PrepareStray
  <2>2. CASE Bind(o)
    BY <2>2 DEF Bind
  <2>3. CASE StepRow(o)
    <3>1. Kind[o] \in {"run", "one", "all", "each"}
      BY OpAssumption
    <3>2. QED
      BY <2>3, <3>1 DEF StepRow, YieldRow, ErrorText
  <2>4. CASE StepDone(o) \/ StepFail(o)
    BY <2>4 DEF StepDone, StepFail, ErrorText
  <2>5. CASE StepThrow(o)
    BY <2>5 DEF StepThrow, Thrown, ThreadInv, HasStatement
  <2>6. CASE ReadCount(o)
    BY <2>6 DEF ReadCount
  <2>7. CASE Finalize(o)
    BY <2>7 DEF Finalize
  <2>8. CASE CheckError(o)
    BY <2>8 DEF CheckError, Torn
  <2>9. CASE CopyError(o)
    BY <2>9 DEF CopyError, Torn, ErrorText
  <2>10. CASE RunCallback(o)
    <3>1. phase[o] = "callback"
      BY <2>10, OpAssumption DEF RunCallback, GiveRow, ThreadInv
    <3>2. QED
      BY <2>10, <3>1 DEF RunCallback, GiveRow
  <2>11. QED
    BY <2>1, <2>2, <2>3, <2>4, <2>5, <2>6, <2>7, <2>8, <2>9, <2>10 DEF WorkerStep
<1> QED BY <1>g

\* The only operation at work leaves in the handle what its place says: nobody
\* else writes the message or is inside a call of SQLite.
LEMMA OwnStep ==
  ASSUME DatabaseTypeOK, ThreadInv, NEW o \in Op, WorkerStep(o) \/ RunCallback(o),
         Own(o), handle # "closed", Working \subseteq {o}
  PROVE  Own(o)'
<1> USE DEF DatabaseTypeOK, Goes, Throws, Caught, Foreign, Kept, Own, Mine
<1>1. Torn(Writing \ {o}) = {} /\ Inside(o) = {}
  BY DEF Torn, Writing, Working, Inside
<1>2. stmt[o] # "none" <=> phase[o] \in HasStatement
  BY DEF ThreadInv
<1>g. Own(o)'
  <2>1. CASE Prepare(o) \/ PrepareStray(o)
    BY <1>2, <2>1 DEF Prepare, PrepareStray, HasStatement
  <2>2. CASE Bind(o)
    BY <1>2, <2>2 DEF Bind, HasStatement
  <2>3. CASE StepRow(o)
    <3>1. Kind[o] \in {"run", "one", "all", "each"}
      BY OpAssumption
    <3>2. QED
      BY <2>3, <3>1 DEF StepRow, YieldRow
  <2>4. CASE StepDone(o)
    BY <2>4 DEF StepDone
  <2>5. CASE StepFail(o)
    BY <1>2, <2>5 DEF StepFail, HasStatement
  <2>6. CASE StepThrow(o)
    BY <1>2, <2>6 DEF StepThrow, Thrown, HasStatement
  <2>7. CASE ReadCount(o)
    BY <2>7 DEF ReadCount
  <2>8. CASE Finalize(o)
    BY <1>2, <2>8 DEF Finalize, HasStatement
  <2>9. CASE CheckError(o)
    BY <1>1, <2>9 DEF CheckError
  <2>10. CASE CopyError(o)
    BY <1>1, <2>10 DEF CopyError, ErrorText
  <2>11. CASE RunCallback(o)
    <3>1. phase[o] = "callback"
      BY <2>11, OpAssumption DEF RunCallback, GiveRow, ThreadInv
    <3>2. QED
      BY <1>2, <2>11, <3>1 DEF RunCallback, GiveRow, HasStatement
  <2>12. QED
    BY <2>1, <2>2, <2>3, <2>4, <2>5, <2>6, <2>7, <2>8, <2>9, <2>10, <2>11 DEF WorkerStep
<1> QED BY <1>g

\* The steps that move no thread, but for one that begins, leave what is told
\* of the errors alone.
LEMMA CalmSteps ==
  ASSUME \/ Begin \/ Turn \/ Rest
         \/ \E i \in Item : Call(i) \/ Cancel(i)
         \/ \E v \in Vacuum : StartVacuum(v)
         \/ UNCHANGED connVars
  PROVE  UNCHANGED <<stmt, fault, dbErr, lastError, told>>
BY Zenon DEF Begin, Launch, Turn, Rest, Call, Cancel, StartVacuum, dbVars, connVars

\* How outcomes and the calls in flight change where no call is begun.
LEMMA CallSteps ==
  ASSUME QueueTypeOK, NEW i \in Item, Call(i) \/ Cancel(i)
  PROVE  /\ inFlight' \subseteq inFlight /\ phase' = phase
         /\ \A j \in Item : outcome'[j] = "error" => outcome[j] = "error"
BY DEF Call, AppendItem, Join, Cancel, CancelInFlight, CancelQueued, CancelWaiting, Settle,
       QueueTypeOK, dbVars

\* A call that completes: what it is told, and what stays as it was.
LEMMA CompleteFacts ==
  ASSUME QueueTypeOK, DatabaseTypeOK, told \in [Item -> Op \cup {Nobody, Vague}],
         NEW i \in Item, Complete(i)
  PROVE  /\ UNCHANGED dbVars
         /\ i \in inFlight /\ inFlight' = inFlight \ {i}
         /\ phase[i] \in {"succeeded", "failed"}
         /\ outcome'[i] = "error" => /\ phase[i] = "failed"
                                     /\ told'[i] \in {lastError} \cup Torn(Writing)
         /\ \A j \in Item \ {i} : outcome'[j] = outcome[j] /\ told'[j] = told[j]
BY DEF Complete, FinishItem, Settle, QueueTypeOK

\* No text of another queued call gets in the way of a call.
LEMMA TextInvStep ==
  ASSUME ResultInv, ClosedInv, TextInv, told \in [Item -> Op \cup {Nobody, Vague}],
         [ConnectionNext]_connVars
  PROVE  TextInv'
<1>0. QueueInv /\ QueueTypeOK /\ DatabaseTypeOK /\ ThreadInv /\ RunsForCall /\ OutcomeInv
  BY DEF ResultInv, QueueInv
<1>1. Canceled' = {} => Canceled = {}
  BY <1>0, StepFacts
<1>i. \A i \in Item : i \in Op
  BY CallsAreOps
<1>p. inFlight \subseteq Item /\ \A i \in inFlight : outcome[i] = "pending"
  BY <1>0 DEF QueueTypeOK, QueueInv, Placed
<1>2. ASSUME NEW o \in Op, Work(o) \/ (o \in Item /\ Callback(o)), Canceled' = {} PROVE TextInv'
  <2>1. Canceled = {}
    BY <1>1, <1>2
  <2>2. (WorkerStep(o) \/ RunCallback(o)) /\ UNCHANGED <<inFlight, outcome, told>>
    BY <1>2 DEF Work, Callback, queueVars
  <2>3. phase[o] \notin {"idle", "succeeded", "failed"}
    BY <1>0, <2>2, WorkerFacts
  <2>4. o \in Item => o \in inFlight /\ \A j \in inFlight : j = o
    BY <1>0, <2>1, <2>3, OneAtWork
  <2>5. ASSUME NEW i \in inFlight
        PROVE  /\ phase'[i] \notin {"idle", "prepare"} => dbErr' \in Texts(i)
               /\ phase'[i] = "failed" /\ fault'[i] \notin Foreign => lastError' \in Texts(i)
    <3>1. CASE o = i
      <4>1. handle # "closed"
        BY <1>p, <2>5 DEF ClosedInv
      <4>2. phase[i] # "prepare" => dbErr \in Texts(i)
        BY <2>1, <2>3, <2>5, <3>1 DEF TextInv
      <4>3. QED
        BY <1>0, <2>2, <3>1, <4>1, <4>2, TextFacts DEF Texts
    <3>2. CASE o # i
      <4>1. o \in Vacuum
        BY <2>4, <2>5, <3>2, CallsAreOps
      <4>2. phase'[i] = phase[i] /\ fault'[i] = fault[i]
        BY <1>0, <1>i, <1>p, <2>2, <2>5, <3>2, OthersStand
      <4>3. /\ dbErr' = dbErr \/ dbErr' \in {o, Nobody, Vague}
            /\ lastError' = lastError \/ lastError' \in {Nobody, Vague, dbErr}
        BY <1>0, <2>2, TextFacts
      <4>4. QED
        BY <2>1, <2>5, <4>1, <4>2, <4>3 DEF TextInv, Texts
    <3>3. QED
      BY <3>1, <3>2
  <2>6. ASSUME NEW i \in Item, outcome'[i] = "error", fault'[i] \notin Foreign
        PROVE  told'[i] \in Texts(i)
    <3>1. outcome[i] = "error" /\ phase[i] = "failed" /\ told'[i] = told[i]
      BY <1>0, <2>2, <2>6 DEF OutcomeInv
    <3>2. fault'[i] = fault[i]
      BY <1>0, <1>i, <3>1, StepFacts
    <3>3. QED
      BY <2>1, <2>6, <3>1, <3>2 DEF TextInv
  <2>7. QED
    BY <2>2, <2>5, <2>6 DEF TextInv, Texts
<1>3. ASSUME NEW i \in Item, Complete(i), Canceled' = {} PROVE TextInv'
  <2>1. UNCHANGED <<phase, fault, dbErr, lastError>>
    BY <1>0, <1>3, CompleteFacts DEF dbVars
  <2>2. outcome'[i] = "error" /\ fault'[i] \notin Foreign => told'[i] \in Texts(i)
    BY <1>0, <1>1, <1>3, <2>1, CompleteFacts DEF TextInv, Texts, Torn
  <2>3. QED
    BY <1>0, <1>1, <1>3, <2>1, <2>2, CompleteFacts DEF TextInv, Texts
<1>4. ASSUME NEW o \in Op, Launch(o), UNCHANGED <<outcome, told>>, inFlight' \subseteq inFlight \cup {o},
             Canceled' = {}
      PROVE  TextInv'
  <2>1. /\ phase'[o] = "prepare" /\ UNCHANGED <<fault, dbErr, lastError>>
        /\ \A p \in Op \ {o} : phase'[p] = phase[p]
    BY <1>0, <1>4 DEF Launch, Goes, DatabaseTypeOK
  <2>2. QED
    BY <1>1, <1>4, <1>i, <1>p, <2>1 DEF TextInv, Texts
<1>5. ASSUME Begin, Canceled' = {} PROVE TextInv'
  <2>1. Head(items) \in Op
    BY <1>0, <1>5, TailFacts, CallsAreOps DEF Begin, StartItem, Dequeue, QueueTypeOK
  <2>2. QED
    BY <1>4, <1>5, <2>1 DEF Begin, StartItem
<1>6. ASSUME NEW v \in Vacuum, StartVacuum(v), Canceled' = {} PROVE TextInv'
  BY <1>4, <1>6, CallsAreOps DEF StartVacuum, queueVars
<1>7. ASSUME NEW i \in Item, Call(i) \/ Cancel(i), Canceled' = {} PROVE TextInv'
  BY <1>0, <1>1, <1>7, CallSteps, CalmSteps DEF TextInv, Texts
<1>8. ASSUME Close, Canceled' = {} PROVE TextInv'
  <2>1. inFlight = {}
    BY <1>8, <1>p DEF Close
  <2>2. UNCHANGED <<inFlight, outcome, fault, told>>
    BY <1>8 DEF Close, CloseHandle, queueVars
  <2>3. QED
    BY <1>1, <1>8, <2>1, <2>2 DEF TextInv, Texts
<1>9. ASSUME Turn \/ Rest \/ UNCHANGED connVars, Canceled' = {} PROVE TextInv'
  <2>1. UNCHANGED <<phase, inFlight, outcome>>
    BY <1>9, Zenon DEF Turn, ThrowItem, SkipItem, GoIdle, Rest, dbVars, connVars
  <2>2. QED
    BY <1>1, <1>9, <2>1, CalmSteps DEF TextInv, Texts
<1>10. CASE Canceled' # {}
  BY <1>10 DEF TextInv
<1>11. QED
  BY <1>2, <1>3, <1>5, <1>6, <1>7, <1>8, <1>9, <1>10, <1>i DEF ConnectionNext

\* Alone on the handle, a call finds its own failure there.
LEMMA OwnInvStep ==
  ASSUME ResultInv, ClosedInv, OwnInv, told \in [Item -> Op \cup {Nobody, Vague}],
         [ConnectionNext]_connVars
  PROVE  OwnInv'
<1>0. QueueInv /\ QueueTypeOK /\ DatabaseTypeOK /\ ThreadInv /\ RunsForCall /\ OutcomeInv
  BY DEF ResultInv, QueueInv
<1>1. ~Abandoned' => ~Abandoned
  BY <1>0, AbandonedStays
<1>i. \A i \in Item : i \in Op
  BY CallsAreOps
<1>p. inFlight \subseteq Item /\ \A i \in inFlight : outcome[i] = "pending"
  BY <1>0 DEF QueueTypeOK, QueueInv, Placed
<1>w. ASSUME ~Abandoned, NEW o \in Op, phase[o] \notin {"idle", "succeeded", "failed"}
      PROVE  o \in Item /\ o \in inFlight
  BY <1>0, <1>w, CallsAreOps, WorkingPending DEF Abandoned, Begun
<1>2. ASSUME NEW o \in Op, Work(o) \/ (o \in Item /\ Callback(o)), ~Abandoned' PROVE OwnInv'
  <2>1. ~Abandoned /\ Canceled = {}
    BY <1>1, <1>2 DEF Abandoned, Begun
  <2>2. (WorkerStep(o) \/ RunCallback(o)) /\ UNCHANGED <<inFlight, outcome, told>>
    BY <1>2 DEF Work, Callback, queueVars
  <2>3. phase[o] \notin {"idle", "succeeded", "failed"}
    BY <1>0, <2>2, WorkerFacts
  <2>4. o \in Item /\ o \in inFlight /\ \A j \in inFlight : j = o
    BY <1>0, <1>w, <2>1, <2>3, OneAtWork
  <2>5. Working \subseteq {o}
    BY <1>w, <2>1, <2>4 DEF Working
  <2>6. handle # "closed" /\ Own(o)
    BY <1>p, <2>1, <2>4 DEF ClosedInv, OwnInv
  <2>7. Own(o)'
    BY <1>0, <2>2, <2>5, <2>6, OwnStep
  <2>8. ASSUME NEW i \in Item, outcome'[i] = "error", fault'[i] \notin Foreign
        PROVE  told'[i] = Mine(i)'
    <3>1. outcome[i] = "error" /\ phase[i] = "failed" /\ told'[i] = told[i]
      BY <1>0, <2>2, <2>8 DEF OutcomeInv
    <3>2. fault'[i] = fault[i]
      BY <1>0, <1>i, <3>1, StepFacts
    <3>3. QED
      BY <2>1, <2>8, <3>1, <3>2 DEF OwnInv, Mine
  <2>9. \A i \in inFlight' : Own(i)'
    BY <2>2, <2>4, <2>7
  <2>10. QED
    BY <2>8, <2>9 DEF OwnInv
<1>s. ASSUME NEW i \in Item, phase'[i] = phase[i], UNCHANGED <<stmt, fault, dbErr, lastError>>, Own(i)
      PROVE  Own(i)'
  BY <1>s DEF Own, Mine
<1>3. ASSUME NEW i \in Item, Complete(i), ~Abandoned' PROVE OwnInv'
  <2>1. UNCHANGED <<phase, stmt, fault, dbErr, lastError>>
    BY <1>0, <1>3, CompleteFacts DEF dbVars
  <2>2. ~Abandoned /\ Canceled = {}
    BY <1>1, <1>3 DEF Abandoned, Begun
  <2>3. Torn(Writing) = {}
    <3>1. \A o \in Writing : o = i
      BY <1>0, <1>3, <1>w, <2>2, CompleteFacts, OneInFlight DEF Writing
    <3>2. Writing = {}
      BY <1>0, <1>3, <3>1, CompleteFacts DEF Writing
    <3>3. QED
      BY <3>2 DEF Torn
  <2>4. outcome'[i] = "error" /\ fault'[i] \notin Foreign => told'[i] = Mine(i)
    BY <1>0, <1>3, <2>1, <2>2, <2>3, CompleteFacts DEF OwnInv, Own
  <2>5. \A j \in Item : Mine(j)' = Mine(j)
    BY <2>1 DEF Mine
  <2>6. ASSUME NEW j \in inFlight' PROVE Own(j)'
    <3>1. j \in inFlight /\ j \in Item
      BY <1>0, <1>3, <1>p, <2>6, CompleteFacts
    <3>2. Own(j)
      BY <2>2, <3>1 DEF OwnInv
    <3>3. QED
      BY <1>s, <2>1, <3>1, <3>2
  <2>7. ASSUME NEW j \in Item, outcome'[j] = "error", fault'[j] \notin Foreign
        PROVE  told'[j] = Mine(j)'
    BY <1>0, <1>3, <2>1, <2>2, <2>4, <2>5, <2>7, CompleteFacts DEF OwnInv
  <2>8. QED
    BY <2>6, <2>7 DEF OwnInv
<1>5. ASSUME Begin, ~Abandoned' PROVE OwnInv'
  <2>1. Head(items) \in Item
    BY <1>0, <1>5, TailFacts DEF Begin, StartItem, Dequeue, QueueTypeOK
  <2>2. PICK h \in Item :
          Launch(h) /\ inFlight' = inFlight \cup {h} /\ UNCHANGED <<outcome, told>>
    BY <1>5, <2>1 DEF Begin, StartItem
  <2>3. /\ phase'[h] = "prepare" /\ UNCHANGED <<stmt, fault, dbErr, lastError>>
        /\ \A p \in Op \ {h} : phase'[p] = phase[p]
    BY <1>0, <1>i, <2>2 DEF Launch, Goes, DatabaseTypeOK
  <2>4. Own(h)'
    BY <2>3 DEF Own
  <2>5. ASSUME NEW j \in inFlight' PROVE Own(j)'
    <3>1. CASE j = h
      BY <2>4, <3>1
    <3>2. CASE j # h
      <4>1. j \in inFlight /\ j \in Item /\ phase'[j] = phase[j]
        BY <1>i, <1>p, <2>2, <2>3, <2>5, <3>2
      <4>2. QED
        BY <1>1, <1>5, <1>s, <2>3, <4>1 DEF OwnInv
    <3>3. QED
      BY <3>1, <3>2
  <2>6. \A j \in Item : Mine(j)' = Mine(j)
    BY <2>3 DEF Mine
  <2>7. QED
    BY <1>1, <1>5, <2>2, <2>3, <2>5, <2>6 DEF OwnInv
<1>6. ASSUME NEW v \in Vacuum, StartVacuum(v) PROVE Abandoned'
  <2>1. phase'[v] = "prepare"
    BY <1>0, <1>6, CallsAreOps DEF StartVacuum, Launch, Goes, DatabaseTypeOK
  <2>2. QED
    BY <2>1 DEF Abandoned, Begun
<1>7. ASSUME UNCHANGED <<phase, stmt, fault, dbErr, lastError, told>>, inFlight' \subseteq inFlight,
             \A j \in Item : outcome'[j] = "error" => outcome[j] = "error",
             ~Abandoned'
      PROVE  OwnInv'
  <2>1. \A j \in Item : Mine(j)' = Mine(j)
    BY <1>7 DEF Mine
  <2>2. \A j \in inFlight' : Own(j)'
    BY <1>1, <1>7, <1>p, <1>s DEF OwnInv
  <2>3. QED
    BY <1>1, <1>7, <2>1, <2>2 DEF OwnInv
<1>8. ASSUME NEW i \in Item, Call(i) \/ Cancel(i), ~Abandoned' PROVE OwnInv'
  BY <1>0, <1>7, <1>8, CallSteps, CalmSteps
<1>9. ASSUME Close, ~Abandoned' PROVE OwnInv'
  <2>1. inFlight = {}
    BY <1>9, <1>p DEF Close
  <2>2. UNCHANGED <<inFlight, outcome, fault, told>>
    BY <1>9 DEF Close, CloseHandle, queueVars
  <2>3. \A j \in Item : Mine(j)' = Mine(j)
    BY <2>2 DEF Mine
  <2>4. QED
    BY <1>1, <1>9, <2>1, <2>2, <2>3 DEF OwnInv
<1>10. ASSUME Turn \/ Rest \/ UNCHANGED connVars, ~Abandoned' PROVE OwnInv'
  <2>1. UNCHANGED <<phase, inFlight, outcome>>
    BY <1>10, Zenon DEF Turn, ThrowItem, SkipItem, GoIdle, Rest, dbVars, connVars
  <2>2. QED
    BY <1>7, <1>10, <2>1, CalmSteps
<1>11. CASE Abandoned'
  BY <1>11 DEF OwnInv
<1>12. QED
  BY <1>2, <1>3, <1>5, <1>6, <1>8, <1>9, <1>10, <1>11, <1>i DEF ConnectionNext

\* A queued call that reports an SQLite failure tells of its own while no call
\* was cancelled and no vacuum started, and with a vacuum beside the queue of
\* its own, none, a vague one or the vacuum's: saveLastErrorMessage on the
\* thread (Database.cpp:302-312) and lastError on the UI thread
\* (SQLite3.js:152) are far apart, and the queue is all that keeps others out.
THEOREM ConnectionErrorText == ConnectionSpec => []ErrorTextIsOwn
<1>1. ConnectionInit => TextInv /\ OwnInv
  BY DEF ConnectionInit, DatabaseInit, QueueInit, TextInv, OwnInv
<1>2. /\ ResultInv /\ ClosedInv /\ TextInv /\ OwnInv /\ ConnectionTypeOK
      /\ [ConnectionNext]_connVars
      => TextInv' /\ OwnInv'
  BY TextInvStep, OwnInvStep DEF ConnectionTypeOK
<1>3. TextInv /\ OwnInv => ErrorTextIsOwn
  BY DEF TextInv, Texts, OwnInv, Mine, ErrorTextIsOwn
<1>4. QED
  BY <1>1, <1>2, <1>3, ConnectionThreads, ConnectionCloses, ConnectionTypeCorrect, PTL
  DEF ConnectionSpec
-----------------------------------------------------------------------------
\* Only operations in which C++ code of this program may throw pass the catch.
ForeignInv == \A o \in Op : fault[o] \in Foreign => o \in Unsafe

\* The step of a thread shows at most one thing: a row, a change, the count it
\* has read or what a vacuum leaves behind.
LEMMA ShownFacts ==
  ASSUME DatabaseTypeOK, ThreadInv, NEW o \in Op, WorkerStep(o)
  PROVE  /\ delivered' = delivered
         /\ \/ /\ phase[o] = "step" /\ o \notin Writer
               /\ rows' = [rows EXCEPT ![o] = @ + 1]
               /\ UNCHANGED <<lastChange, lastRow, count>>
            \/ /\ o \in Writer \cup Vacuum /\ lastChange' \in {lastChange, o}
               /\ lastRow' \in {lastRow} \cup ({o} \cap (MayInsert \cup Vacuum))
               /\ UNCHANGED <<rows, count>>
            \/ ReadCount(o)
            \/ UNCHANGED <<rows, lastChange, lastRow, count>>
         /\ fault'[o] \in Foreign => fault[o] \in Foreign \/ o \in Unsafe
<1> USE DEF DatabaseTypeOK, Goes, Throws, Caught, Foreign, Kept
<1> DEFINE Goal ==
         /\ delivered' = delivered
         /\ \/ /\ phase[o] = "step" /\ o \notin Writer
               /\ rows' = [rows EXCEPT ![o] = @ + 1]
               /\ UNCHANGED <<lastChange, lastRow, count>>
            \/ /\ o \in Writer \cup Vacuum /\ lastChange' \in {lastChange, o}
               /\ lastRow' \in {lastRow} \cup ({o} \cap (MayInsert \cup Vacuum))
               /\ UNCHANGED <<rows, count>>
            \/ ReadCount(o)
            \/ UNCHANGED <<rows, lastChange, lastRow, count>>
         /\ fault'[o] \in Foreign => fault[o] \in Foreign \/ o \in Unsafe
<1>g. Goal
  <2>1. CASE Prepare(o) \/ PrepareStray(o)
    BY <2>1 DEF Prepare, PrepareStray
  <2>2. CASE Bind(o)
    BY <2>2 DEF Bind
  <2>3. CASE StepRow(o)
    BY <2>3 DEF StepRow, YieldRow
  <2>4. CASE StepDone(o)
    BY <2>4, OpAssumption DEF StepDone
  <2>5. CASE StepFail(o)
    BY <2>5, OpAssumption DEF StepFail
  <2>6. CASE StepThrow(o)
    <3>1. fault'[o] \in Foreign => o \in Unsafe
      BY <2>6 DEF StepThrow, Thrown
    <3>2. QED
      BY <2>6, <3>1, OpAssumption DEF StepThrow
  <2>7. CASE ReadCount(o)
    BY <2>7 DEF ReadCount
  <2>8. CASE Finalize(o)
    BY <2>8 DEF Finalize
  <2>9. CASE CheckError(o) \/ CopyError(o)
    BY <2>9 DEF CheckError, CopyError
  <2>10. QED
    BY <2>1, <2>2, <2>3, <2>4, <2>5, <2>6, <2>7, <2>8, <2>9 DEF WorkerStep
<1> QED BY <1>g

\* What is shown of the counts: those read by a thread of runAsync.
LEMMA CountShown ==
  ASSUME DatabaseTypeOK, ThreadInv, NEW o \in Op, WorkerStep(o) \/ RunCallback(o), Kind[o] = "run"
  PROVE  \/ ReadCount(o)
         \/ /\ phase[o] \in {"finalize", "succeeded"} <=> phase'[o] \in {"finalize", "succeeded"}
            /\ count'[o] = count[o]
<1> USE DEF DatabaseTypeOK, Goes, Throws, Caught
<1> DEFINE Goal ==
         \/ ReadCount(o)
         \/ /\ phase[o] \in {"finalize", "succeeded"} <=> phase'[o] \in {"finalize", "succeeded"}
            /\ count'[o] = count[o]
<1>g. Goal
  <2>1. CASE Prepare(o) \/ PrepareStray(o)
    BY <2>1 DEF Prepare, PrepareStray
  <2>2. CASE Bind(o)
    BY <2>2 DEF Bind
  <2>3. CASE StepRow(o)
    BY <2>3 DEF StepRow, YieldRow
  <2>4. CASE StepDone(o) \/ StepFail(o) \/ StepThrow(o)
    BY <2>4 DEF StepDone, StepFail, StepThrow
  <2>5. CASE Finalize(o)
    BY <2>5 DEF Finalize
  <2>6. CASE CheckError(o) \/ CopyError(o)
    BY <2>6 DEF CheckError, CopyError
  <2>7. CASE RunCallback(o)
    BY <2>7 DEF RunCallback, GiveRow
  <2>8. QED
    BY <2>1, <2>2, <2>3, <2>4, <2>5, <2>6, <2>7 DEF WorkerStep
<1> QED BY <1>g

\* The callback of a row, which the client sees given.
LEMMA GivenFacts ==
  ASSUME DatabaseTypeOK, ThreadInv, NEW o \in Op, RunCallback(o)
  PROVE  /\ Kind[o] = "each" /\ phase[o] = "callback" /\ delivered[o] < rows[o]
         /\ delivered' = [delivered EXCEPT ![o] = @ + 1]
         /\ UNCHANGED <<rows, lastChange, lastRow, count>>
         /\ fault'[o] \in Foreign => fault[o] \in Foreign
<1>1. phase[o] = "callback"
  BY OpAssumption DEF RunCallback, GiveRow, ThreadInv, DatabaseTypeOK
<1>2. QED
  BY <1>1 DEF RunCallback, GiveRow, DatabaseTypeOK, Goes, Throws, Caught, Foreign

\* Each step of the connection keeps track of who may throw past the catch.
LEMMA ForeignInvStep ==
  ASSUME QueueTypeOK, DatabaseTypeOK, ThreadInv, ForeignInv, [ConnectionNext]_connVars
  PROVE  ForeignInv'
<1>1. ASSUME NEW o \in Op, Work(o) \/ (o \in Item /\ Callback(o)) PROVE ForeignInv'
  <2>1. WorkerStep(o) \/ RunCallback(o)
    BY <1>1 DEF Work, Callback
  <2>2. \A p \in Op \ {o} : fault'[p] = fault[p]
    BY <2>1, OthersStand
  <2>3. fault'[o] \in Foreign => o \in Unsafe
    BY <2>1, ShownFacts, GivenFacts DEF ForeignInv
  <2>4. QED
    BY <2>2, <2>3 DEF ForeignInv
<1>2. ASSUME \/ Begin \/ Turn \/ Close \/ Rest
             \/ \E i \in Item : Call(i) \/ Complete(i) \/ Cancel(i)
             \/ \E v \in Vacuum : StartVacuum(v)
             \/ UNCHANGED connVars
      PROVE  fault' = fault
  BY <1>2, Zenon DEF Begin, Launch, Turn, Close, CloseHandle, Rest, Call, Complete, Cancel,
                     StartVacuum, connVars, dbVars
<1>3. QED
  BY <1>1, <1>2, CallsAreOps DEF ConnectionNext, ForeignInv

\* All that the refinement rests on, and that it holds all along.
AloneInv ==
  /\ ResultInv /\ ClosedInv /\ WriterInv /\ TextInv /\ OwnInv /\ ForeignInv
  /\ told \in [Item -> Op \cup {Nobody, Vague}]

LEMMA ConnectionAlone == ConnectionSpec => []AloneInv
<1>1. ConnectionInit => TextInv /\ OwnInv /\ ForeignInv
  BY DEF ConnectionInit, DatabaseInit, QueueInit, TextInv, OwnInv, ForeignInv, Foreign
<1>2. /\ ResultInv /\ ClosedInv /\ ConnectionTypeOK
      /\ TextInv /\ OwnInv /\ ForeignInv
      /\ [ConnectionNext]_connVars
      => TextInv' /\ OwnInv' /\ ForeignInv'
  BY TextInvStep, OwnInvStep, ForeignInvStep
  DEF ConnectionTypeOK, ResultInv
<1>3. ConnectionTypeOK => told \in [Item -> Op \cup {Nobody, Vague}]
  BY DEF ConnectionTypeOK
<1>4. QED
  BY <1>1, <1>2, <1>3, ConnectionThreads, ConnectionCloses, ConnectionWriters,
     ConnectionTypeCorrect, PTL
  DEF ConnectionSpec, AloneInv

-----------------------------------------------------------------------------
\* What is shown of the counts and texts of the calls.
Returned == [i \in Item |-> IF Kind[i] = "run" /\ phase[i] \in {"finalize", "succeeded"}
                           THEN count[i] ELSE Vague]
Told == [i \in Item |-> IF outcome[i] = "error" THEN told[i] ELSE Nobody]

\* An operation that begins shows nothing.
LEMMA LaunchShown ==
  ASSUME DatabaseTypeOK, NEW o \in Op, Launch(o)
  PROVE  Returned' = Returned /\ UNCHANGED <<lastChange, lastRow, rows, delivered>>
<1>1. \A i \in Item : /\ phase'[i] \in {"finalize", "succeeded"}
                            <=> phase[i] \in {"finalize", "succeeded"}
                       /\ count'[i] = count[i]
  BY CallsAreOps DEF Launch, Goes, DatabaseTypeOK
<1>2. QED
  BY <1>1 DEF Returned, Launch

\* The turns of the queue take a call from its line when none is under way, or
\* show nothing.
LEMMA AloneTurn ==
  ASSUME AloneInv, Canceled = {}, Begin \/ Turn
  PROVE  \/ Alone!QueueMoves
         \/ UNCHANGED <<Alone!vars, Alone!results>>
<1>0. QueueInv /\ QueueTypeOK /\ DatabaseTypeOK /\ Placed
  BY DEF AloneInv, ResultInv, QueueInv
<1>1. CASE Begin
  <2>1. inFlight = {}
    <3>1. /\ IsFiniteSet(inFlight) /\ Cardinality(inFlight) \in Nat
          /\ Cardinality(inFlight) + immediates <= 1
          /\ immediates \in Nat /\ immediates > 0
      BY <1>0, <1>1, CountingFacts, FS_EmptySet
      DEF QueueInv, QueueTypeOK, Counted, Begin, StartItem, Dequeue
    <3>2. Cardinality(inFlight) = 0
      BY <3>1
    <3>3. QED
      BY <3>1, <3>2, FS_EmptySet
  <2>2. outcome[Head(items)] = "pending"
    BY <1>0, <1>1, DequeueFacts DEF Begin, StartItem
  <2>3. Alone!Cardinality({}) = 0
    <3>1. Alone!Cardinality({}) = Cardinality({})
      BY DEF Alone!Cardinality, Cardinality
    <3>2. QED
      BY <3>1, FS_EmptySet
  <2>4. Alone!Begin
    BY <1>1, <2>1, <2>2, <2>3 DEF Begin, StartItem, Dequeue, Alone!Begin
  <2>5. UNCHANGED <<outcome, told>> /\ Launch(Head(items)) /\ Head(items) \in Op
    BY <1>0, <1>1, TailFacts, CallsAreOps DEF Begin, StartItem, Dequeue, QueueTypeOK
  <2>6. UNCHANGED Alone!results
    BY <1>0, <2>5, LaunchShown DEF Alone!results, Returned
  <2>7. QED
    BY <2>4, <2>6 DEF Alone!QueueMoves
<1>2. CASE Turn
  <2>1. UNCHANGED <<outcome, inFlight, phase, lastChange, lastRow, rows, delivered, count, told>>
    BY <1>2 DEF Turn, ThrowItem, SkipItem, GoIdle, dbVars
  <2>2. UNCHANGED Alone!results
    BY <2>1 DEF Alone!results
  <2>3. CASE ThrowItem
    <3>1. outcome[Head(items)] = "pending"
      BY <1>0, <2>3, DequeueFacts DEF ThrowItem
    <3>2. Alone!Lose
      BY <2>3, <3>1 DEF ThrowItem, Dequeue, Alone!Lose
    <3>3. QED
      BY <2>2, <3>2 DEF Alone!QueueMoves
  <2>4. ~SkipItem
    BY <1>0 DEF SkipItem, Placed
  <2>5. CASE GoIdle
    BY <2>1, <2>2, <2>5 DEF GoIdle, Alone!vars
  <2>6. QED
    BY <1>2, <2>3, <2>4, <2>5 DEF Turn
<1>3. QED
  BY <1>1, <1>2

\* The step of a thread finds a row, makes the call's change, reads its count,
\* shows what a vacuum leaves behind, or shows nothing; the callback of a row
\* gives it.
LEMMA AloneWork ==
  ASSUME AloneInv, Canceled = {}, NEW o \in Op, Work(o) \/ (o \in Item /\ Callback(o))
  PROVE  \/ o \in Item /\ (Alone!Find(o) \/ Alone!Give(o) \/ Alone!Change(o) \/ Alone!Count(o))
         \/ Alone!Disturb
         \/ UNCHANGED <<Alone!vars, Alone!results>>
<1>0. QueueInv /\ QueueTypeOK /\ DatabaseTypeOK /\ ThreadInv /\ RunsForCall /\ OutcomeInv
  BY DEF AloneInv, ResultInv, QueueInv
<1>1. (WorkerStep(o) \/ RunCallback(o)) /\ UNCHANGED <<items, inFlight, outcome, told>>
  BY DEF Work, Callback, queueVars
<1>2. phase[o] \notin {"idle", "succeeded", "failed"}
  BY <1>0, <1>1, WorkerFacts
<1>3. o \in Item => o \in inFlight
  BY <1>0, <1>2, WorkingPending
<1>i. Item \subseteq Op
  BY CallsAreOps
<1>4. Told' = Told
  BY <1>1 DEF Told
<1>r. o \notin Item \/ ~ReadCount(o) => Returned' = Returned
  <2> SUFFICES ASSUME o \notin Item \/ ~ReadCount(o), NEW i \in Item, Kind[i] = "run"
               PROVE  /\ phase'[i] \in {"finalize", "succeeded"}
                           <=> phase[i] \in {"finalize", "succeeded"}
                      /\ count'[i] = count[i]
    BY DEF Returned
  <2>1. CASE i = o
    BY <1>0, <1>1, <2>1, CountShown
  <2>2. CASE i # o
    BY <1>0, <1>1, <1>i, <2>2, OthersStand
  <2>3. QED
    BY <2>1, <2>2
<1>5. UNCHANGED <<Alone!vars>> /\ [i \in Item |-> rows[i]] \in [Item -> Nat]
      /\ [i \in Item |-> delivered[i]] \in [Item -> Nat]
  BY <1>0, <1>1, <1>i, OpAssumption DEF Alone!vars, DatabaseTypeOK
<1>d. WorkerStep(o) => delivered' = delivered
  BY <1>0, ShownFacts
<1>6. CASE WorkerStep(o) /\ ~ReadCount(o) /\ UNCHANGED <<rows, lastChange, lastRow>>
  BY <1>4, <1>5, <1>6, <1>d, <1>r DEF Alone!results, Returned, Told
<1>7. CASE WorkerStep(o) /\ ~ReadCount(o) /\ phase[o] = "step" /\ o \notin Writer
           /\ UNCHANGED <<lastChange, lastRow>> /\ rows' = [rows EXCEPT ![o] = @ + 1]
  <2>1. CASE o \in Item
    <3>1. Kind[o] = "each" => delivered[o] = rows[o]
      BY <1>0, <1>7, OpAssumption DEF ThreadInv, DatabaseTypeOK
    <3>2. [i \in Item |-> rows'[i]] = [[i \in Item |-> rows[i]] EXCEPT ![o] = @ + 1]
      BY <1>0, <1>7, <1>i, <2>1 DEF DatabaseTypeOK
    <3>3. QED
      BY <1>3, <1>4, <1>5, <1>7, <1>d, <1>r, <2>1, <3>1, <3>2 DEF Alone!Find, Returned, Told
  <2>2. CASE o \notin Item
    <3>1. [i \in Item |-> rows'[i]] = [i \in Item |-> rows[i]]
      BY <1>0, <1>7, <1>i, <2>2 DEF DatabaseTypeOK
    <3>2. QED
      BY <1>4, <1>5, <1>7, <1>d, <1>r, <3>1 DEF Alone!results, Returned, Told
  <2>3. QED
    BY <2>1, <2>2
<1>8. CASE WorkerStep(o) /\ ~ReadCount(o) /\ o \in Writer \cup Vacuum
           /\ lastChange' \in {lastChange, o}
           /\ lastRow' \in {lastRow} \cup ({o} \cap (MayInsert \cup Vacuum)) /\ rows' = rows
  <2>1. CASE o \in Writer
    <3>1. o \in Item /\ o \notin Vacuum
      BY <2>1, WritersQueued, CallsAreOps
    <3>2. QED
      BY <1>3, <1>4, <1>5, <1>8, <1>d, <1>r, <2>1, <3>1 DEF Alone!Change, Returned, Told
  <2>2. CASE o \in Vacuum
    BY <1>4, <1>5, <1>8, <1>d, <1>r, <2>2 DEF Alone!Disturb, Returned, Told
  <2>3. QED
    BY <1>8, <2>1, <2>2
<1>9. CASE RunCallback(o)
  <2>1. o \in Item
    BY <1>0, <1>9, GivenFacts, OpAssumption, CallsAreOps
  <2>2. /\ Kind[o] = "each" /\ delivered[o] < rows[o] /\ ~ReadCount(o)
        /\ delivered' = [delivered EXCEPT ![o] = @ + 1]
        /\ UNCHANGED <<rows, lastChange, lastRow>>
    BY <1>0, <1>9, GivenFacts DEF ReadCount
  <2>3. [i \in Item |-> delivered'[i]] = [[i \in Item |-> delivered[i]] EXCEPT ![o] = @ + 1]
    BY <1>0, <1>i, <2>1, <2>2 DEF DatabaseTypeOK
  <2>4. QED
    BY <1>3, <1>4, <1>5, <1>r, <2>1, <2>2, <2>3 DEF Alone!Give, Returned, Told
<1>10. CASE ReadCount(o)
  <2>1. UNCHANGED <<rows, delivered, lastChange, lastRow>>
    BY <1>10 DEF ReadCount
  <2>2. CASE o \notin Item
    BY <1>4, <1>5, <1>r, <2>1, <2>2 DEF Alone!results, Returned, Told
  <2>3. CASE o \in Item
    <3>1. PICK n \in {lastChange} \cup Vacuum : count' = [count EXCEPT ![o] = n]
      BY <1>10, CopyingAreOps DEF ReadCount
    <3>2. phase' = [phase EXCEPT ![o] = "finalize"] /\ phase[o] = "count" /\ Kind[o] = "run"
      BY <1>0, <1>10 DEF ReadCount, Goes, ThreadInv
    <3>3. Returned' = [Returned EXCEPT ![o] = n]
      BY <1>0, <1>i, <2>3, <3>1, <3>2 DEF Returned, DatabaseTypeOK
    <3>4. Alone!Count(o)
      BY <1>3, <1>4, <1>5, <2>1, <2>3, <3>2, <3>3 DEF Alone!Count, Returned, Told
    <3>5. QED
      BY <2>3, <3>4
  <2>4. QED
    BY <2>2, <2>3
<1>11. QED
  BY <1>0, <1>1, <1>6, <1>7, <1>8, <1>9, <1>10, ShownFacts

\* The completion of a call is its answer.
LEMMA AloneAnswer ==
  ASSUME AloneInv, AloneInv', Canceled = {}, Canceled' = {}, NEW i \in Item, Complete(i)
  PROVE  Alone!Succeed(i) \/ Alone!Fail(i)
<1>0. QueueInv /\ QueueTypeOK /\ DatabaseTypeOK /\ ThreadInv /\ OutcomeInv
  BY DEF AloneInv, ResultInv, QueueInv
<1>1. /\ UNCHANGED dbVars /\ i \in inFlight
      /\ items' = items /\ inFlight' = inFlight \ {i}
      /\ outcome \in [Item -> Outcome] /\ told \in [Item -> Op \cup {Nobody, Vague}]
      /\ outcome[i] = "pending"
  BY <1>0 DEF Complete, FinishItem, Settle, QueueInv, QueueTypeOK, Placed, AloneInv
<1>2. UNCHANGED <<lastChange, lastRow, rows, delivered, count, phase, fault>> /\ Returned' = Returned
  BY <1>1 DEF dbVars, Returned
<1>3. CASE phase[i] = "succeeded" /\ FinishItem(i, "complete") /\ UNCHANGED told
  <2>1. outcome' = [outcome EXCEPT ![i] = "complete"]
    BY <1>3 DEF FinishItem, Settle
  <2>2. Alone!End(i)
    BY <1>1, <2>1 DEF Alone!End
  <2>3. i \in Writer => /\ lastChange \in {i} \cup Vacuum
                        /\ i \in Inserts => lastRow \in {i} \cup Vacuum
                        /\ Kind[i] = "run" => count[i] \in {i} \cup Vacuum
    BY <1>1, <1>3 DEF AloneInv, WriterInv, Begun
  <2>4. Kind[i] = "each" => delivered[i] = rows[i]
    BY <1>0, <1>3, CallsAreOps, OpAssumption DEF ThreadInv, DatabaseTypeOK
  <2>5. Kind[i] = "run" => Returned[i] = count[i] /\ count[i] # Vague
    BY <1>0, <1>3, CallsAreOps, OpAssumption DEF Returned, DatabaseTypeOK
  <2>6. Inserts \subseteq Writer
    BY OpAssumption
  <2>7. Told' = Told
    BY <1>1, <1>3, <2>1 DEF Told
  <2>8. outcome'[i] = "complete"
    BY <1>1, <2>1
  <2>9. QED
    BY <1>2, <2>2, <2>3, <2>4, <2>5, <2>6, <2>7, <2>8
    DEF Alone!Succeed, Alone!results, Returned, Told
<1>4. CASE phase[i] = "failed" /\ FinishItem(i, "error")
  <2>1. outcome' = [outcome EXCEPT ![i] = "error"] /\ outcome'[i] = "error"
    BY <1>1, <1>4 DEF FinishItem, Settle
  <2>2. Alone!End(i)
    BY <1>1, <2>1 DEF Alone!End
  <2>3. told'[i] \in MayBeTold(i)
    <3>1. CASE i \in Unsafe
      BY <3>1 DEF AloneInv, MayBeTold
    <3>2. CASE i \notin Unsafe
      <4>1. fault'[i] \notin Foreign
        BY <3>2, CallsAreOps DEF AloneInv, ForeignInv
      <4>2. CASE Vacuum = {}
        <5>1. ~Abandoned'
          BY <4>2 DEF Abandoned, Begun
        <5>2. told'[i] = Mine(i)'
          BY <2>1, <4>1, <5>1 DEF AloneInv, OwnInv
        <5>3. QED
          BY <3>2, <5>2 DEF Mine, MayBeTold
      <4>3. CASE Vacuum # {}
        <5>1. told'[i] \in Texts(i)
          BY <2>1, <4>1 DEF AloneInv, TextInv, Texts
        <5>2. QED
          BY <3>2, <4>3, <5>1 DEF Texts, MayBeTold
      <4>4. QED
        BY <4>2, <4>3
    <3>3. QED
      BY <3>1, <3>2
  <2>4. \A j \in Item \ {i} : outcome'[j] = outcome[j] /\ told'[j] = told[j]
    BY <1>0, <1>1, CompleteFacts
  <2>5. Told' = [Told EXCEPT ![i] = told'[i]]
    BY <1>1, <2>1, <2>4 DEF Told
  <2>6. QED
    BY <1>2, <2>1, <2>2, <2>3, <2>5 DEF Alone!Fail, Returned, Told
<1>5. QED
  BY <1>3, <1>4 DEF Complete

\* Every step of the connection, taken while nothing is cancelled, is a step
\* of a database that executes one call at a time, or shows nothing.
LEMMA AloneStep ==
  ASSUME AloneInv, AloneInv', Canceled = {}, Canceled' = {}, [ConnectionNext]_connVars
  PROVE  [Alone!SerialNext]_<<Alone!vars, Alone!results>>
<1>0. QueueTypeOK
  BY DEF AloneInv, ResultInv, QueueInv
<1>1. ASSUME NEW i \in Item, Call(i) PROVE Alone!QueueMoves
  <2>1. Alone!Accept(i)
    BY <1>1 DEF Call, AppendItem, Join, Alone!Accept
  <2>2. /\ UNCHANGED <<phase, lastChange, lastRow, rows, delivered, count, told>>
        /\ outcome[i] = "unissued" /\ outcome' = [outcome EXCEPT ![i] = "pending"]
    BY <1>1 DEF Call, AppendItem, Join, dbVars
  <2>3. Returned' = Returned /\ Told' = Told
    BY <1>0, <2>2 DEF Returned, Told, QueueTypeOK
  <2>4. UNCHANGED Alone!results
    BY <2>2, <2>3 DEF Alone!results, Returned, Told
  <2>5. QED
    BY <2>1, <2>4 DEF Alone!QueueMoves
<1>2. ASSUME NEW i \in Item, Cancel(i) PROVE FALSE
  BY <1>0, <1>2
  DEF Cancel, CancelInFlight, CancelQueued, CancelWaiting, Settle, Canceled, QueueTypeOK
<1>3. ASSUME Close \/ Rest \/ UNCHANGED connVars
      PROVE  UNCHANGED <<Alone!vars, Alone!results>>
  <2>1. UNCHANGED <<items, inFlight, outcome, phase, lastChange, lastRow, rows, delivered, count, told>>
    BY <1>3, Zenon DEF Close, CloseHandle, Rest, connVars, queueVars
  <2>2. QED
    BY <2>1 DEF Alone!vars, Alone!results
<1>v. ASSUME NEW v \in Vacuum, StartVacuum(v)
      PROVE  UNCHANGED <<Alone!vars, Alone!results>>
  <2>1. UNCHANGED <<items, inFlight, outcome, told>> /\ v \in Op /\ Launch(v)
    BY <1>v, CallsAreOps DEF StartVacuum, queueVars
  <2>2. DatabaseTypeOK
    BY DEF AloneInv, ResultInv
  <2>3. QED
    BY <2>1, <2>2, LaunchShown DEF Alone!vars, Alone!results, Returned
<1>4. QED
  BY <1>1, <1>2, <1>3, <1>v, AloneTurn, AloneWork, AloneAnswer, CallsAreOps
  DEF ConnectionNext, Alone!SerialNext

\* As long as nothing is cancelled, the queue in front of the threads makes of
\* them a database that executes one call at a time: no client can tell from
\* the order of its calls, from rows, counts, row ids or error texts that there
\* is a pool of threads.  A vacuum beside the queue can show in error texts, in
\* the counts of runAsync and in the row id, which are read without the mutex
\* or after it was given up, but in no row, outcome or order of calls.
THEOREM ConnectionAnswersAsIfAlone ==
  ConnectionSpec /\ [](Canceled = {}) => AnswersAsIfAlone
<1>1. ConnectionInit => Alone!SerialInit
  <2>1. ConnectionInit => Alone!Init
    BY DEF ConnectionInit, QueueInit, Alone!Init
  <2>2. QED
    BY <2>1, CallsAreOps DEF ConnectionInit, QueueInit, DatabaseInit, Alone!SerialInit
<1>2. /\ AloneInv /\ AloneInv' /\ Canceled = {} /\ (Canceled = {})'
      /\ [ConnectionNext]_connVars
      => [Alone!SerialNext]_<<Alone!vars, Alone!results>>
  BY AloneStep
<1>3. QED
  BY <1>1, <1>2, ConnectionAlone, PTL DEF ConnectionSpec, AnswersAsIfAlone, Alone!SerialSpec

\* So it is for every client whose calls cannot be cancelled, with the same
\* exception: where it starts vacuums, texts, counts and row ids may be theirs.
THEOREM ConnectionSerialForPatient ==
  ASSUME Cancellable = {}
  PROVE  ConnectionSpec => AnswersAsIfAlone
<1>1. QueueInv => Canceled = {}
  BY DEF QueueInv, Placed
<1>2. QED
  BY <1>1, ConnectionUsesQueue, QueueInvariant, ConnectionAnswersAsIfAlone, PTL
=============================================================================
