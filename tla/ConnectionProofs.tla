-------------------------- MODULE ConnectionProofs --------------------------
(***************************************************************************)
(* Theorems about Connection.  Its steps are steps of the promise queue,   *)
(* so what is proved of the queue holds of it; with what is added about    *)
(* the threads of the pool it follows that native operations do not run    *)
(* side by side unless a call was cancelled or a vacuum started.           *)
(***************************************************************************)
EXTENDS Connection, PromiseQueueProofs

\* Every step of the connection is a step of the queue, or leaves it alone.
LEMMA ConnectionQueueStep ==
  ASSUME [ConnectionNext]_connVars
  PROVE  [QueueNext]_queueVars
<1>1. ASSUME NEW i \in Item, Call(i) PROVE QueueNext
  BY <1>1 DEF Call, QueueNext
<1>2. CASE Begin
  BY <1>2 DEF Begin, QueueNext
<1>3. CASE Turn
  BY <1>3 DEF Turn, QueueNext
<1>4. ASSUME NEW i \in Item, Complete(i) PROVE QueueNext
  BY <1>4 DEF Complete, QueueNext
<1>5. ASSUME NEW i \in Item, Cancel(i) PROVE QueueNext
  BY <1>5 DEF Cancel, QueueNext
<1>6. ASSUME \/ Close \/ Rest
             \/ \E i \in Item : Callback(i)
             \/ \E v \in Vacuum : StartVacuum(v)
             \/ \E o \in Op : Work(o)
             \/ UNCHANGED connVars
      PROVE  UNCHANGED queueVars
  BY <1>6, Zenon DEF Close, Rest, Callback, StartVacuum, Work, connVars, queueVars
<1>7. QED
  BY <1>1, <1>2, <1>3, <1>4, <1>5, <1>6 DEF ConnectionNext

\* The connection uses its queue as the queue's specification says: whatever
\* the native operations do, the queue behaves like a promise queue.
THEOREM ConnectionUsesQueue == ConnectionSpec => QueueSpec
<1>1. ConnectionInit => QueueInit
  BY Zenon DEF ConnectionInit
<1>2. [ConnectionNext]_connVars => [QueueNext]_queueVars
  BY ConnectionQueueStep
<1>3. QED
  BY <1>1, <1>2, PTL DEF ConnectionSpec, QueueSpec

-----------------------------------------------------------------------------
\* The native state keeps its types.
LEMMA DatabaseTypeInit == DatabaseInit => DatabaseTypeOK
  BY OpAssumption DEF DatabaseInit, DatabaseTypeOK, Phase

\* The vacuums that may be copying are operations that have begun.
LEMMA CopyingAreOps == Copying \subseteq Vacuum /\ Copying \subseteq Op
  BY OpAssumption DEF Copying

\* The step of one operation's thread.
LEMMA WorkerTypeStep ==
  ASSUME DatabaseTypeOK, NEW o \in Op, WorkerStep(o)
  PROVE  DatabaseTypeOK'
<1> USE DEF DatabaseTypeOK, Phase, Foreign, Kept, Goes, Throws, Caught
<1>1. CASE Prepare(o)
  BY <1>1 DEF Prepare
<1>2. CASE PrepareStray(o)
  BY <1>2 DEF PrepareStray
<1>3. CASE Bind(o)
  BY <1>3 DEF Bind
<1>4. CASE StepRow(o)
  <2>1. rows' \in [Op -> 0..MaxRows]
    BY <1>4, OpAssumption DEF StepRow, YieldRow
  <2>2. phase' \in [Op -> Phase]
    BY <1>4, OpAssumption DEF StepRow, YieldRow
  <2>3. dbErr' \in Op \cup {Nobody, Vague}
    BY <1>4 DEF StepRow, YieldRow, ErrorText
  <2>4. QED
    BY <1>4, <2>1, <2>2, <2>3 DEF StepRow, YieldRow
<1>5. CASE StepDone(o)
  <2>1. dbErr' \in Op \cup {Nobody, Vague}
    BY <1>5 DEF StepDone, ErrorText
  <2>2. lastChange' \in Op \cup {Nobody} /\ lastRow' \in Op \cup {Nobody}
    BY <1>5 DEF StepDone
  <2>3. QED
    BY <1>5, <2>1, <2>2 DEF StepDone
<1>6. CASE StepFail(o)
  <2>1. dbErr' \in Op \cup {Nobody, Vague}
    BY <1>6 DEF StepFail, ErrorText
  <2>2. lastChange' \in Op \cup {Nobody} /\ lastRow' \in Op \cup {Nobody}
    BY <1>6 DEF StepFail
  <2>3. QED
    BY <1>6, <2>1, <2>2 DEF StepFail
<1>7. CASE ReadCount(o)
  BY <1>7, CopyingAreOps DEF ReadCount
<1>8. CASE Finalize(o)
  <2>1. dbErr' \in Op \cup {Nobody, Vague}
    BY <1>8 DEF Finalize
  <2>2. QED
    BY <1>8, <2>1 DEF Finalize
<1>9. CASE CheckError(o)
  BY <1>9 DEF CheckError, Strays, Torn
<1>10. CASE CopyError(o)
  BY <1>10 DEF CopyError, Strays, Torn, ErrorText
<1>11. CASE StepThrow(o)
  <2>1. locked' \subseteq Op
    BY <1>11 DEF StepThrow
  <2>2. lastChange' \in Op \cup {Nobody} /\ lastRow' \in Op \cup {Nobody}
    BY <1>11 DEF StepThrow
  <2>3. QED
    BY <1>11, <2>1, <2>2 DEF StepThrow, Thrown
<1>12. QED
  BY <1>1, <1>2, <1>3, <1>4, <1>5, <1>6, <1>7, <1>8, <1>9, <1>10, <1>11 DEF WorkerStep

\* Any step of the connection.
LEMMA DatabaseTypeStep ==
  ASSUME QueueTypeOK, DatabaseTypeOK, [ConnectionNext]_connVars
  PROVE  DatabaseTypeOK'
<1>1. ASSUME NEW o \in Op, Launch(o) PROVE DatabaseTypeOK'
  BY <1>1 DEF Launch, Goes, DatabaseTypeOK, Phase
<1>2. CASE Begin
  <2>1. Head(items) \in Op
    BY <1>2, TailFacts, CallsAreOps DEF Begin, StartItem, Dequeue, QueueTypeOK
  <2>2. QED
    BY <1>1, <1>2, <2>1 DEF Begin
<1>3. ASSUME NEW v \in Vacuum, StartVacuum(v) PROVE DatabaseTypeOK'
  BY <1>1, <1>3, CallsAreOps DEF StartVacuum
<1>4. ASSUME NEW o \in Op, Work(o) PROVE DatabaseTypeOK'
  BY <1>4, WorkerTypeStep DEF Work
<1>5. ASSUME NEW i \in Item, Callback(i) PROVE DatabaseTypeOK'
  <2>1. delivered' \in [Op -> 0..MaxRows]
    BY <1>5, CallsAreOps, OpAssumption DEF Callback, RunCallback, GiveRow, DatabaseTypeOK
  <2>2. QED
    BY <1>5, <2>1, CallsAreOps
    DEF Callback, RunCallback, GiveRow, Goes, Throws, Caught, DatabaseTypeOK, Phase,
        Foreign, Kept
<1>6. CASE Close
  BY <1>6 DEF Close, CloseHandle, DatabaseTypeOK
<1>7. ASSUME \/ Turn \/ Rest
             \/ \E i \in Item : Call(i) \/ Complete(i) \/ Cancel(i)
             \/ UNCHANGED connVars
      PROVE  UNCHANGED dbVars
  BY <1>7, Zenon DEF Turn, Rest, Call, Complete, Cancel, connVars, dbVars
<1>8. CASE UNCHANGED dbVars
  BY <1>8 DEF dbVars, DatabaseTypeOK
<1>9. QED
  BY <1>2, <1>3, <1>4, <1>5, <1>6, <1>7, <1>8 DEF ConnectionNext

\* Type correctness of the connection: of its queue, of its native state and of
\* what its callers were told.
THEOREM ConnectionTypeCorrect == ConnectionSpec => []ConnectionTypeOK
<1>1. ConnectionInit => DatabaseTypeOK /\ told \in [Item -> Op \cup {Nobody, Vague}]
  BY DatabaseTypeInit DEF ConnectionInit
<1>2. ASSUME DatabaseTypeOK, told \in [Item -> Op \cup {Nobody, Vague}],
             [ConnectionNext]_connVars
      PROVE  told' \in [Item -> Op \cup {Nobody, Vague}]
  <2>1. ASSUME NEW i \in Item, Complete(i)
        PROVE  told' \in [Item -> Op \cup {Nobody, Vague}]
    BY <1>2, <2>1 DEF Complete, Torn, DatabaseTypeOK
  <2>2. ASSUME \/ Begin \/ Turn \/ Close \/ Rest
               \/ \E i \in Item : Call(i) \/ Cancel(i) \/ Callback(i)
               \/ \E v \in Vacuum : StartVacuum(v)
               \/ \E o \in Op : Work(o)
               \/ UNCHANGED connVars
        PROVE  told' = told
    BY <2>2, Zenon DEF Begin, Turn, Close, Rest, Call, Cancel, Callback, StartVacuum,
                       Work, connVars
  <2>3. QED
    BY <1>2, <2>1, <2>2 DEF ConnectionNext
<1>3. /\ QueueTypeOK /\ DatabaseTypeOK /\ told \in [Item -> Op \cup {Nobody, Vague}]
      /\ [ConnectionNext]_connVars
      => DatabaseTypeOK' /\ (told \in [Item -> Op \cup {Nobody, Vague}])'
  BY <1>2, DatabaseTypeStep
<1>4. ConnectionSpec => []QueueTypeOK
  BY ConnectionUsesQueue, QueueTypeCorrect
<1>5. QED
  BY <1>1, <1>3, <1>4, PTL DEF ConnectionSpec, ConnectionTypeOK

-----------------------------------------------------------------------------
\* The thread of a queued call that is at work stands for a call in flight, or
\* for one whose promise was cancelled.
RunsForCall ==
  \A i \in Item : i \in Working => i \in inFlight \/ outcome[i] = "canceled"

\* A thread of the pool moves only itself, and only while it is at work.
LEMMA WorkerMoves ==
  ASSUME DatabaseTypeOK, NEW o \in Op, WorkerStep(o) \/ RunCallback(o)
  PROVE  Working' \subseteq Working
<1> USE DEF DatabaseTypeOK, Goes, Throws, Caught, Working
<1>1. CASE Prepare(o) \/ PrepareStray(o)
  BY <1>1 DEF Prepare, PrepareStray
<1>2. CASE Bind(o)
  BY <1>2 DEF Bind
<1>3. CASE StepRow(o)
  BY <1>3 DEF StepRow, YieldRow
<1>4. CASE StepDone(o) \/ StepFail(o) \/ StepThrow(o)
  BY <1>4 DEF StepDone, StepFail, StepThrow
<1>5. CASE ReadCount(o) \/ Finalize(o)
  BY <1>5 DEF ReadCount, Finalize
<1>6. CASE CheckError(o) \/ CopyError(o)
  BY <1>6 DEF CheckError, CopyError
<1>7. CASE RunCallback(o)
  BY <1>7 DEF RunCallback, GiveRow
<1>8. QED
  BY <1>1, <1>2, <1>3, <1>4, <1>5, <1>6, <1>7 DEF WorkerStep

\* Every step keeps the threads of queued calls in step with the queue.
LEMMA RunsForCallStep ==
  ASSUME QueueInv, DatabaseTypeOK, RunsForCall, [ConnectionNext]_connVars
  PROVE  RunsForCall'
<1> USE DEF RunsForCall, QueueTypeOK, DatabaseTypeOK
<1>0. QueueTypeOK /\ Placed
  BY DEF QueueInv
<1>1. ASSUME NEW i \in Item, Call(i) PROVE RunsForCall'
  BY <1>0, <1>1 DEF Call, AppendItem, Join, Wake, dbVars, Working
<1>2. CASE Begin
  <2>1. Head(items) \in Item /\ Head(items) \in Op
    BY <1>0, <1>2, TailFacts, CallsAreOps DEF Begin, StartItem, Dequeue
  <2>2. inFlight' = inFlight \cup {Head(items)} /\ outcome' = outcome
    BY <1>2 DEF Begin, StartItem
  <2>3. Working' \subseteq Working \cup {Head(items)}
    BY <1>2, <2>1 DEF Begin, Launch, Goes, Working
  <2>4. QED
    BY <2>2, <2>3
<1>3. ASSUME NEW i \in Item, Complete(i) PROVE RunsForCall'
  <2>1. i \notin Working /\ Working' = Working
    BY <1>3 DEF Complete, dbVars, Working
  <2>2. inFlight' = inFlight \ {i} /\ \A j \in Item \ {i} : outcome'[j] = outcome[j]
    BY <1>0, <1>3 DEF Complete, FinishItem, Settle
  <2>3. QED
    BY <2>1, <2>2
<1>4. ASSUME NEW i \in Item, Cancel(i) PROVE RunsForCall'
  <2>1. Working' = Working
    BY <1>4 DEF Cancel, dbVars, Working
  <2>2. /\ inFlight \ {i} \subseteq inFlight'
        /\ outcome' = [outcome EXCEPT ![i] = "canceled"]
    BY <1>4 DEF Cancel, CancelInFlight, Settle, CancelQueued, CancelWaiting, Settle
  <2>3. QED
    BY <1>0, <2>1, <2>2
<1>5. ASSUME NEW v \in Vacuum, StartVacuum(v) PROVE RunsForCall'
  <2>1. v \notin Item /\ v \in Op
    BY CallsAreOps
  <2>2. Working' \subseteq Working \cup {v}
    BY <1>5, <2>1 DEF StartVacuum, Launch, Goes, Working
  <2>3. UNCHANGED <<inFlight, outcome>>
    BY <1>5 DEF StartVacuum, queueVars
  <2>4. QED
    BY <2>1, <2>2, <2>3
<1>6. ASSUME NEW o \in Op, Work(o) \/ (o \in Item /\ Callback(o)) PROVE RunsForCall'
  <2>1. Working' \subseteq Working
    BY <1>6, WorkerMoves DEF Work, Callback
  <2>2. UNCHANGED <<inFlight, outcome>>
    BY <1>6 DEF Work, Callback, queueVars
  <2>3. QED
    BY <2>1, <2>2
<1>7. CASE Turn \/ Close \/ Rest \/ UNCHANGED connVars
  <2>1. UNCHANGED <<phase, inFlight, outcome>>
    BY <1>7, Zenon DEF Turn, ThrowItem, SkipItem, GoIdle, Close, CloseHandle, Rest,
                       dbVars, queueVars, connVars
  <2>2. QED
    BY <2>1 DEF Working
<1>8. QED
  BY <1>1, <1>2, <1>3, <1>4, <1>5, <1>6, <1>7, CallsAreOps DEF ConnectionNext

\* The queue, the native state and the threads behind the calls in flight, all
\* along: what every further invariant of the connection rests on.
THEOREM ConnectionBase == ConnectionSpec => [](QueueInv /\ DatabaseTypeOK /\ RunsForCall)
<1>1. ConnectionInit => RunsForCall
  BY CallsAreOps DEF ConnectionInit, DatabaseInit, RunsForCall, Working
<1>2. QueueInv /\ DatabaseTypeOK /\ RunsForCall /\ [ConnectionNext]_connVars => RunsForCall'
  BY RunsForCallStep
<1>3. ConnectionSpec => []QueueInv
  BY ConnectionUsesQueue, QueueInvariant
<1>4. ConnectionSpec => []DatabaseTypeOK
  <2>1. ConnectionTypeOK => DatabaseTypeOK
    BY DEF ConnectionTypeOK
  <2>2. QED
    BY <2>1, ConnectionTypeCorrect, PTL
<1>5. QED
  BY <1>1, <1>2, <1>3, <1>4, PTL DEF ConnectionSpec

\* For a client that has neither cancelled a call nor started a vacuum, no two
\* native operations of a database run side by side: the queue bounds the
\* calls in flight, and nothing runs that no call in flight stands for.
THEOREM ConnectionNoOverlap == ConnectionSpec => []NoOverlap
<1>1. QueueInv /\ RunsForCall => NoOverlap
  <2> SUFFICES ASSUME QueueInv, RunsForCall, ~Abandoned
               PROVE  Cardinality(Working) <= 1
    BY DEF NoOverlap
  <2>1. Working \subseteq inFlight
    BY CallsAreOps DEF Abandoned, Begun, RunsForCall, Working, Canceled
  <2>2. IsFiniteSet(inFlight) /\ Cardinality(inFlight) \in Nat /\ immediates \in Nat
    BY CountingFacts DEF QueueInv, QueueTypeOK
  <2>3. Canceled = {}
    BY DEF Abandoned
  <2>4. Cardinality(inFlight) + immediates <= 1
    BY <2>3, FS_EmptySet DEF QueueInv, Counted
  <2>5. Cardinality(Working) <= Cardinality(inFlight) /\ Cardinality(Working) \in Nat
    BY <2>1, <2>2, FS_Subset, FS_CardinalityType
  <2>6. QED
    BY <2>2, <2>4, <2>5
<1>2. QED
  BY <1>1, ConnectionBase, PTL
=============================================================================
