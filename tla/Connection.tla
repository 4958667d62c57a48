----------------------------- MODULE Connection -----------------------------
(***************************************************************************)
(* A database object of SQLite3JS, wrapDatabase at lines 135 to 261 of     *)
(* SQLite3.js: the promise queue on the UI thread in front of the native   *)
(* operations on the threads of the pool.  runAsync, oneAsync, allAsync    *)
(* and eachAsync go through the queue, and mapAsync through eachAsync;     *)
(* vacuumAsync and close do not.                                           *)
(*                                                                         *)
(* The client keeps to what its promises tell it: it closes the database   *)
(* only when no promise of a call is pending, and makes no call after.     *)
(***************************************************************************)
EXTENDS PromiseQueue, Database

\* The operations of the native database: one for each queued call, and one
\* for each vacuumAsync.
ASSUME CallsAreOps ==
  /\ Op = Item \cup Vacuum
  /\ Item \cap Vacuum = {}

VARIABLES
  told   \* whose failure the detailed message of a call's SQLiteError tells

connVars == <<items, busy, immediates, inFlight, flagged, outcome,
              phase, stmt, fault, rows, delivered, dbErr, lastError,
              lastChange, lastRow, count, handle, stray, locked, told>>

ConnectionTypeOK ==
  /\ QueueTypeOK
  /\ DatabaseTypeOK
  /\ told \in [Item -> Op \cup {Nobody, Vague}]

ConnectionInit ==
  /\ QueueInit
  /\ DatabaseInit
  /\ told = [i \in Item |-> Nobody]

-----------------------------------------------------------------------------
\* callNativeAsync: the call joins the queue.
Call(i) ==
  /\ handle = "open"
  /\ AppendItem(i)
  /\ UNCHANGED <<dbVars, told>>

\* Deviation: the native method is called without the queue.
BeginUnqueued ==
  /\ \E i \in Item : /\ i \in Range(items)
                     /\ Launch(i)
                     /\ inFlight' = inFlight \cup {i}
  /\ UNCHANGED <<items, busy, immediates, flagged, outcome, told>>

\* createPromise, on the head of the queue: connection[fullFuncName].
Begin ==
  /\ StartItem
  /\ Launch(Head(items))
  /\ UNCHANGED told

\* The other turns of the queue do not touch the native database.
Turn ==
  /\ ThrowItem \/ SkipItem \/ GoIdle
  /\ UNCHANGED <<dbVars, told>>

\* Deviation: the queue goes on before wrapException has read lastError, which
\* another turn then does.
CompleteLate(i) ==
  /\ \/ phase[i] = "succeeded" /\ FinishItem(i, "complete") /\ UNCHANGED told
     \/ /\ i \notin inFlight /\ phase[i] = "failed" /\ outcome[i] = "error"
        /\ told' = [told EXCEPT ![i] = lastError]
        /\ UNCHANGED queueVars
     \/ phase[i] = "failed" /\ FinishItem(i, "error") /\ UNCHANGED told
  /\ UNCHANGED dbVars

\* Deviation: the operation reports its result before ~Statement has run.
CompleteEarly(i) ==
  /\ \/ phase[i] \in {"finalize", "succeeded"} /\ FinishItem(i, "complete") /\ UNCHANGED told
     \/ /\ phase[i] = "failed"
        /\ FinishItem(i, "error")
        /\ told' = [told EXCEPT ![i] = lastError]
  /\ UNCHANGED dbVars

\* The native promise settles on the UI thread.  On an error wrapException
\* reads lastError first; then the done handlers of the queue run.
Complete(i) ==
  /\ \/ phase[i] = "succeeded" /\ FinishItem(i, "complete") /\ UNCHANGED told
     \/ /\ phase[i] = "failed"
        /\ FinishItem(i, "error")
        /\ \E text \in {lastError} \cup Torn(Writing) : told' = [told EXCEPT ![i] = text]
  /\ UNCHANGED dbVars

\* The client cancels a call.  A running operation is not interrupted: its
\* promise is settled, its thread goes on.
Cancel(i) ==
  /\ CancelInFlight(i) \/ CancelQueued(i)
  /\ UNCHANGED <<dbVars, told>>

\* vacuumAsync: the native operation starts at once, whatever else is
\* running, and the promise is complete before it has done anything.
StartVacuum(v) ==
  /\ handle = "open"
  /\ Launch(v)
  /\ UNCHANGED <<queueVars, told>>

\* close, by a client for which no promise is pending.
Close ==
  /\ \A i \in Item : outcome[i] # "pending"
  /\ CloseHandle
  /\ UNCHANGED <<queueVars, told>>

Work(o) == WorkerStep(o) /\ UNCHANGED <<queueVars, told>>

Callback(i) == RunCallback(i) /\ UNCHANGED <<queueVars, told>>

\* Nothing is left to do until the application calls again, or what is left
\* waits for a mutex that will not be free or for a call that was lost.
Rest ==
  /\ immediates = 0
  /\ Working \subseteq locked
  /\ \/ Jammed \/ Lost # {}
     \/ handle # "open" /\ \A i \in Item : outcome[i] # "pending"
  /\ UNCHANGED connVars

ConnectionNext ==
  \/ Begin
  \/ Turn
  \/ Close
  \/ Rest
  \/ \E i \in Item : Call(i)
  \/ \E i \in Item : Complete(i)
  \/ \E i \in Item : Cancel(i)
  \/ \E i \in Item : Callback(i)
  \/ \E v \in Vacuum : StartVacuum(v)
  \/ \E o \in Op : Work(o)

\* The event loop runs every turn that is due, and no thread of the pool is
\* held back for ever.
ConnectionFairness ==
  /\ WF_connVars(Begin \/ Turn)
  /\ \A i \in Item : WF_connVars(Complete(i)) /\ WF_connVars(Callback(i))
  /\ \A o \in Op : WF_connVars(Work(o))

ConnectionSpec == ConnectionInit /\ [][ConnectionNext]_connVars

ConnectionFairSpec == ConnectionSpec /\ ConnectionFairness

-----------------------------------------------------------------------------
\* The vacuums that were started.
Begun == {v \in Vacuum : phase[v] # "idle"}

\* Some native operation may be running that no pending promise stands for.
Abandoned == Canceled \cup Begun # {}

\* Two native operations of a database run side by side only for a client that
\* has cancelled a call or started a vacuum.
NoOverlap == ~Abandoned => Cardinality(Working) <= 1

\* A queued call that reports an SQLite failure reports its own: lastError
\* still tells of it when wrapException reads it on the UI thread, and tells
\* nothing when it was the binding or the callback that failed.  A vacuum
\* beside the queue can put its own failure or a vague text in the place of
\* the call's; the failure of another queued call never gets there unless
\* a call was cancelled.  Nothing is promised of an exception that passes the
\* catch: wrapException then reads what some earlier failure left.
ErrorTextIsOwn ==
  \A i \in Item : outcome[i] = "error" /\ fault[i] \notin Foreign =>
    /\ ~Abandoned => told[i] = IF fault[i] \in {"sql", "range", "step"} THEN i ELSE Nobody
    /\ Canceled = {} => told[i] \in {i, Nobody, Vague} \cup Vacuum

\* Of a statement that changes rows, runAsync returns the count it changed,
\* unless a cancelled call may still be running.  With a vacuum begun it may be
\* the vacuum's count instead: sqlite3_changes is read in a call of its own, and
\* without the mutex.
WriterCountIsOwn ==
  Canceled = {} => \A i \in Writer :
    outcome[i] = "complete" /\ Kind[i] = "run" => count[i] \in {i} \cup Begun

\* What README.md:30 says of runAsync: it returns the number of rows affected
\* by the executed SQL statement, so never rows another statement affected.
RowCountIsOwn ==
  Canceled = {} => \A i \in Item : outcome[i] = "complete" => count[i] \in {i, Nobody}

\* lastInsertRowId, read by the client where an INSERT that inserts a row
\* completes, is of that call, unless a cancelled call may still be running;
\* with a vacuum begun it may be of a row the vacuum copies.
RowIdIsOwn ==
  [][\A i \in Inserts : Canceled = {} /\ outcome[i] = "pending" /\ outcome'[i] = "complete"
                        => RowIds \subseteq {i} \cup Begun]_connVars

\* eachAsync completes only after its callback has had every row.
EachDeliversAll ==
  \A i \in Item : outcome[i] = "complete" /\ Kind[i] = "each" => delivered[i] = rows[i]

\* A client that waits for its promises before it closes finds no statement in
\* the way of sqlite3_close unless it cancelled a call or started a vacuum,
\* and only the operations of cancelled calls and vacuums are left to use the
\* freed handle.
CleanClose ==
  /\ handle = "leaked" => Abandoned
  /\ stray \subseteq Canceled \cup Vacuum

\* What a failed call may be told while nothing is cancelled: its own failure or
\* none; a vacuum's or a vague one if there are vacuums; and what any failure
\* left, if C++ code may throw in it and pass the catch.
MayBeTold(i) ==
  IF i \in Unsafe THEN Op \cup {Nobody, Vague}
  ELSE {i, Nobody} \cup Vacuum \cup (IF Vacuum = {} THEN {} ELSE {Vague})

\* What the client sees while it cancels nothing is SerialCalls: the threads, the
\* shared handle, its last error, last change and last row id, and the message
\* kept of a failure do not show, whatever runs when.  A vacuum beside the queue
\* can show in error texts, in the counts of runAsync and in the row id; in
\* rows, in outcomes and in their order it cannot.
Alone == INSTANCE SerialCalls WITH
  Request <- Item, Withdrawable <- {}, Losable <- Throwing, MaxActive <- 1,
  Counting <- {i \in Item : Kind[i] = "run"},
  Streaming <- {i \in Item : Kind[i] = "each"},
  Beside <- Vacuum,
  Text <- [i \in Item |-> MayBeTold(i)],
  waiting <- items, active <- inFlight, changed <- lastChange, inserted <- lastRow,
  rows <- [i \in Item |-> rows[i]],
  given <- [i \in Item |-> delivered[i]],
  Unread <- Vague,
  returned <- [i \in Item |-> IF Kind[i] = "run" /\ phase[i] \in {"finalize", "succeeded"}
                              THEN count[i] ELSE Vague],
  told <- [i \in Item |-> IF outcome[i] = "error" THEN told[i] ELSE Nobody]

AnswersAsIfAlone == Alone!SerialSpec

\* Every native operation comes to an end, Each by way of the UI thread, unless
\* an exception has left SQLite with the mutex in the hands of another thread.
WorkersEnd ==
  \A o \in Op : phase[o] = "prepare" ~> phase[o] \in {"succeeded", "failed"} \/ o \in locked
=============================================================================
