------------------------------ MODULE Database ------------------------------
(***************************************************************************)
(* The native half of a database object: SQLite3Component/Database.cpp and *)
(* Statement.cpp.  Every runAsync, oneAsync, allAsync, eachAsync and       *)
(* vacuumAsync becomes an operation on a thread of the pool (create_async) *)
(* that prepares, binds, steps and finalises one statement on the one      *)
(* sqlite3 handle they share.                                              *)
(*                                                                         *)
(* SQLite is external.  It is compiled thread safe, so each sqlite3_ call  *)
(* is one atomic step here; what the handle keeps between two of them -    *)
(* the last error, the last change - belongs to whoever called last.       *)
(* Three calls take no mutex: sqlite3_changes, sqlite3_last_insert_rowid   *)
(* and sqlite3_errcode may see what another thread's call holds midway.    *)
(* Rows, texts and counts are abstracted to the operation they come from.  *)
(***************************************************************************)
EXTENDS Naturals, FiniteSets

CONSTANTS
  Op,        \* the native operations on this database
  Kind,      \* [Op -> {"run", "one", "all", "each"}]: the method each came by
  Writer,    \* the operations whose SQL is an INSERT, UPDATE or DELETE
  Vacuum,    \* the operations that vacuumAsync started
  MayInsert, \* the writers that may insert into a rowid table, triggers included
  Inserts,   \* the INSERTs among them that do so whenever they succeed
  Unsafe,    \* those with a nameless parameter bound by name, a REGEXP or a
             \* WINLOCALE comparison: C++ code of this program may throw in them
  Observed,  \* those whose changes have listeners: the dispatcher may refuse the
             \* event of one, and the update hook then throws out of the step
  MaxRows,   \* bound: rows a statement may yield
  Nobody,    \* SQLITE_OK, the empty text, the change count before any change
  Vague      \* a code or a text of SQLite that names no operation's failure

ASSUME OpAssumption ==
  /\ Kind \in [Op -> {"run", "one", "all", "each"}]
  /\ Writer \subseteq Op
  /\ Vacuum \subseteq {o \in Op \ Writer : Kind[o] = "run"}
  /\ Inserts \subseteq MayInsert
  /\ MayInsert \subseteq Writer
  /\ Unsafe \subseteq Op
  /\ Observed \subseteq Writer \cup Vacuum
  /\ MaxRows \in Nat
  /\ Nobody \notin Op
  /\ Vague \notin Op \cup {Nobody}

VARIABLES
  phase,      \* where the worker thread of each operation is
  stmt,       \* the operation's sqlite3_stmt
  fault,      \* why the operation threw
  rows,       \* rows its statement has yielded
  delivered,  \* rows its callback has been given (eachAsync)
  dbErr,      \* whose failure sqlite3_errcode and sqlite3_errmsg16 tell
  lastError,  \* whose failure lastErrorMessage tells
  lastChange, \* whose changes the handle has counted last
  lastRow,    \* whose insert set the handle's last row id
  count,      \* whose changes runAsync returned
  handle,     \* the sqlite3 handle
  stray,      \* the operations that used the handle after it was freed
  locked      \* the operations on other threads than the one that kept the mutex

dbVars == <<phase, stmt, fault, rows, delivered, dbErr, lastError, lastChange,
            lastRow, count, handle, stray, locked>>

Phase == {"idle", "prepare", "bind", "step", "callback", "count", "finalize",
          "unwind", "save", "copy", "succeeded", "failed"}

\* The faults that are no Platform::Exception and pass the catch of RunAsync,
\* OneAsync, AllAsync and EachAsync; those that leave sqlite3_step by exception.
Foreign == {"nameless", "regex"}
Kept == {"collation", "regex", "dispatch"}

DatabaseTypeOK ==
  /\ phase \in [Op -> Phase]
  /\ stmt \in [Op -> {"none", "ready", "active", "halted"}]
  /\ fault \in [Op -> {"none", "sql", "range", "mismatch", "step", "callback", "closed"}
                      \cup Foreign \cup Kept]
  /\ rows \in [Op -> 0..MaxRows]
  /\ delivered \in [Op -> 0..MaxRows]
  /\ dbErr \in Op \cup {Nobody, Vague}
  /\ lastError \in Op \cup {Nobody, Vague}
  /\ lastChange \in Op \cup {Nobody}
  /\ lastRow \in Op \cup {Nobody}
  /\ count \in [Op -> Op \cup {Nobody}]
  /\ handle \in {"open", "closed", "leaked"}
  /\ stray \subseteq Op
  /\ locked \subseteq Op

DatabaseInit ==
  /\ phase = [o \in Op |-> "idle"]
  /\ stmt = [o \in Op |-> "none"]
  /\ fault = [o \in Op |-> "none"]
  /\ rows = [o \in Op |-> 0]
  /\ delivered = [o \in Op |-> 0]
  /\ dbErr = Nobody
  /\ lastError = Nobody
  /\ lastChange = Nobody
  /\ lastRow = Nobody
  /\ count = [o \in Op |-> Nobody]
  /\ handle = "open"
  /\ stray = {}
  /\ locked = {}

-----------------------------------------------------------------------------
\* The operations whose thread has something left to do.
Working == {o \in Op : phase[o] \notin {"idle", "succeeded", "failed"}}

Goes(o, next) == phase' = [phase EXCEPT ![o] = next]

\* The operation throws.  With a statement it unwinds through ~Statement
\* first; the catch handler runs after that, if it catches the exception.
Caught(why) == IF why \in Foreign THEN "failed" ELSE "save"

Throws(o, why) ==
  /\ fault' = [fault EXCEPT ![o] = why]
  /\ Goes(o, IF stmt[o] = "none" THEN Caught(why) ELSE "unwind")

\* RunAsync, OneAsync, AllAsync, EachAsync: create_async hands the operation
\* to a thread of the pool.
Launch(o) ==
  /\ phase[o] = "idle"
  /\ Goes(o, "prepare")
  /\ UNCHANGED <<stmt, fault, rows, delivered, dbErr, lastError, lastChange, lastRow,
                 count, handle, stray, locked>>

\* Statement::Prepare.
Prepare(o) ==
  /\ phase[o] = "prepare"
  /\ handle # "closed"
  /\ \/ /\ dbErr' = Nobody
        /\ stmt' = [stmt EXCEPT ![o] = "ready"]
        /\ Goes(o, "bind")
        /\ UNCHANGED fault
     \/ /\ dbErr' = o
        /\ Throws(o, "sql")
        /\ UNCHANGED stmt
  /\ UNCHANGED <<rows, delivered, lastError, lastChange, lastRow, count, handle, stray, locked>>

\* Statement::Prepare on a freed handle is undefined; it is recorded, and the
\* operation goes on as when SQLite notices and answers SQLITE_MISUSE.
PrepareStray(o) ==
  /\ phase[o] = "prepare"
  /\ handle = "closed"
  /\ stray' = stray \cup {o}
  /\ Throws(o, "closed")
  /\ UNCHANGED <<stmt, rows, delivered, dbErr, lastError, lastChange, lastRow, count, handle, locked>>

\* Statement::Bind: each bound parameter resets the handle's error; a value of
\* a type that cannot be bound is refused without a call of SQLite.  The name
\* of a nameless parameter has no second character to start from.
Bind(o) ==
  /\ phase[o] = "bind"
  /\ \/ /\ dbErr' \in {dbErr, Nobody}
        /\ \/ Goes(o, "step") /\ UNCHANGED fault
           \/ Throws(o, "mismatch")
           \/ o \in Unsafe \ Vacuum /\ Throws(o, "nameless")
     \/ /\ dbErr' = o
        /\ Throws(o, "range")
  /\ UNCHANGED <<stmt, rows, delivered, lastError, lastChange, lastRow, count, handle, stray, locked>>

\* What sqlite3_errmsg16 tells.  sqlite3_step sets a code of its own, SQLITE_ROW
\* or SQLITE_DONE among them, and leaves the text that was there.
ErrorText == IF dbErr = Nobody THEN Vague ELSE dbErr

YieldRow(o, afterPost) ==
  /\ phase[o] = "step"
  /\ o \notin Writer \cup Vacuum
  /\ rows[o] < MaxRows
  /\ rows' = [rows EXCEPT ![o] = @ + 1]
  /\ stmt' = [stmt EXCEPT ![o] = "active"]
  /\ dbErr' = ErrorText
  /\ Goes(o, CASE Kind[o] = "run" -> "count"
               [] Kind[o] = "one" -> "finalize"
               [] Kind[o] = "all" -> "step"
               [] Kind[o] = "each" -> afterPost)
  /\ UNCHANGED <<fault, delivered, lastError, lastChange, lastRow, count, handle, stray, locked>>

\* Deviation: Each does not wait for the callback it has posted.
StepRowUnawaited(o) == YieldRow(o, "step")

\* sqlite3_step yields a row.  Run and One need no more than that; All steps
\* again; Each posts the row to the dispatcher of the UI thread and waits.
StepRow(o) == YieldRow(o, "callback")

\* The vacuums that may be inside their step: VACUUM needs that no other
\* statement of the handle is active.  Until it ends, the count of changes and
\* the row id are those of the INSERTs it copies the tables with.
Copying == {v \in Vacuum \ locked :
              phase[v] = "step" /\ \A p \in Op \ {v} : stmt[p] # "active"}

\* sqlite3_step is done.  A writer has its changes counted, and the row id of
\* its last insert stays; an UPDATE, a DELETE and an INSERT that inserts
\* nothing leave the row id alone, and VACUUM puts both back.
StepDone(o) ==
  /\ phase[o] = "step"
  /\ o \in Vacuum => o \in Copying
  /\ stmt' = [stmt EXCEPT ![o] = "halted"]
  /\ dbErr' = ErrorText
  /\ lastChange' = IF o \in Writer THEN o ELSE lastChange
  /\ lastRow' \in (IF o \in Inserts THEN {} ELSE {lastRow}) \cup ({o} \cap MayInsert)
  /\ Goes(o, IF Kind[o] = "run" THEN "count" ELSE "finalize")
  /\ UNCHANGED <<fault, rows, delivered, lastError, count, handle, stray, locked>>

\* sqlite3_step fails, and tells why only when the statement is finalised: a
\* changed schema stops it before it starts, a lock leaves it active, and a
\* constraint or the disk halts it, perhaps after some of its inserts.
StepFail(o) ==
  /\ phase[o] = "step"
  /\ \/ stmt[o] = "ready" /\ UNCHANGED <<stmt, dbErr, lastChange, lastRow>>
     \/ /\ stmt' = [stmt EXCEPT ![o] = "active"]
        /\ dbErr' = ErrorText
        /\ UNCHANGED <<lastChange, lastRow>>
     \/ /\ stmt' = [stmt EXCEPT ![o] = "halted"]
        /\ dbErr' = ErrorText
        /\ lastChange' = IF o \in Writer THEN o ELSE lastChange
        /\ lastRow' \in {lastRow} \cup ({o} \cap MayInsert)
  /\ Throws(o, "step")
  /\ UNCHANGED <<rows, delivered, lastError, count, handle, stray, locked>>

\* What may throw in the operation's step: a bad regular expression, a
\* comparison that fails, or the dispatch of a change event when the queue of
\* the UI thread takes no more.
Thrown(o) ==
  (IF o \in Unsafe THEN {"collation", "regex"} ELSE {}) \cup
  (IF o \in Observed THEN {"dispatch"} ELSE {})

\* A function that SQLite calls inside the step throws through it.  The thread
\* keeps the mutex of the handle for ever, and only operations that the pool
\* happens to give the same thread, never those at work now, can enter SQLite
\* again; what the step had done to count and row id stays, a vacuum's too.
StepThrow(o) ==
  /\ phase[o] = "step"
  /\ stmt' = [stmt EXCEPT ![o] = "active"]
  /\ \E why \in Thrown(o) : Throws(o, why)
  /\ lastChange' \in {lastChange} \cup ({o} \cap Vacuum)
  /\ lastRow' \in {lastRow} \cup ({o} \cap (MayInsert \cup Vacuum))
  /\ \E others \in SUBSET (Op \ {o}) :
       /\ Working \ {o} \subseteq others
       /\ locked' = locked \cup others
  /\ UNCHANGED <<rows, delivered, dbErr, lastError, count, handle, stray>>

GiveRow(o, woken) ==
  /\ Kind[o] = "each"
  /\ delivered[o] < rows[o]
  /\ delivered' = [delivered EXCEPT ![o] = @ + 1]
  /\ \/ Goes(o, IF phase[o] = "callback" THEN "step" ELSE phase[o]) /\ UNCHANGED fault
     \/ woken
  /\ UNCHANGED <<stmt, rows, dbErr, lastError, lastChange, lastRow, count, handle, stray, locked>>

\* Deviation: a callback that throws does not wake the worker.
RunCallbackSwallowed(o) == GiveRow(o, UNCHANGED <<phase, fault>>)

\* The UI thread runs the callback of a row of Each.  The worker waiting for
\* it steps on, or rethrows what the callback threw.
RunCallback(o) == GiveRow(o, phase[o] = "callback" /\ Throws(o, "callback"))

\* RunAsync reads sqlite3_changes, a call of its own after the step that waits
\* for no mutex.
ReadCount(o) ==
  /\ phase[o] = "count"
  /\ \E n \in {lastChange} \cup Copying : count' = [count EXCEPT ![o] = n]
  /\ Goes(o, "finalize")
  /\ UNCHANGED <<stmt, fault, rows, delivered, dbErr, lastError, lastChange, lastRow,
                 handle, stray, locked>>

\* The row ids that LastInsertRowId may read, which waits for no mutex either.
RowIds == {lastRow} \cup Copying

\* ~Statement: sqlite3_finalize copies the result of a statement that has run
\* into the handle, and leaves the handle's error alone if it has not.  A
\* writer that is still active is halted now, and its changes counted.
Finalize(o) ==
  /\ phase[o] \in {"finalize", "unwind"}
  /\ dbErr' = IF fault[o] = "step" THEN o ELSE IF stmt[o] = "ready" THEN dbErr ELSE Nobody
  /\ lastChange' = IF o \in Writer /\ stmt[o] = "active" THEN o ELSE lastChange
  /\ stmt' = [stmt EXCEPT ![o] = "none"]
  /\ Goes(o, IF phase[o] = "unwind" THEN Caught(fault[o]) ELSE "succeeded")
  /\ UNCHANGED <<fault, rows, delivered, lastError, lastRow, count, handle, stray, locked>>

\* lastErrorMessage is a plain string: while another thread is writing it,
\* what is read from it or left in it may be anything.
Writing == {o \in Op : phase[o] \in {"save", "copy"}}

Torn(others) == IF others = {} THEN {} ELSE {Vague}

Strays(o) == stray' = IF handle = "closed" THEN stray \cup {o} ELSE stray

\* The operations other than o that may be inside a call which reads the schema
\* or copies the tables: sqlite3_errcode may then have any value.
Inside(o) == {p \in Op \ (locked \cup {o}) : phase[p] \in {"prepare", "step"}}

\* saveLastErrorMessage asks for sqlite3_errcode, without the mutex, and clears
\* the message if there is no error.
CheckError(o) ==
  /\ phase[o] = "save"
  /\ \/ /\ dbErr # Nobody \/ Inside(o) # {}
        /\ Goes(o, "copy")
        /\ UNCHANGED lastError
     \/ /\ dbErr = Nobody \/ Inside(o) # {}
        /\ Goes(o, "failed")
        /\ lastError' \in {Nobody} \cup Torn(Writing \ {o})
  /\ Strays(o)
  /\ UNCHANGED <<stmt, fault, rows, delivered, dbErr, lastChange, lastRow, count, handle, locked>>

\* ... otherwise it copies sqlite3_errmsg16, which by then may be another's.
CopyError(o) ==
  /\ phase[o] = "copy"
  /\ lastError' \in {ErrorText} \cup Torn(Writing \ {o})
  /\ Goes(o, "failed")
  /\ Strays(o)
  /\ UNCHANGED <<stmt, fault, rows, delivered, dbErr, lastChange, lastRow, count, handle, locked>>

\* The steps of the operation's thread.  Those that enter SQLite wait for the
\* mutex; otherwise it waits only in Each, for the callback, holding nothing.
WorkerStep(o) ==
  \/ ReadCount(o)
  \/ CheckError(o)
  \/ /\ o \notin locked
     /\ \/ Prepare(o) \/ PrepareStray(o)
        \/ Bind(o)
        \/ StepRow(o) \/ StepDone(o) \/ StepFail(o) \/ StepThrow(o)
        \/ Finalize(o)
        \/ CopyError(o)

\* Some thread has left sqlite3_step by exception, with the mutex.
Jammed == \E o \in Op : fault[o] \in Kept

\* Database::~Database, from close() on the UI thread.  sqlite3_close refuses
\* while statements exist, and nobody looks at its answer; with the mutex gone
\* the UI thread would never come back from it.
CloseHandle ==
  /\ handle = "open"
  /\ ~Jammed
  /\ \/ /\ \A o \in Op : stmt[o] = "none"
        /\ handle' = "closed"
        /\ UNCHANGED dbErr
     \/ /\ \E o \in Op : stmt[o] # "none"
        /\ handle' = "leaked"
        /\ dbErr' = Vague
  /\ UNCHANGED <<phase, stmt, fault, rows, delivered, lastError, lastChange, lastRow, count, stray, locked>>
=============================================================================
