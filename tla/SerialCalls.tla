----------------------------- MODULE SerialCalls -----------------------------
(***************************************************************************)
(* What a database object of SQLite3JS promises a client that cancels      *)
(* nothing: its calls are executed one after the other, in the order in    *)
(* which they were made, and each is answered as if it had the database to *)
(* itself.  There are no threads here, no handle, no statement and no last *)
(* error: those are how Connection keeps this promise.  Operations beside  *)
(* the calls can show in error texts, counts and the row id, nowhere else. *)
(***************************************************************************)
EXTENDS CallQueue

CONSTANTS
  Writer,    \* the calls whose SQL changes rows
  MayInsert, \* those among them that may insert a row that has a row id
  Inserts,   \* those that do so whenever they succeed
  Beside,    \* the operations that run beside the calls
  Counting,  \* the calls that return how many rows were changed
  Streaming, \* the calls that hand their rows to a callback one by one
  Text,      \* [Request -> set of texts]: what a call may be told when it fails
  Nobody,    \* no text, no change
  Unread     \* no count read yet

VARIABLES
  changed,   \* the call that changed the database last
  inserted,  \* the call that set the last row id
  rows,      \* how many rows each call has found
  given,     \* how many of them its callback has been given
  returned,  \* whose changes a call has read the number of, to return it
  told       \* the text of the error the caller was told

results == <<changed, inserted, rows, given, returned, told>>

SerialInit ==
  /\ Init
  /\ changed = Nobody
  /\ inserted = Nobody
  /\ rows = [c \in Request |-> 0]
  /\ given = [c \in Request |-> 0]
  /\ returned = [c \in Request |-> Unread]
  /\ told = [c \in Request |-> Nobody]

\* Calls are accepted and begun, or lost in place of beginning.
QueueMoves ==
  /\ Begin \/ Lose \/ \E c \in Request : Accept(c)
  /\ UNCHANGED results

\* A call under way finds a row, when its callback has had those before it ...
Find(c) ==
  /\ c \in active \ Writer
  /\ c \in Streaming => given[c] = rows[c]
  /\ rows' = [rows EXCEPT ![c] = @ + 1]
  /\ UNCHANGED <<vars, changed, inserted, given, returned, told>>

\* ... and its callback is given it.
Give(c) ==
  /\ c \in active \cap Streaming
  /\ given[c] < rows[c]
  /\ given' = [given EXCEPT ![c] = @ + 1]
  /\ UNCHANGED <<vars, changed, inserted, rows, returned, told>>

\* A call under way changes the database, or sets the row id if it inserts.
Change(c) ==
  /\ c \in active \cap Writer
  /\ changed' \in {changed, c}
  /\ inserted' \in {inserted} \cup ({c} \cap MayInsert)
  /\ UNCHANGED <<vars, rows, given, returned, told>>

\* What runs beside the calls leaves its own changes or row id.
Disturb ==
  /\ \E b \in Beside : changed' \in {changed, b} /\ inserted' \in {inserted, b}
  /\ UNCHANGED <<vars, rows, given, returned, told>>

\* A call under way reads the number of rows that the last change changed, or
\* a number of what runs beside it.
Count(c) ==
  /\ c \in active \cap Counting
  /\ \E n \in {changed} \cup Beside : returned' = [returned EXCEPT ![c] = n]
  /\ UNCHANGED <<vars, changed, inserted, rows, given, told>>

\* A call succeeds: a writing one has made its change, an inserting one has set
\* the row id, a streaming one has given all its rows, and one that returns a
\* number has read it, after its own change if it writes.
Succeed(c) ==
  /\ End(c)
  /\ outcome'[c] = "complete"
  /\ c \in Writer => changed \in {c} \cup Beside
  /\ c \in Inserts => inserted \in {c} \cup Beside
  /\ c \in Streaming => given[c] = rows[c]
  /\ c \in Counting => returned[c] # Unread
  /\ c \in Counting \cap Writer => returned[c] \in {c} \cup Beside
  /\ UNCHANGED results

\* A call fails, and its caller is told one of the texts it may be told.
Fail(c) ==
  /\ End(c)
  /\ outcome'[c] = "error"
  /\ \E text \in Text[c] : told' = [told EXCEPT ![c] = text]
  /\ UNCHANGED <<changed, inserted, rows, given, returned>>

SerialNext ==
  \/ QueueMoves
  \/ Disturb
  \/ \E c \in Request : Find(c) \/ Give(c) \/ Change(c) \/ Count(c) \/ Succeed(c) \/ Fail(c)

SerialSpec == SerialInit /\ [][SerialNext]_<<vars, results>>
=============================================================================
