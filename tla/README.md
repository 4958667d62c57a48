# A TLA+ development of SQLite3-WinRT

SQLite3-WinRT gives JavaScript Windows Store apps an asynchronous interface to
SQLite. It has two halves: `SQLite3JS` (`SQLite3JS/js/SQLite3.js`), a JavaScript
wrapper that lives on the UI thread, and `SQLite3Component` (`Database.cpp`,
`Statement.cpp`, `Common.cpp`), a WinRT component whose operations run on threads
of the pool. What is hard about it is what happens between the two: promises that
are cancelled, worker threads that share one `sqlite3` handle, callbacks into the
UI thread, and state of a connection (last error, change count, last row id,
`fireEvents`) that one thread writes and another reads later.

This directory holds TLA+ modules that model the program, TLC configurations that
check them on small instances, and theorems that TLAPS proves for all instances.
`PROJECT.json` lists the components, the runs, the source lines of every
definition, the hazards of the code and the theorems.

Contents: 1 Inventory. 2 Modules and their correspondence to the code. 3 Runs,
bounds and fairness. 4 Proofs. 5 Divergences found. 6 Not modelled. 7 What could
come next.

## 1. Inventory

| Component | State | Operations | Talks to | Correct when |
|---|---|---|---|---|
| **PromiseQueue** (`SQLite3.js:17-78`) | `_items`, `_busy`, pending `setImmediate` callbacks, a `promise`/`cancelled` mark per item | `append`, `_handleNext`, `_handleItem`, done handlers, cancel handler | native promises, event loop | calls begin in order and one at a time; a cancelled queued call never begins; no call is left waiting |
| **Database wrapper** (`SQLite3.js:80-261`) | none but the queue and the connection | `runAsync`, `oneAsync`, `allAsync`, `eachAsync`, `mapAsync`, `vacuumAsync`, `close`, accessors | queue, native database | a call's rows, count and error text are its own; `close` leaves nothing behind |
| **Native operations** (`Database.cpp:133-135`, `161-170`, `214-312`, `Statement.cpp:16-186`) | `sqlite` handle, `lastErrorMessage`, a `sqlite3_stmt` per operation | `RunAsync`, `OneAsync`, `AllAsync`, `EachAsync`, `VacuumAsync`, `~Database` | SQLite, dispatcher of the UI thread | statements are finalised before the promise settles; the message stored is of the failure thrown; every thread ends |
| **Change events** (`Database.h:62-114`, `Database.cpp:137-212`) | four counters, three event lists, `fireEvents`, the hook inside SQLite | `addEventListener`, `removeEventListener`, `OnChange`, the setter of `fireEvents`, `VacuumAsync` | SQLite's hook and mutex, dispatcher | hook set exactly while somebody listens; each change is an event for its listeners or fails the call; a vacuum is silent and leaves `fireEvents` as it was; registration does not deadlock with a writing thread |
| **openAsync** (`SQLite3.js:392-415`, `Database.cpp:93-131`, `Database.h:18-29`) | cached version, shared-cache flag of the process | `openAsync`, setter of `SharedCache` | native open, the version query | no handle is lost; a database is handed out only with the version known; the cache mode is the one that was set |
| **ItemDataSource** (`SQLite3.js:263-324`) | `_sql`, `_args` | `setQuery`, `getCount`, `itemsFromIndex` | queue | page, offset and count belong together |
| **GroupDataSource** (`SQLite3.js:326-390`) | `_groups`, `_keyIndexMap` | `_ensureGroupsAsync`, `getCount`, `itemsFromIndex`, `itemsFromKey` | queue | the groups are those of one query; a key leads to its own group |
| **Row text** (`Statement.cpp:137-253`) | none | `All`, `GetRow`, `writeEscaped` | `JSON.parse` in the wrapper | the parsed row equals the row |
| **Error codes** (`Common.cpp:6-40`, `SQLite3.js:102-133`) | none | `throwSQLiteError`, `wrapException` | each other, through an HRESULT | `resultCode` and `number` tell the failure |
| **Parameter binding** (`Statement.cpp:36-128`, `SQLite3.js:80-95`) | none | `Bind`, `BindParameter`, `toPropertySet` | SQLite | the value that comes back is the value given |
| **Functions and collations** (`Database.cpp:21-89`) | static map of resource loaders | `WINLOCALE`, `REGEXP`, `APPTRANSLATE` | called by SQLite inside a step | no exception leaves `sqlite3_step`; the map is safe |

`Constants`, the specs and their runner, the examples, the build files, jasmine,
jslint and the vendored SQLite 3.8.2 carry no logic of this program.

Who shares what: the queue lives on the UI thread alone. A native operation is
started on the UI thread and runs on a thread of the pool; it uses the handle, whose
mutex makes each `sqlite3_` call atomic but nothing longer. `eachAsync` goes back to
the UI thread for every row and waits for it. Completion handlers, change events and
listener registration run on the UI thread, and registration calls SQLite there. Two
operations bypass the queue: `vacuumAsync` and `close`. Native operations have no
cancellation token: a cancelled call has a settled promise and a running thread. The
two data sources are clients of the queue. The shared-cache flag and the map of
resource loaders belong to the process, the version to the wrapper.

## 2. Modules and their correspondence to the code

```
CallQueue     <-- implemented by --  PromiseQueue <-- PromiseQueueProofs
                                         |                  |
                         Database --> Connection <-- ConnectionProofs <-- ConnectionResultProofs
                                         |
SerialCalls   <-- implemented by --------+   (while nothing is cancelled)

ChangeEvents <-- ChangeEventsProofs      OpenDatabase <-- OpenDatabaseProofs
GroupSource  <-- GroupSourceProofs       ItemSource   <-- ItemSourceProofs
Values       <-- ValuesProofs
```

Each of PromiseQueue, Connection, ChangeEvents, OpenDatabase, GroupSource, ItemSource
and Values has an `MC` module with the model values and small sets of its runs.

**CallQueue** is what the queue promises its callers: accepted calls, in order, at most
`MaxActive` begun and unfinished, one outcome for each that begins, and none lost but
the `Losable` ones. No busy flag, no callbacks.

**PromiseQueue** is the code: one action per turn of the event loop.
`items`, `busy` are `_items`, `_busy`; `immediates` counts the pending callbacks of
`setImmediate`; `inFlight` holds the items whose `queueItem.promise` exists and
whose handlers have not run; `flagged` those with `queueItem.cancelled`; `outcome` is
the state of the promise `append` returned. `AppendItem` is `append`; `StartItem`,
`ThrowItem` and `SkipItem` are the callback of `_handleNext` with the three ways
through `_handleItem` (native call made, `createPromise` throws, item was cancelled);
`GoIdle` is the callback that finds no item; `FinishItem` the done handlers;
`CancelInFlight` and `CancelQueued` the cancel handler, whose own call of
`_handleNext` at line 37 comes on top of the one that cancelling the native promise
causes at line 72. WinJS is external: a promise settles once, and cancelling an
unsettled native promise runs its error handler before `cancel()` returns.

**Database** is the native half. An operation is a thread whose `phase` is the place in
the code it has reached: `prepare`, `bind`, `step`, `callback` (waiting in
`Statement::Each`), `count` (`sqlite3_changes`), `finalize` and `unwind` (`~Statement`
on the way out or by exception), `save` and `copy` (the two halves of
`saveLastErrorMessage`), `succeeded`, `failed`. A name of an operation stands for
what SQLite remembers of it: `dbErr = o` means that the handle's error code and
message are those of `o`'s failure, `lastChange = o` that `o` set the change count,
`lastRow = o` that one of `o`'s inserts set the last row id. The two are not the same: every
INSERT, UPDATE or DELETE that ends sets the count, but only a row inserted into a table with
row ids sets the row id (`MayInsert`; `Inserts` are the INSERTs that do so whenever they
succeed), and a failed INSERT may have inserted rows before. Three calls take no mutex:
`sqlite3_changes`, `sqlite3_last_insert_rowid` and `sqlite3_errcode` may tell what a call on
another thread holds midway. For the first two that is a VACUUM, which copies the tables with
INSERTs and puts count and row id back at its end: `ReadCount` may read the count, and
`RowIds` contain the row id, of any vacuum that may be inside its step (`Copying`).
`CheckError` may take any turn while another operation is inside a call. `Vague` stands for a code or text that names no operation
(`SQLITE_ROW`, `SQLITE_DONE`, a torn string), `Nobody` for none. What each call of SQLite
does to the error of the handle is taken from the vendored source: prepare and
finalize set it, a successful bind may clear it, `SQLITE_MISMATCH` from `BindParameter`
never reaches SQLite and leaves it. Writing `lastErrorMessage` while another thread
writes or reads it is a race on a `std::wstring`; the outcome may be `Vague`. A use of
the handle after `~Database` freed it is recorded in `stray` and goes on as
`SQLITE_MISUSE`.

Exceptions that are not `Platform::Exception`: `Foreign` are the faults that pass the
catch of the four operations (a nameless parameter whose name has no second character, a
bad regular expression) and so skip `saveLastErrorMessage`; `Kept` those that leave
`sqlite3_step` itself through C code (a bad regular expression, a comparison of
`WINLOCALE` that fails, a change event that the dispatcher refuses), after which nobody
leaves the mutex of the handle. SQLite's mutex is
recursive, so operations that the pool happens to give the same thread still enter;
`locked` is the nondeterministic set of those that do not, and holds all that were at
work at that moment. `Jammed` says that it has happened. Only the operations in
`Unsafe` (the SQL functions) and in `Observed` (the events) may do so.

**Connection** composes both: `Begin` is the queue's `StartItem` together with the
launch of the native operation; `Complete` is the completion handler, which reads
`lastError` into `told` (line 152) and then runs the queue's done handlers; `Cancel` leaves
the thread running; `StartVacuum` and `Close` bypass the queue. The client modelled
here closes the database only when none of its promises is pending and calls nothing
afterwards; a client that closes earlier has itself to blame.

**SerialCalls** is what all of that comes to for a client that cancels nothing: `CallQueue`
with room for one call, a database that knows only which call changed it last and which set
the row id, and for each call its rows, the rows its callback was given, the count it read
and the error text it was answered with. A call finds rows, changes the database, reads the
count and answers while it is the only one under way. `Disturb` and `Beside` are what the
operations outside the queue may do to count and row id. Connection implements it under the
mapping of `Alone`: line and calls under way are the queue's, `changed` and `inserted` are
`lastChange` and `lastRow`, a count appears when the thread has read it and a text when the
promise settles. Threads, statements, the handle's error, `lastErrorMessage` and closing
are not in it, and of a vacuum only what it leaves in counts, row id and texts. `MayBeTold` are the texts a
failed call may be answered with: its own or none, with vacuums also theirs or a vague one,
and any if an exception of C++ may pass the catch.

**ChangeEvents** is the other side of the native database: three threads around the
update hook. `AddListener` and `SetHook` are two actions because `sqlite3_update_hook`
waits for the mutex on the UI thread, during which nothing else runs there but workers
go on; likewise `RemoveListener` and `ClearHook`. `Change` is one call of the
hook inside `sqlite3_step` with all of `OnChange`: an event that is due is appended to the
dispatcher's queue or, when the queue of messages is full (the QUOTA_EXCEEDED of
`Database.cpp:165-166`), refused with an exception that leaves hook and step, fails the
operation and keeps the mutex (`Refused`). How full the queue is depends on all of the
application, so a refusal may come at any event. `SaveFireEvents`, `ClearFireEvents` and
`RestoreFireEvents` are the three assignments of `VacuumAsync`; a VACUUM that fails
skips the third. `kept` says that an exception has left the step with the mutex, and
`Hung` is the application whose UI thread then waits for it. `wanted` and `muddled` are
history variables for the properties. The module is kept apart from Connection because
they share no variable: events touch neither errors nor counts nor the queue.

**OpenDatabase** is `openAsync` with its thread: `caller` is the promise chain on the
UI thread (`opening`, `asking` for the version, `done`, `rejected`, or `thrown` for an
empty path), `worker` the thread of `Database::OpenAsync`, `handle` what
`sqlite3_open16` left. `OpenHandle` and `FailToOpen` are the two ends of the thread,
`Opened` the handlers at lines 396-411, `Answered` the version query (one call on the
queue of a database nobody else has), `GiveUp` a cancellation, which stops no
thread, `Dispose` is `~Database` by `close` or by the garbage collector.
`SetSharedCache` is the setter; SQLite reads the flag when the handle is opened.

**GroupSource** is the `GroupDataSource`: `AskLoaded` and `AskUnloaded` are
`_ensureGroupsAsync` with and without `_groups`; every request that comes early
starts a load of its own. The loads stand in `loads` in the order of the queue;
`StartLoad`, `LoadRow`, `FinishLoad` and `FailLoad` are one `mapAsync` with its counters
(`groupIndex`, `firstItemIndex`), its row callback, its filter and its end.
`keyIndexMap` is written row by row and never cleared, as in the code.

**ItemSource** is the `ItemDataSource`: `Ask` makes the count, `Count` answers `getCount`
or goes on to the page with the SQL and arguments of that moment, `Fetch` is the page
with its offset and limit; `SetQuery` and `Write` come in between. A query is known
by how many rows it yields.

**Values** is the way of a value: `Bound` is `BindParameter` with
`FoundationTimeToUnixCompatible` (`UnixTime`), `GetRow`, `All` and `writeEscaped` write tokens of
JSON, `Parse` is an external model of `JSON.parse`, a state machine over those tokens
that knows nothing of how they were made, and `Read` what it makes of a text; `given`
is a history variable with what the client bound, row by row. And the way of an error:
`ThrowSQLiteError` is the switch of `Common.cpp`, `WrapException` the arithmetic of
`SQLite3.js:102-133`. Texts are sequences over `Char`; what SQLite writes of an integer
(`Decimal`) or of another number (`Digits`) is one token, of which it is only known that
it is no mark of JSON and that the infinite ones are written as `Inf`. NaN is stored
as NULL. `ComesBack` says what the client must get for a value it bound, without reference
to how it is bound and written. Of a date only the conversion is computed, HRESULTs are pairs of 16-bit halves.

Operators named as deviations (`AppendAlwaysWakes`, `CompleteLate`, ...) are plausible
mistakes in the code, used to confirm that each property can fail; no specification
uses them.

## 3. Runs, bounds and fairness

| Run | Instance | Shows |
|---|---|---|
| `queue_cancel` | 4 calls, 2 cancellable, one of them may be lost to a `createPromise` that throws | overlap is bounded by the number of cancellations; calls begin in order and a call cancelled while queued never; every call settles while none is lost |
| `connection_serial` | writing `runAsync`, `eachAsync`, writing `allAsync`; 2 rows | no overlap; with no vacuum beside them change counts, row ids of inserts and rows belong to their calls; every call settles; the client sees a database that executes one call at a time |
| `connection_vacuum` | inserting `runAsync` whose change event may be refused, `eachAsync` that may throw C++ exceptions, one vacuum; 1 row | error texts and closing with a vacuum alongside; the vacuum shows in texts, counts and row id and nowhere else; all threads end that do not wait for a mutex an exception has kept |
| `connection_cancel` | cancellable `eachAsync`, `allAsync`, cancellable `runAsync` whose `createPromise` throws; 1 row | closing after a cancellation; the queue stops only behind a lost call, and cancelling that call revives it |
| `connection_rowcount` | writing and reading `runAsync` | violation, section 5 |
| `events` | 2 listeners, 3 kinds, a writing call that may throw out of its step, 1 vacuum, any assignments of `fireEvents`; 1 change each | hook and counters agree; no event lost unless the dispatcher refuses it and the call fails; a vacuum is silent and leaves `fireEvents` as the client wants it; registration returns |
| `events_overlap` | 2 vacuums, no assignment | violation, section 5 |
| `groups` | requests for an index and for two keys, 3 tables | one query's groups, hints that add up, a key leads to its group, every request ends |
| `groups_empty` | the same | violation, section 5 |
| `items` | a count, the page of the first item, a page around an item that may be missing; 2 queries of 2 or 3 rows | calls carry one query's SQL and arguments; an undisturbed page agrees with its count; every request ends |
| `opening` | 3 calls | version known, no handle lost, cache mode as set, every call settles |
| `values` | tables of 1 or 2 columns and up to 2 rows over 11 values of every kind; all 26 result codes | what was given comes back, except where the code is known to lose it (below); the error tells the code |

*Bounds.* Calls are issued once each, so four of them give every position (in flight,
about to start, queued, last) an occupant, and two cancellations give two surplus
callbacks, which is where they begin to interact. Three queued calls are needed in
`connection_serial` for the call after the next to disturb what is still unread.
`MaxRows = 2` gives a row that is not the last; one row is enough where the callback as
such matters. One change per operation (`MaxChanges`) gives events before and after a
listener or an assignment. Three openers give one that finds the version known, one
that is asking and one that is opening. Three requests of a data source give two
overlapping loads and one that comes after; the tables of `groups` have a first group that
is empty, full or missing, so that every other group moves. `Size = {2, 3}` in `items`
makes the item at index 2 exist or not. In `values` the 64 bits of a date are
scaled to 8 (`Width = 256`, `Tick = 2`, `Epoch = 40`), with one date before 1601 and one before
1970, and both wrap as the real ones do; the texts hold each class of character that
`writeEscaped` tells apart, and the names include duplicates and one with a quote.
None of the bounds cuts a behaviour of the code short; they limit the size of the data.

*Conditional properties.* Several properties hold only while no call was cancelled
or no vacuum started (`Abandoned`, `muddled`, `disturbed`, `steady`). That is what the code
guarantees. The conditions are not idle: with them dropped TLC finds, within the same
instances, an error text of another call after a cancellation, two operations at once, a
freed handle used by a cancelled call, a leaked handle behind a vacuum, the count of a
vacuum in the answer of a `runAsync`, and events that stay off behind a failed vacuum.
`RowIdIsOwn` is about INSERTs that insert a row; after an UPDATE, a DELETE or an ignored
INSERT `lastInsertRowId` is an earlier call's, as SQLite documents. `RowsComeBack` leaves out
what the code loses, and so does not guard against it: the rest of a text after a NUL
(`Statement.cpp:75`, `225`; such a text need only come back as a beginning of itself), all
rows of an answer with an infinite number (`231-232`), and column names that need an escape
(`222`). Nothing in the repository promises otherwise. `ErrorTellsCode` is about the code
that a call of SQLite returns; the step of a statement of `sqlite3_prepare16` returns 1, 5 or
21 whatever the cause, so the `resultCode` of a constraint does not reach the client.

*Fairness.* Weak fairness of the queue's callbacks (`EventLoop`, `Begin \/ Turn`): the
event loop runs what `setImmediate` scheduled. Of each `FinishItem`: a native call ends
- an assumption in PromiseQueue, replaced in Connection by fairness of the threads
(`Work`), of the completion handlers (`Complete`) and of the row callbacks
(`Callback`), from which it follows there. Nothing is assumed of the client: calls,
cancellations, vacuums, registrations, assignments and `close` may never come. In
ChangeEvents the threads and the UI thread are fair, but the mutex need not be - the
operations that compete for it are finitely many - and once an exception has kept the
mutex nobody is assumed to get the thread that has it. In OpenDatabase the opening
thread ends one way or the other, the handlers run and the version query is answered or
fails. The data sources assume that the queue serves their calls, which is what the
runs of the queue and the connection show.

*Deadlock* is checked everywhere but in `values`, whose behaviours end with their
answer. Where a system has come to rest the specification says so (`Quiescent`, `Rest`,
`Hung`): nothing to do, or nothing possible behind a lost call or a kept mutex.

## 4. Proofs

For every finite set of calls, every choice of the cancellable, throwing, unsafe and
writing ones, every set of vacuums, listeners, openers, requests, queries and tables.
The assumptions are the named ASSUMEs of the modules, which the runs evaluate. Of
Values: all sets of values and names, tables of any size, texts of any length, any even
width of a date.

*The queue* (`PromiseQueueProofs`). None of its properties is inductive. `OneAtATime`, for
instance, depends on how many callbacks are pending, on whether an idle queue can have
calls in flight, and on which item the next callback takes. The inductive invariant
`QueueInv` has four parts: the types; `Placed`, where an item can be (a queued item is not
in flight, is queued once, is pending unless cancelled, and carries the mark exactly if
it was); `Counted`, the balance *in flight + callbacks <= 1 + cancellations*, tighter by
one and with no items queued when `_busy` is false; and `Awake`, that a busy queue with
nothing to come has lost an item. The tighter bound for the idle queue is what lets
`append` wake it. From it follow `QueueBounded`, `QueueSerial` (no cancellation: at most
one), `QueueAwake` and, with the extra fact that `Canceled` is a subset of `Cancellable`,
`QueueImplements`: the queue implements `CallQueue`.

*The connection* (`ConnectionProofs`). `ConnectionUsesQueue` shows that every step is a
step of the queue or leaves it alone, which carries the queue's theorems over.
`ConnectionTypeCorrect` adds the types of the native state. `RunsForCall` - a thread at work
for a queued call stands for a call in flight or a cancelled one - is the link between
the halves; with `Counted` at zero cancellations it leaves at most one thread
(`ConnectionNoOverlap`).

*What a call is told* (`ConnectionResultProofs`). `ResultInv` adds the threads' side: a
statement exists in exactly the phases between prepare and finalize, a thread in Each
is one row ahead of its callback only while it waits for it, and a promise is settled
only by a thread that has ended. That gives `EachDeliversAll` at once. `CleanClose` needs
`ClosedInv`, that nobody is pending behind a close: then a thread with a statement
belongs to a vacuum or a cancelled call. `WriterInv` follows the last change, the row id and
the count from the step of a writing call to its completion; because two queued calls are
never at work together (`OneAtWork`) no other writer gets there, only a vacuum that has
begun, which proves `WriterCountIsOwn` and the action property `RowIdIsOwn`. `ErrorTextIsOwn` rests on two invariants: `TextInv` bounds whose
failures can stand in the handle while a call is under way (its own and vacuums'), and
`OwnInv` says, place by place, what the only operation at work has left there: nothing
after a bind, its failure through the unwinding of a statement that never ran, and in
`lastErrorMessage` at the end, until the completion handler has read it.

*The connection as its client sees it.* `ConnectionAnswersAsIfAlone` is the refinement: every
behaviour of Connection in which nothing is cancelled is one of SerialCalls, whatever
threads, failures, exceptions and vacuums there are; `ConnectionSerialForPatient` is the case
in which nothing can be cancelled, which `connection_serial` checks without a vacuum and
`connection_vacuum` with one and with exceptions of C++. Step by step: a turn of the queue
begins a call only when none is in flight (`AloneTurn`, from `Counted`); a thread's step
finds a row, makes its call's change, reads the count (`CountShown`), is a vacuum's
disturbance or shows nothing, and a callback is the gift of the one row that is not yet
given (`AloneWork`, from `ThreadInv`); a completion is an answer (`AloneAnswer`). The last
needs everything proved before of errors and counts and one more invariant: `ForeignInv`,
that only unsafe operations throw past the catch.

*Change events* (`ChangeEventsProofs`). `RegistrationInv` relates hook, counters and
listeners, including the listener the UI thread is in the middle of adding; it needs
finite sets of listeners and counting. `VacuumInv` says that while nothing is muddled
there is at most one vacuum, that it remembers what the client wants, and that events
are off from its clearing to its restoring, whence `FireEventsKept` and
`VacuumIsSilent`; with both, `NoMissedEvent` holds of every step: `ChangeFacts` are the three
ways of `Change` (dispatched, refused, nothing due).

*Opening* (`OpenDatabaseProofs`). `InStep` ties promise, thread and handle of one call
together, `CacheHeld` the flag of the process to what a call found when it was made.

*The data sources.* `LoadInv` (`GroupSourceProofs`) follows a load row by row: what is
collected starts where the last group ends and is all the groups with items so far; `KeyInv`
adds what map, rows and groups say of each other while the table is steady. `ItemInv`
(`ItemSourceProofs`) says which calls stand in the queue for which requests, that SQL
and arguments of each are one query's, and that an undisturbed call is about the rows
of now.

*Values* (`ValuesProofs`). `RowsComeBack` is about folds over data of any length: the
characters of a text, the columns of a row, the rows of a table, and the parser that
reads them token by token. The induction theorems of the library take an operator as
a parameter, which the provers cannot instantiate; here induction goes over a set of
natural numbers instead of a predicate (`Induction`) and rests on its least element. With it
`FlattenFacts` and `ReadFacts` open the two recursive functions, `ReadConcat` says that
texts are read one after the other, and then each writer has its lemma: what `Escaped`
writes of a character is read as that character (`ReadEscaped`), so a written text as the
text (`ReadAllEscaped`), a column as a member (`ReadColumn`), a row as the members of its
columns, of which the last one of a name counts (`ReadRow`, `Holds`), a table as its rows
(`ReadAll`); one infinite number, and the parser refuses and stays with it (`ReadError`).
`WholeMilliseconds` and `SignedUnsigned` are the dates: the division is exact on either side
of 1601 and the detour through an unsigned number harmless for any even width. What is
left for the steps is `ValueInv`, that table and row are what was bound. `Back`, what the
parser makes of what was written of a value, belongs to the proof; that it is a value in the
sense of `ComesBack` is a lemma of its own (`BackComesBack`). `ErrorTellsCode` rests
on the halves of the 26 HRESULTs, no two of which are the same (`HalvesTell`), and none that
of E_POINTER.

*Type invariants.* Those of the events and of the data sources are checked and proved; those of
the queue, the connection and `openAsync` are proved only (`QueueTypeCorrect`,
`ConnectionTypeCorrect`, `OpeningType`).

*Only model-checked.* Liveness (`AllSettle`, `SettleUnlessLost`, `WorkersEnd`,
`RegistrationReturns`, `RequestsEnd`, `ItemRequestsEnd`, `OpenSettles`), which the prover
does not reach.

## 5. Divergences found

* `connection_rowcount`: `runAsync` answers with `sqlite3_changes` of the handle
  (`Database.cpp:228`). A statement that changes no rows leaves that number as it was,
  so the caller is given the count of an earlier call. `README.md:30` promises "the
  number of rows affected by the executed SQL statement". For statements that do
  write, `WriterCountIsOwn` holds: their own count or, with a vacuum begun, the vacuum's.
* `events_overlap`: of two overlapping `vacuumAsync` the first turns `fireEvents`
  on again under the second (`Database.cpp:163-168`), whose copied rows are then
  dispatched, which the comment at `Database.cpp:165-166` wants to prevent. With a single
  vacuum that neither fails nor meets an assignment, `VacuumIsSilent` and
  `FireEventsKept` hold.
* `groups_empty`: `_keyIndexMap` counts all groups of the query (`SQLite3.js:345-346`), `_groups`
  keeps those with items (line 351), and `itemsFromKey` uses the one as an index of the
  other (line 373): behind an empty group a key leads to another group or past the
  end. `SQLite3Spec.js:592-595` expects the group that was asked for. While no group is
  empty and the table does not change, `KeyLeadsToGroup` holds.

## 6. Not modelled

* SQLite itself. `sqlite3.c` and `sqlite3.h` are a vendored release and 99 % of the lines of
  the component's directory; the modules state only what this program relies on: each
  call is atomic under the mutex of the handle, and which call changes its error, change
  count, last row id and hook. Locks between connections appear as steps that fail.
* `Constants`, a table; the specs, the runner, the examples and the third-party test
  libraries; project files.
* Of the wrapper: the shuffling of optional arguments, debug logging, and the plain
  accessors `collationLanguage` and `autoCommit`. Transactions: no code of this program
  knows of them.
* Of binding: the integer types that only clients in other languages pass, and the
  look-up of parameters by name (`toPropertySet` with `sqlite3_bind_parameter_name`), except
  that a nameless one may throw. Of texts: the conversion between UTF-16 and UTF-8, and
  the wording of messages.
* What `WINLOCALE`, `REGEXP` and `APPTRANSLATE` compute: Windows and the STL. That they throw is
  modelled. The map of resource loaders (`Database.cpp:77`), shared by the databases of a
  process without a lock, is not: the outcomes of that race are in no variable here.
* The getter of `SharedCache`, which answers FALSE whatever was set: the setter never
  assigns `sharedCache` (`Database.h:18-29`). It needs no run.
* In Connection, a client that closes while it waits for promises.
* The hook is assumed to be called for every change that SQLite reports; it reports
  neither rows that REPLACE removes nor a DELETE of a whole table.
* What the list view does after `invalidateAll`: it makes requests at any time.

## 7. What could come next

The two data sources on top of Connection instead of a queue that serves in order, with
cancelled requests; the map of resource loaders with two databases, if its outcomes
can be named; what `JSON.parse` makes of column names that need an escape (it refuses
most and misreads some); liveness proofs.
