---------------------------- MODULE ChangeEvents ----------------------------
(***************************************************************************)
(* The insert, update and delete events of a database object: Database.h   *)
(* lines 62 to 114 and Database.cpp lines 137 to 212.  Three threads meet  *)
(* here: the UI thread registers listeners, switches fireEvents and runs   *)
(* the dispatched events; the thread of a writing operation runs OnChange  *)
(* under SQLite's mutex, once for each row; the thread of a vacuum turns   *)
(* fireEvents off and on again.                                            *)
(*                                                                         *)
(* SQLite and the dispatcher are external: sqlite3_step holds the mutex of *)
(* the handle from beginning to end, sqlite3_update_hook waits for it, and *)
(* the dispatcher runs what it is given later, in order, on the UI thread, *)
(* or refuses it with an exception when the queue of messages there, in    *)
(* which others have theirs too, is full.                                  *)
(***************************************************************************)
EXTENDS Naturals, Sequences, SequencesExt

CONSTANTS
  Listener,   \* the listeners the client may register
  Writer,     \* operations that change rows
  Vacuum,     \* operations started by vacuumAsync
  Unsafe,     \* those in whose SQL a REGEXP or a WINLOCALE comparison may throw
  Assigned,   \* the values the client may assign to fireEvents
  MaxChanges, \* bound: rows an operation changes
  Free        \* nobody holds the mutex; the UI thread waits for nothing

ASSUME EventsAssumption ==
  /\ Writer \cap Vacuum = {}
  /\ Unsafe \subseteq Writer \cup Vacuum
  /\ Assigned \subseteq BOOLEAN
  /\ MaxChanges \in Nat
  /\ Free \notin Writer \cup Vacuum
  /\ Free \notin {"hook", "unhook"}

Kind == {"insert", "update", "delete"}

VARIABLES
  listeners,   \* _Insert, _Update, _Delete
  handlers,    \* insertChangeHandlers, updateChangeHandlers, deleteChangeHandlers
  allHandlers, \* changeHandlers
  hooked,      \* the update hook is set
  ui,          \* what the UI thread waits for: Free, "hook" or "unhook"
  joining,     \* the registration it is in the middle of
  fireEvents,  \* fireEvents
  mutex,       \* which operation is inside sqlite3_step
  kept,        \* a thread has left sqlite3_step by exception, with the mutex
  phase,       \* where the thread of each operation is
  old,         \* oldFireEvents of each vacuum
  changed,     \* the kinds of change an operation has made, in order
  pending,     \* the events in the dispatcher's queue
  wanted,      \* history: what the client last assigned to fireEvents
  muddled      \* history: a vacuum failed, or met another or an assignment

uiVars == <<listeners, handlers, allHandlers, hooked, ui, joining>>
opVars == <<mutex, kept, phase, old, changed>>
eventVars == <<listeners, handlers, allHandlers, hooked, ui, joining, fireEvents,
               mutex, kept, phase, old, changed, pending, wanted, muddled>>

Op == Writer \cup Vacuum

EventsTypeOK ==
  /\ listeners \in [Kind -> SUBSET Listener]
  /\ handlers \in [Kind -> Nat]
  /\ allHandlers \in Nat
  /\ hooked \in BOOLEAN
  /\ ui \in {Free, "hook", "unhook"}
  /\ joining \in SUBSET (Kind \X Listener)
  /\ fireEvents \in BOOLEAN
  /\ mutex \in Op \cup {Free}
  /\ kept \in BOOLEAN
  /\ phase \in [Op -> {"idle", "saved", "waiting", "stepping", "restoring", "done", "failed"}]
  /\ old \in [Vacuum -> BOOLEAN]
  /\ changed \in [Op -> Seq(Kind)]
  /\ pending \in Seq([kind : Kind, of : Op])
  /\ wanted \in BOOLEAN
  /\ muddled \in BOOLEAN

EventsInit ==
  /\ listeners = [k \in Kind |-> {}]
  /\ handlers = [k \in Kind |-> 0]
  /\ allHandlers = 0
  /\ hooked = FALSE
  /\ ui = Free
  /\ joining = {}
  /\ fireEvents = TRUE
  /\ mutex = Free
  /\ kept = FALSE
  /\ phase = [o \in Op |-> "idle"]
  /\ old = [v \in Vacuum |-> TRUE]
  /\ changed = [o \in Op |-> << >>]
  /\ pending = << >>
  /\ wanted = TRUE
  /\ muddled = FALSE

\* The vacuums that have begun and are neither done nor failed.
Vacuuming == {v \in Vacuum : phase[v] \notin {"idle", "done", "failed"}}

-----------------------------------------------------------------------------
\* addEventListener: the counters rise; for the first listener of all, the
\* UI thread goes on to wait for the mutex in sqlite3_update_hook.
AddListener(k, l) ==
  /\ ui = Free
  /\ l \notin listeners[k]
  /\ handlers' = [handlers EXCEPT ![k] = @ + 1]
  /\ allHandlers' = allHandlers + 1
  /\ \/ /\ allHandlers = 0
        /\ ui' = "hook"
        /\ joining' = {<<k, l>>}
        /\ UNCHANGED listeners
     \/ /\ allHandlers > 0
        /\ listeners' = [listeners EXCEPT ![k] = @ \cup {l}]
        /\ UNCHANGED <<ui, joining>>
  /\ UNCHANGED <<hooked, fireEvents, opVars, pending, wanted, muddled>>

\* ... and comes back with the hook set, to add the listener.
SetHook ==
  /\ ui = "hook"
  /\ mutex = Free /\ ~kept
  /\ hooked' = TRUE
  /\ listeners' = [k \in Kind |-> listeners[k] \cup {l \in Listener : <<k, l>> \in joining}]
  /\ ui' = Free
  /\ joining' = {}
  /\ UNCHANGED <<handlers, allHandlers, fireEvents, opVars, pending, wanted, muddled>>

Forget(k, l, counted, last) ==
  /\ ui = Free
  /\ l \in listeners[k]
  /\ listeners' = [listeners EXCEPT ![k] = @ \ {l}]
  /\ handlers' = [handlers EXCEPT ![counted] = @ - 1]
  /\ allHandlers' = allHandlers - 1
  /\ ui' = IF allHandlers = last THEN "unhook" ELSE Free
  /\ UNCHANGED <<hooked, joining, fireEvents, opVars, pending, wanted, muddled>>

\* Deviation: the counter is tested before it is decreased.
RemoveListenerLate(k, l) == Forget(k, l, k, 0)

\* Deviation: every removal decreases the counter of the insert listeners.
RemoveListenerOfInsert(k, l) == Forget(k, l, "insert", 1)

\* removeEventListener: the last listener of all takes the hook with it.
RemoveListener(k, l) == Forget(k, l, k, 1)

ClearHook ==
  /\ ui = "unhook"
  /\ mutex = Free /\ ~kept
  /\ hooked' = FALSE
  /\ ui' = Free
  /\ UNCHANGED <<listeners, handlers, allHandlers, joining, fireEvents, opVars,
                 pending, wanted, muddled>>

\* The client assigns fireEvents.
SetFireEvents(b) ==
  /\ ui = Free
  /\ fireEvents' = b
  /\ wanted' = b
  /\ muddled' = (muddled \/ Vacuuming # {})
  /\ UNCHANGED <<uiVars, opVars, pending>>

\* The UI thread runs the oldest dispatched event: whoever listens by now
\* hears of it.
Deliver ==
  /\ ui = Free
  /\ pending # << >>
  /\ pending' = Tail(pending)
  /\ UNCHANGED <<uiVars, fireEvents, opVars, wanted, muddled>>

-----------------------------------------------------------------------------
\* A writing operation comes to its sqlite3_step.
StartWriter(o) ==
  /\ o \in Writer
  /\ phase[o] = "idle"
  /\ phase' = [phase EXCEPT ![o] = "waiting"]
  /\ UNCHANGED <<uiVars, fireEvents, mutex, kept, old, changed, pending, wanted, muddled>>

\* VacuumAsync remembers fireEvents ...
SaveFireEvents(v) ==
  /\ phase[v] = "idle"
  /\ old' = [old EXCEPT ![v] = fireEvents]
  /\ phase' = [phase EXCEPT ![v] = "saved"]
  /\ muddled' = (muddled \/ Vacuuming # {})
  /\ UNCHANGED <<uiVars, fireEvents, mutex, kept, changed, pending, wanted>>

Quieten(v, b) ==
  /\ phase[v] = "saved"
  /\ fireEvents' = b
  /\ phase' = [phase EXCEPT ![v] = "waiting"]
  /\ UNCHANGED <<uiVars, mutex, kept, old, changed, pending, wanted, muddled>>

\* Deviation: fireEvents stays as it is.
KeepFireEvents(v) == Quieten(v, fireEvents)

\* ... and clears it before VACUUM runs.
ClearFireEvents(v) == Quieten(v, FALSE)

\* An operation enters sqlite3_step when it gets the mutex.  One that was kept
\* lets it in only on the thread that kept it.
EnterStep(o) ==
  /\ phase[o] = "waiting"
  /\ mutex = Free
  /\ mutex' = o
  /\ phase' = [phase EXCEPT ![o] = "stepping"]
  /\ UNCHANGED <<uiVars, fireEvents, kept, old, changed, pending, wanted, muddled>>

\* The update hook of SQLite is set, and OnChange has an event to dispatch.
Due(asked) == hooked /\ fireEvents /\ handlers[asked] > 0

\* The dispatcher has refused an event: the exception leaves the update hook
\* and sqlite3_step, whose mutex stays with the thread, and the operation fails.
Refused(o) ==
  /\ mutex' = Free
  /\ kept' = TRUE
  /\ phase' = [phase EXCEPT ![o] = "failed"]
  /\ muddled' = (muddled \/ o \in Vacuum)

Report(o, k, asked) ==
  /\ mutex = o
  /\ Len(changed[o]) < MaxChanges
  /\ o \in Vacuum => k = "insert"
  /\ changed' = [changed EXCEPT ![o] = Append(@, k)]
  /\ \/ /\ Due(asked)
        /\ pending' = Append(pending, [kind |-> k, of |-> o])
        /\ UNCHANGED <<mutex, kept, phase, muddled>>
     \/ Due(asked) /\ Refused(o) /\ UNCHANGED pending
     \/ ~Due(asked) /\ UNCHANGED <<pending, mutex, kept, phase, muddled>>
  /\ UNCHANGED <<uiVars, fireEvents, old, wanted>>

\* Deviation: an event of one kind is dispatched for the listeners of another.
ChangeForInsert(o, k) == Report(o, k, "insert")

\* A row changes in a way that SQLite reports (it is silent about rows that
\* REPLACE or a DELETE of the whole table removes); a VACUUM inserts every row
\* anew.  SQLite calls the hook if there is one, and OnChange dispatches an
\* event, or fails to, if events are on and there is a listener for its kind.
Change(o, k) == Report(o, k, k)

Return(o) ==
  /\ mutex = o
  /\ mutex' = Free
  /\ \/ /\ phase' = [phase EXCEPT ![o] = IF o \in Writer THEN "done" ELSE "restoring"]
        /\ UNCHANGED <<kept, muddled>>
     \/ /\ phase' = [phase EXCEPT ![o] = "failed"]
        /\ kept' \in {kept, kept \/ o \in Unsafe}
        /\ muddled' = (muddled \/ o \in Vacuum)
  /\ UNCHANGED <<uiVars, fireEvents, old, changed, pending, wanted>>

\* Deviation: OnChange waits for the dispatched events, as Each does.
LeaveStepAfterEvents(o) == pending = << >> /\ Return(o)

\* sqlite3_step returns, or an exception leaves it and the mutex is kept.  A
\* VACUUM that fails throws past the assignment that would restore fireEvents.
LeaveStep(o) == Return(o)

Restore(v, b) ==
  /\ phase[v] = "restoring"
  /\ fireEvents' = b
  /\ phase' = [phase EXCEPT ![v] = "done"]
  /\ UNCHANGED <<uiVars, mutex, kept, old, changed, pending, wanted, muddled>>

\* Deviation: a vacuum turns the events on when it is done.
RestoreOn(v) == Restore(v, TRUE)

RestoreFireEvents(v) == Restore(v, old[v])

\* The steps of an operation's thread that are not up to SQLite's statement.
OpStep(o) ==
  \/ EnterStep(o)
  \/ LeaveStep(o)
  \/ o \in Vacuum /\ (ClearFireEvents(o) \/ RestoreFireEvents(o))

\* The UI thread waits for a mutex that will not be free: the application hangs.
Hung ==
  /\ ui # Free /\ kept
  /\ UNCHANGED eventVars

EventsNext ==
  \/ \E k \in Kind, l \in Listener : AddListener(k, l)
  \/ \E k \in Kind, l \in Listener : RemoveListener(k, l)
  \/ SetHook
  \/ ClearHook
  \/ Deliver
  \/ \E b \in Assigned : SetFireEvents(b)
  \/ \E o \in Writer : StartWriter(o)
  \/ \E v \in Vacuum : SaveFireEvents(v)
  \/ \E o \in Op, k \in Kind : Change(o, k)
  \/ \E o \in Op : OpStep(o)
  \/ Hung

\* Threads of the pool and the UI thread run when they can, but nobody gives
\* an operation the thread that has kept the mutex.  The mutex need not be
\* fair: the operations that compete for it are finitely many.  The client's
\* calls, and how many rows a statement changes, are free.
EventsFairness ==
  /\ WF_eventVars(SetHook \/ ClearHook)
  /\ WF_eventVars(Deliver)
  /\ \A o \in Op : WF_eventVars((kept => mutex = o \/ phase[o] # "waiting") /\ OpStep(o))

EventsSpec == EventsInit /\ [][EventsNext]_eventVars

EventsFairSpec == EventsSpec /\ EventsFairness

-----------------------------------------------------------------------------
Registering(k) == {l \in Listener : <<k, l>> \in joining}

\* The counters that worker threads read agree with the listeners they stand
\* for, and SQLite has the hook exactly while somebody listens - except while
\* the UI thread is waiting to change it.
HookMatchesListeners ==
  /\ \A k \in Kind : handlers[k] = Cardinality(listeners[k] \cup Registering(k))
  /\ allHandlers = handlers["insert"] + handlers["update"] + handlers["delete"]
  /\ ui = Free => (hooked <=> allHandlers > 0)

\* No event is lost in silence: while no vacuum is running, a row changed by a
\* call becomes an event for its listeners if the client wants events, or the
\* dispatcher refuses it (the QUOTA_EXCEEDED of Database.cpp:165-166, raised at
\* line 209) and the call fails.  Nothing is promised once a vacuum has failed,
\* which leaves the events off, or met another vacuum or an assignment.
NoMissedEvent ==
  [][\A o \in Writer :
       changed'[o] # changed[o] /\ wanted /\ Vacuuming = {} /\ ~muddled =>
         LET k == Last(changed'[o])
         IN  listeners[k] # {} =>
               \/ pending' = Append(pending, [kind |-> k, of |-> o])
               \/ pending' = pending /\ phase'[o] = "failed"]_eventVars

\* Rows that VACUUM copies are not events: the comment at Database.cpp:166
\* tells what too many of them do.
VacuumIsSilent == ~muddled => \A n \in 1..Len(pending) : pending[n].of \notin Vacuum

\* The same without the proviso, as the comment has it (checked for a client
\* that never assigns fireEvents).
VacuumIsAlwaysSilent == \A n \in 1..Len(pending) : pending[n].of \notin Vacuum

\* After a vacuum fireEvents is what the client last assigned, unless a vacuum
\* failed or met another vacuum or an assignment.
FireEventsKept == ~muddled /\ Vacuuming = {} => fireEvents = wanted

\* Registering or removing a listener never leaves the UI thread waiting for a
\* thread that waits for the UI thread; it waits for ever only for a mutex that
\* an exception has kept.
RegistrationReturns == ui # Free ~> ui = Free \/ kept
=============================================================================
