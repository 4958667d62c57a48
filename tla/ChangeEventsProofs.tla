------------------------- MODULE ChangeEventsProofs -------------------------
(***************************************************************************)
(* Theorems about ChangeEvents, for any set of listeners, any operations   *)
(* and vacuums, and any number of changed rows.                            *)
(***************************************************************************)
EXTENDS ChangeEvents, FiniteSetTheorems, SequenceTheorems, TLAPS

\* What the registration on the UI thread is in the middle of: it waits to set
\* the hook for the first listener, which nobody else has joined yet, or to
\* clear it after the last one has gone.
Registration ==
  /\ \A k \in Kind : IsFiniteSet(listeners[k])
  /\ ui # "hook" => joining = {}
  /\ ui = "hook" =>
       /\ allHandlers > 0
       /\ \A k \in Kind : listeners[k] = {}
       /\ \E k \in Kind, l \in Listener : joining = {<<k, l>>}
  /\ ui = "unhook" => allHandlers = 0

RegistrationInv == EventsTypeOK /\ Registration /\ HookMatchesListeners

-----------------------------------------------------------------------------
\* Facts about the three kinds and the values of ui, which the steps below need
\* again and again.
LEMMA UiFacts ==
  /\ Kind = {"insert", "update", "delete"}
  /\ Free # "hook" /\ Free # "unhook"
  BY EventsAssumption DEF Kind

\* A counter is zero exactly if the listeners it counts are none.
LEMMA CounterFacts ==
  ASSUME RegistrationInv, NEW k \in Kind
  PROVE  /\ ui # "hook" => Registering(k) = {}
         /\ IsFiniteSet(listeners[k])
         /\ Cardinality(listeners[k]) \in Nat
         /\ Cardinality(listeners[k]) = 0 <=> listeners[k] = {}
         /\ ui # "hook" => handlers[k] = Cardinality(listeners[k])
         /\ handlers[k] \in Nat
         /\ handlers[k] <= allHandlers
<1>1. IsFiniteSet(listeners[k])
  BY DEF RegistrationInv, Registration
<1>2. Cardinality(listeners[k]) \in Nat /\ (Cardinality(listeners[k]) = 0 <=> listeners[k] = {})
  BY <1>1, FS_CardinalityType, FS_EmptySet
<1>3. ui # "hook" => Registering(k) = {}
  BY DEF RegistrationInv, Registration, Registering
<1>4. ui # "hook" => handlers[k] = Cardinality(listeners[k])
  <2>1. handlers[k] = Cardinality(listeners[k] \cup Registering(k))
    BY Zenon DEF RegistrationInv, HookMatchesListeners
  <2>2. listeners[k] \cup {} = listeners[k]
    OBVIOUS
  <2> QED BY <1>3, <2>1, <2>2, Zenon
<1>5. handlers[k] \in Nat /\ handlers[k] <= allHandlers
  <2>1. /\ handlers["insert"] \in Nat /\ handlers["update"] \in Nat /\ handlers["delete"] \in Nat
        /\ handlers[k] \in {handlers["insert"], handlers["update"], handlers["delete"]}
    BY UiFacts DEF RegistrationInv, EventsTypeOK
  <2>2. allHandlers = handlers["insert"] + handlers["update"] + handlers["delete"]
    BY Zenon DEF RegistrationInv, HookMatchesListeners
  <2> QED BY <2>1, <2>2
<1> QED BY <1>1, <1>2, <1>3, <1>4, <1>5

\* A listener is added: its counter and the counter of all rise by one.
LEMMA AddStep ==
  ASSUME RegistrationInv, EventsTypeOK', NEW k \in Kind, NEW l \in Listener, AddListener(k, l)
  PROVE  Registration' /\ HookMatchesListeners'
<1>1. /\ EventsTypeOK /\ ui = Free /\ ui # "hook" /\ ui # "unhook" /\ joining = {}
      /\ hooked' = hooked
  BY UiFacts DEF AddListener, RegistrationInv, Registration
<1>2. /\ \A j \in Kind : handlers'[j] = IF j = k THEN handlers[j] + 1 ELSE handlers[j]
      /\ allHandlers' = allHandlers + 1
      /\ allHandlers \in Nat
  BY <1>1 DEF AddListener, EventsTypeOK
<1>3. allHandlers' = handlers'["insert"] + handlers'["update"] + handlers'["delete"]
  <2>1. allHandlers = handlers["insert"] + handlers["update"] + handlers["delete"]
    BY Zenon DEF RegistrationInv, HookMatchesListeners
  <2>2. /\ handlers["insert"] \in Nat /\ handlers["update"] \in Nat /\ handlers["delete"] \in Nat
    BY UiFacts, CounterFacts
  <2> QED BY <1>2, <2>1, <2>2, UiFacts
<1>4. \A j \in Kind : listeners'[j] \cup Registering(j)' =
        IF j = k THEN listeners[j] \cup {l} ELSE listeners[j]
  BY <1>1 DEF AddListener, Registering, EventsTypeOK
<1>5. l \notin listeners[k] /\ \A j \in Kind : IsFiniteSet(listeners[j])
  BY DEF AddListener, RegistrationInv, Registration
<1>6. \A j \in Kind : handlers'[j] = Cardinality(listeners'[j] \cup Registering(j)')
  <2> SUFFICES ASSUME NEW j \in Kind
               PROVE  handlers'[j] = Cardinality(listeners'[j] \cup Registering(j)')
    OBVIOUS
  <2>1. handlers[j] = Cardinality(listeners[j])
    BY <1>1, CounterFacts
  <2>2. Cardinality(listeners[k] \cup {l}) = Cardinality(listeners[k]) + 1
    BY <1>5, FS_AddElement
  <2> QED BY <1>2, <1>4, <2>1, <2>2
<1>7. CASE allHandlers = 0
  <2>1. ui' = "hook" /\ joining' = {<<k, l>>} /\ listeners' = listeners
    BY <1>7 DEF AddListener
  <2>2. \A j \in Kind : listeners[j] = {}
    BY <1>1, <1>7, CounterFacts
  <2>3. Registration'
    BY <1>2, <1>5, <2>1, <2>2 DEF Registration
  <2>4. ui' # Free
    BY <2>1, UiFacts
  <2> QED BY <1>3, <1>6, <2>3, <2>4, Zenon DEF HookMatchesListeners
<1>8. CASE allHandlers > 0
  <2>1. ui' = ui /\ joining' = joining /\ listeners' = [listeners EXCEPT ![k] = @ \cup {l}]
    BY <1>2, <1>8 DEF AddListener
  <2>2. \A j \in Kind : IsFiniteSet(listeners'[j])
    BY <1>1, <1>5, <2>1, FS_AddElement DEF EventsTypeOK
  <2>3. Registration'
    BY <1>1, <2>1, <2>2 DEF Registration
  <2>4. hooked' /\ allHandlers' > 0
    <3>1. hooked
      BY <1>1, <1>8, Zenon DEF RegistrationInv, HookMatchesListeners
    <3>2. allHandlers' > 0
      BY <1>2, <1>8
    <3> QED BY <1>1, <3>1, <3>2, Zenon
  <2> QED BY <1>3, <1>6, <2>3, <2>4, Zenon DEF HookMatchesListeners
<1> QED BY <1>2, <1>7, <1>8

\* A listener is removed, and the last one leaves the hook to be cleared.
LEMMA RemoveStep ==
  ASSUME RegistrationInv, EventsTypeOK', NEW k \in Kind, NEW l \in Listener, RemoveListener(k, l)
  PROVE  Registration' /\ HookMatchesListeners'
<1>1. /\ EventsTypeOK /\ ui = Free /\ ui # "hook" /\ ui # "unhook" /\ joining = {}
      /\ hooked' = hooked /\ joining' = {}
  BY UiFacts DEF RemoveListener, Forget, RegistrationInv, Registration
<1>2. /\ \A j \in Kind : handlers'[j] = IF j = k THEN handlers[j] - 1 ELSE handlers[j]
      /\ \A j \in Kind : listeners'[j] = IF j = k THEN listeners[j] \ {l} ELSE listeners[j]
      /\ allHandlers' = allHandlers - 1
      /\ allHandlers \in Nat
      /\ l \in listeners[k]
      /\ ui' = IF allHandlers = 1 THEN "unhook" ELSE Free
  BY <1>1 DEF RemoveListener, Forget, EventsTypeOK
<1>3. allHandlers' = handlers'["insert"] + handlers'["update"] + handlers'["delete"]
  <2>1. allHandlers = handlers["insert"] + handlers["update"] + handlers["delete"]
    BY Zenon DEF RegistrationInv, HookMatchesListeners
  <2>2. /\ handlers["insert"] \in Nat /\ handlers["update"] \in Nat /\ handlers["delete"] \in Nat
    BY UiFacts, CounterFacts
  <2> QED BY <1>2, <2>1, <2>2, UiFacts
<1>4. \A j \in Kind : listeners'[j] \cup Registering(j)' = listeners'[j]
  BY <1>1 DEF Registering
<1>5. \A j \in Kind : IsFiniteSet(listeners[j])
  BY DEF RegistrationInv, Registration
<1>6. \A j \in Kind : handlers'[j] = Cardinality(listeners'[j] \cup Registering(j)')
  <2> SUFFICES ASSUME NEW j \in Kind PROVE handlers'[j] = Cardinality(listeners'[j])
    BY <1>4
  <2>1. handlers[j] = Cardinality(listeners[j])
    BY <1>1, CounterFacts
  <2>2. Cardinality(listeners[k] \ {l}) = Cardinality(listeners[k]) - 1
    BY <1>2, <1>5, FS_RemoveElement
  <2> QED BY <1>2, <2>1, <2>2
<1>7. allHandlers > 0
  <2>1. handlers[k] > 0
    BY <1>1, <1>2, CounterFacts
  <2> QED BY <1>2, <2>1, CounterFacts
<1>8. \A j \in Kind : IsFiniteSet(listeners'[j])
  BY <1>2, <1>5, FS_RemoveElement
<1>9. Registration'
  BY <1>1, <1>2, <1>8, UiFacts DEF Registration
<1>10. ui' = Free => (hooked' <=> allHandlers' > 0)
  <2>1. hooked
    BY <1>1, <1>7, Zenon DEF RegistrationInv, HookMatchesListeners
  <2>2. ui' = Free => allHandlers' > 0
    BY <1>2, <1>7, UiFacts
  <2> QED BY <1>1, <2>1, <2>2, Zenon
<1> QED BY <1>3, <1>6, <1>10, <1>9, Zenon DEF HookMatchesListeners

\* The UI thread comes back from setting or clearing the hook.
LEMMA HookStep ==
  ASSUME RegistrationInv, EventsTypeOK', SetHook \/ ClearHook
  PROVE  Registration' /\ HookMatchesListeners'
<1>1. /\ handlers' = handlers /\ allHandlers' = allHandlers /\ ui' = Free /\ joining' = {}
      /\ ui' # "hook" /\ ui' # "unhook"
      /\ EventsTypeOK
  <2>1. ClearHook => joining = {}
    BY DEF ClearHook, RegistrationInv, Registration
  <2> QED BY <2>1, UiFacts DEF SetHook, ClearHook, RegistrationInv
<1>2. \A j \in Kind : listeners'[j] = listeners[j] \cup Registering(j)
  <2>1. CASE SetHook
    BY <2>1 DEF SetHook, Registering
  <2>2. CASE ClearHook
    <3>1. ui # "hook" /\ listeners' = listeners
      BY <2>2 DEF ClearHook
    <3> QED BY <3>1, CounterFacts
  <2> QED BY <2>1, <2>2
<1>3. \A j \in Kind : Registering(j)' = {}
  BY <1>1 DEF Registering
<1>4. \A j \in Kind : handlers'[j] = Cardinality(listeners'[j] \cup Registering(j)')
  <2>1. \A j \in Kind : handlers[j] = Cardinality(listeners[j] \cup Registering(j))
    BY Zenon DEF RegistrationInv, HookMatchesListeners
  <2> QED BY <1>1, <1>2, <1>3, <2>1
<1>5. \A j \in Kind : IsFiniteSet(listeners'[j])
  <2>1. \A j \in Kind : IsFiniteSet(listeners[j])
    BY DEF RegistrationInv, Registration
  <2>2. CASE joining = {}
    BY <1>2, <2>1, <2>2 DEF Registering
  <2>3. ASSUME NEW k \in Kind, NEW l \in Listener, joining = {<<k, l>>}
        PROVE  \A j \in Kind : IsFiniteSet(listeners'[j])
    <3>1. \A j \in Kind : listeners'[j] = IF j = k THEN listeners[j] \cup {l} ELSE listeners[j]
      BY <1>2, <2>3 DEF Registering
    <3>2. IsFiniteSet(listeners[k] \cup {l})
      BY <2>1, FS_AddElement
    <3> QED BY <2>1, <3>1, <3>2
  <2>4. joining = {} \/ \E k \in Kind, l \in Listener : joining = {<<k, l>>}
    BY DEF RegistrationInv, Registration
  <2> QED BY <2>2, <2>3, <2>4, Zenon
<1>6. hooked' <=> allHandlers' > 0
  <2>1. CASE SetHook
    <3>1. allHandlers > 0
      BY <2>1 DEF SetHook, RegistrationInv, Registration
    <3>2. hooked'
      BY <2>1, Zenon DEF SetHook
    <3> QED BY <1>1, <3>1, <3>2, Zenon
  <2>2. CASE ClearHook
    <3>1. ~(allHandlers > 0)
      BY <2>2 DEF ClearHook, RegistrationInv, Registration
    <3>2. ~hooked'
      BY <2>2, Zenon DEF ClearHook
    <3> QED BY <1>1, <3>1, <3>2, Zenon
  <2> QED BY <2>1, <2>2
<1>7. allHandlers' = handlers'["insert"] + handlers'["update"] + handlers'["delete"]
  BY <1>1, Zenon DEF RegistrationInv, HookMatchesListeners
<1>8. Registration'
  BY <1>1, <1>5 DEF Registration
<1> QED BY <1>4, <1>6, <1>7, <1>8, Zenon DEF HookMatchesListeners

\* What the steps of operations and of the client do not touch.
LEMMA RegistrationKept ==
  ASSUME RegistrationInv, UNCHANGED uiVars
  PROVE  Registration' /\ HookMatchesListeners'
  BY DEF RegistrationInv, Registration, HookMatchesListeners, Registering, uiVars

\* A changed row: what OnChange does about it, and what it leaves alone.  If the
\* dispatcher refuses the event, the operation fails and keeps the mutex.
LEMMA ChangeFacts ==
  ASSUME NEW o \in Op, NEW k \in Kind, Change(o, k)
  PROVE  /\ UNCHANGED <<uiVars, fireEvents, old, wanted>> /\ mutex = o
         /\ changed' = [changed EXCEPT ![o] = Append(@, k)]
         /\ \/ /\ pending' = IF Due(k) THEN Append(pending, [kind |-> k, of |-> o]) ELSE pending
               /\ UNCHANGED <<mutex, kept, phase, muddled>>
            \/ Due(k) /\ Refused(o) /\ pending' = pending
  BY Zenon DEF Change, Report

\* A step that registers or removes no listener leaves all of that alone.
LEMMA OtherSteps ==
  ASSUME \/ Deliver \/ Hung \/ UNCHANGED eventVars
         \/ \E b \in Assigned : SetFireEvents(b)
         \/ \E o \in Writer : StartWriter(o)
         \/ \E v \in Vacuum : SaveFireEvents(v)
         \/ \E o \in Op, k \in Kind : Change(o, k)
         \/ \E o \in Op : OpStep(o)
  PROVE  UNCHANGED uiVars
<1>1. ASSUME NEW o \in Op, OpStep(o) PROVE UNCHANGED uiVars
  BY <1>1, Zenon DEF OpStep, EnterStep, LeaveStep, Return, ClearFireEvents, Quieten,
                     RestoreFireEvents, Restore
<1>2. ASSUME NEW o \in Op, NEW k \in Kind, Change(o, k) PROVE UNCHANGED uiVars
  BY <1>2, ChangeFacts, Zenon
<1>3. ASSUME Hung \/ UNCHANGED eventVars PROVE UNCHANGED uiVars
  BY <1>3, Zenon DEF Hung, eventVars, uiVars
<1> QED BY <1>1, <1>2, <1>3, Zenon DEF Deliver, SetFireEvents, StartWriter, SaveFireEvents

\* Every step keeps the types; the counters stay natural numbers because a
\* listener that is removed has been counted.
LEMMA EventsTypeStep ==
  ASSUME RegistrationInv, [EventsNext]_eventVars
  PROVE  EventsTypeOK'
<1>0. EventsTypeOK
  BY DEF RegistrationInv
<1> USE DEF EventsTypeOK
<1>1. ASSUME NEW k \in Kind, NEW l \in Listener, AddListener(k, l) PROVE EventsTypeOK'
  <2>1. /\ handlers' \in [Kind -> Nat]
        /\ allHandlers' \in Nat
        /\ listeners' \in [Kind -> SUBSET Listener]
        /\ ui' \in {Free, "hook", "unhook"}
    <3>1. handlers' \in [Kind -> Nat] /\ allHandlers' \in Nat
      BY <1>0, <1>1 DEF AddListener
    <3>2. listeners' = listeners \/ listeners' = [listeners EXCEPT ![k] = @ \cup {l}]
      BY <1>1, Zenon DEF AddListener
    <3>3. listeners' \in [Kind -> SUBSET Listener]
      BY <1>0, <3>2
    <3>4. ui' = ui \/ ui' = "hook"
      BY <1>1, Zenon DEF AddListener
    <3> QED BY <1>0, <3>1, <3>3, <3>4
  <2>2. joining' \in SUBSET (Kind \X Listener)
    <3>1. joining' = joining \/ joining' = {<<k, l>>}
      BY <1>1, Zenon DEF AddListener
    <3> QED BY <1>0, <3>1
  <2>3. /\ UNCHANGED <<hooked, fireEvents, mutex, kept, phase, old, changed>>
        /\ UNCHANGED <<pending, wanted, muddled>>
    BY <1>1, Zenon DEF AddListener, opVars
  <2> QED BY <1>0, <2>1, <2>2, <2>3
<1>2. ASSUME NEW k \in Kind, NEW l \in Listener, RemoveListener(k, l) PROVE EventsTypeOK'
  <2>1. handlers[k] > 0 /\ handlers[k] <= allHandlers /\ handlers[k] \in Nat /\ allHandlers \in Nat
    BY <1>0, <1>2, UiFacts, CounterFacts DEF RemoveListener, Forget
  <2>2. handlers[k] - 1 \in Nat /\ allHandlers - 1 \in Nat
    BY <2>1
  <2> QED BY <1>0, <1>2, <2>2 DEF RemoveListener, Forget, opVars
<1>3. CASE SetHook
  BY <1>0, <1>3 DEF SetHook, opVars
<1>4. CASE ClearHook
  BY <1>0, <1>4 DEF ClearHook, opVars
<1>5. CASE Deliver
  <2>1. Tail(pending) \in Seq([kind : Kind, of : Op])
    BY <1>0, <1>5, HeadTailProperties DEF Deliver
  <2> QED BY <1>0, <1>5, <2>1 DEF Deliver, uiVars, opVars
<1>6. ASSUME NEW b \in Assigned, SetFireEvents(b) PROVE EventsTypeOK'
  <2>1. muddled' \in BOOLEAN /\ b \in BOOLEAN
    BY <1>6, EventsAssumption, Zenon DEF SetFireEvents
  <2>2. fireEvents' \in BOOLEAN /\ wanted' \in BOOLEAN
    BY <1>6, <2>1, Zenon DEF SetFireEvents
  <2> QED BY <1>0, <1>6, <2>1, <2>2 DEF SetFireEvents, uiVars, opVars
<1>7. ASSUME NEW o \in Writer, StartWriter(o) PROVE EventsTypeOK'
  BY <1>0, <1>7 DEF StartWriter, uiVars, Op
<1>8. ASSUME NEW v \in Vacuum, SaveFireEvents(v) PROVE EventsTypeOK'
  <2>1. muddled' \in BOOLEAN
    BY <1>8, Zenon DEF SaveFireEvents
  <2> QED BY <1>0, <1>8, <2>1 DEF SaveFireEvents, uiVars, Op
<1>9. ASSUME NEW o \in Op, NEW k \in Kind, Change(o, k) PROVE EventsTypeOK'
  <2>1. /\ Append(changed[o], k) \in Seq(Kind)
        /\ Append(pending, [kind |-> k, of |-> o]) \in Seq([kind : Kind, of : Op])
    BY <1>0, AppendProperties
  <2>2. /\ UNCHANGED <<uiVars, fireEvents, old, wanted>>
        /\ changed' = [changed EXCEPT ![o] = Append(@, k)]
        /\ pending' = pending \/ pending' = Append(pending, [kind |-> k, of |-> o])
        /\ UNCHANGED <<mutex, kept, phase, muddled>> \/ Refused(o)
    BY <1>9, ChangeFacts, Zenon
  <2>3. kept' \in BOOLEAN /\ muddled' \in BOOLEAN
    BY <1>0, <2>2, Zenon DEF Refused
  <2>4. mutex' \in Op \cup {Free}
        /\ phase' \in [Op -> {"idle", "saved", "waiting", "stepping", "restoring", "done", "failed"}]
    BY <1>0, <2>2 DEF Refused
  <2> QED BY <1>0, <2>1, <2>2, <2>3, <2>4 DEF uiVars
<1>10. ASSUME NEW o \in Op, OpStep(o) PROVE EventsTypeOK'
  <2>1. CASE EnterStep(o)
    BY <1>0, <2>1 DEF EnterStep, uiVars
  <2>2. CASE LeaveStep(o)
    <3>1. kept' \in BOOLEAN /\ muddled' \in BOOLEAN
      BY <1>0, <2>2, Zenon DEF LeaveStep, Return
    <3> QED BY <1>0, <2>2, <3>1 DEF LeaveStep, Return, uiVars
  <2>3. CASE ClearFireEvents(o)
    BY <1>0, <2>3 DEF ClearFireEvents, Quieten, uiVars
  <2>4. CASE o \in Vacuum /\ RestoreFireEvents(o)
    BY <1>0, <2>4 DEF RestoreFireEvents, Restore, uiVars
  <2> QED BY <1>10, <2>1, <2>2, <2>3, <2>4 DEF OpStep
<1>11. CASE Hung \/ UNCHANGED eventVars
  BY <1>0, <1>11 DEF Hung, eventVars
<1> QED BY <1>1, <1>2, <1>3, <1>4, <1>5, <1>6, <1>7, <1>8, <1>9, <1>10, <1>11 DEF EventsNext

\* The invariant of the registration: types, counters and hook.
THEOREM EventsRegistration == EventsSpec => []RegistrationInv
<1>1. EventsInit => RegistrationInv
  <2> SUFFICES ASSUME EventsInit PROVE RegistrationInv
    OBVIOUS
  <2>1. EventsTypeOK
    <3>1. hooked \in BOOLEAN /\ fireEvents \in BOOLEAN /\ kept \in BOOLEAN
          /\ wanted \in BOOLEAN /\ muddled \in BOOLEAN
      BY Zenon DEF EventsInit
    <3> QED BY <3>1 DEF EventsInit, EventsTypeOK, Kind
  <2>2. Registration
    BY FS_EmptySet, UiFacts DEF EventsInit, Registration
  <2>3. \A k \in Kind : handlers[k] = Cardinality(listeners[k] \cup Registering(k))
    BY FS_EmptySet DEF EventsInit, Registering
  <2>4. allHandlers = handlers["insert"] + handlers["update"] + handlers["delete"]
    BY UiFacts DEF EventsInit
  <2>5. ~(allHandlers > 0)
    BY DEF EventsInit
  <2>6. ~hooked
    BY Zenon DEF EventsInit
  <2> QED BY <2>1, <2>2, <2>3, <2>4, <2>5, <2>6, Zenon DEF RegistrationInv, HookMatchesListeners
<1>2. RegistrationInv /\ [EventsNext]_eventVars => RegistrationInv'
  <2> SUFFICES ASSUME RegistrationInv, [EventsNext]_eventVars
               PROVE  Registration' /\ HookMatchesListeners'
    BY EventsTypeStep DEF RegistrationInv
  <2>1. EventsTypeOK'
    BY EventsTypeStep
  <2>2. ASSUME NEW k \in Kind, NEW l \in Listener, AddListener(k, l) \/ RemoveListener(k, l)
        PROVE  Registration' /\ HookMatchesListeners'
    BY <2>1, <2>2, AddStep, RemoveStep
  <2>3. CASE SetHook \/ ClearHook
    BY <2>1, <2>3, HookStep
  <2>4. CASE UNCHANGED uiVars
    BY <2>4, RegistrationKept
  <2> QED BY <2>2, <2>3, <2>4, OtherSteps, Zenon DEF EventsNext
<1> QED BY <1>1, <1>2, PTL DEF EventsSpec

\* The variables of events, operations and the client keep their types.
THEOREM EventsTypeCorrect == EventsSpec => []EventsTypeOK
  BY EventsRegistration, PTL DEF RegistrationInv

\* The counters agree with the listeners and the hook with the counters.
THEOREM EventsHook == EventsSpec => []HookMatchesListeners
  BY EventsRegistration, PTL DEF RegistrationInv

-----------------------------------------------------------------------------
\* The operation that has the mutex is inside sqlite3_step.
Inside == mutex # Free => phase[mutex] = "stepping"

\* While nothing has gone wrong with fireEvents there is at most one vacuum; it
\* remembers what the client wants, and events are off once it has cleared them.
Alone == \A u, v \in Vacuuming : u = v
Remembered == \A v \in Vacuuming : old[v] = wanted
Quiet == \A v \in Vacuuming : phase[v] # "saved" => ~fireEvents

VacuumInv == Inside /\ FireEventsKept /\ (~muddled => Alone /\ Remembered /\ Quiet)

\* The three parts and FireEventsKept speak of a set of vacuums that a step
\* leaves as it is, together with what they say of its members.
LEMMA VacuumsUntouched ==
  ASSUME VacuumInv, muddled' = muddled, fireEvents' = fireEvents, wanted' = wanted, old' = old,
         Vacuuming' = Vacuuming,
         \A v \in Vacuuming : phase'[v] = "saved" => phase[v] = "saved",
         \A v \in Vacuuming : phase[v] = "saved" => phase'[v] = "saved"
  PROVE  FireEventsKept' /\ (~muddled' => Alone' /\ Remembered' /\ Quiet')
  BY Zenon DEF VacuumInv, FireEventsKept, Alone, Remembered, Quiet

\* The client assigns fireEvents: while a vacuum runs that muddles things.
LEMMA AssignStep ==
  ASSUME EventsTypeOK, VacuumInv, NEW b \in Assigned, SetFireEvents(b)
  PROVE  VacuumInv'
<1>1. /\ fireEvents' = b /\ wanted' = b /\ phase' = phase /\ mutex' = mutex
      /\ ~muddled' => Vacuuming = {}
  BY Zenon DEF SetFireEvents, opVars
<1>2. Vacuuming' = Vacuuming /\ Inside'
  BY <1>1 DEF Vacuuming, VacuumInv, Inside
<1> QED BY <1>1, <1>2, Zenon DEF VacuumInv, FireEventsKept, Alone, Remembered, Quiet

\* A vacuum begins; if another is at work, that muddles things.
LEMMA SaveStep ==
  ASSUME EventsTypeOK, VacuumInv, NEW v \in Vacuum, SaveFireEvents(v)
  PROVE  VacuumInv'
<1>1. /\ phase' = [phase EXCEPT ![v] = "saved"] /\ mutex' = mutex /\ phase[v] = "idle"
      /\ old' = [old EXCEPT ![v] = fireEvents]
  BY DEF SaveFireEvents
<1>2. /\ fireEvents' = fireEvents /\ wanted' = wanted
      /\ ~muddled' => Vacuuming = {} /\ ~muddled
  BY Zenon DEF SaveFireEvents
<1>3. Inside'
  BY <1>1 DEF EventsTypeOK, VacuumInv, Inside, Op
<1>4. Vacuuming' = Vacuuming \cup {v} /\ phase'[v] = "saved" /\ old'[v] = fireEvents
  BY <1>1 DEF EventsTypeOK, Vacuuming, Op
<1>5. ASSUME ~muddled' PROVE Vacuuming' = {v} /\ fireEvents = wanted
  <2>1. Vacuuming = {}
    BY <1>2, <1>5, Zenon
  <2>2. fireEvents = wanted
    BY <1>2, <1>5, Zenon DEF VacuumInv, FireEventsKept
  <2> QED BY <1>4, <2>1, <2>2
<1>6. ASSUME ~muddled' PROVE Alone' /\ Remembered' /\ Quiet' /\ Vacuuming' # {}
  <2>1. \A u \in Vacuuming' : u = v
    BY <1>5, <1>6
  <2>2. Alone'
    BY <2>1 DEF Alone
  <2>3. Remembered' /\ Quiet'
    BY <1>2, <1>4, <1>5, <1>6, <2>1, Zenon DEF Remembered, Quiet
  <2> QED BY <1>5, <1>6, <2>2, <2>3
<1> QED BY <1>3, <1>6, Zenon DEF VacuumInv, FireEventsKept

\* The thread of an operation takes a step of its own.
LEMMA OpVacuumStep ==
  ASSUME EventsTypeOK, VacuumInv, NEW o \in Op, OpStep(o)
  PROVE  VacuumInv'
<1> USE DEF EventsTypeOK
<1>1. CASE EnterStep(o)
  <2>1. /\ phase' = [phase EXCEPT ![o] = "stepping"] /\ mutex' = o /\ phase[o] = "waiting"
        /\ old' = old
    BY <1>1 DEF EnterStep
  <2>2. muddled' = muddled /\ fireEvents' = fireEvents /\ wanted' = wanted
    BY <1>1, Zenon DEF EnterStep
  <2>3. /\ Vacuuming' = Vacuuming /\ Inside'
        /\ \A v \in Vacuuming : phase'[v] = "saved" <=> phase[v] = "saved"
    BY <2>1 DEF Vacuuming, Inside, Op
  <2> QED BY <2>1, <2>2, <2>3, VacuumsUntouched, Zenon DEF VacuumInv
<1>2. CASE LeaveStep(o)
  <2>1. /\ phase[o] = "stepping" /\ mutex' = Free /\ old' = old /\ Inside'
        /\ \/ phase' = [phase EXCEPT ![o] = IF o \in Writer THEN "done" ELSE "restoring"]
           \/ phase' = [phase EXCEPT ![o] = "failed"]
    BY <1>2, EventsAssumption DEF LeaveStep, Return, VacuumInv, Inside, Op
  <2>2. /\ fireEvents' = fireEvents /\ wanted' = wanted
        /\ ~muddled' => ~muddled /\
             (o \in Vacuum => phase' = [phase EXCEPT ![o] = IF o \in Writer THEN "done" ELSE "restoring"])
    BY <1>2, Zenon DEF LeaveStep, Return
  <2>3. ASSUME ~muddled' PROVE Vacuuming' = Vacuuming
    <3>1. CASE o \in Vacuum
      <4>1. phase' = [phase EXCEPT ![o] = IF o \in Writer THEN "done" ELSE "restoring"]
        BY <2>2, <2>3, <3>1, Zenon
      <4> QED BY <2>1, <3>1, <4>1, EventsAssumption DEF Vacuuming, Op
    <3>2. CASE o \notin Vacuum
      BY <2>1, <3>2 DEF Vacuuming, Op
    <3> QED BY <3>1, <3>2
  <2>4. \A v \in Vacuuming : phase'[v] = "saved" <=> phase[v] = "saved"
    BY <2>1 DEF Vacuuming, Op
  <2>5. ASSUME ~muddled' PROVE /\ Alone' /\ Remembered' /\ Quiet'
                               /\ Vacuuming' = {} => fireEvents' = wanted'
    BY <2>1, <2>2, <2>3, <2>4, <2>5, Zenon
    DEF VacuumInv, FireEventsKept, Alone, Remembered, Quiet
  <2> QED BY <2>1, <2>5, Zenon DEF VacuumInv, FireEventsKept
<1>3. CASE o \in Vacuum /\ ClearFireEvents(o)
  <2>1. /\ phase' = [phase EXCEPT ![o] = "waiting"] /\ mutex' = mutex /\ phase[o] = "saved"
        /\ old' = old
    BY <1>3 DEF ClearFireEvents, Quieten
  <2>2. muddled' = muddled /\ ~fireEvents' /\ wanted' = wanted
    BY <1>3, Zenon DEF ClearFireEvents, Quieten
  <2>3. Vacuuming' = Vacuuming /\ o \in Vacuuming /\ Inside'
    BY <1>3, <2>1 DEF Vacuuming, VacuumInv, Inside, Op
  <2>4. Vacuuming' # {}
    BY <2>3
  <2> QED BY <2>1, <2>2, <2>3, <2>4, Zenon
          DEF VacuumInv, FireEventsKept, Alone, Remembered, Quiet
<1>4. CASE o \in Vacuum /\ RestoreFireEvents(o)
  <2>1. /\ phase' = [phase EXCEPT ![o] = "done"] /\ mutex' = mutex /\ phase[o] = "restoring"
        /\ old' = old
    BY <1>4 DEF RestoreFireEvents, Restore
  <2>2. muddled' = muddled /\ fireEvents' = old[o] /\ wanted' = wanted
    BY <1>4, Zenon DEF RestoreFireEvents, Restore
  <2>3. Vacuuming' = Vacuuming \ {o} /\ o \in Vacuuming /\ Inside'
    BY <1>4, <2>1 DEF Vacuuming, VacuumInv, Inside, Op
  <2>4. ASSUME ~muddled' PROVE Vacuuming' = {} /\ fireEvents' = wanted'
    <3>1. Alone /\ Remembered
      BY <2>2, <2>4, Zenon DEF VacuumInv
    <3>2. Vacuuming' = {}
      BY <2>3, <3>1 DEF Alone
    <3>3. old[o] = wanted
      BY <2>3, <3>1, Zenon DEF Remembered
    <3> QED BY <2>2, <3>2, <3>3, Zenon
  <2> QED BY <2>3, <2>4, Zenon DEF VacuumInv, FireEventsKept, Alone, Remembered, Quiet
<1> QED BY <1>1, <1>2, <1>3, <1>4 DEF OpStep

\* Every other step leaves the vacuums alone.
LEMMA VacuumStep ==
  ASSUME EventsTypeOK, VacuumInv, [EventsNext]_eventVars
  PROVE  VacuumInv'
<1>1. ASSUME muddled' = muddled, fireEvents' = fireEvents, wanted' = wanted,
             mutex' = mutex, phase' = phase, old' = old
      PROVE  VacuumInv'
  <2>1. Vacuuming' = Vacuuming /\ Inside'
    BY <1>1 DEF Vacuuming, VacuumInv, Inside
  <2> QED BY <1>1, <2>1, VacuumsUntouched, Zenon DEF VacuumInv
<1>2. ASSUME NEW o \in Writer, StartWriter(o) PROVE VacuumInv'
  <2>1. /\ phase' = [phase EXCEPT ![o] = "waiting"] /\ mutex' = mutex /\ phase[o] = "idle"
        /\ old' = old
    BY <1>2 DEF StartWriter
  <2>2. muddled' = muddled /\ fireEvents' = fireEvents /\ wanted' = wanted
    BY <1>2, Zenon DEF StartWriter
  <2>3. /\ Vacuuming' = Vacuuming /\ Inside'
        /\ \A v \in Vacuuming : phase'[v] = "saved" <=> phase[v] = "saved"
    BY <2>1, EventsAssumption DEF EventsTypeOK, Vacuuming, VacuumInv, Inside, Op
  <2> QED BY <2>1, <2>2, <2>3, VacuumsUntouched, Zenon DEF VacuumInv
<1>3. ASSUME \/ SetHook \/ ClearHook \/ Deliver \/ Hung \/ UNCHANGED eventVars
             \/ \E k \in Kind, l \in Listener : AddListener(k, l) \/ RemoveListener(k, l)
      PROVE  UNCHANGED <<muddled, fireEvents, wanted, mutex, phase, old>>
  BY <1>3, Zenon DEF SetHook, ClearHook, Deliver, Hung, eventVars, AddListener, RemoveListener,
                     Forget, opVars
<1>4. ASSUME NEW o \in Op, NEW k \in Kind, Change(o, k) PROVE VacuumInv'
  <2>1. CASE UNCHANGED <<mutex, phase, muddled>>
    BY <1>1, <1>4, <2>1, ChangeFacts, Zenon
  <2>2. CASE Refused(o)
    <3>1. /\ fireEvents' = fireEvents /\ wanted' = wanted
          /\ ~muddled' => ~muddled /\ o \notin Vacuum
      BY <1>4, <2>2, ChangeFacts, Zenon DEF Refused
    <3>2. /\ phase' = [phase EXCEPT ![o] = "failed"] /\ mutex' = Free /\ old' = old
      BY <1>4, <2>2, ChangeFacts DEF Refused
    <3>3. Inside'
      BY <3>2 DEF Inside
    <3>4. o \notin Vacuum => /\ Vacuuming' = Vacuuming
                             /\ \A v \in Vacuuming : phase'[v] = phase[v]
      BY <3>2 DEF EventsTypeOK, Vacuuming, Op
    <3>5. ASSUME ~muddled' PROVE FireEventsKept' /\ Alone' /\ Remembered' /\ Quiet'
      BY <3>1, <3>2, <3>4, <3>5, Zenon DEF VacuumInv, FireEventsKept, Alone, Remembered, Quiet
    <3> QED BY <3>3, <3>5, Zenon DEF VacuumInv, FireEventsKept
  <2> QED BY <1>4, <2>1, <2>2, ChangeFacts, Zenon
<1> QED BY <1>1, <1>2, <1>3, <1>4, AssignStep, SaveStep, OpVacuumStep, Zenon DEF EventsNext

\* The invariant of the vacuums.
THEOREM EventsVacuum == EventsSpec => []VacuumInv
<1>1. EventsInit => VacuumInv
  <2> SUFFICES ASSUME EventsInit PROVE VacuumInv
    OBVIOUS
  <2>1. Inside /\ Vacuuming = {}
    BY DEF EventsInit, Inside, Vacuuming, Op
  <2>2. fireEvents = wanted
    BY Zenon DEF EventsInit
  <2>3. Alone /\ Remembered /\ Quiet
    BY <2>1 DEF Alone, Remembered, Quiet
  <2> QED BY <2>1, <2>2, <2>3, Zenon DEF VacuumInv, FireEventsKept
<1> QED BY <1>1, EventsTypeCorrect, VacuumStep, PTL DEF EventsSpec

\* After vacuums that neither fail nor meet each other or an assignment, events
\* are on or off as the client wants them.
THEOREM EventsKept == EventsSpec => []FireEventsKept
  BY EventsVacuum, PTL DEF VacuumInv

\* Rows that such a vacuum copies are never dispatched as events.
THEOREM EventsSilent == EventsSpec => []VacuumIsSilent
<1>1. EventsInit => VacuumIsSilent
  BY DEF EventsInit, VacuumIsSilent
<1>2. EventsTypeOK /\ VacuumInv /\ VacuumIsSilent /\ [EventsNext]_eventVars => VacuumIsSilent'
  <2> SUFFICES ASSUME EventsTypeOK, VacuumInv, VacuumIsSilent, [EventsNext]_eventVars, ~muddled'
               PROVE  \A n \in 1..Len(pending') : pending'[n].of \notin Vacuum
    BY Zenon DEF VacuumIsSilent
  <2>0. ~muddled
    BY Zenon DEF EventsNext, eventVars, SetHook, ClearHook, Deliver, Hung, AddListener,
                 RemoveListener, Forget, SetFireEvents, StartWriter, SaveFireEvents, Change,
                 Report, Refused, OpStep, EnterStep, LeaveStep, Return, ClearFireEvents, Quieten,
                 RestoreFireEvents, Restore
  <2>1. \A n \in 1..Len(pending) : pending[n].of \notin Vacuum
    BY <2>0, Zenon DEF VacuumIsSilent
  <2>2. CASE pending' = pending
    BY <2>1, <2>2
  <2>3. CASE Deliver
    BY <2>1, <2>3, HeadTailProperties, LenProperties DEF Deliver, EventsTypeOK
  <2>4. ASSUME NEW o \in Op, NEW k \in Kind, Change(o, k)
        PROVE  \A n \in 1..Len(pending') : pending'[n].of \notin Vacuum
    <3>1. CASE o \in Vacuum
      <4>1. o \in Vacuuming /\ phase[o] # "saved"
        BY <2>4, <3>1, ChangeFacts, EventsAssumption DEF VacuumInv, Inside, Vacuuming, Op
      <4>2. ~fireEvents
        BY <2>0, <4>1, Zenon DEF VacuumInv, Quiet
      <4>3. pending' = pending
        BY <2>4, <4>2, ChangeFacts, Zenon DEF Due
      <4> QED BY <2>2, <4>3
    <3>2. CASE o \notin Vacuum
      <4>1. pending' = pending \/ pending' = Append(pending, [kind |-> k, of |-> o])
        BY <2>4, ChangeFacts, Zenon
      <4>2. [kind |-> k, of |-> o].of = o
        OBVIOUS
      <4>3. ASSUME pending' = Append(pending, [kind |-> k, of |-> o]),
                   NEW n \in 1..Len(pending')
            PROVE  pending'[n].of \notin Vacuum
        BY <2>1, <3>2, <4>2, <4>3, AppendProperties, LenProperties DEF EventsTypeOK
      <4> QED BY <2>2, <4>1, <4>3
    <3> QED BY <3>1, <3>2
  <2>5. ASSUME \/ SetHook \/ ClearHook \/ Hung \/ UNCHANGED eventVars
               \/ \E k \in Kind, l \in Listener : AddListener(k, l) \/ RemoveListener(k, l)
               \/ \E b \in Assigned : SetFireEvents(b)
               \/ \E o \in Writer : StartWriter(o)
               \/ \E v \in Vacuum : SaveFireEvents(v)
               \/ \E o \in Op : OpStep(o)
        PROVE  pending' = pending
    BY <2>5, Zenon DEF SetHook, ClearHook, Hung, eventVars, AddListener, RemoveListener, Forget,
                       SetFireEvents, StartWriter, SaveFireEvents, OpStep, EnterStep, LeaveStep,
                       Return, ClearFireEvents, Quieten, RestoreFireEvents, Restore
  <2> QED BY <2>2, <2>3, <2>4, <2>5, Zenon DEF EventsNext
<1> QED BY <1>1, <1>2, EventsTypeCorrect, EventsVacuum, PTL DEF EventsSpec

\* Outside vacuums, and as long as none has failed or met another or an
\* assignment, a call's change becomes an event for whoever listens, or the
\* dispatcher refuses it and the call fails: no event is lost in silence.
THEOREM EventsNoneMissed == EventsSpec => NoMissedEvent
<1>1. ASSUME RegistrationInv, VacuumInv, [EventsNext]_eventVars, NEW o \in Writer,
             changed'[o] # changed[o], wanted, Vacuuming = {}, ~muddled
      PROVE  LET k == Last(changed'[o])
             IN  listeners[k] # {} =>
                   \/ pending' = Append(pending, [kind |-> k, of |-> o])
                   \/ pending' = pending /\ phase'[o] = "failed"
  <2>1. ASSUME \/ SetHook \/ ClearHook \/ Deliver \/ Hung \/ UNCHANGED eventVars
               \/ \E k \in Kind, l \in Listener : AddListener(k, l) \/ RemoveListener(k, l)
               \/ \E b \in Assigned : SetFireEvents(b)
               \/ \E p \in Writer : StartWriter(p)
               \/ \E v \in Vacuum : SaveFireEvents(v)
               \/ \E p \in Op : OpStep(p)
        PROVE  changed' = changed
    BY <2>1, Zenon DEF SetHook, ClearHook, Deliver, Hung, eventVars, AddListener, RemoveListener,
                       Forget, SetFireEvents, StartWriter, SaveFireEvents, OpStep, EnterStep,
                       LeaveStep, Return, ClearFireEvents, Quieten, RestoreFireEvents, Restore,
                       opVars
  <2>2. PICK p \in Op, k \in Kind : Change(p, k)
    BY <1>1, <2>1, Zenon DEF EventsNext
  <2>3. changed \in [Op -> Seq(Kind)] /\ o \in Op /\ handlers \in [Kind -> Nat]
        /\ \A q \in Op : ([phase EXCEPT ![q] = "failed"])[q] = "failed"
    BY <1>1 DEF RegistrationInv, EventsTypeOK, Op
  <2>c. changed' = [changed EXCEPT ![p] = Append(@, k)]
    BY <2>2, ChangeFacts, Zenon
  <2>4. p = o /\ changed'[o] = Append(changed[o], k)
    BY <1>1, <2>3, <2>c
  <2>5. Last(changed'[o]) = k
    BY <2>3, <2>4, AppendProperties, LenProperties DEF Last
  <2>6. ASSUME listeners[k] # {} PROVE hooked /\ handlers[k] > 0
    <3>1. ui = Free
      <4>1. ui \in {Free, "hook", "unhook"} /\ ui # "hook"
        BY <1>1, <2>6 DEF RegistrationInv, EventsTypeOK, Registration
      <4>2. ui = "unhook" => listeners[k] = {}
        <5>1. ui = "unhook" => handlers[k] = 0
          BY <1>1, CounterFacts DEF RegistrationInv, Registration
        <5> QED BY <1>1, <4>1, <5>1, CounterFacts
      <4> QED BY <2>6, <4>1, <4>2
    <3>2. handlers[k] > 0 /\ allHandlers > 0
      <4>1. ui # "hook"
        BY <3>1, UiFacts
      <4>2. handlers[k] \in Nat /\ handlers[k] # 0 /\ handlers[k] <= allHandlers
        BY <1>1, <2>6, <4>1, CounterFacts
      <4>3. allHandlers \in Nat
        BY <1>1 DEF RegistrationInv, EventsTypeOK
      <4> QED BY <4>2, <4>3
    <3>3. hooked
      BY <1>1, <3>1, <3>2, Zenon DEF RegistrationInv, HookMatchesListeners
    <3> QED BY <3>2, <3>3
  <2>7. fireEvents
    BY <1>1, Zenon DEF VacuumInv, FireEventsKept
  <2>8. ASSUME listeners[k] # {}
        PROVE  \/ pending' = Append(pending, [kind |-> k, of |-> o])
               \/ pending' = pending /\ phase'[o] = "failed"
    BY <2>2, <2>3, <2>4, <2>6, <2>7, <2>8, ChangeFacts, Zenon DEF Due, Refused
  <2> QED BY <2>5, <2>8, Zenon
<1>2. RegistrationInv /\ VacuumInv /\ [EventsNext]_eventVars =>
        [\A o \in Writer :
           changed'[o] # changed[o] /\ wanted /\ Vacuuming = {} /\ ~muddled =>
             LET k == Last(changed'[o])
             IN  listeners[k] # {} =>
                   \/ pending' = Append(pending, [kind |-> k, of |-> o])
                   \/ pending' = pending /\ phase'[o] = "failed"]_eventVars
  BY <1>1
<1> QED BY <1>2, EventsRegistration, EventsVacuum, PTL DEF EventsSpec, NoMissedEvent
=============================================================================
