---------------------------- MODULE PromiseQueue ----------------------------
(***************************************************************************)
(* The PromiseQueue of SQLite3JS/js/SQLite3.js, lines 17 to 78: the object *)
(* through which every database object sends its native calls, and the     *)
(* only thing that keeps two of them from running at once.  All of it runs *)
(* on the UI thread, so an action is one turn of the event loop: a call of *)
(* append, a setImmediate callback, a completion handler of the native     *)
(* promise, or a cancel() on the promise that append returned.             *)
(*                                                                         *)
(* WinJS promises and setImmediate are external.  What is taken from them: *)
(* a setImmediate callback runs later and alone; a promise is settled at   *)
(* most once, and cancelling a settled one does nothing; cancel() on an    *)
(* unsettled promise runs its error handlers before it returns.            *)
(***************************************************************************)
EXTENDS Naturals, Sequences, FiniteSets, Functions

CONSTANTS
  Item,         \* the queue items, one per call of append
  Cancellable,  \* the items whose wrapping promise the client may cancel
  Throwing      \* the items whose createPromise throws instead of returning

ASSUME ItemAssumption ==
  /\ IsFiniteSet(Item)
  /\ Cancellable \subseteq Item
  /\ Throwing \subseteq Item

VARIABLES
  items,        \* this._items
  busy,         \* this._busy
  immediates,   \* how many setImmediate callbacks of _handleNext are pending
  inFlight,     \* items with a queueItem.promise whose handlers have not run
  flagged,      \* items with queueItem.cancelled set
  outcome       \* state of the wrapping promise of each item

queueVars == <<items, busy, immediates, inFlight, flagged, outcome>>

Outcome == {"unissued", "pending", "complete", "error", "canceled"}

QueueTypeOK ==
  /\ items \in Seq(Item)
  /\ busy \in BOOLEAN
  /\ immediates \in Nat
  /\ inFlight \in SUBSET Item
  /\ flagged \in SUBSET Item
  /\ outcome \in [Item -> Outcome]

QueueInit ==
  /\ items = << >>
  /\ busy = FALSE
  /\ immediates = 0
  /\ inFlight = {}
  /\ flagged = {}
  /\ outcome = [i \in Item |-> "unissued"]

-----------------------------------------------------------------------------
\* _handleNext: the queue is busy, and one more callback joins the pending
\* ones that are still to run after this turn.
HandleNext(pending) ==
  /\ busy' = TRUE
  /\ immediates' = pending + 1

\* The item gets its promise and its place in the queue.
Join(i) ==
  /\ outcome[i] = "unissued"
  /\ outcome' = [outcome EXCEPT ![i] = "pending"]
  /\ items' = Append(items, i)
  /\ UNCHANGED <<inFlight, flagged>>

Wake ==
  \/ busy /\ UNCHANGED <<busy, immediates>>
  \/ ~busy /\ HandleNext(immediates)

\* Deviation: append wakes the queue without looking at _busy.
AppendAlwaysWakes(i) == Join(i) /\ HandleNext(immediates)

\* append: the item joins the queue, which is woken if it was idle.
AppendItem(i) == Join(i) /\ Wake

\* A setImmediate callback that finds an item takes it off the queue.
Dequeue ==
  /\ immediates > 0
  /\ items # << >>
  /\ items' = Tail(items)

\* _handleItem on an item that was not cancelled: createPromise starts the
\* native call, and done() leaves its handlers to schedule the next callback.
StartItem ==
  /\ Dequeue
  /\ Head(items) \notin flagged \cup Throwing
  /\ inFlight' = inFlight \cup {Head(items)}
  /\ immediates' = immediates - 1
  /\ UNCHANGED <<busy, flagged, outcome>>

\* _handleItem when createPromise throws: the exception leaves the callback,
\* no handler is attached and nothing calls _handleNext for this item.
ThrowItem ==
  /\ Dequeue
  /\ Head(items) \in Throwing \ flagged
  /\ immediates' = immediates - 1
  /\ UNCHANGED <<busy, inFlight, flagged, outcome>>

\* _handleItem on a cancelled item.
SkipItem ==
  /\ Dequeue
  /\ Head(items) \in flagged
  /\ HandleNext(immediates - 1)
  /\ UNCHANGED <<inFlight, flagged, outcome>>

\* A setImmediate callback that finds the queue empty.
GoIdle ==
  /\ immediates > 0
  /\ items = << >>
  /\ busy' = FALSE
  /\ immediates' = immediates - 1
  /\ UNCHANGED <<items, inFlight, flagged, outcome>>

EventLoop == StartItem \/ ThrowItem \/ SkipItem \/ GoIdle

\* The wrapping promise is settled and the native one, if any, with it.
Settle(i, result) ==
  /\ inFlight' = inFlight \ {i}
  /\ outcome' = [outcome EXCEPT ![i] = result]
  /\ UNCHANGED items

\* Deviation: the done handlers do not call _handleNext.
FinishSilently(i, result) ==
  i \in inFlight /\ Settle(i, result) /\ UNCHANGED <<busy, immediates, flagged>>

\* Deviation: _handleNext is called by the handlers and again after them.
FinishTwice(i, result) ==
  i \in inFlight /\ Settle(i, result) /\ HandleNext(immediates + 1) /\ UNCHANGED flagged

\* The done handlers of the native promise: the next callback is scheduled
\* before the caller hears of the result.
FinishItem(i, result) ==
  i \in inFlight /\ Settle(i, result) /\ HandleNext(immediates) /\ UNCHANGED flagged

\* The cancel handler of the wrapping promise, item in flight: cancelling the
\* native promise runs its error handler, which calls _handleNext, and then
\* the cancel handler calls _handleNext itself.
CancelInFlight(i) ==
  /\ i \in Cancellable \cap inFlight
  /\ Settle(i, "canceled")
  /\ HandleNext(immediates + 1)
  /\ UNCHANGED flagged

CancelWaiting(i, marked) ==
  /\ i \in Cancellable \ inFlight
  /\ outcome[i] = "pending"
  /\ Settle(i, "canceled")
  /\ flagged' = flagged \cup marked
  /\ HandleNext(immediates)

\* Deviation: the cancel handler does not set queueItem.cancelled.
CancelUnflagged(i) == CancelWaiting(i, {})

\* The cancel handler, item without a promise: still queued, or lost to a
\* createPromise that threw.
CancelQueued(i) == CancelWaiting(i, {i})

\* The client has made all its calls and has heard of each: nothing is left
\* to do until the application makes more of them.
Quiescent ==
  /\ \A i \in Item : outcome[i] \notin {"unissued", "pending"}
  /\ immediates = 0
  /\ UNCHANGED queueVars

QueueNext ==
  \/ StartItem
  \/ ThrowItem
  \/ SkipItem
  \/ GoIdle
  \/ \E i \in Item : AppendItem(i)
  \/ \E i \in Item, r \in {"complete", "error"} : FinishItem(i, r)
  \/ \E i \in Item : CancelInFlight(i)
  \/ \E i \in Item : CancelQueued(i)
  \/ Quiescent

\* The browser runs every setImmediate callback, and a native call ends.
QueueFairness ==
  /\ WF_queueVars(EventLoop)
  /\ \A i \in Item : WF_queueVars(\E r \in {"complete", "error"} : FinishItem(i, r))

QueueSpec == QueueInit /\ [][QueueNext]_queueVars

QueueFairSpec == QueueSpec /\ QueueFairness

-----------------------------------------------------------------------------
Canceled == {i \in Item : outcome[i] = "canceled"}

\* The items whose createPromise threw: no callback will ever mention them.
Lost == {i \in Item : outcome[i] = "pending"} \ (inFlight \cup Range(items))

\* Until a call is cancelled the queue serialises the native calls of a
\* database: two of them are never in flight together.
OneAtATime == Canceled = {} => Cardinality(inFlight) <= 1

\* Every cancel() costs the queue one more call of _handleNext than the item
\* it cancels would have made, and nothing ever takes the surplus back while
\* items are queued.  So the calls in flight and the callbacks about to start
\* one are at most one, plus one for each cancellation so far.
BoundedInFlight ==
  Cardinality(inFlight) + immediates <= 1 + Cardinality(Canceled)

\* No wake-up is lost between append, the done handlers and the callback that
\* clears _busy: queued items always have something to start them, unless a
\* createPromise threw and took the only pending callback with it.
NoLostWakeup ==
  items # << >> /\ immediates = 0 /\ inFlight = {} => Lost # {}

\* What the client sees of the queue is a CallQueue, with room for one active
\* call and one more for each call the client may cancel: first come, first
\* served, a call cancelled while queued is never begun, and only a call whose
\* createPromise throws is lost.
Calls == INSTANCE CallQueue WITH
  Request <- Item, Withdrawable <- Cancellable, Losable <- Throwing,
  MaxActive <- 1 + Cardinality(Cancellable),
  waiting <- items, active <- inFlight

ServesInOrder == Calls!Spec

\* Every call that the queue accepted ends with an outcome for its caller.
AllSettle ==
  \A i \in Item : outcome[i] = "pending" ~> outcome[i] # "pending"

\* When createPromise may throw, a call is left without an outcome only while
\* some call has been lost that way and not been cancelled.
SettleUnlessLost ==
  \A i \in Item : outcome[i] = "pending" ~> (outcome[i] # "pending" \/ Lost # {})
=============================================================================
