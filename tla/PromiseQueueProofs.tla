------------------------- MODULE PromiseQueueProofs -------------------------
(***************************************************************************)
(* Theorems about PromiseQueue, for every finite set of items and every    *)
(* choice of the cancellable and the throwing ones.                        *)
(***************************************************************************)
EXTENDS PromiseQueue, FiniteSetTheorems, SequenceTheorems, TLAPS

\* Where an item can be.  A queued item is not in flight, is pending unless it
\* was cancelled, and carries queueItem.cancelled exactly if it was; no item is
\* queued twice; only the client's cancel() makes an outcome "canceled".
Placed ==
  /\ \A k \in 1..Len(items) :
       /\ items[k] \notin inFlight
       /\ outcome[items[k]] \in {"pending", "canceled"}
       /\ items[k] \in flagged <=> outcome[items[k]] = "canceled"
  /\ \A j, k \in 1..Len(items) : items[j] = items[k] => j = k
  /\ \A i \in inFlight : outcome[i] = "pending"
  /\ flagged \subseteq Canceled
  /\ Canceled \subseteq Cancellable

\* The count behind BoundedInFlight.  A queue that believes itself idle holds
\* nothing, and what is still in flight behind its back is paid for by
\* cancellations alone.
Counted ==
  /\ Cardinality(inFlight) + immediates <= 1 + Cardinality(Canceled)
  /\ ~busy => /\ items = << >>
              /\ Cardinality(inFlight) + immediates <= Cardinality(Canceled)

\* A busy queue has a callback to come or a call in flight, or has lost an item.
Awake == busy /\ immediates = 0 /\ inFlight = {} => Lost # {}

QueueInv == QueueTypeOK /\ Placed /\ Counted /\ Awake

-----------------------------------------------------------------------------
\* Taking the head off a sequence of items, and adding an item at its end.
LEMMA TailFacts ==
  ASSUME NEW s \in Seq(Item), s # << >>
  PROVE  /\ Head(s) \in Item
         /\ Head(s) = s[1]
         /\ Len(s) \in Nat \ {0}
         /\ Tail(s) \in Seq(Item)
         /\ Len(Tail(s)) = Len(s) - 1
         /\ \A k \in 1..Len(Tail(s)) : Tail(s)[k] = s[k + 1]
  BY HeadTailProperties, EmptySeq, LenProperties

LEMMA AppendFacts ==
  ASSUME NEW s \in Seq(Item), NEW i \in Item
  PROVE  /\ Append(s, i) \in Seq(Item)
         /\ Len(s) \in Nat
         /\ Len(Append(s, i)) = Len(s) + 1
         /\ \A k \in 1..Len(s) : Append(s, i)[k] = s[k]
         /\ Append(s, i)[Len(s) + 1] = i
  BY AppendProperties, LenProperties

\* The queue's variables keep their types.
LEMMA QueueTypeStep ==
  ASSUME QueueTypeOK, [QueueNext]_queueVars
  PROVE  QueueTypeOK'
<1> USE DEF QueueTypeOK, Outcome
<1>1. ASSUME NEW i \in Item, AppendItem(i) PROVE QueueTypeOK'
  <2>1. items' \in Seq(Item)
    BY <1>1, AppendFacts DEF AppendItem, Join, Wake
  <2>2. busy' \in BOOLEAN
    BY <1>1, Zenon DEF AppendItem, Join, Wake, HandleNext
  <2>3. immediates' \in Nat /\ inFlight' \in SUBSET Item /\ flagged' \in SUBSET Item
    BY <1>1 DEF AppendItem, Join, Wake, HandleNext
  <2>4. outcome' \in [Item -> Outcome]
    BY <1>1 DEF AppendItem, Join, Wake
  <2>5. QED
    BY <2>1, <2>2, <2>3, <2>4
<1>2. CASE StartItem
  BY <1>2, TailFacts DEF StartItem, Dequeue
<1>3. CASE ThrowItem
  BY <1>3, TailFacts DEF ThrowItem, Dequeue
<1>4. CASE SkipItem
  BY <1>4, TailFacts DEF SkipItem, Dequeue, HandleNext
<1>5. CASE GoIdle
  <2>1. busy' \in BOOLEAN
    BY <1>5, Zenon DEF GoIdle
  <2>2. immediates' \in Nat
    BY <1>5 DEF GoIdle
  <2>3. UNCHANGED <<items, inFlight, flagged, outcome>>
    BY <1>5 DEF GoIdle
  <2>4. QED
    BY <2>1, <2>2, <2>3
<1>6. ASSUME NEW i \in Item, NEW r \in {"complete", "error"}, FinishItem(i, r)
      PROVE  QueueTypeOK'
  BY <1>6 DEF FinishItem, Settle, HandleNext
<1>7. ASSUME NEW i \in Item, CancelInFlight(i) PROVE QueueTypeOK'
  BY <1>7 DEF CancelInFlight, Settle, HandleNext
<1>8. ASSUME NEW i \in Item, CancelQueued(i) PROVE QueueTypeOK'
  BY <1>8 DEF CancelQueued, CancelWaiting, Settle, HandleNext
<1>9. CASE UNCHANGED queueVars
  <2>1. busy' \in BOOLEAN
    BY <1>9, Zenon DEF queueVars
  <2>2. UNCHANGED <<items, immediates, inFlight, flagged, outcome>>
    BY <1>9 DEF queueVars
  <2>3. QED
    BY <2>1, <2>2
<1>10. QED
  BY <1>1, <1>2, <1>3, <1>4, <1>5, <1>6, <1>7, <1>8, <1>9
  DEF QueueNext, Quiescent

\* The initial values have their types.
LEMMA QueueTypeInit ==
  ASSUME QueueInit
  PROVE  QueueTypeOK
<1>1. busy \in BOOLEAN
  BY Zenon DEF QueueInit
<1>2. /\ items \in Seq(Item)
      /\ immediates \in Nat
      /\ inFlight \in SUBSET Item
      /\ flagged \in SUBSET Item
      /\ outcome \in [Item -> Outcome]
  BY EmptySeq DEF QueueInit, Outcome
<1>3. QED
  BY <1>1, <1>2 DEF QueueTypeOK

-----------------------------------------------------------------------------
\* The sets that are counted are finite.
LEMMA CountingFacts ==
  ASSUME QueueTypeOK
  PROVE  /\ IsFiniteSet(inFlight) /\ Cardinality(inFlight) \in Nat
         /\ IsFiniteSet(Canceled) /\ Cardinality(Canceled) \in Nat
<1>1. inFlight \subseteq Item /\ Canceled \subseteq Item
  BY DEF QueueTypeOK, Canceled
<1>2. QED
  BY <1>1, ItemAssumption, FS_Subset, FS_CardinalityType

\* Taking the head off the queue keeps the other items where they are, and the
\* head is queued no more.
LEMMA DequeueFacts ==
  ASSUME QueueTypeOK, Placed, Dequeue
  PROVE  /\ Head(items) \in Item
         /\ Head(items) \notin inFlight
         /\ outcome[Head(items)] \in {"pending", "canceled"}
         /\ Head(items) \in flagged <=> outcome[Head(items)] = "canceled"
         /\ \A k \in 1..Len(items') : /\ k + 1 \in 1..Len(items)
                                      /\ items'[k] = items[k + 1]
                                      /\ items'[k] # Head(items)
         /\ \A j, k \in 1..Len(items') : items'[j] = items'[k] => j = k
         /\ Head(items) \notin Range(items')
<1>1. /\ items \in Seq(Item) /\ items # << >>
      /\ items' = Tail(items)
  BY DEF QueueTypeOK, Dequeue
<1>2. /\ Head(items) \in Item
      /\ Head(items) = items[1]
      /\ Len(items) \in Nat \ {0}
      /\ items' \in Seq(Item)
      /\ Len(items') = Len(items) - 1
      /\ \A k \in 1..Len(items') : items'[k] = items[k + 1]
  BY <1>1, TailFacts
<1>3. /\ \A k \in 1..Len(items') : k + 1 \in 1..Len(items)
      /\ 1 \in 1..Len(items)
  BY <1>2
<1>4. \A k \in 1..Len(items') : items'[k] # Head(items)
  BY <1>2, <1>3 DEF Placed
<1>5. \A j, k \in 1..Len(items') : items'[j] = items'[k] => j = k
  BY <1>2, <1>3 DEF Placed
<1>6. DOMAIN items' = 1..Len(items')
  BY <1>2, LenProperties
<1>7. Head(items) \notin Range(items')
  BY <1>4, <1>6 DEF Range
<1>8. QED
  BY <1>2, <1>3, <1>4, <1>5, <1>7 DEF Placed

\* Every step keeps the items where Placed says they can be.
LEMMA PlacedStep ==
  ASSUME QueueTypeOK, Placed, [QueueNext]_queueVars
  PROVE  Placed'
<1> USE DEF QueueTypeOK, Canceled
<1>1. ASSUME NEW i \in Item, AppendItem(i) PROVE Placed'
  <2>1. /\ items' = Append(items, i) /\ outcome[i] = "unissued"
        /\ outcome' = [outcome EXCEPT ![i] = "pending"]
        /\ UNCHANGED <<inFlight, flagged>>
    BY <1>1 DEF AppendItem, Join, Wake
  <2>2. /\ Len(items) \in Nat /\ Len(items') = Len(items) + 1
        /\ \A k \in 1..Len(items) : items'[k] = items[k] /\ items[k] # i
        /\ items'[Len(items) + 1] = i
    BY <2>1, AppendFacts DEF Placed
  <2>3. i \notin flagged /\ i \notin inFlight
    BY <2>1 DEF Placed
  <2>4. ASSUME NEW k \in 1..Len(items')
        PROVE  k = Len(items) + 1 \/ k \in 1..Len(items)
    BY <2>2
  <2>5. Canceled' = Canceled
    BY <2>1
  <2>6. QED
    BY <2>1, <2>2, <2>3, <2>4, <2>5 DEF Placed
<1>2. ASSUME Dequeue, UNCHANGED <<flagged, outcome>>,
             inFlight' \in {inFlight, inFlight \cup {Head(items)}},
             Head(items) \in flagged => UNCHANGED inFlight
      PROVE  Placed'
  BY <1>2, DequeueFacts DEF Placed
<1>3. CASE StartItem
  BY <1>2, <1>3 DEF StartItem
<1>4. CASE ThrowItem
  BY <1>2, <1>4 DEF ThrowItem
<1>5. CASE SkipItem
  BY <1>2, <1>5 DEF SkipItem
<1>6. CASE GoIdle
  BY <1>6 DEF GoIdle, Placed
<1>7. ASSUME NEW i \in Item, NEW r \in {"complete", "error"}, FinishItem(i, r)
      PROVE  Placed'
  BY <1>7 DEF FinishItem, Settle, Placed
<1>8. ASSUME NEW i \in Item, CancelInFlight(i) PROVE Placed'
  BY <1>8 DEF CancelInFlight, Settle, Placed
<1>9. ASSUME NEW i \in Item, CancelQueued(i) PROVE Placed'
  BY <1>9 DEF CancelQueued, CancelWaiting, Settle, Placed
<1>10. CASE UNCHANGED queueVars
  BY <1>10 DEF queueVars, Placed
<1>11. QED
  BY <1>1, <1>3, <1>4, <1>5, <1>6, <1>7, <1>8, <1>9, <1>10
  DEF QueueNext, Quiescent

\* Every step keeps the count.
LEMMA CountedStep ==
  ASSUME QueueTypeOK, Placed, Counted, [QueueNext]_queueVars
  PROVE  Counted'
<1>0. /\ IsFiniteSet(inFlight) /\ Cardinality(inFlight) \in Nat
      /\ IsFiniteSet(Canceled) /\ Cardinality(Canceled) \in Nat
      /\ immediates \in Nat
  BY CountingFacts DEF QueueTypeOK
<1>1. ASSUME NEW i \in Item, AppendItem(i) PROVE Counted'
  <2>1. Canceled' = Canceled /\ inFlight' = inFlight
    BY <1>1 DEF AppendItem, Join, Wake, Canceled, QueueTypeOK
  <2>2. CASE busy
    <3>1. busy' /\ immediates' = immediates
      BY <1>1, <2>2, Zenon DEF AppendItem, Join, Wake
    <3>2. QED
      BY <2>1, <3>1 DEF Counted
  <2>3. CASE ~busy
    <3>1. busy' /\ immediates' = immediates + 1
      BY <1>1, <2>3, Zenon DEF AppendItem, Join, Wake, HandleNext
    <3>2. Cardinality(inFlight) + immediates <= Cardinality(Canceled)
      BY <2>3, Zenon DEF Counted
    <3>3. Cardinality(inFlight') + immediates' <= 1 + Cardinality(Canceled')
      BY <1>0, <2>1, <3>1, <3>2
    <3>4. QED
      BY <3>1, <3>3, Zenon DEF Counted
  <2>4. QED
    BY <2>2, <2>3
\* Taking an item off the queue implies that the queue is busy.
<1>2. Dequeue => busy
  BY Zenon DEF Dequeue, Counted
<1>3. CASE StartItem
  <2>1. Head(items) \notin inFlight /\ busy'
    BY <1>2, <1>3, DequeueFacts, Zenon DEF StartItem
  <2>2. Cardinality(inFlight') = Cardinality(inFlight) + 1
    BY <1>0, <1>3, <2>1, FS_AddElement DEF StartItem
  <2>3. immediates' = immediates - 1 /\ Canceled' = Canceled
    BY <1>3 DEF StartItem, Canceled
  <2>4. Cardinality(inFlight') + immediates' <= 1 + Cardinality(Canceled')
    BY <1>0, <2>2, <2>3 DEF Counted
  <2>5. QED
    BY <2>1, <2>4, Zenon DEF Counted
<1>4. CASE ThrowItem
  <2>1. busy'
    BY <1>2, <1>4, Zenon DEF ThrowItem
  <2>2. immediates' = immediates - 1 /\ Canceled' = Canceled /\ inFlight' = inFlight
    BY <1>4 DEF ThrowItem, Canceled
  <2>3. Cardinality(inFlight') + immediates' <= 1 + Cardinality(Canceled')
    BY <1>0, <2>2 DEF Counted
  <2>4. QED
    BY <2>1, <2>3, Zenon DEF Counted
<1>5. CASE SkipItem
  <2>1. busy'
    BY <1>5, Zenon DEF SkipItem, HandleNext
  <2>2. immediates' = immediates - 1 + 1 /\ Canceled' = Canceled /\ inFlight' = inFlight
    BY <1>5 DEF SkipItem, HandleNext, Canceled
  <2>3. Cardinality(inFlight') + immediates' <= 1 + Cardinality(Canceled')
    BY <1>0, <2>2 DEF Counted
  <2>4. QED
    BY <2>1, <2>3, Zenon DEF Counted
<1>6. CASE GoIdle
  <2>1. items' = << >> /\ immediates' = immediates - 1
        /\ Canceled' = Canceled /\ inFlight' = inFlight
    BY <1>6 DEF GoIdle, Canceled
  <2>2. /\ Cardinality(inFlight') + immediates' <= Cardinality(Canceled')
        /\ Cardinality(inFlight') + immediates' <= 1 + Cardinality(Canceled')
    BY <1>0, <2>1 DEF Counted
  <2>3. QED
    BY <2>1, <2>2, Zenon DEF Counted
<1>7. ASSUME NEW i \in Item, NEW r \in {"complete", "error"}, FinishItem(i, r)
      PROVE  Counted'
  <2>1. busy'
    BY <1>7, Zenon DEF FinishItem, Settle, HandleNext
  <2>2. Cardinality(inFlight') = Cardinality(inFlight) - 1
    BY <1>0, <1>7, FS_RemoveElement DEF FinishItem, Settle
  <2>3. immediates' = immediates + 1 /\ Canceled' = Canceled
    BY <1>7 DEF FinishItem, Settle, HandleNext, Canceled, QueueTypeOK, Placed
  <2>4. Cardinality(inFlight') + immediates' <= 1 + Cardinality(Canceled')
    BY <1>0, <2>2, <2>3 DEF Counted
  <2>5. QED
    BY <2>1, <2>4, Zenon DEF Counted
\* A cancellation adds an element to the set that pays for it.
<1>8. ASSUME NEW i \in Item, outcome[i] = "pending",
             outcome' = [outcome EXCEPT ![i] = "canceled"]
      PROVE  Cardinality(Canceled') = Cardinality(Canceled) + 1
  <2>1. Canceled' = Canceled \cup {i} /\ i \notin Canceled
    BY <1>8 DEF Canceled, QueueTypeOK
  <2>2. QED
    BY <1>0, <2>1, FS_AddElement
<1>9. ASSUME NEW i \in Item, CancelInFlight(i) PROVE Counted'
  <2>1. busy'
    BY <1>9, Zenon DEF CancelInFlight, Settle, HandleNext
  <2>2. Cardinality(inFlight') = Cardinality(inFlight) - 1
    BY <1>0, <1>9, FS_RemoveElement DEF CancelInFlight, Settle
  <2>3. Cardinality(Canceled') = Cardinality(Canceled) + 1
    BY <1>8, <1>9 DEF CancelInFlight, Settle, Placed
  <2>4. immediates' = immediates + 2
    BY <1>0, <1>9 DEF CancelInFlight, Settle, HandleNext
  <2>5. Cardinality(inFlight') + immediates' <= 1 + Cardinality(Canceled')
    BY <1>0, <2>2, <2>3, <2>4 DEF Counted
  <2>6. QED
    BY <2>1, <2>5, Zenon DEF Counted
<1>10. ASSUME NEW i \in Item, CancelQueued(i) PROVE Counted'
  <2>1. busy'
    BY <1>10, Zenon DEF CancelQueued, CancelWaiting, Settle, HandleNext
  <2>2. Cardinality(Canceled') = Cardinality(Canceled) + 1
    BY <1>8, <1>10 DEF CancelQueued, CancelWaiting, Settle
  <2>3. immediates' = immediates + 1 /\ inFlight' = inFlight
    BY <1>0, <1>10 DEF CancelQueued, CancelWaiting, Settle, HandleNext
  <2>4. Cardinality(inFlight') + immediates' <= 1 + Cardinality(Canceled')
    BY <1>0, <2>2, <2>3 DEF Counted
  <2>5. QED
    BY <2>1, <2>4, Zenon DEF Counted
<1>11. CASE UNCHANGED queueVars
  BY <1>11, Zenon DEF queueVars, Counted, Canceled
<1>12. QED
  BY <1>1, <1>3, <1>4, <1>5, <1>6, <1>7, <1>9, <1>10, <1>11
  DEF QueueNext, Quiescent

\* Every step that leaves the queue busy without a callback to come or a call
\* in flight has lost an item.
LEMMA AwakeStep ==
  ASSUME QueueTypeOK, Placed, Awake, [QueueNext]_queueVars
  PROVE  Awake'
<1>0. immediates \in Nat
  BY DEF QueueTypeOK
<1>1. ASSUME NEW i \in Item, AppendItem(i) PROVE Awake'
  <2>1. CASE ~busy
    <3>1. immediates' = immediates + 1
      BY <1>1, <2>1, Zenon DEF AppendItem, Join, Wake, HandleNext
    <3>2. immediates' # 0
      BY <1>0, <3>1
    <3>3. QED
      BY <3>2, Zenon DEF Awake
  <2>2. CASE busy
    <3>1. immediates' = immediates /\ inFlight' = inFlight
      BY <1>1, <2>2, Zenon DEF AppendItem, Join, Wake
    <3>2. Lost \subseteq Lost'
      <4>1. Range(items') \subseteq Range(items) \cup {i}
        <5>1. /\ items' = Append(items, i)
              /\ DOMAIN items = 1..Len(items) /\ DOMAIN items' = 1..(Len(items) + 1)
              /\ \A k \in 1..Len(items) : items'[k] = items[k]
              /\ items'[Len(items) + 1] = i /\ Len(items) \in Nat
          BY <1>1, AppendFacts, LenProperties DEF AppendItem, Join, Wake, QueueTypeOK
        <5>2. QED
          BY <5>1 DEF Range
      <4>2. QED
        BY <1>1, <3>1, <4>1 DEF AppendItem, Join, Wake, Lost, QueueTypeOK
    <3>3. QED
      BY <2>2, <3>1, <3>2, Zenon DEF Awake
  <2>3. QED
    BY <2>1, <2>2
<1>2. CASE StartItem
  <2>1. inFlight' # {}
    BY <1>2 DEF StartItem
  <2>2. QED
    BY <2>1, Zenon DEF Awake
\* The item whose createPromise threw is pending, and nowhere.
<1>3. CASE ThrowItem
  <2>1. Head(items) \in Lost'
    BY <1>3, DequeueFacts DEF ThrowItem, Lost
  <2>2. QED
    BY <2>1, Zenon DEF Awake
<1>4. CASE SkipItem
  <2>1. immediates' # 0
    BY <1>0, <1>4 DEF SkipItem, Dequeue, HandleNext
  <2>2. QED
    BY <2>1, Zenon DEF Awake
<1>5. CASE GoIdle
  BY <1>5, Zenon DEF GoIdle, Awake
<1>6. ASSUME NEW i \in Item, \/ \E r \in {"complete", "error"} : FinishItem(i, r)
                             \/ CancelInFlight(i)
                             \/ CancelQueued(i)
      PROVE  Awake'
  <2>1. immediates' # 0
    BY <1>0, <1>6 DEF FinishItem, Settle, CancelInFlight, Settle, CancelQueued, CancelWaiting, Settle, HandleNext
  <2>2. QED
    BY <2>1, Zenon DEF Awake
<1>7. CASE UNCHANGED queueVars
  BY <1>7, Zenon DEF queueVars, Awake, Lost
<1>8. QED
  BY <1>1, <1>2, <1>3, <1>4, <1>5, <1>6, <1>7 DEF QueueNext, Quiescent

\* The inductive invariant holds in every reachable state.
THEOREM QueueInvariant == QueueSpec => []QueueInv
<1>1. QueueInit => QueueInv
  <2> SUFFICES ASSUME QueueInit PROVE QueueInv
    OBVIOUS
  <2>1. QueueTypeOK
    BY QueueTypeInit
  <2>2. items = << >> /\ inFlight = {} /\ flagged = {} /\ immediates = 0 /\ Canceled = {}
    BY DEF QueueInit, Canceled
  <2>3. Placed
    BY <2>2, EmptySeq DEF Placed
  <2>4. Cardinality(inFlight) + immediates <= Cardinality(Canceled)
        /\ Cardinality(inFlight) + immediates <= 1 + Cardinality(Canceled)
    BY <2>2, FS_EmptySet
  <2>5. Counted
    BY <2>2, <2>4, Zenon DEF Counted
  <2>6. Awake
    BY Zenon DEF QueueInit, Awake
  <2>7. QED
    BY <2>1, <2>3, <2>5, <2>6 DEF QueueInv
<1>2. QueueInv /\ [QueueNext]_queueVars => QueueInv'
  BY QueueTypeStep, PlacedStep, CountedStep, AwakeStep DEF QueueInv
<1>3. QED
  BY <1>1, <1>2, PTL DEF QueueSpec

\* Type correctness of the promise queue: the variables of queue and items
\* keep their types whatever calls, cancellations and exceptions come.
THEOREM QueueTypeCorrect == QueueSpec => []QueueTypeOK
<1>1. QueueInv => QueueTypeOK
  BY DEF QueueInv
<1>2. QED
  BY <1>1, QueueInvariant, PTL

\* However many calls are cancelled, the native calls that run together are at
\* most one more than the cancellations (the two calls of _handleNext at
\* SQLite3.js lines 32 and 37 that one cancel() makes).
THEOREM QueueBounded == QueueSpec => []BoundedInFlight
<1>1. QueueInv => BoundedInFlight
  BY Zenon DEF QueueInv, Counted, BoundedInFlight
<1>2. QED
  BY <1>1, QueueInvariant, PTL

\* Until its client cancels a call, the queue never lets two native calls of
\* one database run at once: it does what it is there for.
THEOREM QueueSerial == QueueSpec => []OneAtATime
<1>1. QueueInv => OneAtATime
  <2> SUFFICES ASSUME QueueInv, Canceled = {} PROVE Cardinality(inFlight) <= 1
    BY DEF OneAtATime
  <2>1. Cardinality(inFlight) \in Nat /\ immediates \in Nat
    BY CountingFacts DEF QueueInv, QueueTypeOK
  <2>2. Cardinality(inFlight) + immediates <= 1
    BY FS_EmptySet DEF QueueInv, Counted
  <2>3. QED
    BY <2>1, <2>2
<1>2. QED
  BY <1>1, QueueInvariant, PTL

\* Queued items are never left without something to start them, unless a
\* createPromise threw.
THEOREM QueueAwake == QueueSpec => []NoLostWakeup
<1>1. QueueInv => NoLostWakeup
  BY Zenon DEF QueueInv, Counted, Awake, NoLostWakeup
<1>2. QED
  BY <1>1, QueueInvariant, PTL

\* Every step of the queue is one of the abstract CallQueue, or a stutter.
LEMMA RefinementStep ==
  ASSUME QueueInv, [QueueNext]_queueVars
  PROVE  [Calls!Next]_Calls!vars
<1> USE DEF Calls!vars
<1>1. ASSUME NEW i \in Item, AppendItem(i) PROVE Calls!Accept(i)
  BY <1>1 DEF AppendItem, Join, Wake, Calls!Accept
<1>2. CASE StartItem
  <2>1. Cardinality(inFlight) < 1 + Cardinality(Cancellable)
    <3>1. /\ Cardinality(inFlight) \in Nat /\ Cardinality(Canceled) \in Nat
          /\ immediates \in Nat /\ immediates > 0
      BY <1>2, CountingFacts DEF QueueInv, QueueTypeOK, StartItem, Dequeue
    <3>2. Cardinality(inFlight) + immediates <= 1 + Cardinality(Canceled)
      BY DEF QueueInv, Counted
    <3>3. /\ Cardinality(Canceled) <= Cardinality(Cancellable)
          /\ Cardinality(Cancellable) \in Nat
      <4>1. Canceled \subseteq Cancellable /\ IsFiniteSet(Cancellable)
        BY ItemAssumption, FS_Subset DEF QueueInv, Placed
      <4>2. QED
        BY <4>1, FS_Subset, FS_CardinalityType
    <3>4. QED
      BY <3>1, <3>2, <3>3
  <2>2. outcome[Head(items)] = "pending"
    BY <1>2, DequeueFacts DEF QueueInv, StartItem
  <2>3. Calls!Cardinality(inFlight) = Cardinality(inFlight)
    BY DEF Calls!Cardinality, Cardinality
  <2>4. Calls!Begin
    BY <1>2, <2>1, <2>2, <2>3 DEF StartItem, Dequeue, Calls!Begin
  <2>5. QED
    BY <2>4 DEF Calls!Next
<1>3. CASE SkipItem
  <2>1. outcome[Head(items)] = "canceled"
    BY <1>3, DequeueFacts DEF QueueInv, SkipItem
  <2>2. Calls!Drop
    BY <1>3, <2>1 DEF SkipItem, Dequeue, Calls!Drop
  <2>3. QED
    BY <2>2 DEF Calls!Next
<1>4. CASE GoIdle
  BY <1>4 DEF GoIdle
<1>5. ASSUME NEW i \in Item, NEW r \in {"complete", "error"}, FinishItem(i, r)
      PROVE  Calls!End(i)
  BY <1>5 DEF FinishItem, Settle, Calls!End
<1>6. ASSUME NEW i \in Item, CancelInFlight(i) PROVE Calls!Withdraw(i)
  BY <1>6 DEF CancelInFlight, Settle, QueueInv, Placed, Calls!Withdraw
<1>7. ASSUME NEW i \in Item, CancelQueued(i) PROVE Calls!Withdraw(i)
  BY <1>7 DEF CancelQueued, CancelWaiting, Settle, Calls!Withdraw
<1>8. CASE ThrowItem
  <2>1. outcome[Head(items)] = "pending"
    BY <1>8, DequeueFacts DEF QueueInv, ThrowItem
  <2>2. Calls!Lose
    BY <1>8, <2>1 DEF ThrowItem, Dequeue, Calls!Lose
  <2>3. QED
    BY <2>2 DEF Calls!Next
<1>9. CASE UNCHANGED queueVars
  BY <1>9 DEF queueVars
<1>10. QED
  BY <1>1, <1>2, <1>3, <1>4, <1>5, <1>6, <1>7, <1>8, <1>9
  DEF QueueNext, Quiescent, Calls!Next

\* The queue with its flag and its deferred callbacks implements the call queue
\* its callers rely on: calls begin in the order they were made, never after a
\* cancellation, never more at a time than one and one for each call that may
\* be cancelled, each that begins ends once, and none is lost but those whose
\* createPromise throws.
THEOREM QueueImplements == QueueSpec => ServesInOrder
<1>1. QueueInit => Calls!Init
  BY DEF QueueInit, Calls!Init
<1>2. QueueInv /\ [QueueNext]_queueVars => [Calls!Next]_Calls!vars
  BY RefinementStep
<1>3. QED
  BY <1>1, <1>2, QueueInvariant, PTL DEF QueueSpec, ServesInOrder, Calls!Spec
=============================================================================
