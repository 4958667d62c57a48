------------------------------ MODULE CallQueue ------------------------------
(***************************************************************************)
(* What the promise queue of SQLite3JS promises to the callers of          *)
(* runAsync, oneAsync, allAsync, eachAsync and mapAsync: accepted calls    *)
(* are begun in the order in which they were accepted, at most MaxActive   *)
(* of them at a time, a call withdrawn before it was begun never begins,   *)
(* and each call that begins ends with exactly one outcome.  There is no   *)
(* busy flag here and no deferred callback: those are how PromiseQueue     *)
(* keeps this promise.                                                     *)
(***************************************************************************)
EXTENDS Naturals, Sequences, FiniteSets

CONSTANTS
  Request,        \* the calls a client may make on one database object
  Withdrawable,\* those whose promise the client may cancel
  Losable,     \* those that may be lost in place of beginning
  MaxActive    \* how many begun calls may be unfinished at once

VARIABLES
  waiting,     \* the calls accepted and not begun, in order of acceptance
  active,      \* the calls begun and not finished
  outcome      \* what the caller's promise says of each call

vars == <<waiting, active, outcome>>

Outcome == {"unissued", "pending", "complete", "error", "canceled"}

Init ==
  /\ waiting = << >>
  /\ active = {}
  /\ outcome = [c \in Request |-> "unissued"]

\* The client makes a call; it is accepted at once.
Accept(c) ==
  /\ outcome[c] = "unissued"
  /\ outcome' = [outcome EXCEPT ![c] = "pending"]
  /\ waiting' = Append(waiting, c)
  /\ UNCHANGED active

\* The call that has waited longest begins, when there is room for it.
Begin ==
  /\ waiting # << >>
  /\ outcome[Head(waiting)] = "pending"
  /\ Cardinality(active) < MaxActive
  /\ active' = active \cup {Head(waiting)}
  /\ waiting' = Tail(waiting)
  /\ UNCHANGED outcome

\* A withdrawn call that has reached the head is dropped without a trace.
Drop ==
  /\ waiting # << >>
  /\ outcome[Head(waiting)] = "canceled"
  /\ waiting' = Tail(waiting)
  /\ UNCHANGED <<active, outcome>>

\* The call at the head is lost when it should begin, and its caller hears
\* nothing of it.
Lose ==
  /\ waiting # << >>
  /\ Head(waiting) \in Losable
  /\ outcome[Head(waiting)] = "pending"
  /\ waiting' = Tail(waiting)
  /\ UNCHANGED <<active, outcome>>

End(c) ==
  /\ c \in active
  /\ active' = active \ {c}
  /\ \E r \in {"complete", "error"} : outcome' = [outcome EXCEPT ![c] = r]
  /\ UNCHANGED waiting

Withdraw(c) ==
  /\ c \in Withdrawable
  /\ outcome[c] = "pending"
  /\ outcome' = [outcome EXCEPT ![c] = "canceled"]
  /\ active' = active \ {c}
  /\ UNCHANGED waiting

Next ==
  \/ Begin
  \/ Drop
  \/ Lose
  \/ \E c \in Request : Accept(c) \/ End(c) \/ Withdraw(c)

Spec == Init /\ [][Next]_vars
=============================================================================
