---------------------------- MODULE MCGroupSource ----------------------------
(***************************************************************************)
(* Instances of GroupSource for TLC: three requests, one of them for an    *)
(* index and two for a key, and tables of at most three groups.            *)
(***************************************************************************)
EXTENDS GroupSource

CONSTANTS r1, r2, r3, ka, kb, kc

Requests == {r1, r2, r3}
Keys == {ka, kb, kc}
Seeks == [r \in Requests |-> CASE r = r1 -> Absent [] r = r2 -> kb [] r = r3 -> kc]

Row(k, n) == [key |-> k, size |-> n]

\* A first group that is empty, full or not there, and one that moves.
Tables == {<<Row(ka, 0), Row(kb, 2)>>,
           <<Row(ka, 1), Row(kb, 2), Row(kc, 1)>>,
           <<Row(kb, 1), Row(kc, 3)>>}
OneTable == {<<Row(ka, 0), Row(kb, 2)>>}
=============================================================================
