---------------------------- MODULE MCItemSource ----------------------------
(***************************************************************************)
(* An instance of ItemSource for TLC: a count, a page of the first item and *)
(* a page around an item that may or may not be there.                     *)
(***************************************************************************)
EXTENDS ItemSource

CONSTANTS rc, r0, r2, s1, s2, a1, a2

Requests == {rc, r0, r2}
Queries == {[sql |-> s1, args |-> a1], [sql |-> s2, args |-> a2]}
Pages == [r \in Requests |->
  CASE r = rc -> CountOnly
    [] r = r0 -> [index |-> 0, before |-> 0, after |-> 0]
    [] r = r2 -> [index |-> 2, before |-> 1, after |-> 1]]
Sizes == {2, 3}
=============================================================================
