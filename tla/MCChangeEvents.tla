--------------------------- MODULE MCChangeEvents ---------------------------
(***************************************************************************)
(* Instances of ChangeEvents for TLC: one or two listeners, a call that    *)
(* writes, one or two vacuums, all model values.                           *)
(***************************************************************************)
EXTENDS ChangeEvents

CONSTANTS l1, l2, w1, v1, v2

OneListener == {l1}
TwoListeners == {l1, l2}
OneWriter == {w1}
OneVacuum == {v1}
TwoVacuums == {v1, v2}
NoOps == {}
AnyValue == BOOLEAN
=============================================================================
