---------------------------- MODULE MCConnection ----------------------------
(***************************************************************************)
(* Instances of Connection for TLC.  The calls are model values: w is a    *)
(* runAsync that writes, r a runAsync that does not, e an eachAsync, a an  *)
(* allAsync, and v a vacuumAsync.  Where both w and a write, w is an       *)
(* INSERT and a an INSERT OR IGNORE.                                       *)
(***************************************************************************)
EXTENDS Connection

CONSTANTS w, r, e, a, v

KindOf == [o \in Op |-> CASE o = e -> "each" [] o = a -> "all" [] OTHER -> "run"]

NoCalls == {}
OnlyWriter == {w}
OnlyVacuum == {v}
OnlyEach == {e}
OnlyRun == {r}
WriteAndAll == {w, a}
ReadAndWrite == {w, r}
WriteAndEach == {w, e}
EachAndRun == {e, r}
WriteEachAll == {w, e, a}
EachAllRun == {e, a, r}
WriteEachVacuum == {w, e, v}
=============================================================================
