--------------------------- MODULE MCOpenDatabase ---------------------------
(***************************************************************************)
(* An instance of OpenDatabase for TLC: three calls of openAsync, in all   *)
(* orders with each other and with the shared cache flag.                  *)
(***************************************************************************)
EXTENDS OpenDatabase

CONSTANTS o1, o2, o3

Openers == {o1, o2, o3}
=============================================================================
