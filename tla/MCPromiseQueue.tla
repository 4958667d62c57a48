--------------------------- MODULE MCPromiseQueue ---------------------------
(***************************************************************************)
(* Instances of PromiseQueue for TLC.  The calls are model values; which   *)
(* of them the client may cancel, and for which createPromise throws, is   *)
(* chosen by each configuration.                                           *)
(***************************************************************************)
EXTENDS PromiseQueue

CONSTANTS c1, c2, c3, c4

FourCalls == {c1, c2, c3, c4}
TwoCalls == {c1, c2}
OneCall == {c1}
=============================================================================
