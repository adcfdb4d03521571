----------------------------- MODULE MCControl -----------------------------
(***************************************************************************)
(* Two callers.  With a slot for each, descriptors are freed and given out *)
(* again while others are ready; with one slot for both, somebody has to   *)
(* wait.                                                                   *)
(***************************************************************************)
EXTENDS Control

CONSTANTS c1, c2
MCCallers == {c1, c2}
MCAsks == [c \in MCCallers |-> IF c = c1 THEN {"reconcile"} ELSE {"subscribe"}]
=============================================================================
