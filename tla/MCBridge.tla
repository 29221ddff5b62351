------------------------------- MODULE MCBridge -------------------------------
(***************************************************************************)
(* Instances of Bridge for TLC: the requests are interchangeable.          *)
(***************************************************************************)
EXTENDS Bridge, TLC

Symmetry == Permutations(Requests)
==============================================================================
