------------------------------ MODULE MCTimeout ------------------------------
(***************************************************************************)
(* Model checking of Timeout.  Requests are interchangeable, which the     *)
(* runs without a liveness property exploit.                               *)
(***************************************************************************)
EXTENDS Timeout, TLC

RequestSymmetry == Permutations(Requests)
==============================================================================
