------------------------------ MODULE MCBreaker ------------------------------
(***************************************************************************)
(* Model checking of Breaker.  The configurations give the constants their *)
(* values; the callers are interchangeable, which only the runs without a  *)
(* liveness property exploit.                                              *)
(***************************************************************************)
EXTENDS Breaker, TLC

CallerSymmetry == Permutations(Callers)
==============================================================================
