----------------------------- MODULE MCUpstream ------------------------------
(***************************************************************************)
(* Model checking of Upstream: the configurations give the constants their *)
(* values, the callers are interchangeable.                                *)
(***************************************************************************)
EXTENDS Upstream, TLC

CallerSymmetry == Permutations(Callers)
==============================================================================
