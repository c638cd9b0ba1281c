----------------------------- MODULE MCLifecycle -----------------------------
(***************************************************************************)
(* Model checking of Lifecycle.  The clients are interchangeable, which    *)
(* the runs without a liveness property exploit.                           *)
(***************************************************************************)
EXTENDS Lifecycle, TLC

ClientSymmetry == Permutations(Requests)
==============================================================================
