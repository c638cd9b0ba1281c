------------------------------ MODULE MCGateway ------------------------------
(***************************************************************************)
(* Model-checking instances of Gateway. The clients and the site are model *)
(* values, so the configurations give every constant its value themselves. *)
(***************************************************************************)
EXTENDS Gateway

==============================================================================
