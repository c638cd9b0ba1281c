----------------------------- MODULE MCAdmission -----------------------------
(***************************************************************************)
(* Model checking of Admission: two clients and two keys, with values of   *)
(* API_KEYS that are plain, empty, shared, rotated and malformed, and one  *)
(* that names the anonymous client.  Requests are interchangeable.         *)
(***************************************************************************)
EXTENDS Admission, TLC

CONSTANTS c1, c2, s1, s2

MCKeySpecs ==
    { << >>,
      << <<c1, s1>>, <<c2, s2>> >>,
      << <<c1, s1>>, <<c2, s1>> >>,
      << <<c1, s1>>, <<c1, s2>>, <<c1, Blank>> >>,
      << <<AnonymousClient, s1>> >>,
      << <<c1, Blank>>, <<Blank, s1>> >> }

\* A key in either header, none, and two that differ.
MCCredentials ==
    { [bearer |-> s1, xApiKey |-> Blank], [bearer |-> Blank, xApiKey |-> s2],
      [bearer |-> s2, xApiKey |-> s1], [bearer |-> Blank, xApiKey |-> Blank] }

RequestSymmetry == Permutations(Requests)
==============================================================================
