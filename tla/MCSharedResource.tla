-------------------------- MODULE MCSharedResource --------------------------
(* Model checking of the clients of one live resource. *)
EXTENDS SharedResource, TLC

\* The clients differ only in their names.
ClientSymmetry == Permutations(Consumers)
=============================================================================
