------------------------------ MODULE MCHeaders ------------------------------
(* Model checking of the header parsers. *)
EXTENDS Headers
=============================================================================
