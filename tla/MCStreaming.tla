---------------------------- MODULE MCStreaming ----------------------------
(* Model checking of the streaming of one stored resource.  The runs check
   liveness, so that the sessions are not taken as symmetric. *)
EXTENDS Streaming
=============================================================================
