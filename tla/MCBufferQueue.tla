---------------------------- MODULE MCBufferQueue ----------------------------
(* Model checking of the queue.  The run checks liveness, so that the consumers
   are not taken as symmetric. *)
EXTENDS BufferQueue
=============================================================================
