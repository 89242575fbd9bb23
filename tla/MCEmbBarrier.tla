---------------------------- MODULE MCEmbBarrier ----------------------------
(* Model checking of EmbBarrier; the constants are given in the .cfg files. *)
EXTENDS EmbBarrier
=============================================================================
