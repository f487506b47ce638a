---------------------------- MODULE MCGLBuffers ----------------------------
(* GLBuffers with two threads that share one target, two buffers of up to two
   units, and as many allocation failures as one buffer and one staging
   block can meet. *)
EXTENDS GLBuffers, TLC

Symmetry == Permutations(Threads) \cup Permutations(Buffers)
=============================================================================
