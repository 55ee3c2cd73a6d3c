--------------------------- MODULE MCBoundedBuffer ---------------------------
(* Model-checking instance of BoundedBuffer.                               *)
EXTENDS BoundedBuffer, TLC

Perms == Permutations(Consumers)
=============================================================================
