---------------------------- MODULE MCConnBuffer ----------------------------
(* Model-checking instances of ConnBuffer.                                 *)
EXTENDS ConnBuffer

CONSTANTS w1, w2

TwoWorkers == {w1, w2}
=============================================================================
