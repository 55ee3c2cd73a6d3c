-------------------------- MODULE MCReliableSocket ---------------------------
(* Model-checking instance of ReliableSocket.                              *)
EXTENDS ReliableSocket
=============================================================================
