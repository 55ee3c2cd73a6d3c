------------------------- MODULE MCChunkedDataSender -------------------------
(* Model-checking instances of ChunkedDataSender.                          *)
EXTENDS ChunkedDataSender

\* Messages and files of each length, every byte different; 0 is junk.
Bytes(n) == [i \in 1 .. n |-> i]
UpTo8    == {Bytes(n) : n \in 0 .. 8}
=============================================================================
