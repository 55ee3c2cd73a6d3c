------------------------- MODULE MCContentResponse ---------------------------
(* Model-checking instances of ContentResponse.                            *)
EXTENDS ContentResponse

\* One file of each length, every byte different.
File(n)    == [i \in 1 .. n |-> i]
UpTo10     == {File(n) : n \in 0 .. 10}
=============================================================================
