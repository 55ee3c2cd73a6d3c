-------------------------- MODULE MCJukeboxServer ---------------------------
(* Model-checking instances of JukeboxServer.                              *)
EXTENDS JukeboxServer

\* A song of three chunks, a list of two, a command nobody knows, and an index
\* out of the range of an int.
Some       == {"play", "list", "unknown"}
SomeChunks == [play |-> 3, list |-> 2, unknown |-> 0]

All        == Some \cup {"play 99999999999"}
AllChunks  == [k \in All |-> IF k \in Some THEN SomeChunks[k] ELSE 0]
OutOfRange == {"play 99999999999"}

Play       == {"play"}
PlayChunks == [play |-> 2]

None == {}
=============================================================================
