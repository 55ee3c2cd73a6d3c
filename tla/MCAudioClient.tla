---------------------------- MODULE MCAudioClient ----------------------------
(* Model-checking instance of AudioClient.                                 *)
EXTENDS AudioClient

ASSUME ClientIsJava == JavaClient

\* A song of two chunks, a file that is no song, a list that comes in two
\* parts, an info that is empty.
Typed       == {"play", "play broken", "list", "info empty", "info x"}
TypedChunks == [k \in Typed |-> CASE k = "play" -> 2
                                  [] k = "list" -> 2
                                  [] k = "play broken" -> 1
                                  [] OTHER -> 0]
PlayTyped   == {"play", "play broken"}
NoSong      == {"play broken"}
None        == {}
=============================================================================
