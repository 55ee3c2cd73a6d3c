----------------------------- MODULE ByteStream ------------------------------
(***************************************************************************)
(* What every sender of the two servers promises its client: the bytes of  *)
(* data, from the first, each once and in order, and an end only after the *)
(* last.                                                                   *)
(***************************************************************************)
EXTENDS Integers, Sequences

VARIABLES data,      \* what is to be sent
          wire,      \* what has been put into the connection
          finished   \* the sender considers the data sent

bvars == <<data, wire, finished>>

Init == wire = <<>> /\ finished = FALSE

Deliver ==
  /\ \E n \in Len(wire) + 1 .. Len(data) : wire' = SubSeq(data, 1, n)
  /\ ~finished
  /\ UNCHANGED <<data, finished>>

Finish ==
  /\ wire = data
  /\ finished' = TRUE
  /\ UNCHANGED <<data, wire>>

Next == Deliver \/ Finish

Spec == Init /\ [][Next]_bvars
=============================================================================
