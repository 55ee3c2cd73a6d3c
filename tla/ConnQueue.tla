----------------------------- MODULE ConnQueue ------------------------------
(***************************************************************************)
(* What the hand-off between accept() and the threads promises, whatever   *)
(* its locks and counters do: one socket is handed out per socket          *)
(* accepted, in order, except that a turn may give the socket accepted     *)
(* Depth turns later in place of its own; and the main thread stops        *)
(* accepting when it is Depth + 2 sockets ahead of the threads (Depth in   *)
(* the array, one in a thread that has claimed its slot and not read it,   *)
(* one in the main thread's hands).                                        *)
(***************************************************************************)
EXTENDS Integers, Sequences

CONSTANT Depth

VARIABLES accepted,   \* the number of sockets accept() has returned
          handed      \* the sockets handed to the threads, in order

qvars == <<accepted, handed>>

Init == accepted = 0 /\ handed = <<>>

MayAccept == accepted - Len(handed) < Depth + 2

Accept ==
  /\ MayAccept
  /\ accepted' = accepted + 1
  /\ UNCHANGED handed

Take ==
  LET turn == Len(handed) + 1
  IN  \E s \in {turn, turn + Depth} :
        /\ s <= accepted
        /\ handed' = Append(handed, s)
        /\ UNCHANGED accepted

Next == Accept \/ Take

Spec == Init /\ [][Next]_qvars
=============================================================================
