----------------------------- MODULE HttpService -----------------------------
(***************************************************************************)
(* What a client may rely on: its connection receives the parts of one     *)
(* appropriate reply, in order and from nobody else's request, and is      *)
(* closed only once that reply is whole or the client has gone.  The reply *)
(* answers what the client asked for if it sent its request whole, and if  *)
(* not, may answer what an earlier client asked for.  Once the server is   *)
(* broken nothing is promised any more.                                    *)
(***************************************************************************)
EXTENDS Integers, Sequences, SequencesExt

CONSTANT Conns

VARIABLES
  accepted,   \* connections 1 .. accepted have been accepted
  request,    \* what the client of c asks for, and how much of that it sends
  left,       \* connections whose client has gone
  reply,      \* the parts the client of c has received
  closed,     \* connections the server has closed
  broken      \* the server may mistake one client for another

hvars == <<accepted, request, left, reply, closed, broken>>

\* A page or listing, its absence, or a page found impossible to open too late.
Page == {<<"200", "body">>, <<"404">>, <<"200", "404">>}

\* The appropriate replies to each kind of request (handleClient's comments).
Answers(kind) == CASE kind = "bad"     -> {<<"400">>}
                   [] kind = "favicon" -> {<<>>}
                   [] kind = "page"    -> Page
                   [] kind = "dir"     -> Page
                   [] kind = "noname"  -> Page

\* What the server may take the request of c for.
Whole(c) == request[c].sent = "whole"
Heard(c) == IF Whole(c) THEN {request[c].kind}
            ELSE {"bad"} \cup {request[d].kind : d \in {e \in 1 .. accepted : Whole(e)}}

\* The replies to it, as parts that name the connection they answer.
Replies(c) == {[i \in DOMAIN a |-> [what |-> a[i], for |-> c]] :
                 a \in UNION {Answers(kind) : kind \in Heard(c)}}

Init == /\ accepted = 0
        /\ left = {}
        /\ reply = [c \in Conns |-> <<>>]
        /\ closed = {}
        /\ broken = FALSE

Accept == /\ accepted' = accepted + 1
          /\ \A c \in 1 .. accepted : request'[c] = request[c]
          /\ UNCHANGED <<left, reply, closed>>

Leave(c) == /\ c <= accepted /\ c \notin left
            /\ left' = left \cup {c}
            /\ UNCHANGED <<accepted, request, reply, closed>>

Say(c) ==
  /\ c <= accepted /\ c \notin closed \cup left
  /\ \E r \in Replies(c) :
       /\ Len(reply[c]) < Len(r)
       /\ IsPrefix(reply[c], r)
       /\ reply' = [reply EXCEPT ![c] = Append(@, r[Len(@) + 1])]
  /\ UNCHANGED <<accepted, request, left, closed>>

Close(c) ==
  /\ c <= accepted /\ c \notin closed
  /\ c \in left \/ reply[c] \in Replies(c)
  /\ closed' = closed \cup {c}
  /\ UNCHANGED <<accepted, request, left, reply>>

Break == broken'

Next == \/ Break
        \/ ~broken' /\ (Accept \/ \E c \in Conns : Leave(c) \/ Say(c) \/ Close(c))

Spec == Init /\ [][Next]_hvars
=============================================================================
