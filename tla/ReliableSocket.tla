--------------------------- MODULE ReliableSocket ----------------------------
(***************************************************************************)
(* Project 4: the sender program reads standard input piece by piece and   *)
(* hands it to a ReliableSocket, whose peer in the receiver program writes *)
(* what it receives to standard output.  Between them is UDP, which may    *)
(* lose, duplicate and overtake datagrams; there are no acknowledgments    *)
(* and no check of type or sequence number, so what the transfer is worth  *)
(* depends on which of these happen.                                       *)
(***************************************************************************)
EXTENDS Integers, Sequences, SequencesExt

CONSTANTS
  MaxPieces,   \* bound of the model: pieces of MAX_DATA_SIZE bytes on stdin
  MaxFaults,   \* bound of the model: datagrams lost or duplicated in a run
  SeqLimit       \* a uint32_t counts modulo this number (2^32 in the code)

ASSUME BoundAssumption == /\ MaxPieces \in Nat /\ MaxFaults \in Nat
                          /\ SeqLimit \in Nat /\ MaxPieces < SeqLimit

\* What may go wrong: the network loses, duplicates or reorders datagrams, or
\* the receiver is started late (bind failing is starting too late for ever).
Mishaps == {"lose", "duplicate", "reorder", "late"}

VARIABLES
  may,                 \* the mishaps that can happen in this run
  faults,              \* how many datagrams were lost or duplicated
  total,               \* pieces on the sender's standard input
  sender, receiver,    \* where the two programs are
  sequence_number,     \* of the sender's socket
  read,                \* pieces the sender has read and sent
  net,                 \* datagrams under way to the receiver
  queue,               \* datagrams in the receiver's socket
  refused,             \* an ICMP error is pending on the sender's socket
  received             \* history: the DATA segments written to stdout

svars == <<sender, sequence_number, read, refused>>
rvars == <<receiver, queue, received>>
vars  == <<may, faults, total, net, svars, rvars>>

\* Segments.  CONN and CLOSE are a header without data.
Header(type) == [type |-> type, sequence_number |-> 0, piece |-> 0]
Data(seq, i) == [type |-> "DATA", sequence_number |-> seq, piece |-> i]

Init ==
  /\ may \in SUBSET Mishaps /\ faults = 0
  /\ total \in 0 .. MaxPieces
  /\ sender = "INIT" /\ sequence_number = 0 /\ read = 0 /\ refused = FALSE
  /\ receiver = IF "late" \in may THEN "unbound" ELSE "accepting"
  /\ net = <<>> /\ queue = <<>> /\ received = <<>>

-----------------------------------------------------------------------------
(* The sender: connect_to_remote, send_data until stdin ends,              *)
(* close_connection.  No step waits for the other side.                    *)

Connect(conns) ==
  /\ sender = "INIT"
  /\ sender' = "ESTABLISHED"
  /\ net' = net \o conns
  /\ UNCHANGED <<may, faults, total, sequence_number, read, refused, rvars>>

\* A changed form of ConnectToRemote: it sends CONN twice, to be sure.
ConnectTwice == Connect(<<Header("CONN"), Header("CONN")>>)

ConnectToRemote == Connect(<<Header("CONN")>>)

\* fread gives the next piece, and a segment carries it away.
SendPiece ==
  /\ sender = "ESTABLISHED" /\ ~refused
  /\ read' = read + 1
  /\ net' = Append(net, Data(sequence_number, read'))
  /\ sequence_number' = (sequence_number + 1) % SeqLimit
  /\ UNCHANGED <<may, faults, total, sender, refused, rvars>>

\* A changed form of SendData: one piece more than there is.
SendPast == read <= total /\ SendPiece

SendData == read < total /\ SendPiece

\* send() reports that nobody was there: exit(EXIT_FAILURE).
Exit ==
  /\ sender = "ESTABLISHED"
  /\ sender' = "failed" /\ refused' = FALSE
  /\ UNCHANGED <<may, faults, total, net, sequence_number, read, rvars>>

SendFails == read < total /\ refused /\ Exit

\* close_connection: a send that fails is only reported.
CloseConnection ==
  /\ sender = "ESTABLISHED"
  /\ sender' = "closed" /\ refused' = FALSE
  /\ net' = IF refused THEN net ELSE Append(net, Header("CLOSE"))
  /\ UNCHANGED <<may, faults, total, sequence_number, read, rvars>>

\* A changed form of SenderCloses: the last piece is not read.
SenderClosesEarly == read + 1 >= total /\ CloseConnection

SenderCloses == read = total /\ CloseConnection

-----------------------------------------------------------------------------
(* The receiver: accept_connection, receive_data until it returns 0,       *)
(* close_connection, whose CLOSE nobody reads.                             *)

Bind ==
  /\ receiver = "unbound"
  /\ receiver' = "accepting"
  /\ UNCHANGED <<may, faults, total, net, svars, queue, received>>

\* The first segment to come is RDT_CONN, or the program exits.
Accept ==
  /\ receiver = "accepting" /\ queue # <<>>
  /\ receiver' = IF Head(queue).type = "CONN" THEN "ESTABLISHED" ELSE "failed"
  /\ queue' = IF Head(queue).type = "CONN" THEN Tail(queue) ELSE <<>>
  /\ UNCHANGED <<may, faults, total, net, svars, received>>

\* receive_data returns the number of bytes after the header, whatever the
\* type and the sequence number are ...
Write ==
  /\ receiver = "ESTABLISHED" /\ queue # <<>>
  /\ Head(queue).type = "DATA"
  /\ received' = Append(received, Head(queue))
  /\ UNCHANGED <<may, faults, total, net, svars, receiver>>

\* A changed form of ReceiveData: the segment stays in the socket.
ReceiveAgain == Len(received) <= MaxPieces /\ Write /\ UNCHANGED queue

ReceiveData == Write /\ queue' = Tail(queue)

\* ... which is 0 for every other type: the loop ends and the socket is closed.
End(state) ==
  /\ receiver = "ESTABLISHED" /\ queue # <<>>
  /\ Head(queue).type # "DATA"
  /\ receiver' = state
  /\ queue' = IF state = "closed" THEN <<>> ELSE Tail(queue)
  /\ UNCHANGED <<may, faults, total, net, svars, received>>

\* A changed form of ReceiveNothing: 0 bytes do not end the loop.
ReceiveOn == End("ESTABLISHED")

ReceiveNothing == End("closed")

-----------------------------------------------------------------------------
(* UDP.                                                                    *)

Bound == receiver \in {"accepting", "ESTABLISHED"}

\* A datagram arrives.  One for a port nobody is bound to may be answered by
\* an ICMP error, which the sender's next send() reports.
Deliver(i) ==
  /\ i \in DOMAIN net /\ (i = 1 \/ "reorder" \in may)
  /\ net' = RemoveAt(net, i)
  /\ IF Bound THEN /\ queue' = Append(queue, net[i])
                   /\ UNCHANGED refused
              ELSE /\ refused' \in {refused, sender = "ESTABLISHED"}
                   /\ UNCHANGED queue
  /\ UNCHANGED <<may, faults, total, sender, sequence_number, read, receiver,
                 received>>

\* On the way, or because the receiver's socket is full.
Lose(i) ==
  /\ "lose" \in may /\ faults < MaxFaults
  /\ i \in DOMAIN net
  /\ net' = RemoveAt(net, i)
  /\ faults' = faults + 1
  /\ UNCHANGED <<may, total, svars, rvars>>

Duplicate(i) ==
  /\ "duplicate" \in may /\ faults < MaxFaults
  /\ i \in DOMAIN net
  /\ net' = InsertAt(net, i, net[i])
  /\ faults' = faults + 1
  /\ UNCHANGED <<may, total, svars, rvars>>

SenderNext   == ConnectToRemote \/ SendData \/ SendFails \/ SenderCloses
ReceiverNext == Accept \/ ReceiveData \/ ReceiveNothing
NetNext      == \E i \in DOMAIN net : Deliver(i) \/ Lose(i) \/ Duplicate(i)

Next == SenderNext \/ Bind \/ ReceiverNext \/ NetNext

Spec == Init /\ [][Next]_vars

\* The two programs are scheduled and what is not lost arrives; nothing says
\* that a late receiver is ever started.
FairSpec == /\ Spec
            /\ WF_vars(SenderNext) /\ WF_vars(ReceiverNext)
            /\ WF_vars(\E i \in DOMAIN net : Deliver(i))

-----------------------------------------------------------------------------
(* Properties.                                                             *)

Segments == {Header("CONN"), Header("CLOSE")}
            \cup {Data(s, i) : s \in 0 .. SeqLimit - 1, i \in 1 .. MaxPieces}

TypeOK ==
  /\ may \subseteq Mishaps /\ faults \in 0 .. MaxFaults
  /\ total \in 0 .. MaxPieces /\ read \in 0 .. total
  /\ sender \in {"INIT", "ESTABLISHED", "closed", "failed"}
  /\ receiver \in {"unbound", "accepting", "ESTABLISHED", "closed", "failed"}
  /\ sequence_number \in 0 .. SeqLimit - 1
  /\ net \in Seq(Segments) /\ queue \in Seq(Segments) /\ received \in Seq(Segments)
  /\ refused \in BOOLEAN

Output == [k \in DOMAIN received |-> received[k].piece]

\* Each mishap spoils the output in its own way only: datagrams that are not
\* duplicated are written once, and those that keep their order, duplicates
\* included, never leave the output out of order, whatever is lost
\* (receive_data looks at neither type nor number, ReliableSocket.cpp:223-236).
OutputOrdered ==
  \A j, k \in DOMAIN Output : j < k =>
    /\ "reorder" \notin may => Output[j] <= Output[k]
    /\ "duplicate" \notin may => Output[j] # Output[k]

\* "Keep receiving data until we do a receive that gives us 0 bytes"
\* (receiver.cpp:34): those 0 bytes mean that the sender has closed, unless a
\* duplicated CONN is taken for them.  And the sender gives up in the middle of
\* its input only when the receiver has ended or was not there.
EndsRightly ==
  /\ receiver = "closed" /\ "duplicate" \notin may => sender = "closed"
  /\ sender = "failed" => "late" \in may \/ receiver \in {"closed", "failed"}

\* As long as nothing is lost and the receiver is started first, both programs
\* come to their end, duplicates and overtaking or not.
TransferEnds ==
  may \cap {"lose", "late"} = {}
    ~> sender \in {"closed", "failed"} /\ receiver \in {"closed", "failed"}

Reliable == may = {}

Stream == INSTANCE ByteStream
            WITH data <- [i \in 1 .. total |-> i],
                 wire <- IF Reliable THEN Output ELSE <<>>,
                 finished <- (Reliable /\ receiver = "closed")

\* Over a network that behaves, "reliable data transport": the output is the
\* input, piece by piece, and the receiver ends only when it has all of it.
StreamSpec == Stream!Spec
=============================================================================
