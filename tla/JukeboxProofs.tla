---------------------------- MODULE JukeboxProofs -----------------------------
(***************************************************************************)
(* What the jukebox server guarantees for any number of clients and        *)
(* descriptors and any commands: its map, its events and its responses     *)
(* stay consistent however events and clients interleave, and it ends only *)
(* for a cause.  And what the Java client guarantees for any commands,     *)
(* songs and number of connections: one song at a time, no connection left *)
(* open, and towards the server it is one of the clients that              *)
(* JukeboxServer assumes, so that all that is proved of the server holds   *)
(* with this client.                                                       *)
(***************************************************************************)
EXTENDS AudioClient, SequenceTheorems, TLAPS

-----------------------------------------------------------------------------
(* The server: the inductive invariant.                                    *)

BatchRecords == [fd : Fds \cup {Listen}, events : SUBSET Events]

\* What a descriptor is at each time: closed, receiving, sending what is left of
\* a response, or served and taken off epoll.
FdState(f) ==
  \/ fdTable[f] = 0 /\ clients[f] = NoClient /\ interest[f] = {}
  \/ fdTable[f] # 0 /\ clients[f] = Receiving /\ interest[f] = {"in", "rdhup"}
  \/ /\ fdTable[f] # 0 /\ interest[f] = {"out"}
     /\ \E n \in Nat \ {0} : clients[f] = Sending(n)
  \/ fdTable[f] # 0 /\ clients[f] = Sending(0) /\ interest[f] = {}

FdInv == \A f \in Fds : FdState(f)

\* A client has one descriptor.
OwnerInv == \A f, g \in Fds : fdTable[f] = fdTable[g] /\ fdTable[f] # 0 => f = g

\* A batch has one event of a descriptor, and only what epoll still watches for:
\* no handler changes the interest in a descriptor but its own.
BatchInv ==
  /\ batch \subseteq BatchRecords
  /\ \A e \in batch : IF e.fd = Listen
                        THEN e.events = {"in"} /\ accepted < arrived
                        ELSE e.events # {} /\ e.events \subseteq interest[e.fd]
  /\ \A d, e \in batch : d.fd = e.fd => d = e

\* Nothing is sent to, or owed to, a client before it is accepted, or before it
\* has asked.
HistoryInv ==
  /\ \A c \in Conns : accepted < c => /\ sent[c] = 0 /\ owed[c] = 0
                                      /\ source[c] = NoSource /\ wire[c] = <<>>
  /\ \A c \in Conns : asked[c] = 0 => inbox[c] = <<>> /\ owed[c] = 0

\* What has been sent of r is in order, and no further than r has been read; an
\* array has been copied as far as it has been sent.
Streams(r, w) ==
  /\ r.pos <= r.size
  /\ InOrder(r, w)
  /\ IF r.file THEN \A i \in DOMAIN w : w[i] <= r.pos ELSE Len(w) = r.pos

StreamInv == \A c \in Conns : Streams(source[c], wire[c])

\* What is left is what is owed and not sent, and what the response lacks.
LeftInv ==
  \A f \in Fds : fdTable[f] # 0 =>
    /\ sent[fdTable[f]] + clients[f].sender = owed[fdTable[f]]
    /\ Len(wire[fdTable[f]]) + clients[f].sender = source[fdTable[f]].size

IInv == /\ TypeOK /\ FdInv /\ OwnerInv /\ BatchInv /\ HistoryInv
        /\ StreamInv /\ LeftInv /\ DiesForCause

\* A client's state tells which.
LEMMA StatesDiffer ==
  /\ NoClient.sender = 0 /\ Receiving.sender = 0 /\ NoClient # Receiving
  /\ \A n : Sending(n).sender = n /\ Sending(n) # NoClient /\ Sending(n) # Receiving
BY DEF NoClient, Receiving, Sending

LEMMA ConstantTypes ==
  /\ MaxConns \in Nat /\ MaxFds \in Nat /\ MaxCommands \in Nat
  /\ Chunks \in [Commands -> Nat]
  /\ Listen \notin Fds /\ \A f \in Fds : f \in Nat
BY BoundAssumption, CommandAssumption DEF Listen, Fds

\* The numbers that count clients, and the client a descriptor belongs to.
LEMMA CountTypes ==
  ASSUME TypeOK
  PROVE  /\ accepted \in Nat /\ arrived \in Nat
         /\ accepted <= arrived /\ arrived <= MaxConns
         /\ \A f \in Fds : /\ fdTable[f] \in Nat /\ fdTable[f] <= accepted
                           /\ fdTable[f] # 0 => fdTable[f] \in Conns
                           /\ clients[f].sender \in Nat
         /\ \A c \in Conns : sent[c] \in Nat /\ owed[c] \in Nat /\ asked[c] \in Nat
<1>1. arrived \in 0 .. MaxConns /\ accepted \in 0 .. arrived
  BY DEF TypeOK
<1>2. arrived \in Nat /\ accepted \in Nat /\ accepted <= arrived /\ arrived <= MaxConns
  BY <1>1, ConstantTypes
<1>3. ASSUME NEW f \in Fds
      PROVE  /\ fdTable[f] \in Nat /\ fdTable[f] <= accepted
             /\ fdTable[f] # 0 => fdTable[f] \in Conns
  <2>1. fdTable[f] \in 0 .. accepted
    BY DEF TypeOK
  <2>2. QED
    BY <1>2, <2>1, ConstantTypes DEF Conns
<1>4. \A f \in Fds : clients[f].sender \in Nat
  BY DEF TypeOK
<1>5. ASSUME NEW c \in Conns
      PROVE  sent[c] \in Nat /\ owed[c] \in Nat /\ asked[c] \in Nat
  <2>1. sent[c] \in Nat /\ owed[c] \in Nat /\ asked[c] \in 0 .. MaxCommands
    BY DEF TypeOK
  <2>2. QED
    BY <2>1, ConstantTypes
<1>6. QED
  BY <1>2, <1>3, <1>4, <1>5

\* Who has asked nothing has been sent nothing.
LEMMA NoStream ==
  /\ NoSource \in Sources /\ NoSource.size = 0
  /\ <<>> \in Seq(Nat) /\ Len(<<>>) = 0
  /\ Streams(NoSource, <<>>)
BY EmptySeq DEF NoSource, Source, Sources, Streams, InOrder

\* A fresh sender has sent nothing.
LEMMA FreshStream ==
  ASSUME NEW file \in BOOLEAN, NEW size \in Nat
  PROVE  /\ Source(file, size) \in Sources /\ Source(file, size).size = size
         /\ Streams(Source(file, size), <<>>)
BY EmptySeq DEF Source, Sources, Streams, InOrder

LEMMA InitIInv == Init => IInv
<1>1. SUFFICES ASSUME Init PROVE IInv
  OBVIOUS
<1> USE <1>1, ConstantTypes DEF Init
<1>2. TypeOK
  <2>1. <<>> \in Seq(Commands)
    BY EmptySeq
  <2>2. clients \in [Fds -> [state : {"none", "RECEIVING", "SENDING"}, sender : Nat]]
    BY DEF NoClient
  <2>3. source \in [Conns -> Sources] /\ wire \in [Conns -> Seq(Nat)]
    BY NoStream
  <2>4. QED
    BY <2>1, <2>2, <2>3 DEF TypeOK
<1>3. FdInv
  BY DEF FdInv, FdState
<1>4. OwnerInv
  BY DEF OwnerInv
<1>5. BatchInv
  BY DEF BatchInv
<1>6. HistoryInv
  BY DEF HistoryInv
<1>7. StreamInv /\ LeftInv
  BY NoStream DEF StreamInv, LeftInv
<1>8. DiesForCause
  BY DEF DiesForCause
<1>9. QED
  BY <1>2, <1>3, <1>4, <1>5, <1>6, <1>7, <1>8 DEF IInv

-----------------------------------------------------------------------------
(* The clients.                                                            *)

LEMMA ConnectStep ==
  ASSUME IInv, Connect
  PROVE  IInv'
<1> USE ConstantTypes DEF IInv, Connect, responses
<1>1. TypeOK'
  BY DEF TypeOK
<1>2. FdInv' /\ OwnerInv'
  BY DEF FdInv, FdState, OwnerInv
<1>3. BatchInv'
  BY DEF BatchInv, TypeOK
<1>4. HistoryInv' /\ StreamInv' /\ LeftInv'
  BY DEF HistoryInv, StreamInv, LeftInv
<1>5. DiesForCause'
  BY DEF DiesForCause
<1>6. QED
  BY <1>1, <1>2, <1>3, <1>4, <1>5

LEMMA AskStep ==
  ASSUME IInv, NEW c \in Conns, Ask(c)
  PROVE  IInv'
<1>1. TypeOK /\ FdInv /\ OwnerInv /\ BatchInv /\ HistoryInv /\ StreamInv /\ LeftInv
  BY DEF IInv
<1>2. PICK k \in Commands : inbox' = [inbox EXCEPT ![c] = Append(@, k)]
  BY DEF Ask
<1>3. /\ alive /\ asked[c] < MaxCommands /\ asked' = [asked EXCEPT ![c] = @ + 1]
      /\ UNCHANGED <<arrived, gone, accepted, fdTable, interest, clients, batch,
                     sent, owed, source, wire, alive>>
  BY DEF Ask, responses
<1>4. TypeOK'
  <2>1. Append(inbox[c], k) \in Seq(Commands)
    BY <1>1 DEF TypeOK
  <2>2. inbox' \in [Conns -> Seq(Commands)]
    BY <1>1, <1>2, <2>1 DEF TypeOK
  <2>3. asked' \in [Conns -> 0 .. MaxCommands]
    BY <1>1, <1>3, ConstantTypes DEF TypeOK
  <2>4. QED
    BY <1>1, <1>3, <2>2, <2>3 DEF TypeOK
<1>5. FdInv' /\ OwnerInv' /\ BatchInv' /\ StreamInv' /\ LeftInv'
  BY <1>1, <1>3 DEF FdInv, FdState, OwnerInv, BatchInv, StreamInv, LeftInv
<1>6. HistoryInv'
  <2>1. asked[c] \in Nat
    BY <1>1, ConstantTypes DEF TypeOK
  <2>2. asked'[c] # 0
    BY <1>1, <1>3, <2>1 DEF TypeOK
  <2>3. \A d \in Conns : d # c => asked'[d] = asked[d] /\ inbox'[d] = inbox[d]
    BY <1>1, <1>2, <1>3 DEF TypeOK
  <2>4. QED
    BY <1>1, <1>3, <2>2, <2>3 DEF HistoryInv
<1>7. DiesForCause'
  BY <1>3 DEF DiesForCause
<1>8. QED
  BY <1>4, <1>5, <1>6, <1>7 DEF IInv

LEMMA LeaveStep ==
  ASSUME IInv, NEW c \in Conns, Leave(c)
  PROVE  IInv'
<1> USE DEF IInv, Leave, responses
<1>1. TypeOK'
  BY DEF TypeOK
<1>2. FdInv' /\ OwnerInv' /\ BatchInv' /\ StreamInv' /\ LeftInv' /\ HistoryInv'
  BY DEF FdInv, FdState, OwnerInv, BatchInv, StreamInv, LeftInv, HistoryInv
<1>3. DiesForCause'
  <2>1. gone \subseteq gone' /\ FreeFds' = FreeFds
    BY DEF FreeFds
  <2>2. QED
    BY <2>1 DEF DiesForCause
<1>4. QED
  BY <1>1, <1>2, <1>3

-----------------------------------------------------------------------------
(* The event loop.                                                         *)

\* epoll_wait reports what it watches for, once for each descriptor.
LEMMA WaitStep ==
  ASSUME IInv, Wait
  PROVE  IInv'
<1>1. TypeOK /\ FdInv /\ OwnerInv /\ BatchInv /\ HistoryInv /\ StreamInv /\ LeftInv
  BY DEF IInv
<1>2. alive /\ UNCHANGED <<world, accepted, fdTable, interest, clients, sent, owed,
                           source, wire, alive>>
  BY DEF Wait, responses
<1>3. /\ arrived' = arrived /\ inbox' = inbox /\ asked' = asked /\ gone' = gone
  BY <1>2 DEF world
<1>4. PICK room \in SUBSET Watched :
        batch' = {[fd |-> f, events |-> Ready(f, room)] :
                    f \in {g \in Watched : Ready(g, room) # {}}}
                 \cup (IF arrived > accepted
                         THEN {[fd |-> Listen, events |-> {"in"}]} ELSE {})
  BY DEF Wait
<1>5. \A f \in Fds : Ready(f, room) \subseteq interest[f] /\ interest[f] \subseteq Events
  BY <1>1 DEF Ready, TypeOK
<1>6. ASSUME NEW e \in batch'
      PROVE  \/ e = [fd |-> Listen, events |-> {"in"}] /\ accepted < arrived
             \/ \E f \in Fds : /\ e = [fd |-> f, events |-> Ready(f, room)]
                               /\ Ready(f, room) # {}
  <2>1. CASE e \in {[fd |-> f, events |-> Ready(f, room)] :
                      f \in {g \in Watched : Ready(g, room) # {}}}
    BY <2>1 DEF Watched
  <2>2. CASE arrived > accepted /\ e = [fd |-> Listen, events |-> {"in"}]
    BY <1>1, <2>2, ConstantTypes DEF TypeOK
  <2>3. QED
    BY <1>4, <1>6, <2>1, <2>2
<1>7. ASSUME NEW e \in batch'
      PROVE  /\ e \in BatchRecords
             /\ IF e.fd = Listen
                  THEN e = [fd |-> Listen, events |-> {"in"}] /\ accepted < arrived
                  ELSE /\ e.fd \in Fds
                       /\ e = [fd |-> e.fd, events |-> Ready(e.fd, room)]
                       /\ e.events # {} /\ e.events \subseteq interest[e.fd]
  <2>1. CASE e = [fd |-> Listen, events |-> {"in"}] /\ accepted < arrived
    BY <2>1 DEF BatchRecords, Events
  <2>2. CASE \E f \in Fds : /\ e = [fd |-> f, events |-> Ready(f, room)]
                            /\ Ready(f, room) # {}
    <3>1. PICK f \in Fds : e = [fd |-> f, events |-> Ready(f, room)]
                           /\ Ready(f, room) # {}
      BY <2>2
    <3>2. e.fd = f /\ e.events = Ready(f, room) /\ f # Listen
      BY <3>1, ConstantTypes
    <3>3. Ready(f, room) \in SUBSET Events
      BY <1>5
    <3>4. e \in BatchRecords
      BY <3>1, <3>3 DEF BatchRecords
    <3>5. QED
      BY <1>5, <3>1, <3>2, <3>4
  <2>3. QED
    BY <1>6, <1>7, <2>1, <2>2
<1>8. BatchInv'
  <2>1. \A d, e \in batch' : d.fd = e.fd => d = e
    BY <1>7
  <2>2. \A e \in batch' : IF e.fd = Listen
                            THEN e.events = {"in"} /\ accepted < arrived
                            ELSE e.events # {} /\ e.events \subseteq interest[e.fd]
    BY <1>7
  <2>3. batch' \subseteq BatchRecords
    BY <1>7
  <2>4. QED
    BY <1>2, <1>3, <2>1, <2>2, <2>3 DEF BatchInv, BatchRecords
<1>9. TypeOK'
  <2>1. \A e \in batch' : e.fd \in Fds \cup {Listen} /\ e.events \subseteq Events
    BY <1>7 DEF BatchRecords
  <2>2. QED
    BY <1>1, <1>2, <1>3, <2>1 DEF TypeOK
<1>10. FdInv' /\ OwnerInv' /\ HistoryInv' /\ StreamInv' /\ LeftInv'
  BY <1>1, <1>2, <1>3 DEF FdInv, FdState, OwnerInv, HistoryInv, StreamInv, LeftInv
<1>11. DiesForCause'
  BY <1>2 DEF DiesForCause
<1>12. QED
  BY <1>8, <1>9, <1>10, <1>11 DEF IInv

\* An event that is handled fits its client, which is accepted.
LEMMA EventFits ==
  ASSUME IInv, NEW e \in batch, e.fd # Listen
  PROVE  /\ e.fd \in Fds /\ fdTable[e.fd] \in Conns /\ fdTable[e.fd] <= accepted
         /\ \/ /\ e.events = {"out"} /\ interest[e.fd] = {"out"}
               /\ \E n \in Nat \ {0} : clients[e.fd] = Sending(n)
            \/ /\ "out" \notin e.events /\ interest[e.fd] = {"in", "rdhup"}
               /\ clients[e.fd] = Receiving
<1>1. e.fd \in Fds
  BY DEF IInv, TypeOK
<1>2. e.events # {} /\ e.events \subseteq interest[e.fd]
  BY DEF IInv, BatchInv
<1>3. FdState(e.fd)
  BY <1>1 DEF IInv, FdInv
<1>4. fdTable[e.fd] # 0
  BY <1>2, <1>3 DEF FdState
<1>5. fdTable[e.fd] \in 0 .. accepted /\ accepted \in 0 .. arrived
      /\ arrived \in 0 .. MaxConns
  BY <1>1 DEF IInv, TypeOK
<1>6. fdTable[e.fd] \in Conns /\ fdTable[e.fd] <= accepted
  BY <1>4, <1>5, ConstantTypes DEF Conns
<1>7. QED
  BY <1>1, <1>2, <1>3, <1>6 DEF FdState

\* Its handler takes it out of the batch, which has no other for the descriptor.
LEMMA HandledEffect ==
  ASSUME IInv, NEW e \in batch, Handled(e)
  PROVE  batch' = batch \ {e} /\ \A d \in batch' : d \in batch /\ d.fd # e.fd
<1>1. "out" \in e.events => e.events = {"out"}
  <2>1. CASE e.fd = Listen
    BY <2>1 DEF IInv, BatchInv
  <2>2. CASE e.fd # Listen
    BY <2>2, EventFits
  <2>3. QED
    BY <2>1, <2>2
<1>2. batch' = batch \ {e}
  BY <1>1 DEF Handled
<1>3. QED
  BY <1>2 DEF IInv, BatchInv

\* The events left still fit when nothing but the handled descriptor has changed.
LEMMA BatchAfter ==
  ASSUME IInv, NEW e \in batch, Handled(e),
         arrived' = arrived, accepted' = accepted \/ e.fd = Listen,
         \A d \in batch' : d.fd # Listen => interest[d.fd] \subseteq interest'[d.fd]
  PROVE  /\ BatchInv'
         /\ \A d \in batch' : d.fd \in Fds \cup {Listen} /\ d.events \subseteq Events
<1>1. batch' = batch \ {e} /\ \A d \in batch' : d \in batch /\ d.fd # e.fd
  BY HandledEffect
<1>2. TypeOK /\ BatchInv
  BY DEF IInv
<1>3. batch' \subseteq BatchRecords /\ \A d, b \in batch' : d.fd = b.fd => d = b
  BY <1>1, <1>2 DEF BatchInv
<1>4. ASSUME NEW d \in batch'
      PROVE  IF d.fd = Listen
               THEN d.events = {"in"} /\ accepted' < arrived'
               ELSE d.events # {} /\ d.events \subseteq interest'[d.fd]
  <2>1. CASE d.fd = Listen
    <3>1. d.events = {"in"} /\ accepted < arrived
      BY <1>1, <1>2, <2>1 DEF BatchInv
    <3>2. accepted' = accepted
      BY <1>1, <2>1
    <3>3. QED
      BY <2>1, <3>1, <3>2
  <2>2. CASE d.fd # Listen
    <3>1. d.events # {} /\ d.events \subseteq interest[d.fd]
      BY <1>1, <1>2, <2>2 DEF BatchInv
    <3>2. QED
      BY <2>2, <3>1
  <2>3. QED
    BY <2>1, <2>2
<1>5. \A d \in batch' : d.fd \in Fds \cup {Listen} /\ d.events \subseteq Events
  BY <1>1, <1>2 DEF TypeOK
<1>6. BatchInv'
  BY <1>3, <1>4 DEF BatchInv, BatchRecords
<1>7. QED
  BY <1>5, <1>6

\* A new client gets a descriptor nobody has.
LEMMA SetupStep ==
  ASSUME IInv, NEW e \in batch, alive, SetupNewClient(e)
  PROVE  IInv'
<1>1. TypeOK /\ FdInv /\ OwnerInv /\ BatchInv /\ HistoryInv /\ StreamInv /\ LeftInv
  BY DEF IInv
<1>2. PICK f \in LowestFree :
        /\ clients[f] = NoClient
        /\ fdTable' = [fdTable EXCEPT ![f] = accepted']
        /\ interest' = [interest EXCEPT ![f] = {"in", "rdhup"}]
        /\ clients' = [clients EXCEPT ![f] = Receiving]
  BY DEF SetupNewClient
<1>3. f \in Fds /\ fdTable[f] = 0
  BY DEF LowestFree, FreeFds
<1>4. /\ e.fd = Listen /\ accepted' = accepted + 1 /\ Handled(e)
      /\ arrived' = arrived /\ inbox' = inbox /\ asked' = asked /\ gone' = gone
      /\ sent' = sent /\ owed' = owed /\ source' = source /\ wire' = wire
      /\ alive' = alive
  BY DEF SetupNewClient, world, responses
<1>5. accepted < arrived
  BY <1>1, <1>4 DEF BatchInv
<1>6. /\ accepted \in Nat /\ arrived \in Nat /\ arrived <= MaxConns
      /\ MaxConns \in Nat /\ accepted' \in 0 .. arrived /\ accepted' # 0
      /\ accepted' \in Conns
  BY <1>1, <1>4, <1>5, ConstantTypes DEF TypeOK, Conns
<1>7. \A g \in Fds : fdTable[g] \in Nat /\ fdTable[g] <= accepted
  BY <1>1, <1>6 DEF TypeOK
<1>8. \A g \in Fds \ {f} : /\ fdTable'[g] = fdTable[g] /\ clients'[g] = clients[g]
                           /\ interest'[g] = interest[g]
  BY <1>1, <1>2, <1>3 DEF TypeOK
<1>9. fdTable'[f] = accepted' /\ clients'[f] = Receiving
      /\ interest'[f] = {"in", "rdhup"}
  BY <1>1, <1>2, <1>3 DEF TypeOK
<1>10. FdInv'
  <2>1. \A g \in Fds \ {f} : FdState(g)'
    BY <1>1, <1>8 DEF FdInv, FdState
  <2>2. FdState(f)'
    BY <1>6, <1>9 DEF FdState
  <2>3. QED
    BY <2>1, <2>2 DEF FdInv
<1>11. OwnerInv'
  <2>1. \A g \in Fds \ {f} : fdTable'[g] # accepted'
    BY <1>4, <1>6, <1>7, <1>8
  <2>2. QED
    BY <1>1, <1>8, <1>9, <2>1 DEF OwnerInv
<1>12. /\ BatchInv'
       /\ \A d \in batch' : d.fd \in Fds \cup {Listen} /\ d.events \subseteq Events
  <2>1. \A d \in batch' : d.fd # Listen => interest[d.fd] \subseteq interest'[d.fd]
    <3>1. SUFFICES ASSUME NEW d \in batch', d.fd # Listen
                   PROVE  interest[d.fd] \subseteq interest'[d.fd]
      OBVIOUS
    <3>2. d \in batch
      BY <1>4, HandledEffect
    <3>3. d.fd \in Fds /\ fdTable[d.fd] # 0
      BY <3>1, <3>2, EventFits, ConstantTypes DEF Conns
    <3>4. QED
      BY <1>3, <1>8, <3>3
  <2>2. QED
    BY <1>4, <2>1, BatchAfter
<1>13. TypeOK'
  <2>1. fdTable' \in [Fds -> 0 .. accepted']
    <3>1. 0 .. accepted \subseteq 0 .. accepted' /\ accepted' \in 0 .. accepted'
      BY <1>4, <1>6
    <3>2. fdTable \in [Fds -> 0 .. accepted']
      BY <1>1, <3>1 DEF TypeOK
    <3>3. QED
      BY <1>2, <3>1, <3>2
  <2>2. interest' \in [Fds -> SUBSET Events]
    BY <1>1, <1>2 DEF TypeOK, Events
  <2>3. clients' \in [Fds -> [state : {"none", "RECEIVING", "SENDING"}, sender : Nat]]
    <3>1. Receiving \in [state : {"none", "RECEIVING", "SENDING"}, sender : Nat]
      BY DEF Receiving
    <3>2. QED
      BY <1>1, <1>2, <3>1 DEF TypeOK
  <2>4. QED
    BY <1>1, <1>4, <1>6, <1>12, <2>1, <2>2, <2>3 DEF TypeOK
<1>14. HistoryInv'
  <2>1. \A c \in Conns : accepted' < c => accepted < c
    BY <1>4, <1>6 DEF Conns
  <2>2. QED
    BY <1>1, <1>4, <2>1 DEF HistoryInv
<1>15. StreamInv' /\ LeftInv'
  <2>1. /\ sent[accepted'] = 0 /\ owed[accepted'] = 0
        /\ source[accepted'] = NoSource /\ wire[accepted'] = <<>>
    BY <1>1, <1>4, <1>6 DEF HistoryInv
  <2>2. \A g \in Fds \ {f} : fdTable'[g] # 0 =>
          /\ sent'[fdTable'[g]] + clients'[g].sender = owed'[fdTable'[g]]
          /\ Len(wire'[fdTable'[g]]) + clients'[g].sender = source'[fdTable'[g]].size
    BY <1>1, <1>4, <1>8 DEF LeftInv
  <2>3. /\ sent'[fdTable'[f]] + clients'[f].sender = owed'[fdTable'[f]]
        /\ Len(wire'[fdTable'[f]]) + clients'[f].sender = source'[fdTable'[f]].size
    BY <1>4, <1>9, <2>1, StatesDiffer, NoStream
  <2>4. LeftInv'
    BY <2>2, <2>3 DEF LeftInv
  <2>5. QED
    BY <1>1, <1>4, <2>4 DEF StreamInv
<1>16. DiesForCause'
  BY <1>4 DEF DiesForCause
<1>17. QED
  BY <1>10, <1>11, <1>12, <1>13, <1>14, <1>15, <1>16 DEF IInv

\* A handler that closes its descriptor, or changes its client's state, disturbs
\* no other client's.
LEMMA OwnFdStep ==
  ASSUME IInv, NEW e \in batch, e.fd # Listen, alive, Handled(e),
         UNCHANGED <<arrived, asked, gone, accepted, alive>>,
         NEW t \in {0, fdTable[e.fd]}, fdTable' = [fdTable EXCEPT ![e.fd] = t],
         NEW s \in {NoClient, Receiving} \cup {Sending(n) : n \in Nat},
         clients' = [clients EXCEPT ![e.fd] = s],
         NEW i \in SUBSET Events, interest' = [interest EXCEPT ![e.fd] = i],
         FdState(e.fd)',
         inbox' \in [Conns -> Seq(Commands)],
         \A c \in Conns : inbox[c] = <<>> => inbox'[c] = <<>>,
         NEW n \in Nat, owed' = [owed EXCEPT ![fdTable[e.fd]] = @ + n],
         n > 0 => asked[fdTable[e.fd]] # 0,
         NEW k \in Nat, sent' = [sent EXCEPT ![fdTable[e.fd]] = @ + k],
         t # 0 => k + s.sender = n + clients[e.fd].sender,
         NEW r \in Sources, source' = [source EXCEPT ![fdTable[e.fd]] = r],
         NEW w \in Seq(Nat), wire' = [wire EXCEPT ![fdTable[e.fd]] = w],
         Streams(r, w), t # 0 => Len(w) + s.sender = r.size
  PROVE  IInv'
<1> DEFINE f == e.fd
           c == fdTable[f]
<1>1. TypeOK /\ FdInv /\ OwnerInv /\ BatchInv /\ HistoryInv /\ StreamInv /\ LeftInv
  BY DEF IInv
<1>2. f \in Fds /\ c \in Conns /\ c <= accepted /\ c # 0
  BY EventFits DEF Conns
<1>3. \A g \in Fds \ {f} : /\ fdTable'[g] = fdTable[g] /\ clients'[g] = clients[g]
                           /\ interest'[g] = interest[g]
  BY <1>1 DEF TypeOK
<1>4. fdTable'[f] = t /\ clients'[f] = s /\ interest'[f] = i
  BY <1>1, <1>2 DEF TypeOK
<1>5. \A d \in Conns \ {c} : /\ sent'[d] = sent[d] /\ owed'[d] = owed[d]
                            /\ source'[d] = source[d] /\ wire'[d] = wire[d]
  BY <1>1 DEF TypeOK
<1>6. /\ sent'[c] = sent[c] + k /\ owed'[c] = owed[c] + n
      /\ sent[c] \in Nat /\ owed[c] \in Nat
      /\ source'[c] = r /\ wire'[c] = w
  BY <1>1, <1>2 DEF TypeOK
<1> HIDE DEF f, c
<1>7. FdInv'
  <2>1. \A g \in Fds \ {f} : FdState(g)'
    BY <1>1, <1>3 DEF FdInv, FdState
  <2>2. QED
    BY <2>1 DEF FdInv, f
<1>8. OwnerInv'
  BY <1>1, <1>2, <1>3, <1>4 DEF OwnerInv, c
<1>9. /\ BatchInv'
      /\ \A d \in batch' : d.fd \in Fds \cup {Listen} /\ d.events \subseteq Events
  <2>1. ASSUME NEW d \in batch', d.fd # Listen
        PROVE  interest[d.fd] \subseteq interest'[d.fd]
    <3>1. d \in batch /\ d.fd # f
      BY HandledEffect DEF f
    <3>2. d.fd \in Fds
      BY <1>1, <2>1, <3>1 DEF TypeOK
    <3>3. QED
      BY <1>3, <3>1, <3>2
  <2>2. QED
    BY <2>1, BatchAfter
<1>10. TypeOK'
  <2>1. fdTable' \in [Fds -> 0 .. accepted']
    BY <1>1, ConstantTypes DEF TypeOK
  <2>2. interest' \in [Fds -> SUBSET Events]
    BY <1>1 DEF TypeOK
  <2>3. clients' \in [Fds -> [state : {"none", "RECEIVING", "SENDING"}, sender : Nat]]
    <3>1. s \in [state : {"none", "RECEIVING", "SENDING"}, sender : Nat]
      BY DEF NoClient, Receiving, Sending
    <3>2. QED
      BY <1>1, <3>1 DEF TypeOK
  <2>4. sent' \in [Conns -> Nat] /\ owed' \in [Conns -> Nat]
    <3>1. sent[c] + k \in Nat /\ owed[c] + n \in Nat
      BY <1>6
    <3>2. QED
      BY <1>1, <3>1 DEF TypeOK, c, f
  <2>5. source' \in [Conns -> Sources] /\ wire' \in [Conns -> Seq(Nat)]
    BY <1>1 DEF TypeOK
  <2>6. QED
    BY <1>1, <1>9, <2>1, <2>2, <2>3, <2>4, <2>5 DEF TypeOK
<1>11. HistoryInv'
  <2>1. \A d \in Conns : accepted' < d =>
          /\ sent'[d] = 0 /\ owed'[d] = 0
          /\ source'[d] = NoSource /\ wire'[d] = <<>>
    <3>1. SUFFICES ASSUME NEW d \in Conns, accepted < d
                   PROVE  /\ sent'[d] = 0 /\ owed'[d] = 0
                          /\ source'[d] = NoSource /\ wire'[d] = <<>>
      OBVIOUS
    <3>2. d # c
      BY <1>1, <1>2, <3>1, ConstantTypes DEF TypeOK, Conns
    <3>3. QED
      BY <1>1, <1>5, <3>1, <3>2 DEF HistoryInv
  <2>2. \A d \in Conns : asked'[d] = 0 => inbox'[d] = <<>> /\ owed'[d] = 0
    <3>1. SUFFICES ASSUME NEW d \in Conns, asked[d] = 0
                   PROVE  inbox'[d] = <<>> /\ owed'[d] = 0
      OBVIOUS
    <3>2. inbox'[d] = <<>> /\ owed[d] = 0
      BY <1>1, <3>1 DEF HistoryInv
    <3>3. d = c => n = 0
      BY <3>1 DEF c, f
    <3>4. QED
      BY <1>5, <1>6, <3>2, <3>3
  <2>3. QED
    BY <2>1, <2>2 DEF HistoryInv
<1>12. LeftInv'
  <2>1. ASSUME NEW g \in Fds \ {f}, fdTable[g] # 0
        PROVE  /\ sent'[fdTable'[g]] + clients'[g].sender = owed'[fdTable'[g]]
               /\ Len(wire'[fdTable'[g]]) + clients'[g].sender
                    = source'[fdTable'[g]].size
    <3>1. fdTable[g] # c
      BY <1>1, <1>2, <2>1 DEF OwnerInv, c
    <3>2. fdTable[g] \in Conns
      BY <1>1, <2>1, CountTypes
    <3>3. QED
      BY <1>1, <1>3, <1>5, <2>1, <3>1, <3>2 DEF LeftInv
  <2>2. ASSUME t # 0
        PROVE  /\ sent'[fdTable'[f]] + clients'[f].sender = owed'[fdTable'[f]]
               /\ Len(wire'[fdTable'[f]]) + clients'[f].sender
                    = source'[fdTable'[f]].size
    <3>1. fdTable'[f] = c /\ clients'[f].sender = s.sender
      BY <1>4, <2>2 DEF c, f
    <3>2. sent[c] + clients[f].sender = owed[c]
      BY <1>1, <1>2 DEF LeftInv, c
    <3>3. s.sender \in Nat /\ clients[f].sender \in Nat
      BY <1>1, <1>2, StatesDiffer DEF TypeOK
    <3>4. k + s.sender = n + clients[f].sender
      BY <2>2 DEF f
    <3>5. sent'[c] + s.sender = owed'[c]
      <4> DEFINE a == sent[c]
                 b == owed[c]
                 x == clients[f].sender
                 y == s.sender
      <4>1. /\ a \in Nat /\ b \in Nat /\ x \in Nat /\ y \in Nat
            /\ a + x = b /\ k + y = n + x
        BY <1>6, <3>2, <3>3, <3>4
      <4>2. sent'[c] = a + k /\ owed'[c] = b + n
        BY <1>6
      <4> HIDE DEF a, b, x, y
      <4>3. (a + k) + y = b + n
        BY <4>1
      <4>4. QED
        BY <4>2, <4>3 DEF y
    <3>6. Len(wire'[c]) + s.sender = source'[c].size
      BY <1>6, <2>2
    <3>7. QED
      BY <3>1, <3>5, <3>6
  <2>3. QED
    BY <1>3, <1>4, <2>1, <2>2 DEF LeftInv
<1>13. StreamInv'
  BY <1>1, <1>5, <1>6 DEF StreamInv
<1>14. DiesForCause'
  BY DEF DiesForCause
<1>15. QED
  BY <1>7, <1>8, <1>9, <1>10, <1>11, <1>12, <1>13, <1>14 DEF IInv

\* The same functions, written as updates.
LEMMA NoUpdate ==
  ASSUME TypeOK, NEW f \in Fds, NEW c \in Conns
  PROVE  /\ fdTable = [fdTable EXCEPT ![f] = fdTable[f]]
         /\ clients = [clients EXCEPT ![f] = clients[f]]
         /\ interest = [interest EXCEPT ![f] = interest[f]]
         /\ sent = [sent EXCEPT ![c] = @ + 0] /\ owed = [owed EXCEPT ![c] = @ + 0]
         /\ source = [source EXCEPT ![c] = source[c]]
         /\ wire = [wire EXCEPT ![c] = wire[c]]
<1>1. sent[c] + 0 = sent[c] /\ owed[c] + 0 = owed[c]
  BY DEF TypeOK
<1>2. QED
  BY <1>1 DEF TypeOK

LEMMA CloseStep ==
  ASSUME IInv, NEW e \in batch, alive, HandleClose(e)
  PROVE  IInv'
<1> DEFINE f == e.fd
           c == fdTable[f]
<1>1. TypeOK /\ HistoryInv
  BY DEF IInv
<1>2. /\ f # Listen /\ Handled(e) /\ UNCHANGED <<arrived, asked, gone, accepted, alive>>
      /\ fdTable' = [fdTable EXCEPT ![f] = 0]
      /\ interest' = [interest EXCEPT ![f] = {}]
      /\ clients' = [clients EXCEPT ![f] = NoClient]
      /\ inbox' = inbox /\ sent' = sent /\ owed' = owed
      /\ source' = source /\ wire' = wire
  BY DEF HandleClose, world, responses
<1>3. f \in Fds /\ c \in Conns
  BY <1>2, EventFits
<1>4. FdState(f)'
  BY <1>1, <1>2, <1>3 DEF FdState, TypeOK
<1>5. inbox' \in [Conns -> Seq(Commands)]
  BY <1>1, <1>2 DEF TypeOK
<1>6. /\ sent' = [sent EXCEPT ![c] = @ + 0] /\ owed' = [owed EXCEPT ![c] = @ + 0]
      /\ source' = [source EXCEPT ![c] = source[c]]
      /\ wire' = [wire EXCEPT ![c] = wire[c]]
      /\ source[c] \in Sources /\ wire[c] \in Seq(Nat) /\ Streams(source[c], wire[c])
  <2>1. StreamInv
    BY DEF IInv
  <2>2. QED
    BY <1>1, <1>2, <1>3, <2>1, NoUpdate DEF TypeOK, StreamInv
<1>7. /\ {} \in SUBSET Events /\ 0 \in Nat /\ ~(0 > 0) /\ 0 \in {0, c}
      /\ NoClient \in {NoClient, Receiving} \cup {Sending(m) : m \in Nat}
      /\ \A d \in Conns : inbox[d] = <<>> => inbox'[d] = <<>>
  BY <1>2
<1>8. QED
  BY <1>2, <1>4, <1>5, <1>6, <1>7, OwnFdStep

LEMMA SeqOfLen ==
  ASSUME NEW k \in Nat, NEW n \in [1 .. k -> Nat]
  PROVE  n \in Seq(Nat) /\ Len(n) = k
<1>1. n \in Seq(Nat)
  OBVIOUS
<1>2. DOMAIN n = 1 .. Len(n) /\ Len(n) \in Nat
  BY <1>1, LenProperties
<1>3. DOMAIN n = 1 .. k
  OBVIOUS
<1>4. QED
  BY <1>1, <1>2, <1>3

\* Places after the first l.
LEMMA Later ==
  ASSUME NEW l \in Nat, NEW i \in Nat, NEW j \in Nat
  PROVE  /\ i > l => i - l \in Nat /\ i - l > 0
         /\ i < j => i - l < j - l
OBVIOUS

\* The next k chunks follow what has been sent; a file may be read one further.
LEMMA LoopStreams ==
  ASSUME NEW r \in Sources, NEW w \in Seq(Nat), Streams(r, w), NEW k \in Nat,
         NEW m \in {k, k + 1}, ~r.file => m = k /\ Len(w) + k <= r.size
  PROVE  /\ Advance(r, m) \in Sources /\ Advance(r, m).size = r.size
         /\ w \o NextChunks(r, k) \in Seq(Nat)
         /\ Len(w \o NextChunks(r, k)) = Len(w) + k
         /\ Streams(Advance(r, m), w \o NextChunks(r, k))
<1> DEFINE n == NextChunks(r, k)
           v == w \o n
           a == Advance(r, m)
<1>1. r.size \in Nat /\ r.pos \in Nat /\ r.pos <= r.size /\ m \in Nat /\ k <= m
  BY DEF Sources, Streams
<1>2. /\ a \in Sources /\ a.size = r.size /\ a.file = r.file
      /\ a.pos = IF r.pos + m <= r.size THEN r.pos + m ELSE r.size
  BY <1>1 DEF Advance, Sources
<1>3. n \in [1 .. k -> Nat]
  BY <1>1 DEF NextChunks
<1>4. n \in Seq(Nat) /\ Len(n) = k
  <2> HIDE DEF n
  <2>1. QED
    BY <1>3, SeqOfLen
<1>5. v \in Seq(Nat) /\ Len(v) = Len(w) + k /\ Len(w) \in Nat
  <2> HIDE DEF n
  <2>1. Len(w) \in Nat
    BY LenProperties
  <2>2. QED
    BY <1>4, <2>1, ConcatProperties
<1>6. DOMAIN v = 1 .. (Len(w) + k) /\ DOMAIN w = 1 .. Len(w)
  BY <1>5, LenProperties
<1>7. \A i \in DOMAIN v : i <= Len(w) => i \in DOMAIN w /\ v[i] = w[i] /\ w[i] \in Nat
  BY <1>4, <1>5, <1>6, ConcatProperties, ElementOfSeq
<1>8. \A i \in DOMAIN v : i > Len(w) =>
        v[i] = IF r.pos + (i - Len(w)) <= r.size THEN r.pos + (i - Len(w)) ELSE 0
  <2>1. SUFFICES ASSUME NEW i \in DOMAIN v, i > Len(w)
                 PROVE  v[i] = n[i - Len(w)] /\ i - Len(w) \in 1 .. k
    BY DEF NextChunks
  <2>2. i - Len(w) \in 1 .. k
    BY <1>5, <1>6, <2>1
  <2>3. QED
    BY <1>4, <1>5, <1>6, <2>1, <2>2, ConcatProperties
<1> HIDE DEF a, n, v
<1>9. CASE r.file
  <2>1. /\ \A i, j \in DOMAIN w : i < j => w[j] = 0 \/ (0 < w[i] /\ w[i] < w[j])
        /\ \A i \in DOMAIN w : w[i] = 0 => r.pos = r.size
        /\ \A i \in DOMAIN w : w[i] <= r.pos
    BY <1>9 DEF Streams, InOrder
  <2>2. ASSUME NEW i \in DOMAIN v, NEW j \in DOMAIN v, i < j
        PROVE  v[j] = 0 \/ (0 < v[i] /\ v[i] < v[j])
    <3>1. i \in Nat /\ j \in Nat
      BY <1>5, <1>6
    <3>2. CASE j <= Len(w)
      <4>1. i <= Len(w)
        BY <1>5, <2>2, <3>1, <3>2
      <4>2. QED
        BY <1>7, <2>1, <2>2, <3>2, <4>1
    <3>3. CASE j > Len(w) /\ i <= Len(w)
      <4>1. v[i] = w[i] /\ i \in DOMAIN w /\ w[i] \in Nat /\ w[i] <= r.pos
        BY <1>7, <2>1, <3>3
      <4>2. w[i] = 0 => r.pos = r.size
        BY <2>1, <4>1
      <4>3. v[j] = IF r.pos + (j - Len(w)) <= r.size THEN r.pos + (j - Len(w)) ELSE 0
        BY <1>8, <3>3
      <4> DEFINE p == r.pos
                 z == r.size
                 x == v[i]
                 y == v[j]
                 q == j - Len(w)
      <4>4. p \in Nat /\ z \in Nat /\ p <= z /\ q \in Nat /\ q > 0
        <5>1. p \in Nat /\ z \in Nat /\ p <= z
          BY <1>1
        <5>2. q \in Nat /\ q > 0
          BY <1>5, <3>1, <3>3, Later
        <5>3. QED
          BY <5>1, <5>2
      <4>5. /\ x \in Nat /\ x <= p /\ (x = 0 => p = z)
            /\ y = IF p + q <= z THEN p + q ELSE 0
        BY <4>1, <4>2, <4>3
      <4> HIDE DEF p, z, x, y, q
      <4>6. y = 0 \/ (0 < x /\ x < y)
        BY <4>4, <4>5
      <4>7. QED
        BY <4>6 DEF x, y
    <3>4. CASE j > Len(w) /\ i > Len(w)
      <4>1. /\ v[i] = IF r.pos + (i - Len(w)) <= r.size THEN r.pos + (i - Len(w)) ELSE 0
            /\ v[j] = IF r.pos + (j - Len(w)) <= r.size THEN r.pos + (j - Len(w)) ELSE 0
        BY <1>8, <3>4
      <4> DEFINE p == r.pos
                 z == r.size
                 x == v[i]
                 y == v[j]
                 a1 == i - Len(w)
                 a2 == j - Len(w)
      <4>2. /\ p \in Nat /\ z \in Nat /\ a1 \in Nat /\ a2 \in Nat
            /\ a1 > 0 /\ a1 < a2
        <5>1. p \in Nat /\ z \in Nat
          BY <1>1
        <5>2. a1 \in Nat /\ a2 \in Nat /\ a1 > 0 /\ a2 > 0
          BY <1>5, <3>1, <3>4, Later
        <5>3. a1 < a2
          BY <1>5, <2>2, <3>1, Later
        <5>4. QED
          BY <5>1, <5>2, <5>3
      <4>3. /\ x = IF p + a1 <= z THEN p + a1 ELSE 0
            /\ y = IF p + a2 <= z THEN p + a2 ELSE 0
        BY <4>1
      <4> HIDE DEF p, z, x, y, a1, a2
      <4>4. y = 0 \/ (0 < x /\ x < y)
        BY <4>2, <4>3
      <4>5. QED
        BY <4>4 DEF x, y
    <3>5. QED
      BY <1>5, <3>1, <3>2, <3>3, <3>4
  <2>3. ASSUME NEW i \in DOMAIN v
        PROVE  (v[i] = 0 => a.pos = a.size) /\ v[i] <= a.pos
    <3>1. i \in Nat /\ i <= Len(w) + k
      BY <1>5, <1>6
    <3>2. CASE i <= Len(w)
      <4>1. v[i] = w[i] /\ i \in DOMAIN w /\ w[i] \in Nat
        BY <1>7, <3>2
      <4>2. w[i] <= r.pos /\ (w[i] = 0 => r.pos = r.size)
        BY <2>1, <4>1
      <4>3. r.pos <= a.pos /\ (r.pos = r.size => a.pos = a.size)
        BY <1>1, <1>2
      <4>4. a.pos \in Nat
        BY <1>2 DEF Sources
      <4>5. QED
        BY <1>1, <4>1, <4>2, <4>3, <4>4
    <3>3. CASE i > Len(w)
      BY <1>1, <1>2, <1>5, <1>8, <3>1, <3>3
    <3>4. QED
      BY <1>5, <3>1, <3>2, <3>3
  <2>4. InOrder(a, v)
    BY <1>2, <1>9, <2>2, <2>3 DEF InOrder
  <2>5. a.pos <= a.size
    BY <1>1, <1>2
  <2>6. Streams(a, v)
    BY <1>2, <1>9, <2>3, <2>4, <2>5 DEF Streams
  <2>7. QED
    BY <1>2, <1>5, <2>6 DEF a, v, n
<1>10. CASE ~r.file
  <2>1. /\ \A i \in DOMAIN w : w[i] = i
        /\ Len(w) = r.pos /\ m = k /\ Len(w) + k <= r.size
    BY <1>10 DEF Streams, InOrder
  <2>2. ASSUME NEW i \in DOMAIN v
        PROVE  v[i] = i
    <3>1. i \in Nat /\ i <= Len(w) + k
      BY <1>5, <1>6
    <3>2. CASE i <= Len(w)
      BY <1>7, <2>1, <3>2
    <3>3. CASE i > Len(w)
      BY <1>1, <1>5, <1>8, <2>1, <3>1, <3>3
    <3>4. QED
      BY <1>5, <3>1, <3>2, <3>3
  <2>3. a.pos = Len(v) /\ a.pos <= a.size
    BY <1>1, <1>2, <1>5, <2>1
  <2>4. Streams(a, v)
    BY <1>2, <1>10, <2>2, <2>3 DEF Streams, InOrder
  <2>5. QED
    BY <1>2, <1>5, <2>4 DEF a, v, n
<1>11. QED
  BY <1>9, <1>10

\* What a loop that sends k of the n chunks left leaves of the response.
LEMMA LoopEffect ==
  ASSUME NEW r \in Sources, NEW w \in Seq(Nat), Streams(r, w), NEW n \in Nat,
         Len(w) + n = r.size, NEW k \in 0 .. n
  PROVE  LET a == Advance(r, IF r.file /\ k < n THEN k + 1 ELSE k)
             v == w \o NextChunks(r, k)
         IN  /\ a \in Sources /\ v \in Seq(Nat) /\ Streams(a, v)
             /\ Len(v) + (n - k) = a.size
<1>1. k \in Nat /\ k <= n /\ r.file \in BOOLEAN /\ Len(w) \in Nat /\ r.size \in Nat
  BY LenProperties DEF Sources
<1> DEFINE m == IF r.file /\ k < n THEN k + 1 ELSE k
<1>2. m \in {k, k + 1} /\ (~r.file => m = k /\ Len(w) + k <= r.size)
  BY <1>1
<1> HIDE DEF m
<1>3. /\ Advance(r, m) \in Sources /\ Advance(r, m).size = r.size
      /\ w \o NextChunks(r, k) \in Seq(Nat)
      /\ Len(w \o NextChunks(r, k)) = Len(w) + k
      /\ Streams(Advance(r, m), w \o NextChunks(r, k))
  BY <1>1, <1>2, LoopStreams
<1>4. Len(w \o NextChunks(r, k)) + (n - k) = Advance(r, m).size
  BY <1>1, <1>3
<1>5. QED
  BY <1>3, <1>4 DEF m

LEMMA InputStep ==
  ASSUME IInv, NEW e \in batch, alive, HandleInput(e)
  PROVE  IInv'
<1> DEFINE f == e.fd
           c == fdTable[f]
           n == Reply(c).size
<1>1. TypeOK /\ HistoryInv
  BY DEF IInv
<1>2. /\ f # Listen /\ "in" \in e.events /\ Handled(e)
      /\ UNCHANGED <<arrived, asked, gone, accepted, alive>> /\ fdTable' = fdTable
      /\ inbox' = [inbox EXCEPT ![c] = <<>>]
      /\ owed' = [owed EXCEPT ![c] = @ + n]
  BY DEF HandleInput
<1>3. PICK k \in 0 .. n :
        /\ SendLoop(e, Reply(c), <<>>, n, k)
        /\ IF k = n
             THEN UNCHANGED <<clients, interest>>
             ELSE /\ clients' = [clients EXCEPT ![f] = Sending(n - k)]
                  /\ interest' = [interest EXCEPT ![f] = {"out"}]
  BY DEF HandleInput
<1>4. /\ f \in Fds /\ c \in Conns /\ c # 0
      /\ interest[f] = {"in", "rdhup"} /\ clients[f] = Receiving
  BY <1>2, EventFits DEF Conns
<1>5. n \in Nat /\ (n > 0 => asked[c] # 0) /\ Reply(c) \in Sources
      /\ Streams(Reply(c), <<>>)
  <2>1. inbox[c] \in Seq(Commands)
    BY <1>1, <1>4 DEF TypeOK
  <2>2. inbox[c] # <<>> => Head(inbox[c]) \in Commands /\ asked[c] # 0
    BY <1>1, <1>4, <2>1, HeadTailProperties DEF HistoryInv
  <2>3. CASE inbox[c] = <<>>
    <3>1. Reply(c) = NoSource
      BY <2>3 DEF Reply
    <3>2. QED
      BY <3>1, NoStream
  <2>4. CASE inbox[c] # <<>>
    <3>1. Reply(c) = Source(Head(inbox[c]) \in Files, Chunks[Head(inbox[c])])
      BY <2>4 DEF Reply
    <3>2. /\ Chunks[Head(inbox[c])] \in Nat
          /\ (Head(inbox[c]) \in Files) \in BOOLEAN
      BY <2>2, <2>4, ConstantTypes
    <3>3. QED
      BY <2>2, <2>4, <3>1, <3>2, FreshStream
  <2>5. QED
    BY <2>3, <2>4
<1>6. sent' = [sent EXCEPT ![c] = @ + k]
  BY <1>3 DEF SendLoop
<1> DEFINE a == Advance(Reply(c), IF Reply(c).file /\ k < n THEN k + 1 ELSE k)
           v == <<>> \o NextChunks(Reply(c), k)
<1>7. /\ source' = [source EXCEPT ![c] = a] /\ wire' = [wire EXCEPT ![c] = v]
      /\ a \in Sources /\ v \in Seq(Nat) /\ Streams(a, v) /\ Len(v) + (n - k) = a.size
  <2>1. source' = [source EXCEPT ![c] = a] /\ wire' = [wire EXCEPT ![c] = v]
    BY <1>3 DEF SendLoop
  <2>2. <<>> \in Seq(Nat) /\ Len(<<>>) + n = Reply(c).size
    BY <1>5, NoStream
  <2>3. QED
    BY <1>5, <2>1, <2>2, LoopEffect
<1>8. fdTable' = [fdTable EXCEPT ![f] = c]
  BY <1>1, <1>2, <1>4, NoUpdate
<1>9. inbox' \in [Conns -> Seq(Commands)]
      /\ \A d \in Conns : inbox[d] = <<>> => inbox'[d] = <<>>
  <2>1. <<>> \in Seq(Commands)
    BY EmptySeq
  <2>2. QED
    BY <1>1, <1>2, <2>1 DEF TypeOK
<1>10. fdTable'[f] = c
  BY <1>2
<1> HIDE DEF n, a, v
<1>11. CASE k = n
  <2>1. /\ clients' = [clients EXCEPT ![f] = Receiving]
        /\ interest' = [interest EXCEPT ![f] = {"in", "rdhup"}]
    BY <1>1, <1>3, <1>4, <1>11, NoUpdate
  <2>2. FdState(f)'
    BY <1>3, <1>4, <1>10, <1>11 DEF FdState
  <2>3. k + Receiving.sender = n + clients[f].sender
    BY <1>4, <1>5, <1>11, StatesDiffer
  <2>4. Len(v) + Receiving.sender = a.size
    <3>1. n - k = 0
      BY <1>5, <1>11
    <3>2. QED
      BY <1>7, <3>1, StatesDiffer
  <2>5. /\ {"in", "rdhup"} \in SUBSET Events /\ k \in Nat /\ c \in {0, c}
        /\ Receiving \in {NoClient, Receiving} \cup {Sending(m) : m \in Nat}
    BY <1>5, <1>11 DEF Events
  <2> DEFINE i == {"in", "rdhup"}
             s == Receiving
  <2>6. /\ clients' = [clients EXCEPT ![f] = s] /\ interest' = [interest EXCEPT ![f] = i]
        /\ k + s.sender = n + clients[f].sender /\ Len(v) + s.sender = a.size
        /\ i \in SUBSET Events /\ k \in Nat
        /\ s \in {NoClient, Receiving} \cup {Sending(m) : m \in Nat}
    BY <2>1, <2>3, <2>4, <2>5
  <2> HIDE DEF i, s
  <2>7. QED
    BY <1>2, <1>5, <1>6, <1>7, <1>8, <1>9, <2>2, <2>6, OwnFdStep,
       ZenonT(60)
<1>12. CASE k # n
  <2>1. k \in Nat /\ n - k \in Nat \ {0}
    BY <1>3, <1>5, <1>12
  <2>2. /\ clients' = [clients EXCEPT ![f] = Sending(n - k)]
        /\ interest' = [interest EXCEPT ![f] = {"out"}]
    BY <1>3, <1>12
  <2>3. clients'[f] = Sending(n - k) /\ interest'[f] = {"out"}
    BY <1>1, <1>4, <2>2 DEF TypeOK
  <2>4. FdState(f)'
    BY <1>4, <1>10, <2>1, <2>3 DEF FdState
  <2>5. k + Sending(n - k).sender = n + clients[f].sender
    BY <1>4, <1>5, <2>1, StatesDiffer
  <2>6. Len(v) + Sending(n - k).sender = a.size
    BY <1>7, StatesDiffer
  <2>7. {"out"} \in SUBSET Events /\ Sending(n - k) \in {Sending(m) : m \in Nat}
    BY <2>1 DEF Events
  <2>8. QED
    BY <1>2, <1>5, <1>6, <1>7, <1>8, <1>9, <2>1, <2>2, <2>4, <2>5, <2>6, <2>7, OwnFdStep
<1>13. QED
  BY <1>11, <1>12

LEMMA ContinueStep ==
  ASSUME IInv, NEW e \in batch, alive, ContinueResponse(e)
  PROVE  IInv'
<1> DEFINE f == e.fd
           c == fdTable[f]
           n == clients[f].sender
<1>1. TypeOK
  BY DEF IInv
<1>2. /\ f # Listen /\ e.events = {"out"} /\ Handled(e)
      /\ UNCHANGED <<arrived, asked, gone, accepted, alive>>
      /\ fdTable' = fdTable /\ inbox' = inbox /\ owed' = owed
  BY DEF ContinueResponse, world
<1>3. PICK k \in 1 .. n :
        /\ SendLoop(e, source[c], wire[c], n, k)
        /\ clients' = [clients EXCEPT ![f] = Sending(n - k)]
        /\ interest' = IF k = n THEN [interest EXCEPT ![f] = {}] ELSE interest
  BY DEF ContinueResponse
<1>4. f \in Fds /\ c \in Conns /\ c # 0 /\ interest[f] = {"out"}
  BY <1>2, EventFits DEF Conns
<1>5. n \in Nat
  BY <1>1, <1>4 DEF TypeOK
<1>6. k \in Nat /\ k \in 0 .. n /\ n - k \in Nat /\ (k # n => n - k # 0)
  BY <1>3, <1>5
<1>7. sent' = [sent EXCEPT ![c] = @ + k]
  BY <1>3 DEF SendLoop
<1>8. /\ fdTable' = [fdTable EXCEPT ![f] = c]
      /\ owed' = [owed EXCEPT ![c] = @ + 0]
  BY <1>1, <1>2, <1>4, NoUpdate
<1> DEFINE i == IF k = n THEN {} ELSE {"out"}
<1>9. interest' = [interest EXCEPT ![f] = i] /\ i \in SUBSET Events
  <2>1. interest = [interest EXCEPT ![f] = {"out"}]
    BY <1>1, <1>4, NoUpdate
  <2>2. QED
    BY <1>3, <2>1 DEF Events
<1>10. /\ clients'[f] = Sending(n - k) /\ interest'[f] = i /\ fdTable'[f] = c
  BY <1>1, <1>2, <1>3, <1>4, <1>9 DEF TypeOK
<1>11. FdState(f)'
  <2>1. CASE k = n
    <3>1. n - k = 0
      BY <1>5, <2>1
    <3>2. QED
      BY <1>4, <1>10, <2>1, <3>1 DEF FdState
  <2>2. CASE k # n
    BY <1>4, <1>6, <1>10, <2>2 DEF FdState
  <2>3. QED
    BY <2>1, <2>2
<1>12. k + Sending(n - k).sender = 0 + n
  BY <1>5, <1>6, StatesDiffer
<1>13. /\ inbox' \in [Conns -> Seq(Commands)]
       /\ Sending(n - k) \in {NoClient, Receiving} \cup {Sending(m) : m \in Nat}
       /\ c \in {0, c} /\ ~(0 > 0) /\ 0 \in Nat
       /\ \A d \in Conns : inbox[d] = <<>> => inbox'[d] = <<>>
  BY <1>1, <1>2, <1>6 DEF TypeOK
<1> DEFINE a == Advance(source[c], IF source[c].file /\ k < n THEN k + 1 ELSE k)
           v == wire[c] \o NextChunks(source[c], k)
<1>14. /\ source' = [source EXCEPT ![c] = a] /\ wire' = [wire EXCEPT ![c] = v]
       /\ a \in Sources /\ v \in Seq(Nat) /\ Streams(a, v)
       /\ Len(v) + Sending(n - k).sender = a.size
  <2>1. source' = [source EXCEPT ![c] = a] /\ wire' = [wire EXCEPT ![c] = v]
    BY <1>3 DEF SendLoop
  <2>2. /\ source[c] \in Sources /\ wire[c] \in Seq(Nat)
        /\ Streams(source[c], wire[c]) /\ Len(wire[c]) + n = source[c].size
    BY <1>4 DEF IInv, TypeOK, StreamInv, LeftInv
  <2>3. /\ a \in Sources /\ v \in Seq(Nat) /\ Streams(a, v)
        /\ Len(v) + (n - k) = a.size
    BY <1>5, <1>6, <2>2, LoopEffect
  <2>4. QED
    BY <2>1, <2>3, StatesDiffer
<1> HIDE DEF i, a, v
<1>15. clients' = [clients EXCEPT ![f] = Sending(n - k)]
  BY <1>3
<1>16. f # Listen /\ Handled(e) /\ UNCHANGED <<arrived, asked, gone, accepted, alive>>
  BY <1>2
<1>17. QED
  BY <1>6, <1>7, <1>8, <1>9, <1>11, <1>12, <1>13, <1>14, <1>15, <1>16, OwnFdStep

-----------------------------------------------------------------------------
(* The ends.                                                               *)

\* Whoever was sent or owes a command something has asked.
LEMMA ServedHasAsked ==
  ASSUME IInv, NEW f \in Fds, fdTable[f] # 0,
         \/ sent[fdTable[f]] > 0 \/ clients[f].sender > 0
         \/ inbox[fdTable[f]] # <<>>
  PROVE  asked[fdTable[f]] > 0
<1> DEFINE c == fdTable[f]
<1>1. c \in Conns /\ sent[c] \in Nat /\ owed[c] \in Nat /\ clients[f].sender \in Nat
      /\ asked[c] \in Nat
  BY CountTypes DEF IInv
<1>2. sent[c] + clients[f].sender = owed[c]
  BY DEF IInv, LeftInv
<1>3. owed[c] > 0 \/ inbox[c] # <<>>
  BY <1>1, <1>2
<1>4. asked[c] # 0
  BY <1>1, <1>3 DEF IInv, HistoryInv
<1>5. QED
  BY <1>1, <1>4

LEMMA DieStep ==
  ASSUME IInv, NEW e \in batch,
         SetupFails(e) \/ HandleInputFails(e) \/ ContinueFails(e)
  PROVE  IInv'
<1>1. TypeOK /\ FdInv /\ OwnerInv /\ BatchInv /\ HistoryInv /\ StreamInv /\ LeftInv
  BY DEF IInv
<1>2. /\ alive' = FALSE
      /\ UNCHANGED <<world, accepted, fdTable, interest, clients, batch, sent, owed,
                     source, wire>>
  BY DEF SetupFails, HandleInputFails, ContinueFails, Die, responses
<1>3. arrived' = arrived /\ inbox' = inbox /\ asked' = asked /\ gone' = gone
  BY <1>2 DEF world
<1>4. TypeOK'
  BY <1>1, <1>2, <1>3 DEF TypeOK
<1>5. /\ FdInv' /\ OwnerInv' /\ BatchInv' /\ HistoryInv' /\ StreamInv' /\ LeftInv'
  BY <1>1, <1>2, <1>3 DEF FdInv, FdState, OwnerInv, BatchInv, HistoryInv,
                          StreamInv, LeftInv
<1>6. \/ \E c \in Conns : inbox[c] # <<>> /\ Head(inbox[c]) \in Fatal
      \/ \E c \in gone : asked[c] > 0
      \/ arrived > accepted /\ FreeFds = {}
  <2>1. CASE SetupFails(e)
    <3>1. e.fd = Listen /\ (FreeFds = {} \/ \E f \in LowestFree : clients[f] # NoClient)
      BY <2>1 DEF SetupFails
    <3>2. \A f \in LowestFree : clients[f] = NoClient
      BY <1>1, StatesDiffer DEF LowestFree, FreeFds, FdInv, FdState
    <3>3. accepted < arrived
      BY <1>1, <3>1 DEF BatchInv
    <3>4. accepted \in Nat /\ arrived \in Nat
      BY <1>1, ConstantTypes DEF TypeOK
    <3>5. QED
      BY <3>1, <3>2, <3>3, <3>4
  <2>2. CASE HandleInputFails(e)
    <3> DEFINE c == fdTable[e.fd]
    <3>1. /\ e.fd # Listen
          /\ \/ c \in gone /\ sent[c] > 0
             \/ c \in gone /\ inbox[c] # <<>> /\ Chunks[Head(inbox[c])] > 0
             \/ inbox[c] # <<>> /\ Head(inbox[c]) \in Fatal
      BY <2>2 DEF HandleInputFails
    <3>2. e.fd \in Fds /\ c \in Conns /\ c # 0
      BY <3>1, EventFits DEF Conns
    <3>3. sent[c] > 0 \/ inbox[c] # <<>> => asked[c] > 0
      BY <3>2, ServedHasAsked
    <3>4. QED
      BY <3>1, <3>2, <3>3
  <2>3. CASE ContinueFails(e)
    <3> DEFINE c == fdTable[e.fd]
    <3>1. e.fd # Listen /\ e.events = {"out"} /\ c \in gone
      BY <2>3 DEF ContinueFails
    <3>2. e.fd \in Fds /\ c # 0 /\ \E n \in Nat \ {0} : clients[e.fd] = Sending(n)
      BY <3>1, EventFits DEF Conns
    <3>3. clients[e.fd].sender > 0
      BY <3>2, StatesDiffer
    <3>4. asked[c] > 0
      BY <3>2, <3>3, ServedHasAsked
    <3>5. QED
      BY <3>1, <3>4
  <2>4. QED
    BY <2>1, <2>2, <2>3
<1>7. DiesForCause'
  BY <1>2, <1>3, <1>6 DEF DiesForCause, FreeFds
<1>8. QED
  BY <1>4, <1>5, <1>7 DEF IInv

LEMMA StutterStep ==
  ASSUME IInv, UNCHANGED vars
  PROVE  IInv'
<1>1. /\ UNCHANGED <<arrived, inbox, asked, gone>>
      /\ UNCHANGED <<accepted, fdTable, interest, clients, batch, sent, owed, source,
                     wire, alive>>
  BY DEF vars, world, responses
<1>2. TypeOK'
  BY <1>1 DEF IInv, TypeOK
<1>3. FdInv' /\ OwnerInv' /\ BatchInv' /\ HistoryInv'
  BY <1>1 DEF IInv, FdInv, FdState, OwnerInv, BatchInv, HistoryInv
<1>4. StreamInv' /\ LeftInv' /\ DiesForCause'
  BY <1>1 DEF IInv, StreamInv, LeftInv, DiesForCause, FreeFds
<1>5. QED
  BY <1>2, <1>3, <1>4 DEF IInv

-----------------------------------------------------------------------------
(* The theorems.                                                           *)

LEMMA IInvAlways == Spec => []IInv
<1>1. IInv /\ [Next]_vars => IInv'
  BY ConnectStep, AskStep, LeaveStep, WaitStep, SetupStep, CloseStep, InputStep,
     ContinueStep, DieStep, StutterStep
     DEF Next, ServerNext, ClientNext, Handle
<1>2. QED
  BY InitIInv, <1>1, PTL DEF Spec

\* Types, whatever clients do and in whatever order a batch is handled: no
\* descriptor outside the table, no number of chunks below 0.
THEOREM TypeCorrect == Spec => []TypeOK
<1>1. IInv => TypeOK
  BY DEF IInv
<1>2. QED
  BY <1>1, IInvAlways, PTL

\* "The client_fd shouldn't exist in our clients map" (jukebox-server.cpp:262),
\* and it does not: the map has an entry for exactly the open descriptors.
THEOREM MapExact == Spec => []MapMatchesDescriptors
<1>1. IInv => MapMatchesDescriptors
  BY StatesDiffer DEF IInv, FdInv, FdState, MapMatchesDescriptors
<1>2. QED
  BY <1>1, IInvAlways, PTL

\* An event that waits in the batch still fits its client when it is handled
\* (jukebox-server.cpp:303-356).
THEOREM EventsFit == Spec => []EventsNotStale
<1>1. IInv => EventsNotStale
  <2>1. SUFFICES ASSUME IInv, NEW e \in batch, e.fd \in Fds
                 PROVE  IF e.events = {"out"} THEN clients[e.fd].sender > 0
                                              ELSE clients[e.fd] = Receiving
    BY DEF EventsNotStale
  <2>2. e.fd # Listen
    BY <2>1, ConstantTypes
  <2>3. QED
    BY <2>1, <2>2, EventFits, StatesDiffer
<1>2. QED
  BY <1>1, IInvAlways, PTL

\* However often a response is interrupted and taken up again (ConnectedClient.cpp:
\* 27-60 and 115-148), a message is sent in order, each chunk once; of a file, each
\* chunk at most once and in order, and in the place of those that met EAGAIN
\* (ChunkedDataSender.cpp:86-100) junk at the end, up to the file's length.
THEOREM ChunksConserved == Spec => []ResponsesConserved
<1>1. IInv => ResponsesConserved
  <2>1. SUFFICES ASSUME IInv, NEW f \in Fds, fdTable[f] # 0
                 PROVE  LET c == fdTable[f]
                        IN  /\ sent[c] + clients[f].sender = owed[c]
                            /\ Len(wire[c]) + clients[f].sender = source[c].size
                            /\ InOrder(source[c], wire[c])
    BY DEF ResponsesConserved
  <2>2. fdTable[f] \in Conns
    BY <2>1, CountTypes DEF IInv
  <2>3. QED
    BY <2>1, <2>2 DEF IInv, LeftInv, StreamInv, Streams
<1>2. QED
  BY <1>1, IInvAlways, PTL

\* The server ends for a command that no handler survives, for a client that asked
\* and left, or when it is out of descriptors, and for no other reason: never
\* because of a descriptor that is in the map already (jukebox-server.cpp:262-265).
THEOREM EndsForCause == Spec => []DiesForCause
<1>1. IInv => DiesForCause
  BY DEF IInv
<1>2. QED
  BY <1>1, IInvAlways, PTL

-----------------------------------------------------------------------------
(* The client: the inductive invariant.                                    *)

Waiting == {"write", "open", "spin", "read"}
ThreadStates == {"none", "started", "writing", "reading", "ending", "ended", "failed",
                 "cut"}

ClientTypes ==
  /\ arrived \in 0 .. MaxConns /\ asked \in [Conns -> 0 .. MaxCommands]
  /\ pc \in {"prompt", "connect", "exited"} \cup Waiting
  /\ command \in Commands /\ player \in Conns \cup {0}
  /\ threads \in [Conns -> ThreadStates]
  /\ alive \in BOOLEAN

\* A connection that has not been opened has no command and no thread; the one
\* main is busy with is open, has no thread yet, and no command before it is
\* written.
SocketInv ==
  /\ \A c \in Conns : arrived < c =>
       c \notin gone /\ asked[c] = 0 /\ threads[c] = "none"
  /\ pc \in Waiting =>
       socket \in 1 .. arrived /\ socket \notin gone /\ threads[socket] = "none"
  /\ pc = "write" => asked[socket] = 0

\* Every other is closed, or belongs to a song, or to one whose thread could not be
\* made or was cut off.
ClosedInv ==
  \A c \in 1 .. arrived :
    \/ c \in gone \/ c \in Playing \/ threads[c] \in {"failed", "cut"}
    \/ ~alive \/ (pc \in Waiting /\ c = socket)

\* While the next song is being opened all others have been told to stop.
StoppedInv ==
  /\ OneSongAtATime
  /\ pc = "open" => command \in Plays
  /\ pc \in {"connect", "write", "open"} /\ command \in Plays =>
       Playing \subseteq killed

CInv == ClientTypes /\ SocketInv /\ ClosedInv /\ StoppedInv

LEMMA ConnFacts ==
  ASSUME JavaClient
  PROVE  /\ MaxConns \in Nat /\ MaxCommands = 1 /\ MayLeave /\ 0 \notin Conns
         /\ BadInfo \in Commands \ Plays /\ Plays \subseteq Commands
         /\ \A c \in Conns : c \in Nat
BY BoundAssumption, ClientAssumption DEF JavaClient, Conns

LEMMA InitCInv == JavaClient /\ ClientInit => CInv
<1>1. SUFFICES ASSUME JavaClient, ClientInit PROVE CInv
  OBVIOUS
<1> USE <1>1, ConnFacts DEF ClientInit, Init
<1>2. ClientTypes
  BY DEF ClientTypes, ThreadStates
<1>3. SocketInv
  BY DEF SocketInv, Waiting
<1>4. ClosedInv
  BY DEF ClosedInv
<1>5. StoppedInv
  BY DEF StoppedInv, OneSongAtATime, Playing, Waiting
<1>6. QED
  BY <1>2, <1>3, <1>4, <1>5 DEF CInv

-----------------------------------------------------------------------------
(* The client: the steps.                                                  *)

\* The server opens and closes nothing of the client's, and never revives.
LEMMA ServerKeeps ==
  ASSUME JavaClient, CInv, ServerNext, UNCHANGED cvars
  PROVE  CInv'
<1>1. /\ arrived' = arrived /\ asked' = asked /\ gone' = gone
      /\ alive' \in {alive, FALSE}
  BY DEF ServerNext, Wait, Handle, SetupNewClient, SetupFails, HandleClose,
         HandleInput, HandleInputFails, ContinueResponse, ContinueFails, Die, world
<1>2. /\ pc' = pc /\ command' = command /\ socket' = socket /\ player' = player
      /\ killed' = killed /\ threads' = threads
  BY DEF cvars, mvars
<1>3. ClientTypes'
  BY <1>1, <1>2 DEF CInv, ClientTypes
<1>4. SocketInv'
  BY <1>1, <1>2 DEF CInv, SocketInv
<1>5. ClosedInv'
  BY <1>1, <1>2 DEF CInv, ClosedInv, Playing
<1>6. StoppedInv'
  BY <1>1, <1>2 DEF CInv, StoppedInv, OneSongAtATime, Playing
<1>7. QED
  BY <1>3, <1>4, <1>5, <1>6 DEF CInv

\* Typing: a song is told to stop before anything else is done.
LEMMA TypeKeeps ==
  ASSUME JavaClient, CInv, TypePlay \/ TypeAsk \/ TypeStop
  PROVE  CInv'
<1>1. /\ pc = "prompt" /\ pc' \in {"connect", "prompt", "exited"}
      /\ socket' = socket /\ player' = player /\ command' \in Commands
      /\ \/ threads' = threads
         \/ /\ player # 0 /\ threads[player] \in {"started", "ending"}
            /\ threads' = [threads EXCEPT ![player] = "cut"]
      /\ killed' \in {killed, killed \cup ({player} \ {0})}
      /\ UNCHANGED vars
  BY ConnFacts DEF CInv, ClientTypes, TypePlay, TypeAsk, TypeStop, Type, StopPlayer,
                   LetPlay
<1>2. arrived' = arrived /\ asked' = asked /\ gone' = gone /\ alive' = alive
  BY <1>1 DEF vars, world
<1>3. /\ threads' \in [Conns -> ThreadStates]
      /\ \A c \in Conns : \/ threads'[c] = threads[c]
                          \/ /\ c = player /\ threads'[c] = "cut"
                             /\ threads[c] # "none"
  BY <1>1 DEF CInv, ClientTypes, ThreadStates
<1>4. ClientTypes'
  BY <1>1, <1>2, <1>3 DEF CInv, ClientTypes
<1>5. SocketInv' /\ ClosedInv'
  <2>1. 1 .. arrived \subseteq Conns
    BY ConnFacts DEF CInv, ClientTypes, Conns
  <2>2. SocketInv'
    BY <1>1, <1>2, <1>3 DEF CInv, SocketInv, Waiting
  <2>3. ASSUME NEW c \in 1 .. arrived
        PROVE  c \in gone \/ c \in Playing' \/ threads'[c] \in {"failed", "cut"} \/ ~alive
    <3>1. c \in Conns
      BY <2>1
    <3>2. c \in gone \/ c \in Playing \/ threads[c] \in {"failed", "cut"} \/ ~alive
      BY <1>1 DEF CInv, ClosedInv, Waiting
    <3>3. QED
      BY <1>3, <3>1, <3>2 DEF Playing
  <2>4. QED
    BY <1>2, <2>2, <2>3 DEF ClosedInv
<1>6. StoppedInv'
  <2>1. /\ Playing' \subseteq Playing /\ Playing \subseteq killed \cup {player}
        /\ 0 \notin Playing
    <3>1. Playing' \subseteq Playing
      BY <1>3 DEF Playing
    <3>2. QED
      BY <3>1, ConnFacts DEF CInv, StoppedInv, OneSongAtATime, Playing
  <2>2. OneSongAtATime'
    BY <1>1, <2>1 DEF OneSongAtATime
  <2>3. pc' = "connect" /\ command' \in Plays => Playing' \subseteq killed'
    <3>1. CASE TypePlay
      BY <2>1, <3>1 DEF TypePlay, StopPlayer
    <3>2. CASE TypeAsk
      BY <3>2 DEF TypeAsk, Type
    <3>3. CASE TypeStop
      BY <3>3 DEF TypeStop
    <3>4. QED
      BY <3>1, <3>2, <3>3
  <2>4. QED
    BY <1>1, <2>2, <2>3 DEF StoppedInv
<1>7. QED
  BY <1>4, <1>5, <1>6 DEF CInv

\* The steps of main that neither open nor close, nor start a song.
LEMMA QuietKeeps ==
  ASSUME JavaClient, CInv, \/ ConnectFails \/ WriteCommand \/ WriteFails
               \/ ReadOn \/ StartFails \/ StopSpinning \/ ReadResponse
  PROVE  CInv'
<1>1. /\ command' = command /\ socket' = socket /\ player' = player
      /\ killed' = killed /\ threads' = threads
      /\ arrived' = arrived /\ gone' = gone /\ alive' = alive
  BY DEF ConnectFails, WriteCommand, WriteFails, StartFails, StopSpinning, SpinUntil,
         ReadResponse, ReadOn, ReadBeginning, vars, world, rest
<1>2. \/ asked' = asked
      \/ /\ pc = "write" /\ pc' # "write"
         /\ asked' = [asked EXCEPT ![socket] = @ + 1]
  BY DEF ConnectFails, WriteCommand, WriteFails, StartFails, StopSpinning, SpinUntil,
         ReadResponse, ReadOn, ReadBeginning, vars, world
<1>3. /\ pc' \in {"prompt", "exited"} \cup Waiting
      /\ pc' # "write" /\ pc' # "connect" /\ (pc' \in Waiting => pc \in Waiting)
      /\ (pc' = "open" => command \in Plays /\ pc \in {"write", "open"})
      /\ (pc' \notin Waiting => ~alive)
  BY DEF ConnectFails, WriteCommand, WriteFails, StartFails, StopSpinning, SpinUntil,
         ReadResponse, ReadOn, ReadBeginning, Waiting, CInv, StoppedInv
<1>4. pc = "write" => socket \in Conns /\ socket <= arrived /\ asked[socket] = 0
  BY ConnFacts DEF CInv, ClientTypes, SocketInv, Waiting, Conns
<1>5. ClientTypes'
  <2>1. asked' \in [Conns -> 0 .. MaxCommands]
    BY <1>2, <1>4, ConnFacts DEF CInv, ClientTypes
  <2>2. QED
    BY <1>1, <1>3, <2>1 DEF CInv, ClientTypes
<1>6. SocketInv'
  <2>1. \A c \in Conns : arrived < c => asked'[c] = 0
    <3>1. SUFFICES ASSUME NEW c \in Conns, arrived < c PROVE asked'[c] = 0
      OBVIOUS
    <3>2. asked[c] = 0
      BY <3>1 DEF CInv, SocketInv
    <3>3. pc = "write" => c # socket
      BY <1>4, <3>1, ConnFacts DEF CInv, ClientTypes
    <3>4. QED
      BY <1>2, <3>2, <3>3 DEF CInv, ClientTypes
  <2>2. QED
    BY <1>1, <1>3, <2>1 DEF CInv, SocketInv
<1>7. ClosedInv'
  BY <1>1, <1>3 DEF CInv, ClosedInv, Playing
<1>8. StoppedInv'
  BY <1>1, <1>3 DEF CInv, StoppedInv, OneSongAtATime, Playing
<1>9. QED
  BY <1>5, <1>6, <1>7, <1>8 DEF CInv

\* A new connection: main is busy with it.
LEMMA OpenKeeps ==
  ASSUME JavaClient, CInv, OpenSocket
  PROVE  CInv'
<1>1. /\ pc = "connect" /\ pc' = "write" /\ socket' = arrived'
      /\ command' = command /\ player' = player /\ killed' = killed
      /\ threads' = threads /\ arrived < MaxConns /\ arrived' = arrived + 1
      /\ asked' = asked /\ gone' = gone /\ alive' = alive
  BY DEF OpenSocket, Connect
<1>2. arrived \in Nat /\ arrived' \in 1 .. MaxConns /\ arrived' \in Conns
  BY <1>1, ConnFacts DEF CInv, ClientTypes, Conns
<1>3. arrived < arrived' /\ \A c \in Conns : arrived' < c => arrived < c
  BY <1>1, <1>2, ConnFacts
<1>4. ClientTypes'
  <2>1. arrived' \in 0 .. MaxConns
    BY <1>2
  <2>2. QED
    BY <1>1, <2>1 DEF CInv, ClientTypes, Waiting
<1>5. SocketInv'
  <2>1. arrived' \notin gone /\ asked[arrived'] = 0 /\ threads[arrived'] = "none"
    BY <1>2, <1>3 DEF CInv, SocketInv
  <2>2. \A c \in Conns : arrived' < c =>
          c \notin gone /\ asked[c] = 0 /\ threads[c] = "none"
    BY <1>3 DEF CInv, SocketInv
  <2>3. arrived' \in 1 .. arrived'
    BY <1>2
  <2>4. QED
    BY <1>1, <2>1, <2>2, <2>3 DEF SocketInv
<1>6. ClosedInv'
  <2>1. \A c \in 1 .. arrived' : c \in 1 .. arrived \/ c = arrived'
    BY <1>1, <1>2
  <2>2. Playing' = Playing
    BY <1>1 DEF Playing
  <2>3. \A c \in 1 .. arrived :
          c \in gone \/ c \in Playing \/ threads[c] \in {"failed", "cut"} \/ ~alive
    BY <1>1 DEF CInv, ClosedInv, Waiting
  <2>4. QED
    BY <1>1, <2>1, <2>2, <2>3 DEF ClosedInv, Waiting
<1>7. StoppedInv'
  BY <1>1 DEF CInv, StoppedInv, OneSongAtATime, Playing
<1>8. QED
  BY <1>4, <1>5, <1>6, <1>7 DEF CInv

\* The beginning of a song has been read: its thread is started, or cannot be made.
LEMMA StartKeeps ==
  ASSUME JavaClient, CInv, StartPlayer \/ StartThrows
  PROVE  CInv'
<1>1. /\ pc = "open" /\ pc' = "prompt" /\ command' = command /\ socket' = socket
      /\ killed' = killed /\ UNCHANGED vars
      /\ \/ threads' = [threads EXCEPT ![socket] = "failed"] /\ player' = player
         \/ threads' = [threads EXCEPT ![socket] = "started"] /\ player' = socket
  BY DEF StartPlayer, StartThrows, ReadBeginning
<1>2. arrived' = arrived /\ asked' = asked /\ gone' = gone /\ alive' = alive
  BY <1>1 DEF vars, world
<1>3. socket \in Conns /\ socket <= arrived /\ socket \in 1 .. arrived
  BY <1>1, ConnFacts DEF CInv, ClientTypes, SocketInv, Waiting, Conns
<1>4. /\ threads'[socket] \in {"failed", "started"}
      /\ \A c \in Conns : c # socket => threads'[c] = threads[c]
      /\ threads' \in [Conns -> ThreadStates]
  BY <1>1, <1>3 DEF CInv, ClientTypes, ThreadStates
<1>5. ClientTypes'
  BY <1>1, <1>2, <1>3, <1>4 DEF CInv, ClientTypes
<1>6. SocketInv'
  <2>1. \A c \in Conns : arrived < c => c # socket
    BY <1>3, ConnFacts DEF CInv, ClientTypes
  <2>2. QED
    BY <1>1, <1>2, <1>4, <2>1 DEF CInv, SocketInv, Waiting
<1>7. ClosedInv'
  <2>1. 1 .. arrived \subseteq Conns
    BY ConnFacts DEF CInv, ClientTypes, Conns
  <2>2. threads'[socket] = "failed" \/ socket \in Playing'
    BY <1>3, <1>4 DEF Playing
  <2>3. \A c \in Conns : c # socket => (c \in Playing <=> c \in Playing')
    BY <1>4 DEF Playing
  <2>4. QED
    BY <1>2, <1>4, <2>1, <2>2, <2>3 DEF CInv, ClosedInv
<1>8. StoppedInv'
  <2>1. Playing \subseteq killed
    BY <1>1 DEF CInv, StoppedInv
  <2>2. Playing' \subseteq Playing \cup {socket}
    BY <1>4 DEF Playing
  <2>3. threads'[socket] = "failed" => socket \notin Playing'
    BY DEF Playing
  <2>4. player' = socket \/ threads'[socket] = "failed"
    BY <1>1, <1>3 DEF CInv, ClientTypes
  <2>5. OneSongAtATime'
    BY <1>1, <2>1, <2>2, <2>3, <2>4 DEF OneSongAtATime
  <2>6. QED
    BY <1>1, <2>5 DEF StoppedInv
<1>9. QED
  BY <1>5, <1>6, <1>7, <1>8 DEF CInv

\* main closes the connection it is busy with.
LEMMA CloseKeeps ==
  ASSUME JavaClient, CInv, BadIndex \/ CloseResponse
  PROVE  CInv'
<1>1. /\ pc \in Waiting /\ pc' = "prompt" /\ command' = command /\ socket' = socket
      /\ player' = player /\ killed' = killed /\ threads' = threads
      /\ arrived' = arrived /\ asked' = asked /\ gone' = gone \cup {socket}
      /\ alive' = alive
  BY DEF BadIndex, Refuse, CloseResponse, CloseSocket, rest, Waiting
<1>2. ClientTypes'
  BY <1>1 DEF CInv, ClientTypes
<1>3. SocketInv'
  <2>1. \A c \in Conns : arrived < c => c # socket
    BY <1>1, ConnFacts DEF CInv, ClientTypes, SocketInv
  <2>2. QED
    BY <1>1, <2>1 DEF CInv, SocketInv, Waiting
<1>4. ClosedInv'
  BY <1>1 DEF CInv, ClosedInv, Playing
<1>5. StoppedInv'
  BY <1>1 DEF CInv, StoppedInv, OneSongAtATime, Playing
<1>6. QED
  BY <1>2, <1>3, <1>4, <1>5 DEF CInv

\* A step of a song's thread: it goes on, or closes its connection and ends.
LEMMA SongKeeps ==
  ASSUME JavaClient, CInv, NEW c \in Conns, Song(c)
  PROVE  CInv'
<1>1. /\ c \in Playing
      /\ pc' = pc /\ command' = command /\ socket' = socket /\ player' = player
      /\ killed' = killed /\ arrived' = arrived /\ asked' = asked /\ alive' = alive
      /\ \/ threads' = [threads EXCEPT ![c] = "ended"] /\ gone' = gone \cup {c}
         \/ \E t \in {"writing", "reading", "ending"} :
              threads' = [threads EXCEPT ![c] = t] /\ gone' = gone
  BY DEF Song, ReadSong, WriteSong, SongEnds, Ends, GoesOn, CloseSocket, mvars, vars,
         world, rest, Playing
<1>2. threads[c] # "none" /\ c <= arrived
  BY <1>1, ConnFacts DEF CInv, ClientTypes, SocketInv, Playing
<1>3. /\ \A d \in Conns : d # c => threads'[d] = threads[d]
      /\ threads' \in [Conns -> ThreadStates]
      /\ threads'[c] \in {"ended", "writing", "reading", "ending"}
      /\ threads'[c] = "ended" => c \in gone'
  BY <1>1 DEF CInv, ClientTypes, ThreadStates
<1>4. ClientTypes'
  BY <1>1, <1>3 DEF CInv, ClientTypes
<1>5. SocketInv'
  <2>1. \A d \in Conns : arrived < d => d # c
    BY <1>2, ConnFacts DEF CInv, ClientTypes
  <2>2. pc \in Waiting => socket # c /\ socket \in Conns
    BY <1>2, ConnFacts DEF CInv, ClientTypes, SocketInv, Conns
  <2>3. QED
    BY <1>1, <1>3, <2>1, <2>2 DEF CInv, SocketInv, Waiting
<1>6. ClosedInv'
  <2>1. 1 .. arrived \subseteq Conns
    BY ConnFacts DEF CInv, ClientTypes, Conns
  <2>2. c \in gone' \/ c \in Playing'
    BY <1>3 DEF Playing
  <2>3. \A d \in Conns : d # c => (d \in Playing <=> d \in Playing')
    BY <1>3 DEF Playing
  <2>4. QED
    BY <1>1, <1>3, <2>1, <2>2, <2>3 DEF CInv, ClosedInv
<1>7. StoppedInv'
  <2>1. Playing' \subseteq Playing
    BY <1>1, <1>3 DEF Playing
  <2>2. QED
    BY <1>1, <2>1 DEF CInv, StoppedInv, OneSongAtATime
<1>8. QED
  BY <1>4, <1>5, <1>6, <1>7 DEF CInv

\* What comes is not seen before it is read.
LEMMA ComeKeeps ==
  ASSUME JavaClient, CInv, (\E c \in Conns : Come(c)) \/ UNCHANGED <<vars, cvars>>
  PROVE  CInv'
<1>1. /\ pc' = pc /\ command' = command /\ socket' = socket /\ player' = player
      /\ killed' = killed /\ threads' = threads
      /\ arrived' = arrived /\ asked' = asked /\ gone' = gone /\ alive' = alive
  BY DEF Come, mvars, cvars, vars, world
<1>2. ClientTypes' /\ SocketInv'
  BY <1>1 DEF CInv, ClientTypes, SocketInv
<1>3. ClosedInv' /\ StoppedInv'
  BY <1>1 DEF CInv, ClosedInv, StoppedInv, OneSongAtATime, Playing
<1>4. QED
  BY <1>2, <1>3 DEF CInv

LEMMA CInvAlways == JavaClient => (SystemSpec => []CInv)
<1> SUFFICES ASSUME JavaClient PROVE SystemSpec => []CInv
  OBVIOUS
<1>1. CInv /\ [SystemNext]_<<vars, cvars>> => CInv'
  BY ServerKeeps, TypeKeeps, QuietKeeps, OpenKeeps, StartKeeps, CloseKeeps, SongKeeps,
     ComeKeeps DEF SystemNext, ClientSteps, Main
<1>2. QED
  BY InitCInv, <1>1, PTL DEF SystemSpec

-----------------------------------------------------------------------------
(* The client: the theorems.                                               *)

\* Every song that is playing has been told to stop, except the one that the next
\* command will stop (AudioClient.java:39, 70 and 123).
THEOREM OneSong == JavaClient => (SystemSpec => []OneSongAtATime)
<1> SUFFICES ASSUME JavaClient PROVE SystemSpec => []OneSongAtATime
  OBVIOUS
<1>1. CInv => OneSongAtATime
  BY DEF CInv, StoppedInv
<1>2. QED
  BY <1>1, CInvAlways, PTL

\* At the prompt no connection is open but those of songs whose threads run, of songs
\* whose thread could not be made (AudioPlayerThread.java:28-34), and of threads that
\* a stop cut off before they closed theirs (62-68): list and info close theirs
\* (AudioClient.java:93 and 119), and so does a thread stopped anywhere else.
THEOREM NoSocketLeft == JavaClient => (SystemSpec => []SocketsClosed)
<1> SUFFICES ASSUME JavaClient PROVE SystemSpec => []SocketsClosed
  OBVIOUS
<1>1. CInv => SocketsClosed
  BY DEF CInv, ClosedInv, SocketsClosed, Waiting
<1>2. QED
  BY <1>1, CInvAlways, PTL

\* A step of the client is to the server a step of a client, or none.
LEMMA ClientIsClient ==
  ASSUME JavaClient, CInv, ClientSteps
  PROVE  ClientNext \/ UNCHANGED vars
<1>1. CASE TypePlay \/ TypeAsk \/ TypeStop \/ (\E c \in Conns : Come(c))
  BY <1>1 DEF TypePlay, TypeAsk, TypeStop, Type, Come
<1>2. CASE \/ ConnectFails \/ WriteFails \/ ReadOn \/ StartPlayer \/ StartThrows
           \/ StartFails \/ StopSpinning \/ ReadResponse
  BY <1>2 DEF ConnectFails, WriteFails, ReadOn, StartPlayer, StartThrows, ReadBeginning,
              StartFails, StopSpinning, SpinUntil, ReadResponse
<1>3. CASE OpenSocket
  BY <1>3 DEF OpenSocket, ClientNext
<1>4. CASE WriteCommand
  <2>1. socket \in Conns /\ socket <= arrived /\ socket \notin gone
        /\ asked[socket] = 0 /\ command \in Commands
    BY <1>4, ConnFacts DEF WriteCommand, CInv, ClientTypes, SocketInv, Waiting, Conns
  <2>2. asked[socket] < MaxCommands
    BY <2>1, ConnFacts
  <2>3. Ask(socket)
    BY <1>4, <2>1, <2>2 DEF WriteCommand, Ask, rest
  <2>4. QED
    BY <2>1, <2>3 DEF ClientNext
<1>5. ASSUME NEW c \in Conns, c <= arrived, CloseSocket(c)
      PROVE  ClientNext \/ UNCHANGED vars
  <2>1. CASE c \in gone
    <3>1. gone' = gone
      BY <1>5, <2>1 DEF CloseSocket
    <3>2. QED
      BY <1>5, <3>1 DEF CloseSocket, vars, world, rest
  <2>2. CASE c \notin gone
    <3>1. Leave(c)
      BY <1>5, <2>2, ConnFacts DEF CloseSocket, Leave, rest
    <3>2. QED
      BY <3>1 DEF ClientNext
  <2>3. QED
    BY <2>1, <2>2
<1>6. CASE BadIndex \/ CloseResponse
  <2>1. socket \in Conns /\ socket <= arrived /\ CloseSocket(socket)
    BY <1>6, ConnFacts DEF BadIndex, Refuse, CloseResponse, CInv, ClientTypes, SocketInv,
                           Waiting, Conns
  <2>2. QED
    BY <2>1, <1>5
<1>7. ASSUME NEW c \in Conns, Song(c)
      PROVE  ClientNext \/ UNCHANGED vars
  <2>1. threads[c] # "none" /\ (CloseSocket(c) \/ UNCHANGED vars)
    BY <1>7 DEF Song, ReadSong, WriteSong, SongEnds, Ends, GoesOn
  <2>2. c <= arrived
    BY <2>1, ConnFacts DEF CInv, ClientTypes, SocketInv
  <2>3. QED
    BY <1>5, <2>1, <2>2
<1>8. QED
  BY <1>1, <1>2, <1>3, <1>4, <1>6, <1>7 DEF ClientSteps, Main

\* The composition of the two programs is a behaviour of the server's module: the
\* Java client does only what JukeboxServer lets clients do.
THEOREM ClientIsAssumed == JavaClient => (SystemSpec => Spec)
<1> SUFFICES ASSUME JavaClient PROVE SystemSpec => Spec
  OBVIOUS
<1>1. ClientInit => Init
  BY DEF ClientInit
<1>2. CInv /\ [SystemNext]_<<vars, cvars>> => [Next]_vars
  <2>1. SUFFICES ASSUME CInv, [SystemNext]_<<vars, cvars>>
                 PROVE  Next \/ UNCHANGED vars
    OBVIOUS
  <2>2. CASE ClientSteps
    BY <2>1, <2>2, ClientIsClient DEF Next
  <2>3. CASE ServerNext
    BY <2>3 DEF Next
  <2>4. CASE UNCHANGED <<vars, cvars>>
    BY <2>4
  <2>5. QED
    BY <2>1, <2>2, <2>3, <2>4 DEF SystemNext
<1>3. QED
  BY <1>1, <1>2, CInvAlways, PTL DEF SystemSpec, Spec

\* With this client, too, an event still fits its client when it is handled; and of a
\* response a message is sent whole and in order, a file in order with the chunks
\* missing that met EAGAIN (ConnectedClient.cpp:27-60 and 115-148).
THEOREM ServedRightly ==
  JavaClient => (SystemSpec => [](EventsNotStale /\ ResponsesConserved))
BY ClientIsAssumed, EventsFit, ChunksConserved, PTL
=============================================================================
