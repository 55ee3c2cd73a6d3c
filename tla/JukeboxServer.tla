---------------------------- MODULE JukeboxServer ----------------------------
(***************************************************************************)
(* The jukebox server: one thread, one epoll, a table of descriptors and   *)
(* the map clients from descriptor to ConnectedClient.  epoll_wait takes a *)
(* batch of events; each is handled with the sockets as they are by then,  *)
(* while clients go on connecting, sending commands and leaving.           *)
(*                                                                         *)
(* A response is the chunks send_next_chunk sends, by their number in the  *)
(* data: an ArraySender sends all of them in order, while a FileSender has *)
(* read the chunk that met EAGAIN and goes on with the next.  A chunk of   *)
(* which only a part is sent is the subject of ChunkedDataSender.tla.      *)
(***************************************************************************)
EXTENDS Integers, Sequences

CONSTANTS
  MaxConns,      \* bound of the model: how many clients connect
  MaxFds,        \* descriptors the process may open beyond the epoll's
  MaxCommands,   \* bound of the model: commands one client sends
  Commands,      \* the commands clients send
  Chunks,        \* Chunks[k] is the number of chunks of the response to k: none
                 \* for an unknown command, for an index that is no number (the
                 \* exception is caught), for a list of no songs
  Files,         \* the commands a FileSender answers: play, and info of a song
                 \* that has an info file; an ArraySender answers the others
  Fatal,         \* the commands no handler survives: see HandleInput
  MayLeave       \* do clients close their end?

Conns == 1 .. MaxConns
Fds   == 1 .. MaxFds
Listen == 0                        \* server_socket
Events == {"in", "rdhup", "out"}   \* EPOLLIN, EPOLLRDHUP, EPOLLOUT

ASSUME BoundAssumption == /\ MaxConns \in Nat /\ MaxFds \in Nat
                          /\ MaxCommands \in Nat
ASSUME CommandAssumption == /\ Chunks \in [Commands -> Nat]
                            /\ Fatal \subseteq Commands
                            /\ Files \subseteq Commands
ASSUME LeaveAssumption == MayLeave \in BOOLEAN

VARIABLES
  arrived, accepted,     \* clients 1 .. arrived have connected
  inbox, asked,          \* commands in c's socket, commands c has sent
  gone,                  \* clients that have closed their end
  fdTable,               \* the client each descriptor belongs to, or 0
  interest,              \* the events epoll watches for it, {} when none
  clients,               \* the map, with NoClient where it has no entry
  batch,                 \* events returned by epoll_wait and not handled yet
  sent, owed,            \* history: chunks sent to c, chunks of its responses
  source,                \* what the sender of c's last response reads from
  wire,                  \* history: the chunks of that response, as they were sent
  alive                  \* the process runs

world == <<arrived, inbox, asked, gone>>
responses == <<sent, owed, source, wire>>
vars  == <<world, accepted, fdTable, interest, clients, batch, responses, alive>>

\* A ConnectedClient: its state, and the chunks its sender still has to send
\* (0 when it has none, because it is NULL or has been deleted).
NoClient == [state |-> "none", sender |-> 0]
Receiving == [state |-> "RECEIVING", sender |-> 0]
Sending(n) == [state |-> "SENDING", sender |-> n]

\* The array or the file of a sender: its size, and how far it has been copied
\* or read; both in chunks.
Source(file, size) == [file |-> file, size |-> size, pos |-> 0]
NoSource == Source(FALSE, 0)

Init ==
  /\ arrived = 0 /\ accepted = 0
  /\ inbox = [c \in Conns |-> <<>>] /\ asked = [c \in Conns |-> 0]
  /\ gone = {}
  /\ fdTable = [f \in Fds |-> 0]
  /\ interest = [f \in Fds |-> {}]
  /\ clients = [f \in Fds |-> NoClient]
  /\ batch = {}
  /\ sent = [c \in Conns |-> 0] /\ owed = [c \in Conns |-> 0]
  /\ source = [c \in Conns |-> NoSource]
  /\ wire = [c \in Conns |-> <<>>]
  /\ alive = TRUE

-----------------------------------------------------------------------------
(* The clients.                                                            *)

Connect ==
  /\ alive
  /\ arrived < MaxConns
  /\ arrived' = arrived + 1
  /\ UNCHANGED <<inbox, asked, gone, accepted, fdTable, interest, clients, batch,
                 responses, alive>>

Ask(c) ==
  /\ alive
  /\ c <= arrived /\ c \notin gone /\ asked[c] < MaxCommands
  /\ \E k \in Commands : inbox' = [inbox EXCEPT ![c] = Append(@, k)]
  /\ asked' = [asked EXCEPT ![c] = @ + 1]
  /\ UNCHANGED <<arrived, gone, accepted, fdTable, interest, clients, batch,
                 responses, alive>>

Leave(c) ==
  /\ MayLeave
  /\ c <= arrived /\ c \notin gone
  /\ gone' = gone \cup {c}
  /\ UNCHANGED <<arrived, inbox, asked, accepted, fdTable, interest, clients,
                 batch, responses, alive>>

\* exit(EXIT_FAILURE), an uncaught exception, SIGFPE or SIGPIPE
Die == /\ alive' = FALSE
       /\ UNCHANGED <<world, accepted, fdTable, interest, clients, batch, responses>>

-----------------------------------------------------------------------------
(* event_loop.                                                             *)

\* What epoll reports of f, given the descriptors that have room to send.
Ready(f, room) ==
  LET c == fdTable[f]
  IN  interest[f] \cap
        ((IF inbox[c] # <<>> \/ c \in gone THEN {"in"} ELSE {})
         \cup (IF c \in gone THEN {"rdhup"} ELSE {})
         \cup (IF f \in room \/ c \in gone THEN {"out"} ELSE {}))

Watched == {f \in Fds : interest[f] # {}}

\* epoll_wait returns when there is something to report.
Wait ==
  /\ alive
  /\ batch = {}
  /\ \E room \in SUBSET Watched :
       batch' = {[fd |-> f, events |-> Ready(f, room)] :
                   f \in {g \in Watched : Ready(g, room) # {}}}
                \cup (IF arrived > accepted
                        THEN {[fd |-> Listen, events |-> {"in"}]} ELSE {})
  /\ batch' # {}
  /\ UNCHANGED <<world, accepted, fdTable, interest, clients, responses, alive>>

\* The event is handled, except for the EPOLLOUT test, which is no else.
Handled(e) ==
  batch' = (batch \ {e})
           \cup (IF "out" \in e.events /\ e.events # {"out"}
                   THEN {[e EXCEPT !.events = {"out"}]} ELSE {})

FreeFds == {f \in Fds : fdTable[f] = 0}
LowestFree == {f \in FreeFds : \A g \in FreeFds : f <= g}

\* setup_new_client
SetupNewClient(e) ==
  /\ e.fd = Listen
  /\ accepted' = accepted + 1
  /\ \E f \in LowestFree :
       /\ clients[f] = NoClient
       /\ fdTable' = [fdTable EXCEPT ![f] = accepted']
       /\ interest' = [interest EXCEPT ![f] = {"in", "rdhup"}]
       /\ clients' = [clients EXCEPT ![f] = Receiving]
  /\ Handled(e)
  /\ UNCHANGED <<world, responses, alive>>

\* accept() fails, or the descriptor is in the map already: both exit.
SetupFails(e) ==
  /\ e.fd = Listen
  /\ FreeFds = {} \/ \E f \in LowestFree : clients[f] # NoClient
  /\ Die

\* A changed form of HandleClose: the entry of the map is not erased.
HandleCloseKeeps(e) ==
  /\ e.fd # Listen /\ "rdhup" \in e.events
  /\ fdTable' = [fdTable EXCEPT ![e.fd] = 0]
  /\ interest' = [interest EXCEPT ![e.fd] = {}]
  /\ Handled(e)
  /\ UNCHANGED <<world, accepted, clients, responses, alive>>

\* ConnectedClient::handle_close, and the erase that follows it
HandleClose(e) ==
  /\ e.fd # Listen /\ "rdhup" \in e.events
  /\ fdTable' = [fdTable EXCEPT ![e.fd] = 0]
  /\ interest' = [interest EXCEPT ![e.fd] = {}]
  /\ clients' = [clients EXCEPT ![e.fd] = NoClient]
  /\ Handled(e)
  /\ UNCHANGED <<world, accepted, responses, alive>>

\* The next k chunks of r; once a file has been read to its end the buffer that
\* is sent holds nothing of it: 0.
NextChunks(r, k) == [i \in 1 .. k |-> IF r.pos + i <= r.size THEN r.pos + i ELSE 0]

Advance(r, k) ==
  [r EXCEPT !.pos = IF r.pos + k <= r.size THEN r.pos + k ELSE r.size]

\* The loop over send_next_chunk, after the chunks before, sends k of the n chunks
\* that are left of r; after the last it returns 0, before that -1.  A file has
\* been read one chunk further then: the chunk that met EAGAIN is lost.
SendLoop(e, r, before, n, k) ==
  LET c == fdTable[e.fd]
  IN  /\ k \in 0 .. n
      /\ sent' = [sent EXCEPT ![c] = @ + k]
      /\ wire' = [wire EXCEPT ![c] = before \o NextChunks(r, k)]
      /\ source' = [source EXCEPT ![c] =
                      Advance(r, IF r.file /\ k < n THEN k + 1 ELSE k)]

\* What answers c's first command
Reply(c) ==
  IF inbox[c] = <<>> THEN NoSource
  ELSE Source(Head(inbox[c]) \in Files, Chunks[Head(inbox[c])])

\* A changed form of HandleInput: the client is left watched for input while
\* its response is being sent.
HandleInputWatching(e) ==
  LET c == fdTable[e.fd]
      r == Reply(c)
  IN  /\ e.fd # Listen /\ "in" \in e.events /\ "rdhup" \notin e.events
      /\ inbox[c] # <<>> => Head(inbox[c]) \notin Fatal
      /\ inbox' = [inbox EXCEPT ![c] = <<>>]
      /\ owed' = [owed EXCEPT ![c] = @ + r.size]
      /\ \E k \in 0 .. r.size :
           /\ SendLoop(e, r, <<>>, r.size, k)
           /\ IF k = r.size
                THEN UNCHANGED <<clients, interest>>
                ELSE /\ clients' = [clients EXCEPT ![e.fd] = Sending(r.size - k)]
                     /\ interest' = [interest EXCEPT ![e.fd] = @ \cup {"out"}]
      /\ Handled(e)
      /\ UNCHANGED <<arrived, asked, gone, accepted, fdTable, alive>>

\* A changed form of HandleInput: EPOLL_CTL_MOD is forgotten.
HandleInputUnarmed(e) ==
  LET c == fdTable[e.fd]
      r == Reply(c)
  IN  /\ e.fd # Listen /\ "in" \in e.events /\ "rdhup" \notin e.events
      /\ inbox[c] # <<>> => Head(inbox[c]) \notin Fatal
      /\ inbox' = [inbox EXCEPT ![c] = <<>>]
      /\ owed' = [owed EXCEPT ![c] = @ + r.size]
      /\ \E k \in 0 .. r.size :
           /\ SendLoop(e, r, <<>>, r.size, k)
           /\ clients' = IF k = r.size THEN clients
                         ELSE [clients EXCEPT ![e.fd] = Sending(r.size - k)]
      /\ Handled(e)
      /\ UNCHANGED <<arrived, asked, gone, accepted, fdTable, interest, alive>>

\* handle_input, with send_audio, get_info or send_message.  recv takes all
\* the commands there are, and only the first is looked at.  A response that
\* does not fit is left to continue_response: the client is SENDING, and the
\* one event it is watched for is EPOLLOUT.
HandleInput(e) ==
  LET c == fdTable[e.fd]
      r == Reply(c)
  IN  /\ e.fd # Listen /\ "in" \in e.events /\ "rdhup" \notin e.events
      /\ inbox[c] # <<>> => Head(inbox[c]) \notin Fatal
      /\ inbox' = [inbox EXCEPT ![c] = <<>>]
      /\ owed' = [owed EXCEPT ![c] = @ + r.size]
      /\ \E k \in 0 .. r.size :
           /\ SendLoop(e, r, <<>>, r.size, k)
           /\ IF k = r.size
                THEN UNCHANGED <<clients, interest>>
                ELSE /\ clients' = [clients EXCEPT ![e.fd] = Sending(r.size - k)]
                     /\ interest' = [interest EXCEPT ![e.fd] = {"out"}]
      /\ Handled(e)
      /\ UNCHANGED <<arrived, asked, gone, accepted, fdTable, alive>>

\* send fails because the client has gone, recv because it went without reading
\* all that was sent to it; or the command is one that no handler survives: an
\* index stoi cannot represent (out_of_range is not caught), or play when there
\* is no song (% 0).
HandleInputFails(e) ==
  /\ e.fd # Listen /\ "in" \in e.events /\ "rdhup" \notin e.events
  /\ LET c == fdTable[e.fd]
     IN  \/ c \in gone /\ sent[c] > 0
         \/ c \in gone /\ inbox[c] # <<>> /\ Chunks[Head(inbox[c])] > 0
         \/ inbox[c] # <<>> /\ Head(inbox[c]) \in Fatal
  /\ Die

\* A changed form of ContinueResponse: it counts what is left one chunk short.
ContinueShort(e) ==
  LET c == fdTable[e.fd]
      n == clients[e.fd].sender
  IN  /\ e.fd # Listen /\ e.events = {"out"}
      /\ \E k \in 1 .. n :
           /\ SendLoop(e, source[c], wire[c], n, k)
           /\ clients' = [clients EXCEPT ![e.fd] = Sending(n - k - 1)]
           /\ interest' = IF k = n THEN [interest EXCEPT ![e.fd] = {}]
                                   ELSE interest
      /\ Handled(e)
      /\ UNCHANGED <<world, accepted, fdTable, owed, alive>>

\* A changed form of ContinueResponse: the sender copies from the beginning again.
ContinueAnew(e) ==
  LET c == fdTable[e.fd]
      n == clients[e.fd].sender
  IN  /\ e.fd # Listen /\ e.events = {"out"}
      /\ \E k \in 1 .. n :
           /\ SendLoop(e, Source(source[c].file, source[c].size), wire[c], n, k)
           /\ clients' = [clients EXCEPT ![e.fd] = Sending(n - k)]
           /\ interest' = IF k = n THEN [interest EXCEPT ![e.fd] = {}]
                                   ELSE interest
      /\ Handled(e)
      /\ UNCHANGED <<world, accepted, fdTable, owed, alive>>

\* continue_response: the socket takes a chunk at least, and the last chunk
\* takes the client off epoll.
ContinueResponse(e) ==
  LET c == fdTable[e.fd]
      n == clients[e.fd].sender
  IN  /\ e.fd # Listen /\ e.events = {"out"}
      /\ \E k \in 1 .. n :
           /\ SendLoop(e, source[c], wire[c], n, k)
           /\ clients' = [clients EXCEPT ![e.fd] = Sending(n - k)]
           /\ interest' = IF k = n THEN [interest EXCEPT ![e.fd] = {}]
                                   ELSE interest
      /\ Handled(e)
      /\ UNCHANGED <<world, accepted, fdTable, owed, alive>>

\* send fails because the client has gone: SIGPIPE, or exit in send_next_chunk.
ContinueFails(e) ==
  /\ e.fd # Listen /\ e.events = {"out"}
  /\ fdTable[e.fd] \in gone
  /\ Die

Handle(e) ==
  /\ alive
  /\ \/ SetupNewClient(e) \/ SetupFails(e)
     \/ HandleClose(e)
     \/ HandleInput(e) \/ HandleInputFails(e)
     \/ ContinueResponse(e) \/ ContinueFails(e)

ServerNext == Wait \/ \E e \in batch : Handle(e)

ClientNext == Connect \/ \E c \in Conns : Ask(c) \/ Leave(c)

Next == ServerNext \/ ClientNext

Spec == Init /\ [][Next]_vars

\* The one thread is scheduled; clients need do nothing more than read.
FairSpec == Spec /\ WF_vars(ServerNext)

-----------------------------------------------------------------------------
(* Properties.                                                             *)

Sources == [file : BOOLEAN, size : Nat, pos : Nat]

TypeOK ==
  /\ arrived \in 0 .. MaxConns /\ accepted \in 0 .. arrived
  /\ inbox \in [Conns -> Seq(Commands)] /\ asked \in [Conns -> 0 .. MaxCommands]
  /\ gone \subseteq Conns
  /\ fdTable \in [Fds -> 0 .. accepted]
  /\ interest \in [Fds -> SUBSET Events]
  /\ clients \in [Fds -> [state : {"none", "RECEIVING", "SENDING"}, sender : Nat]]
  /\ \A e \in batch : e.fd \in Fds \cup {Listen} /\ e.events \subseteq Events
  /\ sent \in [Conns -> Nat] /\ owed \in [Conns -> Nat]
  /\ source \in [Conns -> Sources] /\ wire \in [Conns -> Seq(Nat)]
  /\ alive \in BOOLEAN

\* "The client_fd shouldn't exist in our clients map" (line 262): the map has
\* an entry for exactly the open descriptors, through every close, every
\* completed response and every reuse of a number, so accepting a client never
\* ends in that exit.
MapMatchesDescriptors ==
  \A f \in Fds : clients[f] = NoClient <=> fdTable[f] = 0

\* "you should only reach this point if you started sending a response, but
\* had to stop" (lines 350-353): an event waiting in the batch still fits its
\* client when its turn comes, whatever the events before it did: EPOLLOUT finds
\* a live sender, EPOLLIN and EPOLLRDHUP a client that is receiving. No event
\* makes clients[fd] default-construct a client.
EventsNotStale ==
  \A e \in batch : e.fd \in Fds =>
    IF e.events = {"out"} THEN clients[e.fd].sender > 0
                          ELSE clients[e.fd] = Receiving

\* An array is sent in order. Of a file the chunks that met EAGAIN are missing: the
\* others are in order, each once, and then junk (0), but not before the file
\* has been read to its end.
InOrder(r, w) ==
  IF r.file
    THEN /\ \A i, j \in DOMAIN w : i < j => w[j] = 0 \/ (0 < w[i] /\ w[i] < w[j])
         /\ \A i \in DOMAIN w : w[i] = 0 => r.pos = r.size
    ELSE \A i \in DOMAIN w : w[i] = i

\* "keep sending the next chunk until it says we either didn't send anything ...
\* or until we can't send anymore" (ConnectedClient.cpp:33-35): however often a
\* response stops in the middle and is taken up on EPOLLOUT, what its sender
\* still has is what its length lacks, a message has lost and repeated nothing,
\* and of a file, which loses the chunk read for each stop, nothing is sent twice
\* or out of order.
ResponsesConserved ==
  \A f \in Fds : fdTable[f] # 0 =>
    LET c == fdTable[f]
    IN  /\ sent[c] + clients[f].sender = owed[c]
        /\ Len(wire[c]) + clients[f].sender = source[c].size
        /\ InOrder(source[c], wire[c])

\* What ends the server, and nothing else does: a command no handler survives, a
\* client that asked and left, no descriptor left. The exit for a descriptor that
\* is already in the map (jukebox-server.cpp:262-265) is never taken.
DiesForCause ==
  ~alive => \/ \E c \in Conns : inbox[c] # <<>> /\ Head(inbox[c]) \in Fatal
            \/ \E c \in gone : asked[c] > 0
            \/ arrived > accepted /\ FreeFds = {}

\* Every client that stays gets a response of the right length to its command,
\* as long as the server runs: a response taken up on EPOLLOUT is never forgotten, however
\* many clients are served meanwhile.
CommandAnswered ==
  \A c \in Conns :
    (asked[c] = 1) ~> (\/ c \in gone \/ ~alive
                       \/ inbox[c] = <<>> /\ sent[c] = owed[c])

\* "the socket associated with this event was closed by the remote host so we
\* should clean up" (lines 317-318): a client that has closed its end is noticed
\* and its descriptor given back.
HangupNoticed ==
  \A c \in Conns : (c \in gone) ~> (~alive \/ \A f \in Fds : fdTable[f] # c)
=============================================================================
