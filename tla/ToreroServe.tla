----------------------------- MODULE ToreroServe -----------------------------
(***************************************************************************)
(* ToreroServe as one process: the hand-off of accepted sockets, taken in  *)
(* its abstract form (ConnQueue), the threads running handleClient, and    *)
(* what they share without saying so: the process's table of file          *)
(* descriptors, in which accept(), std::ifstream and directory_iterator    *)
(* all take the lowest free number, the directory tree being served, and   *)
(* the process itself, which an uncaught exception or SIGPIPE ends.        *)
(*                                                                         *)
(* Connections are numbered in the order accept() returns them.  A reply   *)
(* is the sequence of the parts a client receives: a status line with its  *)
(* header ("200"), a whole error response ("400", "404"), or the content   *)
(* of a page or listing ("body").  sendData is one step per part here;     *)
(* ContentResponse.tla models it byte by byte.                             *)
(***************************************************************************)
EXTENDS Integers, Sequences, SequencesExt

CONSTANTS
  Workers,     \* the threads running thread_function
  Depth,       \* buff_size
  MaxConns,    \* bound of the model: how many connections arrive
  MaxFds,      \* descriptors the process may open beyond the listening socket
  Kinds,       \* the request lines clients send, as handleClient tells them apart
  Arrivals,    \* how much of its request a client sends before the first recv
  Sites,       \* the states of the directory tree at the start
  Changes      \* what may happen to a file later: a set of <<from, to>>

Conns == 1 .. MaxConns
Fds   == 1 .. MaxFds
Paths == {"page", "index", "dir"}
\* locked: exists and cannot be opened.  nostat: stat fails otherwise than by
\* not finding it (a name over 255 characters, a loop, a directory on the way
\* that may not be searched).
States == {"absent", "readable", "locked", "nostat"}

ASSUME SizeAssumption == /\ MaxConns \in Nat /\ MaxFds \in Nat
                         /\ Depth \in Nat \ {0}
ASSUME RequestAssumption ==
  /\ Kinds \subseteq {"bad", "favicon", "page", "dir", "noname"}
  /\ Arrivals \subseteq {"whole", "part", "none"}
ASSUME SiteAssumption == /\ Sites \subseteq [Paths -> States]
                         /\ Changes \subseteq States \X States

VARIABLES
  accepted, handed,        \* the hand-off, as ConnQueue has it
  fdTable,                 \* what each descriptor stands for
  fdOf,                    \* the descriptor accept() returned for each connection
  request,                 \* what the client of each connection sends
  unread,                  \* connections whose request is still in the socket
  left,                    \* connections whose client has closed its end
  reply,                   \* what each client has received
  site,                    \* the tree under base_dir
  pc, turn, client_sock, received_data, target, file,  \* one handleClient each
  alive,                   \* the process runs
  struck                   \* history: a close has hit somebody else's descriptor

queue   == <<accepted, handed>>
clients == <<request, left>>
locals  == <<pc, turn, client_sock, received_data, target, file>>
vars    == <<queue, fdTable, fdOf, request, unread, left, reply, site, locals,
             alive, struck>>

Queue == INSTANCE ConnQueue

Unused == [what |-> "nothing"]
Conn(c) == [what |-> "conn", of |-> c]
Opened(w) == [what |-> "file", of |-> w]
Listed(w) == [what |-> "dir", of |-> w]

Pcs == {"get", "recv", "bad", "checkIndex", "checkDir", "checkPage", "notFound",
        "okPage", "open", "openFailed", "closeEarly", "closeAgain", "content",
        "closeFile", "okDir", "list", "listed", "listing", "close"}

\* What a client asks for matters where it sends it whole.
Request(kind, sent) == [kind |-> IF sent = "whole" THEN kind ELSE "bad",
                        sent |-> sent]

\* Where a thread is about to ask about a path, and to send a part of a reply.
Checking == {"checkIndex", "checkDir", "checkPage"}
Sending == {"bad", "notFound", "okPage", "openFailed", "content", "okDir",
            "listing"}

FreeFds == {f \in Fds : fdTable[f] = Unused}
LowestFree == CHOOSE f \in FreeFds : \A g \in FreeFds : f <= g

Init ==
  /\ Queue!Init
  /\ fdTable = [f \in Fds |-> Unused]
  /\ fdOf = [c \in Conns |-> 0]
  /\ request = [c \in Conns |-> [kind |-> "bad", sent |-> "none"]]
  /\ unread = {} /\ left = {}
  /\ reply = [c \in Conns |-> <<>>]
  /\ site \in Sites
  /\ pc = [w \in Workers |-> "get"]
  /\ turn = [w \in Workers |-> 0]
  /\ client_sock = [w \in Workers |-> 0]
  /\ received_data = [w \in Workers |-> "bad"]
  /\ target = [w \in Workers |-> "page"]
  /\ file = [w \in Workers |-> 0]
  /\ alive = TRUE
  /\ struck = FALSE

-----------------------------------------------------------------------------
(* The clients, the directory tree, and the end of the process.            *)

\* A client that goes after its connection is closed is not noticed.
Leave(c) ==
  /\ alive
  /\ c <= accepted /\ c \notin left
  /\ \E f \in Fds : fdTable[f] = Conn(c)
  /\ left' = left \cup {c}
  /\ UNCHANGED <<queue, fdTable, fdOf, request, unread, reply, site, locals,
                 alive, struck>>

Change(p) ==
  /\ alive
  /\ \E s \in States : /\ <<site[p], s>> \in Changes
                       /\ site' = [site EXCEPT ![p] = s]
  /\ UNCHANGED <<queue, fdTable, fdOf, request, unread, left, reply, locals,
                 alive, struck>>

\* exit(1), an exception no thread catches, or SIGPIPE
Die == /\ alive' = FALSE
       /\ UNCHANGED <<queue, fdTable, fdOf, request, unread, left, reply, site,
                      locals, struck>>

-----------------------------------------------------------------------------
(* acceptConnections.                                                      *)

AcceptConn ==
  /\ alive
  /\ accepted < MaxConns
  /\ FreeFds # {}
  /\ Queue!Accept
  /\ \E k \in Kinds, s \in Arrivals :
       request' = [request EXCEPT ![accepted'] = Request(k, s)]
  /\ fdTable' = [fdTable EXCEPT ![LowestFree] = Conn(accepted')]
  /\ fdOf' = [fdOf EXCEPT ![accepted'] = LowestFree]
  /\ unread' = unread \cup {accepted'}
  /\ UNCHANGED <<left, reply, site, locals, alive, struck>>

\* accept() fails with EMFILE: exit(1)
AcceptFails ==
  /\ alive
  /\ accepted < MaxConns
  /\ Queue!MayAccept
  /\ FreeFds = {}
  /\ Die

-----------------------------------------------------------------------------
(* handleClient and the functions it calls, run by thread w.               *)

Goto(w, from, to) == pc[w] = from /\ pc' = [pc EXCEPT ![w] = to]

\* What the number in client_sock stands for now.
Peer(w) == fdTable[client_sock[w]]

\* thread_function takes a socket and calls handleClient(socket, base_dir).
Take(w) ==
  /\ alive
  /\ Goto(w, "get", "recv")
  /\ Queue!Take
  /\ LET c == Last(handed')
     IN  /\ turn' = [turn EXCEPT ![w] = c]
         /\ client_sock' = [client_sock EXCEPT ![w] = fdOf[c]]
  /\ UNCHANGED <<fdTable, fdOf, clients, unread, reply, site, received_data,
                 target, file, alive, struck>>

\* The request line handleClient finds in received_data.  recv writes over the
\* front of it and the string ends at the first 0, not at bytes_received: when
\* the client sent nothing, what an earlier call left on the stack is parsed;
\* when it sent a part, that part runs on into it.
Line(w, sent, kind) ==
  CASE sent = "whole" -> {kind}
    [] sent = "part"  -> {"bad", received_data[w]}
    [] sent = "none"  -> {received_data[w]}

\* Where the parsed line leads: 400, straight to close, check_dir or
\* send_page.  A line with two spaces gives an empty file name, whose back()
\* is undefined: it is taken for '/' or for another character.
Route(line) ==
  CASE line = "bad"     -> {"bad"}
    [] line = "favicon" -> {"close"}
    [] line = "dir"     -> {"checkIndex"}
    [] line = "page"    -> {"checkPage"}
    [] line = "noname"  -> {"notFound", "checkDir"}

Parse(w, lines) ==
  \E line \in lines : \E next \in Route(line) :
    /\ Goto(w, "recv", next)
    /\ received_data' = [received_data EXCEPT ![w] = line]

\* A read of c's socket finds its end: the client has gone, or has closed its
\* sending half without a word.
AtEnd(c) == c \in left \/ request[c].sent = "none"

Receive(w) ==
  /\ alive
  /\ pc[w] = "recv"
  /\ \E c \in Conns :
       /\ Peer(w) = Conn(c)
       /\ c \in unread \/ AtEnd(c)
       /\ unread' = unread \ {c}
       /\ Parse(w, IF c \in unread THEN Line(w, request[c].sent, request[c].kind)
                                  ELSE {received_data[w]})
  /\ target' = [target EXCEPT ![w] = "page"]
  /\ UNCHANGED <<queue, fdTable, fdOf, clients, reply, site, turn, client_sock,
                 file, alive, struck>>

\* recv returns -1, which receiveData turns into an exception: the client has
\* reset the connection, or the number is no socket any more.
ReceiveFails(w) ==
  /\ alive
  /\ pc[w] = "recv"
  /\ \A c \in Conns \ left : Peer(w) # Conn(c)
  /\ Die

\* sendData of one part of a reply.  It goes to whoever owns the number.
Send(w, from, what, to) ==
  /\ alive
  /\ Goto(w, from, to)
  /\ \E c \in Conns :
       /\ Peer(w) = Conn(c)
       /\ reply' = IF c \in left THEN reply
                   ELSE [reply EXCEPT ![c] =
                           Append(@, [what |-> what, for |-> turn[w]])]
  /\ UNCHANGED <<queue, fdTable, fdOf, clients, unread, site, turn, client_sock,
                 received_data, target, file, alive, struck>>

\* What the read loop of contentResponse reads comes to an end: a file does,
\* and so does a socket that has got the file's number, once its request is
\* read and its client sends no more.  Nothing else can be read: the stream
\* goes bad without reaching its end, and the loop spins for ever.
ReadsToEnd(w) ==
  \/ fdTable[file[w]].what = "file"
  \/ \E c \in Conns \ unread : fdTable[file[w]] = Conn(c) /\ AtEnd(c)

\* send to a client that has gone raises SIGPIPE or returns -1, and so does
\* send on a number that is no socket any more: sendData throws.
SendFails(w) ==
  /\ alive
  /\ pc[w] \in Sending
  /\ pc[w] = "content" => ReadsToEnd(w)
  /\ \A c \in Conns \ left : Peer(w) # Conn(c)
  /\ Die

\* Changed forms of BadRequest: badRequest closes the socket as well, and
\* handleClient does not return after it.
BadRequestCloses(w) == Send(w, "bad", "400", "closeEarly")
BadRequestGoesOn(w) == Send(w, "bad", "400", "checkPage")

BadRequest(w)      == Send(w, "bad", "400", "close")
NotFoundRequest(w) == Send(w, "notFound", "404", "close")

\* The steps that only look at the tree.
Look(w) ==
  /\ alive
  /\ UNCHANGED <<queue, fdTable, fdOf, clients, unread, reply, site, turn,
                 client_sock, received_data, file, alive, struck>>

\* check_dir: is there an index.html?
CheckIndex(w) ==
  /\ Look(w)
  /\ site["index"] # "nostat"
  /\ IF site["index"] # "absent"
       THEN Goto(w, "checkIndex", "checkPage")
            /\ target' = [target EXCEPT ![w] = "index"]
       ELSE Goto(w, "checkIndex", "checkDir") /\ UNCHANGED target

\* check_dir: is it a directory?
CheckDir(w) ==
  /\ Look(w)
  /\ site["dir"] # "nostat"
  /\ Goto(w, "checkDir", IF site["dir"] # "absent" THEN "okDir" ELSE "notFound")
  /\ UNCHANGED target

\* send_page: is it a regular file?
CheckPage(w) ==
  /\ Look(w)
  /\ site[target[w]] # "nostat"
  /\ Goto(w, "checkPage",
          IF site[target[w]] # "absent" THEN "okPage" ELSE "notFound")
  /\ UNCHANGED target

\* The path the next check asks about.
Checked(w) == CASE pc[w] = "checkIndex" -> "index"
                [] pc[w] = "checkDir"   -> "dir"
                [] OTHER                -> target[w]

\* is_regular_file and is_directory throw when stat fails otherwise than by
\* not finding the path
CheckFails(w) ==
  /\ alive
  /\ pc[w] \in Checking
  /\ site[Checked(w)] = "nostat"
  /\ Die

\* okayResponse, from send_page and from check_dir
OkayPage(w) == Send(w, "okPage", "200", "open")
OkayDir(w)  == Send(w, "okDir", "200", "list")

CanOpen(p) == site[p] = "readable" /\ FreeFds # {}

OpenLowest(w, it) ==
  /\ file' = [file EXCEPT ![w] = LowestFree]
  /\ fdTable' = [fdTable EXCEPT ![LowestFree] = it]

\* close(f), by a thread that takes f to be its own descriptor own
CloseFd(f, own) ==
  /\ fdTable' = [fdTable EXCEPT ![f] = Unused]
  /\ struck' = (struck \/ fdTable[f] \notin {own, Unused})

\* contentResponse: std::ifstream file(...); if (!file.is_open())
OpenFile(w) ==
  /\ alive
  /\ IF CanOpen(target[w])
       THEN Goto(w, "open", "content") /\ OpenLowest(w, Opened(w))
       ELSE Goto(w, "open", "openFailed") /\ UNCHANGED <<file, fdTable>>
  /\ UNCHANGED <<queue, fdOf, clients, unread, reply, site, turn, client_sock,
                 received_data, target, alive, struck>>

\* contentResponse: the 404 that follows the 200 already sent, and the close
OpenFailed(w) == Send(w, "openFailed", "404", "closeEarly")

\* A changed form of CloseEarly: the close comes before a 404.
CloseEarlySends(w) ==
  /\ alive
  /\ Goto(w, "closeEarly", "notFound")
  /\ CloseFd(client_sock[w], Conn(turn[w]))
  /\ UNCHANGED <<queue, fdOf, clients, unread, reply, site, turn, client_sock,
                 received_data, target, file, alive>>

CloseEarly(w) ==
  /\ alive
  /\ Goto(w, "closeEarly", "closeAgain")
  /\ CloseFd(client_sock[w], Conn(turn[w]))
  /\ UNCHANGED <<queue, fdOf, clients, unread, reply, site, turn, client_sock,
                 received_data, target, file, alive>>

\* A changed form of Content: the end of the file is never noticed.
ContentAgain(w) ==
  /\ pc[w] = "content"
  /\ ReadsToEnd(w)
  /\ Send(w, "content", "body", "content")

\* The loop of contentResponse.  When its descriptor has been closed under it,
\* the number may stand for another file or a socket accepted since.
Content(w) ==
  /\ pc[w] = "content"
  /\ ReadsToEnd(w)
  /\ Send(w, "content",
          IF fdTable[file[w]] = Opened(w) THEN "body" ELSE "not its own",
          "closeFile")

\* file.read on such a socket takes the request its client has sent.
OthersRequest(w) ==
  /\ alive
  /\ pc[w] = "content"
  /\ \E c \in unread : /\ fdTable[file[w]] = Conn(c)
                       /\ unread' = unread \ {c}
  /\ UNCHANGED <<queue, fdTable, fdOf, clients, reply, site, locals, alive,
                 struck>>

\* A changed form of CloseFile: the socket is forgotten once the page is sent.
CloseFileReturns(w) ==
  /\ alive
  /\ Goto(w, "closeFile", "get")
  /\ CloseFd(file[w], Opened(w))
  /\ file' = [file EXCEPT ![w] = 0]
  /\ UNCHANGED <<queue, fdOf, clients, unread, reply, site, turn, client_sock,
                 received_data, target, alive>>

\* file.close()
CloseFile(w) ==
  /\ alive
  /\ Goto(w, "closeFile", "close")
  /\ CloseFd(file[w], Opened(w))
  /\ file' = [file EXCEPT ![w] = 0]
  /\ UNCHANGED <<queue, fdOf, clients, unread, reply, site, turn, client_sock,
                 received_data, target, alive>>

\* send_dir: directory_iterator opens the directory, or throws
OpenDir(w) ==
  /\ alive
  /\ CanOpen("dir")
  /\ Goto(w, "list", "listed")
  /\ OpenLowest(w, Listed(w))
  /\ UNCHANGED <<queue, fdOf, clients, unread, reply, site, turn, client_sock,
                 received_data, target, alive, struck>>

OpenDirFails(w) ==
  /\ alive
  /\ pc[w] = "list"
  /\ ~CanOpen("dir")
  /\ Die

\* The iterator reaches the end of the directory and closes it, or throws when
\* its descriptor has been closed under it and is no directory any more.
ListDir(w) ==
  /\ alive
  /\ Goto(w, "listed", "listing")
  /\ fdTable[file[w]].what = "dir"
  /\ CloseFd(file[w], Listed(w))
  /\ file' = [file EXCEPT ![w] = 0]
  /\ UNCHANGED <<queue, fdOf, clients, unread, reply, site, turn, client_sock,
                 received_data, target, alive>>

ListDirFails(w) ==
  /\ alive
  /\ pc[w] = "listed"
  /\ fdTable[file[w]].what # "dir"
  /\ Die

SendListing(w) == Send(w, "listing", "body", "close")

\* close(client_sock); handleClient returns.  At closeAgain contentResponse has
\* closed the socket already.
Close(w) ==
  /\ alive
  /\ Goto(w, "close", "get") \/ Goto(w, "closeAgain", "get")
  /\ CloseFd(client_sock[w], Conn(turn[w]))
  /\ UNCHANGED <<queue, fdOf, clients, unread, reply, site, turn, client_sock,
                 received_data, target, file, alive>>

HandleClient(w) ==
  \/ Receive(w) \/ ReceiveFails(w) \/ SendFails(w)
  \/ BadRequest(w) \/ NotFoundRequest(w)
  \/ CheckIndex(w) \/ CheckDir(w) \/ CheckPage(w) \/ CheckFails(w)
  \/ OkayPage(w) \/ OpenFile(w) \/ OpenFailed(w) \/ CloseEarly(w)
  \/ Content(w) \/ OthersRequest(w) \/ CloseFile(w)
  \/ OkayDir(w) \/ OpenDir(w) \/ OpenDirFails(w)
  \/ ListDir(w) \/ ListDirFails(w) \/ SendListing(w)
  \/ Close(w)

Next ==
  \/ AcceptConn \/ AcceptFails
  \/ \E w \in Workers : Take(w) \/ HandleClient(w)
  \/ \E c \in Conns : Leave(c)
  \/ \E p \in Paths : Change(p)

Spec == Init /\ [][Next]_vars

\* Clients send their requests and read their replies, so that no recv or send
\* blocks for ever, and every thread that can run is eventually scheduled.
Fairness == \A w \in Workers : WF_vars(Take(w) \/ HandleClient(w))

FairSpec == Spec /\ Fairness

-----------------------------------------------------------------------------
(* Properties.                                                             *)

Parts == [what : {"200", "400", "404", "body", "not its own"}, for : Conns]

Types ==
  /\ accepted \in 0 .. MaxConns
  /\ handed \in Seq(Conns) /\ Len(handed) <= MaxConns
  /\ fdTable \in [Fds -> {Unused} \cup {Conn(c) : c \in Conns}
                       \cup {Opened(w) : w \in Workers}
                       \cup {Listed(w) : w \in Workers}]
  /\ fdOf \in [Conns -> Fds \cup {0}]
  /\ request \in [Conns -> [kind : Kinds \cup {"bad"},
                            sent : Arrivals \cup {"none"}]]
  /\ unread \subseteq Conns /\ left \subseteq Conns
  /\ reply \in [Conns -> Seq(Parts)]
  /\ site \in [Paths -> States]
  /\ pc \in [Workers -> Pcs]
  /\ turn \in [Workers -> Conns \cup {0}]
  /\ client_sock \in [Workers -> Fds \cup {0}]
  /\ received_data \in [Workers -> Kinds \cup {"bad"}]
  /\ target \in [Workers -> {"page", "index"}]
  /\ file \in [Workers -> Fds \cup {0}]
  /\ alive \in BOOLEAN /\ struck \in BOOLEAN

\* A turn given to the socket accepted Depth turns later leaves two kinds of
\* connection behind: one whose slot was overwritten, which no thread ever gets,
\* and the one that overwrote it, which a later turn may hand out again.
Given == {handed[n] : n \in DOMAIN handed}
Lost(c) == /\ c <= Len(handed) /\ handed[c] = c + Depth
           /\ c \notin Given
HandedTwice == \E i, j \in DOMAIN handed : i # j /\ handed[i] = handed[j]

\* Two threads may hold one number: a close has hit a descriptor that was not
\* the closer's, or one socket went to two threads.
Damaged == struck \/ HandedTwice

\* No client receives more than two parts before that, whatever fails.
TypeOK == Types /\ (~Damaged => \A c \in Conns : Len(reply[c]) <= 2)

\* Connections accepted and not handed to a thread, or in a thread's hands.
Waiting == {c \in 1 .. accepted : c > Len(handed)}
InHand(w, c) == pc[w] # "get" /\ turn[w] = c
Closed(c) == \A f \in Fds : fdTable[f] # Conn(c)

\* No path through handleClient forgets a descriptor: whatever fails, and even
\* after a wrong close, every open socket waits for its turn, was overwritten
\* before its turn came, or is in the hands of a thread that is still to close
\* that number; and every open file is in the hands of the thread that opened
\* it (lines 176, 186, 198, 319 and 329).
NothingLeaks ==
  \A f \in Fds :
    /\ \A c \in Conns : fdTable[f] = Conn(c) =>
         \/ c \in Waiting \/ Lost(c)
         \/ \E w \in Workers : InHand(w, c) /\ client_sock[w] = f
    /\ \A w \in Workers : fdTable[f] \in {Opened(w), Listed(w)} => file[w] = f

\* "After this function returns, client_sock will have been closed (i.e. may not be
\* used again)" (line 142). The first close to hit a descriptor that is not the
\* closer's own is the second one of a client that was announced a page, which
\* then could not be opened (lines 319 and 198): no other path closes a number
\* twice, or one that it has given up.
FirstWrongClose ==
  [][~Damaged /\ struck' =>
       \E w \in Workers :
         LET c == turn[w]
         IN  /\ pc[w] = "closeAgain" /\ pc'[w] = "get"
             /\ c \notin left =>
                  reply[c] = <<[what |-> "200", for |-> c],
                               [what |-> "404", for |-> c]>>]_vars

\* The process ends only when it may open no more descriptors, when a thread
\* talks to a client that has gone, when stat fails on the path a thread asks
\* about or the directory it announced cannot be opened, or after a wrong close:
\* never because a thread talks on a socket it has closed itself.  One client that
\* leaves can do it, for all that the server is to "sit around forever accepting
\* new connections" (line 412).
EndsForCause ==
  ~alive =>
    \/ FreeFds = {} \/ Damaged
    \/ \E w \in Workers :
         \/ pc[w] \in Sending \cup {"recv"} /\ turn[w] \in left
         \/ pc[w] \in Checking /\ site[Checked(w)] = "nostat"
         \/ pc[w] = "list" /\ site["dir"] # "readable"


-----------------------------------------------------------------------------
\* What clients may rely on.
Http == INSTANCE HttpService
          WITH closed <- {c \in 1 .. accepted : Closed(c)}, broken <- Damaged

\* As long as no two threads hold one number, each client receives one
\* appropriate reply, whole, and then the close ("sends back the appropriate
\* response", lines 139-140).
HttpSpec == Http!Spec
=============================================================================
