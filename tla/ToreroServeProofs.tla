--------------------------- MODULE ToreroServeProofs ---------------------------
(***************************************************************************)
(* ToreroServe for any number of threads, connections and descriptors, any *)
(* tree and any way of its changing, and whatever clients send or when     *)
(* they leave: no descriptor is forgotten, the process ends only for the   *)
(* causes named, the first wrong close is the second one of a page that    *)
(* could not be opened, and until then every client is given its own       *)
(* reply and then the close.                                               *)
(***************************************************************************)
EXTENDS ToreroServe, SequenceTheorems, WellFoundedInduction, TLAPS

-----------------------------------------------------------------------------
(* Descriptors.                                                            *)

\* What a descriptor may stand for are different things.
LEMMA ItemFacts ==
  /\ \A c, w : Conn(c) # Unused /\ Opened(w) # Unused /\ Listed(w) # Unused
  /\ \A c, w : Conn(c) # Opened(w) /\ Conn(c) # Listed(w)
  /\ \A v, w : Opened(v) # Listed(w)
  /\ \A c, d : Conn(c) = Conn(d) => c = d
  /\ \A v, w : Opened(v) = Opened(w) \/ Listed(v) = Listed(w) => v = w
  /\ \A w : Opened(w).what = "file" /\ Listed(w).what = "dir"
<1>1. \A c, w : /\ Conn(c).what = "conn" /\ Opened(w).what = "file"
                /\ Listed(w).what = "dir" /\ Unused.what = "nothing"
                /\ Conn(c).of = c /\ Opened(w).of = w /\ Listed(w).of = w
  BY DEF Conn, Opened, Listed, Unused
<1>2. QED
  BY <1>1

LEMMA Lowest ==
  ASSUME FreeFds # {}
  PROVE  LowestFree \in Fds /\ fdTable[LowestFree] = Unused
<1> DEFINE R == OpToRel(<, Nat)
<1>1. FreeFds \subseteq Nat
  BY SizeAssumption DEF FreeFds, Fds
<1>2. IsWellFoundedOn(R, Nat)
  BY NatLessThanWellFounded
<1>3. \A a, b \in Nat : <<a, b>> \in R <=> a < b
  BY DEF OpToRel
<1> HIDE DEF R
<1>4. PICK x \in FreeFds : \A y \in FreeFds : ~(<<y, x>> \in R)
  BY <1>1, <1>2, WFMin
<1>5. ASSUME NEW y \in FreeFds PROVE x <= y
  <2>1. x \in Nat /\ y \in Nat
    BY <1>1
  <2>2. ~(y < x)
    BY <1>3, <1>4, <2>1
  <2>3. QED
    BY <2>1, <2>2
<1>6. LowestFree \in FreeFds
  BY <1>5 DEF LowestFree
<1>7. QED
  BY <1>6 DEF FreeFds

-----------------------------------------------------------------------------
(* The inductive invariants.                                               *)

\* Whatever happens: threads with a connection in hand were given it, and a turn
\* gives its own socket or the one accepted Depth turns later.
TypesInv ==
  /\ Types
  /\ Len(handed) <= accepted
  /\ \A n \in DOMAIN handed : handed[n] \in {n, n + Depth} /\ handed[n] <= accepted
  /\ \A w \in Workers : pc[w] # "get" => turn[w] \in Given

\* Where a thread has something open besides its socket.
WithFile == {"content", "closeFile", "listed"}

\* Every descriptor of a connection is the one accept() returned for it and is
\* not handed out yet or in the hands of a thread; files belong to the thread
\* that knows their number.
DescriptorInv ==
  /\ \A f \in Fds, c \in Conns : fdTable[f] = Conn(c) =>
       /\ c <= accepted /\ fdOf[c] = f
       /\ c \notin Given \/ \E w \in Workers : InHand(w, c) /\ client_sock[w] = f
  /\ \A f \in Fds, w \in Workers : fdTable[f] \in {Opened(w), Listed(w)} => file[w] = f
  /\ \A w \in Workers : pc[w] \notin WithFile => file[w] = 0

\* As long as no two threads hold one number, a connection is in one pair of
\* hands from its turn to its close, with the descriptor accept() returned for it.
Holds(w) ==
  /\ fdOf[turn[w]] \in Fds /\ client_sock[w] = fdOf[turn[w]]
  /\ pc[w] # "closeAgain" => fdTable[client_sock[w]] = Conn(turn[w])

HandsInv ==
  /\ \A c \in Conns : c <= accepted /\ c \notin Given =>
       fdOf[c] \in Fds /\ fdTable[fdOf[c]] = Conn(c)
  /\ \A w \in Workers : pc[w] # "get" => Holds(w)
  /\ \A v, w \in Workers :
       v # w /\ pc[v] # "get" /\ pc[w] # "get" => turn[v] # turn[w]

\* A file that is read or listed is the thread's own.
FilesOf(w) ==
  /\ pc[w] \in {"content", "closeFile"} =>
       file[w] \in Fds /\ fdTable[file[w]] = Opened(w)
  /\ pc[w] = "listed" => file[w] \in Fds /\ fdTable[file[w]] = Listed(w)

FilesInv == \A w \in Workers : FilesOf(w)

\* How much of the answer a thread's client has received, and what it is taken to
\* have asked.
Part(what, c) == [what |-> what, for |-> c]
Got(w)        == reply[turn[w]]
Pages         == {"page", "dir", "noname"}

\* The whole replies to each kind of request.
Complete(kind, c) ==
  IF kind = "bad" THEN {<<Part("400", c)>>}
  ELSE IF kind = "favicon" THEN {<<>>}
  ELSE {<<Part("200", c), Part("body", c)>>, <<Part("404", c)>>,
        <<Part("200", c), Part("404", c)>>}

Unanswered == {"recv", "bad", "checkIndex", "checkDir", "checkPage", "notFound",
               "okPage", "okDir"}
Announced  == {"open", "content", "list", "listed", "listing", "openFailed"}

RepliesOf(w) ==
  /\ turn[w] \notin left =>
       /\ pc[w] \in Unanswered => Got(w) = <<>>
       /\ pc[w] \in Announced  => Got(w) = <<Part("200", turn[w])>>
       /\ pc[w] \in {"closeEarly", "closeAgain"} =>
            Got(w) = <<Part("200", turn[w]), Part("404", turn[w])>>
       /\ pc[w] \in {"close", "closeFile"} =>
            Got(w) \in Complete(received_data[w], turn[w])
  /\ pc[w] = "recv" => turn[w] \in unread
  /\ pc[w] = "bad" => received_data[w] = "bad"
  /\ pc[w] \notin {"get", "recv", "bad", "close"} => received_data[w] \in Pages
  /\ pc[w] \notin {"get", "recv"} => received_data[w] \in Http!Heard(turn[w])
  /\ received_data[w] \in {"bad"} \cup
       {request[d].kind : d \in {e \in 1 .. accepted : Http!Whole(e)}}

RepliesInv ==
  /\ \A c \in Conns : c \notin Given => reply[c] = <<>>
  /\ \A c \in Conns : c <= accepted /\ c \notin Given => c \in unread
  /\ \A c \in Conns : Len(reply[c]) <= 2
  /\ \A w \in Workers : RepliesOf(w)

Clean == HandsInv /\ FilesInv /\ RepliesInv

\* Nothing is out of place until two threads hold one number.
SafeInv == TypesInv /\ DescriptorInv /\ (~Damaged => Clean)

-----------------------------------------------------------------------------
(* Types, in every run.                                                    *)

Item == {Unused} \cup {Conn(c) : c \in Conns} \cup {Opened(w) : w \in Workers}
        \cup {Listed(w) : w \in Workers}

LEMMA InitTypes == Init => TypesInv
<1>1. SUFFICES ASSUME Init PROVE TypesInv
  OBVIOUS
<1>2. accepted = 0 /\ handed = <<>> /\ accepted \in 0 .. MaxConns
  BY <1>1, SizeAssumption DEF Init, Queue!Init
<1>3. handed \in Seq(Conns) /\ Len(handed) = 0 /\ Len(handed) <= MaxConns
  BY <1>2, SizeAssumption, EmptySeq
<1>4. reply \in [Conns -> Seq(Parts)]
  <2>1. <<>> \in Seq(Parts)
    BY EmptySeq
  <2>2. QED
    BY <1>1, <2>1 DEF Init
<1>5. site \in [Paths -> States]
  BY <1>1, SiteAssumption DEF Init
<1>6. /\ fdTable \in [Fds -> Item] /\ fdOf \in [Conns -> Fds \cup {0}]
      /\ request \in [Conns -> [kind : Kinds \cup {"bad"}, sent : Arrivals \cup {"none"}]]
      /\ unread \subseteq Conns /\ left \subseteq Conns
  BY <1>1 DEF Init, Item
<1>7. /\ pc \in [Workers -> Pcs] /\ turn \in [Workers -> Conns \cup {0}]
      /\ client_sock \in [Workers -> Fds \cup {0}]
      /\ received_data \in [Workers -> Kinds \cup {"bad"}]
      /\ target \in [Workers -> {"page", "index"}]
      /\ file \in [Workers -> Fds \cup {0}] /\ alive \in BOOLEAN /\ struck \in BOOLEAN
      /\ \A w \in Workers : pc[w] = "get"
  BY <1>1 DEF Init, Pcs
<1>8. Len(handed) <= accepted
  BY <1>2, <1>3
<1>9. Types
  BY <1>2, <1>3, <1>4, <1>5, <1>6, <1>7 DEF Types, Item
<1>10. \A n \in DOMAIN handed : handed[n] \in {n, n + Depth} /\ handed[n] <= accepted
  BY <1>2
<1>11. QED
  BY <1>7, <1>8, <1>9, <1>10 DEF TypesInv

\* The hand-off in numbers.
LEMMA QueueFacts ==
  ASSUME TypesInv
  PROVE  /\ accepted \in Nat /\ MaxConns \in Nat /\ Depth \in Nat \ {0}
         /\ handed \in Seq(Conns) /\ Len(handed) \in Nat /\ Len(handed) <= accepted
         /\ DOMAIN handed = 1 .. Len(handed)
         /\ Conns \subseteq Nat /\ Given \subseteq Conns
         /\ \A c \in Given : c <= accepted
         /\ \A w \in Workers : pc[w] # "get" => turn[w] \in Conns /\ turn[w] <= accepted
<1>1. /\ accepted \in Nat /\ MaxConns \in Nat /\ Depth \in Nat \ {0}
      /\ handed \in Seq(Conns) /\ Conns \subseteq Nat
  BY SizeAssumption DEF TypesInv, Types, Conns
<1>2. Len(handed) \in Nat /\ DOMAIN handed = 1 .. Len(handed)
  BY <1>1, LenProperties
<1>3. Given \subseteq Conns
  BY <1>1, <1>2 DEF Given
<1>4. \A c \in Given : c <= accepted
  BY DEF Given, TypesInv
<1>5. QED
  BY <1>1, <1>2, <1>3, <1>4 DEF TypesInv

\* The steps of a thread that leave the hand-off, the clients and the tree alone.
LEMMA TypesBy ==
  ASSUME TypesInv,
         UNCHANGED <<queue, fdOf, clients, site, turn, client_sock, alive>>,
         NEW w \in Workers, NEW to \in Pcs,
         pc[w] # "get", pc' = [pc EXCEPT ![w] = to],
         fdTable' \in [Fds -> Item], file' \in [Workers -> Fds \cup {0}],
         unread' \subseteq Conns, reply' \in [Conns -> Seq(Parts)],
         received_data' \in [Workers -> Kinds \cup {"bad"}],
         target' \in [Workers -> {"page", "index"}], struck' \in BOOLEAN
  PROVE  TypesInv'
<1>1. /\ pc' \in [Workers -> Pcs]
      /\ \A v \in Workers : pc'[v] # "get" => pc[v] # "get"
  BY DEF TypesInv, Types
<1>2. Types'
  BY <1>1 DEF TypesInv, Types, queue, clients, Item
<1>3. QED
  BY <1>1, <1>2 DEF TypesInv, queue, Given

\* Nothing happens but to a client, to the tree, or to the process.
LEMMA TypesKept ==
  ASSUME TypesInv,
         UNCHANGED <<queue, fdTable, fdOf, request, reply, locals>>,
         unread' \subseteq Conns, left' \subseteq Conns,
         site' \in [Paths -> States], alive' \in BOOLEAN, struck' \in BOOLEAN
  PROVE  TypesInv'
<1>1. UNCHANGED <<accepted, handed, fdTable, fdOf, request, reply, pc, turn,
                  client_sock, received_data, target, file>>
  BY DEF queue, locals
<1>2. Types'
  BY <1>1 DEF TypesInv, Types
<1>3. Given' = Given
  BY <1>1 DEF Given
<1>4. QED
  BY <1>1, <1>2, <1>3 DEF TypesInv

LEMMA CloseTypes ==
  ASSUME TypesInv, NEW f, NEW own, CloseFd(f, own)
  PROVE  /\ fdTable' \in [Fds -> Item] /\ struck' \in BOOLEAN
         /\ \A g \in Fds : fdTable'[g] = IF g = f THEN Unused ELSE fdTable[g]
BY DEF TypesInv, Types, CloseFd, Item

LEMMA OpenTypes ==
  ASSUME TypesInv, NEW w \in Workers, NEW it \in Item, FreeFds # {}, OpenLowest(w, it)
  PROVE  fdTable' \in [Fds -> Item] /\ file' \in [Workers -> Fds \cup {0}]
<1>1. LowestFree \in Fds
  BY Lowest
<1>2. QED
  BY <1>1 DEF TypesInv, Types, OpenLowest, Item

LEMMA SendTypes ==
  ASSUME TypesInv, NEW w \in Workers, NEW from \in Pcs \ {"get"}, NEW to \in Pcs,
         NEW what \in {"200", "400", "404", "body", "not its own"},
         Send(w, from, what, to)
  PROVE  TypesInv'
<1>1. pc[w] # "get" /\ turn[w] \in Conns /\ pc' = [pc EXCEPT ![w] = to]
  BY QueueFacts DEF Send, Goto
<1>2. [what |-> what, for |-> turn[w]] \in Parts
  BY <1>1 DEF Parts
<1>3. reply' \in [Conns -> Seq(Parts)]
  <2>1. reply \in [Conns -> Seq(Parts)]
    BY DEF TypesInv, Types
  <2>2. PICK c \in Conns : reply' = IF c \in left THEN reply
                   ELSE [reply EXCEPT ![c] =
                           Append(@, [what |-> what, for |-> turn[w]])]
    BY DEF Send
  <2>3. Append(reply[c], [what |-> what, for |-> turn[w]]) \in Seq(Parts)
    BY <1>2, <2>1, AppendProperties
  <2>4. QED
    BY <2>1, <2>2, <2>3
<1>4. QED
  BY <1>1, <1>3, TypesBy DEF Send, TypesInv, Types, Item

\* What is parsed is one of the request lines, and where it leads.
LEMMA ParseFacts ==
  ASSUME TypesInv, NEW w \in Workers, Receive(w)
  PROVE  \E c \in Conns : \E line \in Kinds \cup {"bad"} : \E next \in Pcs :
           /\ Peer(w) = Conn(c) /\ unread' = unread \ {c}
           /\ line \in IF c \in unread THEN Line(w, request[c].sent, request[c].kind)
                                       ELSE {received_data[w]}
           /\ line \in {"bad", "favicon", "page", "dir", "noname"}
           /\ next \in Route(line) \cap {"bad", "close", "checkIndex", "checkPage",
                                        "notFound", "checkDir"}
           /\ pc[w] = "recv" /\ pc' = [pc EXCEPT ![w] = next]
           /\ received_data' = [received_data EXCEPT ![w] = line]
<1>1. PICK c \in Conns : /\ Peer(w) = Conn(c) /\ unread' = unread \ {c}
                         /\ Parse(w, IF c \in unread
                                       THEN Line(w, request[c].sent, request[c].kind)
                                       ELSE {received_data[w]})
  BY DEF Receive
<1>2. received_data[w] \in Kinds \cup {"bad"} /\ request[c].kind \in Kinds \cup {"bad"}
      /\ request[c].sent \in {"whole", "part", "none"}
  BY RequestAssumption DEF TypesInv, Types
<1>3. Line(w, request[c].sent, request[c].kind) \subseteq Kinds \cup {"bad"}
  BY <1>2 DEF Line
<1> DEFINE lines == IF c \in unread THEN Line(w, request[c].sent, request[c].kind)
                                    ELSE {received_data[w]}
<1>4. lines \subseteq Kinds \cup {"bad"} /\ Parse(w, lines)
  BY <1>1, <1>2, <1>3
<1> HIDE DEF lines
<1>5. PICK line \in lines : \E next \in Route(line) :
        /\ Goto(w, "recv", next)
        /\ received_data' = [received_data EXCEPT ![w] = line]
  BY <1>4 DEF Parse
<1>6. line \in Kinds \cup {"bad"} /\ line \in {"bad", "favicon", "page", "dir", "noname"}
  BY <1>4, RequestAssumption
<1>7. Route(line) \subseteq {"bad", "close", "checkIndex", "checkPage", "notFound", "checkDir"}
  BY <1>6 DEF Route
<1>8. PICK next \in Route(line) : /\ pc[w] = "recv" /\ pc' = [pc EXCEPT ![w] = next]
                                 /\ received_data' = [received_data EXCEPT ![w] = line]
  BY <1>5 DEF Goto
<1>9. next \in {"bad", "close", "checkIndex", "checkPage", "notFound", "checkDir"}
  BY <1>7
<1>10. next \in Pcs
  BY <1>9 DEF Pcs
<1>11. QED
  BY <1>1, <1>5, <1>6, <1>8, <1>9, <1>10 DEF lines

\* A thread takes a socket: its turn's own, or the one Depth turns later.
LEMMA TakeFacts ==
  ASSUME TypesInv, NEW w \in Workers, Take(w)
  PROVE  \E s \in Conns :
           /\ s \in {Len(handed) + 1, Len(handed) + 1 + Depth} /\ s <= accepted
           /\ handed' = Append(handed, s) /\ accepted' = accepted
           /\ Len(handed') = Len(handed) + 1 /\ DOMAIN handed' = 1 .. Len(handed) + 1
           /\ handed' \in Seq(Conns)
           /\ \A n \in DOMAIN handed : n \in DOMAIN handed' /\ handed'[n] = handed[n]
           /\ handed'[Len(handed) + 1] = s
           /\ Given' = Given \cup {s}
           /\ pc[w] = "get" /\ pc' = [pc EXCEPT ![w] = "recv"]
           /\ turn' = [turn EXCEPT ![w] = s]
           /\ client_sock' = [client_sock EXCEPT ![w] = fdOf[s]]
<1>1. PICK s \in {Len(handed) + 1, Len(handed) + 1 + Depth} :
        s <= accepted /\ handed' = Append(handed, s) /\ accepted' = accepted
  BY DEF Take, Queue!Take
<1>2. s \in Conns
  <2>1. accepted <= MaxConns
    BY QueueFacts DEF TypesInv, Types
  <2>2. QED
    BY <1>1, <2>1, QueueFacts DEF Conns
<1>3. /\ handed' \in Seq(Conns) /\ Len(handed') = Len(handed) + 1
      /\ handed'[Len(handed) + 1] = s
      /\ \A i \in 1 .. Len(handed) : handed'[i] = handed[i]
  BY <1>1, <1>2, QueueFacts, AppendProperties
<1>4. /\ DOMAIN handed = 1 .. Len(handed) /\ DOMAIN handed' = 1 .. Len(handed) + 1
      /\ \A i \in 1 .. Len(handed) : i \in 1 .. Len(handed) + 1
      /\ \A i \in 1 .. Len(handed) + 1 : i \in 1 .. Len(handed) \/ i = Len(handed) + 1
      /\ Len(handed) + 1 \in 1 .. Len(handed) + 1
  <2>1. Len(handed) \in Nat /\ DOMAIN handed = 1 .. Len(handed)
    BY QueueFacts
  <2>2. DOMAIN handed' = 1 .. Len(handed')
    BY <1>3, LenProperties
  <2>3. QED
    BY <1>3, <2>1, <2>2
<1>5. Given' = Given \cup {s}
  BY <1>3, <1>4 DEF Given
<1>6. Last(handed') = s
  BY <1>3 DEF Last
<1>7. QED
  BY <1>1, <1>2, <1>3, <1>4, <1>5, <1>6 DEF Take, Goto

LEMMA TypesStep ==
  ASSUME TypesInv, [Next]_vars
  PROVE  TypesInv'
<1>1. CASE AcceptConn
  <2>1. /\ accepted \in Nat /\ MaxConns \in Nat /\ accepted < MaxConns
        /\ accepted' = accepted + 1 /\ handed' = handed /\ accepted' \in Conns
    BY <1>1, SizeAssumption DEF AcceptConn, Queue!Accept, TypesInv, Types, Conns
  <2>2. LowestFree \in Fds
    BY <1>1, Lowest DEF AcceptConn
  <2>3. /\ fdTable' \in [Fds -> Item] /\ fdOf' \in [Conns -> Fds \cup {0}]
        /\ unread' \subseteq Conns
    BY <1>1, <2>1, <2>2 DEF AcceptConn, TypesInv, Types, Item
  <2>4. request' \in [Conns -> [kind : Kinds \cup {"bad"}, sent : Arrivals \cup {"none"}]]
    BY <1>1, <2>1 DEF AcceptConn, Request, TypesInv, Types
  <2>5. accepted' \in 0 .. MaxConns
    BY <2>1
  <2>6. Types'
    BY <1>1, <2>1, <2>3, <2>4, <2>5 DEF AcceptConn, TypesInv, Types, Item, locals
  <2>7. Len(handed') <= accepted' /\ \A n \in DOMAIN handed : handed[n] <= accepted'
    BY <2>1, QueueFacts DEF TypesInv, Given
  <2>8. UNCHANGED <<pc, turn, Given>>
    BY <1>1, <2>1 DEF AcceptConn, locals, Given
  <2>9. QED
    BY <2>1, <2>6, <2>7, <2>8 DEF TypesInv
<1>2. CASE alive' = FALSE /\ UNCHANGED <<queue, fdTable, fdOf, request, unread, left,
                                          reply, site, locals, struck>>
  BY <1>2, TypesKept DEF TypesInv, Types
<1>3. ASSUME NEW w \in Workers, Take(w) PROVE TypesInv'
  <2>1. PICK s \in Conns :
           /\ s \in {Len(handed) + 1, Len(handed) + 1 + Depth} /\ s <= accepted
           /\ accepted' = accepted
           /\ Len(handed') = Len(handed) + 1 /\ DOMAIN handed' = 1 .. Len(handed) + 1
           /\ handed' \in Seq(Conns)
           /\ \A n \in DOMAIN handed : n \in DOMAIN handed' /\ handed'[n] = handed[n]
           /\ handed'[Len(handed) + 1] = s
           /\ Given' = Given \cup {s}
           /\ pc[w] = "get" /\ pc' = [pc EXCEPT ![w] = "recv"]
           /\ turn' = [turn EXCEPT ![w] = s]
           /\ client_sock' = [client_sock EXCEPT ![w] = fdOf[s]]
    BY <1>3, TakeFacts
  <2>2. /\ Len(handed) \in Nat /\ accepted \in 0 .. MaxConns /\ Depth \in Nat /\ MaxConns \in Nat
        /\ DOMAIN handed = 1 .. Len(handed)
    BY QueueFacts DEF TypesInv, Types
  <2>3. /\ turn' \in [Workers -> Conns \cup {0}] /\ client_sock' \in [Workers -> Fds \cup {0}]
        /\ pc' \in [Workers -> Pcs]
    BY <2>1 DEF TypesInv, Types, Pcs
  <2>4. Len(handed') <= MaxConns /\ Len(handed') <= accepted
    BY <2>1, <2>2
  <2>5. Types'
    BY <1>3, <2>1, <2>3, <2>4 DEF Take, TypesInv, Types, clients
  <2>6. \A v \in Workers : pc'[v] # "get" => turn'[v] \in Given'
    BY <2>1 DEF TypesInv, Types
  <2>7. ASSUME NEW n \in DOMAIN handed'
        PROVE  handed'[n] \in {n, n + Depth} /\ handed'[n] <= accepted
    <3>1. n \in DOMAIN handed \/ n = Len(handed) + 1
      BY <2>1, <2>2
    <3>2. QED
      BY <2>1, <3>1 DEF TypesInv
  <2>8. QED
    BY <2>1, <2>4, <2>5, <2>6, <2>7 DEF TypesInv
<1>4. ASSUME NEW w \in Workers, Receive(w) PROVE TypesInv'
  <2>1. PICK line \in Kinds \cup {"bad"}, next \in Pcs :
          /\ pc[w] = "recv" /\ pc' = [pc EXCEPT ![w] = next]
          /\ received_data' = [received_data EXCEPT ![w] = line]
    BY <1>4, ParseFacts
  <2>2. /\ received_data' \in [Workers -> Kinds \cup {"bad"}]
        /\ target' \in [Workers -> {"page", "index"}]
        /\ unread' \subseteq Conns
    BY <1>4, <2>1 DEF Receive, TypesInv, Types
  <2>3. QED
    BY <1>4, <2>1, <2>2, TypesBy DEF Receive, TypesInv, Types, Item
<1>5. ASSUME NEW w \in Workers,
             BadRequest(w) \/ NotFoundRequest(w) \/ OkayPage(w) \/ OkayDir(w)
               \/ OpenFailed(w) \/ SendListing(w)
      PROVE  TypesInv'
  BY <1>5, SendTypes DEF BadRequest, NotFoundRequest, OkayPage, OkayDir, OpenFailed,
                         SendListing, Pcs
<1>6. ASSUME NEW w \in Workers, Content(w) PROVE TypesInv'
  BY <1>6, SendTypes DEF Content, Pcs
<1>7. ASSUME NEW w \in Workers, CheckIndex(w) \/ CheckDir(w) \/ CheckPage(w)
      PROVE  TypesInv'
  <2>1. /\ pc[w] # "get" /\ \E to \in Pcs : pc' = [pc EXCEPT ![w] = to]
        /\ target' \in [Workers -> {"page", "index"}]
    BY <1>7 DEF CheckIndex, CheckDir, CheckPage, Goto, Pcs, TypesInv, Types
  <2>2. Look(w)
    BY <1>7 DEF CheckIndex, CheckDir, CheckPage
  <2>3. /\ fdTable' \in [Fds -> Item] /\ file' \in [Workers -> Fds \cup {0}]
        /\ unread' \subseteq Conns /\ reply' \in [Conns -> Seq(Parts)]
        /\ received_data' \in [Workers -> Kinds \cup {"bad"}] /\ struck' \in BOOLEAN
    BY <2>2 DEF Look, TypesInv, Types, Item
  <2>4. UNCHANGED <<queue, fdOf, clients, site, turn, client_sock, alive>>
    BY <2>2 DEF Look
  <2>5. QED
    BY <2>1, <2>3, <2>4, TypesBy
<1>8. ASSUME NEW w \in Workers, OpenFile(w) \/ OpenDir(w) PROVE TypesInv'
  <2>1. pc[w] # "get" /\ \E to \in Pcs : pc' = [pc EXCEPT ![w] = to]
    BY <1>8 DEF OpenFile, OpenDir, Goto, Pcs
  <2>2. Opened(w) \in Item /\ Listed(w) \in Item
    BY DEF Item
  <2>3. fdTable' \in [Fds -> Item] /\ file' \in [Workers -> Fds \cup {0}]
    <3>1. CASE FreeFds # {} /\ (OpenLowest(w, Opened(w)) \/ OpenLowest(w, Listed(w)))
      BY <2>2, <3>1, OpenTypes
    <3>2. CASE UNCHANGED <<fdTable, file>>
      BY <3>2 DEF TypesInv, Types, Item
    <3>3. QED
      BY <1>8, <3>1, <3>2 DEF OpenFile, OpenDir, CanOpen
  <2>4. QED
    BY <1>8, <2>1, <2>3, TypesBy DEF OpenFile, OpenDir, TypesInv, Types
<1>9. ASSUME NEW w \in Workers, CloseEarly(w) \/ CloseFile(w) \/ ListDir(w) \/ Close(w)
      PROVE  TypesInv'
  <2>1. pc[w] # "get" /\ \E to \in Pcs : pc' = [pc EXCEPT ![w] = to]
    BY <1>9 DEF CloseEarly, CloseFile, ListDir, Close, Goto, Pcs
  <2>2. fdTable' \in [Fds -> Item] /\ struck' \in BOOLEAN
    BY <1>9, CloseTypes DEF CloseEarly, CloseFile, ListDir, Close
  <2>3. file' \in [Workers -> Fds \cup {0}]
    BY <1>9 DEF CloseEarly, CloseFile, ListDir, Close, TypesInv, Types
  <2>4. QED
    BY <1>9, <2>1, <2>2, <2>3, TypesBy
       DEF CloseEarly, CloseFile, ListDir, Close, TypesInv, Types
<1>10. ASSUME NEW c \in Conns, Leave(c) PROVE TypesInv'
  <2>1. /\ left' \subseteq Conns
        /\ UNCHANGED <<queue, fdTable, fdOf, request, unread, reply, site, locals,
                       alive, struck>>
    BY <1>10 DEF Leave, TypesInv, Types
  <2>2. QED
    BY <2>1, TypesKept DEF TypesInv, Types
<1>11. ASSUME NEW p \in Paths, Change(p) PROVE TypesInv'
  <2>1. /\ site' \in [Paths -> States]
        /\ UNCHANGED <<queue, fdTable, fdOf, request, unread, left, reply, locals,
                       alive, struck>>
    BY <1>11, SiteAssumption DEF Change, TypesInv, Types
  <2>2. QED
    BY <2>1, TypesKept DEF TypesInv, Types
<1>12. CASE UNCHANGED vars
  <2>1. UNCHANGED <<queue, fdTable, fdOf, request, unread, left, reply, site, locals,
                    alive, struck>>
    BY <1>12 DEF vars
  <2>2. QED
    BY <2>1, TypesKept DEF TypesInv, Types
<1>13. ASSUME NEW w \in Workers, OthersRequest(w) PROVE TypesInv'
  <2>1. /\ unread' \subseteq Conns
        /\ UNCHANGED <<queue, fdTable, fdOf, request, left, reply, site, locals,
                       alive, struck>>
    BY <1>13 DEF OthersRequest, clients, TypesInv, Types
  <2>2. QED
    BY <2>1, TypesKept DEF TypesInv, Types
<1>14. QED
  <2>1. CASE \/ AcceptFails
             \/ \E w \in Workers : \/ ReceiveFails(w) \/ SendFails(w) \/ OpenDirFails(w)
                                   \/ CheckFails(w) \/ ListDirFails(w)
    BY <1>2, <2>1 DEF AcceptFails, ReceiveFails, SendFails, OpenDirFails, CheckFails,
                      ListDirFails, Die
  <2>2. QED
    BY <1>1, <1>3, <1>4, <1>5, <1>6, <1>7, <1>8, <1>9, <1>10, <1>11, <1>12, <1>13, <2>1
       DEF Next, HandleClient

LEMMA TypesAlways == Spec => []TypesInv
<1>1. TypesInv /\ [Next]_vars => TypesInv'
  BY TypesStep
<1>2. QED
  BY InitTypes, <1>1, PTL DEF Spec

\* No run leaves the types of its state behind, whatever fails in it and however
\* its descriptors are reused.
THEOREM TypesCorrect == Spec => []Types
<1>1. TypesInv => Types
  BY DEF TypesInv
<1>2. QED
  BY <1>1, TypesAlways, PTL

-----------------------------------------------------------------------------
(* Descriptors, in every run.                                              *)

LEMMA InitDescriptors == Init => DescriptorInv
<1>1. SUFFICES ASSUME Init PROVE DescriptorInv
  OBVIOUS
<1>2. \A f \in Fds : fdTable[f] = Unused
  BY <1>1 DEF Init
<1>3. \A w \in Workers : file[w] = 0
  BY <1>1 DEF Init
<1>4. QED
  BY <1>2, <1>3, ItemFacts DEF DescriptorInv

\* A thread goes on without opening or closing anything.
LEMMA StayDescriptors ==
  ASSUME TypesInv, DescriptorInv,
         UNCHANGED <<queue, fdTable, fdOf, turn, client_sock, file>>,
         NEW w \in Workers, NEW to, pc' = [pc EXCEPT ![w] = to],
         to # "get", to \notin WithFile => pc[w] \notin WithFile
  PROVE  DescriptorInv'
<1>1. \A v \in Workers : /\ pc[v] # "get" => pc'[v] # "get"
                         /\ pc'[v] \notin WithFile => pc[v] \notin WithFile
  BY DEF TypesInv, Types
<1>2. \A v \in Workers, c \in Conns : InHand(v, c) => InHand(v, c)'
  BY <1>1 DEF InHand
<1>3. QED
  BY <1>1, <1>2 DEF DescriptorInv, queue, Given

\* It closes its socket, or what it takes for it.
LEMMA CloseDescriptors ==
  ASSUME TypesInv, DescriptorInv,
         UNCHANGED <<queue, fdOf, turn, client_sock, file>>,
         NEW w \in Workers, NEW to, pc' = [pc EXCEPT ![w] = to],
         to \notin WithFile, pc[w] \notin WithFile, NEW own,
         CloseFd(client_sock[w], own)
  PROVE  DescriptorInv'
<1>1. \A v \in Workers : v # w => pc'[v] = pc[v]
  BY DEF TypesInv, Types
<1>2. \A v \in Workers, c \in Conns : v # w /\ InHand(v, c) => InHand(v, c)'
  BY <1>1 DEF InHand
<1>3. \A f \in Fds : fdTable'[f] = IF f = client_sock[w] THEN Unused ELSE fdTable[f]
  BY CloseTypes
<1>4. ASSUME NEW f \in Fds, NEW c \in Conns, fdTable'[f] = Conn(c)
      PROVE  /\ c <= accepted /\ fdOf[c] = f
             /\ c \notin Given \/ \E v \in Workers : InHand(v, c)' /\ client_sock[v] = f
  <2>1. fdTable[f] = Conn(c) /\ f # client_sock[w]
    BY <1>3, <1>4, ItemFacts
  <2>2. QED
    BY <1>2, <2>1 DEF DescriptorInv
<1>5. ASSUME NEW f \in Fds, NEW v \in Workers, fdTable'[f] \in {Opened(v), Listed(v)}
      PROVE  file[v] = f
  BY <1>3, <1>5, ItemFacts DEF DescriptorInv
<1>6. \A v \in Workers : file[v] = 0 \/ pc'[v] \in WithFile
  BY <1>1 DEF DescriptorInv
<1>7. QED
  BY <1>4, <1>5, <1>6 DEF DescriptorInv, queue, Given

\* It opens a file or a directory.
LEMMA OpenDescriptors ==
  ASSUME TypesInv, DescriptorInv,
         UNCHANGED <<queue, fdOf, turn, client_sock>>,
         NEW w \in Workers, NEW to \in WithFile, pc' = [pc EXCEPT ![w] = to],
         pc[w] \notin WithFile, pc[w] # "get",
         FreeFds # {}, NEW it \in {Opened(w), Listed(w)}, OpenLowest(w, it)
  PROVE  DescriptorInv'
<1>1. /\ \A v \in Workers : v # w => pc'[v] = pc[v] /\ file'[v] = file[v]
      /\ pc'[w] = to /\ file'[w] = LowestFree
  BY DEF TypesInv, Types, OpenLowest
<1>2. \A v \in Workers, c \in Conns : InHand(v, c) => InHand(v, c)'
  BY <1>1 DEF InHand, WithFile
<1>3. /\ LowestFree \in Fds /\ fdTable[LowestFree] = Unused
      /\ \A f \in Fds : fdTable'[f] = IF f = LowestFree THEN it ELSE fdTable[f]
  BY Lowest DEF OpenLowest, TypesInv, Types
<1>4. ASSUME NEW f \in Fds, NEW c \in Conns, fdTable'[f] = Conn(c)
      PROVE  /\ c <= accepted /\ fdOf[c] = f
             /\ c \notin Given \/ \E v \in Workers : InHand(v, c)' /\ client_sock[v] = f
  <2>1. fdTable[f] = Conn(c)
    BY <1>3, <1>4, ItemFacts
  <2>2. QED
    BY <1>2, <2>1 DEF DescriptorInv
<1>5. ASSUME NEW f \in Fds, NEW v \in Workers, fdTable'[f] \in {Opened(v), Listed(v)}
      PROVE  file'[v] = f
  <2>1. CASE f = LowestFree
    BY <1>1, <1>3, <1>5, <2>1, ItemFacts
  <2>2. CASE f # LowestFree
    <3>1. file[v] = f
      BY <1>3, <1>5, <2>2 DEF DescriptorInv
    <3>2. v # w
      BY <3>1, SizeAssumption DEF DescriptorInv, Fds
    <3>3. QED
      BY <1>1, <3>1, <3>2
  <2>3. QED
    BY <2>1, <2>2
<1>6. \A v \in Workers : file'[v] = 0 \/ pc'[v] \in WithFile
  BY <1>1 DEF DescriptorInv
<1>7. QED
  BY <1>4, <1>5, <1>6 DEF DescriptorInv, queue, Given

\* It closes its file or directory, or what it takes for it.
LEMMA DoneDescriptors ==
  ASSUME TypesInv, DescriptorInv, NEW w \in Workers, CloseFile(w) \/ ListDir(w)
  PROVE  DescriptorInv'
<1>1. PICK to \in {"close", "listing"} : pc' = [pc EXCEPT ![w] = to]
  BY DEF CloseFile, ListDir, Goto
<1>2. /\ UNCHANGED <<queue, fdOf, turn, client_sock>>
      /\ \A v \in Workers : v # w => pc'[v] = pc[v] /\ file'[v] = file[v]
      /\ pc'[w] = to /\ file'[w] = 0 /\ pc[w] # "get"
  BY <1>1 DEF CloseFile, ListDir, Goto, TypesInv, Types
<1>3. \A v \in Workers, c \in Conns : InHand(v, c) => InHand(v, c)'
  BY <1>2 DEF InHand
<1>4. \A f \in Fds : fdTable'[f] = IF f = file[w] THEN Unused ELSE fdTable[f]
  BY CloseTypes DEF CloseFile, ListDir
<1>5. ASSUME NEW f \in Fds, NEW c \in Conns, fdTable'[f] = Conn(c)
      PROVE  /\ c <= accepted /\ fdOf[c] = f
             /\ c \notin Given \/ \E v \in Workers : InHand(v, c)' /\ client_sock[v] = f
  <2>1. fdTable[f] = Conn(c)
    BY <1>4, <1>5, ItemFacts
  <2>2. QED
    BY <1>3, <2>1 DEF DescriptorInv
<1>6. ASSUME NEW f \in Fds, NEW v \in Workers, fdTable'[f] \in {Opened(v), Listed(v)}
      PROVE  file'[v] = f
  <2>1. f # file[w] /\ file[v] = f
    BY <1>4, <1>6, ItemFacts DEF DescriptorInv
  <2>2. QED
    BY <1>2, <2>1
<1>7. \A v \in Workers : file'[v] = 0 \/ pc'[v] \in WithFile
  BY <1>2 DEF DescriptorInv
<1>8. QED
  BY <1>2, <1>5, <1>6, <1>7 DEF DescriptorInv, queue, Given

\* accept() takes a number that stood for nothing.
LEMMA AcceptDescriptors ==
  ASSUME TypesInv, DescriptorInv, AcceptConn
  PROVE  DescriptorInv'
<1>1. /\ accepted \in Nat /\ accepted' = accepted + 1 /\ handed' = handed
      /\ UNCHANGED locals /\ \A c \in Given : c <= accepted
  BY QueueFacts DEF AcceptConn, Queue!Accept
<1>2. /\ LowestFree \in Fds /\ fdTable[LowestFree] = Unused
      /\ \A f \in Fds : fdTable'[f] = IF f = LowestFree THEN Conn(accepted + 1)
                                                       ELSE fdTable[f]
      /\ \A c \in Conns : fdOf'[c] = IF c = accepted + 1 THEN LowestFree ELSE fdOf[c]
  BY <1>1, Lowest DEF AcceptConn, TypesInv, Types
<1>3. ASSUME NEW f \in Fds, NEW c \in Conns, fdTable'[f] = Conn(c)
      PROVE  /\ c <= accepted' /\ fdOf'[c] = f
             /\ c \notin Given \/ \E v \in Workers : InHand(v, c)' /\ client_sock[v] = f
  <2>1. CASE f = LowestFree
    <3>1. c = accepted + 1
      BY <1>2, <1>3, <2>1, ItemFacts
    <3>2. c <= accepted + 1 /\ c \notin Given
      BY <1>1, <3>1
    <3>3. QED
      BY <1>1, <1>2, <2>1, <3>1, <3>2
  <2>2. CASE f # LowestFree
    <3>1. fdTable[f] = Conn(c)
      BY <1>2, <1>3, <2>2
    <3>2. /\ c <= accepted /\ fdOf[c] = f
          /\ c \notin Given \/ \E v \in Workers : InHand(v, c) /\ client_sock[v] = f
      BY <3>1 DEF DescriptorInv
    <3>3. c \in Nat /\ c <= accepted + 1 /\ c # accepted + 1
      BY <1>1, <3>2, SizeAssumption DEF Conns
    <3>4. QED
      BY <1>1, <1>2, <3>2, <3>3 DEF InHand, locals
  <2>3. QED
    BY <2>1, <2>2
<1>4. ASSUME NEW f \in Fds, NEW v \in Workers, fdTable'[f] \in {Opened(v), Listed(v)}
      PROVE  file[v] = f
  BY <1>2, <1>4, ItemFacts DEF DescriptorInv
<1>5. QED
  BY <1>1, <1>3, <1>4 DEF DescriptorInv, locals, Given

\* A thread takes a connection, perhaps one that another thread has taken.
LEMMA TakeDescriptors ==
  ASSUME TypesInv, DescriptorInv, NEW w \in Workers, Take(w)
  PROVE  DescriptorInv'
<1>1. PICK s \in Conns :
         /\ accepted' = accepted /\ Given' = Given \cup {s}
         /\ pc[w] = "get" /\ pc' = [pc EXCEPT ![w] = "recv"]
         /\ turn' = [turn EXCEPT ![w] = s]
         /\ client_sock' = [client_sock EXCEPT ![w] = fdOf[s]]
  BY TakeFacts
<1>2. /\ \A v \in Workers : v # w => /\ pc'[v] = pc[v] /\ turn'[v] = turn[v]
                                     /\ client_sock'[v] = client_sock[v]
      /\ pc'[w] = "recv" /\ turn'[w] = s /\ client_sock'[w] = fdOf[s]
      /\ UNCHANGED <<fdTable, fdOf, file>>
  BY <1>1 DEF Take, TypesInv, Types
<1>3. ASSUME NEW f \in Fds, NEW c \in Conns, fdTable[f] = Conn(c)
      PROVE  c \notin Given' \/ \E v \in Workers : InHand(v, c)' /\ client_sock'[v] = f
  <2>1. /\ fdOf[c] = f
        /\ c \notin Given \/ \E v \in Workers : InHand(v, c) /\ client_sock[v] = f
    BY <1>3 DEF DescriptorInv
  <2>2. CASE c = s
    BY <1>2, <2>1, <2>2 DEF InHand
  <2>3. CASE c # s /\ c \notin Given
    BY <1>1, <2>3
  <2>4. CASE \E v \in Workers : InHand(v, c) /\ client_sock[v] = f
    <3>1. PICK v \in Workers : InHand(v, c) /\ client_sock[v] = f
      BY <2>4
    <3>2. v # w
      BY <1>1, <3>1 DEF InHand
    <3>3. InHand(v, c)' /\ client_sock'[v] = f
      BY <1>2, <3>1, <3>2 DEF InHand
    <3>4. QED
      BY <3>3
  <2>5. QED
    BY <2>1, <2>2, <2>3, <2>4
<1>4. \A v \in Workers : pc'[v] \notin WithFile => pc[v] \notin WithFile
  BY <1>1, <1>2 DEF WithFile
<1>5. \A f \in Fds, c \in Conns : fdTable'[f] = Conn(c) =>
         /\ c <= accepted' /\ fdOf'[c] = f
         /\ c \notin Given' \/ \E v \in Workers : InHand(v, c)' /\ client_sock'[v] = f
  BY <1>1, <1>2, <1>3 DEF DescriptorInv
<1>6. QED
  BY <1>2, <1>4, <1>5 DEF DescriptorInv

LEMMA DescriptorStep ==
  ASSUME TypesInv, DescriptorInv, [Next]_vars
  PROVE  DescriptorInv'
<1>1. CASE \/ AcceptFails
           \/ \E w \in Workers : \/ ReceiveFails(w) \/ SendFails(w) \/ OpenDirFails(w)
                                 \/ CheckFails(w) \/ ListDirFails(w) \/ OthersRequest(w)
           \/ \E c \in Conns : Leave(c)
           \/ \E p \in Paths : Change(p)
           \/ UNCHANGED vars
  <2>1. UNCHANGED <<queue, fdTable, fdOf, locals>>
    BY <1>1 DEF AcceptFails, ReceiveFails, SendFails, OpenDirFails, CheckFails,
                ListDirFails, OthersRequest, Die, Leave, Change, vars
  <2>2. QED
    BY <2>1 DEF DescriptorInv, InHand, queue, locals, Given
<1>2. ASSUME NEW w \in Workers,
             \/ Receive(w) \/ BadRequest(w) \/ NotFoundRequest(w) \/ OkayPage(w)
             \/ OkayDir(w) \/ OpenFailed(w) \/ SendListing(w) \/ Content(w)
             \/ CheckIndex(w) \/ CheckDir(w) \/ CheckPage(w)
      PROVE  DescriptorInv'
  <2>1. UNCHANGED <<queue, fdTable, fdOf, turn, client_sock, file>>
    BY <1>2 DEF Receive, BadRequest, NotFoundRequest, OkayPage, OkayDir, OpenFailed,
                SendListing, Content, Send, CheckIndex, CheckDir, CheckPage, Look
  <2>2. \E to : /\ pc' = [pc EXCEPT ![w] = to] /\ to # "get"
                /\ to \notin WithFile => pc[w] \notin WithFile
    <3>1. CASE Receive(w)
      BY <3>1, ParseFacts DEF WithFile
    <3>2. CASE BadRequest(w) \/ NotFoundRequest(w) \/ OkayPage(w) \/ OkayDir(w)
               \/ OpenFailed(w) \/ SendListing(w) \/ Content(w)
      BY <3>2 DEF BadRequest, NotFoundRequest, OkayPage, OkayDir, OpenFailed,
                  SendListing, Content, Send, Goto, WithFile
    <3>3. CASE CheckIndex(w) \/ CheckDir(w) \/ CheckPage(w)
      BY <3>3 DEF CheckIndex, CheckDir, CheckPage, Goto, WithFile
    <3>4. QED
      BY <1>2, <3>1, <3>2, <3>3
  <2>3. QED
    BY <2>1, <2>2, StayDescriptors
<1>3. ASSUME NEW w \in Workers, CloseEarly(w) \/ Close(w) PROVE DescriptorInv'
  BY <1>3, CloseDescriptors DEF CloseEarly, Close, Goto, WithFile
<1>4. ASSUME NEW w \in Workers, OpenFile(w) \/ OpenDir(w) PROVE DescriptorInv'
  <2>1. UNCHANGED <<queue, fdOf, turn, client_sock>>
    BY <1>4 DEF OpenFile, OpenDir
  <2>2. CASE FreeFds # {} /\ OpenFile(w) /\ OpenLowest(w, Opened(w))
             /\ Goto(w, "open", "content")
    BY <2>1, <2>2, OpenDescriptors DEF Goto, WithFile
  <2>3. CASE OpenDir(w)
    BY <2>1, <2>3, OpenDescriptors DEF OpenDir, CanOpen, Goto, WithFile
  <2>4. CASE Goto(w, "open", "openFailed") /\ UNCHANGED <<file, fdTable>>
    BY <2>1, <2>4, StayDescriptors DEF Goto, WithFile
  <2>5. QED
    BY <1>4, <2>2, <2>3, <2>4 DEF OpenFile, CanOpen
<1>5. QED
  BY <1>1, <1>2, <1>3, <1>4, DoneDescriptors, AcceptDescriptors, TakeDescriptors
     DEF Next, HandleClient

LEMMA DescriptorAlways == Spec => [](TypesInv /\ DescriptorInv)
<1>1. TypesInv /\ DescriptorInv /\ [Next]_vars => DescriptorInv'
  BY DescriptorStep
<1>2. QED
  BY InitDescriptors, TypesAlways, <1>1, PTL DEF Spec

\* Whatever fails, whoever leaves, however often a number is closed and whichever
\* turn is overtaken: every open socket waits for its turn, was overwritten before
\* it, or is in the hands of a thread that is still to close it, and every open
\* file is known to the thread that opened it (torero-serve.cpp:176, 186, 198,
\* 319, 329).
THEOREM NoLeak == Spec => []NothingLeaks
<1>1. ASSUME TypesInv, DescriptorInv PROVE NothingLeaks
  <2>1. ASSUME NEW c \in Conns, c <= accepted, c \notin Given
        PROVE  c \in Waiting \/ Lost(c)
    <3>1. CASE c > Len(handed)
      BY <1>1, <2>1, <3>1, QueueFacts DEF Waiting, Conns
    <3>2. CASE c <= Len(handed)
      <4>1. c \in DOMAIN handed
        BY <1>1, <3>2, QueueFacts DEF Conns
      <4>2. handed[c] \in {c, c + Depth} /\ handed[c] \in Given
        BY <1>1, <4>1 DEF TypesInv, Given
      <4>3. QED
        BY <2>1, <3>2, <4>2 DEF Lost
    <3>3. QED
      BY <1>1, <3>1, <3>2, QueueFacts DEF Conns
  <2>2. QED
    BY <1>1, <2>1 DEF DescriptorInv, NothingLeaks
<1>2. QED
  BY DescriptorAlways, <1>1, PTL

-----------------------------------------------------------------------------
(* What a step of one thread is and leaves to the others.                  *)

Sends(w) ==
  \/ BadRequest(w) \/ NotFoundRequest(w) \/ OkayPage(w) \/ OkayDir(w)
  \/ OpenFailed(w) \/ SendListing(w) \/ Content(w)
Looks(w)  == CheckIndex(w) \/ CheckDir(w) \/ CheckPage(w)
Dies(w)   == \/ ReceiveFails(w) \/ SendFails(w) \/ OpenDirFails(w) \/ CheckFails(w)
             \/ ListDirFails(w)
Closes(w) == CloseEarly(w) \/ Close(w)
Ends(w)   == CloseFile(w) \/ ListDir(w)

\* The steps of nobody in particular.
Quiet ==
  \/ AcceptFails
  \/ \E c \in Conns : Leave(c)
  \/ \E p \in Paths : Change(p)
  \/ UNCHANGED vars

LEMMA NextIs ==
  Next \/ UNCHANGED vars =>
    \/ AcceptConn \/ Quiet
    \/ \E w \in Workers : Take(w) \/ HandleClient(w)
BY DEF Next, Quiet

LEMMA ThreadSteps ==
  \A w : HandleClient(w) <=>
    \/ Receive(w) \/ Sends(w) \/ Looks(w) \/ Dies(w) \/ OpenFile(w) \/ OpenDir(w)
    \/ OthersRequest(w) \/ Closes(w) \/ Ends(w)
BY DEF HandleClient, Sends, Looks, Dies, Closes, Ends

LEMMA QuietFacts ==
  Quiet => UNCHANGED <<queue, fdTable, fdOf, request, unread, reply, locals, struck>>
BY DEF Quiet, AcceptFails, Die, Leave, Change, vars, clients

LEMMA SendsFacts ==
  ASSUME NEW w, Sends(w)
  PROVE  /\ UNCHANGED <<queue, fdTable, fdOf, clients, unread, site, turn, client_sock,
                        received_data, target, file, alive, struck>>
         /\ \E to \in Pcs \ {"get"} : pc' = [pc EXCEPT ![w] = to]
         /\ pc[w] \notin {"get", "closeAgain"}
BY DEF Sends, BadRequest, NotFoundRequest, OkayPage, OkayDir, OpenFailed, SendListing,
       Content, Send, Goto, Pcs

LEMMA LooksFacts ==
  ASSUME NEW w, Looks(w)
  PROVE  /\ UNCHANGED <<queue, fdTable, fdOf, clients, unread, reply, site, turn,
                        client_sock, received_data, file, alive, struck>>
         /\ \E to \in {"checkDir", "checkPage", "okPage", "okDir", "notFound"} :
              pc' = [pc EXCEPT ![w] = to]
         /\ pc[w] \in Checking
BY DEF Looks, CheckIndex, CheckDir, CheckPage, Look, Goto, Checking

LEMMA DiesFacts ==
  ASSUME NEW w, Dies(w)
  PROVE  /\ UNCHANGED <<queue, fdTable, fdOf, clients, unread, reply, site, locals, struck>>
         /\ pc[w] \notin {"get", "closeAgain"}
BY DEF Dies, ReceiveFails, SendFails, OpenDirFails, CheckFails, ListDirFails, Die, clients,
       Sending, Checking

LEMMA ThreadFacts ==
  ASSUME TypesInv, NEW w \in Workers, HandleClient(w)
  PROVE  /\ UNCHANGED <<queue, fdOf, clients, site, turn, client_sock>>
         /\ \A v \in Workers : v # w =>
              pc'[v] = pc[v] /\ file'[v] = file[v] /\ received_data'[v] = received_data[v]
         /\ pc[w] # "get" /\ (pc[w] = "closeAgain" => Close(w))
<1> USE DEF TypesInv, Types
<1>1. CASE Receive(w)
  <2>1. \E next : pc[w] = "recv" /\ pc' = [pc EXCEPT ![w] = next]
    BY <1>1, ParseFacts
  <2>2. \E line : received_data' = [received_data EXCEPT ![w] = line]
    BY <1>1, ParseFacts
  <2>3. QED
    BY <1>1, <2>1, <2>2 DEF Receive
<1>2. CASE Sends(w)
  BY <1>2, SendsFacts
<1>3. CASE Looks(w)
  <2>1. PICK to : pc' = [pc EXCEPT ![w] = to]
    BY <1>3, LooksFacts
  <2>2. pc[w] # "get" /\ pc[w] # "closeAgain"
    BY <1>3, LooksFacts DEF Checking
  <2>3. QED
    BY <1>3, <2>1, <2>2, LooksFacts
<1>4. CASE Dies(w)
  BY <1>4, DiesFacts DEF locals
<1>5. CASE OpenFile(w)
  BY <1>5 DEF OpenFile, Goto, OpenLowest
<1>6. CASE OpenDir(w)
  BY <1>6 DEF OpenDir, Goto, OpenLowest
<1>7. CASE CloseEarly(w) \/ Ends(w) \/ OthersRequest(w)
  BY <1>7 DEF CloseEarly, Ends, CloseFile, ListDir, OthersRequest, Goto, clients, locals
<1>8. CASE Close(w)
  BY <1>8 DEF Close, Goto
<1>9. QED
  BY <1>1, <1>2, <1>3, <1>4, <1>5, <1>6, <1>7, <1>8, ThreadSteps DEF Closes

\* Files are opened under free numbers.
LEMMA OpenFacts ==
  ASSUME TypesInv, NEW w \in Workers, OpenFile(w) \/ OpenDir(w)
  PROVE  \/ /\ Goto(w, "open", "openFailed") /\ UNCHANGED <<file, fdTable>>
         \/ \E it \in {Opened(w), Listed(w)}, f \in Fds :
              /\ fdTable[f] = Unused /\ file'[w] = f /\ fdTable'[f] = it
              /\ \A g \in Fds : fdTable'[g] = IF g = f THEN it ELSE fdTable[g]
              /\ \/ it = Opened(w) /\ Goto(w, "open", "content")
                 \/ it = Listed(w) /\ Goto(w, "list", "listed")
<1>1. ASSUME NEW it, OpenLowest(w, it), FreeFds # {}
      PROVE  \E f \in Fds : /\ fdTable[f] = Unused /\ file'[w] = f /\ fdTable'[f] = it
                            /\ \A g \in Fds : fdTable'[g] = IF g = f THEN it ELSE fdTable[g]
  BY <1>1, Lowest DEF OpenLowest, TypesInv, Types
<1>2. CASE OpenFile(w)
  <2>1. CASE CanOpen(target[w])
    <3>1. FreeFds # {} /\ OpenLowest(w, Opened(w)) /\ Goto(w, "open", "content")
      BY <1>2, <2>1 DEF OpenFile, CanOpen
    <3>2. QED
      BY <1>1, <3>1
  <2>2. CASE ~CanOpen(target[w])
    BY <1>2, <2>2 DEF OpenFile
  <2>3. QED
    BY <2>1, <2>2
<1>3. CASE OpenDir(w)
  BY <1>1, <1>3 DEF OpenDir, CanOpen
<1>4. QED
  BY <1>2, <1>3

-----------------------------------------------------------------------------
(* Damage is not repaired.                                                 *)

LEMMA DamagedStays ==
  ASSUME TypesInv, [Next]_vars, Damaged
  PROVE  Damaged'
<1>1. CASE AcceptConn
  BY <1>1 DEF AcceptConn, Queue!Accept, Damaged, HandedTwice
<1>2. CASE Quiet
  BY <1>2, QuietFacts DEF queue, Damaged, HandedTwice
<1>3. ASSUME NEW w \in Workers, Take(w) PROVE Damaged'
  <2>1. \A n \in DOMAIN handed : n \in DOMAIN handed' /\ handed'[n] = handed[n]
    BY <1>3, TakeFacts
  <2>2. HandedTwice => HandedTwice'
    BY <2>1 DEF HandedTwice
  <2>3. QED
    BY <1>3, <2>2 DEF Take, Damaged
<1>4. ASSUME NEW w \in Workers, HandleClient(w) PROVE Damaged'
  <2>1. UNCHANGED handed
    BY <1>4, ThreadFacts DEF queue
  <2>2. struck => struck'
    <3>1. CASE Closes(w) \/ Ends(w)
      BY <3>1 DEF Closes, Ends, CloseEarly, Close, CloseFile, ListDir, CloseFd
    <3>2. CASE ~Closes(w) /\ ~Ends(w)
      BY <1>4, <3>2, SendsFacts, LooksFacts, DiesFacts, ThreadSteps
         DEF Receive, OpenFile, OpenDir, OthersRequest
    <3>3. QED
      BY <3>1, <3>2
  <2>3. QED
    BY <2>1, <2>2 DEF Damaged, HandedTwice
<1>5. QED
  BY <1>1, <1>2, <1>3, <1>4, NextIs

\* A turn that damages nothing gives a connection nobody has had.
LEMMA TakeFresh ==
  ASSUME TypesInv, NEW w \in Workers, Take(w), ~Damaged'
  PROVE  \E s \in Conns :
           /\ s <= accepted /\ s \notin Given /\ Given' = Given \cup {s}
           /\ accepted' = accepted
           /\ pc[w] = "get" /\ pc' = [pc EXCEPT ![w] = "recv"]
           /\ turn' = [turn EXCEPT ![w] = s]
           /\ client_sock' = [client_sock EXCEPT ![w] = fdOf[s]]
<1>1. PICK s \in Conns :
           /\ s <= accepted /\ accepted' = accepted
           /\ DOMAIN handed' = 1 .. Len(handed) + 1
           /\ \A n \in DOMAIN handed : n \in DOMAIN handed' /\ handed'[n] = handed[n]
           /\ handed'[Len(handed) + 1] = s
           /\ Given' = Given \cup {s}
           /\ pc[w] = "get" /\ pc' = [pc EXCEPT ![w] = "recv"]
           /\ turn' = [turn EXCEPT ![w] = s]
           /\ client_sock' = [client_sock EXCEPT ![w] = fdOf[s]]
  BY TakeFacts
<1>2. ASSUME s \in Given PROVE FALSE
  <2>1. PICK n \in DOMAIN handed : handed[n] = s
    BY <1>2 DEF Given
  <2>2. n # Len(handed) + 1 /\ Len(handed) + 1 \in DOMAIN handed'
    BY <1>1, <2>1, QueueFacts
  <2>3. n \in DOMAIN handed' /\ handed'[n] = handed'[Len(handed) + 1]
    BY <1>1, <2>1
  <2>4. HandedTwice'
    BY <2>2, <2>3 DEF HandedTwice
  <2>5. QED
    BY <2>4 DEF Damaged
<1>3. QED
  BY <1>1, <1>2

-----------------------------------------------------------------------------
(* In whose hands a connection is.                                         *)

\* A thread with a connection has its only descriptor, until it has closed it.
LEMMA OwnFacts ==
  ASSUME TypesInv, DescriptorInv, HandsInv, NEW w \in Workers, pc[w] # "get"
  PROVE  /\ turn[w] \in Conns /\ turn[w] \in Given /\ turn[w] <= accepted
         /\ client_sock[w] \in Fds
         /\ pc[w] # "closeAgain" => Peer(w) = Conn(turn[w])
         /\ \A f \in Fds : fdTable[f] = Conn(turn[w]) => f = client_sock[w]
<1>1. Holds(w) /\ turn[w] \in Conns /\ turn[w] <= accepted /\ turn[w] \in Given
  BY QueueFacts DEF HandsInv, TypesInv
<1>2. QED
  BY <1>1 DEF Holds, Peer, DescriptorInv

\* A close that damages nothing hits the thread's own descriptor or none.
LEMMA CloseFacts ==
  ASSUME TypesInv, DescriptorInv, HandsInv, NEW w \in Workers, Closes(w), ~struck'
  PROVE  /\ client_sock[w] \in Fds
         /\ fdTable[client_sock[w]] \in {Conn(turn[w]), Unused}
         /\ pc[w] # "closeAgain" => fdTable[client_sock[w]] = Conn(turn[w])
         /\ \A f \in Fds : fdTable'[f] = IF f = client_sock[w] THEN Unused ELSE fdTable[f]
         /\ UNCHANGED <<queue, fdOf, clients, unread, reply, turn, client_sock,
                        received_data, file>>
         /\ \/ pc[w] = "closeEarly" /\ pc'[w] = "closeAgain"
            \/ pc[w] \in {"close", "closeAgain"} /\ pc'[w] = "get"
<1>1. /\ pc[w] # "get" /\ CloseFd(client_sock[w], Conn(turn[w]))
      /\ UNCHANGED <<queue, fdOf, clients, unread, reply, turn, client_sock,
                     received_data, file>>
      /\ \/ pc[w] = "closeEarly" /\ pc'[w] = "closeAgain"
         \/ pc[w] \in {"close", "closeAgain"} /\ pc'[w] = "get"
  BY DEF Closes, CloseEarly, Close, Goto, TypesInv, Types
<1>2. client_sock[w] \in Fds /\ (pc[w] # "closeAgain" => Peer(w) = Conn(turn[w]))
  BY <1>1, OwnFacts
<1>3. fdTable[client_sock[w]] \in {Conn(turn[w]), Unused}
  BY <1>1 DEF CloseFd
<1>4. \A f \in Fds : fdTable'[f] = IF f = client_sock[w] THEN Unused ELSE fdTable[f]
  BY <1>1, CloseTypes
<1>5. QED
  BY <1>1, <1>2, <1>3, <1>4 DEF Peer

LEMMA EndFacts ==
  ASSUME TypesInv, FilesInv, NEW w \in Workers, Ends(w)
  PROVE  /\ file[w] \in Fds /\ fdTable[file[w]] \in {Opened(w), Listed(w)}
         /\ \A g \in Fds : fdTable'[g] = IF g = file[w] THEN Unused ELSE fdTable[g]
<1>1. CASE CloseFile(w)
  BY <1>1, CloseTypes DEF CloseFile, Goto, FilesInv, FilesOf
<1>2. CASE ListDir(w)
  BY <1>2, CloseTypes DEF ListDir, Goto, FilesInv, FilesOf
<1>3. QED
  BY <1>1, <1>2 DEF Ends

\* The step of a thread opens and closes no socket but its own.
LEMMA SocketsStay ==
  ASSUME TypesInv, DescriptorInv, HandsInv, FilesInv, ~struck',
         NEW w \in Workers, HandleClient(w),
         NEW f \in Fds, NEW c \in Conns, c # turn[w] \/ ~Closes(w)
  PROVE  fdTable'[f] = Conn(c) <=> fdTable[f] = Conn(c)
<1>1. CASE Receive(w) \/ Sends(w) \/ Looks(w) \/ Dies(w) \/ OthersRequest(w)
  <2>1. fdTable' = fdTable
    BY <1>1, SendsFacts, LooksFacts, DiesFacts DEF Receive, OthersRequest
  <2>2. QED
    BY <2>1
<1>2. CASE OpenFile(w) \/ OpenDir(w)
  BY <1>2, OpenFacts, ItemFacts
<1>3. CASE Ends(w)
  BY <1>3, EndFacts, ItemFacts
<1>4. CASE Closes(w)
  BY <1>4, CloseFacts, ItemFacts
<1>5. QED
  BY <1>1, <1>2, <1>3, <1>4, ThreadSteps

\* Nobody closes another thread's file.
LEMMA FilesStay ==
  ASSUME TypesInv, DescriptorInv, HandsInv, FilesInv, ~struck',
         NEW w \in Workers, HandleClient(w),
         NEW v \in Workers, v # w, NEW f \in Fds, fdTable[f] \in {Opened(v), Listed(v)}
  PROVE  fdTable'[f] = fdTable[f]
<1>1. CASE Receive(w) \/ Sends(w) \/ Looks(w) \/ Dies(w) \/ OthersRequest(w)
  <2>1. fdTable' = fdTable
    BY <1>1, SendsFacts, LooksFacts, DiesFacts DEF Receive, OthersRequest
  <2>2. QED
    BY <2>1
<1>2. CASE OpenFile(w) \/ OpenDir(w)
  BY <1>2, OpenFacts, ItemFacts
<1>3. CASE Ends(w)
  BY <1>3, EndFacts, ItemFacts
<1>4. CASE Closes(w)
  BY <1>4, CloseFacts, ItemFacts
<1>5. QED
  BY <1>1, <1>2, <1>3, <1>4, ThreadSteps

LEMMA AcceptHands ==
  ASSUME TypesInv, HandsInv, AcceptConn
  PROVE  HandsInv'
<1>1. /\ accepted \in Nat /\ accepted' = accepted + 1 /\ handed' = handed
      /\ UNCHANGED locals
  BY QueueFacts DEF AcceptConn, Queue!Accept
<1>2. /\ LowestFree \in Fds /\ fdTable[LowestFree] = Unused
      /\ \A f \in Fds : fdTable'[f] = IF f = LowestFree THEN Conn(accepted + 1)
                                                       ELSE fdTable[f]
      /\ \A c \in Conns : fdOf'[c] = IF c = accepted + 1 THEN LowestFree ELSE fdOf[c]
  BY <1>1, Lowest DEF AcceptConn, TypesInv, Types
<1>3. ASSUME NEW f \in Fds, NEW c \in Conns, fdTable[f] = Conn(c)
      PROVE  fdTable'[f] = Conn(c)
  BY <1>2, <1>3, ItemFacts
<1>4. ASSUME NEW c \in Conns, c <= accepted + 1, c \notin Given
      PROVE  fdOf'[c] \in Fds /\ fdTable'[fdOf'[c]] = Conn(c)
  <2>1. CASE c = accepted + 1
    BY <1>2, <2>1
  <2>2. CASE c # accepted + 1
    <3>1. c <= accepted
      BY <1>1, <1>4, <2>2, QueueFacts
    <3>2. QED
      BY <1>2, <1>3, <1>4, <2>2, <3>1 DEF HandsInv
  <2>3. QED
    BY <2>1, <2>2
<1>5. ASSUME NEW w \in Workers, pc[w] # "get" PROVE Holds(w)'
  <2>1. Holds(w) /\ turn[w] \in Conns /\ turn[w] <= accepted
    BY <1>5, QueueFacts DEF HandsInv
  <2>2. turn[w] # accepted + 1
    BY <1>1, <2>1, QueueFacts
  <2>3. QED
    BY <1>1, <1>2, <1>3, <2>1, <2>2 DEF Holds, locals
<1>6. QED
  BY <1>1, <1>4, <1>5 DEF HandsInv, locals, Given

LEMMA TakeHands ==
  ASSUME TypesInv, HandsInv, NEW w \in Workers, Take(w), ~Damaged'
  PROVE  HandsInv'
<1>1. PICK s \in Conns :
           /\ s <= accepted /\ s \notin Given /\ Given' = Given \cup {s}
           /\ accepted' = accepted
           /\ pc[w] = "get" /\ pc' = [pc EXCEPT ![w] = "recv"]
           /\ turn' = [turn EXCEPT ![w] = s]
           /\ client_sock' = [client_sock EXCEPT ![w] = fdOf[s]]
  BY TakeFresh
<1>2. /\ UNCHANGED <<fdTable, fdOf>>
      /\ \A v \in Workers : v # w => /\ pc'[v] = pc[v] /\ turn'[v] = turn[v]
                                     /\ client_sock'[v] = client_sock[v]
      /\ pc'[w] = "recv" /\ turn'[w] = s /\ client_sock'[w] = fdOf[s]
  BY <1>1 DEF Take, TypesInv, Types
<1>3. ASSUME NEW v \in Workers, pc'[v] # "get" PROVE Holds(v)'
  <2>1. CASE v = w
    <3>1. fdOf[s] \in Fds /\ fdTable[fdOf[s]] = Conn(s)
      BY <1>1 DEF HandsInv
    <3>2. QED
      BY <1>2, <2>1, <3>1 DEF Holds
  <2>2. CASE v # w
    BY <1>2, <1>3, <2>2 DEF HandsInv, Holds
  <2>3. QED
    BY <2>1, <2>2
<1>4. \A v \in Workers : pc[v] # "get" => turn[v] # s
  BY <1>1 DEF TypesInv
<1>5. \A u, v \in Workers :
         u # v /\ pc'[u] # "get" /\ pc'[v] # "get" => turn'[u] # turn'[v]
  BY <1>2, <1>4 DEF HandsInv
<1>6. \A c \in Conns : c <= accepted' /\ c \notin Given' =>
         fdOf'[c] \in Fds /\ fdTable'[fdOf'[c]] = Conn(c)
  BY <1>1, <1>2 DEF HandsInv
<1>7. QED
  BY <1>3, <1>5, <1>6 DEF HandsInv

LEMMA ThreadHands ==
  ASSUME TypesInv, DescriptorInv, HandsInv, FilesInv, ~struck',
         NEW w \in Workers, HandleClient(w)
  PROVE  HandsInv'
<1>1. /\ UNCHANGED <<queue, fdOf, turn, client_sock>> /\ pc[w] # "get"
      /\ \A v \in Workers : v # w => pc'[v] = pc[v]
      /\ pc[w] = "closeAgain" => Close(w)
  BY ThreadFacts
<1>2. turn[w] \in Given
  BY <1>1, OwnFacts
<1>3. ASSUME NEW c \in Conns, c <= accepted, c \notin Given
      PROVE  fdOf[c] \in Fds /\ fdTable'[fdOf[c]] = Conn(c)
  BY <1>2, <1>3, SocketsStay DEF HandsInv
<1>4. ASSUME NEW v \in Workers, pc'[v] # "get" PROVE Holds(v)'
  <2>1. CASE v # w
    <3>1. Holds(v) /\ turn[v] \in Conns /\ turn[v] # turn[w] /\ pc'[v] = pc[v]
      BY <1>1, <1>4, <2>1, QueueFacts DEF HandsInv
    <3>2. QED
      BY <1>1, <3>1, SocketsStay DEF Holds
  <2>2. CASE v = w /\ ~Closes(w)
    <3>1. Holds(w) /\ turn[w] \in Conns /\ pc[w] # "closeAgain"
      BY <1>1, <2>2, QueueFacts DEF HandsInv, Closes
    <3>2. QED
      BY <1>1, <2>2, <3>1, SocketsStay DEF Holds
  <2>3. CASE v = w /\ Closes(w)
    <3>1. pc'[w] = "closeAgain" /\ Holds(w)
      BY <1>1, <1>4, <2>3, CloseFacts DEF HandsInv
    <3>2. QED
      BY <1>1, <2>3, <3>1 DEF Holds
  <2>4. QED
    BY <2>1, <2>2, <2>3
<1>5. \A v \in Workers : pc'[v] # "get" => pc[v] # "get"
  BY <1>1
<1>6. QED
  BY <1>1, <1>3, <1>4, <1>5 DEF HandsInv, queue, Given

LEMMA HandsStep ==
  ASSUME TypesInv, DescriptorInv, HandsInv, FilesInv, [Next]_vars, ~Damaged'
  PROVE  HandsInv'
<1>1. CASE Quiet
  BY <1>1, QuietFacts DEF HandsInv, Holds, queue, locals, Given
<1>2. QED
  BY <1>1, AcceptHands, TakeHands, ThreadHands, NextIs DEF Damaged

-----------------------------------------------------------------------------
(* The files.                                                              *)

LEMMA FilesBy ==
  ASSUME TypesInv, DescriptorInv, HandsInv, FilesInv, ~struck',
         NEW w \in Workers, HandleClient(w), FilesOf(w)'
  PROVE  FilesInv'
<1>1. ASSUME NEW v \in Workers, v # w PROVE FilesOf(v)'
  <2>1. /\ FilesOf(v) /\ pc'[v] = pc[v] /\ file'[v] = file[v]
    BY <1>1, ThreadFacts DEF FilesInv
  <2>2. \A f \in Fds : fdTable[f] \in {Opened(v), Listed(v)} => fdTable'[f] = fdTable[f]
    BY <1>1, FilesStay
  <2>3. QED
    BY <2>1, <2>2 DEF FilesOf
<1>2. QED
  BY <1>1 DEF FilesInv

LEMMA FilesStep ==
  ASSUME TypesInv, DescriptorInv, HandsInv, FilesInv, [Next]_vars, ~Damaged'
  PROVE  FilesInv'
<1>1. CASE Quiet
  BY <1>1, QuietFacts DEF FilesInv, FilesOf, locals
<1>2. CASE AcceptConn
  <2>1. \A f \in Fds : fdTable[f] # Unused => fdTable'[f] = fdTable[f]
    BY <1>2, Lowest DEF AcceptConn, TypesInv, Types
  <2>2. UNCHANGED <<pc, file>>
    BY <1>2 DEF AcceptConn, locals
  <2>3. QED
    BY <2>1, <2>2, ItemFacts DEF FilesInv, FilesOf
<1>3. ASSUME NEW w \in Workers, Take(w) PROVE FilesInv'
  <2>1. /\ UNCHANGED <<fdTable, file>>
        /\ \A v \in Workers : v # w => pc'[v] = pc[v]
        /\ pc'[w] = "recv"
    BY <1>3 DEF Take, Goto, TypesInv, Types
  <2>2. QED
    BY <2>1 DEF FilesInv, FilesOf
<1>4. ASSUME NEW w \in Workers, HandleClient(w) PROVE FilesOf(w)'
  <2> USE DEF TypesInv, Types, FilesInv
  <2>1. CASE Dies(w) \/ OthersRequest(w)
    BY <2>1, DiesFacts DEF OthersRequest, locals, FilesOf
  <2>2. CASE Receive(w)
    <3>1. PICK next \in {"bad", "close", "checkIndex", "checkPage", "notFound", "checkDir"} :
            pc' = [pc EXCEPT ![w] = next]
      BY <2>2, ParseFacts
    <3>2. pc'[w] = next
      BY <3>1
    <3>3. QED
      BY <3>1, <3>2 DEF FilesOf
  <2>3. CASE Sends(w)
    <3>1. CASE Content(w)
      BY <3>1 DEF Content, Send, Goto, FilesOf
    <3>2. CASE OkayPage(w) \/ OkayDir(w)
      BY <3>2 DEF OkayPage, OkayDir, Send, Goto, FilesOf
    <3>3. CASE BadRequest(w) \/ NotFoundRequest(w) \/ SendListing(w) \/ OpenFailed(w)
      BY <3>3 DEF BadRequest, NotFoundRequest, SendListing, OpenFailed, Send, Goto, FilesOf
    <3>4. QED
      BY <2>3, <3>1, <3>2, <3>3 DEF Sends
  <2>4. CASE Looks(w)
    <3>1. PICK to \in {"checkDir", "checkPage", "okPage", "okDir", "notFound"} :
            pc' = [pc EXCEPT ![w] = to]
      BY <2>4, LooksFacts
    <3>2. pc'[w] = to
      BY <3>1
    <3>3. QED
      BY <3>1, <3>2 DEF FilesOf
  <2>5. CASE OpenFile(w) \/ OpenDir(w)
    <3>1. CASE Goto(w, "open", "openFailed")
      BY <3>1 DEF Goto, FilesOf
    <3>2. CASE ~Goto(w, "open", "openFailed")
      <4>1. PICK it \in {Opened(w), Listed(w)}, f \in Fds :
              /\ file'[w] = f /\ fdTable'[f] = it
              /\ \/ it = Opened(w) /\ Goto(w, "open", "content")
                 \/ it = Listed(w) /\ Goto(w, "list", "listed")
        BY <2>5, <3>2, OpenFacts
      <4>2. QED
        BY <4>1 DEF Goto, FilesOf
    <3>3. QED
      BY <3>1, <3>2
  <2>6. CASE Closes(w) \/ Ends(w)
    BY <2>6 DEF Closes, Ends, CloseEarly, CloseFile, ListDir, Close, Goto, FilesOf
  <2>7. QED
    BY <1>4, <2>1, <2>2, <2>3, <2>4, <2>5, <2>6, ThreadSteps
<1>5. QED
  BY <1>1, <1>2, <1>3, <1>4, FilesBy, NextIs DEF Damaged

-----------------------------------------------------------------------------
(* The replies.                                                            *)

\* What the server may take a request for does not change once it is accepted.
LEMMA HeardFacts ==
  ASSUME TypesInv, NEW c \in Conns
  PROVE  /\ Http!Heard(c) \subseteq {"bad", "favicon", "page", "dir", "noname"}
         /\ \A kind \in Http!Heard(c) : Complete(kind, c) \subseteq Http!Replies(c)
<1>1. /\ request[c].kind \in {"bad", "favicon", "page", "dir", "noname"}
      /\ \A d \in 1 .. accepted :
           request[d].kind \in {"bad", "favicon", "page", "dir", "noname"}
  <2>1. \A d \in Conns : request[d].kind \in {"bad", "favicon", "page", "dir", "noname"}
    BY RequestAssumption DEF TypesInv, Types
  <2>2. \A d \in 1 .. accepted : d \in Conns
    BY SizeAssumption DEF TypesInv, Types, Conns
  <2>3. QED
    BY <2>1, <2>2
<1>2. Http!Heard(c) \subseteq {"bad", "favicon", "page", "dir", "noname"}
  BY <1>1 DEF Http!Heard
<1>3. ASSUME NEW kind \in Http!Heard(c) PROVE Complete(kind, c) \subseteq Http!Replies(c)
  <2> DEFINE R(a) == [i \in DOMAIN a |-> [what |-> a[i], for |-> c]]
  <2>1. R(<<"400">>) = <<Part("400", c)>> /\ R(<<"404">>) = <<Part("404", c)>>
    BY DEF Part
  <2>2. /\ R(<<"200", "body">>) = <<Part("200", c), Part("body", c)>>
        /\ R(<<"200", "404">>) = <<Part("200", c), Part("404", c)>>
    BY DEF Part
  <2>3. R(<<>>) = <<>>
    OBVIOUS
  <2>4. \A a \in Http!Answers(kind) : R(a) \in Http!Replies(c)
    BY DEF Http!Replies
  <2> HIDE DEF R
  <2>5. CASE kind = "bad"
    <3>1. <<"400">> \in Http!Answers(kind)
      BY <2>5 DEF Http!Answers
    <3>2. QED
      BY <2>1, <2>4, <2>5, <3>1 DEF Complete
  <2>6. CASE kind = "favicon"
    <3>1. <<>> \in Http!Answers(kind)
      BY <2>6 DEF Http!Answers
    <3>2. QED
      BY <2>3, <2>4, <2>6, <3>1 DEF Complete
  <2>7. CASE kind \in {"page", "dir", "noname"}
    <3>1. Http!Answers(kind) = {<<"200", "body">>, <<"404">>, <<"200", "404">>}
      BY <2>7 DEF Http!Answers, Http!Page
    <3>2. QED
      BY <2>1, <2>2, <2>4, <2>7, <3>1 DEF Complete
  <2>8. QED
    BY <1>2, <1>3, <2>5, <2>6, <2>7
<1>4. QED
  BY <1>2, <1>3

\* The state in which a thread's client is sent a part.
Prolongs(what, w) ==
  \/ what = "400" /\ received_data[w] = "bad" /\ Got(w) = <<>>
  \/ what \in {"200", "404"} /\ received_data[w] \in Pages /\ Got(w) = <<>>
  \/ what \in {"body", "404"} /\ received_data[w] \in Pages
       /\ Got(w) = <<Part("200", turn[w])>>

LEMMA SendReply ==
  ASSUME TypesInv, DescriptorInv, HandsInv, NEW w \in Workers,
         NEW from, NEW what, NEW to, from \notin {"get", "closeAgain"},
         Send(w, from, what, to)
  PROVE  /\ pc[w] = from /\ pc'[w] = to /\ turn[w] \in Conns
         /\ reply' = IF turn[w] \in left THEN reply
              ELSE [reply EXCEPT ![turn[w]] = Append(@, Part(what, turn[w]))]
<1>1. pc[w] = from /\ pc' = [pc EXCEPT ![w] = to]
  BY DEF Send, Goto
<1>2. turn[w] \in Conns /\ Peer(w) = Conn(turn[w])
  BY <1>1, OwnFacts
<1>3. PICK c \in Conns : /\ Peer(w) = Conn(c)
                         /\ reply' = IF c \in left THEN reply
                              ELSE [reply EXCEPT ![c] =
                                      Append(@, [what |-> what, for |-> turn[w]])]
  BY DEF Send
<1>4. c = turn[w]
  BY <1>2, <1>3, ItemFacts
<1>5. QED
  BY <1>1, <1>2, <1>3, <1>4 DEF Part, TypesInv, Types

\* Whatever a thread sends is the next part of a reply to its client.
LEMMA SendsReply ==
  ASSUME TypesInv, DescriptorInv, Clean, NEW w \in Workers, Sends(w)
  PROVE  /\ turn[w] \in Conns
         /\ \E what :
              /\ turn[w] \notin left => Prolongs(what, w)
              /\ reply' = IF turn[w] \in left THEN reply
                   ELSE [reply EXCEPT ![turn[w]] = Append(@, Part(what, turn[w]))]
              /\ \/ what = "400" /\ pc'[w] = "close"
                 \/ what = "404" /\ pc[w] = "notFound" /\ pc'[w] = "close"
                 \/ what = "404" /\ pc[w] = "openFailed" /\ pc'[w] = "closeEarly"
                 \/ what = "200" /\ pc'[w] \in {"open", "list"}
                 \/ what = "body" /\ pc'[w] \in {"closeFile", "close"}
         /\ pc[w] \notin {"get", "recv", "close"}
         /\ pc'[w] # "close" => received_data[w] \in Pages
<1> USE DEF RepliesInv, RepliesOf, Unanswered, Announced, Prolongs
<1>1. HandsInv /\ RepliesOf(w) /\ FilesOf(w)
  BY DEF Clean, FilesInv
<1>2. CASE BadRequest(w)
  BY <1>1, <1>2, SendReply DEF BadRequest
<1>3. CASE NotFoundRequest(w)
  BY <1>1, <1>3, SendReply DEF NotFoundRequest
<1>4. CASE OkayPage(w) \/ OkayDir(w)
  BY <1>1, <1>4, SendReply DEF OkayPage, OkayDir
<1>5. CASE SendListing(w)
  BY <1>1, <1>5, SendReply DEF SendListing
<1>6. CASE Content(w)
  <2>1. fdTable[file[w]] = Opened(w)
    BY <1>1, <1>6 DEF Content, FilesOf
  <2>2. Send(w, "content", "body", "closeFile")
    BY <1>6, <2>1 DEF Content
  <2>3. QED
    BY <1>1, <2>2, SendReply
<1>7. CASE OpenFailed(w)
  BY <1>1, <1>7, SendReply DEF OpenFailed
<1>8. QED
  BY <1>2, <1>3, <1>4, <1>5, <1>6, <1>7 DEF Sends

\* Two parts, one after the other.
LEMMA TwoParts ==
  ASSUME NEW a, NEW b
  PROVE  Append(<<a>>, b) = <<a, b>>
<1>1. <<a>> \in Seq({a, b}) /\ <<a, b>> \in Seq({a, b}) /\ Len(<<a, b>>) = 2
      /\ Len(<<a>>) = 1 /\ <<a>>[1] = a /\ <<a, b>>[1] = a /\ <<a, b>>[2] = b
  OBVIOUS
<1>2. /\ Append(<<a>>, b) \in Seq({a, b}) /\ Len(Append(<<a>>, b)) = 2
      /\ \A i \in 1 .. 1 : Append(<<a>>, b)[i] = <<a>>[i]
      /\ Append(<<a>>, b)[2] = b
  BY <1>1, AppendProperties
<1>3. \A i \in 1 .. 2 : Append(<<a>>, b)[i] = <<a, b>>[i]
  BY <1>1, <1>2
<1>4. QED
  BY <1>1, <1>2, <1>3, SeqEqual

\* What a client has after a part.
LEMMA ProlongFacts ==
  ASSUME NEW w, NEW what, Prolongs(what, w), NEW c, c = turn[w],
         NEW e, e = Append(Got(w), Part(what, c))
  PROVE  /\ Got(w) = <<>> => e = <<Part(what, c)>>
         /\ Got(w) # <<>> => e = <<Part("200", c), Part(what, c)>>
         /\ what # "200" => e \in Complete(received_data[w], c)
         /\ Len(e) <= 2
<1>1. CASE Got(w) = <<>>
  <2>1. e = <<Part(what, c)>> /\ Len(e) = 1
    BY <1>1
  <2>2. what # "200" => e \in Complete(received_data[w], c)
    BY <1>1, <2>1 DEF Prolongs, Complete, Pages
  <2>3. QED
    BY <1>1, <2>1, <2>2
<1>2. CASE Got(w) = <<Part("200", c)>> /\ Got(w) # <<>>
  <2>1. e = <<Part("200", c), Part(what, c)>>
    BY <1>2, TwoParts
  <2> HIDE DEF Part
  <2>4. Len(e) <= 2
    BY <2>1
  <2>2. what # "200" => e \in Complete(received_data[w], c)
    BY <1>2, <2>1 DEF Prolongs, Complete, Pages
  <2>3. QED
    BY <1>2, <2>1, <2>2, <2>4
<1>3. QED
  BY <1>1, <1>2 DEF Prolongs

\* The steps of thread w concern its own client alone.
LEMMA RepliesBy ==
  ASSUME TypesInv, DescriptorInv, HandsInv, RepliesInv, NEW w \in Workers, HandleClient(w),
         RepliesOf(w)',
         \A c \in Conns : reply'[c] # reply[c] => c = turn[w] /\ Len(reply'[c]) <= 2,
         \A c \in Conns : c \in unread /\ c # turn[w] => c \in unread'
  PROVE  RepliesInv'
<1>1. UNCHANGED <<queue, request, left, turn>> /\ pc[w] # "get"
  BY ThreadFacts DEF clients
<1>2. turn[w] \in Given
  BY <1>1, OwnFacts
<1>3. ASSUME NEW v \in Workers, v # w PROVE RepliesOf(v)'
  <2>1. RepliesOf(v) /\ pc'[v] = pc[v] /\ received_data'[v] = received_data[v]
    BY <1>3, ThreadFacts DEF RepliesInv
  <2>2. UNCHANGED <<accepted, request>>
    BY <1>1 DEF queue
  <2>3. CASE pc[v] = "get"
    BY <2>1, <2>2, <2>3 DEF RepliesOf, Unanswered, Announced, Http!Whole
  <2>4. CASE pc[v] # "get"
    <3>1. turn[v] \in Conns /\ turn[v] # turn[w]
      BY <1>1, <1>3, <2>4, OwnFacts DEF HandsInv
    <3>2. reply'[turn[v]] = reply[turn[v]] /\ (turn[v] \in unread => turn[v] \in unread')
      BY <3>1
    <3>3. QED
      BY <1>1, <2>1, <2>2, <3>2 DEF RepliesOf, Got, Http!Heard, Http!Whole
  <2>5. QED
    BY <2>3, <2>4
<1>4. \A c \in Conns : c \notin Given => reply'[c] = reply[c]
  BY <1>2
<1>5. \A c \in Conns : Len(reply'[c]) <= 2
  BY DEF RepliesInv
<1>6. \A c \in Conns : c <= accepted /\ c \notin Given => c \in unread'
  BY <1>2 DEF RepliesInv
<1>7. UNCHANGED <<accepted, Given>>
  BY <1>1 DEF queue, Given
<1>8. QED
  BY <1>3, <1>4, <1>5, <1>6, <1>7 DEF RepliesInv

\* A line is one that the server may take its client's request for.
LEMMA ReceiveReplies ==
  ASSUME TypesInv, DescriptorInv, HandsInv, RepliesInv, NEW w \in Workers, Receive(w)
  PROVE  RepliesInv'
<1>1. PICK c \in Conns, line \in Kinds \cup {"bad"}, next \in Pcs :
           /\ Peer(w) = Conn(c) /\ unread' = unread \ {c}
           /\ line \in IF c \in unread THEN Line(w, request[c].sent, request[c].kind)
                                       ELSE {received_data[w]}
           /\ line \in {"bad", "favicon", "page", "dir", "noname"}
           /\ next \in Route(line) \cap {"bad", "close", "checkIndex", "checkPage",
                                        "notFound", "checkDir"}
           /\ pc[w] = "recv" /\ pc' = [pc EXCEPT ![w] = next]
           /\ received_data' = [received_data EXCEPT ![w] = line]
  BY ParseFacts
<1>2. /\ turn[w] \in Conns /\ turn[w] <= accepted /\ c = turn[w] /\ c \in unread
      /\ RepliesOf(w)
  BY <1>1, OwnFacts, ItemFacts DEF RepliesInv, RepliesOf
<1>3. /\ pc'[w] = next /\ received_data'[w] = line
      /\ UNCHANGED <<queue, request, left, turn, reply>>
  BY <1>1 DEF Receive, clients, TypesInv, Types
<1>4. line \in Line(w, request[c].sent, request[c].kind)
  BY <1>1, <1>2
<1> DEFINE Whole == {request[d].kind : d \in {e \in 1 .. accepted : Http!Whole(e)}}
<1>5. line \in Http!Heard(c) /\ line \in {"bad"} \cup Whole
  <2>1. received_data[w] \in {"bad"} \cup Whole
    BY <1>2 DEF RepliesOf
  <2>2. CASE request[c].sent = "whole"
    <3>1. line = request[c].kind /\ Http!Whole(c)
      BY <1>4, <2>2 DEF Line, Http!Whole
    <3>2. c \in 1 .. accepted
      BY <1>2, SizeAssumption, QueueFacts DEF Conns
    <3>3. QED
      BY <3>1, <3>2 DEF Http!Heard
  <2>3. CASE request[c].sent # "whole"
    <3>1. request[c].sent \in {"part", "none"}
      BY <2>3, RequestAssumption DEF TypesInv, Types
    <3>2. line \in {"bad", received_data[w]} /\ ~Http!Whole(c)
      BY <1>4, <2>3, <3>1 DEF Line, Http!Whole
    <3>3. QED
      BY <2>1, <3>2 DEF Http!Heard
  <2>4. QED
    BY <2>2, <2>3
<1>6. \/ line = "bad" /\ next = "bad"
      \/ line = "favicon" /\ next = "close"
      \/ line \in Pages /\ next \in {"checkIndex", "checkPage", "notFound", "checkDir"}
  BY <1>1 DEF Route, Pages
<1>7. next = "close" => <<>> \in Complete(line, c)
  BY <1>6 DEF Complete, Pages
<1>8. RepliesOf(w)'
  <2>1. /\ turn'[w] = c /\ Http!Heard(c)' = Http!Heard(c) /\ Whole' = Whole
        /\ Got(w)' = Got(w)
    BY <1>2, <1>3 DEF queue, Http!Heard, Http!Whole, Got
  <2>2. c \notin left => Got(w) = <<>>
    BY <1>1, <1>2 DEF RepliesOf, Unanswered
  <2> HIDE DEF Whole
  <2>3. QED
    BY <1>2, <1>3, <1>5, <1>6, <1>7, <2>1, <2>2
       DEF RepliesOf, Unanswered, Announced, Whole
<1>9. QED
  BY <1>1, <1>2, <1>3, <1>8, RepliesBy DEF HandleClient

\* A part that is sent prolongs the reply of the thread's client, unless it has left.
LEMMA SendsReplies ==
  ASSUME TypesInv, DescriptorInv, Clean, NEW w \in Workers, Sends(w)
  PROVE  RepliesInv'
<1>1. PICK what :
        /\ turn[w] \notin left => Prolongs(what, w)
        /\ reply' = IF turn[w] \in left THEN reply
             ELSE [reply EXCEPT ![turn[w]] = Append(@, Part(what, turn[w]))]
        /\ \/ what = "400" /\ pc'[w] = "close"
           \/ what = "404" /\ pc[w] = "notFound" /\ pc'[w] = "close"
           \/ what = "404" /\ pc[w] = "openFailed" /\ pc'[w] = "closeEarly"
           \/ what = "200" /\ pc'[w] \in {"open", "list"}
           \/ what = "body" /\ pc'[w] \in {"closeFile", "close"}
  BY SendsReply
<1>2. /\ turn[w] \in Conns /\ pc[w] \notin {"get", "recv", "close"}
      /\ pc'[w] # "close" => received_data[w] \in Pages
      /\ HandsInv /\ RepliesInv /\ RepliesOf(w)
  BY SendsReply DEF Clean, RepliesInv
<1>3. UNCHANGED <<queue, request, left, unread, turn, received_data>>
  BY SendsFacts DEF clients
<1> DEFINE c == turn[w]
           e == Append(Got(w), Part(what, c))
<1>4. c \notin left =>
        /\ Got(w) = <<>> => e = <<Part(what, c)>>
        /\ Got(w) # <<>> => e = <<Part("200", c), Part(what, c)>>
        /\ what # "200" => e \in Complete(received_data[w], c)
        /\ Len(e) <= 2
  BY <1>1, ProlongFacts
<1>5. reply \in [Conns -> Seq(Parts)]
  BY DEF TypesInv, Types
<1>6. /\ c \notin left => reply'[c] = e
      /\ c \in left => reply' = reply
      /\ \A d \in Conns : d # c => reply'[d] = reply[d]
  BY <1>1, <1>2, <1>5 DEF Got
<1>7. /\ what = "200" => Got(w) = <<>> \/ c \in left
      /\ pc'[w] = "closeEarly" => Got(w) # <<>> \/ c \in left
  <2>1. what = "200" /\ c \notin left => Got(w) = <<>>
    BY <1>1 DEF Prolongs
  <2>2. pc'[w] = "closeEarly" => pc[w] = "openFailed" \/ c \in left
    BY <1>1
  <2>3. pc[w] = "openFailed" /\ c \notin left => Got(w) = <<Part("200", c)>>
    BY <1>2 DEF RepliesOf, Announced
  <2>4. QED
    BY <2>1, <2>2, <2>3
<1> HIDE DEF e
<1>8. RepliesOf(w)'
  <2>1. /\ c' = c /\ left' = left
        /\ Http!Heard(c)' = Http!Heard(c)
        /\ {request[d].kind : d \in {x \in 1 .. accepted : Http!Whole(x)}}'
             = {request[d].kind : d \in {x \in 1 .. accepted : Http!Whole(x)}}
    BY <1>3 DEF queue, Http!Heard, Http!Whole
  <2>2. Got(w)' = reply'[c]
    BY <1>3 DEF Got
  <2>3. c \notin left =>
          /\ pc'[w] \in Announced => reply'[c] = <<Part("200", c)>>
          /\ pc'[w] = "closeEarly" => reply'[c] = <<Part("200", c), Part("404", c)>>
          /\ pc'[w] \in {"close", "closeFile"} => reply'[c] \in Complete(received_data[w], c)
    BY <1>1, <1>4, <1>6, <1>7 DEF Announced
  <2>4. pc'[w] \in {"close", "closeFile", "closeEarly", "open", "list"}
    BY <1>1
  <2>5. /\ received_data[w] \in Http!Heard(c)
        /\ pc'[w] # "close" => received_data[w] \in Pages
    BY <1>2 DEF RepliesOf
  <2>6. QED
    BY <1>2, <1>3, <2>1, <2>2, <2>3, <2>4, <2>5 DEF RepliesOf, Unanswered, Announced
<1>9. HandleClient(w)
  BY ThreadSteps
<1>10. \A d \in Conns : reply'[d] # reply[d] => d = turn[w] /\ Len(reply'[d]) <= 2
  BY <1>4, <1>6
<1>11. QED
  BY <1>2, <1>3, <1>8, <1>9, <1>10, RepliesBy

\* The other steps of a thread lead from one part to the next.
LEMMA OtherReplies ==
  ASSUME TypesInv, DescriptorInv, Clean, NEW w \in Workers, HandleClient(w),
         ~Sends(w), ~Receive(w), ~struck'
  PROVE  RepliesInv'
<1>1. HandsInv /\ FilesInv /\ RepliesInv /\ RepliesOf(w) /\ FilesOf(w)
  BY DEF Clean, RepliesInv, FilesInv
<1>2. ~OthersRequest(w)
  BY <1>1, ItemFacts DEF OthersRequest, FilesOf
<1>3. UNCHANGED <<queue, request, left, turn, unread, reply, received_data>>
  <2>1. UNCHANGED <<queue, request, left, turn>>
    BY ThreadFacts DEF clients
  <2>2. UNCHANGED <<unread, reply, received_data>>
    BY <1>2, LooksFacts, DiesFacts, ThreadSteps
       DEF OpenFile, OpenDir, Closes, Ends, CloseEarly, CloseFile, ListDir, Close, locals
  <2>3. QED
    BY <2>1, <2>2
<1>4. \/ pc'[w] = pc[w]
      \/ pc[w] \in Checking /\ pc'[w] \in {"checkDir", "checkPage", "okPage", "okDir", "notFound"}
      \/ pc[w] = "open" /\ pc'[w] \in {"content", "openFailed"}
      \/ pc[w] = "list" /\ pc'[w] = "listed"
      \/ pc[w] = "listed" /\ pc'[w] = "listing"
      \/ pc[w] = "closeFile" /\ pc'[w] = "close"
      \/ pc[w] = "closeEarly" /\ pc'[w] = "closeAgain"
      \/ pc'[w] = "get"
  <2> USE DEF TypesInv, Types
  <2>1. CASE Looks(w)
    <3>1. PICK to \in {"checkDir", "checkPage", "okPage", "okDir", "notFound"} :
            pc' = [pc EXCEPT ![w] = to]
      BY <2>1, LooksFacts
    <3>2. pc'[w] = to /\ pc[w] \in Checking
      BY <2>1, <3>1, LooksFacts
    <3>3. QED
      BY <3>2
  <2>2. CASE Dies(w)
    BY <2>2, DiesFacts DEF locals
  <2>3. CASE OpenFile(w) \/ OpenDir(w)
    BY <2>3 DEF OpenFile, OpenDir, Goto
  <2>4. CASE Closes(w) \/ Ends(w)
    BY <2>4 DEF Closes, Ends, CloseEarly, CloseFile, ListDir, Close, Goto
  <2>5. QED
    BY <1>2, <2>1, <2>2, <2>3, <2>4, ThreadSteps
<1>5. RepliesOf(w)'
  <2>1. /\ Got(w)' = Got(w) /\ Http!Heard(turn[w])' = Http!Heard(turn[w])
        /\ {request[d].kind : d \in {x \in 1 .. accepted : Http!Whole(x)}}'
             = {request[d].kind : d \in {x \in 1 .. accepted : Http!Whole(x)}}
    BY <1>3 DEF queue, Got, Http!Heard, Http!Whole
  <2>2. QED
    BY <1>1, <1>3, <1>4, <2>1 DEF RepliesOf, Unanswered, Announced, Checking
<1>6. QED
  BY <1>1, <1>3, <1>5, RepliesBy

LEMMA AcceptReplies ==
  ASSUME TypesInv, HandsInv, RepliesInv, AcceptConn
  PROVE  RepliesInv'
<1>1. /\ accepted \in Nat /\ accepted' = accepted + 1 /\ handed' = handed
      /\ UNCHANGED <<locals, left, reply>> /\ accepted + 1 \in Conns
      /\ unread' = unread \cup {accepted + 1}
  BY SizeAssumption DEF AcceptConn, Queue!Accept, TypesInv, Types, Conns
<1>2. \A c \in Conns : c # accepted + 1 => request'[c] = request[c]
  BY <1>1 DEF AcceptConn, TypesInv, Types
<1>3. ASSUME NEW c \in Conns, c <= accepted + 1, c \notin Given PROVE c \in unread'
  <2>1. c = accepted + 1 \/ c <= accepted
    BY <1>1, <1>3, QueueFacts
  <2>2. QED
    BY <1>1, <1>3, <2>1 DEF RepliesInv
<1> DEFINE Heards == {request[d].kind : d \in {e \in 1 .. accepted : Http!Whole(e)}}
<1>4. Heards \subseteq Heards'
  <2>1. \A d \in 1 .. accepted : d \in 1 .. accepted + 1 /\ request'[d] = request[d]
    BY <1>1, <1>2, SizeAssumption DEF Conns
  <2>2. QED
    BY <1>1, <2>1 DEF Http!Whole
<1>5. ASSUME NEW c \in Conns, c <= accepted PROVE Http!Heard(c) \subseteq Http!Heard(c)'
  <2>1. request'[c] = request[c]
    BY <1>1, <1>2, <1>5, QueueFacts
  <2>2. Http!Heard(c) = IF Http!Whole(c) THEN {request[c].kind} ELSE {"bad"} \cup Heards
    BY DEF Http!Heard
  <2>3. Http!Heard(c)' = IF Http!Whole(c)' THEN {request'[c].kind} ELSE {"bad"} \cup Heards'
    BY DEF Http!Heard
  <2>4. Http!Whole(c)' <=> Http!Whole(c)
    BY <2>1 DEF Http!Whole
  <2> HIDE DEF Heards
  <2>5. QED
    BY <1>4, <2>1, <2>2, <2>3, <2>4
<1>6. ASSUME NEW w \in Workers PROVE RepliesOf(w)'
  <2>1. RepliesOf(w) /\ UNCHANGED <<pc, turn, received_data, left, reply>>
    BY <1>1 DEF RepliesInv, locals
  <2>2. Got(w)' = Got(w) /\ \A c \in unread : c \in unread'
    BY <1>1, <2>1 DEF Got
  <2>3. received_data[w] \in {"bad"} \cup Heards'
    BY <1>4, <2>1 DEF RepliesOf
  <2>4. pc[w] \notin {"get", "recv"} => received_data[w] \in Http!Heard(turn[w])'
    <3>1. pc[w] # "get" => turn[w] \in Conns /\ turn[w] <= accepted
      BY QueueFacts
    <3>2. QED
      BY <1>5, <2>1, <3>1 DEF RepliesOf
  <2> HIDE DEF Heards
  <2>5. Heards' = {request[d].kind : d \in {e \in 1 .. accepted : Http!Whole(e)}}'
    BY DEF Heards
  <2>6. QED
    BY <2>1, <2>2, <2>3, <2>4, <2>5 DEF RepliesOf
<1>7. QED
  BY <1>1, <1>3, <1>6 DEF RepliesInv, Given

LEMMA TakeReplies ==
  ASSUME TypesInv, HandsInv, RepliesInv, NEW w \in Workers, Take(w), ~Damaged'
  PROVE  RepliesInv'
<1>1. PICK s \in Conns :
           /\ s <= accepted /\ s \notin Given /\ Given' = Given \cup {s}
           /\ accepted' = accepted
           /\ pc[w] = "get" /\ pc' = [pc EXCEPT ![w] = "recv"]
           /\ turn' = [turn EXCEPT ![w] = s]
  BY TakeFresh
<1>2. /\ UNCHANGED <<request, left, unread, reply, received_data>>
      /\ \A v \in Workers : v # w => pc'[v] = pc[v] /\ turn'[v] = turn[v]
      /\ pc'[w] = "recv" /\ turn'[w] = s
  BY <1>1 DEF Take, clients, TypesInv, Types
<1>3. reply[s] = <<>> /\ s \in unread
  BY <1>1 DEF RepliesInv
<1>4. ASSUME NEW v \in Workers PROVE RepliesOf(v)'
  <2>1. RepliesOf(v)
    BY DEF RepliesInv
  <2>2. CASE v = w
    BY <1>1, <1>2, <1>3, <2>1, <2>2
       DEF RepliesOf, Got, Unanswered, Announced, Http!Whole
  <2>3. CASE v # w
    BY <1>1, <1>2, <2>1, <2>3 DEF RepliesOf, Got, Http!Heard, Http!Whole
  <2>4. QED
    BY <2>2, <2>3
<1>5. QED
  BY <1>1, <1>2, <1>4 DEF RepliesInv

LEMMA QuietReplies ==
  ASSUME TypesInv, RepliesInv, Quiet
  PROVE  RepliesInv'
<1>1. UNCHANGED <<queue, request, unread, reply, locals>>
  BY QuietFacts
<1>2. left \subseteq left'
  BY DEF Quiet, AcceptFails, Die, Leave, Change, clients, vars
<1>3. ASSUME NEW w \in Workers PROVE RepliesOf(w)'
  <2>1. /\ UNCHANGED <<pc, turn, received_data, accepted, unread, request, reply>>
        /\ RepliesOf(w)
    BY <1>1 DEF queue, locals, RepliesInv
  <2>2. Http!Heard(turn[w])' = Http!Heard(turn[w]) /\ Got(w)' = Got(w)
    BY <2>1 DEF Http!Heard, Http!Whole, Got
  <2>3. turn[w] \notin left' => turn[w] \notin left
    BY <1>2
  <2>4. {request[d].kind : d \in {e \in 1 .. accepted : Http!Whole(e)}}'
           = {request[d].kind : d \in {e \in 1 .. accepted : Http!Whole(e)}}
    BY <2>1 DEF Http!Whole
  <2>5. QED
    BY <2>1, <2>2, <2>3, <2>4 DEF RepliesOf
<1>4. QED
  BY <1>1, <1>3 DEF RepliesInv, queue, Given

LEMMA RepliesStep ==
  ASSUME TypesInv, DescriptorInv, Clean, [Next]_vars, ~Damaged'
  PROVE  RepliesInv'
<1>1. HandsInv /\ RepliesInv /\ ~struck'
  BY DEF Clean, Damaged
<1>2. QED
  BY <1>1, QuietReplies, AcceptReplies, TakeReplies, ReceiveReplies, SendsReplies,
     OtherReplies, NextIs

-----------------------------------------------------------------------------
(* As long as nothing is damaged, everything is in its place.              *)

LEMMA InitClean == Init => Clean
<1>1. SUFFICES ASSUME Init PROVE Clean
  OBVIOUS
<1>2. /\ accepted = 0 /\ handed = <<>> /\ received_data = [w \in Workers |-> "bad"]
      /\ \A w \in Workers : pc[w] = "get"
      /\ \A c \in Conns : reply[c] = <<>> /\ Len(reply[c]) = 0
  BY <1>1 DEF Init, Queue!Init
<1>3. \A c \in Conns : ~(c <= accepted) /\ Len(reply[c]) <= 2
  BY <1>2, SizeAssumption DEF Conns
<1>4. HandsInv
  BY <1>2, <1>3 DEF HandsInv
<1>5. FilesInv
  BY <1>2 DEF FilesInv, FilesOf
<1>6. RepliesInv
  BY <1>2, <1>3 DEF RepliesInv, RepliesOf, Unanswered, Announced
<1>7. QED
  BY <1>4, <1>5, <1>6 DEF Clean

LEMMA CleanStep ==
  ASSUME TypesInv, DescriptorInv, ~Damaged => Clean, [Next]_vars
  PROVE  ~Damaged' => Clean'
<1>1. SUFFICES ASSUME ~Damaged' PROVE Clean'
  OBVIOUS
<1>2. Clean
  BY <1>1, DamagedStays
<1>3. HandsInv /\ FilesInv
  BY <1>2 DEF Clean
<1>4. QED
  BY <1>1, <1>2, <1>3, HandsStep, FilesStep, RepliesStep DEF Clean

LEMMA SafeAlways == Spec => []SafeInv
<1>1. Init => SafeInv
  BY InitTypes, InitDescriptors, InitClean DEF SafeInv
<1>2. SafeInv /\ [Next]_vars => SafeInv'
  BY TypesStep, DescriptorStep, CleanStep DEF SafeInv
<1>3. QED
  BY <1>1, <1>2, PTL DEF Spec

\* However clients send and leave and whatever fails, until two threads hold one
\* number a client receives two parts at the most (torero-serve.cpp:264-330).
THEOREM TypeCorrect == Spec => []TypeOK
<1>1. SafeInv => TypeOK
  BY DEF SafeInv, TypesInv, Clean, RepliesInv, TypeOK
<1>2. QED
  BY <1>1, SafeAlways, PTL

-----------------------------------------------------------------------------
(* The end of the process, and the first wrong close.                      *)

\* As long as nothing is damaged a thread that can talk to no client that stays
\* talks to one that has gone.
LEMMA DeafFacts ==
  ASSUME SafeInv, ~Damaged, NEW w \in Workers, pc[w] \notin {"get", "closeAgain"},
         \A c \in Conns \ left : Peer(w) # Conn(c)
  PROVE  turn[w] \in left
BY OwnFacts DEF SafeInv, Clean

LEMMA CausesStep ==
  ASSUME SafeInv, EndsForCause, [Next]_vars
  PROVE  EndsForCause'
<1>1. CASE ~alive
  <2>1. UNCHANGED vars
    BY <1>1, ThreadSteps
       DEF Next, AcceptConn, AcceptFails, Take, Leave, Change, Receive, Sends, BadRequest,
           NotFoundRequest, OkayPage, OkayDir, OpenFailed, SendListing, Content, Send,
           Looks, CheckIndex, CheckDir, CheckPage, Look, Dies, ReceiveFails, SendFails,
           OpenDirFails, CheckFails, ListDirFails, OpenFile, OpenDir, OthersRequest,
           Closes, CloseEarly, Close, Ends, CloseFile, ListDir
  <2>2. QED
    BY <2>1 DEF vars, locals, queue, EndsForCause, FreeFds, Damaged, HandedTwice, Checked
<1>2. CASE alive'
  BY <1>2 DEF EndsForCause
<1>3. CASE alive /\ ~alive'
  <2> DEFINE Cause ==
        \/ FreeFds = {} \/ Damaged
        \/ \E w \in Workers :
             \/ pc[w] \in Sending \cup {"recv"} /\ turn[w] \in left
             \/ pc[w] \in Checking /\ site[Checked(w)] = "nostat"
             \/ pc[w] = "list" /\ site["dir"] # "readable"
  <2>1. AcceptFails \/ \E w \in Workers : Dies(w)
    <3>1. ASSUME NEW w \in Workers, HandleClient(w), ~Dies(w) PROVE FALSE
      <4>1. UNCHANGED alive
        BY <3>1, SendsFacts, LooksFacts, ThreadSteps
           DEF Receive, OpenFile, OpenDir, OthersRequest, Closes, CloseEarly, Close, Ends,
               CloseFile, ListDir
      <4>2. QED
        BY <1>3, <4>1
    <3>2. ASSUME AcceptConn \/ (\E w \in Workers : Take(w)) \/ (\E c \in Conns : Leave(c))
                 \/ (\E p \in Paths : Change(p)) \/ UNCHANGED vars
          PROVE  FALSE
      BY <1>3, <3>2 DEF AcceptConn, Take, Leave, Change, vars
    <3>3. QED
      BY <3>1, <3>2, NextIs DEF Quiet
  <2>2. Die
    BY <2>1 DEF AcceptFails, Dies, ReceiveFails, SendFails, OpenDirFails, CheckFails,
                ListDirFails
  <2>3. Cause
    <3>1. CASE AcceptFails
      BY <3>1 DEF AcceptFails
    <3>2. ASSUME NEW w \in Workers, ReceiveFails(w) \/ SendFails(w) PROVE Cause
      <4>1. /\ pc[w] \in Sending \cup {"recv"} /\ pc[w] \notin {"get", "closeAgain"}
            /\ \A c \in Conns \ left : Peer(w) # Conn(c)
        BY <3>2 DEF ReceiveFails, SendFails, Sending
      <4>2. QED
        BY <4>1, DeafFacts
    <3>3. ASSUME NEW w \in Workers, OpenDirFails(w) \/ CheckFails(w) PROVE Cause
      BY <3>3 DEF OpenDirFails, CheckFails, CanOpen
    <3>4. ASSUME NEW w \in Workers, ListDirFails(w), ~Damaged PROVE FALSE
      BY <3>4, ItemFacts DEF ListDirFails, SafeInv, Clean, FilesInv, FilesOf
    <3>5. QED
      BY <2>1, <3>1, <3>2, <3>3, <3>4 DEF Dies
  <2>4. Cause'
    BY <2>2, <2>3 DEF Die, queue, locals, FreeFds, Damaged, HandedTwice, Checked
  <2>5. QED
    BY <2>4 DEF EndsForCause
<1>4. QED
  BY <1>1, <1>2, <1>3 DEF SafeInv, TypesInv, Types

\* The process ends only when it may open no more descriptors, when a thread talks
\* to a client that has gone, when stat fails on what a thread asks about or the
\* directory it announced cannot be opened, or after a wrong close
\* (torero-serve.cpp:111-133, 209, 212, 227, 248, 477-483).
THEOREM EndsOnlyForCause == Spec => []EndsForCause
<1>1. Init => EndsForCause
  BY DEF Init, EndsForCause
<1>2. SafeInv /\ EndsForCause /\ [Next]_vars => EndsForCause'
  BY CausesStep
<1>3. QED
  BY SafeAlways, <1>1, <1>2, PTL DEF Spec

\* The first close to hit another's descriptor is the second one of a client that
\* was announced a page which then could not be opened (torero-serve.cpp:319, 198).
THEOREM WrongCloseIsSecond == Spec => FirstWrongClose
<1>1. ASSUME SafeInv, [Next]_vars, ~Damaged, struck'
      PROVE  \E w \in Workers :
               LET c == turn[w]
               IN  /\ pc[w] = "closeAgain" /\ pc'[w] = "get"
                   /\ c \notin left =>
                        reply[c] = <<[what |-> "200", for |-> c],
                                     [what |-> "404", for |-> c]>>
  <2>1. ~struck /\ TypesInv /\ HandsInv /\ FilesInv /\ RepliesInv /\ DescriptorInv
    BY <1>1 DEF Damaged, SafeInv, Clean
  <2>2. PICK w \in Workers : Closes(w) \/ Ends(w)
    <3>1. ~Quiet /\ ~AcceptConn /\ \A w \in Workers : ~Take(w)
      BY <1>1, <2>1, QuietFacts DEF AcceptConn, Take
    <3>2. PICK w \in Workers : HandleClient(w)
      BY <1>1, <3>1, NextIs
    <3>3. Closes(w) \/ Ends(w)
      BY <1>1, <2>1, <3>2, SendsFacts, LooksFacts, DiesFacts, ThreadSteps
         DEF Receive, OpenFile, OpenDir, OthersRequest
    <3>4. QED
      BY <3>3
  <2>3. ~Ends(w)
    BY <1>1, <2>1 DEF Ends, CloseFile, ListDir, CloseFd, Goto, FilesInv, FilesOf
  <2>4. ~(Closes(w) /\ pc[w] # "closeAgain")
    <3>1. SUFFICES ASSUME Closes(w), pc[w] # "closeAgain" PROVE FALSE
      OBVIOUS
    <3>2. pc[w] # "get" /\ CloseFd(client_sock[w], Conn(turn[w]))
      BY <3>1 DEF Closes, CloseEarly, Close, Goto
    <3>3. fdTable[client_sock[w]] = Conn(turn[w])
      BY <2>1, <3>1, <3>2, OwnFacts DEF Peer
    <3>4. QED
      BY <1>1, <2>1, <3>2, <3>3 DEF CloseFd
  <2>5. pc[w] = "closeAgain" /\ pc'[w] = "get"
    BY <2>1, <2>2, <2>3, <2>4 DEF Closes, CloseEarly, Close, Goto, TypesInv, Types
  <2>6. turn[w] \notin left => Got(w) = <<Part("200", turn[w]), Part("404", turn[w])>>
    BY <2>1, <2>5 DEF RepliesInv, RepliesOf
  <2>7. QED
    BY <2>5, <2>6 DEF Got, Part
<1>2. SafeInv /\ [Next]_vars
        => [~Damaged /\ struck' =>
              \E w \in Workers :
                LET c == turn[w]
                IN  /\ pc[w] = "closeAgain" /\ pc'[w] = "get"
                    /\ c \notin left =>
                         reply[c] = <<[what |-> "200", for |-> c],
                                      [what |-> "404", for |-> c]>>]_vars
  BY <1>1
<1>3. QED
  BY SafeAlways, <1>2, PTL DEF Spec, FirstWrongClose

-----------------------------------------------------------------------------
(* The refinement of HttpService.                                          *)

ClosedConns == {c \in 1 .. accepted : Closed(c)}

LEMMA FirstOf ==
  ASSUME NEW a, NEW b
  PROVE  SubSeq(<<a>>, 1, 1) = <<a>> /\ SubSeq(<<a, b>>, 1, 1) = <<a>>
<1>1. /\ <<a>> \in Seq({a, b}) /\ Len(<<a>>) = 1 /\ <<a>>[1] = a
      /\ <<a, b>> \in Seq({a, b}) /\ Len(<<a, b>>) = 2 /\ <<a, b>>[1] = a
  OBVIOUS
<1>2. ASSUME NEW s \in Seq({a, b}), Len(s) \in {1, 2}, s[1] = a
      PROVE  SubSeq(s, 1, 1) = <<a>>
  <2>1. \A i \in 1 .. 1 : s[i] \in {a, b}
    BY <1>2
  <2>2. /\ SubSeq(s, 1, 1) \in Seq({a, b}) /\ Len(SubSeq(s, 1, 1)) = 1
        /\ \A i \in 1 .. 1 : SubSeq(s, 1, 1)[i] = s[1 + i - 1]
    BY <1>2, <2>1, SubSeqProperties
  <2>3. \A i \in 1 .. 1 : SubSeq(s, 1, 1)[i] = <<a>>[i]
    <3>1. SubSeq(s, 1, 1)[1] = a
      BY <1>2, <2>2
    <3>2. QED
      BY <3>1
  <2>4. QED
    BY <1>1, <2>2, <2>3, SeqEqual
<1>3. QED
  BY <1>1, <1>2

\* What a thread sends a client that is still there is the next part of a reply.
LEMMA SendsSay ==
  ASSUME SafeInv, Clean, NEW w \in Workers, Sends(w), NEW c, c = turn[w], c \notin left
  PROVE  Http!Say(c)
<1>1. TypesInv /\ DescriptorInv /\ HandsInv /\ RepliesInv /\ RepliesOf(w)
  BY DEF SafeInv, Clean, RepliesInv
<1>2. PICK what : /\ Prolongs(what, w)
                  /\ reply' = [reply EXCEPT ![c] = Append(@, Part(what, c))]
  BY <1>1, SendsReply
<1>3. c \in Conns /\ pc[w] \notin {"get", "recv", "closeAgain"}
  BY <1>1, SendsReply, SendsFacts
<1>4. c <= accepted /\ client_sock[w] \in Fds /\ fdTable[client_sock[w]] = Conn(c)
  BY <1>1, <1>3, OwnFacts DEF Peer
<1>5. c \notin ClosedConns
  BY <1>4 DEF ClosedConns, Closed
<1>6. UNCHANGED <<accepted, request, left, fdTable>>
  BY SendsFacts DEF queue, clients
<1>7. ClosedConns' = ClosedConns
  BY <1>6 DEF ClosedConns, Closed
<1>8. PICK r \in Http!Replies(c) :
        /\ Len(reply[c]) < Len(r) /\ Http!IsPrefix(reply[c], r)
        /\ r[Len(reply[c]) + 1] = Part(what, c)
  <2>1. Complete(received_data[w], c) \subseteq Http!Replies(c)
    BY <1>1, <1>3, HeardFacts DEF RepliesOf
  <2>2. CASE reply[c] = <<>>
    <3>1. \A r : Len(r) \in Nat => SubSeq(<<>>, 1, 0) = SubSeq(r, 1, 0)
      OBVIOUS
    <3>2. PICK r \in Complete(received_data[w], c) : Len(r) \in {1, 2} /\ r[1] = Part(what, c)
      <4>1. CASE what = "400" /\ received_data[w] = "bad"
        BY <4>1 DEF Complete
      <4>2. CASE what = "404" /\ received_data[w] \in Pages
        BY <4>2 DEF Complete, Pages
      <4>3. CASE what = "200" /\ received_data[w] \in Pages
        <5>1. <<Part("200", c), Part("body", c)>> \in Complete(received_data[w], c)
          BY <4>3 DEF Complete, Pages
        <5>2. Len(<<Part("200", c), Part("body", c)>>) = 2
              /\ <<Part("200", c), Part("body", c)>>[1] = Part("200", c)
          OBVIOUS
        <5>3. QED
          BY <4>3, <5>1, <5>2
      <4>4. QED
        BY <1>2, <2>2, <4>1, <4>2, <4>3 DEF Prolongs, Got
    <3>3. Len(reply[c]) = 0 /\ Http!IsPrefix(reply[c], r)
      BY <2>2, <3>1, <3>2 DEF Http!IsPrefix
    <3>4. QED
      BY <2>1, <2>2, <3>2, <3>3
  <2>3. CASE reply[c] # <<>>
    <3> DEFINE a == Part("200", c)
               b == Part(what, c)
    <3>1. reply[c] = <<a>> /\ <<a, b>> \in Complete(received_data[w], c)
      BY <1>2, <2>3 DEF Prolongs, Got, Complete, Pages
    <3>2. /\ Len(<<a>>) = 1 /\ Len(<<a, b>>) = 2 /\ <<a, b>>[2] = b
          /\ SubSeq(<<a>>, 1, 1) = <<a>> /\ SubSeq(<<a, b>>, 1, 1) = <<a>>
      BY FirstOf
    <3>3. Http!IsPrefix(<<a>>, <<a, b>>)
      BY <3>2 DEF Http!IsPrefix
    <3>4. QED
      BY <2>1, <3>1, <3>2, <3>3
  <2>4. QED
    BY <2>2, <2>3
<1>9. \E s \in Http!Replies(c) :
        /\ Len(reply[c]) < Len(s) /\ Http!IsPrefix(reply[c], s)
        /\ reply' = [reply EXCEPT ![c] = Append(@, s[Len(@) + 1])]
  BY <1>2, <1>8
<1>10. QED
  BY <1>4, <1>5, <1>6, <1>7, <1>9 DEF Http!Say, ClosedConns

\* A connection that is closed has had its reply, or its client has gone.
LEMMA CloseCloses ==
  ASSUME SafeInv, Clean, ~struck', NEW w \in Workers, Closes(w), NEW c, c = turn[w],
         fdTable[client_sock[w]] = Conn(c)
  PROVE  Http!Close(c)
<1>1. TypesInv /\ DescriptorInv /\ HandsInv /\ RepliesInv /\ RepliesOf(w)
  BY DEF SafeInv, Clean, RepliesInv
<1>2. /\ pc[w] \in {"close", "closeEarly", "closeAgain"}
      /\ UNCHANGED <<accepted, request, left, reply>> /\ client_sock[w] \in Fds
      /\ \A f \in Fds : fdTable'[f] = IF f = client_sock[w] THEN Unused ELSE fdTable[f]
  BY <1>1, CloseFacts DEF queue, clients
<1>3. /\ c \in Conns /\ c <= accepted
      /\ \A f \in Fds : fdTable[f] = Conn(c) => f = client_sock[w]
  BY <1>1, <1>2, OwnFacts
<1>4. c \in left \/ reply[c] \in Http!Replies(c)
  <2>1. Complete(received_data[w], c) \subseteq Http!Replies(c)
    BY <1>1, <1>2, <1>3, HeardFacts DEF RepliesOf
  <2>2. c \in left \/ reply[c] \in Complete(received_data[w], c)
    BY <1>1, <1>2 DEF RepliesOf, Got, Complete, Pages
  <2>3. QED
    BY <2>1, <2>2
<1>5. c \notin ClosedConns
  BY <1>2 DEF ClosedConns, Closed
<1>6. \A d \in 1 .. accepted :
        (\A f \in Fds : fdTable'[f] # Conn(d)) <=> (d \in ClosedConns \/ d = c)
  BY <1>2, <1>3, ItemFacts DEF ClosedConns, Closed
<1>7. c \in 1 .. accepted
  BY <1>1, <1>3, QueueFacts, SizeAssumption DEF Conns
<1>8. ClosedConns' = ClosedConns \cup {c}
  BY <1>2, <1>6, <1>7 DEF ClosedConns, Closed
<1>9. QED
  BY <1>2, <1>3, <1>4, <1>5, <1>8 DEF Http!Close, ClosedConns

LEMMA AcceptAccepts ==
  ASSUME TypesInv, DescriptorInv, AcceptConn
  PROVE  Http!Accept
<1>1. /\ accepted \in Nat /\ accepted' = accepted + 1 /\ UNCHANGED <<reply, left>>
      /\ accepted + 1 \in Conns
  BY SizeAssumption DEF AcceptConn, Queue!Accept, TypesInv, Types, Conns
<1>2. PICK k \in Kinds, s \in Arrivals :
        request' = [request EXCEPT ![accepted + 1] = Request(k, s)]
  BY <1>1 DEF AcceptConn
<1>3. ASSUME NEW c \in 1 .. accepted PROVE request'[c] = request[c]
  <2>1. c # accepted + 1 /\ c \in Conns
    BY <1>1, SizeAssumption DEF Conns
  <2>2. QED
    BY <1>2, <2>1 DEF TypesInv, Types
<1>4. /\ LowestFree \in Fds /\ fdTable[LowestFree] = Unused
      /\ \A f \in Fds : fdTable'[f] = IF f = LowestFree THEN Conn(accepted + 1)
                                                       ELSE fdTable[f]
  BY <1>1, Lowest DEF AcceptConn, TypesInv, Types
<1>5. \A c \in 1 .. accepted : c # accepted + 1 /\ c \in 1 .. accepted + 1
  BY <1>1
<1>6. \A c \in 1 .. accepted + 1 : c \in 1 .. accepted \/ c = accepted + 1
  BY <1>1
<1>7. \A c \in 1 .. accepted :
        (\A f \in Fds : fdTable'[f] # Conn(c)) <=> (\A f \in Fds : fdTable[f] # Conn(c))
  BY <1>4, <1>5, ItemFacts
<1>8. ClosedConns' = ClosedConns
  BY <1>1, <1>4, <1>5, <1>6, <1>7 DEF ClosedConns, Closed
<1>9. QED
  BY <1>1, <1>3, <1>8 DEF Http!Accept, ClosedConns

\* Nothing else concerns the clients but their leaving.
LEMMA OthersStutter ==
  ASSUME SafeInv, Clean, ~struck',
         \/ AcceptFails \/ UNCHANGED vars \/ \E p \in Paths : Change(p)
         \/ \E w \in Workers :
              \/ Take(w)
              \/ HandleClient(w) /\ ~Sends(w) /\ ~Closes(w)
              \/ Sends(w) /\ turn[w] \in left
              \/ Closes(w) /\ fdTable[client_sock[w]] # Conn(turn[w])
  PROVE  UNCHANGED <<accepted, request, left, reply, ClosedConns>>
<1>1. TypesInv /\ DescriptorInv /\ HandsInv /\ FilesInv
  BY DEF SafeInv, Clean
<1>2. CASE AcceptFails \/ UNCHANGED vars \/ \E p \in Paths : Change(p)
  BY <1>2 DEF AcceptFails, Die, Change, vars, queue, clients, ClosedConns, Closed
<1>3. ASSUME NEW w \in Workers, Take(w)
      PROVE  UNCHANGED <<accepted, request, left, reply, ClosedConns>>
  BY <1>3 DEF Take, Queue!Take, clients, ClosedConns, Closed
<1>4. ASSUME NEW w \in Workers, HandleClient(w), ~Sends(w), ~Closes(w)
      PROVE  UNCHANGED <<accepted, request, left, reply, ClosedConns>>
  <2>1. UNCHANGED <<accepted, request, left>>
    BY <1>1, <1>4, ThreadFacts DEF queue, clients
  <2>2. reply' = reply
    BY <1>4, LooksFacts, DiesFacts, ThreadSteps
       DEF Receive, OpenFile, OpenDir, OthersRequest, Ends, CloseFile, ListDir
  <2>3. \A c \in 1 .. accepted : c \in Conns
    BY <1>1, SizeAssumption DEF TypesInv, Types, Conns
  <2>4. \A c \in 1 .. accepted, f \in Fds : fdTable'[f] = Conn(c) <=> fdTable[f] = Conn(c)
    BY <1>1, <1>4, <2>3, SocketsStay
  <2>5. QED
    BY <2>1, <2>2, <2>4 DEF ClosedConns, Closed
<1>5. ASSUME NEW w \in Workers, Sends(w), turn[w] \in left
      PROVE  UNCHANGED <<accepted, request, left, reply, ClosedConns>>
  <2>1. UNCHANGED <<accepted, request, left, fdTable>>
    BY <1>5, SendsFacts DEF queue, clients
  <2>2. reply' = reply
    BY <1>1, <1>5, SendsReply
  <2>3. QED
    BY <2>1, <2>2 DEF ClosedConns, Closed
<1>6. ASSUME NEW w \in Workers, Closes(w), fdTable[client_sock[w]] # Conn(turn[w])
      PROVE  UNCHANGED <<accepted, request, left, reply, ClosedConns>>
  <2>1. /\ UNCHANGED <<accepted, request, left, reply>>
        /\ fdTable[client_sock[w]] = Unused
        /\ \A f \in Fds : fdTable'[f] = IF f = client_sock[w] THEN Unused ELSE fdTable[f]
    BY <1>1, <1>6, CloseFacts DEF queue, clients
  <2>2. \A f \in Fds : fdTable'[f] = fdTable[f]
    BY <2>1
  <2>3. QED
    BY <2>1, <2>2 DEF ClosedConns, Closed
<1>7. QED
  BY <1>2, <1>3, <1>4, <1>5, <1>6

\* Whatever clients send and whenever they leave, whatever fails and however many
\* threads there are: until two threads hold one number, each client receives one
\* appropriate reply, whole and in order, and then the close
\* (torero-serve.cpp:139-140).
THEOREM AnswersEveryone == Spec => HttpSpec
<1>1. Init => Http!Init
  <2>1. SUFFICES ASSUME Init PROVE Http!Init
    OBVIOUS
  <2>2. /\ accepted = 0 /\ handed = <<>> /\ left = {} /\ struck = FALSE
        /\ reply = [c \in Conns |-> <<>>]
    BY <2>1 DEF Init, Queue!Init
  <2>3. 1 .. accepted = {} /\ ~Damaged
    BY <2>2 DEF Damaged, HandedTwice
  <2>4. QED
    BY <2>2, <2>3 DEF Http!Init
<1>2. SafeInv /\ [Next]_vars => [Http!Next]_(Http!hvars)
  <2> SUFFICES ASSUME SafeInv, [Next]_vars
               PROVE  Http!Next \/ UNCHANGED Http!hvars
    OBVIOUS
  <2>1. CASE Damaged'
    BY <2>1 DEF Http!Next, Http!Break
  <2>2. CASE ~Damaged'
    <3>1. ~Damaged /\ Clean /\ ~struck' /\ TypesInv /\ DescriptorInv
      BY <2>2, DamagedStays DEF SafeInv, Damaged
    <3>2. ASSUME NEW w \in Workers, Sends(w), turn[w] \notin left PROVE Http!Next
      <4>1. PICK c \in Conns : c = turn[w]
        BY <3>1, <3>2, SendsReply
      <4>2. Http!Say(c)
        BY <3>1, <3>2, <4>1, SendsSay
      <4>3. QED
        BY <2>2, <4>2 DEF Http!Next
    <3>3. ASSUME NEW w \in Workers, Closes(w), fdTable[client_sock[w]] = Conn(turn[w])
          PROVE  Http!Next
      <4>1. PICK c \in Conns : c = turn[w]
        BY <3>1, <3>3, QueueFacts DEF Closes, CloseEarly, Close, Goto
      <4>2. Http!Close(c)
        BY <3>1, <3>3, <4>1, CloseCloses
      <4>3. QED
        BY <2>2, <4>2 DEF Http!Next
    <3>4. CASE AcceptConn
      BY <2>2, <3>1, <3>4, AcceptAccepts DEF Http!Next
    <3>5. ASSUME NEW c \in Conns, Leave(c) PROVE Http!Next
      <4>1. /\ c <= accepted /\ c \notin left /\ left' = left \cup {c}
            /\ UNCHANGED <<accepted, request, reply, fdTable>>
        BY <3>5 DEF Leave, queue
      <4>2. Http!Leave(c)
        BY <4>1 DEF Http!Leave, Closed
      <4>3. QED
        BY <2>2, <4>2 DEF Http!Next
    <3>6. CASE UNCHANGED <<accepted, request, left, reply, ClosedConns>>
      <4>1. Damaged' = Damaged
        BY <2>2, <3>1 DEF Damaged
      <4>2. QED
        BY <3>6, <4>1 DEF Http!hvars, ClosedConns
    <3>7. QED
      <4>1. ASSUME NEW w \in Workers, HandleClient(w)
            PROVE  Http!Next \/ UNCHANGED Http!hvars
        BY <3>1, <3>2, <3>3, <3>6, <4>1, OthersStutter
      <4>2. QED
        BY <3>1, <3>4, <3>5, <3>6, <4>1, OthersStutter, NextIs DEF Quiet
  <2>3. QED
    BY <2>1, <2>2
<1>3. QED
  BY <1>1, <1>2, SafeAlways, PTL DEF Spec, HttpSpec, Http!Spec
==============================================================================
