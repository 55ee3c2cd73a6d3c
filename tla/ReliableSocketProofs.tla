------------------------- MODULE ReliableSocketProofs -------------------------
(***************************************************************************)
(* What a transfer over ReliableSocket is worth for any input, any mishaps *)
(* and any number of them: which of them can spoil the output and how, why *)
(* the two programs end, and that over a network that behaves the output   *)
(* is the input.                                                           *)
(***************************************************************************)
EXTENDS ReliableSocket, SequenceTheorems, TLAPS

-----------------------------------------------------------------------------
(* The inductive invariant.                                                *)

\* Two segments of which a was sent first, or is a copy of b.
Good(a, b) ==
  /\ "reorder" \notin may /\ a.type = "DATA" /\ b.type = "DATA" =>
       a.piece <= b.piece
  /\ "duplicate" \notin may => ~(a.type = b.type /\ a.piece = b.piece)

Chain(s)   == \A j, k \in DOMAIN s : j < k => Good(s[j], s[k])
Then(s, t) == \A j \in DOMAIN s, k \in DOMAIN t : Good(s[j], t[k])

\* What has been written, what is in the receiver's socket and what is under way
\* are, in this order, what was sent.
OrderInv ==
  /\ Chain(received) /\ Chain(queue) /\ Chain(net)
  /\ Then(received, queue) /\ Then(received, net) /\ Then(queue, net)

\* Where segments come from: the sender has sent each of them, CLOSE last, and one
\* CONN, which the receiver takes first.
From(e) ==
  /\ sender # "INIT"
  /\ e.type = "DATA"  => e.piece <= read
  /\ e.type = "CLOSE" => sender = "closed"
  /\ e.type = "CONN" /\ receiver \in {"ESTABLISHED", "closed"} => "duplicate" \in may

Sent(s) == \A k \in DOMAIN s : From(s[k])

SentInv ==
  /\ Sent(queue) /\ Sent(net)
  /\ \A k \in DOMAIN received :
       received[k].type = "DATA" /\ received[k].piece <= read
  /\ receiver \in {"ESTABLISHED", "closed"} => sender # "INIT"

\* An ICMP error is due to a receiver that was not there.
RefusedInv ==
  /\ receiver = "unbound" => "late" \in may
  /\ refused => "late" \in may \/ receiver \in {"closed", "failed"}

IInv == TypeOK /\ OrderInv /\ SentInv /\ RefusedInv /\ EndsRightly

-----------------------------------------------------------------------------
(* A network that behaves.                                                 *)

\* Segments in the order of sending: 0 is CONN, read + 1 is CLOSE.
Is(e, n) ==
  /\ e.type = IF n = 0 THEN "CONN" ELSE IF n <= read THEN "DATA" ELSE "CLOSE"
  /\ e.piece = IF n <= read THEN n ELSE 0

\* The next that the receiver will read, and the next that will be sent.
NextNo == IF receiver = "accepting" THEN 0 ELSE Len(received) + 1
LastNo  == IF sender = "closed" THEN read + 1 ELSE read

\* The receiver's socket and the network hold all of them from the one to the other.
PipeInv ==
  Bound =>
    /\ sender = "INIT" => queue = <<>> /\ net = <<>> /\ receiver = "accepting"
    /\ sender # "INIT" => NextNo + Len(queue) + Len(net) = LastNo + 1
    /\ \A k \in DOMAIN queue : Is(queue[k], NextNo + k - 1)
    /\ \A k \in DOMAIN net : Is(net[k], NextNo + Len(queue) + k - 1)

\* The output is the beginning of the input, and all of it in the end.
ExactInv ==
  Reliable =>
    /\ PipeInv
    /\ refused = FALSE
    /\ receiver \in {"accepting", "ESTABLISHED", "closed"}
    /\ receiver = "accepting" => received = <<>>
    /\ sender \in {"INIT", "ESTABLISHED", "closed"}
    /\ sender = "INIT" => read = 0
    /\ sender = "closed" => read = total
    /\ \A k \in DOMAIN received : received[k].piece = k
    /\ Len(received) <= read
    /\ receiver = "closed" => sender = "closed" /\ Len(received) = total

-----------------------------------------------------------------------------
(* Sequences with an element removed or doubled.                           *)

LEMMA JoinFacts ==
  ASSUME NEW S, NEW a \in Seq(S), NEW b \in Seq(S)
  PROVE  /\ a \o b \in Seq(S) /\ Len(a \o b) = Len(a) + Len(b)
         /\ \A k \in 1 .. Len(a) : (a \o b)[k] = a[k]
         /\ \A k \in 1 .. Len(b) : (a \o b)[Len(a) + k] = b[k]
<1> DEFINE c == a \o b
<1>1. Len(a) \in Nat /\ Len(b) \in Nat
  BY LenProperties
<1>2. /\ c \in Seq(S) /\ Len(c) = Len(a) + Len(b)
      /\ \A i \in 1 .. Len(a) + Len(b) :
           c[i] = IF i <= Len(a) THEN a[i] ELSE b[i - Len(a)]
  BY ConcatProperties
<1> HIDE DEF c
<1>3. \A k \in 1 .. Len(a) : c[k] = a[k]
  BY <1>1, <1>2
<1>4. ASSUME NEW k \in 1 .. Len(b)
      PROVE  c[Len(a) + k] = b[k]
  <2>1. /\ Len(a) + k \in 1 .. Len(a) + Len(b)
        /\ ~(Len(a) + k <= Len(a)) /\ (Len(a) + k) - Len(a) = k
    BY <1>1
  <2>2. c[Len(a) + k] = b[(Len(a) + k) - Len(a)]
    BY <1>2, <2>1
  <2>3. QED
    BY <2>1, <2>2
<1>5. QED
  BY <1>2, <1>3, <1>4 DEF c

\* The first n elements, and all but the first n.
LEMMA PartFacts ==
  ASSUME NEW S, NEW s \in Seq(S), NEW n \in 0 .. Len(s)
  PROVE  /\ SubSeq(s, 1, n) \in Seq(S) /\ Len(SubSeq(s, 1, n)) = n
         /\ \A k \in 1 .. n : SubSeq(s, 1, n)[k] = s[k]
         /\ SubSeq(s, n + 1, Len(s)) \in Seq(S)
         /\ Len(SubSeq(s, n + 1, Len(s))) = Len(s) - n
         /\ \A k \in 1 .. Len(s) - n : SubSeq(s, n + 1, Len(s))[k] = s[n + k]
<1>1. Len(s) \in Nat /\ n \in Nat /\ \A k \in 1 .. Len(s) : s[k] \in S
  BY LenProperties, ElementOfSeq
<1>2. QED
  BY <1>1, SubSeqProperties

LEMMA RemoveFacts ==
  ASSUME NEW S, NEW s \in Seq(S), NEW i \in DOMAIN s
  PROVE  /\ RemoveAt(s, i) \in Seq(S)
         /\ Len(RemoveAt(s, i)) = Len(s) - 1
         /\ \A k \in 1 .. Len(s) - 1 :
              RemoveAt(s, i)[k] = s[IF k < i THEN k ELSE k + 1]
<1> DEFINE a == SubSeq(s, 1, i - 1)
           b == SubSeq(s, i + 1, Len(s))
           c == a \o b
<1>1. i \in 1 .. Len(s) /\ Len(s) \in Nat
  BY LenProperties
<1>2. /\ a \in Seq(S) /\ \A k \in 1 .. i - 1 : a[k] = s[k]
      /\ b \in Seq(S) /\ \A k \in 1 .. Len(s) - i : b[k] = s[i + k]
  BY <1>1, PartFacts
<1>3. Len(a) = i - 1 /\ Len(b) = Len(s) - i
  BY <1>1, PartFacts
<1>4. RemoveAt(s, i) = c
  BY DEF RemoveAt
<1> HIDE DEF a, b
<1>5. /\ c \in Seq(S)
      /\ \A k \in 1 .. Len(a) : c[k] = a[k]
      /\ \A k \in 1 .. Len(b) : c[Len(a) + k] = b[k]
  BY <1>2, JoinFacts
<1>6. Len(c) = Len(a) + Len(b)
  BY <1>2, JoinFacts
<1> HIDE DEF c
<1>7. ASSUME NEW k \in 1 .. Len(s) - 1
      PROVE  c[k] = s[IF k < i THEN k ELSE k + 1]
  <2>1. CASE k < i
    BY <1>1, <1>2, <1>3, <1>5, <2>1
  <2>2. CASE k >= i
    <3> DEFINE n == Len(s)
    <3>0. i \in 1 .. n /\ n \in Nat /\ k \in 1 .. n - 1
      BY <1>1
    <3> HIDE DEF n
    <3>1. k - i + 1 \in 1 .. n - i /\ (i - 1) + (k - i + 1) = k /\ i + (k - i + 1) = k + 1
      BY <3>0, <2>2
    <3>2. c[k] = b[k - i + 1]
      <4>1. k - i + 1 \in 1 .. Len(b)
        BY <1>3, <3>1 DEF n
      <4>2. c[Len(a) + (k - i + 1)] = b[k - i + 1]
        BY <1>5, <4>1
      <4>3. QED
        BY <1>3, <3>1, <4>2
    <3>3. b[k - i + 1] = s[k + 1]
      BY <1>2, <3>1 DEF n
    <3>4. QED
      BY <1>1, <2>2, <3>2, <3>3
  <2>3. QED
    BY <1>1, <2>1, <2>2
<1>8. QED
  BY <1>1, <1>3, <1>4, <1>5, <1>6, <1>7

\* An element doubled: what comes from it on, behind what comes up to it.
LEMMA InsertFacts ==
  ASSUME NEW S, NEW s \in Seq(S), NEW i \in DOMAIN s
  PROVE  /\ InsertAt(s, i, s[i]) \in Seq(S)
         /\ Len(InsertAt(s, i, s[i])) = Len(s) + 1
         /\ \A k \in 1 .. Len(s) + 1 :
              InsertAt(s, i, s[i])[k] = s[IF k <= i THEN k ELSE k - 1]
<1> DEFINE a == SubSeq(s, 1, i - 1) \o <<s[i]>>
           b == SubSeq(s, i, Len(s))
           c == a \o b
<1>1. i \in 1 .. Len(s) /\ Len(s) \in Nat
  BY LenProperties
<1>2. a = SubSeq(s, 1, i)
  BY <1>1, SubSeqRecursiveSecond
<1>3. i - 1 \in 0 .. Len(s) /\ (i - 1) + 1 = i
  BY <1>1
<1>4. /\ a \in Seq(S) /\ \A k \in 1 .. i : a[k] = s[k]
      /\ b \in Seq(S) /\ \A k \in 1 .. Len(s) - (i - 1) : b[k] = s[(i - 1) + k]
  <2>1. a \in Seq(S) /\ \A k \in 1 .. i : a[k] = s[k]
    <3>1. i \in 0 .. Len(s)
      BY <1>1
    <3>2. /\ SubSeq(s, 1, i) \in Seq(S)
          /\ \A k \in 1 .. i : SubSeq(s, 1, i)[k] = s[k]
      BY <3>1, PartFacts
    <3> HIDE DEF a
    <3>3. QED
      BY <1>2, <3>2
  <2>2. b \in Seq(S) /\ \A k \in 1 .. Len(s) - (i - 1) : b[k] = s[(i - 1) + k]
    BY <1>3, PartFacts
  <2>3. QED
    BY <2>1, <2>2
<1>5. Len(a) = i /\ Len(b) = Len(s) - (i - 1)
  <2>1. Len(a) = i
    BY <1>1, <1>2, PartFacts
  <2>2. Len(b) = Len(s) - (i - 1)
    BY <1>3, PartFacts
  <2>3. QED
    BY <2>1, <2>2
<1>6. InsertAt(s, i, s[i]) = c
  BY DEF InsertAt
<1> HIDE DEF a, b
<1>7. /\ c \in Seq(S)
      /\ \A k \in 1 .. Len(a) : c[k] = a[k]
      /\ \A k \in 1 .. Len(b) : c[Len(a) + k] = b[k]
  BY <1>4, JoinFacts
<1>8. Len(c) = Len(a) + Len(b)
  BY <1>4, JoinFacts
<1> HIDE DEF c
<1>9. ASSUME NEW k \in 1 .. Len(s) + 1
      PROVE  c[k] = s[IF k <= i THEN k ELSE k - 1]
  <2>1. CASE k <= i
    BY <1>1, <1>4, <1>5, <1>7, <2>1
  <2>2. CASE k > i
    <3> DEFINE n == Len(s)
    <3>0. i \in 1 .. n /\ n \in Nat /\ k \in 1 .. n + 1
      BY <1>1
    <3> HIDE DEF n
    <3>1. k - i \in 1 .. n - (i - 1) /\ i + (k - i) = k /\ (i - 1) + (k - i) = k - 1
      BY <3>0, <2>2
    <3>2. c[k] = b[k - i]
      BY <1>5, <1>7, <3>1 DEF n
    <3>3. b[k - i] = s[k - 1]
      BY <1>4, <3>1 DEF n
    <3>4. QED
      BY <1>1, <2>2, <3>2, <3>3
  <2>3. QED
    BY <1>1, <2>1, <2>2
<1>10. QED
  BY <1>1, <1>5, <1>6, <1>7, <1>8, <1>9

LEMMA TailFacts ==
  ASSUME NEW S, NEW s \in Seq(S), s # <<>>
  PROVE  /\ Tail(s) \in Seq(S) /\ Len(Tail(s)) = Len(s) - 1
         /\ \A k \in 1 .. Len(s) - 1 : Tail(s)[k] = s[k + 1]
         /\ Head(s) = s[1] /\ Head(s) \in S /\ 1 \in DOMAIN s
         /\ Len(s) \in Nat \ {0}
BY HeadTailProperties, LenProperties, EmptySeq, ElementOfSeq

LEMMA AppendFacts ==
  ASSUME NEW S, NEW s \in Seq(S), NEW e \in S
  PROVE  /\ Append(s, e) \in Seq(S) /\ Len(Append(s, e)) = Len(s) + 1
         /\ \A k \in 1 .. Len(s) : Append(s, e)[k] = s[k]
         /\ Append(s, e)[Len(s) + 1] = e
BY AppendProperties, LenProperties

-----------------------------------------------------------------------------
(* Types.                                                                  *)

LEMMA SegmentFacts ==
  /\ Header("CONN") \in Segments /\ Header("CLOSE") \in Segments
  /\ \A s \in 0 .. SeqLimit - 1, i \in 1 .. MaxPieces : Data(s, i) \in Segments
BY DEF Segments

LEMMA FieldFacts ==
  /\ Header("CONN").type = "CONN" /\ Header("CLOSE").type = "CLOSE"
  /\ Header("CONN").piece = 0 /\ Header("CLOSE").piece = 0
  /\ \A s, i : Data(s, i).type = "DATA" /\ Data(s, i).piece = i
BY DEF Header, Data

LEMMA SegmentTypes ==
  ASSUME NEW e \in Segments
  PROVE  /\ e.type \in {"CONN", "CLOSE", "DATA"} /\ e.piece \in Nat
         /\ e.type # "DATA" => e.piece = 0
<1>1. CASE e = Header("CONN") \/ e = Header("CLOSE")
  BY <1>1 DEF Header
<1>2. CASE \E s \in 0 .. SeqLimit - 1, i \in 1 .. MaxPieces : e = Data(s, i)
  BY <1>2, BoundAssumption DEF Data
<1>3. QED
  BY <1>1, <1>2 DEF Segments

LEMMA InitNumbers ==
  0 \in 0 .. MaxFaults /\ 0 \in 0 .. SeqLimit - 1 /\ \A n \in Nat : 0 \in 0 .. n
BY BoundAssumption

LEMMA InitIInv == Init => IInv
<1>1. SUFFICES ASSUME Init PROVE IInv
  OBVIOUS
<1>2. TypeOK
  <2>1. <<>> \in Seq(Segments)
    BY EmptySeq
  <2>2. QED
    <3>1. may \subseteq Mishaps /\ total \in 0 .. MaxPieces /\ total \in Nat
      BY <1>1, BoundAssumption DEF Init
    <3>2. net \in Seq(Segments) /\ queue \in Seq(Segments) /\ received \in Seq(Segments)
      BY <1>1, <2>1 DEF Init
    <3>3. QED
      BY <1>1, <3>1, <3>2, InitNumbers DEF Init, TypeOK
<1>3. OrderInv /\ SentInv
  BY <1>1 DEF Init, OrderInv, SentInv, Chain, Then, Sent
<1>4. RefusedInv /\ EndsRightly
  BY <1>1 DEF Init, RefusedInv, EndsRightly
<1>5. QED
  BY <1>2, <1>3, <1>4 DEF IInv

LEMMA TypeStep ==
  ASSUME TypeOK, [Next]_vars
  PROVE  TypeOK'
<1> USE BoundAssumption, SegmentFacts
<1>1. CASE ConnectToRemote
  <2>1. net' = Append(net, Header("CONN"))
    BY <1>1, AppendIsConcat DEF ConnectToRemote, Connect, TypeOK
  <2>2. net' \in Seq(Segments)
    BY <2>1, AppendFacts DEF TypeOK
  <2>3. QED
    BY <1>1, <2>2 DEF ConnectToRemote, Connect, TypeOK, rvars
<1>2. CASE SendData
  <2>1. read' \in 1 .. total /\ sequence_number' \in 0 .. SeqLimit - 1
    BY <1>2 DEF SendData, SendPiece, TypeOK
  <2>2. net' \in Seq(Segments)
    BY <1>2, <2>1, AppendFacts DEF SendData, SendPiece, TypeOK
  <2>3. QED
    BY <1>2, <2>1, <2>2 DEF SendData, SendPiece, TypeOK, rvars
<1>3. CASE SendFails
  BY <1>3 DEF SendFails, Exit, TypeOK, rvars
<1>4. CASE SenderCloses
  <2>1. net' \in Seq(Segments)
    BY <1>4, AppendFacts DEF SenderCloses, CloseConnection, TypeOK
  <2>2. QED
    BY <1>4, <2>1 DEF SenderCloses, CloseConnection, TypeOK, rvars
<1>5. CASE Bind
  BY <1>5 DEF Bind, TypeOK, svars
<1>6. CASE Accept
  <2>1. queue' \in Seq(Segments)
    BY <1>6, TailFacts, EmptySeq DEF Accept, TypeOK
  <2>2. QED
    BY <1>6, <2>1 DEF Accept, TypeOK, svars
<1>7. CASE ReceiveData
  <2>1. queue' \in Seq(Segments) /\ received' \in Seq(Segments)
    BY <1>7, TailFacts, AppendFacts DEF ReceiveData, Write, TypeOK
  <2>2. QED
    BY <1>7, <2>1 DEF ReceiveData, Write, TypeOK, svars
<1>8. CASE ReceiveNothing
  <2>1. queue' \in Seq(Segments)
    BY <1>8, TailFacts, EmptySeq DEF ReceiveNothing, End, TypeOK
  <2>2. QED
    BY <1>8, <2>1 DEF ReceiveNothing, End, TypeOK, svars
<1>9. ASSUME NEW i \in DOMAIN net, Deliver(i) PROVE TypeOK'
  <2>1. net' \in Seq(Segments) /\ queue' \in Seq(Segments) /\ refused' \in BOOLEAN
    <3>1. net' \in Seq(Segments) /\ net[i] \in Segments
      BY <1>9, RemoveFacts, ElementOfSeq, LenProperties DEF Deliver, TypeOK
    <3>2. queue' \in Seq(Segments)
      <4>1. Append(queue, net[i]) \in Seq(Segments)
        BY <3>1, AppendFacts DEF TypeOK
      <4>2. queue' = Append(queue, net[i]) \/ queue' = queue
        BY <1>9 DEF Deliver
      <4>3. QED
        BY <4>1, <4>2 DEF TypeOK
    <3>3. refused' \in BOOLEAN
      BY <1>9 DEF Deliver, TypeOK
    <3>4. QED
      BY <3>1, <3>2, <3>3
  <2>2. QED
    BY <1>9, <2>1 DEF Deliver, TypeOK
<1>10. ASSUME NEW i \in DOMAIN net, Lose(i) \/ Duplicate(i) PROVE TypeOK'
  <2>1. net' \in Seq(Segments)
    BY <1>10, RemoveFacts, InsertFacts DEF Lose, Duplicate, TypeOK
  <2>2. QED
    BY <1>10, <2>1 DEF Lose, Duplicate, TypeOK, svars, rvars
<1>11. CASE UNCHANGED vars
  BY <1>11 DEF vars, svars, rvars, TypeOK
<1>12. QED
  BY <1>1, <1>2, <1>3, <1>4, <1>5, <1>6, <1>7, <1>8, <1>9, <1>10, <1>11
     DEF Next, SenderNext, ReceiverNext, NetNext

-----------------------------------------------------------------------------
(* Order and copies.                                                       *)

\* A sequence t drawn from s, in order but for elements that are Good anyway.
LEMMA Drawn ==
  ASSUME NEW s, NEW t, NEW f \in [DOMAIN t -> DOMAIN s], Chain(s),
         \A k \in DOMAIN t : t[k] = s[f[k]],
         DOMAIN s \subseteq Int,
         \A j, k \in DOMAIN t : j < k => f[j] < f[k] \/ Good(t[j], t[k])
  PROVE  Chain(t) /\ \A u : /\ Then(s, u) => Then(t, u)
                            /\ Then(u, s) => Then(u, t)
<1>1. \A k \in DOMAIN t : f[k] \in DOMAIN s
  OBVIOUS
<1>2. Chain(t)
  <2>1. SUFFICES ASSUME NEW j \in DOMAIN t, NEW k \in DOMAIN t, j < k
                 PROVE  Good(t[j], t[k])
    BY DEF Chain
  <2>2. CASE f[j] < f[k]
    <3>1. Good(s[f[j]], s[f[k]])
      BY <1>1, <2>2 DEF Chain
    <3>2. QED
      BY <3>1
  <2>3. QED
    BY <2>1, <2>2
<1>3. ASSUME NEW u PROVE /\ Then(s, u) => Then(t, u)
                         /\ Then(u, s) => Then(u, t)
  BY <1>1 DEF Then
<1>4. QED
  BY <1>2, <1>3

LEMMA RemoveDrawn ==
  ASSUME NEW s \in Seq(Segments), NEW i \in DOMAIN s, Chain(s)
  PROVE  Chain(RemoveAt(s, i)) /\ \A u : /\ Then(s, u) => Then(RemoveAt(s, i), u)
                                         /\ Then(u, s) => Then(u, RemoveAt(s, i))
<1> DEFINE t == RemoveAt(s, i)
           n == Len(s)
<1>1. /\ t \in Seq(Segments) /\ Len(t) = n - 1
      /\ \A k \in 1 .. n - 1 : t[k] = s[IF k < i THEN k ELSE k + 1]
  BY RemoveFacts
<1>2. DOMAIN t = 1 .. n - 1 /\ DOMAIN s = 1 .. n /\ n \in Nat
  BY <1>1, LenProperties
<1> HIDE DEF t, n
<1> DEFINE f == [k \in DOMAIN t |-> IF k < i THEN k ELSE k + 1]
<1>3. i \in 1 .. n
  BY <1>2
<1>4. f \in [DOMAIN t -> DOMAIN s]
  BY <1>2, <1>3
<1>5. \A k \in DOMAIN t : t[k] = s[f[k]]
  BY <1>1, <1>2
<1>6. \A j, k \in DOMAIN t : j < k => f[j] < f[k]
  BY <1>2, <1>3
<1>7. DOMAIN s \subseteq Int
  BY <1>2
<1> HIDE DEF f
<1>8. Chain(t) /\ \A u : (Then(s, u) => Then(t, u)) /\ (Then(u, s) => Then(u, t))
  BY <1>4, <1>5, <1>6, <1>7, Drawn
<1>9. QED
  BY <1>8 DEF t

\* A datagram may only be doubled where copies are Good.
LEMMA InsertDrawn ==
  ASSUME NEW s \in Seq(Segments), NEW i \in DOMAIN s, Chain(s), "duplicate" \in may
  PROVE  /\ Chain(InsertAt(s, i, s[i]))
         /\ \A u : /\ Then(s, u) => Then(InsertAt(s, i, s[i]), u)
                   /\ Then(u, s) => Then(u, InsertAt(s, i, s[i]))
<1> DEFINE t == InsertAt(s, i, s[i])
           n == Len(s)
<1>1. /\ t \in Seq(Segments) /\ Len(t) = n + 1
      /\ \A k \in 1 .. n + 1 : t[k] = s[IF k <= i THEN k ELSE k - 1]
  BY InsertFacts
<1>2. DOMAIN t = 1 .. n + 1 /\ DOMAIN s = 1 .. n /\ n \in Nat
  BY <1>1, LenProperties
<1>3. \A k \in DOMAIN s : s[k].piece \in Nat
  BY <1>2, ElementOfSeq, SegmentTypes DEF n
<1> HIDE DEF t, n
<1> DEFINE f == [k \in DOMAIN t |-> IF k <= i THEN k ELSE k - 1]
<1>4. i \in 1 .. n
  BY <1>2
<1>5. f \in [DOMAIN t -> DOMAIN s]
  BY <1>2, <1>4
<1>6. \A k \in DOMAIN t : t[k] = s[f[k]]
  BY <1>1, <1>2
<1>7. \A j, k \in DOMAIN t : j < k => f[j] < f[k] \/ f[j] = f[k]
  BY <1>2, <1>4
<1>8. DOMAIN s \subseteq Int
  BY <1>2
<1> HIDE DEF f
<1>9. \A j, k \in DOMAIN t : j < k => f[j] < f[k] \/ Good(t[j], t[k])
  <2>1. SUFFICES ASSUME NEW j \in DOMAIN t, NEW k \in DOMAIN t, f[j] = f[k]
                 PROVE  Good(t[j], t[k])
    BY <1>7
  <2>2. t[j] = t[k] /\ t[j].piece \in Nat
    BY <1>3, <1>5, <1>6, <2>1
  <2>3. QED
    BY <2>2 DEF Good
<1>10. Chain(t) /\ \A u : (Then(s, u) => Then(t, u)) /\ (Then(u, s) => Then(u, t))
  BY <1>5, <1>6, <1>8, <1>9, Drawn
<1>11. QED
  BY <1>10 DEF t

LEMMA TailDrawn ==
  ASSUME NEW s \in Seq(Segments), s # <<>>, Chain(s)
  PROVE  /\ Chain(Tail(s)) /\ Then(<<Head(s)>>, Tail(s))
         /\ \A u : /\ Then(s, u) => Then(Tail(s), u)
                   /\ Then(u, s) => Then(u, Tail(s))
<1> DEFINE t == Tail(s)
           n == Len(s)
<1>1. /\ t \in Seq(Segments) /\ Len(t) = n - 1
      /\ \A k \in 1 .. n - 1 : t[k] = s[k + 1]
  BY TailFacts
<1>2. DOMAIN t = 1 .. n - 1 /\ DOMAIN s = 1 .. n /\ n \in Nat
  BY <1>1, LenProperties
<1>3. Head(s) = s[1] /\ 1 \in DOMAIN s
  BY TailFacts
<1> HIDE DEF t, n
<1> DEFINE f == [k \in DOMAIN t |-> k + 1]
<1>4. f \in [DOMAIN t -> DOMAIN s]
  BY <1>2
<1>5. \A k \in DOMAIN t : t[k] = s[f[k]]
  BY <1>1, <1>2
<1>6. \A j, k \in DOMAIN t : j < k => f[j] < f[k]
  BY <1>2
<1>7. DOMAIN s \subseteq Int /\ \A k \in DOMAIN t : 1 < f[k]
  BY <1>2
<1> HIDE DEF f
<1>8. Chain(t) /\ \A u : (Then(s, u) => Then(t, u)) /\ (Then(u, s) => Then(u, t))
  BY <1>4, <1>5, <1>6, <1>7, Drawn
<1>9. \A k \in DOMAIN t : Good(s[1], t[k])
  <2>1. SUFFICES ASSUME NEW k \in DOMAIN t PROVE Good(s[1], s[f[k]])
    BY <1>5
  <2>2. f[k] \in DOMAIN s /\ 1 < f[k]
    BY <1>4, <1>7
  <2>3. QED
    BY <1>3, <2>2 DEF Chain
<1>10. Then(<<Head(s)>>, t)
  BY <1>3, <1>9 DEF Then
<1>11. QED
  BY <1>8, <1>10 DEF t

LEMMA AppendGood ==
  ASSUME NEW s \in Seq(Segments), NEW e \in Segments
  PROVE  /\ Chain(s) /\ (\A k \in DOMAIN s : Good(s[k], e)) => Chain(Append(s, e))
         /\ \A u : /\ Then(u, s) /\ (\A k \in DOMAIN u : Good(u[k], e))
                        => Then(u, Append(s, e))
                   /\ Then(s, u) /\ (\A k \in DOMAIN u : Good(e, u[k]))
                        => Then(Append(s, e), u)
<1> DEFINE t == Append(s, e)
           n == Len(s)
<1>1. /\ t \in Seq(Segments) /\ Len(t) = n + 1
      /\ \A k \in 1 .. n : t[k] = s[k]
      /\ t[n + 1] = e
  BY AppendFacts
<1>2. DOMAIN t = 1 .. n + 1 /\ DOMAIN s = 1 .. n /\ n \in Nat
  BY <1>1, LenProperties
<1> HIDE DEF t, n
<1>3. \A k \in DOMAIN t : (k \in DOMAIN s /\ t[k] = s[k]) \/ t[k] = e
  <2>1. ASSUME NEW k \in DOMAIN t PROVE k \in 1 .. n \/ k = n + 1
    BY <1>2
  <2>2. ASSUME NEW k \in 1 .. n PROVE k \in DOMAIN s /\ t[k] = s[k]
    BY <1>1, <1>2
  <2>3. QED
    BY <1>1, <2>1, <2>2
<1>4. \A j, k \in DOMAIN t : j < k => j \in DOMAIN s
  BY <1>2
<1>5. Chain(s) /\ (\A k \in DOMAIN s : Good(s[k], e)) => Chain(t)
  <2>1. SUFFICES ASSUME Chain(s), \A k \in DOMAIN s : Good(s[k], e),
                        NEW j \in DOMAIN t, NEW k \in DOMAIN t, j < k
                 PROVE  Good(t[j], t[k])
    BY DEF Chain
  <2>2. j \in DOMAIN s /\ t[j] = s[j]
    BY <1>1, <1>2, <1>4, <2>1
  <2>3. CASE k \in DOMAIN s /\ t[k] = s[k]
    BY <2>1, <2>2, <2>3 DEF Chain
  <2>4. CASE t[k] = e
    BY <2>1, <2>2, <2>4
  <2>5. QED
    BY <1>3, <2>3, <2>4
<1>6. ASSUME NEW u
      PROVE  /\ Then(u, s) /\ (\A k \in DOMAIN u : Good(u[k], e)) => Then(u, t)
             /\ Then(s, u) /\ (\A k \in DOMAIN u : Good(e, u[k])) => Then(t, u)
  BY <1>3 DEF Then
<1>7. QED
  BY <1>5, <1>6 DEF t

\* What is taken out of the network first, or where it reorders, was sent before
\* what is left, or may come before it.
LEMMA RemovedGood ==
  ASSUME NEW s \in Seq(Segments), NEW i \in DOMAIN s, Chain(s),
         i = 1 \/ "reorder" \in may
  PROVE  \A k \in DOMAIN RemoveAt(s, i) : Good(s[i], RemoveAt(s, i)[k])
<1> DEFINE t == RemoveAt(s, i)
           n == Len(s)
<1>1. /\ t \in Seq(Segments) /\ Len(t) = n - 1
      /\ \A k \in 1 .. n - 1 : t[k] = s[IF k < i THEN k ELSE k + 1]
  BY RemoveFacts
<1>2. DOMAIN t = 1 .. n - 1 /\ DOMAIN s = 1 .. n /\ n \in Nat
  BY <1>1, LenProperties
<1> HIDE DEF t, n
<1>3. ASSUME NEW k \in DOMAIN t PROVE Good(s[i], t[k])
  <2>1. CASE k >= i
    <3>1. k + 1 \in DOMAIN s /\ i < k + 1 /\ t[k] = s[k + 1]
      BY <1>1, <1>2, <2>1
    <3>2. QED
      BY <3>1 DEF Chain
  <2>2. CASE k < i
    <3>1. k \in DOMAIN s /\ t[k] = s[k] /\ i # 1
      BY <1>1, <1>2, <2>2
    <3>2. Good(s[k], s[i]) /\ "reorder" \in may
      BY <2>2, <3>1 DEF Chain
    <3>3. QED
      BY <3>1, <3>2 DEF Good
  <2>3. QED
    BY <1>2, <2>1, <2>2
<1>4. QED
  BY <1>3 DEF t

LEMMA Carried ==
  ASSUME may' = may, Chain(received'), Chain(queue'), Chain(net'),
         Then(received', queue'), Then(received', net'), Then(queue', net')
  PROVE  OrderInv'
BY DEF OrderInv, Chain, Then, Good

\* A segment that is sent comes after all that was sent before.
LEMMA SendKeepsOrder ==
  ASSUME IInv, NEW e \in Segments, net' = Append(net, e),
         UNCHANGED <<may, queue, received>>,
         \/ e.type = "CONN" /\ sender = "INIT"
         \/ e.type = "DATA" /\ e.piece = read + 1
         \/ e.type = "CLOSE" /\ sender # "closed"
  PROVE  OrderInv'
<1>1. /\ queue \in Seq(Segments) /\ net \in Seq(Segments)
      /\ received \in Seq(Segments) /\ read \in Nat
  BY BoundAssumption DEF IInv, TypeOK
<1>2. \A k \in DOMAIN received : Good(received[k], e)
  <2>1. ASSUME NEW k \in DOMAIN received
        PROVE  received[k].type = "DATA" /\ received[k].piece <= read
               /\ received[k].piece \in Nat
    BY <1>1, ElementOfSeq, LenProperties, SegmentTypes DEF IInv, SentInv
  <2>2. QED
    BY <1>1, <2>1 DEF Good
<1>3. ASSUME NEW s \in Seq(Segments), Sent(s), NEW k \in DOMAIN s PROVE Good(s[k], e)
  <2>1. s[k].type \in {"CONN", "CLOSE", "DATA"} /\ s[k].piece \in Nat
    BY <1>3, ElementOfSeq, LenProperties, SegmentTypes
  <2>2. QED
    BY <1>1, <1>3, <2>1 DEF Sent, From, Good
<1>4. Sent(queue) /\ Sent(net) /\ OrderInv
  BY DEF IInv, SentInv
<1>5. \A k \in DOMAIN queue : Good(queue[k], e)
  BY <1>1, <1>3, <1>4
<1>6. \A k \in DOMAIN net : Good(net[k], e)
  BY <1>1, <1>3, <1>4
<1>7. Chain(net') /\ Then(received', net') /\ Then(queue', net')
  BY <1>1, <1>2, <1>4, <1>5, <1>6, AppendGood DEF OrderInv
<1>8. QED
  BY <1>4, <1>7, Carried DEF OrderInv

LEMMA OrderStep ==
  ASSUME IInv, [Next]_vars
  PROVE  OrderInv'
<1>1. /\ queue \in Seq(Segments) /\ net \in Seq(Segments)
      /\ received \in Seq(Segments) /\ read \in Nat /\ OrderInv
  BY BoundAssumption DEF IInv, TypeOK
<1> USE DEF OrderInv
<1>2. CASE ConnectToRemote
  <2>1. net' = Append(net, Header("CONN"))
    BY <1>1, <1>2, AppendIsConcat, SegmentFacts DEF ConnectToRemote, Connect
  <2>2. QED
    BY <1>2, <2>1, SegmentFacts, FieldFacts, SendKeepsOrder
       DEF ConnectToRemote, Connect, rvars
<1>3. CASE SendData
  <2>1. sequence_number \in 0 .. SeqLimit - 1 /\ read + 1 \in 1 .. MaxPieces
    BY <1>3, BoundAssumption DEF SendData, IInv, TypeOK
  <2>2. net' = Append(net, Data(sequence_number, read + 1))
    BY <1>3 DEF SendData, SendPiece
  <2>3. QED
    BY <1>3, <2>1, <2>2, SegmentFacts, FieldFacts, SendKeepsOrder
       DEF SendData, SendPiece, rvars
<1>4. CASE SenderCloses
  <2>1. sender # "closed" /\ UNCHANGED <<may, queue, received>>
    BY <1>4 DEF SenderCloses, CloseConnection, rvars
  <2>2. CASE net' = net
    BY <1>1, <2>1, <2>2, Carried
  <2>3. CASE net' = Append(net, Header("CLOSE"))
    BY <2>1, <2>3, SegmentFacts, FieldFacts, SendKeepsOrder
  <2>4. QED
    BY <1>4, <2>2, <2>3 DEF SenderCloses, CloseConnection
<1>5. CASE SendFails \/ Bind \/ UNCHANGED vars
  <2>1. UNCHANGED <<may, net, queue, received>>
    BY <1>5 DEF SendFails, Exit, Bind, vars, svars, rvars
  <2>2. QED
    BY <1>1, <2>1, Carried
<1>6. CASE Accept \/ ReceiveNothing
  <2>1. UNCHANGED <<may, net, received>> /\ queue' \in {Tail(queue), <<>>} /\ queue # <<>>
    BY <1>6 DEF Accept, ReceiveNothing, End, vars, svars
  <2>2. CASE queue' = Tail(queue)
    <3>1. Chain(queue') /\ Then(received, queue') /\ Then(queue', net)
      BY <1>1, <2>1, <2>2, TailDrawn
    <3>2. QED
      BY <1>1, <2>1, <3>1, Carried
  <2>3. CASE queue' = <<>>
    <3>1. Chain(queue') /\ Then(received, queue') /\ Then(queue', net)
      BY <2>3 DEF Chain, Then
    <3>2. QED
      BY <1>1, <2>1, <3>1, Carried
  <2>4. QED
    BY <2>1, <2>2, <2>3
<1>7. CASE ReceiveData
  <2>1. /\ UNCHANGED <<may, net>> /\ queue # <<>>
        /\ queue' = Tail(queue) /\ received' = Append(received, Head(queue))
    BY <1>7 DEF ReceiveData, Write, svars
  <2>2. /\ Tail(queue) \in Seq(Segments) /\ Head(queue) \in Segments
        /\ Head(queue) = queue[1] /\ 1 \in DOMAIN queue
    BY <1>1, <2>1, TailFacts
  <2>3. /\ Chain(queue') /\ Then(received, queue') /\ Then(queue', net)
        /\ \A k \in DOMAIN queue' : Good(Head(queue), queue'[k])
    <3>1. Then(<<Head(queue)>>, Tail(queue))
      BY <1>1, <2>1, TailDrawn
    <3>2. QED
      BY <1>1, <2>1, <3>1, TailDrawn DEF Then
  <2>4. \A k \in DOMAIN received : Good(received[k], Head(queue))
    BY <1>1, <2>2 DEF Then
  <2>5. \A k \in DOMAIN net : Good(Head(queue), net[k])
    BY <1>1, <2>2 DEF Then
  <2>6. Chain(received') /\ Then(received', queue') /\ Then(received', net')
    BY <1>1, <2>1, <2>2, <2>3, <2>4, <2>5, AppendGood
  <2>7. QED
    BY <1>1, <2>1, <2>3, <2>6, Carried
<1>8. ASSUME NEW i \in DOMAIN net, Deliver(i) PROVE OrderInv'
  <2>1. /\ UNCHANGED <<may, received>> /\ net' = RemoveAt(net, i)
        /\ i = 1 \/ "reorder" \in may
        /\ queue' = Append(queue, net[i]) \/ queue' = queue
    BY <1>8 DEF Deliver
  <2>2. /\ Chain(net') /\ Then(received, net') /\ Then(queue, net')
        /\ \A k \in DOMAIN net' : Good(net[i], net'[k])
    BY <1>1, <2>1, RemoveDrawn, RemovedGood
  <2>3. CASE queue' = queue
    BY <1>1, <2>1, <2>2, <2>3, Carried
  <2>4. CASE queue' = Append(queue, net[i])
    <3>1. net[i] \in Segments
      BY <1>1, ElementOfSeq, LenProperties
    <3>2. /\ \A k \in DOMAIN received : Good(received[k], net[i])
          /\ \A k \in DOMAIN queue : Good(queue[k], net[i])
      BY <1>1 DEF Then
    <3>3. Chain(queue') /\ Then(received, queue') /\ Then(queue', net')
      BY <1>1, <2>2, <2>4, <3>1, <3>2, AppendGood
    <3>4. QED
      BY <1>1, <2>1, <2>2, <3>3, Carried
  <2>5. QED
    BY <2>1, <2>3, <2>4
<1>9. ASSUME NEW i \in DOMAIN net, Lose(i) \/ Duplicate(i) PROVE OrderInv'
  <2>1. UNCHANGED <<may, received, queue>>
    BY <1>9 DEF Lose, Duplicate, rvars
  <2>2. Chain(net') /\ Then(received, net') /\ Then(queue, net')
    BY <1>1, <1>9, RemoveDrawn, InsertDrawn DEF Lose, Duplicate
  <2>3. QED
    BY <1>1, <2>1, <2>2, Carried
<1>10. QED
  BY <1>2, <1>3, <1>4, <1>5, <1>6, <1>7, <1>8, <1>9
     DEF Next, SenderNext, ReceiverNext, NetNext

-----------------------------------------------------------------------------
(* Where segments come from, why the programs end.                         *)

\* What a changed sequence consists of.
LEMMA Elements ==
  ASSUME NEW s \in Seq(Segments)
  PROVE  /\ \A i \in DOMAIN s : \A k \in DOMAIN RemoveAt(s, i) :
              \E j \in DOMAIN s : RemoveAt(s, i)[k] = s[j]
         /\ \A i \in DOMAIN s : \A k \in DOMAIN InsertAt(s, i, s[i]) :
              \E j \in DOMAIN s : InsertAt(s, i, s[i])[k] = s[j]
         /\ \A e \in Segments : \A k \in DOMAIN Append(s, e) :
              Append(s, e)[k] = e \/ \E j \in DOMAIN s : Append(s, e)[k] = s[j]
         /\ s # <<>> => \A k \in DOMAIN Tail(s) : \E j \in DOMAIN s : Tail(s)[k] = s[j]
<1> DEFINE n == Len(s)
<1>1. DOMAIN s = 1 .. n /\ n \in Nat
  BY LenProperties
<1>2. ASSUME NEW i \in DOMAIN s, NEW k \in DOMAIN RemoveAt(s, i)
      PROVE  \E j \in DOMAIN s : RemoveAt(s, i)[k] = s[j]
  <2>1. k \in 1 .. n - 1 /\ RemoveAt(s, i)[k] = s[IF k < i THEN k ELSE k + 1]
    BY RemoveFacts, LenProperties
  <2> HIDE DEF n
  <2>2. (IF k < i THEN k ELSE k + 1) \in DOMAIN s
    BY <1>1, <2>1
  <2>3. QED
    BY <2>1, <2>2
<1>3. ASSUME NEW i \in DOMAIN s, NEW k \in DOMAIN InsertAt(s, i, s[i])
      PROVE  \E j \in DOMAIN s : InsertAt(s, i, s[i])[k] = s[j]
  <2>1. k \in 1 .. n + 1 /\ InsertAt(s, i, s[i])[k] = s[IF k <= i THEN k ELSE k - 1]
    BY InsertFacts, LenProperties
  <2> HIDE DEF n
  <2>2. (IF k <= i THEN k ELSE k - 1) \in DOMAIN s
    BY <1>1, <2>1
  <2>3. QED
    BY <2>1, <2>2
<1>4. ASSUME NEW e \in Segments, NEW k \in DOMAIN Append(s, e)
      PROVE  Append(s, e)[k] = e \/ \E j \in DOMAIN s : Append(s, e)[k] = s[j]
  <2>1. /\ k \in 1 .. n + 1 /\ \A j \in 1 .. n : Append(s, e)[j] = s[j]
        /\ Append(s, e)[n + 1] = e
    BY AppendFacts, LenProperties
  <2> HIDE DEF n
  <2>2. k \in 1 .. n \/ k = n + 1
    BY <1>1, <2>1
  <2>3. QED
    BY <1>1, <2>1, <2>2
<1>5. ASSUME s # <<>>, NEW k \in DOMAIN Tail(s)
      PROVE  \E j \in DOMAIN s : Tail(s)[k] = s[j]
  <2>1. k \in 1 .. n - 1 /\ Tail(s)[k] = s[k + 1]
    BY <1>5, TailFacts, LenProperties
  <2> HIDE DEF n
  <2>2. k + 1 \in DOMAIN s
    BY <1>1, <2>1
  <2>3. QED
    BY <2>1, <2>2
<1>6. QED
  BY <1>2, <1>3, <1>4, <1>5

\* From(e) after a step.
Still(e) ==
  /\ sender' # "INIT"
  /\ e.type = "DATA"  => e.piece <= read'
  /\ e.type = "CLOSE" => sender' = "closed"
  /\ e.type = "CONN" /\ receiver' \in {"ESTABLISHED", "closed"} => "duplicate" \in may'

LEMMA SentBy ==
  ASSUME \A k \in DOMAIN queue' : Still(queue'[k]),
         \A k \in DOMAIN net' : Still(net'[k]),
         \A k \in DOMAIN received' : received'[k].type = "DATA"
                                     /\ received'[k].piece <= read',
         receiver' \in {"ESTABLISHED", "closed"} => sender' # "INIT"
  PROVE  SentInv'
BY DEF SentInv, Sent, From, Still

\* What was sent stays sent, but for a second CONN once the receiver has taken one.
LEMMA SentStays ==
  ASSUME IInv, may' = may, read' \in {read, read + 1},
         sender # "INIT" => sender' # "INIT", sender = "closed" => sender' = "closed",
         NEW e \in Segments, From(e),
         e.type = "CONN" /\ receiver' \in {"ESTABLISHED", "closed"} =>
           "duplicate" \in may \/ receiver \in {"ESTABLISHED", "closed"}
  PROVE  Still(e)
<1>1. read \in Nat /\ e.piece \in Nat
  BY BoundAssumption, SegmentTypes DEF IInv, TypeOK
<1>2. QED
  BY <1>1 DEF From, Still

LEMMA SentStep ==
  ASSUME IInv, [Next]_vars
  PROVE  SentInv'
<1>1. /\ queue \in Seq(Segments) /\ net \in Seq(Segments)
      /\ received \in Seq(Segments) /\ read \in Nat
      /\ Sent(queue) /\ Sent(net) /\ SentInv /\ OrderInv
  BY BoundAssumption DEF IInv, TypeOK, SentInv
<1>2. /\ \A k \in DOMAIN queue : queue[k] \in Segments /\ From(queue[k])
      /\ \A k \in DOMAIN net : net[k] \in Segments /\ From(net[k])
  BY <1>1, ElementOfSeq, LenProperties DEF Sent
<1>3. ASSUME NEW k \in DOMAIN received
      PROVE  received[k].type = "DATA" /\ received[k].piece \in Nat
             /\ received[k].piece <= read
  BY <1>1, ElementOfSeq, LenProperties, SegmentTypes DEF SentInv
<1>4. ASSUME NEW e \in Segments, net' = Append(net, e), UNCHANGED rvars,
             may' = may, read' \in {read, read + 1}, sender' # "INIT",
             sender # "closed",
             e.type = "DATA"  => e.piece <= read',
             e.type = "CLOSE" => sender' = "closed",
             e.type = "CONN"  => sender = "INIT"
      PROVE  SentInv'
  <2>1. Still(e)
    BY <1>1, <1>4 DEF Still, rvars, SentInv
  <2>2. /\ \A k \in DOMAIN queue : Still(queue[k])
        /\ \A k \in DOMAIN net : Still(net[k])
    BY <1>2, <1>4, SentStays DEF rvars
  <2>3. \A k \in DOMAIN net' : Still(net'[k])
    <3>1. \A k \in DOMAIN net' : net'[k] = e \/ \E j \in DOMAIN net : net'[k] = net[j]
      BY <1>1, <1>4, Elements
    <3>2. QED
      BY <2>1, <2>2, <3>1
  <2>4. \A k \in DOMAIN received : received[k].piece <= read'
    BY <1>1, <1>3, <1>4
  <2>5. QED
    BY <1>1, <1>3, <1>4, <2>2, <2>3, <2>4, SentBy DEF rvars, SentInv
<1>5. CASE ConnectToRemote
  <2>1. net' = Append(net, Header("CONN"))
    BY <1>1, <1>5, AppendIsConcat, SegmentFacts DEF ConnectToRemote, Connect
  <2>2. QED
    BY <1>4, <1>5, <2>1, SegmentFacts, FieldFacts DEF ConnectToRemote, Connect
<1>6. CASE SendData
  <2>1. sequence_number \in 0 .. SeqLimit - 1 /\ read + 1 \in 1 .. MaxPieces
    BY <1>6, BoundAssumption DEF SendData, IInv, TypeOK
  <2>2. Data(sequence_number, read + 1) \in Segments
    BY <2>1, SegmentFacts
  <2>3. /\ net' = Append(net, Data(sequence_number, read + 1)) /\ read' = read + 1
        /\ sender = "ESTABLISHED" /\ sender' = sender /\ may' = may /\ UNCHANGED rvars
    BY <1>6 DEF SendData, SendPiece
  <2>4. read + 1 <= read'
    BY <1>1, <2>3
  <2>5. QED
    BY <1>4, <2>2, <2>3, <2>4, FieldFacts
<1>7. CASE SenderCloses \/ SendFails \/ Bind \/ UNCHANGED vars
  <2>1. CASE net' = net
    <3>1. /\ UNCHANGED <<may, read, queue, received>>
          /\ sender # "INIT" => sender' # "INIT"
          /\ sender = "closed" => sender' = "closed"
          /\ receiver' \in {"ESTABLISHED", "closed"} => receiver' = receiver
      BY <1>7 DEF SenderCloses, CloseConnection, SendFails, Exit, Bind, vars, svars, rvars
    <3>2. /\ \A k \in DOMAIN queue : Still(queue[k])
          /\ \A k \in DOMAIN net : Still(net[k])
      BY <1>2, <3>1, SentStays
    <3>3. QED
      BY <1>1, <2>1, <3>1, <3>2, SentBy DEF SentInv
  <2>2. CASE net' # net
    <3>1. SenderCloses /\ net' = Append(net, Header("CLOSE"))
      BY <1>7, <2>2 DEF SenderCloses, CloseConnection, SendFails, Exit, Bind, vars
    <3>2. QED
      BY <1>4, <3>1, SegmentFacts, FieldFacts DEF SenderCloses, CloseConnection
  <2>3. QED
    BY <2>1, <2>2
<1>8. CASE Accept
  <2>1. UNCHANGED <<may, net, received, read, sender>> /\ queue # <<>>
    BY <1>8 DEF Accept, svars
  <2>2. CASE Head(queue).type = "CONN"
    <3>1. queue' = Tail(queue) /\ receiver' = "ESTABLISHED"
      BY <1>8, <2>2 DEF Accept
    <3>2. /\ Head(queue) \in Segments /\ Head(queue) = queue[1] /\ 1 \in DOMAIN queue
          /\ Head(queue).piece = 0
      BY <1>1, <2>1, <2>2, TailFacts, SegmentTypes
    <3>3. ASSUME NEW e \in Segments, Good(Head(queue), e), From(e) PROVE Still(e)
      <4>1. e.type = "CONN" => "duplicate" \in may
        BY <2>2, <3>2, <3>3, SegmentTypes DEF Good
      <4>2. QED
        BY <2>1, <3>3, <4>1, SentStays
    <3>4. \A k \in DOMAIN net : Still(net[k])
      BY <1>1, <1>2, <3>2, <3>3 DEF OrderInv, Then
    <3>5. ASSUME NEW k \in DOMAIN Tail(queue) PROVE Still(Tail(queue)[k])
      <4>1. Good(Head(queue), Tail(queue)[k])
        <5>1. Then(<<Head(queue)>>, Tail(queue))
          BY <1>1, <2>1, TailDrawn DEF OrderInv
        <5>2. QED
          BY <5>1 DEF Then
      <4>2. PICK j \in DOMAIN queue : Tail(queue)[k] = queue[j]
        BY <1>1, <2>1, Elements
      <4>3. QED
        BY <1>2, <3>3, <4>1, <4>2
    <3>6. sender' # "INIT"
      BY <1>2, <2>1, <3>2 DEF From
    <3>7. QED
      BY <1>1, <2>1, <3>1, <3>4, <3>5, <3>6, SentBy DEF SentInv
  <2>3. CASE Head(queue).type # "CONN"
    <3>1. queue' = <<>> /\ receiver' = "failed"
      BY <1>8, <2>3 DEF Accept
    <3>2. \A k \in DOMAIN net : Still(net[k])
      BY <1>2, <2>1, <3>1, SentStays
    <3>3. QED
      BY <1>1, <2>1, <3>1, <3>2, SentBy DEF SentInv
  <2>4. QED
    BY <2>2, <2>3
<1>9. CASE ReceiveData \/ ReceiveNothing
  <2>1. /\ UNCHANGED <<may, net, read, sender>> /\ queue # <<>>
        /\ receiver = "ESTABLISHED" /\ queue' \in {Tail(queue), <<>>}
        /\ \/ received' = received
           \/ received' = Append(received, Head(queue)) /\ Head(queue).type = "DATA"
    BY <1>9 DEF ReceiveData, Write, ReceiveNothing, End, svars
  <2>2. /\ \A k \in DOMAIN queue : Still(queue[k])
        /\ \A k \in DOMAIN net : Still(net[k])
    BY <1>2, <2>1, SentStays
  <2>3. \A k \in DOMAIN queue' : Still(queue'[k])
    <3>1. \A k \in DOMAIN queue' : \E j \in DOMAIN queue : queue'[k] = queue[j]
      <4>1. CASE queue' = Tail(queue)
        BY <1>1, <2>1, <4>1, Elements
      <4>2. CASE queue' = <<>>
        BY <4>2
      <4>3. QED
        BY <2>1, <4>1, <4>2
    <3>2. QED
      BY <2>2, <3>1
  <2>4. /\ Head(queue) \in Segments
        /\ Head(queue).type = "DATA" => Head(queue).piece <= read
    BY <1>1, <1>2, <2>1, TailFacts DEF From
  <2>5. \A k \in DOMAIN received' : received'[k].type = "DATA" /\ received'[k].piece <= read
    <3>1. \A k \in DOMAIN received' :
            \/ received'[k] = Head(queue) /\ Head(queue).type = "DATA"
            \/ \E j \in DOMAIN received : received'[k] = received[j]
      <4>1. CASE received' = received
        BY <4>1
      <4>2. CASE received' = Append(received, Head(queue)) /\ Head(queue).type = "DATA"
        BY <1>1, <2>4, <4>2, Elements
      <4>3. QED
        BY <2>1, <4>1, <4>2
    <3>2. QED
      BY <1>3, <2>4, <3>1
  <2>6. QED
    BY <1>1, <2>1, <2>2, <2>3, <2>5, SentBy DEF SentInv
<1>10. ASSUME NEW i \in DOMAIN net, Deliver(i) PROVE SentInv'
  <2>1. /\ UNCHANGED <<may, received, read, sender, receiver>>
        /\ net' = RemoveAt(net, i)
        /\ queue' = Append(queue, net[i]) \/ queue' = queue
    BY <1>10 DEF Deliver
  <2>2. /\ \A k \in DOMAIN queue : Still(queue[k])
        /\ \A k \in DOMAIN net : Still(net[k])
    BY <1>2, <2>1, SentStays
  <2>3. \A k \in DOMAIN net' : Still(net'[k])
    <3>1. \A k \in DOMAIN net' : \E j \in DOMAIN net : net'[k] = net[j]
      BY <1>1, <2>1, Elements
    <3>2. QED
      BY <2>2, <3>1
  <2>4. \A k \in DOMAIN queue' : Still(queue'[k])
    <3>1. \A k \in DOMAIN queue' :
            queue'[k] = net[i] \/ \E j \in DOMAIN queue : queue'[k] = queue[j]
      <4>1. CASE queue' = Append(queue, net[i])
        BY <1>1, <1>2, <4>1, Elements
      <4>2. CASE queue' = queue
        BY <4>2
      <4>3. QED
        BY <2>1, <4>1, <4>2
    <3>2. QED
      BY <2>2, <3>1
  <2>5. QED
    BY <1>1, <2>1, <2>3, <2>4, SentBy DEF SentInv
<1>11. ASSUME NEW i \in DOMAIN net, Lose(i) \/ Duplicate(i) PROVE SentInv'
  <2>1. /\ UNCHANGED <<may, received, read, sender, receiver, queue>>
        /\ net' = RemoveAt(net, i) \/ net' = InsertAt(net, i, net[i])
    BY <1>11 DEF Lose, Duplicate, svars, rvars
  <2>2. /\ \A k \in DOMAIN queue : Still(queue[k])
        /\ \A k \in DOMAIN net : Still(net[k])
    BY <1>2, <2>1, SentStays
  <2>3. \A k \in DOMAIN net' : Still(net'[k])
    <3>1. \A k \in DOMAIN net' : \E j \in DOMAIN net : net'[k] = net[j]
      BY <1>1, <2>1, Elements
    <3>2. QED
      BY <2>2, <3>1
  <2>4. QED
    BY <1>1, <2>1, <2>2, <2>3, SentBy DEF SentInv
<1>12. QED
  BY <1>5, <1>6, <1>7, <1>8, <1>9, <1>10, <1>11
     DEF Next, SenderNext, ReceiverNext, NetNext

\* Only a datagram to a port that nobody is bound to leaves an error, and only a
\* segment without data ends the receiver: CLOSE, or a second CONN.
LEMMA EndStep ==
  ASSUME IInv, [Next]_vars
  PROVE  RefusedInv' /\ EndsRightly'
<1>1. /\ queue \in Seq(Segments) /\ RefusedInv /\ EndsRightly
      /\ refused \in BOOLEAN
      /\ receiver \in {"unbound", "accepting", "ESTABLISHED", "closed", "failed"}
  BY DEF IInv, TypeOK
<1> USE <1>1 DEF RefusedInv, EndsRightly
<1>2. CASE ConnectToRemote \/ SendData \/ UNCHANGED vars
  BY <1>2 DEF ConnectToRemote, Connect, SendData, SendPiece, vars, svars, rvars
<1>3. CASE SendFails \/ SenderCloses
  BY <1>3 DEF SendFails, Exit, SenderCloses, CloseConnection, rvars
<1>4. CASE Bind \/ Accept \/ ReceiveData
  BY <1>4 DEF Bind, Accept, ReceiveData, Write, svars
<1>5. CASE ReceiveNothing
  <2>1. /\ UNCHANGED <<may, sender, refused>> /\ queue # <<>>
        /\ receiver = "ESTABLISHED" /\ receiver' = "closed" /\ Head(queue).type # "DATA"
    BY <1>5 DEF ReceiveNothing, End, svars
  <2>2. Head(queue) \in Segments /\ From(Head(queue))
    BY <2>1, TailFacts DEF IInv, SentInv, Sent
  <2>3. Head(queue).type = "CLOSE" \/ "duplicate" \in may
    BY <2>1, <2>2, SegmentTypes DEF From
  <2>4. QED
    BY <2>1, <2>2, <2>3 DEF From
<1>6. ASSUME NEW i \in DOMAIN net, Deliver(i) PROVE RefusedInv' /\ EndsRightly'
  BY <1>6 DEF Deliver, Bound
<1>7. ASSUME NEW i \in DOMAIN net, Lose(i) \/ Duplicate(i)
      PROVE  RefusedInv' /\ EndsRightly'
  BY <1>7 DEF Lose, Duplicate, svars, rvars
<1>8. QED
  BY <1>2, <1>3, <1>4, <1>5, <1>6, <1>7 DEF Next, SenderNext, ReceiverNext, NetNext

LEMMA IInvAlways == Spec => []IInv
<1>1. IInv /\ [Next]_vars => IInv'
  BY TypeStep, OrderStep, SentStep, EndStep DEF IInv
<1>2. QED
  BY InitIInv, <1>1, PTL DEF Spec

-----------------------------------------------------------------------------
(* The theorems.                                                           *)

\* No more pieces are read than there are, and nothing but segments that this
\* program builds is under way, whatever the network does.
THEOREM TypeCorrect == Spec => []TypeOK
<1>1. IInv => TypeOK
  BY DEF IInv
<1>2. QED
  BY <1>1, IInvAlways, PTL

\* Where datagrams keep their order the output keeps it, too, and where none is
\* duplicated no piece is written twice, however many are lost
\* (ReliableSocket.cpp:223-236).
THEOREM OrderKept == Spec => []OutputOrdered
<1>1. IInv => OutputOrdered
  <2>1. SUFFICES ASSUME IInv, NEW j \in DOMAIN received, NEW k \in DOMAIN received, j < k
                 PROVE  /\ "reorder" \notin may => received[j].piece <= received[k].piece
                        /\ "duplicate" \notin may => received[j].piece # received[k].piece
    BY DEF OutputOrdered, Output
  <2>2. Good(received[j], received[k])
    BY <2>1 DEF IInv, OrderInv, Chain
  <2>3. received[j].type = "DATA" /\ received[k].type = "DATA"
    BY <2>1 DEF IInv, SentInv
  <2>4. QED
    BY <2>2, <2>3 DEF Good
<1>2. QED
  BY <1>1, IInvAlways, PTL

\* The receiver ends because the sender has closed or a CONN came twice
\* (receiver.cpp:34), and the sender gives up only because the receiver has ended
\* or was late.
THEOREM EndsForCause == Spec => []EndsRightly
<1>1. IInv => EndsRightly
  BY DEF IInv
<1>2. QED
  BY <1>1, IInvAlways, PTL

-----------------------------------------------------------------------------
(* The refinement of ByteStream.                                           *)

LEMMA InitExact == Init => ExactInv
BY EmptySeq DEF Init, ExactInv, PipeInv, Reliable, Bound

LEMMA PipeTypes ==
  ASSUME IInv
  PROVE  /\ queue \in Seq(Segments) /\ net \in Seq(Segments)
         /\ received \in Seq(Segments) /\ read \in Nat /\ total \in Nat /\ read <= total
         /\ Len(queue) \in Nat /\ Len(net) \in Nat /\ Len(received) \in Nat
         /\ DOMAIN queue = 1 .. Len(queue) /\ DOMAIN net = 1 .. Len(net)
         /\ DOMAIN received = 1 .. Len(received)
         /\ NextNo \in Nat /\ LastNo \in Nat
BY BoundAssumption, LenProperties DEF IInv, TypeOK, NextNo, LastNo

\* Is(e, n) after a step.
WillBe(e, n) ==
  /\ e.type = IF n = 0 THEN "CONN" ELSE IF n <= read' THEN "DATA" ELSE "CLOSE"
  /\ e.piece = IF n <= read' THEN n ELSE 0

LEMMA PipeBy ==
  ASSUME NEW n \in Nat, NextNo' = n, sender' # "INIT",
         n + Len(queue') + Len(net') = LastNo' + 1,
         \A k \in DOMAIN queue' : WillBe(queue'[k], n + k - 1),
         \A k \in DOMAIN net' : WillBe(net'[k], n + Len(queue') + k - 1)
  PROVE  PipeInv'
BY DEF PipeInv, Is, WillBe

\* The numbers in the pipe are those from NextNo to LastNo.
LEMMA PipeNumbers ==
  ASSUME IInv, PipeInv, Bound
  PROVE  /\ \A k \in DOMAIN queue :
              /\ Is(queue[k], NextNo + k - 1) /\ NextNo + k - 1 \in Nat
              /\ sender # "INIT" => NextNo + k - 1 <= LastNo
         /\ \A k \in DOMAIN net :
              /\ Is(net[k], NextNo + Len(queue) + k - 1)
              /\ NextNo + Len(queue) + k - 1 \in Nat
              /\ sender # "INIT" => NextNo + Len(queue) + k - 1 <= LastNo
<1> DEFINE a == NextNo
           b == Len(queue)
           c == Len(net)
           z == LastNo
<1>1. a \in Nat /\ b \in Nat /\ c \in Nat /\ z \in Nat
      /\ DOMAIN queue = 1 .. b /\ DOMAIN net = 1 .. c
  BY PipeTypes
<1>2. sender # "INIT" => a + b + c = z + 1
  BY DEF PipeInv
<1> HIDE DEF a, b, c, z
<1>3. \A k \in DOMAIN queue : a + k - 1 \in Nat /\ (sender # "INIT" => a + k - 1 <= z)
  BY <1>1, <1>2
<1>4. \A k \in DOMAIN net : /\ a + b + k - 1 \in Nat
                            /\ sender # "INIT" => a + b + k - 1 <= z
  BY <1>1, <1>2
<1>5. QED
  BY <1>3, <1>4 DEF PipeInv, a, b, c, z

\* A segment that is sent is the last in the pipe.
LEMMA SendPipe ==
  ASSUME IInv, PipeInv, Bound, UNCHANGED rvars, sender' # "INIT",
         NEW e \in Segments, net' = Append(net, e),
         read' = read \/ (read' = read + 1 /\ LastNo = read),
         NextNo + Len(queue) + Len(net) = LastNo',
         WillBe(e, LastNo')
  PROVE  PipeInv'
<1> DEFINE a == NextNo
           b == Len(queue)
           c == Len(net)
<1>1. a \in Nat /\ b \in Nat /\ c \in Nat /\ read \in Nat
      /\ DOMAIN queue = 1 .. b /\ DOMAIN net = 1 .. c
  BY PipeTypes
<1>2. NextNo' = a /\ queue' = queue /\ Len(queue') = b
  BY DEF rvars, NextNo
<1>3. /\ Len(net') = c + 1 /\ \A k \in 1 .. c : net'[k] = net[k]
      /\ net'[c + 1] = e /\ DOMAIN net' = 1 .. c + 1
  BY PipeTypes, AppendFacts, LenProperties
<1>4. ASSUME NEW x, NEW n \in Nat, Is(x, n), sender # "INIT" => n <= LastNo,
             sender = "INIT" => read' = read
      PROVE  WillBe(x, n)
  BY <1>1, <1>4 DEF Is, WillBe
<1>5. CASE sender = "INIT"
  <2>1. b = 0 /\ c = 0
    BY <1>5 DEF PipeInv
  <2>2. LastNo' = a /\ a + 0 + 1 - 1 = a
    BY <1>1, <2>1
  <2> HIDE DEF a, b, c
  <2>3. \A k \in DOMAIN net' : WillBe(net'[k], a + b + k - 1)
    BY <1>1, <1>3, <2>1, <2>2
  <2>4. /\ \A k \in DOMAIN queue' : WillBe(queue'[k], a + k - 1)
        /\ a + b + (c + 1) = LastNo' + 1
    BY <1>1, <1>2, <2>1, <2>2
  <2>5. QED
    BY <1>1, <1>2, <1>3, <2>3, <2>4, PipeBy
<1>6. CASE sender # "INIT"
  <2>1. /\ \A k \in DOMAIN queue : WillBe(queue[k], a + k - 1)
        /\ \A k \in DOMAIN net : WillBe(net[k], a + b + k - 1)
    BY <1>4, <1>6, PipeNumbers
  <2>2. a + b + c = LastNo'
    OBVIOUS
  <2> HIDE DEF a, b, c
  <2>3. ASSUME NEW k \in DOMAIN net' PROVE WillBe(net'[k], a + b + k - 1)
    <3>1. CASE k = c + 1
      <4>1. a + b + (c + 1) - 1 = LastNo'
        BY <1>1, <2>2
      <4>2. QED
        BY <1>3, <3>1, <4>1
    <3>2. CASE k # c + 1
      <4>1. k \in 1 .. c
        BY <1>1, <1>3, <3>2
      <4>2. QED
        BY <1>1, <1>3, <2>1, <4>1
    <3>3. QED
      BY <3>1, <3>2
  <2>4. a + b + (c + 1) = LastNo' + 1
    BY <1>1, <2>2
  <2>5. QED
    BY <1>1, <1>2, <1>3, <1>6, <2>1, <2>3, <2>4, PipeBy
<1>7. QED
  BY <1>5, <1>6

\* The segment that is taken is the first in the pipe.
LEMMA TakePipe ==
  ASSUME IInv, PipeInv, Bound, queue # <<>>, queue' = Tail(queue),
         UNCHANGED <<net, read, sender>>, NextNo' = NextNo + 1
  PROVE  PipeInv' /\ Is(Head(queue), NextNo) /\ sender # "INIT" /\ NextNo <= LastNo
<1> DEFINE a == NextNo
           b == Len(queue)
           c == Len(net)
<1>1. a \in Nat /\ b \in Nat /\ c \in Nat
      /\ DOMAIN queue = 1 .. b /\ DOMAIN net = 1 .. c
  BY PipeTypes
<1>2. /\ Tail(queue) \in Seq(Segments) /\ Len(Tail(queue)) = b - 1
      /\ \A k \in 1 .. b - 1 : Tail(queue)[k] = queue[k + 1]
      /\ Head(queue) = queue[1] /\ 1 \in DOMAIN queue /\ b # 0
  BY PipeTypes, TailFacts
<1>3. sender # "INIT" /\ a + b + c = LastNo + 1 /\ LastNo' = LastNo /\ LastNo \in Nat
  BY PipeTypes DEF PipeInv, LastNo
<1>4. Len(queue') = b - 1 /\ DOMAIN queue' = 1 .. b - 1 /\ a + 1 \in Nat
  BY <1>1, <1>2, LenProperties
<1>5. \A x, n : Is(x, n) => WillBe(x, n)
  BY DEF Is, WillBe
<1>6. /\ \A k \in DOMAIN queue : Is(queue[k], a + k - 1)
      /\ \A k \in DOMAIN net : Is(net[k], a + b + k - 1)
  BY DEF PipeInv
<1> HIDE DEF a, b, c
<1>7. Is(Head(queue), a) /\ a <= LastNo
  <2>1. a + 1 - 1 = a /\ a <= LastNo
    BY <1>1, <1>2, <1>3
  <2>2. QED
    BY <1>2, <1>6, <2>1
<1>8. ASSUME NEW k \in DOMAIN queue' PROVE WillBe(queue'[k], (a + 1) + k - 1)
  <2>1. k \in 1 .. b - 1 /\ k + 1 \in 1 .. b /\ a + (k + 1) - 1 = (a + 1) + k - 1
    BY <1>1, <1>4
  <2>2. queue'[k] = queue[k + 1]
    BY <1>2, <2>1
  <2>3. QED
    BY <1>1, <1>5, <1>6, <2>1, <2>2
<1>9. ASSUME NEW k \in DOMAIN net' PROVE WillBe(net'[k], (a + 1) + (b - 1) + k - 1)
  <2>1. k \in DOMAIN net /\ net'[k] = net[k]
    OBVIOUS
  <2>2. (a + 1) + (b - 1) + k - 1 = a + b + k - 1
    BY <1>1, <2>1
  <2>3. QED
    BY <1>5, <1>6, <2>1, <2>2
<1>10. (a + 1) + (b - 1) + Len(net') = LastNo' + 1 /\ Len(net') = c
  <2>1. Len(net') = c
    BY DEF c
  <2>2. QED
    BY <1>1, <1>3, <2>1
<1>11. NextNo' = a + 1 /\ sender' # "INIT"
  BY <1>3 DEF a
<1>12. PipeInv'
  BY <1>4, <1>8, <1>9, <1>10, <1>11, PipeBy
<1>13. QED
  BY <1>3, <1>7, <1>12 DEF a

\* A datagram that arrives moves from the one to the other.
LEMMA ArrivePipe ==
  ASSUME IInv, PipeInv, Bound, 1 \in DOMAIN net, net' = RemoveAt(net, 1),
         queue' = Append(queue, net[1]),
         UNCHANGED <<read, sender, receiver, received>>
  PROVE  PipeInv'
<1> DEFINE a == NextNo
           b == Len(queue)
           c == Len(net)
<1>1. a \in Nat /\ b \in Nat /\ c \in Nat
      /\ DOMAIN queue = 1 .. b /\ DOMAIN net = 1 .. c
  BY PipeTypes
<1>2. /\ net' \in Seq(Segments) /\ Len(net') = c - 1 /\ DOMAIN net' = 1 .. c - 1
      /\ \A k \in 1 .. c - 1 : net'[k] = net[IF k < 1 THEN k ELSE k + 1]
  <2>1. net \in Seq(Segments)
    BY PipeTypes
  <2>2. /\ net' \in Seq(Segments) /\ Len(net') = c - 1
        /\ \A k \in 1 .. c - 1 : net'[k] = net[IF k < 1 THEN k ELSE k + 1]
    BY <2>1, RemoveFacts
  <2>3. QED
    BY <2>2, LenProperties
<1>3. net[1] \in Segments
  BY PipeTypes, ElementOfSeq, LenProperties
<1>4. /\ Len(queue') = b + 1 /\ DOMAIN queue' = 1 .. b + 1
      /\ \A k \in 1 .. b : queue'[k] = queue[k]
      /\ queue'[b + 1] = net[1]
  BY <1>3, PipeTypes, AppendFacts, LenProperties
<1>5. sender # "INIT"
  BY <1>1 DEF PipeInv
<1>6. a + b + c = LastNo + 1 /\ LastNo' = LastNo /\ LastNo \in Nat /\ NextNo' = a
  BY <1>5, PipeTypes DEF PipeInv, LastNo, NextNo
<1>7. \A x, n : Is(x, n) => WillBe(x, n)
  BY DEF Is, WillBe
<1>8. /\ \A k \in DOMAIN queue : Is(queue[k], a + k - 1)
      /\ \A k \in DOMAIN net : Is(net[k], a + b + k - 1)
  BY DEF PipeInv
<1> HIDE DEF a, b, c
<1>9. ASSUME NEW k \in DOMAIN queue' PROVE WillBe(queue'[k], a + k - 1)
  <2>1. CASE k = b + 1
    <3>1. a + (b + 1) - 1 = a + b + 1 - 1
      BY <1>1
    <3>2. QED
      BY <1>4, <1>7, <1>8, <2>1, <3>1
  <2>2. CASE k # b + 1
    <3>1. k \in 1 .. b
      BY <1>1, <1>4, <2>2
    <3>2. QED
      BY <1>1, <1>4, <1>7, <1>8, <3>1
  <2>3. QED
    BY <2>1, <2>2
<1>10. ASSUME NEW k \in DOMAIN net' PROVE WillBe(net'[k], a + (b + 1) + k - 1)
  <2>0. k \in 1 .. c - 1
    BY <1>2
  <2>1. /\ k \in 1 .. c - 1 /\ k + 1 \in 1 .. c /\ ~(k < 1)
        /\ a + (b + 1) + k - 1 = a + b + (k + 1) - 1
    BY <1>1, <2>0
  <2>2. net'[k] = net[k + 1]
    BY <1>2, <2>1
  <2>3. QED
    BY <1>1, <1>7, <1>8, <2>1, <2>2
<1>11. a + (b + 1) + (c - 1) = LastNo' + 1
  BY <1>1, <1>6
<1>12. QED
  BY <1>1, <1>2, <1>4, <1>5, <1>6, <1>9, <1>10, <1>11, PipeBy

\* No action leaves a run in which nothing can go wrong for one in which it can.
LEMMA MishapsStay == ASSUME [Next]_vars PROVE may' = may
BY DEF Next, SenderNext, ReceiverNext, NetNext, ConnectToRemote, Connect, SendData,
       SendPiece, SendFails, Exit, SenderCloses, CloseConnection, Bind, Accept,
       ReceiveData, Write, ReceiveNothing, End, Deliver, Lose, Duplicate, vars

LEMMA ExactSend ==
  ASSUME IInv, ExactInv, Reliable, ConnectToRemote \/ SendData \/ SenderCloses
  PROVE  ExactInv'
<1>1. /\ PipeInv /\ refused = FALSE /\ may = {}
      /\ sender # "closed" /\ Bound
      /\ read \in Nat /\ total \in Nat /\ read <= total
  BY PipeTypes DEF ExactInv, Reliable, Bound, ConnectToRemote, Connect, SendData,
                   SendPiece, SenderCloses, CloseConnection
<1>2. sender = "INIT" => Len(queue) = 0 /\ Len(net) = 0 /\ NextNo = 0 /\ read = 0
  BY <1>1, PipeTypes DEF PipeInv, ExactInv, Reliable, NextNo
<1>3. sender # "INIT" => NextNo + Len(queue) + Len(net) = read + 1 /\ LastNo = read
  BY <1>1 DEF PipeInv, LastNo
<1>4. CASE ConnectToRemote
  <2>1. /\ sender = "INIT" /\ sender' = "ESTABLISHED" /\ UNCHANGED rvars
        /\ UNCHANGED <<may, total, read, refused>>
        /\ net' = Append(net, Header("CONN"))
    BY <1>4, PipeTypes, AppendIsConcat, SegmentFacts DEF ConnectToRemote, Connect
  <2>2. LastNo' = 0 /\ WillBe(Header("CONN"), 0) /\ 0 + 0 + 0 = 0
    BY <1>2, <2>1, FieldFacts DEF LastNo, WillBe
  <2>3. PipeInv'
    <3>1. NextNo + Len(queue) + Len(net) = LastNo'
      BY <1>2, <2>1, <2>2
    <3>2. sender' # "INIT"
      BY <2>1
    <3>3. read' = read
      BY <2>1
    <3> HIDE DEF PipeInv
    <3>4. Header("CONN") \in Segments /\ WillBe(Header("CONN"), LastNo')
      BY <2>2, SegmentFacts
    <3>5. UNCHANGED rvars /\ net' = Append(net, Header("CONN"))
      BY <2>1
    <3>6. read' = read \/ (read' = read + 1 /\ LastNo = read)
      BY <3>3
    <3>7. QED
      BY <1>1, <3>1, <3>2, <3>4, <3>5, <3>6, SendPipe
  <2>4. QED
    BY <1>1, <2>1, <2>3 DEF ExactInv, Reliable, rvars
<1>5. CASE SendData
  <2>1. /\ sender = "ESTABLISHED" /\ UNCHANGED rvars
        /\ UNCHANGED <<may, total, sender, refused>>
        /\ read' = read + 1
        /\ net' = Append(net, Data(sequence_number, read + 1))
    BY <1>5 DEF SendData, SendPiece
  <2>2. Data(sequence_number, read + 1) \in Segments
    <3>1. sequence_number \in 0 .. SeqLimit - 1 /\ read + 1 \in 1 .. MaxPieces
      BY <1>5, BoundAssumption DEF SendData, IInv, TypeOK
    <3>2. QED
      BY <3>1, SegmentFacts
  <2>3. LastNo' = read + 1 /\ WillBe(Data(sequence_number, read + 1), read + 1)
    BY <1>1, <2>1, FieldFacts DEF LastNo, WillBe
  <2>4. PipeInv'
    <3>1. sender # "INIT" /\ sender' # "INIT"
      BY <2>1
    <3>2. NextNo + Len(queue) + Len(net) = LastNo' /\ LastNo = read
      BY <1>3, <2>3, <3>1
    <3> HIDE DEF PipeInv
    <3>3. QED
      BY <1>1, <2>1, <2>2, <2>3, <3>1, <3>2, SendPipe
  <2>5. Len(received) <= read + 1
    <3>1. Len(received) <= read
      BY DEF ExactInv
    <3>2. Len(received) \in Nat
      BY PipeTypes
    <3>3. QED
      BY <1>1, <3>1, <3>2
  <2>6. QED
    BY <1>1, <2>1, <2>4, <2>5 DEF ExactInv, Reliable, rvars, Bound
<1>6. CASE SenderCloses
  <2>1. /\ sender = "ESTABLISHED" /\ sender' = "closed" /\ UNCHANGED rvars
        /\ UNCHANGED <<may, total, read>> /\ read = total /\ refused' = FALSE
        /\ net' = Append(net, Header("CLOSE"))
    BY <1>1, <1>6 DEF SenderCloses, CloseConnection
  <2>2. LastNo' = read + 1 /\ WillBe(Header("CLOSE"), read + 1)
    BY <1>1, <2>1, FieldFacts DEF LastNo, WillBe
  <2>3. PipeInv'
    <3>1. sender # "INIT" /\ sender' # "INIT"
      BY <2>1
    <3>2. NextNo + Len(queue) + Len(net) = LastNo'
      BY <1>3, <2>2, <3>1
    <3>3. read' = read
      BY <2>1
    <3> HIDE DEF PipeInv
    <3>4. Header("CLOSE") \in Segments /\ WillBe(Header("CLOSE"), LastNo')
      BY <2>2, SegmentFacts
    <3>5. UNCHANGED rvars /\ net' = Append(net, Header("CLOSE"))
      BY <2>1
    <3>6. read' = read \/ (read' = read + 1 /\ LastNo = read)
      BY <3>3
    <3>7. QED
      BY <1>1, <3>1, <3>2, <3>4, <3>5, <3>6, SendPipe
  <2>4. QED
    BY <1>1, <2>1, <2>3 DEF ExactInv, Reliable, rvars
<1>7. QED
  BY <1>4, <1>5, <1>6

LEMMA ExactAccept ==
  ASSUME IInv, ExactInv, Reliable, Accept
  PROVE  ExactInv'
<1>1. /\ PipeInv /\ Bound /\ receiver = "accepting" /\ queue # <<>>
      /\ UNCHANGED <<may, total, net, sender, read, refused, received>>
      /\ received = <<>> /\ may = {}
  BY DEF ExactInv, Reliable, Accept, Bound, svars
<1>2. Len(received) = 0 /\ NextNo = 0
  BY <1>1 DEF NextNo
<1>3. Head(queue).type = "CONN"
  <2>1. queue[1].type = "CONN" /\ Head(queue) = queue[1]
    <3>1. 1 \in DOMAIN queue /\ Head(queue) = queue[1] /\ 0 + 1 - 1 = 0
      BY <1>1, PipeTypes, TailFacts
    <3>2. Is(queue[1], 0)
      BY <1>1, <1>2, <3>1 DEF PipeInv
    <3>3. QED
      BY <3>1, <3>2 DEF Is
  <2>2. QED
    BY <2>1
<1>4. receiver' = "ESTABLISHED" /\ queue' = Tail(queue)
  BY <1>3 DEF Accept
<1>5. NextNo' = NextNo + 1
  BY <1>1, <1>2, <1>4 DEF NextNo
<1>6. PipeInv' /\ sender # "INIT"
  BY <1>1, <1>4, <1>5, TakePipe
<1>7. QED
  BY <1>1, <1>4, <1>6 DEF ExactInv, Reliable

\* The segment that is written carries the next piece.
LEMMA ExactWrite ==
  ASSUME IInv, ExactInv, Reliable, ReceiveData
  PROVE  /\ ExactInv'
         /\ received' = Append(received, Head(queue)) /\ Head(queue) \in Segments
         /\ Head(queue).piece = Len(received) + 1 /\ Len(received) + 1 <= read
<1>1. /\ PipeInv /\ Bound /\ receiver = "ESTABLISHED" /\ queue # <<>>
      /\ UNCHANGED <<may, total, net, sender, read, refused, receiver>>
      /\ Head(queue).type = "DATA" /\ queue' = Tail(queue)
      /\ received' = Append(received, Head(queue))
  BY DEF ReceiveData, Write, Bound, ExactInv, Reliable, svars
<1>2. Head(queue) \in Segments
  BY <1>1, PipeTypes, TailFacts
<1> DEFINE n == Len(received)
<1>3. n \in Nat /\ read \in Nat /\ NextNo = n + 1 /\ received \in Seq(Segments)
  BY <1>1, PipeTypes DEF NextNo
<1>4. /\ Len(received') = n + 1 /\ DOMAIN received' = 1 .. n + 1
      /\ \A k \in 1 .. n : received'[k] = received[k]
      /\ received'[n + 1] = Head(queue)
  BY <1>1, <1>2, <1>3, AppendFacts, LenProperties
<1>5. NextNo' = NextNo + 1
  BY <1>1, <1>3, <1>4 DEF NextNo
<1>6. PipeInv' /\ Is(Head(queue), n + 1) /\ sender # "INIT"
  BY <1>1, <1>3, <1>5, TakePipe
<1>7. n + 1 <= read /\ Head(queue).piece = n + 1
  BY <1>1, <1>3, <1>6 DEF Is
<1>8. \A k \in DOMAIN received : received[k].piece = k
  BY DEF ExactInv
<1>9. DOMAIN received = 1 .. n
  BY PipeTypes
<1> HIDE DEF n
<1>10. \A k \in DOMAIN received' : received'[k].piece = k
  BY <1>3, <1>4, <1>7, <1>8, <1>9
<1>11. Len(received') <= read'
  BY <1>1, <1>4, <1>7
<1>12. ExactInv'
  BY <1>1, <1>6, <1>10, <1>11 DEF ExactInv, Reliable
<1>13. QED
  BY <1>1, <1>2, <1>7, <1>12 DEF n

\* The first segment without data is CLOSE, sent when all pieces were.
LEMMA ExactEnd ==
  ASSUME IInv, ExactInv, Reliable, ReceiveNothing
  PROVE  ExactInv' /\ sender = "closed" /\ Len(received) = total
<1>1. /\ PipeInv /\ Bound /\ receiver = "ESTABLISHED" /\ queue # <<>>
      /\ UNCHANGED <<may, total, net, sender, read, refused, received>>
      /\ Head(queue).type # "DATA" /\ receiver' = "closed"
  BY DEF ReceiveNothing, End, Bound, ExactInv, Reliable, svars
<1> DEFINE n == Len(received)
<1>2. n \in Nat /\ read \in Nat /\ total \in Nat /\ NextNo = n + 1 /\ n <= read
  BY <1>1, PipeTypes DEF NextNo, ExactInv
<1>3. /\ Head(queue) = queue[1] /\ 1 \in DOMAIN queue
  BY <1>1, PipeTypes, TailFacts
<1>4. /\ Is(queue[1], NextNo + 1 - 1) /\ NextNo + 1 - 1 \in Nat
      /\ sender # "INIT" => NextNo + 1 - 1 <= LastNo
  BY <1>1, <1>3, PipeNumbers
<1>5. NextNo + 1 - 1 = n + 1
  BY <1>2
<1>6. sender # "INIT"
  BY <1>1, <1>3 DEF PipeInv
<1>7. n + 1 <= LastNo /\ Is(queue[1], n + 1)
  BY <1>4, <1>5, <1>6
<1>8. ~(n + 1 <= read)
  BY <1>1, <1>2, <1>3, <1>7 DEF Is
<1>9. sender = "closed" /\ n = read
  BY <1>2, <1>7, <1>8 DEF LastNo
<1>10. read = total
  BY <1>9 DEF ExactInv
<1>11. PipeInv'
  BY <1>1 DEF PipeInv, Bound
<1>12. ExactInv'
  BY <1>1, <1>9, <1>10, <1>11 DEF ExactInv, Reliable
<1>13. QED
  BY <1>9, <1>10, <1>12

LEMMA ExactDeliver ==
  ASSUME IInv, ExactInv, Reliable, NEW i \in DOMAIN net, Deliver(i)
  PROVE  ExactInv'
<1>1. /\ i = 1 /\ net' = RemoveAt(net, i)
      /\ UNCHANGED <<may, total, sender, read, receiver, received>>
      /\ PipeInv /\ refused = FALSE
  BY DEF Deliver, Reliable, ExactInv
<1>2. CASE Bound
  <2>1. queue' = Append(queue, net[i]) /\ refused' = refused
    BY <1>2 DEF Deliver
  <2>2. PipeInv'
    BY <1>1, <1>2, <2>1, ArrivePipe
  <2>3. QED
    BY <1>1, <2>1, <2>2 DEF ExactInv, Reliable
<1>3. CASE ~Bound
  <2>1. sender = "closed" /\ refused' = FALSE
    BY <1>1, <1>3 DEF Bound, Deliver, ExactInv, Reliable
  <2>2. PipeInv'
    BY <1>1, <1>3 DEF PipeInv, Bound
  <2>3. QED
    BY <1>1, <2>1, <2>2 DEF ExactInv, Reliable
<1>4. QED
  BY <1>2, <1>3

LEMMA ExactStep ==
  ASSUME IInv, ExactInv, [Next]_vars
  PROVE  ExactInv'
<1>1. CASE ~Reliable
  BY <1>1, MishapsStay DEF ExactInv, Reliable
<1>2. CASE Reliable
  <2>1. CASE ConnectToRemote \/ SendData \/ SenderCloses
    BY <1>2, <2>1, ExactSend
  <2>2. CASE SendFails \/ Bind
    BY <1>2, <2>2 DEF SendFails, Bind, ExactInv
  <2>3. CASE Accept
    BY <1>2, <2>3, ExactAccept
  <2>4. CASE ReceiveData
    BY <1>2, <2>4, ExactWrite
  <2>5. CASE ReceiveNothing
    BY <1>2, <2>5, ExactEnd
  <2>6. ASSUME NEW i \in DOMAIN net, Deliver(i) PROVE ExactInv'
    BY <1>2, <2>6, ExactDeliver
  <2>7. ASSUME NEW i \in DOMAIN net PROVE ~Lose(i) /\ ~Duplicate(i)
    BY <1>2 DEF Reliable, Lose, Duplicate
  <2>8. CASE UNCHANGED vars
    BY <2>8 DEF vars, svars, rvars, ExactInv, PipeInv, Is, Bound, NextNo, LastNo, Reliable
  <2>9. QED
    BY <2>1, <2>2, <2>3, <2>4, <2>5, <2>6, <2>7, <2>8
       DEF Next, SenderNext, ReceiverNext, NetNext
<1>3. QED
  BY <1>1, <1>2

\* The beginning of the input.
LEMMA Beginning ==
  ASSUME NEW m \in Nat, NEW n \in 0 .. m
  PROVE  SubSeq([i \in 1 .. m |-> i], 1, n) = [k \in 1 .. n |-> k]
<1> DEFINE s == [i \in 1 .. m |-> i]
           t == SubSeq(s, 1, n)
           u == [k \in 1 .. n |-> k]
<1>1. s \in Seq(Nat) /\ Len(s) = m /\ \A k \in 1 .. m : s[k] = k
  OBVIOUS
<1>2. u \in Seq(Nat) /\ Len(u) = n /\ \A k \in 1 .. n : u[k] = k
  OBVIOUS
<1> HIDE DEF s
<1>3. t \in Seq(Nat) /\ Len(t) = n /\ \A k \in 1 .. n : t[k] = s[k]
  BY <1>1, PartFacts
<1>4. \A k \in 1 .. n : t[k] = u[k]
  BY <1>1, <1>2, <1>3
<1> HIDE DEF t, u
<1>5. t = u
  BY <1>2, <1>3, <1>4, SeqEqual
<1>6. QED
  BY <1>5 DEF s, t, u

LEMMA ExactAlways == Spec => []ExactInv
<1>1. IInv /\ ExactInv /\ [Next]_vars => ExactInv'
  BY ExactStep
<1>2. QED
  BY InitExact, IInvAlways, <1>1, PTL DEF Spec

\* A piece that is written prolongs the output.
LEMMA WriteDelivers ==
  ASSUME IInv, ExactInv, Reliable, ReceiveData
  PROVE  Stream!Deliver
<1> DEFINE n == Len(received)
           d == [i \in 1 .. total |-> i]
<1>1. /\ received' = Append(received, Head(queue)) /\ Head(queue) \in Segments
      /\ n + 1 <= read /\ Head(queue).piece = n + 1
  BY ExactWrite
<1>2. n \in Nat /\ read \in Nat /\ read <= total /\ total \in Nat /\ received \in Seq(Segments)
  BY PipeTypes
<1>3. /\ Len(received') = n + 1 /\ DOMAIN received' = 1 .. n + 1
      /\ \A k \in 1 .. n : received'[k] = received[k]
      /\ received'[n + 1] = Head(queue)
  BY <1>1, <1>2, AppendFacts, LenProperties
<1>4. UNCHANGED <<may, total, receiver>> /\ receiver = "ESTABLISHED"
  BY DEF ReceiveData, Write
<1>5. Len(Output) = n /\ Len(d) = total
  BY <1>2, PipeTypes DEF Output
<1>6. \A k \in 1 .. n : received[k].piece = k
  BY PipeTypes DEF ExactInv
<1>7. n + 1 \in Len(Output) + 1 .. Len(d) /\ n + 1 \in 0 .. total
  BY <1>1, <1>2, <1>5
<1> HIDE DEF n
<1>8. \A k \in 1 .. n + 1 : received'[k].piece = k
  BY <1>1, <1>2, <1>3, <1>6
<1>9. Output' = [k \in 1 .. n + 1 |-> k]
  BY <1>3, <1>8 DEF Output
<1>10. Output' = SubSeq(d, 1, n + 1)
  BY <1>2, <1>7, <1>9, Beginning
<1> HIDE DEF d
<1>11. \E k \in Len(Output) + 1 .. Len(d) : Output' = SubSeq(d, 1, k)
  BY <1>7, <1>10
<1>12. UNCHANGED d
  BY <1>4 DEF d
<1>13. QED
  BY <1>4, <1>11, <1>12 DEF Stream!Deliver, Reliable, d

LEMMA EndFinishes ==
  ASSUME IInv, ExactInv, Reliable, ReceiveNothing
  PROVE  Stream!Finish
<1>1. Len(received) = total
  BY ExactEnd
<1>2. /\ UNCHANGED <<may, total, received>> /\ receiver' = "closed"
  BY DEF ReceiveNothing, End
<1>3. Output = [i \in 1 .. total |-> i]
  BY <1>1, PipeTypes DEF ExactInv, Output
<1>4. Output' = Output
  BY <1>2 DEF Output
<1>5. QED
  BY <1>2, <1>3, <1>4 DEF Stream!Finish, Reliable

\* Over a network that behaves, with a receiver that is started first, the output
\* is at every moment the beginning of the input, and the receiver ends only when
\* it has written all of it (ReliableSocket.cpp:161-236, receiver.cpp:34-41).
THEOREM Implements == Spec => StreamSpec
<1>1. Init => Stream!Init
  BY DEF Init, Stream!Init, Output, Reliable
<1>2. IInv /\ ExactInv /\ [Next]_vars => [Stream!Next]_(Stream!bvars)
  <2> SUFFICES ASSUME IInv, ExactInv, [Next]_vars
               PROVE  Stream!Next \/ UNCHANGED Stream!bvars
    OBVIOUS
  <2>1. may' = may
    BY MishapsStay
  <2>2. CASE Reliable /\ ReceiveData
    BY <2>2, WriteDelivers DEF Stream!Next
  <2>3. CASE Reliable /\ ReceiveNothing
    BY <2>3, EndFinishes DEF Stream!Next
  <2>4. CASE ~Reliable \/ ~(ReceiveData \/ ReceiveNothing)
    <3>1. total' = total
      BY DEF Next, SenderNext, ReceiverNext, NetNext, ConnectToRemote, Connect, SendData,
         SendPiece, SendFails, Exit, SenderCloses, CloseConnection, Bind, Accept,
         ReceiveData, Write, ReceiveNothing, End, Deliver, Lose, Duplicate, vars
    <3>2. CASE ~Reliable
      BY <2>1, <3>1, <3>2 DEF Stream!bvars, Reliable
    <3>3. CASE Reliable /\ ~(ReceiveData \/ ReceiveNothing)
      <4>1. received' = received
        BY <3>3 DEF Next, SenderNext, ReceiverNext, NetNext, ConnectToRemote, Connect,
           SendData, SendPiece, SendFails, Exit, SenderCloses, CloseConnection, Bind,
           Accept, Deliver, Lose, Duplicate, vars, svars, rvars
      <4>2. (receiver = "closed") = (receiver' = "closed")
        BY <3>3 DEF Next, SenderNext, ReceiverNext, NetNext, ConnectToRemote, Connect,
           SendData, SendPiece, SendFails, Exit, SenderCloses, CloseConnection, Bind,
           Accept, Deliver, Lose, Duplicate, vars, svars, rvars
      <4>3. Output' = Output
        BY <4>1 DEF Output
      <4>4. QED
        BY <2>1, <3>1, <4>2, <4>3 DEF Stream!bvars, Reliable
    <3>4. QED
      BY <2>4, <3>2, <3>3
  <2>5. QED
    BY <2>2, <2>3, <2>4
<1>3. QED
  BY <1>1, <1>2, IInvAlways, ExactAlways, PTL DEF Spec, StreamSpec, Stream!Spec
=============================================================================
