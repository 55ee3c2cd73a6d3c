--------------------------- MODULE ResolverProofs ---------------------------
(***************************************************************************)
(* Theorems about Resolver, for every host name and every answer: what is  *)
(* sent is the question, and a name of the answer is read as its text      *)
(* whatever pointers it is made of.                                        *)
(***************************************************************************)
EXTENDS Resolver, SequenceTheorems, WellFoundedInduction, TLAPS

-----------------------------------------------------------------------------
(* Labels: where they end, and what is left of one at each of its places.  *)

\* Where a label can end, as LabelEnd has it.
Ends(text, n, m) == /\ m = Len(text) + 1 \/ text[m] = Dot
                    /\ \A k \in n .. m - 1 : text[k] # Dot

\* A label ends in one place only.
LEMMA EndIs ==
  ASSUME NEW text \in Seq(1 .. 255), NEW n \in 1 .. Len(text) + 1,
         NEW m \in n .. Len(text) + 1, Ends(text, n, m)
  PROVE  LabelEnd(text, n) = m
<1>0. Len(text) \in Nat /\ n \in Nat /\ m \in Nat
  BY LenProperties
<1>1. ASSUME NEW x \in n .. Len(text) + 1, Ends(text, n, x)
      PROVE  x = m
  <2>1. ~(x < m)
    BY <1>0, <1>1 DEF Ends
  <2>2. ~(m < x)
    BY <1>0, <1>1 DEF Ends
  <2>3. QED
    BY <1>0, <2>1, <2>2
<1>2. LabelEnd(text, n) = CHOOSE x \in n .. Len(text) + 1 : Ends(text, n, x)
  BY DEF LabelEnd, Ends
<1>3. QED
  BY <1>1, <1>2

\* Every place of a text has an end of label at it or after it.
LEMMA EndExists ==
  ASSUME NEW text \in Seq(1 .. 255), NEW n \in 1 .. Len(text) + 1
  PROVE  /\ LabelEnd(text, n) \in n .. Len(text) + 1
         /\ Ends(text, n, LabelEnd(text, n))
<1> DEFINE R == OpToRel(<, Nat)
           E == {m \in n .. Len(text) + 1 : m = Len(text) + 1 \/ text[m] = Dot}
<1>0. Len(text) \in Nat /\ n \in Nat
  BY LenProperties
<1>1. E \subseteq Nat /\ Len(text) + 1 \in E
  BY <1>0
<1>2. IsWellFoundedOn(R, Nat)
  BY NatLessThanWellFounded
<1>3. \A x, y \in Nat : <<x, y>> \in R <=> x < y
  BY DEF OpToRel
<1> HIDE DEF R
<1>4. PICK m \in E : \A y \in E : ~(<<y, m>> \in R)
  <2> HIDE DEF E
  <2>1. QED
    BY <1>1, <1>2, WFMin
<1>5. m \in Nat /\ m \in n .. Len(text) + 1
  BY <1>0
<1>6. ASSUME NEW k \in n .. m - 1
      PROVE  text[k] # Dot
  <2>1. k \in Nat /\ k < m /\ k \in n .. Len(text) + 1
    BY <1>0, <1>5
  <2>2. k \notin E
    BY <1>3, <1>4, <1>5, <2>1
  <2>3. QED
    BY <2>1, <2>2
<1>7. Ends(text, n, m)
  BY <1>6 DEF Ends
<1>8. LabelEnd(text, n) = m
  BY <1>5, <1>7, EndIs
<1>9. QED
  BY <1>5, <1>7, <1>8

\* What is left of a label goes down by one at each character, to nothing at
\* the dot or at the end.
LEMMA LeftFacts ==
  ASSUME NEW text \in Seq(1 .. 255), NEW n \in 1 .. Len(text) + 1
  PROVE  /\ Left(text, n) \in Nat /\ n + Left(text, n) <= Len(text) + 1
         /\ n = Len(text) + 1 \/ text[n] = Dot => Left(text, n) = 0
         /\ n <= Len(text) /\ text[n] # Dot =>
              Left(text, n) > 0 /\ Left(text, n + 1) = Left(text, n) - 1
<1> DEFINE m == LabelEnd(text, n)
<1>0. Len(text) \in Nat /\ n \in Nat
  BY LenProperties
<1>1. m \in n .. Len(text) + 1 /\ Ends(text, n, m)
  BY EndExists
<1> HIDE DEF m
<1>2. Left(text, n) = m - n
  BY DEF Left, m
<1>3. ASSUME n = Len(text) + 1 \/ text[n] = Dot
      PROVE  m = n
  <2>1. Ends(text, n, n)
    BY <1>0, <1>3 DEF Ends
  <2>2. n \in n .. Len(text) + 1
    BY <1>0
  <2>3. QED
    BY <2>1, <2>2, EndIs DEF m
<1>4. ASSUME n <= Len(text), text[n] # Dot
      PROVE  m # n /\ Left(text, n + 1) = m - (n + 1)
  <2>1. m # n
    BY <1>0, <1>1, <1>4 DEF Ends
  <2>2. n + 1 \in 1 .. Len(text) + 1 /\ m \in n + 1 .. Len(text) + 1
    BY <1>0, <1>1, <1>4, <2>1
  <2>3. Ends(text, n + 1, m)
    BY <1>0, <1>1 DEF Ends
  <2>4. LabelEnd(text, n + 1) = m
    BY <2>2, <2>3, EndIs
  <2>5. QED
    BY <2>1, <2>4 DEF Left
<1>5. Left(text, n) \in Nat /\ n + Left(text, n) <= Len(text) + 1
  BY <1>0, <1>1, <1>2
<1>6. n <= Len(text) /\ text[n] # Dot => 
        Left(text, n) > 0 /\ Left(text, n + 1) = Left(text, n) - 1
  BY <1>0, <1>1, <1>2, <1>4
<1>7. n = Len(text) + 1 \/ text[n] = Dot => Left(text, n) = 0
  BY <1>0, <1>2, <1>3
<1>8. QED
  BY <1>5, <1>6, <1>7

\* Starts of labels: the first place, and every place after a dot.
LEMMA StartFacts ==
  ASSUME NEW text \in Seq(1 .. 255), NEW n \in 1 .. Len(text) + 1
  PROVE  /\ 1 \in Starts(text)
         /\ n \in Starts(text) <=> n = 1 \/ text[n - 1] = Dot
         /\ n \notin Starts(text) =>
              n \in 2 .. Len(text) + 1 /\ text[n - 1] \in 1 .. 255 /\ text[n - 1] # Dot
<1>0. Len(text) \in Nat /\ n \in Nat /\ \A m \in 1 .. Len(text) : text[m] \in 1 .. 255
  BY LenProperties, ElementOfSeq
<1>1. n \in Starts(text) <=> n = 1 \/ text[n - 1] = Dot
  BY DEF Starts
<1>2. 1 \in Starts(text)
  BY <1>0 DEF Starts
<1>3. ASSUME n \notin Starts(text)
      PROVE  n \in 2 .. Len(text) + 1 /\ text[n - 1] \in 1 .. 255 /\ text[n - 1] # Dot
  <2>1. n # 1 /\ text[n - 1] # Dot
    BY <1>1, <1>3
  <2>2. n \in 2 .. Len(text) + 1 /\ n - 1 \in 1 .. Len(text)
    BY <1>0, <2>1
  <2>3. QED
    BY <1>0, <2>1, <2>2
<1>4. QED
  BY <1>1, <1>2, <1>3

\* A name's bytes in a message: its characters, and lengths of at most 63.
LEMMA WireFacts ==
  ASSUME NEW text, IsName(text)
  PROVE  /\ text \in Seq(1 .. 255) /\ Len(text) \in Nat \ {0}
         /\ Wire(text) \in Seq(1 .. 255) /\ Len(Wire(text)) = Len(text) + 1
         /\ \A n \in Starts(text) : Left(text, n) \in 1 .. 63
         /\ \A n \in Starts(text) : n \in 1 .. Len(text) + 1 /\ Wire(text)[n] = Left(text, n)
         /\ \A n \in 1 .. Len(text) + 1 :
              n \notin Starts(text) => Wire(text)[n] = text[n - 1]
<1>1. text \in Seq(1 .. 255) /\ \A n \in Starts(text) : Left(text, n) \in 1 .. 63
  BY DEF IsName
<1>2. Len(text) \in Nat /\ \A n \in Starts(text) : n \in 1 .. Len(text) + 1
  BY <1>1, LenProperties DEF Starts
<1>3. Len(text) # 0
  <2>1. 1 \in 1 .. Len(text) + 1
    BY <1>2
  <2>2. 1 = Len(text) + 1 => Left(text, 1) = 0
    BY <1>1, <2>1, LeftFacts
  <2>3. 1 \in Starts(text)
    BY <1>1, <2>1, StartFacts
  <2>4. Left(text, 1) \in 1 .. 63
    BY <1>1, <2>3
  <2>5. Left(text, 1) > 0
    <3> DEFINE l == Left(text, 1)
    <3>1. l \in 1 .. 63
      BY <2>4
    <3> HIDE DEF l
    <3>2. l > 0
      BY <3>1
    <3>3. QED
      BY <3>2 DEF l
  <2>6. QED
    BY <1>2, <2>2, <2>5
<1>4. ASSUME NEW n \in 1 .. Len(text) + 1
      PROVE  /\ n \in Starts(text) => Wire(text)[n] = Left(text, n)
             /\ n \notin Starts(text) => Wire(text)[n] = text[n - 1]
             /\ Wire(text)[n] \in 1 .. 255
  <2>1. /\ n \in Starts(text) => Wire(text)[n] = Left(text, n)
        /\ n \notin Starts(text) => Wire(text)[n] = text[n - 1]
    BY DEF Wire
  <2>2. n \in Starts(text) => Left(text, n) \in 1 .. 255
    BY <1>1
  <2>3. n \notin Starts(text) => text[n - 1] \in 1 .. 255
    BY <1>1, StartFacts
  <2>4. QED
    BY <2>1, <2>2, <2>3
<1>5. DOMAIN Wire(text) = 1 .. Len(text) + 1
  BY DEF Wire
<1>6. Wire(text) = [n \in 1 .. Len(text) + 1 |-> Wire(text)[n]]
  BY DEF Wire
<1>7. Wire(text) \in [1 .. Len(text) + 1 -> 1 .. 255]
  BY <1>4, <1>6
<1>8. Len(text) + 1 \in Nat
  BY <1>2
<1>9. Wire(text) \in Seq(1 .. 255) /\ Len(Wire(text)) = Len(text) + 1
  <2> DEFINE w == Wire(text)
             l == Len(text) + 1
  <2> HIDE DEF w, l
  <2>1. w \in [1 .. l -> 1 .. 255] /\ l \in Nat
    BY <1>7, <1>8 DEF w, l
  <2>2. w \in Seq(1 .. 255)
    BY <2>1, SeqDef
  <2>3. DOMAIN w = 1 .. Len(w) /\ DOMAIN w = 1 .. l /\ Len(w) \in Nat
    BY <2>1, <2>2, LenProperties
  <2>4. QED
    BY <2>1, <2>2, <2>3, LenProperties DEF w, l
<1>10. QED
  BY <1>1, <1>2, <1>3, <1>4, <1>9

\* A label of a name has a character.
LEMMA LeftPositive ==
  ASSUME NEW text, IsName(text), NEW n \in Starts(text)
  PROVE  Left(text, n) > 0
<1> DEFINE l == Left(text, n)
<1>1. l \in 1 .. 63
  BY WireFacts
<1> HIDE DEF l
<1>2. l > 0
  BY <1>1
<1>3. QED
  BY <1>2 DEF l

\* What getStringFromDNS still has to read of a label before byte n of a name.
Rem(text, n) == IF n = 1 THEN 0 ELSE Left(text, n - 1)

\* It is nothing where a length is due and after the last byte, and otherwise
\* tells how many characters are due.
LEMMA RemFacts ==
  ASSUME NEW text, IsName(text), NEW n \in 1 .. Len(text) + 2
  PROVE  /\ Rem(text, n) \in Nat /\ n + Rem(text, n) <= Len(text) + 2
         /\ n \in Starts(text) =>
              Rem(text, n) = 0 /\ Rem(text, n + 1) = Left(text, n)
         /\ n \in 1 .. Len(text) + 1 /\ n \notin Starts(text) =>
              Rem(text, n) > 0 /\ Rem(text, n + 1) = Rem(text, n) - 1
         /\ n = Len(text) + 2 => Rem(text, n) = 0
<1>0. /\ text \in Seq(1 .. 255) /\ Len(text) \in Nat \ {0} /\ n \in Nat
  BY WireFacts
<1>1. ASSUME n > 1
      PROVE  n - 1 \in 1 .. Len(text) + 1 /\ Rem(text, n) = Left(text, n - 1)
  BY <1>0, <1>1 DEF Rem
<1>2. n \in 1 .. Len(text) + 1 => Rem(text, n + 1) = Left(text, n)
  BY <1>0 DEF Rem
<1>3. Rem(text, n) \in Nat /\ n + Rem(text, n) <= Len(text) + 2
  <2>1. CASE n = 1
    BY <1>0, <2>1 DEF Rem
  <2>2. CASE n > 1
    <3>1. Left(text, n - 1) \in Nat /\ (n - 1) + Left(text, n - 1) <= Len(text) + 1
      BY <1>0, <1>1, <2>2, LeftFacts
    <3>2. QED
      BY <1>0, <1>1, <2>2, <3>1
  <2>3. QED
    BY <1>0, <2>1, <2>2
<1>4. ASSUME n \in Starts(text)
      PROVE  Rem(text, n) = 0
  <2>1. CASE n = 1
    BY <2>1 DEF Rem
  <2>2. CASE n > 1
    <3>1. n \in 1 .. Len(text) + 1
      BY <1>0, <1>4, WireFacts
    <3>2. text[n - 1] = Dot
      BY <1>0, <1>4, <2>2, <3>1, StartFacts
    <3>3. QED
      BY <1>0, <1>1, <2>2, <3>2, LeftFacts
  <2>3. QED
    BY <1>0, <2>1, <2>2
<1>5. ASSUME n \in 1 .. Len(text) + 1, n \notin Starts(text)
      PROVE  Rem(text, n) > 0 /\ Rem(text, n + 1) = Rem(text, n) - 1
  <2>1. n \in 2 .. Len(text) + 1 /\ text[n - 1] # Dot
    BY <1>0, <1>5, StartFacts
  <2>2. n - 1 \in 1 .. Len(text) + 1 /\ n - 1 <= Len(text) /\ n > 1 /\ (n - 1) + 1 = n
    BY <1>0, <2>1
  <2>3. Left(text, n - 1) > 0 /\ Left(text, (n - 1) + 1) = Left(text, n - 1) - 1
    BY <1>0, <2>1, <2>2, LeftFacts
  <2>4. QED
    BY <1>1, <1>2, <1>5, <2>2, <2>3
<1>6. n = Len(text) + 2 => Rem(text, n) = 0
  <2>1. n = Len(text) + 2 => n > 1 /\ n - 1 = Len(text) + 1
    BY <1>0
  <2>2. QED
    BY <1>0, <1>1, <2>1, LeftFacts
<1>7. QED
  <2>1. n \in Starts(text) => n \in 1 .. Len(text) + 1
    BY <1>0, WireFacts
  <2>2. QED
    BY <1>2, <1>3, <1>4, <1>5, <1>6, <2>1

-----------------------------------------------------------------------------
(* The query.                                                              *)

\* What the assumption says of a host name.
LEMMA HostFacts ==
  ASSUME NEW text \in Hosts
  PROVE  /\ IsName(text) /\ text \in Seq(1 .. 255) /\ Len(text) \in Nat \ {0}
         /\ HEADER \in Nat /\ MAX_QUERY_SIZE \in Nat
         /\ HEADER + Len(text) + 6 <= MAX_QUERY_SIZE
         /\ Dot \in 1 .. 255
<1>1. IsName(text)
  BY HostAssumption
<1>2. QED
  BY <1>1, WireFacts, HostAssumption

\* l characters of the label at hand are converted, up to character j: at the
\* label's end they are all it has, and a byte is enough for their number.
LEMMA PartFits ==
  ASSUME NEW text, IsName(text), NEW j \in 0 .. Len(text), NEW l \in 0 .. j,
         j - l + 1 \in Starts(text), \A m \in j - l + 1 .. j : text[m] # Dot
  PROVE  /\ l \in 0 .. 63
         /\ j = Len(text) \/ text[j + 1] = Dot => Left(text, j - l + 1) = l
<1> DEFINE b == j - l + 1
           e == LabelEnd(text, b)
<1>0. text \in Seq(1 .. 255) /\ Len(text) \in Nat /\ j \in Nat /\ l \in Nat
  BY WireFacts
<1>1. b \in 1 .. Len(text) + 1 /\ b = j - l + 1
  BY <1>0
<1>2. e \in b .. Len(text) + 1 /\ Ends(text, b, e)
  BY <1>0, <1>1, EndExists
<1>3. Left(text, b) = e - b /\ Left(text, b) \in 1 .. 63
  BY WireFacts DEF Left
<1>4. e \in Nat
  BY <1>0, <1>1, <1>2
<1>5. e > j
  <2>1. SUFFICES ASSUME e <= j PROVE FALSE
    BY <1>0, <1>4
  <2>2. e \in b .. j /\ e # Len(text) + 1
    BY <1>0, <1>1, <1>2, <1>4, <2>1
  <2>3. QED
    BY <1>2, <2>2 DEF Ends
<1>6. ASSUME j = Len(text) \/ text[j + 1] = Dot
      PROVE  e = j + 1
  <2>1. j + 1 \in b .. Len(text) + 1
    BY <1>0, <1>1
  <2>2. b .. (j + 1) - 1 = b .. j
    BY <1>0, <1>1
  <2>3. Ends(text, b, j + 1)
    BY <1>0, <1>6, <2>2 DEF Ends
  <2>4. QED
    BY <1>0, <1>1, <2>1, <2>3, EndIs
<1>7. QED
  <2> HIDE DEF b, e
  <2>1. e - b \in 1 .. 63
    BY <1>3
  <2>2. l \in 0 .. 63
    BY <1>0, <1>1, <1>4, <1>5, <2>1
  <2>3. j = Len(text) \/ text[j + 1] = Dot => Left(text, b) = l
    BY <1>0, <1>1, <1>3, <1>6
  <2>4. QED
    BY <2>2, <2>3 DEF b

\* The variables that convertStringToDNS and resolve use.
SendType ==
  /\ host \in Hosts
  /\ pc \in {"convert", "send", "waiting", "read", "returned", "exited"}
  /\ query \in [0 .. MAX_QUERY_SIZE - 1 -> Bytes]
  /\ query_len \in 0 .. MAX_QUERY_SIZE
  /\ i \in 0 .. Len(host) /\ part_len \in 0 .. 63
  /\ link \in {"none", "query", "answer"}

\* While the name is converted, every byte up to the last character is in its
\* place except the length of the part at hand, which comes where that part begins.
ConvertInv ==
  pc = "convert" =>
    /\ part_len <= i /\ i - part_len + 1 \in Starts(host)
    /\ \A m \in i - part_len + 1 .. i : host[m] # Dot
    /\ \A x \in 0 .. HEADER - 1 : query[x] = 0
    /\ \A n \in 1 .. i + 1 : n # i - part_len + 1 => query[At(n - 1)] = Wire(host)[n]

SendInv == SendType /\ ConvertInv /\ QueryIsQuestion

LEMMA SendInit == Init => SendInv
<1> SUFFICES ASSUME Init PROVE SendInv
  OBVIOUS
<1>1. host \in Hosts
  BY DEF Init
<1>2. /\ IsName(host) /\ host \in Seq(1 .. 255) /\ Len(host) \in Nat \ {0}
      /\ HEADER \in Nat /\ MAX_QUERY_SIZE \in Nat
      /\ HEADER + Len(host) + 6 <= MAX_QUERY_SIZE
  BY <1>1, HostFacts
<1>3. query \in [0 .. MAX_QUERY_SIZE - 1 -> Bytes]
  BY DEF Init, Bytes
<1>4. SendType
  BY <1>1, <1>2, <1>3 DEF Init, SendType
<1>5. 1 \in Starts(host)
  <2>1. 1 \in 1 .. Len(host) + 1
    BY <1>2
  <2>2. QED
    BY <1>2, <2>1, StartFacts
<1>6. \A x \in 0 .. HEADER - 1 : query[x] = 0
  <2>1. \A x \in 0 .. HEADER - 1 : x \in 0 .. MAX_QUERY_SIZE - 1
    BY <1>2
  <2>2. QED
    BY <2>1 DEF Init
<1>7. ConvertInv
  <2>1. i = 0 /\ part_len = 0 /\ i - part_len + 1 = 1 /\ part_len <= i
    BY DEF Init
  <2>2. i - part_len + 1 .. i = {} /\ \A n \in 1 .. i + 1 : n = i - part_len + 1
    BY <2>1
  <2>3. QED
    BY <1>5, <1>6, <2>1, <2>2 DEF ConvertInv
<1>8. QED
  BY <1>4, <1>7 DEF SendInv, QueryIsQuestion, Init
\* One byte of the query is written: the others are as they were.
LEMMA Written ==
  ASSUME NEW at, NEW value, query' = [query EXCEPT ![at] = value],
         query \in [0 .. MAX_QUERY_SIZE - 1 -> Bytes],
         at \in 0 .. MAX_QUERY_SIZE - 1, value \in Bytes
  PROVE  /\ query' \in [0 .. MAX_QUERY_SIZE - 1 -> Bytes]
         /\ query'[at] = value
         /\ \A x \in 0 .. MAX_QUERY_SIZE - 1 : x # at => query'[x] = query[x]
<1>1. QED
  OBVIOUS

\* The facts that each step of the conversion starts from.
LEMMA Converting ==
  ASSUME SendInv, pc = "convert"
  PROVE  /\ host \in Hosts /\ IsName(host) /\ host \in Seq(1 .. 255)
         /\ Len(host) \in Nat \ {0}
         /\ HEADER \in Nat /\ MAX_QUERY_SIZE \in Nat
         /\ HEADER + Len(host) + 6 <= MAX_QUERY_SIZE
         /\ query \in [0 .. MAX_QUERY_SIZE - 1 -> Bytes]
         /\ i \in 0 .. Len(host) /\ i \in Nat /\ part_len \in 0 .. i /\ part_len \in Nat
         /\ part_len \in 0 .. 63 /\ part_len % 256 = part_len /\ part_len \in Bytes
         /\ i = Len(host) \/ host[i + 1] = Dot => Left(host, i - part_len + 1) = part_len
<1>1. /\ host \in Hosts /\ query \in [0 .. MAX_QUERY_SIZE - 1 -> Bytes]
      /\ i \in 0 .. Len(host) /\ part_len \in 0 .. 63
  BY DEF SendInv, SendType
<1>2. /\ IsName(host) /\ host \in Seq(1 .. 255) /\ Len(host) \in Nat \ {0}
      /\ HEADER \in Nat /\ MAX_QUERY_SIZE \in Nat
      /\ HEADER + Len(host) + 6 <= MAX_QUERY_SIZE
  BY <1>1, HostFacts
<1>3. i \in Nat /\ part_len \in 0 .. i /\ part_len \in Nat
  BY <1>1, <1>2 DEF SendInv, ConvertInv
<1>4. part_len % 256 = part_len /\ part_len \in Bytes
  BY <1>1 DEF Bytes
<1>5. /\ i - part_len + 1 \in Starts(host)
      /\ \A m \in i - part_len + 1 .. i : host[m] # Dot
  BY DEF SendInv, ConvertInv
<1>6. i = Len(host) \/ host[i + 1] = Dot => Left(host, i - part_len + 1) = part_len
  BY <1>1, <1>2, <1>3, <1>5, PartFits
<1>7. QED
  BY <1>1, <1>2, <1>3, <1>4, <1>6

LEMMA SendConvertChar ==
  ASSUME SendInv, ConvertChar
  PROVE  SendInv'
<1> DEFINE b == i - part_len + 1
<1>0. pc = "convert" /\ pc' = "convert" /\ host' = host /\ link' = link /\ query_len' = query_len
  BY DEF ConvertChar
<1>1. /\ host \in Hosts /\ IsName(host) /\ host \in Seq(1 .. 255)
      /\ Len(host) \in Nat \ {0} /\ HEADER \in Nat /\ MAX_QUERY_SIZE \in Nat
      /\ HEADER + Len(host) + 6 <= MAX_QUERY_SIZE
      /\ query \in [0 .. MAX_QUERY_SIZE - 1 -> Bytes]
      /\ i \in 0 .. Len(host) /\ i \in Nat /\ part_len \in 0 .. i /\ part_len \in Nat
  BY <1>0, Converting
<1>2. /\ i < Len(host) /\ host[i + 1] # Dot
      /\ query' = [query EXCEPT ![At(i + 1)] = host[i + 1]]
      /\ part_len' = part_len + 1 /\ i' = i + 1
  BY DEF ConvertChar
<1>3. /\ b \in Starts(host) /\ \A m \in b .. i : host[m] # Dot
      /\ \A x \in 0 .. HEADER - 1 : query[x] = 0
      /\ \A n \in 1 .. i + 1 : n # b => query[At(n - 1)] = Wire(host)[n]
  BY <1>0 DEF SendInv, ConvertInv
<1>4. b \in 1 .. i + 1 /\ i' - part_len' + 1 = b /\ i' \in 1 .. Len(host) /\ part_len' \in 0 .. i'
  BY <1>1, <1>2
<1> HIDE DEF b
<1>5. \A m \in b .. i' : host[m] # Dot
  <2>1. ASSUME NEW m \in b .. i'
        PROVE  m \in b .. i \/ m = i + 1
    BY <1>1, <1>2, <1>4, <2>1
  <2>2. QED
    BY <1>2, <1>3, <2>1
<1>6. part_len' \in 0 .. 63
  <2>1. /\ i' - part_len' + 1 \in Starts(host)
        /\ \A m \in i' - part_len' + 1 .. i' : host[m] # Dot
    BY <1>3, <1>4, <1>5
  <2>2. i' \in 0 .. Len(host)
    BY <1>1, <1>2
  <2>3. QED
    BY <1>1, <1>4, <2>1, <2>2, PartFits
<1>7. At(i + 1) \in 0 .. MAX_QUERY_SIZE - 1 /\ host[i + 1] \in Bytes
  <2>1. i + 1 \in 1 .. Len(host)
    BY <1>1, <1>2
  <2>2. host[i + 1] \in 1 .. 255
    BY <1>1, <2>1, ElementOfSeq
  <2>3. QED
    BY <1>1, <1>2, <2>2 DEF At, Bytes
<1>8. /\ query' \in [0 .. MAX_QUERY_SIZE - 1 -> Bytes]
      /\ query'[At(i + 1)] = host[i + 1]
      /\ \A x \in 0 .. MAX_QUERY_SIZE - 1 : x # At(i + 1) => query'[x] = query[x]
  BY <1>1, <1>2, <1>7, Written
<1>9. \A x \in 0 .. HEADER - 1 : query'[x] = 0
  <2>1. ASSUME NEW x \in 0 .. HEADER - 1
        PROVE  x \in 0 .. MAX_QUERY_SIZE - 1 /\ x # At(i + 1)
    BY <1>1 DEF At
  <2>2. QED
    BY <1>3, <1>8, <2>1
<1>10. ASSUME NEW n \in 1 .. i' + 1, n # b
       PROVE  query'[At(n - 1)] = Wire(host)[n]
  <2>1. CASE n = i + 2
    <3>1. n - 1 = i + 1 /\ n \in 1 .. Len(host) + 1 /\ n # 1
      BY <1>1, <1>2, <2>1
    <3>2. n \notin Starts(host)
      BY <1>1, <1>2, <3>1, StartFacts
    <3>3. Wire(host)[n] = host[n - 1]
      BY <1>1, <3>1, <3>2, WireFacts
    <3>4. QED
      BY <1>8, <3>1, <3>3
  <2>2. CASE n # i + 2
    <3>1. n \in 1 .. i + 1
      BY <1>1, <1>2, <2>2
    <3>2. At(n - 1) \in 0 .. MAX_QUERY_SIZE - 1 /\ At(n - 1) # At(i + 1)
      BY <1>1, <1>2, <3>1 DEF At
    <3>3. QED
      BY <1>3, <1>8, <1>10, <3>1, <3>2
  <2>3. QED
    BY <2>1, <2>2
<1>11. SendType'
  BY <1>0, <1>4, <1>6, <1>8 DEF SendInv, SendType
<1>12. ConvertInv'
  <2>1. part_len' <= i' /\ (i - part_len + 1 = b)
    BY <1>1, <1>2 DEF b
  <2>2. /\ \A m \in i' - part_len' + 1 .. i' : host'[m] # Dot
        /\ i' - part_len' + 1 \in Starts(host')
    BY <1>0, <1>3, <1>4, <1>5
  <2>3. \A n \in 1 .. i' + 1 : n # i' - part_len' + 1 => query'[At(n - 1)] = Wire(host')[n]
    BY <1>0, <1>4, <1>10
  <2>4. QED
    BY <1>0, <1>9, <2>1, <2>2, <2>3 DEF ConvertInv, At
<1>13. QED
  BY <1>0, <1>11, <1>12 DEF SendInv, QueryIsQuestion
LEMMA SendConvertDot ==
  ASSUME SendInv, ConvertDot
  PROVE  SendInv'
<1> DEFINE b == i - part_len + 1
<1>0. pc = "convert" /\ pc' = "convert" /\ host' = host /\ link' = link /\ query_len' = query_len
  BY DEF ConvertDot, PartEnds
<1>1. /\ host \in Hosts /\ IsName(host) /\ host \in Seq(1 .. 255)
      /\ Len(host) \in Nat \ {0} /\ HEADER \in Nat /\ MAX_QUERY_SIZE \in Nat
      /\ HEADER + Len(host) + 6 <= MAX_QUERY_SIZE
      /\ query \in [0 .. MAX_QUERY_SIZE - 1 -> Bytes]
      /\ i \in 0 .. Len(host) /\ i \in Nat /\ part_len \in 0 .. i /\ part_len \in Nat
      /\ part_len % 256 = part_len /\ part_len \in Bytes
  BY <1>0, Converting
<1>2. /\ i < Len(host) /\ host[i + 1] = Dot
      /\ query' = [query EXCEPT ![At(i - part_len)] = part_len]
      /\ part_len' = 0 /\ i' = i + 1
  BY <1>1 DEF ConvertDot, PartEnds
<1>3. /\ b \in Starts(host) /\ Left(host, b) = part_len
      /\ \A x \in 0 .. HEADER - 1 : query[x] = 0
      /\ \A n \in 1 .. i + 1 : n # b => query[At(n - 1)] = Wire(host)[n]
  BY <1>0, <1>2, Converting DEF SendInv, ConvertInv
<1>4. /\ b \in 1 .. i + 1 /\ i - part_len = b - 1
      /\ i' - part_len' + 1 = i + 2 /\ i' \in 1 .. Len(host) /\ part_len' <= i'
      /\ part_len' \in 0 .. 63 /\ i' - part_len' + 1 .. i' = {}
  BY <1>1, <1>2
<1> HIDE DEF b
<1>5. i + 2 \in Starts(host)
  <2>1. i + 2 \in 1 .. Len(host) + 1 /\ (i + 2) - 1 = i + 1
    BY <1>1, <1>2
  <2>2. QED
    BY <1>1, <1>2, <2>1, StartFacts
<1>7. At(b - 1) \in 0 .. MAX_QUERY_SIZE - 1
  BY <1>1, <1>2, <1>4 DEF At
<1>8. /\ query' \in [0 .. MAX_QUERY_SIZE - 1 -> Bytes]
      /\ query'[At(b - 1)] = part_len
      /\ \A x \in 0 .. MAX_QUERY_SIZE - 1 : x # At(b - 1) => query'[x] = query[x]
  BY <1>1, <1>2, <1>4, <1>7, Written
<1>9. \A x \in 0 .. HEADER - 1 : query'[x] = 0
  <2>1. ASSUME NEW x \in 0 .. HEADER - 1
        PROVE  x \in 0 .. MAX_QUERY_SIZE - 1 /\ x # At(b - 1)
    BY <1>1, <1>4 DEF At
  <2>2. QED
    BY <1>3, <1>8, <2>1
<1>10. ASSUME NEW n \in 1 .. i' + 1, n # i + 2
       PROVE  query'[At(n - 1)] = Wire(host)[n]
  <2>1. CASE n = b
    BY <1>1, <1>3, <1>8, <2>1, WireFacts
  <2>2. CASE n # b
    <3>1. n \in 1 .. i + 1
      BY <1>1, <1>2, <1>10
    <3>2. At(n - 1) \in 0 .. MAX_QUERY_SIZE - 1 /\ At(n - 1) # At(b - 1)
      BY <1>1, <1>2, <1>4, <2>2, <3>1 DEF At
    <3>3. QED
      BY <1>3, <1>8, <2>2, <3>1, <3>2
  <2>3. QED
    BY <2>1, <2>2
<1>11. SendType'
  BY <1>0, <1>4, <1>8 DEF SendInv, SendType
<1>12. ConvertInv'
  <2>1. \A n \in 1 .. i' + 1 : n # i' - part_len' + 1 => query'[At(n - 1)] = Wire(host')[n]
    BY <1>0, <1>4, <1>10
  <2>2. QED
    BY <1>0, <1>4, <1>5, <1>9, <2>1 DEF ConvertInv, At
<1>13. QED
  BY <1>0, <1>11, <1>12 DEF SendInv, QueryIsQuestion
\* Where the bytes of two sequences are in the one made of both.
LEMMA JoinFacts ==
  ASSUME NEW x \in Seq(Bytes), NEW y \in Seq(Bytes)
  PROVE  /\ x \o y \in Seq(Bytes) /\ Len(x \o y) = Len(x) + Len(y)
         /\ Len(x) \in Nat /\ Len(y) \in Nat
         /\ \A n \in 1 .. Len(x) : (x \o y)[n] = x[n]
         /\ \A n \in 1 .. Len(y) : (x \o y)[Len(x) + n] = y[n]
<1> DEFINE z == x \o y
<1>1. Len(x) \in Nat /\ Len(y) \in Nat
  BY LenProperties
<1>2. /\ z \in Seq(Bytes) /\ Len(z) = Len(x) + Len(y)
      /\ \A n \in 1 .. Len(x) + Len(y) :
           z[n] = IF n <= Len(x) THEN x[n] ELSE y[n - Len(x)]
  BY ConcatProperties
<1> HIDE DEF z
<1>3. \A n \in 1 .. Len(x) : z[n] = x[n]
  BY <1>1, <1>2
<1>4. ASSUME NEW n \in 1 .. Len(y)
      PROVE  z[Len(x) + n] = y[n]
  <2>1. /\ Len(x) + n \in 1 .. Len(x) + Len(y)
        /\ ~(Len(x) + n <= Len(x)) /\ (Len(x) + n) - Len(x) = n
    BY <1>1
  <2>2. z[Len(x) + n] = y[(Len(x) + n) - Len(x)]
    BY <1>2, <2>1
  <2>3. QED
    BY <2>1, <2>2
<1>5. QED
  BY <1>1, <1>2, <1>3, <1>4 DEF z

\* A sequence given by its bytes.
LEMMA GivenFacts ==
  ASSUME NEW n \in Nat, NEW x \in [1 .. n -> Bytes]
  PROVE  x \in Seq(Bytes) /\ Len(x) = n
<1>1. x \in Seq(Bytes)
  BY SeqDef
<1>2. DOMAIN x = 1 .. n /\ DOMAIN x = 1 .. Len(x) /\ Len(x) \in Nat
  BY <1>1, LenProperties
<1>3. QED
  BY <1>1, LenProperties

\* The bytes of the question: the header's, the name's, and the type and class.
LEMMA QuestionFacts ==
  ASSUME NEW text \in Hosts
  PROVE  /\ Question(text) \in Seq(Bytes) /\ Len(Question(text)) = HEADER + Len(text) + 6
         /\ \A n \in 1 .. HEADER : Question(text)[n] = 0
         /\ \A n \in 1 .. Len(text) + 1 : Question(text)[HEADER + n] = Wire(text)[n]
         /\ \A n \in 1 .. 5 : Question(text)[HEADER + Len(text) + 1 + n] = <<0, 0, 1, 0, 1>>[n]
<1> DEFINE head == [n \in 1 .. HEADER |-> 0]
           body == Wire(text)
           tail == <<0, 0, 1, 0, 1>>
           both == head \o body
<1>1. HEADER \in Nat /\ Len(text) \in Nat
  BY HostFacts
<1>2. head \in Seq(Bytes) /\ Len(head) = HEADER /\ \A n \in 1 .. HEADER : head[n] = 0
  <2>1. head \in [1 .. HEADER -> Bytes]
    BY DEF Bytes
  <2>2. QED
    BY <1>1, <2>1, GivenFacts
<1>3. body \in Seq(Bytes) /\ Len(body) = Len(text) + 1
  <2>1. IsName(text)
    BY HostFacts
  <2>2. body \in Seq(1 .. 255) /\ Len(body) = Len(text) + 1
    BY <2>1, WireFacts
  <2> HIDE DEF body
  <2>3. body \in Seq(Bytes)
    BY <2>2, SeqMonotonic DEF Bytes
  <2>4. QED
    BY <2>2, <2>3
<1>4. tail \in Seq(Bytes) /\ Len(tail) = 5
  BY DEF Bytes
<1>5. Question(text) = both \o tail
  BY DEF Question
<1> HIDE DEF head, body, tail
<1>6. /\ both \in Seq(Bytes) /\ Len(both) = HEADER + (Len(text) + 1)
      /\ \A n \in 1 .. HEADER : both[n] = head[n]
      /\ \A n \in 1 .. Len(text) + 1 : both[HEADER + n] = body[n]
  <2>1. /\ both \in Seq(Bytes) /\ Len(both) = Len(head) + Len(body)
        /\ \A n \in 1 .. Len(head) : both[n] = head[n]
        /\ \A n \in 1 .. Len(body) : both[Len(head) + n] = body[n]
    BY <1>2, <1>3, JoinFacts
  <2> HIDE DEF both
  <2>2. QED
    BY <1>2, <1>3, <2>1
<1> HIDE DEF both
<1>7. /\ both \o tail \in Seq(Bytes) /\ Len(both \o tail) = HEADER + (Len(text) + 1) + 5
      /\ \A n \in 1 .. Len(both) : (both \o tail)[n] = both[n]
      /\ \A n \in 1 .. 5 : (both \o tail)[Len(both) + n] = tail[n]
  <2> DEFINE all == both \o tail
  <2>1. /\ all \in Seq(Bytes) /\ Len(all) = Len(both) + Len(tail)
        /\ \A n \in 1 .. Len(both) : all[n] = both[n]
        /\ \A n \in 1 .. Len(tail) : all[Len(both) + n] = tail[n]
    BY <1>4, <1>6, JoinFacts
  <2> HIDE DEF all
  <2>2. /\ Len(all) = HEADER + (Len(text) + 1) + 5
        /\ \A n \in 1 .. 5 : all[Len(both) + n] = tail[n]
    BY <1>4, <1>6, <2>1
  <2>3. QED
    BY <2>1, <2>2 DEF all
<1>8. \A n \in 1 .. HEADER : Question(text)[n] = 0
  <2>1. \A n \in 1 .. HEADER : n \in 1 .. Len(both)
    BY <1>1, <1>6
  <2>2. QED
    BY <1>2, <1>5, <1>6, <1>7, <2>1
<1>9. \A n \in 1 .. Len(text) + 1 : Question(text)[HEADER + n] = body[n]
  <2>1. \A n \in 1 .. Len(text) + 1 : HEADER + n \in 1 .. Len(both)
    BY <1>1, <1>6
  <2>2. QED
    BY <1>5, <1>6, <1>7, <2>1
<1>10. Len(both) = HEADER + Len(text) + 1 /\ Len(both \o tail) = HEADER + Len(text) + 6
  BY <1>1, <1>6, <1>7
<1>11. QED
  BY <1>5, <1>7, <1>8, <1>9, <1>10 DEF body, tail
\* The query has its last length, the end of the name, type and class: it is the
\* question byte by byte.
LEMMA SendConstructQuery ==
  ASSUME SendInv, ConstructQuery
  PROVE  SendInv'
<1> DEFINE l == Len(host)
           b == l - part_len + 1
<1>0. /\ pc = "convert" /\ pc' = "send" /\ host' = host /\ link' = link
      /\ i' = i /\ part_len' = part_len
  BY DEF ConstructQuery
<1>1. /\ host \in Hosts /\ IsName(host) /\ host \in Seq(1 .. 255)
      /\ l \in Nat \ {0} /\ HEADER \in Nat /\ MAX_QUERY_SIZE \in Nat
      /\ HEADER + l + 6 <= MAX_QUERY_SIZE
      /\ query \in [0 .. MAX_QUERY_SIZE - 1 -> Bytes]
      /\ i \in 0 .. l /\ part_len \in 0 .. i /\ part_len \in Nat
      /\ part_len \in 0 .. 63
      /\ part_len % 256 = part_len /\ part_len \in Bytes
  BY <1>0, Converting
<1>2. i = l
  BY DEF ConstructQuery
<1>3. /\ b \in Starts(host) /\ Left(host, b) = part_len
      /\ \A x \in 0 .. HEADER - 1 : query[x] = 0
      /\ \A n \in 1 .. l + 1 : n # b => query[At(n - 1)] = Wire(host)[n]
  BY <1>0, <1>2, Converting DEF SendInv, ConvertInv
<1>4. b \in 1 .. l + 1 /\ l - part_len = b - 1
  BY <1>1, <1>2
<1> HIDE DEF b
<1>5. /\ query' = [query EXCEPT ![HEADER + (b - 1)] = part_len, ![HEADER + (l + 1)] = 0,
                                ![HEADER + (l + 2)] = 0, ![(HEADER + (l + 2)) + 1] = 1,
                                ![(HEADER + (l + 2)) + 2] = 0, ![(HEADER + (l + 2)) + 3] = 1]
      /\ query_len' = (HEADER + (l + 2)) + 4
  BY <1>1, <1>4 DEF ConstructQuery, At
<1> DEFINE h == HEADER
           m == MAX_QUERY_SIZE
<1>6. /\ query' \in [0 .. m - 1 -> Bytes]
      /\ query'[h + (b - 1)] = part_len
      /\ query'[h + (l + 1)] = 0 /\ query'[h + (l + 2)] = 0
      /\ query'[(h + (l + 2)) + 1] = 1 /\ query'[(h + (l + 2)) + 2] = 0
      /\ query'[(h + (l + 2)) + 3] = 1
      /\ \A x \in 0 .. h + l : x # h + (b - 1) => query'[x] = query[x]
  <2>1. /\ h \in Nat /\ m \in Nat /\ l \in Nat /\ b \in 1 .. l + 1 /\ h + l + 6 <= m
        /\ query \in [0 .. m - 1 -> Bytes] /\ part_len \in Bytes /\ 0 \in Bytes /\ 1 \in Bytes
    BY <1>1, <1>4 DEF Bytes
  <2>2. query' = [query EXCEPT ![h + (b - 1)] = part_len, ![h + (l + 1)] = 0,
                               ![h + (l + 2)] = 0, ![(h + (l + 2)) + 1] = 1,
                               ![(h + (l + 2)) + 2] = 0, ![(h + (l + 2)) + 3] = 1]
    BY <1>5
  <2> DEFINE c0 == h + (b - 1)
             c1 == h + (l + 1)
             c2 == h + (l + 2)
             c3 == (h + (l + 2)) + 1
             c4 == (h + (l + 2)) + 2
             c5 == (h + (l + 2)) + 3
  <2>3. /\ c0 \in Nat /\ c0 < c1 /\ c1 < c2 /\ c2 < c3 /\ c3 < c4 /\ c4 < c5 /\ c5 \in 0 .. m - 1
        /\ c0 \in 0 .. m - 1 /\ c1 \in 0 .. m - 1 /\ c2 \in 0 .. m - 1
        /\ c3 \in 0 .. m - 1 /\ c4 \in 0 .. m - 1
    BY <2>1
  <2>4. \A x \in 0 .. h + l : x < c1 /\ x \in 0 .. m - 1
    BY <2>1
  <2>5. query \in [0 .. m - 1 -> Bytes] /\ part_len \in Bytes /\ 0 \in Bytes /\ 1 \in Bytes
    BY <2>1
  <2> HIDE DEF c0, c1, c2, c3, c4, c5, h, m, l
  <2>6. query' = [query EXCEPT ![c0] = part_len, ![c1] = 0, ![c2] = 0, ![c3] = 1,
                               ![c4] = 0, ![c5] = 1]
    BY <2>2 DEF c0, c1, c2, c3, c4, c5
  <2>7. query' \in [0 .. m - 1 -> Bytes]
    BY <2>5, <2>6
  <2>8. /\ query'[c0] = part_len /\ query'[c1] = 0 /\ query'[c2] = 0
        /\ query'[c3] = 1 /\ query'[c4] = 0 /\ query'[c5] = 1
    BY <2>3, <2>5, <2>6
  <2>9. ASSUME NEW x \in 0 .. h + l, x # c0
        PROVE  query'[x] = query[x]
    <3>1. x \in 0 .. m - 1 /\ x # c1 /\ x # c2 /\ x # c3 /\ x # c4 /\ x # c5
      BY <2>3, <2>4
    <3>2. QED
      BY <2>5, <2>6, <2>9, <3>1
  <2>10. QED
    BY <2>7, <2>8, <2>9 DEF c0, c1, c2, c3, c4, c5
<1>7. query_len' = h + l + 6 /\ query_len' \in 0 .. m
  BY <1>1, <1>5
<1>8. SendType'
  BY <1>0, <1>1, <1>6, <1>7 DEF SendInv, SendType
<1> DEFINE q == Question(host)
<1>9. /\ q \in Seq(Bytes) /\ Len(q) = h + l + 6
      /\ \A n \in 1 .. h : q[n] = 0
      /\ \A n \in 1 .. l + 1 : q[h + n] = Wire(host)[n]
      /\ \A n \in 1 .. 5 : q[h + l + 1 + n] = <<0, 0, 1, 0, 1>>[n]
  BY <1>1, QuestionFacts
<1> HIDE DEF q
<1>10. ASSUME NEW n \in 1 .. h + l + 6
       PROVE  query'[n - 1] = q[n]
  <2>1. CASE n <= h
    <3>1. n \in 1 .. h /\ n - 1 \in 0 .. h - 1 /\ n - 1 \in 0 .. h + l /\ n - 1 # h + (b - 1)
      BY <1>1, <1>4, <2>1
    <3>2. QED
      BY <1>3, <1>6, <1>9, <3>1
  <2>2. CASE n > h /\ n <= h + l + 1
    <3> DEFINE x == n - h
    <3>1. x \in 1 .. l + 1 /\ h + x = n /\ h + (x - 1) = n - 1
      BY <1>1, <2>2
    <3> HIDE DEF x
    <3>2. CASE x = b
      <4>1. query'[n - 1] = part_len
        BY <1>6, <3>1, <3>2
      <4>2. q[n] = Wire(host)[b]
        BY <1>9, <3>1, <3>2
      <4>3. Wire(host)[b] = part_len
        BY <1>1, <1>3, WireFacts
      <4>4. QED
        BY <4>1, <4>2, <4>3
    <3>3. CASE x # b
      <4>1. n - 1 \in 0 .. h + l /\ n - 1 # h + (b - 1)
        BY <1>1, <1>4, <3>1, <3>3
      <4>2. query'[n - 1] = query[n - 1]
        BY <1>6, <4>1
      <4>3. query[n - 1] = Wire(host)[x]
        BY <1>3, <3>1, <3>3 DEF At
      <4>4. q[n] = Wire(host)[x]
        BY <1>9, <3>1
      <4>5. QED
        BY <4>2, <4>3, <4>4
    <3>4. QED
      BY <3>2, <3>3
  <2>3. CASE n > h + l + 1
    <3> DEFINE x == n - (h + l + 1)
    <3>1. x \in 1 .. 5 /\ h + l + 1 + x = n
      BY <1>1, <2>3
    <3> HIDE DEF x
    <3>2. q[n] = <<0, 0, 1, 0, 1>>[x]
      BY <1>9, <3>1
    <3>3. CASE x = 1
      <4>1. n - 1 = h + (l + 1)
        BY <1>1, <3>1, <3>3
      <4>2. q[n] = 0
        BY <3>2, <3>3
      <4>3. QED
        BY <1>6, <4>1, <4>2
    <3>4. CASE x = 2
      <4>1. n - 1 = h + (l + 2)
        BY <1>1, <3>1, <3>4
      <4>2. q[n] = 0
        BY <3>2, <3>4
      <4>3. QED
        BY <1>6, <4>1, <4>2
    <3>5. CASE x = 3
      <4>1. n - 1 = (h + (l + 2)) + 1
        BY <1>1, <3>1, <3>5
      <4>2. q[n] = 1
        BY <3>2, <3>5
      <4>3. QED
        BY <1>6, <4>1, <4>2
    <3>6. CASE x = 4
      <4>1. n - 1 = (h + (l + 2)) + 2
        BY <1>1, <3>1, <3>6
      <4>2. q[n] = 0
        BY <3>2, <3>6
      <4>3. QED
        BY <1>6, <4>1, <4>2
    <3>7. CASE x = 5
      <4>1. n - 1 = (h + (l + 2)) + 3
        BY <1>1, <3>1, <3>7
      <4>2. q[n] = 1
        BY <3>2, <3>7
      <4>3. QED
        BY <1>6, <4>1, <4>2
    <3>8. QED
      BY <3>1, <3>3, <3>4, <3>5, <3>6, <3>7
  <2>4. QED
    BY <1>1, <2>1, <2>2, <2>3
<1>11. [n \in 1 .. query_len' |-> query'[n - 1]] = q
  <2>1. q = [n \in 1 .. h + l + 6 |-> q[n]]
    BY <1>9, LenProperties
  <2>2. [n \in 1 .. h + l + 6 |-> query'[n - 1]] = [n \in 1 .. h + l + 6 |-> q[n]]
    BY <1>10
  <2>3. QED
    BY <1>7, <2>1, <2>2
<1>12. QueryIsQuestion'
  BY <1>0, <1>11 DEF QueryIsQuestion, q
<1>13. QED
  BY <1>0, <1>8, <1>12 DEF SendInv, ConvertInv
\* What follows the conversion leaves the query as it is.
LEMMA SendKeeps ==
  ASSUME SendInv, UNCHANGED <<host, sending>>,
         pc' \in {"waiting", "read", "returned", "exited"} \/ pc' = pc,
         link' \in {"none", "query", "answer"}
  PROVE  SendInv'
<1>1. SendType'
  BY DEF SendInv, SendType, sending
<1>2. ConvertInv'
  BY DEF SendInv, ConvertInv, sending, At
<1>3. QueryIsQuestion'
  BY DEF SendInv, QueryIsQuestion, sending
<1>4. QED
  BY <1>1, <1>2, <1>3 DEF SendInv

LEMMA SendNext == SendInv /\ [Next]_vars => SendInv'
<1> SUFFICES ASSUME SendInv, [Next]_vars PROVE SendInv'
  OBVIOUS
<1> USE DEF sending, decoding
<1>0. pc \in {"convert", "send", "waiting", "read", "returned", "exited"}
      /\ link \in {"none", "query", "answer"}
  BY DEF SendInv, SendType
<1>1. CASE Convert
  BY <1>1, SendConvertChar, SendConvertDot, SendConstructQuery DEF Convert
<1>2. CASE Resolve
  BY <1>0, <1>2, SendKeeps DEF Resolve, Send, SendFails, Receive, TimesOut, ReturnNull
<1>3. CASE Read
  BY <1>0, <1>3, SendKeeps
     DEF Read, FollowPointer, Follow, ReadLength, PartBegins, ReadChar, ReadEnd
<1>4. CASE ServerAnswers
  BY <1>0, <1>4, SendKeeps DEF ServerAnswers
<1>5. CASE Lose
  BY <1>0, <1>5, SendKeeps DEF Lose
<1>6. CASE UNCHANGED vars
  BY <1>0, <1>6, SendKeeps DEF vars
<1>7. QED
  BY <1>1, <1>2, <1>3, <1>4, <1>5, <1>6 DEF Next

\* The query that is sent is the question as RFC 1035 writes it, for every host
\* name (convertStringToDNS and construct_query, dns.c and resolver.c).
THEOREM QueryRight == Spec => []QueryIsQuestion
<1>1. SendInv => QueryIsQuestion
  BY DEF SendInv
<1>2. QED
  BY SendInit, SendNext, <1>1, PTL DEF Spec

-----------------------------------------------------------------------------
(* The answer.                                                             *)

\* What a pointer can point to: its addresses have 14 bits.
Addresses == {x \in Nat : x < 16384}

\* The address in a pointer's bytes, as Offset reads it.
Decoded(x, y) == (x % 64) * 256 + y

\* A pointer's two bytes hold every address of 14 bits.
LEMMA PointerFacts ==
  ASSUME NEW address \in Addresses
  PROVE  /\ Pointer(address) \in Seq(Bytes) /\ Len(Pointer(address)) = 2
         /\ Pointer(address)[1] \in 192 .. 255
         /\ Decoded(Pointer(address)[1], Pointer(address)[2]) = address
<1> DEFINE d == address \div 256
           e == address % 256
<1>1. d \in 0 .. 63 /\ e \in 0 .. 255 /\ address = 256 * d + e
  BY DEF Addresses
<1>2. Pointer(address) = <<192 + d, e>>
  BY DEF Pointer
<1> HIDE DEF d, e
<1>3. (192 + d) % 64 = d
  BY <1>1
<1>4. 192 + d \in Bytes /\ e \in Bytes
  BY <1>1 DEF Bytes
<1>5. /\ <<192 + d, e>> \in Seq(Bytes) /\ Len(<<192 + d, e>>) = 2
      /\ <<192 + d, e>>[1] = 192 + d /\ <<192 + d, e>>[2] = e
  BY <1>4
<1> DEFINE x == Pointer(address)
<1>6. x \in Seq(Bytes) /\ Len(x) = 2 /\ x[1] = 192 + d /\ x[2] = e
  BY <1>2, <1>5
<1> HIDE DEF x
<1>7. x[1] \in 192 .. 255
  BY <1>1, <1>6
<1>8. Decoded(x[1], x[2]) = address
  <2>1. ((192 + d) % 64) * 256 + e = address
    BY <1>1, <1>3
  <2>2. QED
    BY <1>6, <2>1 DEF Decoded
<1>9. QED
  BY <1>6, <1>7, <1>8 DEF x
\* A name that ends in a pointer.
LEMMA PointedFacts ==
  ASSUME NEW address \in Addresses
  PROVE  LET x == Wire(Prefixed) \o Pointer(address)
             l == Len(Prefixed)
         IN  /\ x \in Seq(Bytes) /\ Len(x) = l + 3
             /\ \A n \in 1 .. l + 1 : x[n] = Wire(Prefixed)[n]
             /\ x[l + 2] \in 192 .. 255
             /\ Decoded(x[l + 2], x[l + 3]) = address
<1> DEFINE w == Wire(Prefixed)
           r == Pointer(address)
           x == w \o r
           l == Len(Prefixed)
<1>1. IsName(Prefixed)
  BY HostAssumption
<1>2. l \in Nat /\ w \in Seq(1 .. 255) /\ Len(w) = l + 1
  BY <1>1, WireFacts
<1>3. /\ r \in Seq(Bytes) /\ Len(r) = 2 /\ r[1] \in 192 .. 255
      /\ Decoded(r[1], r[2]) = address
  BY PointerFacts
<1> HIDE DEF w, r
<1>4. w \in Seq(Bytes)
  BY <1>2, SeqMonotonic DEF Bytes
<1>5. /\ x \in Seq(Bytes) /\ Len(x) = Len(w) + Len(r)
      /\ \A n \in 1 .. Len(w) : x[n] = w[n]
      /\ \A n \in 1 .. Len(r) : x[Len(w) + n] = r[n]
  BY <1>3, <1>4, JoinFacts
<1> HIDE DEF x, l
<1>6. Len(x) = l + 3 /\ \A n \in 1 .. l + 1 : x[n] = w[n]
  BY <1>2, <1>3, <1>5
<1>7. x[l + 2] = r[1] /\ x[l + 3] = r[2]
  <2>1. x[(l + 1) + 1] = r[1] /\ x[(l + 1) + 2] = r[2]
    BY <1>2, <1>3, <1>5
  <2>2. (l + 1) + 1 = l + 2 /\ (l + 1) + 2 = l + 3
    BY <1>2
  <2>3. QED
    BY <2>1, <2>2
<1>8. QED
  BY <1>3, <1>5, <1>6, <1>7 DEF x, l, w, r

\* The same for four sequences in a row, of which the second is of no interest.
LEMMA FourFacts ==
  ASSUME NEW x \in Seq(Bytes), NEW y \in Seq(Bytes), NEW z \in Seq(Bytes), NEW v \in Seq(Bytes),
         NEW all, all = x \o y \o z \o v
  PROVE  /\ all \in Seq(Bytes) /\ Len(all) = Len(x) + Len(y) + Len(z) + Len(v)
         /\ \A n \in 1 .. Len(x) : all[n] = x[n]
         /\ \A n \in 1 .. Len(z) : all[Len(x) + Len(y) + n] = z[n]
         /\ \A n \in 1 .. Len(v) : all[Len(x) + Len(y) + Len(z) + n] = v[n]
<1> DEFINE xy == x \o y
           xyz == xy \o z
<1>1. /\ xy \in Seq(Bytes) /\ Len(xy) = Len(x) + Len(y) /\ Len(x) \in Nat /\ Len(y) \in Nat
      /\ \A n \in 1 .. Len(x) : xy[n] = x[n]
  BY JoinFacts
<1> HIDE DEF xy
<1>2. /\ xyz \in Seq(Bytes) /\ Len(xyz) = Len(xy) + Len(z) /\ Len(z) \in Nat
      /\ \A n \in 1 .. Len(xy) : xyz[n] = xy[n]
      /\ \A n \in 1 .. Len(z) : xyz[Len(xy) + n] = z[n]
  BY <1>1, JoinFacts
<1>3. /\ all \in Seq(Bytes) /\ Len(all) = Len(xyz) + Len(v) /\ Len(v) \in Nat
      /\ \A n \in 1 .. Len(xyz) : all[n] = xyz[n]
      /\ \A n \in 1 .. Len(v) : all[Len(xyz) + n] = v[n]
  <2>1. all = xyz \o v
    BY DEF xyz, xy
  <2>2. xyz \in Seq(Bytes)
    BY <1>2
  <2> HIDE DEF xyz
  <2>3. /\ xyz \o v \in Seq(Bytes) /\ Len(xyz \o v) = Len(xyz) + Len(v) /\ Len(v) \in Nat
        /\ \A n \in 1 .. Len(xyz) : (xyz \o v)[n] = xyz[n]
        /\ \A n \in 1 .. Len(v) : (xyz \o v)[Len(xyz) + n] = v[n]
    BY <2>2, JoinFacts
  <2>4. QED
    BY <2>1, <2>3
<1> HIDE DEF xyz
<1>4. Len(all) = Len(x) + Len(y) + Len(z) + Len(v) /\ Len(xyz) = Len(x) + Len(y) + Len(z)
  BY <1>1, <1>2, <1>3
<1>5. \A n \in 1 .. Len(x) : all[n] = x[n]
  BY <1>1, <1>2, <1>3
<1>6. ASSUME NEW n \in 1 .. Len(z)
      PROVE  all[Len(xy) + n] = z[n]
  <2>1. Len(xy) + n \in 1 .. Len(xyz)
    BY <1>1, <1>2
  <2>2. QED
    BY <1>2, <1>3, <2>1
<1>7. \A n \in 1 .. Len(v) : all[Len(x) + Len(y) + Len(z) + n] = v[n]
  BY <1>3, <1>4
<1>8. \A n \in 1 .. Len(z) : all[Len(x) + Len(y) + n] = z[n]
  BY <1>1, <1>6
<1>9. QED
  BY <1>3, <1>4, <1>5, <1>7, <1>8

\* The three names of an answer: where each begins, its own labels, and where
\* the pointer of the second and of the third leads.
Start(s, text, p) == IF s = 1 THEN HEADER
                     ELSE IF s = 2 THEN Address2(text, p)
                     ELSE Address2(text, p) + Len(Prefixed) + 3
Part(s, text)        == IF s = 1 THEN text ELSE Prefixed
Target(s, text, p, k) == IF s = 2 THEN HEADER + k - 1 ELSE Address2(text, p)

\* The memory that an answer is in, as getStringFromDNS comes to see it.
Laid(r, text, p, k) ==
  /\ DOMAIN r = 0 .. Start(3, text, p) + Len(Prefixed) + 2
  /\ \A s \in 1 .. 3 : \A n \in 1 .. Len(Part(s, text)) + 1 :
       r[Start(s, text, p) + (n - 1)] = Wire(Part(s, text))[n]
  /\ r[HEADER + (Len(text) + 1)] = 0
  /\ \A s \in 2 .. 3 : LET at == Start(s, text, p) + (Len(Prefixed) + 1)
                       IN  /\ r[at] \in 192 .. 255
                           /\ Decoded(r[at], r[at + 1]) = Target(s, text, p, k)

\* A label of a name has a character, so none begins at the end.
LEMMA StartsBeforeEnd ==
  ASSUME NEW text \in Hosts, NEW k \in Starts(text)
  PROVE  k \in 1 .. Len(text)
<1>1. IsName(text) /\ text \in Seq(1 .. 255) /\ Len(text) \in Nat
  BY HostFacts
<1>2. k \in 1 .. Len(text) + 1 /\ Left(text, k) \in 1 .. 63
  BY <1>1, WireFacts
<1>3. k = Len(text) + 1 => Left(text, k) = 0
  BY <1>1, <1>2, LeftFacts
<1>4. Left(text, k) > 0
  BY <1>1, LeftPositive
<1>5. QED
  BY <1>1, <1>2, <1>3, <1>4

\* Whatever of them is used, numbers are numbers and pointers fit their bytes.
LEMMA PlaceFacts ==
  ASSUME NEW text \in Hosts, NEW p \in Paddings, NEW k \in Starts(text)
  PROVE  /\ HEADER \in Nat /\ Len(text) \in Nat \ {0} /\ Len(Prefixed) \in Nat \ {0}
         /\ p \in Nat /\ k \in 1 .. Len(text)
         /\ Address2(text, p) = HEADER + Len(text) + 6 + p
         /\ Address2(text, p) \in Addresses /\ HEADER + k - 1 \in Addresses
         /\ \A s \in 1 .. 3 : IsName(Part(s, text)) /\ Start(s, text, p) \in Nat
<1>1. /\ IsName(text) /\ HEADER \in Nat /\ Len(text) \in Nat \ {0} /\ text \in Seq(1 .. 255)
  BY HostFacts
<1>2. IsName(Prefixed) /\ p \in Nat
  BY HostAssumption
<1>3. Len(Prefixed) \in Nat \ {0}
  BY <1>2, WireFacts
<1>4. k \in 1 .. Len(text)
  BY StartsBeforeEnd
<1>5. HEADER + Len(text) + 6 + p < 16384
  BY HostAssumption
<1>6. Address2(text, p) = HEADER + Len(text) + 6 + p
  BY DEF Address2
<1>7. Address2(text, p) \in Addresses /\ HEADER + k - 1 \in Addresses
  <2> DEFINE l == Len(text)
  <2>1. HEADER \in Nat /\ l \in Nat /\ p \in Nat /\ k \in 1 .. l /\ HEADER + l + 6 + p < 16384
    BY <1>1, <1>2, <1>4, <1>5
  <2> HIDE DEF l
  <2>2. HEADER + l + 6 + p \in Addresses /\ HEADER + k - 1 \in Addresses
    <3>1. HEADER + l + 6 + p \in Nat /\ HEADER + k - 1 \in Nat /\ HEADER + k - 1 < 16384
      BY <2>1
    <3>2. QED
      BY <2>1, <3>1 DEF Addresses
  <2>3. QED
    BY <1>6, <2>2 DEF l
<1>8. \A s \in 1 .. 3 : IsName(Part(s, text)) /\ Start(s, text, p) \in Nat
  BY <1>1, <1>2, <1>3, <1>6 DEF Part, Start
<1>9. QED
  BY <1>1, <1>2, <1>3, <1>4, <1>6, <1>7, <1>8
\* The address of the n-th of c bytes that begin at b, in a message of size bytes.
LEMMA AddressFacts ==
  ASSUME NEW size \in Nat, NEW b \in Nat, NEW c \in Nat, b + c <= size, NEW n \in 1 .. c
  PROVE  b + (n - 1) \in 0 .. size - 1 /\ b + (n - 1) + 1 = b + n
<1>1. QED
  OBVIOUS

\* An answer is laid out so.
LEMMA AnswerFacts ==
  ASSUME NEW text \in Hosts, NEW p \in Paddings, NEW k \in Starts(text)
  PROVE  Laid(Memory(Answer(text, p, k)), text, p, k)
<1> DEFINE x == Question(text)
           y == [n \in 1 .. p |-> 1]
           z == Wire(Prefixed) \o Pointer(HEADER + k - 1)
           v == Wire(Prefixed) \o Pointer(Address2(text, p))
           all == x \o y \o z \o v
           r == Memory(all)
           h == HEADER
           l == Len(text)
           q == Len(Prefixed)
           a2 == h + l + 6 + p
<1>1. /\ h \in Nat /\ l \in Nat \ {0} /\ q \in Nat \ {0} /\ p \in Nat /\ k \in 1 .. l
      /\ Address2(text, p) = a2 /\ Address2(text, p) \in Addresses /\ h + k - 1 \in Addresses
  BY PlaceFacts
<1>2. /\ x \in Seq(Bytes) /\ Len(x) = h + l + 6
      /\ \A n \in 1 .. l + 1 : x[h + n] = Wire(text)[n]
      /\ x[h + l + 2] = 0
  <2>1. /\ x \in Seq(Bytes) /\ Len(x) = h + l + 6
        /\ \A n \in 1 .. l + 1 : x[h + n] = Wire(text)[n]
        /\ \A n \in 1 .. 5 : x[h + l + 1 + n] = <<0, 0, 1, 0, 1>>[n]
    BY QuestionFacts
  <2>2. x[h + l + 1 + 1] = 0
    BY <2>1
  <2>3. h + l + 1 + 1 = h + l + 2
    BY <1>1
  <2>4. QED
    BY <2>1, <2>2, <2>3
<1>3. y \in Seq(Bytes) /\ Len(y) = p
  <2>1. y \in [1 .. p -> Bytes]
    BY DEF Bytes
  <2>2. QED
    BY <1>1, <2>1, GivenFacts
<1>4. /\ z \in Seq(Bytes) /\ Len(z) = q + 3
      /\ \A n \in 1 .. q + 1 : z[n] = Wire(Prefixed)[n]
      /\ z[q + 2] \in 192 .. 255
      /\ Decoded(z[q + 2], z[q + 3]) = h + k - 1
  BY <1>1, PointedFacts
<1>5. /\ v \in Seq(Bytes) /\ Len(v) = q + 3
      /\ \A n \in 1 .. q + 1 : v[n] = Wire(Prefixed)[n]
      /\ v[q + 2] \in 192 .. 255
      /\ Decoded(v[q + 2], v[q + 3]) = a2
  BY <1>1, PointedFacts
<1>6. Answer(text, p, k) = all
  BY DEF Answer, Name2, Name3
<1> HIDE DEF x, y, z, v
<1>7. /\ all \in Seq(Bytes) /\ Len(all) = Len(x) + Len(y) + Len(z) + Len(v)
      /\ \A n \in 1 .. Len(x) : all[n] = x[n]
      /\ \A n \in 1 .. Len(z) : all[Len(x) + Len(y) + n] = z[n]
      /\ \A n \in 1 .. Len(v) : all[Len(x) + Len(y) + Len(z) + n] = v[n]
  <2>1. x \in Seq(Bytes) /\ y \in Seq(Bytes) /\ z \in Seq(Bytes) /\ v \in Seq(Bytes)
    BY <1>2, <1>3, <1>4, <1>5
  <2>2. all = x \o y \o z \o v
    OBVIOUS
  <2> HIDE DEF all
  <2>3. QED
    BY <2>1, <2>2, FourFacts
<1>8. \A a \in 0 .. Len(all) - 1 : r[a] = all[a + 1]
  BY DEF Memory
<1>9. DOMAIN r = 0 .. Len(all) - 1
  BY DEF Memory
<1> HIDE DEF all, r, h, l, q, a2
<1>10. Len(all) = a2 + q + 3 + q + 3 /\ a2 \in Nat /\ a2 >= h + l + 6
  BY <1>1, <1>2, <1>3, <1>4, <1>5, <1>7 DEF a2
<1>11. \A n \in 1 .. l + 1 : r[h + (n - 1)] = Wire(text)[n]
  <2>1. ASSUME NEW n \in 1 .. l + 1
        PROVE  /\ h + (n - 1) \in 0 .. Len(all) - 1 /\ h + (n - 1) + 1 = h + n
               /\ h + n \in 1 .. Len(x)
    <3>1. h + (l + 1) <= Len(all) /\ Len(all) \in Nat /\ l + 1 \in Nat
      BY <1>1, <1>10
    <3>2. h + n \in 1 .. Len(x)
      BY <1>1, <1>2
    <3>3. QED
      BY <1>1, <3>1, <3>2, AddressFacts
  <2>2. QED
    <3>1. ASSUME NEW n \in 1 .. l + 1
          PROVE  r[h + (n - 1)] = Wire(text)[n]
      <4>1. r[h + (n - 1)] = all[h + n]
        BY <1>8, <2>1
      <4>2. all[h + n] = x[h + n]
        BY <1>7, <2>1
      <4>3. QED
        BY <1>2, <4>1, <4>2
    <3>2. QED
      BY <3>1
<1>12. r[h + (l + 1)] = 0
  <2>1. /\ h + (l + 1) \in 0 .. Len(all) - 1 /\ h + (l + 1) + 1 = h + l + 2
        /\ h + l + 2 \in 1 .. Len(x)
    BY <1>1, <1>2, <1>10
  <2>2. QED
    BY <1>2, <1>7, <1>8, <2>1
<1>13. \A n \in 1 .. q + 3 : r[a2 + (n - 1)] = z[n]
  <2>1. ASSUME NEW n \in 1 .. q + 3
        PROVE  /\ a2 + (n - 1) \in 0 .. Len(all) - 1
               /\ a2 + (n - 1) + 1 = Len(x) + Len(y) + n
    <3>1. Len(x) + Len(y) = a2
      BY <1>2, <1>3 DEF a2
    <3>2. a2 \in Nat /\ a2 + (q + 3) <= Len(all) /\ Len(all) \in Nat /\ q + 3 \in Nat
      BY <1>1, <1>10
    <3>3. QED
      BY <3>1, <3>2, AddressFacts
  <2>2. QED
    <3>1. ASSUME NEW n \in 1 .. q + 3
          PROVE  r[a2 + (n - 1)] = z[n]
      <4>1. r[a2 + (n - 1)] = all[Len(x) + Len(y) + n]
        BY <1>8, <2>1
      <4>2. n \in 1 .. Len(z)
        BY <1>4
      <4>3. QED
        BY <1>7, <4>1, <4>2
    <3>2. QED
      BY <3>1
<1>14. \A n \in 1 .. q + 3 : r[(a2 + q + 3) + (n - 1)] = v[n]
  <2>1. ASSUME NEW n \in 1 .. q + 3
        PROVE  /\ (a2 + q + 3) + (n - 1) \in 0 .. Len(all) - 1
               /\ (a2 + q + 3) + (n - 1) + 1 = Len(x) + Len(y) + Len(z) + n
    <3>1. Len(x) + Len(y) = a2
      BY <1>2, <1>3 DEF a2
    <3>2. Len(x) + Len(y) + Len(z) = a2 + q + 3
      BY <1>1, <1>4, <1>10, <3>1
    <3>3. /\ a2 + q + 3 \in Nat /\ (a2 + q + 3) + (q + 3) <= Len(all) /\ Len(all) \in Nat
          /\ q + 3 \in Nat
      BY <1>1, <1>10
    <3>4. QED
      BY <3>2, <3>3, AddressFacts
  <2>2. QED
    <3>1. ASSUME NEW n \in 1 .. q + 3
          PROVE  r[(a2 + q + 3) + (n - 1)] = v[n]
      <4>1. r[(a2 + q + 3) + (n - 1)] = all[Len(x) + Len(y) + Len(z) + n]
        BY <1>8, <2>1
      <4>2. n \in 1 .. Len(v)
        BY <1>5
      <4>3. QED
        BY <1>7, <4>1, <4>2
    <3>2. QED
      BY <3>1
<1>15. \A n \in 1 .. q + 1 : /\ r[a2 + (n - 1)] = Wire(Prefixed)[n]
                             /\ r[(a2 + q + 3) + (n - 1)] = Wire(Prefixed)[n]
  <2>1. ASSUME NEW n \in 1 .. q + 1
        PROVE  n \in 1 .. q + 3
    BY <1>1
  <2>2. QED
    BY <1>4, <1>5, <1>13, <1>14, <2>1
<1>16. /\ r[a2 + (q + 1)] = z[q + 2] /\ r[a2 + (q + 1) + 1] = z[q + 3]
       /\ r[(a2 + q + 3) + (q + 1)] = v[q + 2] /\ r[(a2 + q + 3) + (q + 1) + 1] = v[q + 3]
  <2>1. /\ q + 2 \in 1 .. q + 3 /\ q + 3 \in 1 .. q + 3
        /\ a2 + (q + 1) = a2 + ((q + 2) - 1) /\ a2 + (q + 1) + 1 = a2 + ((q + 3) - 1)
        /\ (a2 + q + 3) + (q + 1) = (a2 + q + 3) + ((q + 2) - 1)
        /\ (a2 + q + 3) + (q + 1) + 1 = (a2 + q + 3) + ((q + 3) - 1)
    BY <1>1, <1>10
  <2>2. r[a2 + ((q + 2) - 1)] = z[q + 2] /\ r[a2 + ((q + 3) - 1)] = z[q + 3]
    BY <1>13, <2>1
  <2>3. /\ r[(a2 + q + 3) + ((q + 2) - 1)] = v[q + 2]
        /\ r[(a2 + q + 3) + ((q + 3) - 1)] = v[q + 3]
    BY <1>14, <2>1
  <2>4. QED
    BY <2>1, <2>2, <2>3
<1>17. /\ Start(1, text, p) = h /\ Start(2, text, p) = a2 /\ Start(3, text, p) = a2 + q + 3
       /\ Part(1, text) = text /\ Part(2, text) = Prefixed /\ Part(3, text) = Prefixed
       /\ Target(2, text, p, k) = h + k - 1 /\ Target(3, text, p, k) = a2
  BY <1>1 DEF Start, Part, Target, h, q
<1>18. DOMAIN r = 0 .. Start(3, text, p) + q + 2
  <2>1. Len(all) - 1 = (a2 + q + 3) + q + 2
    BY <1>1, <1>10
  <2>2. QED
    BY <1>9, <1>17, <2>1
<1>19. ASSUME NEW s \in 1 .. 3, NEW n \in 1 .. Len(Part(s, text)) + 1
       PROVE  r[Start(s, text, p) + (n - 1)] = Wire(Part(s, text))[n]
  <2>1. CASE s = 1
    BY <1>11, <1>17, <1>19, <2>1 DEF l
  <2>2. CASE s = 2
    BY <1>15, <1>17, <1>19, <2>2 DEF q
  <2>3. CASE s = 3
    BY <1>15, <1>17, <1>19, <2>3 DEF q
  <2>4. QED
    BY <2>1, <2>2, <2>3
<1>20. ASSUME NEW s \in 2 .. 3
       PROVE  LET at == Start(s, text, p) + (q + 1)
              IN  /\ r[at] \in 192 .. 255
                  /\ Decoded(r[at], r[at + 1]) = Target(s, text, p, k)
  <2>1. CASE s = 2
    <3>1. Start(s, text, p) = a2 /\ Target(s, text, p, k) = h + k - 1
      BY <1>17, <2>1
    <3>2. /\ r[a2 + (q + 1)] \in 192 .. 255
          /\ Decoded(r[a2 + (q + 1)], r[a2 + (q + 1) + 1]) = h + k - 1
      <4>1. r[a2 + (q + 1)] = z[q + 2] /\ r[a2 + (q + 1) + 1] = z[q + 3]
        BY <1>16
      <4>2. QED
        BY <1>4, <4>1
    <3>3. QED
      BY <3>1, <3>2
  <2>2. CASE s = 3
    <3>1. Start(s, text, p) = a2 + q + 3 /\ Target(s, text, p, k) = a2
      BY <1>17, <2>2
    <3>2. /\ r[(a2 + q + 3) + (q + 1)] \in 192 .. 255
          /\ Decoded(r[(a2 + q + 3) + (q + 1)], r[(a2 + q + 3) + (q + 1) + 1]) = a2
      <4>1. /\ r[(a2 + q + 3) + (q + 1)] = v[q + 2]
            /\ r[(a2 + q + 3) + (q + 1) + 1] = v[q + 3]
        BY <1>16
      <4>2. QED
        BY <1>5, <4>1
    <3>3. QED
      BY <3>1, <3>2
  <2>3. QED
    BY <2>1, <2>2
<1>21. Laid(r, text, p, k)
  BY <1>12, <1>18, <1>19, <1>20 DEF Laid, h, l, q
<1>22. QED
  BY <1>6, <1>21 DEF r
-----------------------------------------------------------------------------
(* What the names of an answer mean.  The name that begins at Start(w) is   *)
(* read in parts: its own labels, then those that its pointer leads to, and *)
(* so on down to the question's.                                            *)

Text2(text, k) == Prefixed \o <<Dot>> \o SubSeq(text, k, Len(text))
Meaning(w, text, k) == IF w = 1 THEN text
                       ELSE IF w = 2 THEN Text2(text, k)
                       ELSE Prefixed \o <<Dot>> \o Text2(text, k)
Size(w, text) == IF w = 1 THEN Len(text) + 2 ELSE Len(Prefixed) + 3
NameOf(w, text, p, k) == Name(Start(w, text, p), Size(w, text), Meaning(w, text, k))

\* Part s of name w is read from the byte at From on, and Shift tells where its
\* text is in that of the name.
From(w, s, k)  == IF s = 1 /\ w # 1 THEN k ELSE 1
Shift(w, s, k) == IF s = w THEN 0
                  ELSE IF s = 2 THEN Len(Prefixed) + 1
                  ELSE IF w = 2 THEN Len(Prefixed) + 2 - k
                  ELSE Len(Prefixed) + Len(Prefixed) + 3 - k

\* There are these three names.
LEMMA NamesAre ==
  ASSUME NEW text \in Hosts, NEW p \in Paddings, NEW k \in Starts(text),
         NEW x \in Names(text, p, k)
  PROVE  \E w \in 1 .. 3 : x = NameOf(w, text, p, k)
<1>1. \/ x = Name(HEADER, Len(text) + 2, text)
      \/ x = Name(Address2(text, p), Len(Prefixed) + 3, Text2(text, k))
      \/ x = Name(Address2(text, p) + (Len(Prefixed) + 3), Len(Prefixed) + 3,
                  Prefixed \o <<Dot>> \o Text2(text, k))
  BY DEF Names, Text2
<1>2. /\ NameOf(1, text, p, k) = Name(HEADER, Len(text) + 2, text)
      /\ NameOf(2, text, p, k) = Name(Address2(text, p), Len(Prefixed) + 3, Text2(text, k))
      /\ NameOf(3, text, p, k) = Name(Address2(text, p) + Len(Prefixed) + 3, Len(Prefixed) + 3,
                                     Prefixed \o <<Dot>> \o Text2(text, k))
  BY DEF NameOf, Start, Size, Meaning
<1>3. Address2(text, p) + (Len(Prefixed) + 3) = Address2(text, p) + Len(Prefixed) + 3
  <2>1. /\ HEADER \in Nat /\ Len(text) \in Nat /\ Len(Prefixed) \in Nat /\ p \in Nat
        /\ Address2(text, p) = HEADER + Len(text) + 6 + p
    BY PlaceFacts
  <2>2. QED
    BY <2>1
<1>4. QED
  BY <1>1, <1>2, <1>3

\* Two sequences with a dot between them.
LEMMA DottedFacts ==
  ASSUME NEW x \in Seq(Bytes), NEW y \in Seq(Bytes),
         NEW d, d = <<Dot>>, NEW z, z = x \o d \o y
  PROVE  /\ z \in Seq(Bytes) /\ Len(z) = Len(x) + 1 + Len(y)
         /\ Len(x) \in Nat /\ Len(y) \in Nat
         /\ \A n \in 1 .. Len(x) : z[n] = x[n]
         /\ z[Len(x) + 1] = Dot
         /\ \A n \in 1 .. Len(y) : z[Len(x) + 1 + n] = y[n]
<1> DEFINE xd == x \o d
<1>1. Dot \in Bytes
  BY HostAssumption DEF Bytes
<1>2. d \in Seq(Bytes) /\ Len(d) = 1 /\ d[1] = Dot
  BY <1>1
<1>3. z = xd \o y
  OBVIOUS
<1>4. /\ xd \in Seq(Bytes) /\ Len(xd) = Len(x) + Len(d) /\ Len(x) \in Nat
      /\ \A n \in 1 .. Len(x) : xd[n] = x[n]
      /\ \A n \in 1 .. Len(d) : xd[Len(x) + n] = d[n]
  <2>1. d \in Seq(Bytes)
    BY <1>2
  <2>2. QED
    BY <2>1, JoinFacts
<1> HIDE DEF xd
<1>5. /\ xd \o y \in Seq(Bytes) /\ Len(xd \o y) = Len(xd) + Len(y) /\ Len(y) \in Nat
      /\ \A n \in 1 .. Len(xd) : (xd \o y)[n] = xd[n]
      /\ \A n \in 1 .. Len(y) : (xd \o y)[Len(xd) + n] = y[n]
  <2>1. xd \in Seq(Bytes)
    BY <1>4
  <2>2. QED
    BY <2>1, JoinFacts
<1>6. Len(xd) = Len(x) + 1
  BY <1>2, <1>4
<1>7. \A n \in 1 .. Len(x) : z[n] = x[n]
  BY <1>3, <1>4, <1>5, <1>6
<1>8. z[Len(x) + 1] = Dot
  <2>1. Len(x) + 1 \in 1 .. Len(xd)
    BY <1>4, <1>6
  <2>2. z[Len(x) + 1] = xd[Len(x) + 1]
    BY <1>3, <1>5, <2>1
  <2>3. QED
    BY <1>2, <1>4, <2>2
<1>9. QED
  BY <1>3, <1>4, <1>5, <1>6, <1>7, <1>8

\* The texts of the second and the third name, character by character.
LEMMA TextFacts ==
  ASSUME NEW text \in Hosts, NEW k \in 1 .. Len(text)
  PROVE  /\ Meaning(2, text, k) \in Seq(Bytes) /\ Meaning(3, text, k) \in Seq(Bytes)
         /\ Len(Meaning(2, text, k)) = Len(Prefixed) + 2 + Len(text) - k
         /\ Len(Meaning(3, text, k)) = Len(Prefixed) + 1 + Len(Prefixed) + 2 + Len(text) - k
         /\ \A n \in 1 .. Len(Prefixed) : /\ Meaning(2, text, k)[n] = Prefixed[n]
                                          /\ Meaning(3, text, k)[n] = Prefixed[n]
         /\ Meaning(2, text, k)[Len(Prefixed) + 1] = Dot
         /\ Meaning(3, text, k)[Len(Prefixed) + 1] = Dot
         /\ \A n \in k .. Len(text) : Meaning(2, text, k)[Len(Prefixed) + 2 - k + n] = text[n]
         /\ \A n \in 1 .. Len(Meaning(2, text, k)) :
              Meaning(3, text, k)[Len(Prefixed) + 1 + n] = Meaning(2, text, k)[n]
<1> DEFINE end == SubSeq(text, k, Len(text))
           dot == <<Dot>>
           l == Len(text)
           q == Len(Prefixed)
           t == Meaning(2, text, k)
           u == Meaning(3, text, k)
<1>1. text \in Seq(1 .. 255) /\ l \in Nat /\ Prefixed \in Seq(1 .. 255) /\ q \in Nat
  <2>1. IsName(Prefixed)
    BY HostAssumption
  <2>2. QED
    BY <2>1, HostFacts, WireFacts
<1>2. text \in Seq(Bytes) /\ Prefixed \in Seq(Bytes)
  BY <1>1, SeqMonotonic DEF Bytes
<1>3. /\ end \in Seq(Bytes) /\ Len(end) = l - k + 1
      /\ \A n \in 1 .. l - k + 1 : end[n] = text[k + n - 1]
  BY <1>1, <1>2, SubSeqProperties
<1>4. /\ t = Prefixed \o dot \o end /\ u = Prefixed \o dot \o t
      /\ dot = <<Dot>>
  BY DEF Meaning, Text2
<1> HIDE DEF end, dot, t, u
<1>5. /\ t \in Seq(Bytes) /\ Len(t) = q + 1 + Len(end)
      /\ \A n \in 1 .. q : t[n] = Prefixed[n]
      /\ t[q + 1] = Dot
      /\ \A n \in 1 .. Len(end) : t[q + 1 + n] = end[n]
  <2>1. Prefixed \in Seq(Bytes) /\ end \in Seq(Bytes)
    BY <1>2, <1>3
  <2>2. dot = <<Dot>> /\ t = Prefixed \o dot \o end
    BY <1>4
  <2>3. t \in Seq(Bytes)
    BY <2>1, <2>2, DottedFacts
  <2>4. Len(t) = q + 1 + Len(end)
    BY <2>1, <2>2, DottedFacts
  <2>5. \A n \in 1 .. q : t[n] = Prefixed[n]
    BY <2>1, <2>2, DottedFacts
  <2>6. t[q + 1] = Dot
    BY <2>1, <2>2, DottedFacts
  <2>7. \A n \in 1 .. Len(end) : t[q + 1 + n] = end[n]
    BY <2>1, <2>2, DottedFacts
  <2>8. QED
    BY <2>3, <2>4, <2>5, <2>6, <2>7
<1>6. /\ u \in Seq(Bytes) /\ Len(u) = q + 1 + Len(t)
      /\ \A n \in 1 .. q : u[n] = Prefixed[n]
      /\ u[q + 1] = Dot
      /\ \A n \in 1 .. Len(t) : u[q + 1 + n] = t[n]
  <2>1. Prefixed \in Seq(Bytes) /\ t \in Seq(Bytes)
    BY <1>2, <1>5
  <2>2. dot = <<Dot>> /\ u = Prefixed \o dot \o t
    BY <1>4
  <2>3. u \in Seq(Bytes)
    BY <2>1, <2>2, DottedFacts
  <2>4. Len(u) = q + 1 + Len(t)
    BY <2>1, <2>2, DottedFacts
  <2>5. \A n \in 1 .. q : u[n] = Prefixed[n]
    BY <2>1, <2>2, DottedFacts
  <2>6. u[q + 1] = Dot
    BY <2>1, <2>2, DottedFacts
  <2>7. \A n \in 1 .. Len(t) : u[q + 1 + n] = t[n]
    BY <2>1, <2>2, DottedFacts
  <2>8. QED
    BY <2>3, <2>4, <2>5, <2>6, <2>7
<1> HIDE DEF l, q
<1>7. Len(t) = q + 2 + l - k /\ Len(u) = q + 1 + q + 2 + l - k
  <2>1. k \in 1 .. l /\ Len(end) = l - k + 1
    BY <1>3 DEF l
  <2>2. QED
    BY <1>1, <1>5, <1>6, <2>1
<1>8. ASSUME NEW n \in k .. l
      PROVE  t[q + 2 - k + n] = text[n]
  <2> DEFINE m == n - k + 1
  <2>1. m \in 1 .. l - k + 1 /\ q + 1 + m = q + 2 - k + n /\ k + m - 1 = n
    BY <1>1 DEF l
  <2> HIDE DEF m
  <2>2. t[q + 1 + m] = end[m]
    BY <1>3, <1>5, <2>1
  <2>3. end[m] = text[k + m - 1]
    BY <1>3, <2>1
  <2>4. QED
    BY <2>1, <2>2, <2>3
<1>9. QED
  BY <1>5, <1>6, <1>7, <1>8 DEF t, u, l, q
\* Part s of name w stands in the name's text at its place, after a dot unless it
\* is the first; the part that its pointer leads to continues it.
Fits(w, s, text, k) ==
  LET m == Meaning(w, text, k)
      t == Part(s, text)
      d == Shift(w, s, k)
      f == From(w, s, k)
  IN  /\ m \in Seq(Bytes) /\ d \in Int /\ f \in 1 .. Len(t) /\ f \in Starts(t)
      /\ \A n \in f .. Len(t) : d + n \in 1 .. Len(m) /\ m[d + n] = t[n]
      /\ s = w => d = 0 /\ f = 1
      /\ s # w => d + f >= 3 /\ m[d + f - 1] = Dot
      /\ s = 1 => Len(m) = d + Len(t)
      /\ s # 1 => Shift(w, s - 1, k) + From(w, s - 1, k) = d + Len(Prefixed) + 2

LEMMA PartsFit ==
  ASSUME NEW text \in Hosts, NEW k \in Starts(text), NEW w \in 1 .. 3, NEW s \in 1 .. 3, s <= w
  PROVE  Fits(w, s, text, k)
<1> DEFINE l == Len(text)
           q == Len(Prefixed)
           t == Meaning(2, text, k)
           u == Meaning(3, text, k)
<1>0. k \in 1 .. l + 1 /\ Left(text, k) \in 1 .. 63 /\ IsName(text) /\ IsName(Prefixed)
  BY HostFacts, WireFacts, HostAssumption
<1>1. /\ text \in Seq(1 .. 255) /\ l \in Nat \ {0}
      /\ Prefixed \in Seq(1 .. 255) /\ q \in Nat \ {0}
  BY <1>0, WireFacts
<1>2. k \in 1 .. l
  BY StartsBeforeEnd
<1>3. 1 \in 1 .. l /\ 1 \in 1 .. q /\ 1 \in Starts(text) /\ 1 \in Starts(Prefixed)
  <2>1. 1 \in 1 .. l + 1 /\ 1 \in 1 .. q + 1 /\ 1 \in 1 .. l /\ 1 \in 1 .. q
    BY <1>1
  <2>2. QED
    BY <1>1, <2>1, StartFacts
<1>4. Len(t) = q + 2 + l - k /\ Len(u) = q + 1 + q + 2 + l - k
  BY <1>2, TextFacts
<1>5. /\ t \in Seq(Bytes) /\ u \in Seq(Bytes)
      /\ \A n \in 1 .. q : t[n] = Prefixed[n] /\ u[n] = Prefixed[n]
      /\ t[q + 1] = Dot /\ u[q + 1] = Dot
      /\ \A n \in k .. l : t[q + 2 - k + n] = text[n]
      /\ \A n \in 1 .. Len(t) : u[q + 1 + n] = t[n]
  BY <1>2, TextFacts
<1> HIDE DEF l, q, t, u
<1>6. CASE w = 1
  <2>1. s = 1
    BY <1>6
  <2>2. text \in Seq(Bytes)
    BY <1>1, SeqMonotonic DEF Bytes
  <2>3. /\ Meaning(w, text, k) = text /\ Part(s, text) = text
        /\ Shift(w, s, k) = 0 /\ From(w, s, k) = 1
    BY <1>6, <2>1 DEF Meaning, Part, Shift, From
  <2>4. QED
    BY <1>1, <1>3, <1>6, <2>1, <2>2, <2>3 DEF Fits, l
<1>7. CASE w = 2 /\ s = 2
  <2>1. /\ Meaning(w, text, k) = t /\ Part(s, text) = Prefixed
        /\ Shift(w, s, k) = 0 /\ From(w, s, k) = 1
        /\ Shift(w, s - 1, k) = q + 2 - k /\ From(w, s - 1, k) = k
    BY <1>7 DEF Part, Shift, From, t, q
  <2>2. ASSUME NEW n \in 1 .. q
        PROVE  0 + n = n /\ n \in 1 .. Len(t)
    BY <1>1, <1>2, <1>4
  <2>3. \A n \in 1 .. q : 0 + n \in 1 .. Len(t) /\ t[0 + n] = Prefixed[n]
    BY <1>5, <2>2
  <2>4. (q + 2 - k) + k = 0 + q + 2
    BY <1>1, <1>2
  <2>5. s = w /\ s # 1
    BY <1>7
  <2>6. QED
    BY <1>3, <1>5, <2>1, <2>3, <2>4, <2>5 DEF Fits, q
<1>8. CASE w = 2 /\ s = 1
  <2>1. /\ Meaning(w, text, k) = t /\ Part(s, text) = text
        /\ Shift(w, s, k) = q + 2 - k /\ From(w, s, k) = k
    BY <1>8 DEF Part, Shift, From, t, q
  <2>2. ASSUME NEW n \in k .. l
        PROVE  q + 2 - k + n \in 1 .. Len(t)
    BY <1>1, <1>2, <1>4
  <2>3. \A n \in k .. l : q + 2 - k + n \in 1 .. Len(t) /\ t[q + 2 - k + n] = text[n]
    BY <1>5, <2>2
  <2>4. /\ q + 2 - k + k >= 3 /\ q + 2 - k + k - 1 = q + 1 /\ q + 2 - k \in Int
        /\ Len(t) = q + 2 - k + l
    BY <1>1, <1>2, <1>4
  <2>5. s # w /\ s = 1
    BY <1>8
  <2>6. t[q + 2 - k + k - 1] = Dot
    BY <1>5, <2>4
  <2>7. QED
    BY <1>2, <1>5, <2>1, <2>3, <2>4, <2>5, <2>6 DEF Fits, l
<1>9. CASE w = 3 /\ s = 3
  <2>1. /\ Meaning(w, text, k) = u /\ Part(s, text) = Prefixed
        /\ Shift(w, s, k) = 0 /\ From(w, s, k) = 1
        /\ Shift(w, s - 1, k) = q + 1 /\ From(w, s - 1, k) = 1
    BY <1>9 DEF Part, Shift, From, u, q
  <2>2. ASSUME NEW n \in 1 .. q
        PROVE  0 + n = n /\ n \in 1 .. Len(u)
    BY <1>1, <1>2, <1>4
  <2>3. \A n \in 1 .. q : 0 + n \in 1 .. Len(u) /\ u[0 + n] = Prefixed[n]
    BY <1>5, <2>2
  <2>4. (q + 1) + 1 = 0 + q + 2
    BY <1>1
  <2>5. s = w /\ s # 1
    BY <1>9
  <2>6. QED
    BY <1>3, <1>5, <2>1, <2>3, <2>4, <2>5 DEF Fits, q
<1>10. CASE w = 3 /\ s = 2
  <2>1. /\ Meaning(w, text, k) = u /\ Part(s, text) = Prefixed
        /\ Shift(w, s, k) = q + 1 /\ From(w, s, k) = 1
        /\ Shift(w, s - 1, k) = q + q + 3 - k /\ From(w, s - 1, k) = k
    BY <1>10 DEF Part, Shift, From, u, q
  <2>2. ASSUME NEW n \in 1 .. q
        PROVE  q + 1 + n \in 1 .. Len(u) /\ n \in 1 .. Len(t)
    BY <1>1, <1>2, <1>4
  <2>3. \A n \in 1 .. q : q + 1 + n \in 1 .. Len(u) /\ u[q + 1 + n] = Prefixed[n]
    BY <1>5, <2>2
  <2>4. /\ q + 1 + 1 >= 3 /\ q + 1 + 1 - 1 = q + 1 /\ q + 1 \in Int
        /\ (q + q + 3 - k) + k = q + 1 + q + 2
    BY <1>1, <1>2
  <2>5. s # w /\ s # 1
    BY <1>10
  <2>6. u[q + 1 + 1 - 1] = Dot
    BY <1>5, <2>4
  <2>7. QED
    BY <1>3, <1>5, <2>1, <2>3, <2>4, <2>5, <2>6 DEF Fits, q
<1>11. CASE w = 3 /\ s = 1
  <2> DEFINE d == q + q + 3 - k
  <2>1. /\ Meaning(w, text, k) = u /\ Part(s, text) = text
        /\ Shift(w, s, k) = d /\ From(w, s, k) = k
    BY <1>11 DEF Part, Shift, From, u, q
  <2>2. ASSUME NEW n \in k .. l
        PROVE  /\ q + 2 - k + n \in 1 .. Len(t) /\ d + n \in 1 .. Len(u)
               /\ q + 1 + (q + 2 - k + n) = d + n
    BY <1>1, <1>2, <1>4
  <2>3. /\ q + 1 \in 1 .. Len(t) /\ q + 1 + (q + 1) = d + k - 1
        /\ d + k >= 3 /\ Len(u) = d + l /\ d \in Int
    BY <1>1, <1>2, <1>4
  <2> HIDE DEF d
  <2>4. ASSUME NEW n \in k .. l
        PROVE  d + n \in 1 .. Len(u) /\ u[d + n] = text[n]
    <3>1. u[q + 1 + (q + 2 - k + n)] = t[q + 2 - k + n]
      BY <1>5, <2>2
    <3>2. t[q + 2 - k + n] = text[n]
      BY <1>5
    <3>3. QED
      BY <2>2, <3>1, <3>2
  <2>5. u[d + k - 1] = Dot
    <3>1. u[q + 1 + (q + 1)] = t[q + 1]
      BY <1>5, <2>3
    <3>2. QED
      BY <1>5, <2>3, <3>1
  <2>6. s # w /\ s = 1
    BY <1>11
  <2>7. QED
    BY <1>2, <1>5, <2>1, <2>3, <2>4, <2>5, <2>6 DEF Fits, l
<1>12. QED
  BY <1>6, <1>7, <1>8, <1>9, <1>10, <1>11
-----------------------------------------------------------------------------
(* Reading a name.                                                         *)

\* Name w is being read, up to byte n of its part s.  The text so far is that of
\* the name, what is left of a label is what is to be read of it, and the number
\* of bytes is known from the first pointer on.
ReadAt(p, k, w, s, n) ==
  /\ Laid(response, host, p, k)
  /\ name = NameOf(w, host, p, k)
  /\ n \in From(w, s, k) .. Len(Part(s, host)) + 2
  /\ dns_name = Start(s, host, p) + (n - 1)
  /\ part_remainder = Rem(Part(s, host), n) /\ part_remainder \in 0 .. 63
  /\ str_name \in Seq(Bytes)
  /\ Len(str_name) = IF s = w /\ n = 1 THEN 0 ELSE Shift(w, s, k) + n - 2
  /\ \A m \in 1 .. Len(str_name) : str_name[m] = name.text[m]
  /\ return_len = IF s = w THEN 0 ELSE Size(w, host)

Unread == part_remainder = 0 /\ str_name = <<>> /\ return_len = 0

\* Nothing is read before the answer has come, nothing comes once it is read; an
\* answer under way has a name at name.start; and what has been read is right.
AnswerInv ==
  /\ pc \in {"convert", "send"} => link = "none"
  /\ pc \in {"convert", "send", "waiting", "exited"} => Unread
  /\ link = "answer" =>
       \E p \in Paddings, k \in Starts(host), w \in 1 .. 3 :
         Laid(response, host, p, k) /\ name = NameOf(w, host, p, k)
  /\ pc = "read" =>
       /\ link = "none"
       /\ \E p \in Paddings, k \in Starts(host), w \in 1 .. 3, s \in 1 .. 3 :
            s <= w /\ \E n \in 1 .. Len(Part(s, host)) + 2 : ReadAt(p, k, w, s, n)
  /\ pc = "returned" =>
       \/ Unread
       \/ /\ link = "none" /\ part_remainder = 0
          /\ str_name \in Seq(Bytes) /\ return_len \in Nat
          /\ str_name = name.text /\ return_len = name.bytes

IInv == SendInv /\ AnswerInv
\* What the byte at dns_name can be: a label's length, one of its characters, the
\* end, or a pointer; each where it has to be.
LengthNext(s, n) ==
  LET t == Part(s, host)
  IN  /\ n \in 1 .. Len(t) + 1 /\ n \in Starts(t)
      /\ part_remainder = 0 /\ response[dns_name] = Left(t, n)
      /\ Left(t, n) = Rem(t, n + 1) /\ Left(t, n) \in 1 .. 63
CharNext(s, n) ==
  LET t == Part(s, host)
  IN  /\ n \in 2 .. Len(t) + 1 /\ n \notin Starts(t)
      /\ part_remainder > 0 /\ Rem(t, n + 1) = part_remainder - 1
      /\ response[dns_name] = t[n - 1] /\ t[n - 1] \in 1 .. 255
EndNext(s, n) == /\ s = 1 /\ n = Len(host) + 2
                 /\ part_remainder = 0 /\ response[dns_name] = 0
PointerNext(p, k, s, n) ==
  /\ s # 1 /\ n = Len(Prefixed) + 2
  /\ part_remainder = 0 /\ response[dns_name] \in 192 .. 255
  /\ Offset = Target(s, host, p, k)

LEMMA NextByte ==
  ASSUME host \in Hosts, NEW p \in Paddings, NEW k \in Starts(host),
         NEW w \in 1 .. 3, NEW s \in 1 .. 3, s <= w, NEW n, ReadAt(p, k, w, s, n)
  PROVE  LengthNext(s, n) \/ CharNext(s, n) \/ EndNext(s, n) \/ PointerNext(p, k, s, n)
<1> DEFINE t == Part(s, host)
           l == Len(t)
           a == Start(s, host, p)
<1>1. IsName(t) /\ a \in Nat
  BY PlaceFacts
<1>2. Fits(w, s, host, k)
  BY PartsFit
<1>3. t \in Seq(1 .. 255) /\ l \in Nat \ {0}
  BY <1>1, WireFacts
<1>4. /\ n \in From(w, s, k) .. l + 2 /\ From(w, s, k) \in 1 .. l
      /\ dns_name = a + (n - 1) /\ part_remainder = Rem(t, n)
  BY <1>2 DEF ReadAt, Fits
<1>5. n \in 1 .. l + 2
  BY <1>3, <1>4
<1>6. /\ \A x \in 1 .. l + 1 : response[a + (x - 1)] = Wire(t)[x]
      /\ response[HEADER + (Len(host) + 1)] = 0
  BY DEF ReadAt, Laid
<1> HIDE DEF t, l, a
<1>7. CASE n \in Starts(t)
  <2>1. n \in 1 .. l + 1 /\ Wire(t)[n] = Left(t, n) /\ Left(t, n) \in 1 .. 63
    BY <1>1, <1>7, WireFacts DEF l
  <2>2. Rem(t, n) = 0 /\ Rem(t, n + 1) = Left(t, n)
    BY <1>1, <1>5, <1>7, RemFacts DEF l
  <2>3. response[dns_name] = Left(t, n)
    BY <1>4, <1>6, <2>1
  <2>4. LengthNext(s, n)
    BY <1>4, <1>7, <2>1, <2>2, <2>3 DEF LengthNext, t, l
  <2>5. QED
    BY <2>4
<1>8. CASE n \in 1 .. l + 1 /\ n \notin Starts(t)
  <2>1. n \in 2 .. l + 1 /\ t[n - 1] \in 1 .. 255
    BY <1>3, <1>8, StartFacts DEF l
  <2>2. Wire(t)[n] = t[n - 1]
    BY <1>1, <1>8, WireFacts DEF l
  <2>3. Rem(t, n) > 0 /\ Rem(t, n + 1) = Rem(t, n) - 1
    BY <1>1, <1>5, <1>8, RemFacts DEF l
  <2>4. response[dns_name] = t[n - 1]
    BY <1>4, <1>6, <1>8, <2>2
  <2>5. CharNext(s, n)
    BY <1>4, <1>8, <2>1, <2>3, <2>4 DEF CharNext, t, l
  <2>6. QED
    BY <2>5
<1>9. CASE n = l + 2
  <2>1. Rem(t, n) = 0
    BY <1>1, <1>5, <1>9, RemFacts DEF l
  <2>2. CASE s = 1
    <3>1. t = host /\ a = HEADER
      BY <2>2 DEF t, a, Part, Start
    <3>2. n - 1 = Len(host) + 1 /\ n = Len(host) + 2
      BY <1>3, <1>9, <3>1 DEF l
    <3>3. QED
      BY <1>4, <1>6, <2>1, <2>2, <3>1, <3>2 DEF EndNext
  <2>3. CASE s # 1
    <3>1. t = Prefixed /\ s \in 2 .. 3
      BY <2>3 DEF t, Part
    <3>2. n - 1 = Len(Prefixed) + 1 /\ n = Len(Prefixed) + 2
      BY <1>3, <1>9, <3>1 DEF l
    <3>3. dns_name = a + (Len(Prefixed) + 1)
      BY <1>4, <3>2
    <3>4. /\ response[a + (Len(Prefixed) + 1)] \in 192 .. 255
          /\ Decoded(response[a + (Len(Prefixed) + 1)], response[a + (Len(Prefixed) + 1) + 1])
               = Target(s, host, p, k)
      BY <3>1 DEF ReadAt, Laid, a
    <3>5. Offset = Decoded(response[dns_name], response[dns_name + 1])
      BY DEF Offset, Decoded
    <3>6. QED
      BY <1>4, <2>1, <2>3, <3>2, <3>3, <3>4, <3>5 DEF PointerNext
  <2>4. QED
    BY <2>2, <2>3
<1>10. QED
  BY <1>3, <1>5, <1>7, <1>8, <1>9
\* As much as has been read is there once a label's length is due: none only
\* where the name begins.
LEMMA ReadSoFar ==
  ASSUME host \in Hosts, NEW p \in Paddings, NEW k \in Starts(host),
         NEW w \in 1 .. 3, NEW s \in 1 .. 3, s <= w, NEW n, ReadAt(p, k, w, s, n),
         LengthNext(s, n)
  PROVE  LET d == Shift(w, s, k)
         IN  \/ s = w /\ n = 1 /\ d = 0 /\ str_name = <<>>
             \/ /\ d + n >= 3 /\ Len(str_name) = d + n - 2 /\ str_name # <<>>
                /\ name.text[d + n - 1] = Dot
<1> DEFINE t == Part(s, host)
           l == Len(t)
           d == Shift(w, s, k)
           f == From(w, s, k)
           m == Meaning(w, host, k)
<1>1. IsName(t)
  BY PlaceFacts
<1>2. t \in Seq(1 .. 255) /\ l \in Nat \ {0}
  BY <1>1, WireFacts
<1>3. /\ d \in Int /\ f \in 1 .. l
      /\ \A x \in f .. l : m[d + x] = t[x]
      /\ s = w => d = 0 /\ f = 1
      /\ s # w => d + f >= 3 /\ m[d + f - 1] = Dot
  <2>1. Fits(w, s, host, k)
    BY PartsFit
  <2>2. QED
    BY <2>1 DEF Fits
<1>4. n \in 1 .. l + 1 /\ n \in Starts(t) /\ n \in f .. l + 2
  BY DEF LengthNext, ReadAt
<1>5. /\ name.text = m /\ str_name \in Seq(Bytes)
      /\ Len(str_name) = IF s = w /\ n = 1 THEN 0 ELSE d + n - 2
  BY DEF ReadAt, NameOf, Name
<1> HIDE DEF t, l, d, f, m
<1>6. CASE s = w /\ n = 1
  <2>1. Len(str_name) = 0
    BY <1>5, <1>6
  <2>2. str_name = <<>>
    BY <1>5, <2>1, EmptySeq
  <2>3. QED
    BY <1>3, <1>6, <2>2 DEF d
<1>7. CASE ~(s = w /\ n = 1)
  <2>1. n # 1 => t[n - 1] = Dot
    BY <1>2, <1>4, StartFacts DEF l
  <2>2. d + n >= 3
    <3>1. CASE s # w
      BY <1>2, <1>3, <1>4, <3>1
    <3>2. CASE s = w
      <4>1. n # 1 /\ d = 0
        BY <1>3, <1>7, <3>2
      <4>2. n # 2
        <5>1. SUFFICES ASSUME n = 2 PROVE FALSE
          OBVIOUS
        <5>2. t[1] = Dot /\ 1 \in 1 .. l + 1
          BY <1>2, <2>1, <4>1, <5>1
        <5>3. Left(t, 1) = 0 /\ 1 \in Starts(t)
          BY <1>2, <5>2, LeftFacts, StartFacts DEF l
        <5>4. QED
          BY <1>1, <5>3, LeftPositive
      <4>3. QED
        BY <1>2, <1>4, <4>1, <4>2
    <3>3. QED
      BY <3>1, <3>2
  <2>3. Len(str_name) = d + n - 2 /\ Len(str_name) # 0
    BY <1>2, <1>3, <1>4, <1>5, <1>7, <2>2
  <2>4. str_name # <<>>
    BY <1>5, <2>3, EmptySeq
  <2>5. m[d + n - 1] = Dot
    <3>1. CASE n = f
      <4>1. s # w
        BY <1>3, <1>7, <3>1
      <4>2. QED
        BY <1>3, <3>1, <4>1
    <3>2. CASE n # f
      <4>1. n - 1 \in f .. l /\ d + (n - 1) = d + n - 1 /\ n # 1
        BY <1>2, <1>3, <1>4, <3>2
      <4>2. QED
        BY <1>3, <2>1, <4>1
    <3>3. QED
      BY <3>1, <3>2
  <2>6. QED
    BY <1>5, <2>2, <2>3, <2>4, <2>5 DEF d
<1>8. QED
  BY <1>6, <1>7
\* One more character of the name's text.
LEMMA OneMore ==
  ASSUME NEW c \in Bytes, NEW text, str_name \in Seq(Bytes), str_name' = Append(str_name, c),
         \A m \in 1 .. Len(str_name) : str_name[m] = text[m],
         c = text[Len(str_name) + 1]
  PROVE  /\ str_name' \in Seq(Bytes) /\ Len(str_name') = Len(str_name) + 1
         /\ \A m \in 1 .. Len(str_name') : str_name'[m] = text[m]
<1> DEFINE l == Len(str_name)
<1>1. /\ str_name' \in Seq(Bytes) /\ Len(str_name') = l + 1 /\ l \in Nat
      /\ \A m \in 1 .. l : str_name'[m] = str_name[m]
      /\ str_name'[l + 1] = c
  BY AppendProperties, LenProperties
<1>2. ASSUME NEW m \in 1 .. l + 1
      PROVE  str_name'[m] = text[m]
  <2>1. m \in 1 .. l \/ m = l + 1
    BY <1>1
  <2>2. QED
    BY <1>1, <2>1
<1>3. QED
  BY <1>1, <1>2

LEMMA ReadKeepsLength ==
  ASSUME host \in Hosts, NEW p \in Paddings, NEW k \in Starts(host),
         NEW w \in 1 .. 3, NEW s \in 1 .. 3, s <= w, NEW n, ReadAt(p, k, w, s, n),
         ReadLength
  PROVE  n + 1 \in 1 .. Len(Part(s, host)) + 2 /\ ReadAt(p, k, w, s, n + 1)'
<1> DEFINE t == Part(s, host)
           l == Len(t)
           d == Shift(w, s, k)
           f == From(w, s, k)
<1>1. /\ response' = response /\ name' = name /\ host' = host /\ return_len' = return_len
      /\ part_remainder = 0 /\ response[dns_name] # 0 /\ response[dns_name] < 192
      /\ dns_name' = dns_name + 1 /\ part_remainder' = response[dns_name]
      /\ str_name' = IF str_name # <<>> THEN Append(str_name, Dot) ELSE str_name
  BY DEF ReadLength, AtLength, Reading, PartBegins
<1>2. LengthNext(s, n)
  <2>1. ~CharNext(s, n)
    BY <1>1 DEF CharNext
  <2>2. ~EndNext(s, n)
    BY <1>1 DEF EndNext
  <2>3. ~PointerNext(p, k, s, n)
    <3> DEFINE b == response[dns_name]
    <3>1. PointerNext(p, k, s, n) => b \in 192 .. 255
      BY DEF PointerNext
    <3>2. b < 192
      BY <1>1
    <3> HIDE DEF b
    <3>3. QED
      BY <3>1, <3>2
  <2>4. QED
    BY <2>1, <2>2, <2>3, NextByte
<1>3. /\ n \in 1 .. l + 1 /\ response[dns_name] = Rem(t, n + 1)
      /\ response[dns_name] \in 1 .. 63
  BY <1>2 DEF LengthNext
<1>4. /\ n \in f .. l + 2 /\ f \in 1 .. l /\ l \in Nat /\ d \in Int
      /\ dns_name = Start(s, host, p) + (n - 1) /\ Start(s, host, p) \in Nat
  <2>1. Fits(w, s, host, k)
    BY PartsFit
  <2>2. IsName(t) /\ Start(s, host, p) \in Nat
    BY PlaceFacts
  <2>3. l \in Nat
    BY <2>2, WireFacts
  <2>4. f \in 1 .. l /\ d \in Int
    BY <2>1 DEF Fits
  <2>5. QED
    BY <2>2, <2>3, <2>4 DEF ReadAt
<1>5. /\ str_name \in Seq(Bytes) /\ \A m \in 1 .. Len(str_name) : str_name[m] = name.text[m]
  BY DEF ReadAt
<1>6. \/ s = w /\ n = 1 /\ d = 0 /\ str_name = <<>>
      \/ /\ d + n >= 3 /\ Len(str_name) = d + n - 2 /\ str_name # <<>>
         /\ name.text[d + n - 1] = Dot
  BY <1>2, ReadSoFar
<1> HIDE DEF t, l, d, f
<1>7. /\ str_name' \in Seq(Bytes) /\ Len(str_name') = d + (n + 1) - 2
      /\ \A m \in 1 .. Len(str_name') : str_name'[m] = name.text[m]
  <2>1. CASE s = w /\ n = 1 /\ d = 0 /\ str_name = <<>>
    BY <1>1, <1>5, <2>1
  <2>2. CASE /\ d + n >= 3 /\ Len(str_name) = d + n - 2 /\ str_name # <<>>
             /\ name.text[d + n - 1] = Dot
    <3>1. Dot \in Bytes /\ str_name' = Append(str_name, Dot)
      BY <1>1, <2>2, HostAssumption DEF Bytes
    <3>2. Len(str_name) + 1 = d + n - 1 /\ Len(str_name) + 1 = d + (n + 1) - 2
      BY <1>3, <1>4, <2>2
    <3>3. Dot = name.text[Len(str_name) + 1]
      BY <2>2, <3>2
    <3>4. /\ str_name' \in Seq(Bytes) /\ Len(str_name') = Len(str_name) + 1
          /\ \A m \in 1 .. Len(str_name') : str_name'[m] = name.text[m]
      BY <1>5, <3>1, <3>3, OneMore
    <3>5. QED
      BY <3>2, <3>4
  <2>3. QED
    BY <1>6, <2>1, <2>2
<1>8. /\ n + 1 \in f .. l + 2 /\ n + 1 # 1 /\ n + 1 \in 1 .. l + 2
      /\ dns_name' = Start(s, host, p) + ((n + 1) - 1)
  BY <1>1, <1>3, <1>4
<1>9. part_remainder' = Rem(t, n + 1) /\ part_remainder' \in 0 .. 63
  BY <1>1, <1>3
<1>10. Laid(response, host, p, k) /\ name = NameOf(w, host, p, k)
       /\ return_len = IF s = w THEN 0 ELSE Size(w, host)
  BY DEF ReadAt
<1>11. ReadAt(p, k, w, s, n + 1)'
  BY <1>1, <1>7, <1>8, <1>9, <1>10 DEF ReadAt, t, l, d, f
<1>12. QED
  BY <1>8, <1>11 DEF t, l
LEMMA ReadKeepsChar ==
  ASSUME host \in Hosts, NEW p \in Paddings, NEW k \in Starts(host),
         NEW w \in 1 .. 3, NEW s \in 1 .. 3, s <= w, NEW n, ReadAt(p, k, w, s, n),
         ReadChar
  PROVE  n + 1 \in 1 .. Len(Part(s, host)) + 2 /\ ReadAt(p, k, w, s, n + 1)'
<1> DEFINE t == Part(s, host)
           l == Len(t)
           d == Shift(w, s, k)
           f == From(w, s, k)
           c == response[dns_name]
<1>1. /\ response' = response /\ name' = name /\ host' = host /\ return_len' = return_len
      /\ part_remainder > 0
      /\ dns_name' = dns_name + 1 /\ part_remainder' = part_remainder - 1
      /\ str_name' = Append(str_name, c)
  BY DEF ReadChar, Reading
<1>2. CharNext(s, n)
  BY <1>1, NextByte DEF LengthNext, EndNext, PointerNext
<1>3. /\ n \in 2 .. l + 1 /\ n \notin Starts(t) /\ Rem(t, n + 1) = part_remainder - 1
      /\ c = t[n - 1] /\ t[n - 1] \in 1 .. 255
  BY <1>2 DEF CharNext
<1>4. /\ n \in f .. l + 2 /\ f \in 1 .. l /\ f \in Starts(t) /\ l \in Nat /\ d \in Int
      /\ dns_name = Start(s, host, p) + (n - 1) /\ Start(s, host, p) \in Nat
      /\ \A x \in f .. l : Meaning(w, host, k)[d + x] = t[x]
  <2>1. Fits(w, s, host, k)
    BY PartsFit
  <2>2. IsName(t) /\ Start(s, host, p) \in Nat
    BY PlaceFacts
  <2>3. l \in Nat
    BY <2>2, WireFacts
  <2>4. /\ f \in 1 .. l /\ d \in Int /\ f \in Starts(t)
        /\ \A x \in f .. l : Meaning(w, host, k)[d + x] = t[x]
    BY <2>1 DEF Fits
  <2>5. QED
    BY <2>2, <2>3, <2>4 DEF ReadAt
<1>5. /\ str_name \in Seq(Bytes) /\ \A m \in 1 .. Len(str_name) : str_name[m] = name.text[m]
      /\ Len(str_name) = IF s = w /\ n = 1 THEN 0 ELSE d + n - 2
      /\ name.text = Meaning(w, host, k)
      /\ part_remainder \in 0 .. 63
  BY DEF ReadAt, NameOf, Name
<1> HIDE DEF t, l, d, f, c
<1>6. /\ n # 1 /\ Len(str_name) = d + n - 2 /\ Len(str_name) + 1 = d + (n - 1)
      /\ Len(str_name) + 1 = d + (n + 1) - 2
  <2>1. n # 1 /\ n \in Nat /\ d \in Int
    BY <1>3, <1>4
  <2>2. Len(str_name) = d + n - 2
    BY <1>5, <2>1
  <2>3. QED
    BY <2>1, <2>2
<1>7. c = name.text[Len(str_name) + 1] /\ c \in Bytes
  <2>1. n # f
    BY <1>3, <1>4
  <2>2. n - 1 \in f .. l
    BY <1>3, <1>4, <2>1
  <2>3. Meaning(w, host, k)[d + (n - 1)] = t[n - 1]
    BY <1>4, <2>2
  <2>4. c \in Bytes
    BY <1>3 DEF Bytes
  <2>5. QED
    BY <1>3, <1>5, <1>6, <2>3, <2>4
<1>8. /\ str_name' \in Seq(Bytes) /\ Len(str_name') = Len(str_name) + 1
      /\ \A m \in 1 .. Len(str_name') : str_name'[m] = name.text[m]
  BY <1>1, <1>5, <1>7, OneMore
<1>9. /\ n + 1 \in f .. l + 2 /\ n + 1 # 1 /\ n + 1 \in 1 .. l + 2
      /\ dns_name' = Start(s, host, p) + ((n + 1) - 1)
      /\ Len(str_name') = d + (n + 1) - 2
  <2>1. n \in 2 .. l + 1 /\ f \in 1 .. l /\ l \in Nat /\ n \in f .. l + 2
    BY <1>3, <1>4
  <2>2. n + 1 \in f .. l + 2 /\ n + 1 # 1 /\ n + 1 \in 1 .. l + 2
    BY <2>1
  <2>3. dns_name' = Start(s, host, p) + (n - 1) + 1 /\ Start(s, host, p) \in Nat
    BY <1>1, <1>4
  <2>4. dns_name' = Start(s, host, p) + ((n + 1) - 1)
    BY <2>1, <2>3
  <2>5. Len(str_name') = d + (n + 1) - 2
    BY <1>6, <1>8
  <2>6. QED
    BY <2>2, <2>4, <2>5
<1>10. part_remainder' = Rem(t, n + 1) /\ part_remainder' \in 0 .. 63
  <2>1. part_remainder - 1 \in 0 .. 63
    BY <1>1, <1>5
  <2>2. QED
    BY <1>1, <1>3, <2>1
<1>11. Laid(response, host, p, k) /\ name = NameOf(w, host, p, k)
       /\ return_len = IF s = w THEN 0 ELSE Size(w, host)
  BY DEF ReadAt
<1>12. ReadAt(p, k, w, s, n + 1)'
  BY <1>1, <1>8, <1>9, <1>10, <1>11 DEF ReadAt, t, l, d, f
<1>13. QED
  BY <1>9, <1>12 DEF t, l

\* A pointer leads to the part before, where nothing is left of a label either.
LEMMA ReadKeepsPointer ==
  ASSUME host \in Hosts, NEW p \in Paddings, NEW k \in Starts(host),
         NEW w \in 1 .. 3, NEW s \in 1 .. 3, s <= w, NEW n, ReadAt(p, k, w, s, n),
         FollowPointer
  PROVE  LET x == From(w, s - 1, k)
         IN  /\ s - 1 \in 1 .. 3 /\ s - 1 <= w /\ x \in 1 .. Len(Part(s - 1, host)) + 2
             /\ ReadAt(p, k, w, s - 1, x)'
<1> DEFINE x == From(w, s - 1, k)
           t == Part(s - 1, host)
           q == Len(Prefixed)
<1>1. /\ response' = response /\ name' = name /\ host' = host
      /\ part_remainder = 0 /\ response[dns_name] # 0 /\ response[dns_name] >= 192
      /\ dns_name' = Offset /\ part_remainder' = part_remainder /\ str_name' = str_name
      /\ return_len' = IF return_len = 0 THEN dns_name - name.start + 2 ELSE return_len
  BY DEF FollowPointer, Follow, AtLength, Reading, AfterPointer
<1>2. PointerNext(p, k, s, n)
  <2>1. ~CharNext(s, n)
    BY <1>1 DEF CharNext
  <2>2. ~EndNext(s, n)
    BY <1>1 DEF EndNext
  <2>3. ~LengthNext(s, n)
    <3> DEFINE b == response[dns_name]
    <3>1. LengthNext(s, n) => b \in 1 .. 63
      BY DEF LengthNext
    <3>2. b >= 192
      BY <1>1
    <3> HIDE DEF b
    <3>3. QED
      BY <3>1, <3>2
  <2>4. QED
    BY <2>1, <2>2, <2>3, NextByte
<1>3. s # 1 /\ n = q + 2 /\ Offset = Target(s, host, p, k)
  BY <1>2 DEF PointerNext
<1>4. s - 1 \in 1 .. 3 /\ s - 1 <= w /\ s - 1 < w /\ s - 1 # w
  BY <1>3
<1>5. /\ HEADER \in Nat /\ Len(host) \in Nat /\ q \in Nat \ {0} /\ p \in Nat /\ k \in Nat
      /\ Address2(host, p) = HEADER + Len(host) + 6 + p
      /\ Start(w, host, p) \in Nat /\ IsName(t)
  <2>1. k \in 1 .. Len(host) /\ Len(host) \in Nat
    BY PlaceFacts
  <2>2. k \in Nat
    BY <2>1
  <2>3. QED
    BY <1>4, <2>1, <2>2, PlaceFacts
<1>6. /\ x \in 1 .. Len(t) /\ x \in Starts(t) /\ Len(t) \in Nat
  <2>1. Fits(w, s - 1, host, k)
    BY <1>4, PartsFit
  <2>2. Len(t) \in Nat
    BY <1>5, WireFacts
  <2>3. QED
    BY <2>1, <2>2 DEF Fits
<1>7. Shift(w, s, k) \in Int /\ Shift(w, s - 1, k) \in Int
      /\ Shift(w, s - 1, k) + x = Shift(w, s, k) + q + 2
  <2>1. Fits(w, s, host, k)
    BY PartsFit
  <2>2. Fits(w, s - 1, host, k)
    BY <1>4, PartsFit
  <2>3. Shift(w, s - 1, k) \in Int
    BY <2>2 DEF Fits
  <2>4. QED
    BY <1>3, <2>1, <2>3 DEF Fits
<1>8. dns_name' = Start(s - 1, host, p) + (x - 1)
  <2>1. CASE s = 2
    <3>1. x = k /\ Start(s - 1, host, p) = HEADER /\ Target(s, host, p, k) = HEADER + k - 1
      BY <1>4, <2>1 DEF From, Start, Target
    <3>2. QED
      BY <1>1, <1>3, <1>5, <3>1
  <2>2. CASE s = 3
    <3>1. /\ x = 1 /\ Start(s - 1, host, p) = Address2(host, p)
          /\ Target(s, host, p, k) = Address2(host, p)
      BY <2>2 DEF From, Start, Target
    <3>2. QED
      BY <1>1, <1>3, <1>5, <3>1
  <2>3. QED
    BY <1>3, <2>1, <2>2
<1>9. part_remainder' = Rem(t, x) /\ part_remainder' \in 0 .. 63
  <2>1. x \in 1 .. Len(t) + 2
    BY <1>6
  <2>2. Rem(t, x) = 0
    BY <1>5, <1>6, <2>1, RemFacts
  <2>3. QED
    BY <1>1, <2>2
<1>10. /\ str_name \in Seq(Bytes) /\ \A m \in 1 .. Len(str_name) : str_name[m] = name.text[m]
       /\ Len(str_name) = IF s = w /\ n = 1 THEN 0 ELSE Shift(w, s, k) + n - 2
       /\ Laid(response, host, p, k) /\ name = NameOf(w, host, p, k)
       /\ dns_name = Start(s, host, p) + (n - 1)
       /\ return_len = IF s = w THEN 0 ELSE Size(w, host)
  BY DEF ReadAt
<1>11. Len(str_name) = Shift(w, s - 1, k) + x - 2
  <2> DEFINE d == Shift(w, s, k)
             e == Shift(w, s - 1, k)
  <2>1. n # 1 /\ n = q + 2 /\ q \in Nat
    BY <1>3, <1>5
  <2>2. Len(str_name) = d + n - 2
    BY <1>10, <2>1
  <2>3. x \in Nat /\ d \in Int /\ e \in Int /\ e + x = d + q + 2
    BY <1>6, <1>7
  <2> HIDE DEF d, e, x, q
  <2>4. d + n - 2 = e + x - 2
    BY <2>1, <2>3
  <2>5. QED
    BY <2>2, <2>4 DEF e
<1>12. Size(w, host) = q + 3 /\ q + 3 # 0 /\ name.start = Start(w, host, p)
  <2>1. w # 1
    BY <1>3, <1>4
  <2>2. Size(w, host) = q + 3
    BY <2>1 DEF Size
  <2>3. q + 3 # 0
    BY <1>5
  <2>4. name.start = Start(w, host, p)
    BY <1>10 DEF NameOf, Name
  <2>5. QED
    BY <2>2, <2>3, <2>4
<1>13. return_len' = Size(w, host)
  <2>1. CASE s = w
    <3>1. dns_name - name.start + 2 = q + 3
      BY <1>3, <1>5, <1>10, <1>12, <2>1
    <3>2. QED
      BY <1>1, <1>10, <1>12, <2>1, <3>1
  <2>2. CASE s # w
    BY <1>1, <1>10, <1>12, <2>2
  <2>3. QED
    BY <2>1, <2>2
<1>14. x \in x .. Len(t) + 2 /\ x \in 1 .. Len(t) + 2
  BY <1>6
<1>15. ReadAt(p, k, w, s - 1, x)'
  BY <1>1, <1>4, <1>8, <1>9, <1>10, <1>11, <1>13, <1>14 DEF ReadAt
<1>16. QED
  BY <1>4, <1>14, <1>15
\* At the end everything has been read, and counted where the name stands.
LEMMA ReadIsDone ==
  ASSUME host \in Hosts, NEW p \in Paddings, NEW k \in Starts(host),
         NEW w \in 1 .. 3, NEW s \in 1 .. 3, s <= w, NEW n, ReadAt(p, k, w, s, n),
         ReadEnd
  PROVE  /\ part_remainder' = 0 /\ str_name' \in Seq(Bytes) /\ return_len' \in Nat
         /\ str_name' = name'.text /\ return_len' = name'.bytes
<1> DEFINE m == Meaning(w, host, k)
           l == Len(host)
           q == Len(Prefixed)
<1>1. /\ name' = name /\ part_remainder' = part_remainder /\ str_name' = str_name
      /\ response[dns_name] = 0
      /\ return_len' = IF return_len # 0 THEN return_len ELSE dns_name - name.start + 1
  BY DEF ReadEnd
<1>2. EndNext(s, n)
  <2>1. ~CharNext(s, n)
    <3> DEFINE b == response[dns_name]
    <3>1. CharNext(s, n) => b \in 1 .. 255
      BY DEF CharNext
    <3>2. b = 0
      BY <1>1
    <3> HIDE DEF b
    <3>3. QED
      BY <3>1, <3>2
  <2>2. ~LengthNext(s, n)
    <3> DEFINE b == response[dns_name]
    <3>1. LengthNext(s, n) => b \in 1 .. 63
      BY DEF LengthNext
    <3>2. b = 0
      BY <1>1
    <3> HIDE DEF b
    <3>3. QED
      BY <3>1, <3>2
  <2>3. ~PointerNext(p, k, s, n)
    <3> DEFINE b == response[dns_name]
    <3>1. PointerNext(p, k, s, n) => b \in 192 .. 255
      BY DEF PointerNext
    <3>2. b = 0
      BY <1>1
    <3> HIDE DEF b
    <3>3. QED
      BY <3>1, <3>2
  <2>4. QED
    BY <2>1, <2>2, <2>3, NextByte
<1>3. s = 1 /\ n = l + 2 /\ part_remainder = 0
  BY <1>2 DEF EndNext
<1>4. l \in Nat \ {0} /\ q \in Nat \ {0} /\ HEADER \in Nat /\ Start(w, host, p) \in Nat
  BY PlaceFacts
<1>5. m \in Seq(Bytes) /\ Shift(w, s, k) \in Int /\ Len(m) = Shift(w, s, k) + l
  <2>1. Part(s, host) = host
    BY <1>3 DEF Part
  <2>2. Fits(w, s, host, k)
    BY PartsFit
  <2>3. m \in Seq(Bytes) /\ Shift(w, s, k) \in Int
    BY <2>2 DEF Fits
  <2>4. Len(m) = Shift(w, s, k) + Len(Part(s, host))
    BY <1>3, <2>2 DEF Fits
  <2>5. QED
    BY <2>1, <2>3, <2>4
<1>6. /\ str_name \in Seq(Bytes) /\ \A x \in 1 .. Len(str_name) : str_name[x] = name.text[x]
      /\ Len(str_name) = IF s = w /\ n = 1 THEN 0 ELSE Shift(w, s, k) + n - 2
      /\ name = NameOf(w, host, p, k)
      /\ dns_name = Start(s, host, p) + (n - 1)
      /\ return_len = IF s = w THEN 0 ELSE Size(w, host)
  BY DEF ReadAt
<1>7. name.text = m /\ name.start = Start(w, host, p) /\ name.bytes = Size(w, host)
  BY <1>6 DEF NameOf, Name
<1>8. str_name = m
  <2> DEFINE d == Shift(w, s, k)
  <2>1. n # 1 /\ n = l + 2 /\ l \in Nat
    BY <1>3, <1>4
  <2>2. Len(str_name) = d + n - 2
    BY <1>6, <2>1
  <2>3. d \in Int /\ Len(m) = d + l
    BY <1>5
  <2> HIDE DEF d, m, l
  <2>4. Len(str_name) = Len(m)
    BY <2>1, <2>2, <2>3
  <2>5. \A x \in 1 .. Len(str_name) : str_name[x] = m[x]
    BY <1>6, <1>7
  <2>6. QED
    BY <1>5, <1>6, <2>4, <2>5, SeqEqual
<1>9. return_len' = Size(w, host) /\ return_len' \in Nat
  <2>1. CASE w = 1
    <3>1. /\ return_len = 0 /\ Size(w, host) = l + 2 /\ Start(s, host, p) = HEADER
          /\ Start(w, host, p) = HEADER
      BY <1>3, <1>6, <2>1 DEF Size, Start
    <3>2. dns_name - name.start + 1 = l + 2
      BY <1>3, <1>4, <1>6, <1>7, <3>1
    <3>3. QED
      BY <1>1, <1>4, <3>1, <3>2
  <2>2. CASE w # 1
    <3>1. return_len = q + 3 /\ Size(w, host) = q + 3
      BY <1>3, <1>6, <2>2 DEF Size
    <3>2. QED
      BY <1>1, <1>4, <3>1
  <2>3. QED
    BY <2>1, <2>2
<1>10. QED
  BY <1>1, <1>3, <1>6, <1>7, <1>8, <1>9
\* The reading of a name begins where the name does.
LEMMA ReadBegins ==
  ASSUME host \in Hosts, NEW p \in Paddings, NEW k \in Starts(host), NEW w \in 1 .. 3,
         Laid(response, host, p, k), name = NameOf(w, host, p, k), Unread, Receive
  PROVE  1 \in 1 .. Len(Part(w, host)) + 2 /\ ReadAt(p, k, w, w, 1)'
<1>1. /\ host' = host /\ response' = response /\ name' = name /\ dns_name' = name.start
      /\ part_remainder' = 0 /\ str_name' = <<>> /\ return_len' = 0
  BY DEF Receive, Unread
<1>2. IsName(Part(w, host)) /\ Start(w, host, p) \in Nat
  BY PlaceFacts
<1>3. Len(Part(w, host)) \in Nat
  BY <1>2, WireFacts
<1>4. From(w, w, k) = 1
  BY DEF From
<1>5. 1 \in From(w, w, k) .. Len(Part(w, host)) + 2 /\ 1 \in 1 .. Len(Part(w, host)) + 2
  BY <1>3, <1>4
<1>6. dns_name' = Start(w, host, p) + (1 - 1)
  BY <1>1, <1>2 DEF NameOf, Name
<1>7. part_remainder' = Rem(Part(w, host), 1) /\ part_remainder' \in 0 .. 63
  BY <1>1 DEF Rem
<1>8. str_name' \in Seq(Bytes) /\ Len(str_name') = 0
  BY <1>1
<1>9. \A m \in 1 .. Len(str_name') : str_name'[m] = name.text[m]
  BY <1>8
<1>10. ReadAt(p, k, w, w, 1)'
  BY <1>1, <1>5, <1>6, <1>7, <1>8, <1>9 DEF ReadAt
<1>11. QED
  BY <1>5, <1>10

LEMMA InvInit == Init => IInv
<1>1. Init => AnswerInv
  BY DEF Init, AnswerInv, Unread
<1>2. QED
  BY <1>1, SendInit DEF IInv

LEMMA InvNext == IInv /\ [Next]_vars => IInv'
<1> SUFFICES ASSUME IInv, [Next]_vars PROVE IInv'
  OBVIOUS
<1>1. SendInv'
  BY SendNext DEF IInv
<1>2. /\ host \in Hosts /\ link \in {"none", "query", "answer"}
      /\ pc \in {"convert", "send", "waiting", "read", "returned", "exited"} /\ AnswerInv
  BY DEF IInv, SendInv, SendType
<1> USE DEF sending, decoding
<1>3. CASE Convert
  BY <1>1, <1>2, <1>3
     DEF Convert, ConvertChar, ConvertDot, PartEnds, ConstructQuery, AnswerInv, Unread, IInv
<1>4. CASE Send
  BY <1>1, <1>2, <1>4 DEF Send, AnswerInv, Unread, IInv
<1>5. CASE SendFails
  BY <1>1, <1>2, <1>5 DEF SendFails, AnswerInv, Unread, IInv
<1>6. CASE Receive
  <2>1. pc = "waiting" /\ link = "answer" /\ pc' = "read" /\ link' = "none" /\ host' = host
    BY <1>6 DEF Receive
  <2>2. PICK p \in Paddings, k \in Starts(host), w \in 1 .. 3 :
          Laid(response, host, p, k) /\ name = NameOf(w, host, p, k)
    BY <1>2, <2>1 DEF AnswerInv
  <2>3. Unread
    BY <1>2, <2>1 DEF AnswerInv
  <2>4. 1 \in 1 .. Len(Part(w, host)) + 2 /\ ReadAt(p, k, w, w, 1)'
    BY <1>2, <1>6, <2>2, <2>3, ReadBegins
  <2>5. w <= w
    OBVIOUS
  <2>6. QED
    BY <1>1, <2>1, <2>4, <2>5 DEF AnswerInv, IInv
<1>7. CASE TimesOut
  BY <1>1, <1>2, <1>7 DEF TimesOut, ReturnNull, AnswerInv, Unread, IInv
<1>8. CASE ServerAnswers
  <2>1. /\ link = "query" /\ link' = "answer" /\ UNCHANGED <<host, pc, decoding>>
    BY <1>8 DEF ServerAnswers
  <2>2. PICK p \in Paddings, k \in Starts(host) :
          response' = Memory(Answer(host, p, k)) /\ name' \in Names(host, p, k)
    BY <1>8 DEF ServerAnswers
  <2>3. PICK w \in 1 .. 3 : name' = NameOf(w, host, p, k)
    BY <1>2, <2>2, NamesAre
  <2>4. Laid(response', host, p, k)
    BY <1>2, <2>2, AnswerFacts
  <2>5. pc \notin {"convert", "send", "read"} /\ (pc = "returned" => Unread)
    BY <1>2, <2>1 DEF AnswerInv
  <2>6. Unread' <=> Unread
    BY <2>1 DEF Unread
  <2>7. QED
    BY <1>1, <1>2, <2>1, <2>2, <2>3, <2>4, <2>5, <2>6 DEF AnswerInv, IInv, Laid
<1>9. CASE Lose
  BY <1>1, <1>2, <1>9 DEF Lose, AnswerInv, Unread, ReadAt, IInv
<1>10. CASE Read
  <2>1. pc = "read" /\ link' = link /\ host' = host
    BY <1>10 DEF Read, FollowPointer, Follow, AtLength, Reading, ReadLength, PartBegins,
                 ReadChar, ReadEnd
  <2>2. PICK p \in Paddings, k \in Starts(host), w \in 1 .. 3, s \in 1 .. 3 :
          s <= w /\ \E n \in 1 .. Len(Part(s, host)) + 2 : ReadAt(p, k, w, s, n)
    BY <1>2, <2>1 DEF AnswerInv
  <2>3. PICK n : ReadAt(p, k, w, s, n)
    BY <2>2
  <2>4. link = "none"
    BY <1>2, <2>1 DEF AnswerInv
  <2>5. CASE FollowPointer
    <3> DEFINE x == From(w, s - 1, k)
    <3>1. /\ s - 1 \in 1 .. 3 /\ s - 1 <= w /\ x \in 1 .. Len(Part(s - 1, host)) + 2
          /\ ReadAt(p, k, w, s - 1, x)'
      BY <1>2, <2>2, <2>3, <2>5, ReadKeepsPointer
    <3>2. pc' = "read"
      BY <2>1, <2>5 DEF FollowPointer, Follow
    <3> HIDE DEF x
    <3>3. QED
      BY <1>1, <2>1, <2>4, <3>1, <3>2 DEF AnswerInv, IInv
  <2>6. CASE ReadLength \/ ReadChar
    <3>1. n + 1 \in 1 .. Len(Part(s, host)) + 2 /\ ReadAt(p, k, w, s, n + 1)'
      BY <1>2, <2>2, <2>3, <2>6, ReadKeepsLength, ReadKeepsChar
    <3>2. pc' = "read"
      BY <2>1, <2>6 DEF ReadLength, PartBegins, ReadChar
    <3>3. QED
      BY <1>1, <2>1, <2>2, <2>4, <3>1, <3>2 DEF AnswerInv, IInv
  <2>7. CASE ReadEnd
    <3>1. /\ part_remainder' = 0 /\ str_name' \in Seq(Bytes) /\ return_len' \in Nat
          /\ str_name' = name'.text /\ return_len' = name'.bytes
      BY <1>2, <2>2, <2>3, <2>7, ReadIsDone
    <3>2. pc' = "returned"
      BY <2>7 DEF ReadEnd
    <3>3. QED
      BY <1>1, <2>1, <2>4, <3>1, <3>2 DEF AnswerInv, IInv
  <2>8. QED
    BY <1>10, <2>5, <2>6, <2>7 DEF Read
<1>11. CASE UNCHANGED vars
  <2>1. /\ host' = host /\ pc' = pc /\ link' = link /\ response' = response /\ name' = name
        /\ dns_name' = dns_name /\ part_remainder' = part_remainder
        /\ str_name' = str_name /\ return_len' = return_len
    BY <1>11 DEF vars
  <2>2. \A p, k, w, s, n : ReadAt(p, k, w, s, n)' = ReadAt(p, k, w, s, n)
    BY <2>1 DEF ReadAt
  <2>3. Unread' = Unread
    BY <2>1 DEF Unread
  <2>4. QED
    BY <1>1, <1>2, <2>1, <2>2, <2>3 DEF AnswerInv, IInv
<1>12. QED
  BY <1>3, <1>4, <1>5, <1>6, <1>7, <1>8, <1>9, <1>10, <1>11 DEF Next, Resolve
-----------------------------------------------------------------------------
(* What follows.                                                           *)

\* Nothing outside the answer is read, and a pointer leads back.
LEMMA ReadInside ==
  ASSUME host \in Hosts, NEW p \in Paddings, NEW k \in Starts(host),
         NEW w \in 1 .. 3, NEW s \in 1 .. 3, s <= w, NEW n, ReadAt(p, k, w, s, n)
  PROVE  /\ dns_name + part_remainder \in DOMAIN response
         /\ part_remainder = 0 /\ response[dns_name] >= 192 =>
              /\ dns_name + 1 \in DOMAIN response
              /\ Offset < dns_name
         /\ return_len \in Nat
<1> DEFINE t  == Part(s, host)
           l  == Len(t)
           a  == Start(s, host, p)
           q  == Len(Prefixed)
           a2 == Address2(host, p)
<1>1. /\ HEADER \in Nat /\ Len(host) \in Nat \ {0} /\ q \in Nat \ {0} /\ p \in Nat
      /\ k \in 1 .. Len(host) /\ a2 = HEADER + Len(host) + 6 + p
      /\ IsName(t) /\ a \in Nat
  BY PlaceFacts
<1>2. l \in Nat \ {0}
  BY <1>1, WireFacts
<1>3. /\ DOMAIN response = 0 .. Start(3, host, p) + q + 2
      /\ n \in From(w, s, k) .. l + 2 /\ dns_name = a + (n - 1) /\ part_remainder = Rem(t, n)
      /\ return_len = IF s = w THEN 0 ELSE Size(w, host)
  BY DEF ReadAt, Laid
<1>4. From(w, s, k) \in 1 .. l
  BY PartsFit DEF Fits
<1>5. n \in 1 .. l + 2
  BY <1>2, <1>3, <1>4
<1>6. Rem(t, n) \in Nat /\ n + Rem(t, n) <= l + 2
  BY <1>1, <1>5, RemFacts
<1>7. Start(3, host, p) = a2 + q + 3
  BY DEF Start
<1>8. a + l + 1 <= a2 + q + 3 + q + 2
  <2>1. CASE s = 1
    <3>1. a = HEADER /\ l = Len(host)
      BY <2>1 DEF Start, Part
    <3>2. QED
      BY <1>1, <3>1
  <2>2. CASE s = 2
    <3>1. a = a2 /\ l = q
      BY <2>2 DEF Start, Part
    <3>2. QED
      BY <1>1, <3>1
  <2>3. CASE s = 3
    <3>1. a = a2 + q + 3 /\ l = q
      BY <2>3 DEF Start, Part
    <3>2. QED
      BY <1>1, <3>1
  <2>4. QED
    BY <2>1, <2>2, <2>3
<1> HIDE DEF t, l, a, q, a2
<1>9. dns_name + part_remainder \in DOMAIN response
  <2> DEFINE r == Rem(t, n)
  <2>1. r \in Nat /\ n + r <= l + 2 /\ n \in 1 .. l + 2 /\ a \in Nat /\ l \in Nat /\ a2 \in Nat
        /\ q \in Nat
    BY <1>1, <1>2, <1>5, <1>6
  <2>2. dns_name + part_remainder = a + (n - 1) + r
    BY <1>3
  <2> HIDE DEF r
  <2>3. a + (n - 1) + r \in 0 .. a2 + q + 3 + q + 2
    BY <1>8, <2>1
  <2>4. QED
    BY <1>3, <1>7, <2>2, <2>3
<1>10. ASSUME part_remainder = 0, response[dns_name] >= 192
       PROVE  dns_name + 1 \in DOMAIN response /\ Offset < dns_name
  <2>1. PointerNext(p, k, s, n)
    <3> DEFINE b == response[dns_name]
    <3>1. /\ LengthNext(s, n) => b \in 1 .. 63
          /\ CharNext(s, n) => part_remainder > 0
          /\ EndNext(s, n) => b = 0
      BY DEF LengthNext, CharNext, EndNext
    <3>2. b >= 192
      BY <1>10
    <3> HIDE DEF b
    <3>3. ~LengthNext(s, n) /\ ~EndNext(s, n)
      BY <3>1, <3>2
    <3>4. ~CharNext(s, n)
      BY <1>10, <3>1
    <3>5. QED
      BY <3>3, <3>4, NextByte
  <2>2. s # 1 /\ n = q + 2 /\ Offset = Target(s, host, p, k)
    BY <2>1 DEF PointerNext, q
  <2>3. /\ a \in Nat /\ a2 \in Nat /\ q \in Nat /\ q # 0 /\ dns_name = a + (q + 1)
        /\ DOMAIN response = 0 .. a2 + q + 3 + q + 2
    BY <1>1, <1>3, <1>7, <2>2
  <2>4. CASE s = 2
    <3>1. a = a2 /\ Offset = HEADER + k - 1
      BY <2>2, <2>4 DEF a, a2, Start, Target
    <3>2. HEADER + k - 1 < a2
      BY <1>1
    <3>3. dns_name + 1 \in DOMAIN response
      BY <2>3, <3>1
    <3>4. Offset < dns_name
      <4>1. Offset < a2 /\ Offset \in Int
        BY <1>1, <3>1, <3>2
      <4>2. QED
        BY <2>3, <3>1, <4>1
    <3>5. QED
      BY <3>3, <3>4
  <2>5. CASE s = 3
    <3>1. a = a2 + q + 3 /\ Offset = a2
      BY <2>2, <2>5 DEF a, a2, q, Start, Target
    <3>2. dns_name + 1 \in DOMAIN response
      BY <2>3, <3>1
    <3>3. Offset < dns_name
      BY <2>3, <3>1
    <3>4. QED
      BY <3>2, <3>3
  <2>6. QED
    BY <2>2, <2>4, <2>5
<1>11. return_len \in Nat
  BY <1>1, <1>3 DEF Size, q
<1>12. QED
  BY <1>9, <1>10, <1>11

LEMMA InvTypes == IInv => TypeOK
<1> SUFFICES ASSUME IInv PROVE TypeOK
  OBVIOUS
<1>1. SendType /\ AnswerInv
  BY DEF IInv, SendInv
<1>2. pc \in {"convert", "send", "waiting", "read", "returned", "exited"} /\ host \in Hosts
  BY <1>1 DEF SendType
<1>3. CASE pc = "read"
  <2>1. PICK p \in Paddings, k \in Starts(host), w \in 1 .. 3, s \in 1 .. 3 :
          s <= w /\ \E n \in 1 .. Len(Part(s, host)) + 2 : ReadAt(p, k, w, s, n)
    BY <1>1, <1>3 DEF AnswerInv
  <2>2. PICK n : ReadAt(p, k, w, s, n)
    BY <2>1
  <2>3. part_remainder \in 0 .. 63 /\ str_name \in Seq(Bytes)
    BY <2>2 DEF ReadAt
  <2>4. /\ dns_name + part_remainder \in DOMAIN response
        /\ part_remainder = 0 /\ response[dns_name] >= 192 =>
             /\ dns_name + 1 \in DOMAIN response
             /\ Offset < dns_name
        /\ return_len \in Nat
    BY <1>2, <2>1, <2>2, ReadInside
  <2>5. QED
    BY <1>1, <2>3, <2>4 DEF TypeOK, SendType
<1>4. CASE pc # "read"
  <2>1. \/ Unread
        \/ part_remainder = 0 /\ str_name \in Seq(Bytes) /\ return_len \in Nat
    BY <1>1, <1>2, <1>4 DEF AnswerInv
  <2>2. <<>> \in Seq(Bytes)
    OBVIOUS
  <2>3. part_remainder \in 0 .. 63 /\ str_name \in Seq(Bytes) /\ return_len \in Nat
    <3>1. CASE Unread
      <4>1. part_remainder = 0 /\ str_name = <<>> /\ return_len = 0
        BY <3>1 DEF Unread
      <4>2. str_name \in Seq(Bytes)
        BY <2>2, <4>1
      <4>3. QED
        BY <4>1, <4>2
    <3>2. CASE part_remainder = 0 /\ str_name \in Seq(Bytes) /\ return_len \in Nat
      BY <3>2
    <3>3. QED
      BY <2>1, <3>1, <3>2
  <2>4. QED
    BY <1>1, <1>4, <2>3 DEF TypeOK, SendType
<1>5. QED
  BY <1>3, <1>4

\* Types; whatever name is read, no byte outside the answer is looked at, and a
\* pointer only leads back towards its beginning (getStringFromDNS, dns.h:82-110).
THEOREM TypeCorrect == Spec => []TypeOK
<1>1. QED
  BY InvInit, InvNext, InvTypes, PTL DEF Spec

\* A name of any answer, compressed or not, is read as its text and counted as the
\* bytes that it takes where it stands (getStringFromDNS, dns.h:82-110).
THEOREM NamesRead == Spec => []NameRead
<1>1. IInv => NameRead
  BY DEF IInv, AnswerInv, NameRead, Unread
<1>2. QED
  BY InvInit, InvNext, <1>1, PTL DEF Spec
=============================================================================
