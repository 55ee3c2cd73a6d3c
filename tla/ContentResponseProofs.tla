------------------------ MODULE ContentResponseProofs ------------------------
(***************************************************************************)
(* What contentResponse guarantees for every file and buffer size: a send  *)
(* that takes only a part damages the bytes of its own buffer and nothing  *)
(* else, and on a connection that takes whole buffers the file arrives     *)
(* byte by byte in order.                                                  *)
(***************************************************************************)
EXTENDS ContentResponse, SequenceTheorems, TLAPS

-----------------------------------------------------------------------------
(* Blocks and buffers.                                                     *)

\* Quotient and remainder.
LEMMA DivDef ==
  ASSUME NEW n \in Nat, NEW B \in Nat \ {0}
  PROVE  /\ n \div B \in Nat /\ n % B \in 0 .. B - 1
         /\ n = B * (n \div B) + (n % B)
BY SMT

\* The B numbers from B * q on have the quotient q.
LEMMA DivUnique ==
  ASSUME NEW n \in Nat, NEW B \in Nat \ {0},
         NEW q \in Nat, NEW r \in 0 .. B - 1, n = B * q + r
  PROVE  n \div B = q
<1> DEFINE p == n \div B
           s == n % B
<1>1. p \in Nat /\ s \in 0 .. B - 1 /\ n = B * p + s
  BY DivDef
<1> HIDE DEF p, s
<1>2. B * (p - q) = r - s
  BY <1>1
<1>3. ~(p - q >= 1)
  <2>1. SUFFICES ASSUME p - q >= 1 PROVE FALSE
    OBVIOUS
  <2>2. B * (p - q) >= B
    BY <2>1, <1>1
  <2>3. QED
    BY <2>2, <1>2, <1>1
<1>4. ~(q - p >= 1)
  <2>1. SUFFICES ASSUME q - p >= 1 PROVE FALSE
    OBVIOUS
  <2>2. B * (q - p) >= B
    BY <2>1, <1>1
  <2>3. B * (q - p) = s - r
    BY <1>2, <1>1
  <2>4. QED
    BY <2>2, <2>3, <1>1
<1>5. p = q
  BY <1>1, <1>3, <1>4
<1>6. QED
  BY <1>5 DEF p

\* A file is a sequence of bytes, and every buffer's size is positive.
LEMMA Types ==
  ASSUME TypeOK
  PROVE  /\ file \in Seq(Nat) /\ Len(file) \in Nat /\ pos \in Nat
         /\ pos <= Len(file)
         /\ file_data \in Seq(Nat) /\ Len(file_data) \in 0 .. BufferSize
         /\ wire \in Seq(Nat) /\ Len(wire) \in Nat /\ total_sent \in Nat
<1>1. file \in Seq(Nat) /\ file_data \in Seq(Nat) /\ wire \in Seq(Nat)
  BY FilesAssumption DEF TypeOK
<1>2. Len(file) \in Nat /\ Len(file_data) \in Nat /\ Len(wire) \in Nat
  BY <1>1, LenProperties
<1>3. QED
  BY <1>1, <1>2, BufferAssumption DEF TypeOK

\* A read takes the next bytes of the file: a full buffer, or all that is left.
LEMMA ReadBytes ==
  ASSUME TypeOK
  PROVE  LET new == Bytes(pos, BufferSize)
         IN  /\ new \in Seq(Nat) /\ Len(new) \in 0 .. BufferSize
             /\ pos + Len(new) <= Len(file)
             /\ Len(new) < BufferSize => pos + Len(new) = Len(file)
             /\ \A k \in 1 .. Len(new) : new[k] = file[pos + k]
<1> DEFINE n == IF pos + BufferSize < Len(file) THEN pos + BufferSize
                                                ELSE Len(file)
           m == pos + 1
           new == SubSeq(file, m, n)
<1>1. /\ file \in Seq(Nat) /\ Len(file) \in Nat /\ pos \in Nat
      /\ pos <= Len(file)
  BY Types
<1>2. n \in Int /\ m \in Int /\ pos <= n /\ n <= Len(file)
      /\ n <= pos + BufferSize /\ (n < pos + BufferSize => n = Len(file))
  BY <1>1, BufferAssumption
<1>3. \A i \in m .. n : file[i] \in Nat
  BY <1>1, <1>2, ElementOfSeq
<1>4. Bytes(pos, BufferSize) = new
  BY DEF Bytes
<1> HIDE DEF n
<1>5. /\ new \in Seq(Nat)
      /\ Len(new) = IF m <= n THEN n - m + 1 ELSE 0
      /\ \A i \in 1 .. n - m + 1 : new[i] = file[m + i - 1]
  <2> HIDE DEF m
  <2>1. QED
    BY <1>2, <1>3, SubSeqProperties
<1> HIDE DEF new
<1>6. Len(new) = n - pos /\ n - m + 1 = n - pos
  BY <1>1, <1>2, <1>5
<1>7. \A k \in 1 .. n - pos : m + k - 1 = pos + k
  BY <1>1, <1>2
<1>8. \A k \in 1 .. Len(new) : new[k] = file[pos + k]
  BY <1>5, <1>6, <1>7
<1>9. /\ Len(new) \in 0 .. BufferSize /\ pos + Len(new) <= Len(file)
      /\ Len(new) < BufferSize => pos + Len(new) = Len(file)
  BY <1>1, <1>2, <1>6, BufferAssumption
<1>10. QED
  BY <1>4, <1>5, <1>8, <1>9

\* A send appends the first n bytes of the buffer.
LEMMA SendEffect ==
  ASSUME TypeOK, Send
  PROVE  \E n \in 1 .. Len(file_data) :
           /\ whole => n = Len(file_data)
           /\ total_sent' = total_sent + n
           /\ wire' \in Seq(Nat) /\ Len(wire') = Len(wire) + n
           /\ \A i \in 1 .. Len(wire) : wire'[i] = wire[i]
           /\ \A i \in 1 .. n : wire'[Len(wire) + i] = file_data[i]
<1>1. PICK n \in 1 .. Len(file_data) :
        /\ whole => n = Len(file_data)
        /\ wire' = wire \o SubSeq(file_data, 1, n)
        /\ total_sent' = total_sent + n
  BY DEF Send
<1> DEFINE piece == SubSeq(file_data, 1, n)
<1>2. n \in Nat /\ n \in 1 .. Len(file_data)
  BY Types
<1>3. /\ piece \in Seq(Nat) /\ Len(piece) = n
      /\ \A i \in 1 .. n : piece[i] = file_data[i]
  <2>1. \A i \in 1 .. n : file_data[i] \in Nat
    BY <1>2, Types, ElementOfSeq
  <2>2. QED
    BY <1>2, <2>1, SubSeqProperties
<1>4. wire' = wire \o piece
  BY <1>1
<1> HIDE DEF piece
<1>5. wire \in Seq(Nat) /\ Len(wire) \in Nat
  BY Types
<1>6. /\ wire' \in Seq(Nat) /\ Len(wire') = Len(wire) + n
      /\ \A i \in 1 .. Len(wire) + n :
           wire'[i] = IF i <= Len(wire) THEN wire[i] ELSE piece[i - Len(wire)]
  <2> DEFINE long == wire \o piece
  <2>1. /\ long \in Seq(Nat) /\ Len(long) = Len(wire) + Len(piece)
        /\ \A i \in 1 .. Len(wire) + Len(piece) :
             long[i] = IF i <= Len(wire) THEN wire[i] ELSE piece[i - Len(wire)]
    BY <1>3, <1>5, ConcatProperties
  <2> HIDE DEF long
  <2>2. wire' = long
    BY <1>4 DEF long
  <2>3. QED
    BY <1>3, <2>1, <2>2
<1>7. \A i \in 1 .. Len(wire) : wire'[i] = wire[i]
  BY <1>2, <1>5, <1>6
<1>8. \A i \in 1 .. n : wire'[Len(wire) + i] = file_data[i]
  <2>1. TAKE i \in 1 .. n
  <2>2. /\ Len(wire) + i \in 1 .. Len(wire) + n
        /\ ~(Len(wire) + i <= Len(wire))
        /\ (Len(wire) + i) - Len(wire) = i
    BY <1>2, <1>5
  <2>3. QED
    BY <2>2, <1>3, <1>6
<1>9. QED
  BY <1>1, <1>6, <1>7, <1>8

-----------------------------------------------------------------------------
(* The inductive invariant.                                                *)

\* Where in the file the buffer that is being sent begins, and how many bytes
\* sendData has counted for it.
Base    == IF pc = "send" THEN pos - Len(file_data) ELSE pos
Counted == IF pc = "send" THEN total_sent ELSE 0

\* A full buffer ends at a multiple of BufferSize, a short one at the file's
\* end; the loop ends only there.
ReadInv ==
  /\ Base \in Nat
  /\ IF eof THEN pos = Len(file) ELSE \E q \in Nat : pos = BufferSize * q
  /\ pc = "done" => eof
  /\ pc = "send" =>
       /\ \E q \in Nat : Base = BufferSize * q
       /\ \A k \in 1 .. Len(file_data) : file_data[k] = file[Base + k]

\* As many bytes have been sent as the buffers before have, and as sendData
\* has counted.
CountInv == Len(wire) = Base + Counted

\* A byte in its place or behind it, and in the buffer of its place if that has
\* been read.
PlaceInv ==
  \A i \in 1 .. Len(wire) :
    \E j \in 1 .. i : /\ j <= pos /\ wire[i] = file[j]
                      /\ i <= pos => Block(j) = Block(i)

\* On a connection that takes whole buffers every byte is in its place.
WholeInv ==
  whole => /\ pc = "send" => total_sent = 0 \/ total_sent = Len(file_data)
           /\ \A i \in 1 .. Len(wire) : wire[i] = file[i]

IInv == TypeOK /\ ReadInv /\ CountInv /\ PlaceInv /\ WholeInv

LEMMA InitIInv == Init => IInv
<1>1. SUFFICES ASSUME Init PROVE IInv
  OBVIOUS
<1>2. /\ whole \in BOOLEAN /\ file \in Files /\ pos = 0 /\ eof = FALSE
      /\ file_data = <<>> /\ total_sent = 0 /\ wire = <<>> /\ pc = "read"
  BY <1>1, Zenon DEF Init
<1>3. file \in Seq(Nat) /\ Len(file) \in Nat
  BY <1>2, FilesAssumption, LenProperties
<1>4. <<>> \in Seq(Nat) /\ Len(<<>>) = 0
  BY EmptySeq
<1>5. TypeOK
  <2>1. pos \in 0 .. Len(file) /\ Len(file_data) <= BufferSize /\ total_sent \in Nat
    BY <1>2, <1>3, <1>4, BufferAssumption
  <2>2. eof \in BOOLEAN
    BY <1>2
  <2>3. file_data \in Seq(Nat) /\ wire \in Seq(Nat)
    BY <1>2, <1>4
  <2>4. QED
    BY <1>2, <2>1, <2>2, <2>3 DEF TypeOK
<1>6. Base = 0 /\ Counted = 0
  BY <1>2 DEF Base, Counted
<1>7. ReadInv
  <2>1. pos = BufferSize * 0
    BY <1>2, BufferAssumption
  <2>2. QED
    BY <1>2, <1>6, <2>1 DEF ReadInv
<1>8. CountInv /\ PlaceInv /\ WholeInv
  BY <1>2, <1>4, <1>6 DEF CountInv, PlaceInv, WholeInv
<1>9. QED
  BY <1>5, <1>7, <1>8 DEF IInv

LEMMA ReadStep ==
  ASSUME IInv, Read
  PROVE  IInv'
<1> DEFINE new == Bytes(pos, BufferSize)
<1>1. TypeOK /\ ReadInv /\ CountInv /\ PlaceInv /\ WholeInv
  BY DEF IInv
<1>2. /\ pc = "read" /\ ~eof /\ file_data' = new /\ pos' = pos + Len(new)
      /\ eof' = (Len(new) < BufferSize) /\ total_sent' = 0 /\ pc' = "send"
      /\ whole' = whole /\ file' = file /\ wire' = wire
  BY DEF Read
<1>3. /\ new \in Seq(Nat) /\ Len(new) \in 0 .. BufferSize
      /\ pos + Len(new) <= Len(file)
      /\ Len(new) < BufferSize => pos + Len(new) = Len(file)
      /\ \A k \in 1 .. Len(new) : new[k] = file[pos + k]
  BY <1>1, ReadBytes
<1> HIDE DEF new
<1>4. /\ pos \in Nat /\ pos <= Len(file) /\ Len(file) \in Nat
      /\ Len(wire) \in Nat
  BY <1>1, Types
<1>5. Base = pos /\ Base' = pos /\ Counted = 0 /\ Counted' = 0
  BY <1>2, <1>3, <1>4 DEF Base, Counted
<1>6. TypeOK'
  <2>1. eof' \in BOOLEAN
    BY <1>2
  <2>2. pos' \in 0 .. Len(file') /\ Len(file_data') <= BufferSize
    BY <1>2, <1>3, <1>4, BufferAssumption
  <2>3. QED
    BY <1>1, <1>2, <1>3, <2>1, <2>2 DEF TypeOK
<1>7. \E q \in Nat : pos = BufferSize * q
  BY <1>1, <1>2 DEF ReadInv
<1>8. ReadInv'
  <2>1. eof' => pos' = Len(file')
    BY <1>2, <1>3
  <2>2. ~eof' => \E q \in Nat : pos' = BufferSize * q
    <3>1. SUFFICES ASSUME ~eof' PROVE \E q \in Nat : pos' = BufferSize * q
      OBVIOUS
    <3>2. Len(new) = BufferSize
      <4>1. ~(Len(new) < BufferSize)
        BY <1>2, <3>1, Zenon
      <4>2. QED
        BY <1>3, <4>1, BufferAssumption
    <3>3. PICK q \in Nat : pos = BufferSize * q
      BY <1>7
    <3>4. pos' = BufferSize * (q + 1)
      BY <1>2, <3>2, <3>3, BufferAssumption
    <3>5. QED
      BY <3>4
  <2>3. \A k \in 1 .. Len(file_data') : file_data'[k] = file'[Base' + k]
    BY <1>2, <1>3, <1>5
  <2>4. QED
    BY <1>2, <1>4, <1>5, <1>7, <2>1, <2>2, <2>3 DEF ReadInv
<1>9. CountInv'
  BY <1>1, <1>2, <1>5 DEF CountInv
<1>10. PlaceInv'
  <2>1. Len(wire) = pos /\ pos <= pos'
    BY <1>1, <1>2, <1>3, <1>4, <1>5 DEF CountInv
  <2>2. SUFFICES ASSUME NEW i \in 1 .. Len(wire)
                 PROVE  \E j \in 1 .. i : /\ j <= pos' /\ wire[i] = file[j]
                                          /\ Block(j) = Block(i)
    BY <1>2 DEF PlaceInv, Block
  <2>3. PICK j \in 1 .. i : /\ j <= pos /\ wire[i] = file[j]
                            /\ i <= pos => Block(j) = Block(i)
    BY <1>1 DEF PlaceInv
  <2>4. i <= pos /\ j <= pos'
    BY <1>2, <1>3, <1>4, <2>1, <2>3
  <2>5. QED
    BY <2>3, <2>4
<1>11. WholeInv'
  BY <1>1, <1>2 DEF WholeInv
<1>12. QED
  BY <1>6, <1>8, <1>9, <1>10, <1>11 DEF IInv

\* A byte of the buffer that is being sent has the block of its place.
LEMMA SameBlock ==
  ASSUME TypeOK, ReadInv, pc = "send",
         NEW i \in Base + 1 .. pos, NEW j \in Base + 1 .. pos
  PROVE  Block(j) = Block(i)
<1>1. PICK q \in Nat : Base = BufferSize * q
  BY DEF ReadInv
<1>2. /\ pos \in Nat /\ Len(file_data) \in 0 .. BufferSize
      /\ Base = pos - Len(file_data) /\ Base \in Nat
  BY Types DEF Base, ReadInv
<1>3. ASSUME NEW k \in Base + 1 .. pos
      PROVE  Block(k) = q
  <2> DEFINE n == k - 1
             r == k - 1 - Base
  <2>1. n \in Nat /\ r \in 0 .. BufferSize - 1 /\ n = Base + r
    BY <1>2, BufferAssumption
  <2>2. n = BufferSize * q + r
    BY <1>1, <2>1
  <2> HIDE DEF n, r
  <2>3. n \div BufferSize = q
    BY <2>1, <2>2, BufferAssumption, DivUnique
  <2>4. QED
    BY <2>3 DEF Block, n
<1>4. QED
  BY <1>3

LEMMA SendStep ==
  ASSUME IInv, Send
  PROVE  IInv'
<1>1. TypeOK /\ ReadInv /\ CountInv /\ PlaceInv /\ WholeInv
  BY DEF IInv
<1> DEFINE L == Len(wire)
           D == Len(file_data)
<1>2. /\ pc = "send" /\ pc' = "send" /\ total_sent # D
      /\ whole' = whole /\ file' = file /\ pos' = pos /\ eof' = eof
      /\ file_data' = file_data
  BY DEF Send
<1>3. PICK n \in 1 .. D :
        /\ whole => n = D
        /\ total_sent' = total_sent + n
        /\ wire' \in Seq(Nat) /\ Len(wire') = L + n
        /\ \A i \in 1 .. L : wire'[i] = wire[i]
        /\ \A i \in 1 .. n : wire'[L + i] = file_data[i]
  BY <1>1, SendEffect
<1>4. /\ pos \in Nat /\ pos <= Len(file) /\ Len(file) \in Nat
      /\ D \in 0 .. BufferSize /\ L \in Nat /\ total_sent \in Nat
  BY <1>1, Types
<1>5. n \in Nat /\ n <= D /\ 0 < n
  BY <1>4, BufferAssumption
<1>6. /\ Base = pos - D /\ Base' = Base
      /\ Counted = total_sent /\ Counted' = total_sent + n
  BY <1>2, <1>3 DEF Base, Counted
<1>7. L = Base + total_sent /\ Base \in Nat
  BY <1>1, <1>6 DEF CountInv, ReadInv
<1>8. \A k \in 1 .. D : file_data[k] = file[Base + k]
  BY <1>1, <1>2 DEF ReadInv
<1> HIDE DEF L, D
<1>9. TypeOK'
  BY <1>1, <1>2, <1>3, <1>4, <1>5 DEF TypeOK
<1>10. ReadInv'
  BY <1>1, <1>2, <1>6 DEF ReadInv
<1>11. CountInv'
  BY <1>3, <1>4, <1>5, <1>6, <1>7 DEF CountInv
<1>12. PlaceInv'
  <2>1. SUFFICES ASSUME NEW i \in 1 .. L + n
                 PROVE  \E j \in 1 .. i :
                          /\ j <= pos /\ wire'[i] = file[j]
                          /\ i <= pos => Block(j) = Block(i)
    BY <1>2, <1>3 DEF PlaceInv, Block
  <2>2. CASE i \in 1 .. L
    <3>1. PICK j \in 1 .. i : /\ j <= pos /\ wire[i] = file[j]
                              /\ i <= pos => Block(j) = Block(i)
      BY <1>1, <2>2 DEF PlaceInv, L
    <3>2. wire'[i] = wire[i]
      BY <1>3, <2>2
    <3>3. QED
      BY <3>1, <3>2
  <2>3. CASE i \notin 1 .. L
    <3> DEFINE k == i - L
               j == Base + k
    <3>1. k \in 1 .. n /\ L + k = i
      BY <1>4, <1>5, <2>3
    <3>2. k \in 1 .. D
      BY <1>4, <1>5, <3>1
    <3>3. wire'[i] = file[j]
      <4> HIDE DEF k
      <4>1. wire'[i] = file_data[k]
        BY <1>3, <3>1
      <4>2. QED
        BY <1>8, <3>2, <4>1
    <3>4. j \in 1 .. i /\ j <= pos /\ j \in Base + 1 .. pos
      BY <1>4, <1>5, <1>6, <1>7, <3>1, <3>2
    <3>5. i <= pos => i \in Base + 1 .. pos
      BY <1>4, <1>7, <3>1
    <3> HIDE DEF j, k
    <3>6. i <= pos => Block(j) = Block(i)
      BY <1>1, <1>2, <3>4, <3>5, SameBlock
    <3>7. QED
      BY <3>3, <3>4, <3>6
  <2>4. QED
    BY <2>2, <2>3
<1>13. WholeInv'
  <2>1. SUFFICES ASSUME whole
                 PROVE  /\ total_sent' = D
                        /\ \A i \in 1 .. L + n : wire'[i] = file[i]
    BY <1>2, <1>3 DEF WholeInv, D
  <2>2. total_sent = 0 /\ n = D
    BY <1>1, <1>2, <1>3, <2>1 DEF WholeInv, D
  <2>3. L = Base
    BY <1>7, <2>2
  <2>4. ASSUME NEW i \in 1 .. L + n
        PROVE  wire'[i] = file[i]
    <3>1. CASE i \in 1 .. L
      BY <1>1, <1>3, <2>1, <3>1 DEF WholeInv, L
    <3>2. CASE i \notin 1 .. L
      <4> DEFINE k == i - L
      <4>1. k \in 1 .. n /\ L + k = i /\ k \in 1 .. D /\ Base + k = i
        BY <1>4, <1>5, <2>3, <3>2
      <4> HIDE DEF k
      <4>2. QED
        BY <1>3, <1>8, <4>1
    <3>3. QED
      BY <3>1, <3>2
  <2>5. total_sent' = D
    BY <1>3, <1>4, <2>2
  <2>6. QED
    BY <2>4, <2>5
<1>14. QED
  BY <1>9, <1>10, <1>11, <1>12, <1>13 DEF IInv

\* sendData returns with everything counted, and nothing is left after the end.
LEMMA ReturnStep ==
  ASSUME IInv, Sent \/ Finish \/ UNCHANGED vars
  PROVE  IInv'
<1>1. TypeOK /\ ReadInv /\ CountInv /\ PlaceInv /\ WholeInv
  BY DEF IInv
<1>2. UNCHANGED <<whole, file, pos, eof, file_data, total_sent, wire>>
  BY DEF Sent, Finish, vars
<1>3. pc' \in {"read", "send", "done"} /\ (pc' = "send" => pc = "send")
      /\ (pc' = "done" => eof)
  BY <1>1 DEF Sent, Finish, vars, TypeOK, ReadInv
<1>4. /\ pos \in Nat /\ Len(file_data) \in Nat /\ total_sent \in Nat
  BY <1>1, Types
<1>5. Base' \in Nat /\ Base' + Counted' = Base + Counted
      /\ (pc' = "send" => Base' = Base)
  <2>1. CASE pc = "send" /\ pc' # "send"
    <3>1. total_sent = Len(file_data)
      BY <2>1 DEF Sent, Finish, vars
    <3>2. QED
      BY <1>2, <1>4, <2>1, <3>1 DEF Base, Counted
  <2>2. CASE ~(pc = "send" /\ pc' # "send")
    <3>1. (pc = "send") = (pc' = "send")
      BY <1>3, <2>2
    <3>2. Base' = Base /\ Counted' = Counted
      BY <1>2, <3>1 DEF Base, Counted
    <3>3. QED
      BY <1>1, <3>2 DEF ReadInv
  <2>3. QED
    BY <2>1, <2>2
<1>6. TypeOK'
  BY <1>1, <1>2, <1>3 DEF TypeOK
<1>7. ReadInv'
  BY <1>1, <1>2, <1>3, <1>5 DEF ReadInv
<1>8. CountInv'
  BY <1>1, <1>2, <1>5 DEF CountInv
<1>9. PlaceInv' /\ WholeInv'
  BY <1>1, <1>2, <1>3 DEF PlaceInv, WholeInv, Block
<1>10. QED
  BY <1>6, <1>7, <1>8, <1>9 DEF IInv

-----------------------------------------------------------------------------
(* The theorems.                                                           *)

LEMMA IInvAlways == Spec => []IInv
<1>1. IInv /\ [Next]_vars => IInv'
  BY ReadStep, SendStep, ReturnStep DEF Next
<1>2. QED
  BY InitIInv, <1>1, PTL DEF Spec

\* When the loop has ended everything read has been counted as sent.
LEMMA EndOfFile ==
  ASSUME IInv, pc = "done" \/ (pc = "read" /\ eof)
  PROVE  Len(wire) = Len(file) /\ pos = Len(file)
<1>1. eof /\ Base = pos /\ Counted = 0
  BY DEF IInv, ReadInv, Base, Counted
<1>2. pos = Len(file) /\ pos \in Nat
  BY <1>1, Types DEF IInv, ReadInv
<1>3. QED
  BY <1>1, <1>2 DEF IInv, CountInv

\* However the connection cuts up the sends, no byte comes before its place,
\* and a response that ends has the file's length, with every byte from the
\* buffer of its place (torero-serve.cpp:109-116).
THEOREM DamageIsLocal == Spec => []DamageStaysInBuffer
<1>1. IInv => DamageStaysInBuffer
  <2>1. SUFFICES ASSUME IInv PROVE DamageStaysInBuffer
    OBVIOUS
  <2>2. /\ DOMAIN wire = 1 .. Len(wire) /\ Len(wire) \in Nat
        /\ pos \in Nat /\ pos <= Len(file) /\ Len(file) \in Nat
    BY <2>1, Types, LenProperties DEF IInv
  <2>3. pc = "done" => Len(wire) = Len(file) /\ pos = Len(file)
    <3>1. SUFFICES ASSUME pc = "done"
                   PROVE  Len(wire) = Len(file) /\ pos = Len(file)
      OBVIOUS
    <3>2. QED
      BY <2>1, <3>1, EndOfFile
  <2>4. ASSUME NEW i \in 1 .. Len(wire)
        PROVE  \E j \in 1 .. i : /\ j <= Len(file) /\ wire[i] = file[j]
                                 /\ pc = "done" => Block(j) = Block(i)
    <3>1. PICK j \in 1 .. i : /\ j <= pos /\ wire[i] = file[j]
                              /\ i <= pos => Block(j) = Block(i)
      BY <2>1 DEF IInv, PlaceInv
    <3>2. j <= Len(file)
      BY <2>2, <3>1
    <3>3. pc = "done" => i <= pos
      BY <2>2, <2>3
    <3>4. QED
      BY <3>1, <3>2, <3>3
  <2>5. QED
    BY <2>2, <2>3, <2>4 DEF DamageStaysInBuffer
<1>2. QED
  BY <1>1, IInvAlways, PTL

\* A send of a whole buffer delivers the next bytes of the file.
LEMMA WholeDelivers ==
  ASSUME IInv, Send, whole
  PROVE  Stream!Deliver
<1>1. IInv'
  BY SendStep
<1>2. whole' = whole /\ file' = file /\ pc = "send" /\ pc' = "send"
      /\ pos' = pos /\ file_data' = file_data
  BY DEF Send
<1>3. PICK n \in 1 .. Len(file_data) : Len(wire') = Len(wire) + n
                                       /\ total_sent' = total_sent + n
  BY SendEffect DEF IInv
<1>4. /\ file \in Seq(Nat) /\ Len(file) \in Nat /\ pos \in Nat
      /\ pos <= Len(file) /\ Len(wire) \in Nat /\ n \in Nat /\ 0 < n
      /\ Len(file_data) \in Nat /\ total_sent' \in Nat
  BY <1>1, <1>3, Types, BufferAssumption DEF IInv
<1> DEFINE m == Len(wire')
           t == SubSeq(file, 1, m)
<1>5. total_sent' = Len(file_data)
  <2>1. total_sent' # 0
    BY <1>3, <1>4, Types DEF IInv
  <2>2. QED
    BY <1>1, <1>2, <2>1 DEF IInv, WholeInv
<1>6. m = pos
  BY <1>1, <1>2, <1>4, <1>5 DEF IInv, CountInv, Base, Counted
<1>7. m \in Len(wire) + 1 .. Len(file)
  BY <1>3, <1>4, <1>6
<1>8. wire' = t
  <2>1. wire' \in Seq(Nat) /\ \A i \in 1 .. m : wire'[i] = file[i]
    BY <1>1, <1>2, Types DEF IInv, WholeInv, TypeOK
  <2>2. m \in Int /\ \A i \in 1 .. m : file[i] \in Nat
    BY <1>4, <1>7, ElementOfSeq
  <2>3. /\ t \in Seq(Nat) /\ Len(t) = m
        /\ \A i \in 1 .. m : t[i] = file[i]
    <3> HIDE DEF m
    <3>1. /\ t \in Seq(Nat) /\ Len(t) = IF 1 <= m THEN m - 1 + 1 ELSE 0
          /\ \A i \in 1 .. m - 1 + 1 : t[i] = file[1 + i - 1]
      BY <2>2, SubSeqProperties
    <3>2. 1 <= m
      BY <1>4, <1>7
    <3> HIDE DEF t
    <3>3. QED
      BY <2>2, <3>1, <3>2
  <2> HIDE DEF t
  <2>4. QED
    BY <2>1, <2>3, SeqEqual
<1>9. QED
  BY <1>2, <1>7, <1>8 DEF Stream!Deliver

\* On a connection that takes whole buffers contentResponse implements the byte
\* stream: it ends after the last byte of the file, and no byte is lost, repeated
\* or reordered where one buffer ends and the next begins
\* (torero-serve.cpp:319-331).
THEOREM WholeImplements == Spec => StreamSpec
<1>1. Init => Stream!Init
  BY DEF Init, Stream!Init
<1>2. IInv /\ [Next]_vars => [Stream!Next]_(Stream!bvars)
  <2>1. SUFFICES ASSUME IInv, [Next]_vars
                 PROVE  Stream!Next \/ UNCHANGED Stream!bvars
    OBVIOUS
  <2>2. whole' = whole /\ file' = file
    BY <2>1 DEF Next, Read, Send, Sent, Finish, vars
  <2>3. CASE Send /\ whole
    BY <2>1, <2>3, WholeDelivers DEF Stream!Next
  <2>4. CASE Finish /\ whole
    <3>1. pc = "read" /\ eof /\ pc' = "done" /\ wire' = wire
      BY <2>4 DEF Finish
    <3>2. Len(wire) = Len(file)
      BY <2>1, <3>1, EndOfFile
    <3>3. wire \in Seq(Nat) /\ file \in Seq(Nat)
      BY <2>1, Types DEF IInv
    <3>4. wire = file
      BY <2>1, <2>4, <3>2, <3>3, SeqEqual DEF IInv, WholeInv
    <3>5. QED
      BY <2>2, <2>4, <3>1, <3>4 DEF Stream!Finish, Stream!Next
  <2>5. CASE ~whole
    BY <2>2, <2>5 DEF Stream!bvars
  <2>6. CASE whole /\ (Read \/ Sent \/ UNCHANGED vars)
    <3>1. wire' = wire /\ (pc' = "done" <=> pc = "done")
      BY <2>6 DEF Read, Sent, vars
    <3>2. QED
      BY <2>2, <3>1 DEF Stream!bvars
  <2>7. QED
    BY <2>1, <2>3, <2>4, <2>5, <2>6 DEF Next
<1>3. QED
  BY <1>1, <1>2, IInvAlways, PTL DEF Spec, StreamSpec, Stream!Spec
=============================================================================
