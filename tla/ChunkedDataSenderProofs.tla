----------------------- MODULE ChunkedDataSenderProofs -----------------------
(***************************************************************************)
(* What the jukebox's senders guarantee for any contents, chunk size and   *)
(* width of size_t: a transfer stops at its length on every socket, no     *)
(* byte is sent twice, and the exact senders implement ByteStream.         *)
(***************************************************************************)
EXTENDS ChunkedDataSender, SequenceTheorems, TLAPS

-----------------------------------------------------------------------------
(* The size of a chunk.                                                    *)

\* The constructors fix the length, which a size_t can hold.
LengthInv ==
  /\ length = IF open THEN Len(data) ELSE -1
  /\ sender = "array" => open

\* curr_loc never steps over the length.
BoundInv ==
  /\ open => curr_loc <= length
  /\ open /\ phase = "done" => curr_loc = length

\* A difference that is not negative is not changed by size_t.
LEMMA NoWrap ==
  ASSUME NEW B \in Nat, NEW a \in 0 .. B - 1
  PROVE  a % B = a
  BY SMT

\* A size_t is a natural number.
LEMMA WrapType ==
  ASSUME NEW B \in Nat \ {0}, NEW a \in Int
  PROVE  a % B \in Nat
  BY SMT

\* The contents are sequences of bytes that a size_t can count.
LEMMA DataType ==
  ASSUME TypeOK
  PROVE  /\ data \in Seq(Nat \ {Junk}) /\ data \in Seq(Nat)
         /\ Len(data) \in Nat /\ Len(data) < SizeMod
         /\ \A i \in 1 .. Len(data) : data[i] \in Nat \ {Junk}
<1>1. data \in Seq(Nat \ {Junk}) /\ Len(data) < SizeMod
  BY ContentsAssumption, SizeAssumption DEF TypeOK
<1>2. Len(data) \in Nat /\ \A i \in 1 .. Len(data) : data[i] \in Nat \ {Junk}
  BY <1>1, ElementOfSeq, LenProperties
<1>3. data \in Seq(Nat)
  BY <1>1
<1>4. QED
  BY <1>1, <1>2, <1>3

\* A chunk is never larger than CHUNK_SIZE, and never larger than what
\* remains of contents that could be opened.
LEMMA ChunkSize ==
  ASSUME TypeOK, LengthInv, BoundInv
  PROVE  /\ bytes_in_chunk \in 0 .. CHUNK_SIZE
         /\ open => /\ num_bytes_remaining = length - curr_loc
                    /\ curr_loc + bytes_in_chunk <= length
                    /\ bytes_in_chunk = 0 => curr_loc = length
<1> USE SizeAssumption, ChunkAssumption
<1>1. curr_loc \in Nat /\ length \in Int
  BY LenProperties DEF TypeOK
<1>2. SizeMod \in Nat \ {0}
  OBVIOUS
<1>3. num_bytes_remaining \in Nat
  BY <1>1, <1>2, WrapType DEF num_bytes_remaining
<1>4. bytes_in_chunk \in 0 .. CHUNK_SIZE
  BY <1>3 DEF bytes_in_chunk
<1>5. ASSUME open
      PROVE  num_bytes_remaining = length - curr_loc
  <2>1. length - curr_loc \in 0 .. SizeMod - 1
    BY <1>1, <1>5, DataType DEF LengthInv, BoundInv
  <2>2. QED
    BY <2>1, NoWrap DEF num_bytes_remaining
<1>6. QED
  BY <1>1, <1>4, <1>5 DEF bytes_in_chunk

-----------------------------------------------------------------------------
(* The bytes of a chunk.                                                   *)

\* A read fills no more than it is asked for and stays in the file.
LEMMA ReadSize ==
  ASSUME TypeOK, NEW b \in Nat
  PROVE  BytesRead(b) \in 0 .. b /\ pos + BytesRead(b) <= Len(data)
  BY DataType DEF TypeOK, BytesRead

\* k elements of s from the (a+1)-th on.
LEMMA Cut ==
  ASSUME NEW s \in Seq(Nat), NEW a \in Nat, NEW k \in Nat, a + k <= Len(s)
  PROVE  /\ SubSeq(s, a + 1, a + k) \in Seq(Nat)
         /\ Len(SubSeq(s, a + 1, a + k)) = k
         /\ \A i \in 1 .. k : SubSeq(s, a + 1, a + k)[i] = s[a + i]
<1> DEFINE m == a + 1
           n == a + k
<1>1. Len(s) \in Nat /\ m \in Int /\ n \in Int
  BY LenProperties
<1>2. \A i \in m .. n : s[i] \in Nat
  BY <1>1, ElementOfSeq
<1> HIDE DEF m, n
<1>3. /\ SubSeq(s, m, n) \in Seq(Nat)
      /\ Len(SubSeq(s, m, n)) = IF m <= n THEN n - m + 1 ELSE 0
      /\ \A i \in 1 .. n - m + 1 : SubSeq(s, m, n)[i] = s[m + i - 1]
  BY <1>1, <1>2, SubSeqProperties
<1>4. n - m + 1 = k /\ (IF m <= n THEN n - m + 1 ELSE 0) = k
  BY DEF m, n
<1>5. \A i \in 1 .. k : m + i - 1 = a + i
  BY DEF m
<1>6. \A i \in 1 .. k : SubSeq(s, m, n)[i] = s[a + i]
  BY <1>3, <1>4, <1>5
<1>7. QED
  BY <1>3, <1>4, <1>6 DEF m, n

\* What send() takes of the chunk, and the i-th byte a FileSender puts there.
Piece(n)    == SubSeq(Chunk(bytes_in_chunk), 1, n)
FileByte(i) == IF i <= BytesRead(bytes_in_chunk) THEN data[pos + i] ELSE Junk

\* A byte that a FileSender sends is a number.
LEMMA FileByteType ==
  ASSUME TypeOK, LengthInv, BoundInv, NEW i \in Nat \ {0}
  PROVE  FileByte(i) \in Nat
<1>1. bytes_in_chunk \in Nat /\ pos \in Nat
  BY ChunkSize, ChunkAssumption, DataType DEF TypeOK
<1>2. /\ pos + BytesRead(bytes_in_chunk) <= Len(data)
      /\ BytesRead(bytes_in_chunk) \in 0 .. bytes_in_chunk
  BY <1>1, ReadSize
<1>3. CASE i <= BytesRead(bytes_in_chunk)
  <2>1. pos + i \in 1 .. Len(data)
    BY <1>1, <1>2, <1>3, DataType
  <2>2. QED
    BY <2>1, <1>3, DataType DEF FileByte
<1>4. CASE ~(i <= BytesRead(bytes_in_chunk))
  BY <1>4, ContentsAssumption DEF FileByte
<1>5. QED
  BY <1>3, <1>4

\* An ArraySender's piece: the data from curr_loc on.
LEMMA ArrayPiece ==
  ASSUME TypeOK, LengthInv, BoundInv, sender = "array",
         NEW n \in 1 .. bytes_in_chunk
  PROVE  /\ Piece(n) \in Seq(Nat) /\ Len(Piece(n)) = n
         /\ Piece(n) = SubSeq(data, curr_loc + 1, curr_loc + n)
         /\ \A i \in 1 .. n : Piece(n)[i] = data[curr_loc + i]
<1> DEFINE b == bytes_in_chunk
           s == SubSeq(data, curr_loc + 1, curr_loc + n)
<1>1. b \in Nat /\ n \in 1 .. b /\ curr_loc \in Nat
  BY ChunkSize, ChunkAssumption, LenProperties DEF TypeOK
<1>2. curr_loc + b <= Len(data)
  BY ChunkSize DEF LengthInv
<1>3. Chunk(b) = SubSeq(data, curr_loc + 1, curr_loc + b)
  BY DEF Chunk
<1>4. Piece(n) = SubSeq(Chunk(b), 1, n)
  BY DEF Piece
<1> HIDE DEF b
<1>5. /\ Chunk(b) \in Seq(Nat) /\ Len(Chunk(b)) = b
      /\ \A i \in 1 .. b : Chunk(b)[i] = data[curr_loc + i]
  <2>1. data \in Seq(Nat)
    BY DataType
  <2> DEFINE c == SubSeq(data, curr_loc + 1, curr_loc + b)
  <2>2. /\ c \in Seq(Nat) /\ Len(c) = b
        /\ \A i \in 1 .. b : c[i] = data[curr_loc + i]
    BY <1>1, <1>2, <2>1, Cut
  <2> HIDE DEF c
  <2>3. Chunk(b) = c
    BY <1>3 DEF c
  <2>4. QED
    BY <2>2, <2>3
<1>6. /\ Piece(n) \in Seq(Nat) /\ Len(Piece(n)) = n
      /\ \A i \in 1 .. n : Piece(n)[i] = data[curr_loc + i]
  <2>1. \A i \in 1 .. n : Chunk(b)[i] \in Nat
    BY <1>1, <1>5, ElementOfSeq
  <2>2. QED
    BY <1>1, <1>4, <1>5, <2>1, SubSeqProperties
<1>7. /\ s \in Seq(Nat) /\ Len(s) = n
      /\ \A i \in 1 .. n : s[i] = data[curr_loc + i]
  <2>1. n \in Nat /\ curr_loc + n <= Len(data) /\ data \in Seq(Nat)
    BY <1>1, <1>2, DataType
  <2>2. QED
    BY <1>1, <2>1, Cut
<1> HIDE DEF s
<1>8. Piece(n) = s
  BY <1>6, <1>7, SeqEqual
<1>9. QED
  BY <1>6, <1>8 DEF s

\* A FileSender's piece: the data from the ifstream's position on, then junk.
LEMMA FilePiece ==
  ASSUME TypeOK, LengthInv, BoundInv, sender = "file",
         NEW n \in 1 .. bytes_in_chunk
  PROVE  /\ Piece(n) \in Seq(Nat) /\ Len(Piece(n)) = n
         /\ \A i \in 1 .. n : Piece(n)[i] = FileByte(i)
<1> DEFINE b == bytes_in_chunk
<1>1. b \in Nat /\ n \in 1 .. b
  BY ChunkSize, ChunkAssumption
<1>2. Chunk(b) = [i \in 1 .. b |-> FileByte(i)]
  BY DEF Chunk, FileChunk, FileByte
<1>3. Piece(n) = SubSeq(Chunk(b), 1, n)
  BY DEF Piece
<1> HIDE DEF b
<1>4. \A i \in 1 .. n : Chunk(b)[i] = FileByte(i) /\ Chunk(b)[i] \in Nat
  BY <1>1, <1>2, FileByteType
<1>5. /\ Piece(n) \in Seq(Nat) /\ Len(Piece(n)) = n
      /\ \A i \in 1 .. n : Piece(n)[i] = Chunk(b)[i]
  BY <1>1, <1>3, <1>4, SubSeqProperties
<1>6. QED
  BY <1>4, <1>5

\* A send appends its piece and moves curr_loc by as much.
LEMMA SendEffect ==
  ASSUME TypeOK, LengthInv, BoundInv, SendSome
  PROVE  \E n \in 1 .. bytes_in_chunk :
           /\ n = bytes_in_chunk \/ ~whole
           /\ wire' = wire \o Piece(n) /\ curr_loc' = curr_loc + n
           /\ wire' \in Seq(Nat) /\ Len(wire') = Len(wire) + n
           /\ \A i \in 1 .. Len(wire) : wire'[i] = wire[i]
           /\ \A i \in 1 .. n : wire'[Len(wire) + i] = Piece(n)[i]
<1>1. PICK n \in 1 .. bytes_in_chunk :
        /\ n = bytes_in_chunk \/ ~whole
        /\ wire' = wire \o Piece(n) /\ curr_loc' = curr_loc + n
  BY DEF SendSome, Piece
<1>2. n \in Nat /\ wire \in Seq(Nat) /\ Len(wire) \in Nat
  BY ChunkSize, ChunkAssumption, LenProperties DEF TypeOK
<1>3. Piece(n) \in Seq(Nat) /\ Len(Piece(n)) = n
  BY ArrayPiece, FilePiece DEF TypeOK
<1>4. /\ wire' \in Seq(Nat) /\ Len(wire') = Len(wire) + n
      /\ \A i \in 1 .. Len(wire) + n :
           wire'[i] = IF i <= Len(wire) THEN wire[i]
                                        ELSE Piece(n)[i - Len(wire)]
  BY <1>1, <1>2, <1>3, ConcatProperties
<1>5. \A i \in 1 .. Len(wire) : wire'[i] = wire[i]
  BY <1>2, <1>4
<1>6. \A i \in 1 .. n : wire'[Len(wire) + i] = Piece(n)[i]
  <2>1. TAKE i \in 1 .. n
  <2>2. Len(wire) + i \in 1 .. Len(wire) + n /\ ~(Len(wire) + i <= Len(wire))
        /\ (Len(wire) + i) - Len(wire) = i
    BY <1>2
  <2>3. QED
    BY <2>2, <1>4
<1>7. QED
  BY <1>1, <1>4, <1>5, <1>6

-----------------------------------------------------------------------------
(* The inductive invariant.                                                *)

\* How much of the data has been fetched for sending, and how much of the
\* next chunk is data.
Taken == IF sender = "array" THEN curr_loc ELSE pos
Avail == IF sender = "array" THEN bytes_in_chunk ELSE BytesRead(bytes_in_chunk)

\* Every byte sent is from the part that has been fetched, or it is junk and
\* the ifstream has failed for good.
FetchedInv ==
  \A i \in 1 .. Len(wire) :
    \/ wire[i] = Junk /\ sender = "file" /\ failed
    \/ \E p \in 1 .. Taken : data[p] = wire[i]

\* The exact senders have sent the first curr_loc bytes; on a socket that
\* takes chunks whole the ifstream is never anywhere else.
ExactInv ==
  Exact => /\ wire = SubSeq(data, 1, curr_loc)
           /\ sender = "file" /\ phase # "exited" => pos = curr_loc /\ ~failed

IInv == TypeOK /\ LengthInv /\ BoundInv /\ FetchedInv /\ NeverBackwards /\ ExactInv

\* The constructors establish it.
LEMMA InitIInv == Init => IInv
<1>1. SUFFICES ASSUME Init PROVE IInv
  OBVIOUS
<1>2. wire \in Seq(Nat) /\ Len(wire) = 0 /\ curr_loc = Len(wire)
  BY <1>1, EmptySeq DEF Init
<1>3. Len(data) \in Nat /\ Len(data) < SizeMod /\ data \in Seq(Nat)
  BY <1>1, ContentsAssumption, SizeAssumption, LenProperties DEF Init
<1>4. open \in BOOLEAN /\ (sender = "array" => open)
  <2>1. sender \in {"array", "file"}
    BY <1>1 DEF Init
  <2>2. CASE sender = "array"
    <3>1. open \in {TRUE}
      BY <1>1, <2>2 DEF Init
    <3>2. QED
      BY <3>1, Zenon
  <2>3. CASE sender = "file"
    <3>1. open \in BOOLEAN
      BY <1>1, <2>3 DEF Init
    <3>2. QED
      BY <2>3, <3>1
  <2>4. QED
    BY <2>1, <2>2, <2>3
<1>5. length = IF open THEN Len(data) ELSE -1
  BY <1>1, Zenon DEF Init
<1>6. failed \in BOOLEAN /\ (open => ~failed)
  BY <1>1, <1>4, Zenon DEF Init
<1>7. /\ sender \in {"array", "file"} /\ data \in Contents
      /\ whole \in BOOLEAN /\ pos = 0 /\ curr_loc = 0 /\ wire = <<>>
      /\ phase = "sending"
  BY <1>1, Zenon DEF Init
<1>8. TypeOK
  <2>1. length \in -1 .. SizeMod - 1
    BY <1>3, <1>5, SizeAssumption
  <2>2. QED
    BY <1>2, <1>3, <1>4, <1>6, <1>7, <2>1 DEF TypeOK
<1>9. LengthInv /\ BoundInv
  BY <1>3, <1>4, <1>5, <1>7 DEF LengthInv, BoundInv
<1>10. FetchedInv /\ NeverBackwards
  BY <1>2 DEF FetchedInv, NeverBackwards
<1>11. ExactInv
  <2>1. SubSeq(data, 1, 0) = <<>>
    BY SubSeqEmpty
  <2>2. QED
    BY <1>6, <1>7, <2>1 DEF ExactInv, Exact
<1>12. QED
  BY <1>8, <1>9, <1>10, <1>11 DEF IInv

\* What is fetched for a chunk is in the file, and a failed ifstream stays so.
LEMMA FillEffect ==
  ASSUME TypeOK, LengthInv, BoundInv, FillChunk
  PROVE  /\ UNCHANGED given
         /\ pos' \in 0 .. Len(data) /\ pos <= pos' /\ failed' \in BOOLEAN
         /\ sender = "file" /\ failed => failed'
<1>1. bytes_in_chunk \in Nat
  BY ChunkSize, ChunkAssumption
<1>2. /\ BytesRead(bytes_in_chunk) \in 0 .. bytes_in_chunk
      /\ pos + BytesRead(bytes_in_chunk) <= Len(data)
  BY <1>1, ReadSize
<1>3. sender = "file" /\ failed => BytesRead(bytes_in_chunk) = 0
  BY DEF BytesRead
<1>4. pos \in 0 .. Len(data) /\ Len(data) \in Nat /\ failed \in BOOLEAN
  BY DataType DEF TypeOK
<1>5. bytes_in_chunk > 0 /\ UNCHANGED given
  BY DEF FillChunk
<1>6. CASE sender = "file"
  <2>1. /\ pos' = pos + BytesRead(bytes_in_chunk)
        /\ failed' = (BytesRead(bytes_in_chunk) < bytes_in_chunk)
    BY <1>6 DEF FillChunk
  <2>2. pos' \in 0 .. Len(data) /\ pos <= pos'
    BY <1>2, <1>4, <2>1
  <2>3. failed' \in BOOLEAN
    BY <2>1
  <2>4. failed => failed'
    BY <1>1, <1>3, <1>5, <1>6, <2>1
  <2>5. QED
    BY <1>5, <2>2, <2>3, <2>4
<1>7. CASE sender # "file"
  <2>1. pos' = pos /\ failed' = failed
    BY <1>7 DEF FillChunk
  <2>2. QED
    BY <1>4, <1>5, <1>7, <2>1
<1>8. QED
  BY <1>6, <1>7

\* Every action but SendSome leaves curr_loc and wire alone, and fetches no
\* less than before.
LEMMA QuietStep ==
  ASSUME IInv, WouldBlock \/ SendError \/ NothingLeft \/ Writable
               \/ UNCHANGED vars
  PROVE  IInv'
<1> USE DEF IInv
<1>1. /\ UNCHANGED given /\ UNCHANGED <<curr_loc, wire>>
      /\ pos' \in 0 .. Len(data) /\ pos <= pos' /\ failed' \in BOOLEAN
      /\ sender = "file" /\ failed => failed'
      /\ phase' \in {"sending", "full", "done", "exited"}
  <2>1. CASE FillChunk
    <3>1. /\ UNCHANGED <<curr_loc, wire>>
          /\ phase' \in {"sending", "full", "done", "exited"}
      BY <2>1 DEF FillChunk, WouldBlock, SendError, NothingLeft, Writable,
                  TypeOK, vars
    <3>2. QED
      BY <2>1, <3>1, FillEffect
  <2>2. CASE NothingLeft \/ Writable \/ UNCHANGED vars
    <3>1. UNCHANGED <<given, pos, failed, curr_loc, wire>>
      BY <2>2 DEF NothingLeft, Writable, vars
    <3>2. pos \in 0 .. Len(data) /\ pos <= pos /\ failed \in BOOLEAN
      BY DataType DEF TypeOK
    <3>3. phase' \in {"sending", "full", "done", "exited"}
      BY <2>2 DEF NothingLeft, Writable, vars, TypeOK
    <3>4. QED
      BY <3>1, <3>2, <3>3 DEF given
  <2>3. QED
    BY <2>1, <2>2 DEF WouldBlock, SendError
<1>2. sender' = sender /\ data' = data /\ whole' = whole /\ open' = open
      /\ length' = length /\ curr_loc' = curr_loc /\ wire' = wire
  BY <1>1 DEF given
<1>3. TypeOK' /\ LengthInv'
  BY <1>1, <1>2 DEF TypeOK, LengthInv
<1>4. BoundInv'
  <2>1. ASSUME open, phase' = "done"
        PROVE  curr_loc = length
    <3>1. NothingLeft \/ UNCHANGED vars
      BY <2>1 DEF WouldBlock, SendError, Writable
    <3>2. NothingLeft => bytes_in_chunk = 0
      BY DEF NothingLeft
    <3>3. UNCHANGED vars => phase = "done"
      BY <2>1 DEF vars
    <3>4. QED
      BY <2>1, <3>1, <3>2, <3>3, ChunkSize DEF BoundInv
  <2>2. QED
    BY <1>2, <2>1 DEF BoundInv
<1>5. FetchedInv'
  <2>1. Taken <= Taken' /\ Taken \in Nat /\ Taken' \in Nat
    BY <1>1, <1>2, DataType, LenProperties DEF Taken, TypeOK
  <2>2. QED
    BY <1>1, <1>2, <2>1 DEF FetchedInv
<1>6. NeverBackwards'
  BY <1>2 DEF NeverBackwards
<1>7. ExactInv'
  <2>1. Exact' = Exact
    BY <1>2 DEF Exact
  <2>2. ASSUME Exact, sender = "file", phase' # "exited"
        PROVE  /\ UNCHANGED <<pos, failed>> /\ phase # "exited"
    <3>1. whole
      BY <2>2 DEF Exact
    <3>2. ~WouldBlock /\ ~SendError
      BY <2>2, <3>1 DEF WouldBlock, SendError
    <3>3. QED
      BY <2>2, <3>2 DEF NothingLeft, Writable, vars
  <2>3. QED
    BY <1>2, <2>1, <2>2 DEF ExactInv
<1>8. QED
  BY <1>3, <1>4, <1>5, <1>6, <1>7

\* The bytes of a piece are the next of the data, and junk after them.
LEMMA PieceByte ==
  ASSUME TypeOK, LengthInv, BoundInv, NEW n \in 1 .. bytes_in_chunk
  PROVE  /\ Taken \in Nat /\ Avail \in Nat /\ Taken + Avail <= Len(data)
         /\ \A i \in 1 .. n :
              Piece(n)[i] = IF i <= Avail THEN data[Taken + i] ELSE Junk
<1>1. bytes_in_chunk \in Nat /\ n \in Nat /\ n <= bytes_in_chunk
  BY ChunkSize, ChunkAssumption
<1>2. CASE sender = "array"
  <2>1. Taken = curr_loc /\ Avail = bytes_in_chunk
    BY <1>2 DEF Taken, Avail
  <2>2. curr_loc \in Nat /\ curr_loc + bytes_in_chunk <= Len(data)
    BY <1>2, ChunkSize, LenProperties DEF LengthInv, TypeOK
  <2>3. \A i \in 1 .. n : Piece(n)[i] = data[curr_loc + i] /\ i <= Avail
    BY <1>1, <1>2, <2>1, ArrayPiece
  <2>4. QED
    BY <1>1, <2>1, <2>2, <2>3
<1>3. CASE sender = "file"
  <2>1. Taken = pos /\ Avail = BytesRead(bytes_in_chunk)
    BY <1>3 DEF Taken, Avail
  <2>2. /\ BytesRead(bytes_in_chunk) \in 0 .. bytes_in_chunk
        /\ pos + BytesRead(bytes_in_chunk) <= Len(data)
    BY <1>1, ReadSize
  <2>3. pos \in Nat
    BY DataType DEF TypeOK
  <2>4. \A i \in 1 .. n : Piece(n)[i] = FileByte(i)
    BY <1>3, FilePiece
  <2>5. QED
    BY <1>1, <2>1, <2>2, <2>3, <2>4 DEF FileByte
<1>4. QED
  BY <1>2, <1>3 DEF TypeOK

\* A send keeps the invariant: its bytes are further on than all before.
LEMMA SendStep ==
  ASSUME IInv, SendSome
  PROVE  IInv'
<1> USE DEF IInv
<1> DEFINE L == Len(wire)
           b == bytes_in_chunk
<1>1. PICK n \in 1 .. b :
        /\ n = b \/ ~whole
        /\ wire' = wire \o Piece(n) /\ curr_loc' = curr_loc + n
        /\ wire' \in Seq(Nat) /\ Len(wire') = L + n
        /\ \A i \in 1 .. L : wire'[i] = wire[i]
        /\ \A i \in 1 .. n : wire'[L + i] = Piece(n)[i]
  BY SendEffect
<1>2. b \in Nat /\ n \in Nat /\ n <= b /\ 0 < n /\ L \in Nat /\ curr_loc = L
  BY ChunkSize, ChunkAssumption, LenProperties DEF TypeOK
<1>3. FillChunk /\ phase' = phase /\ phase = "sending"
  BY DEF SendSome, FillChunk
<1>4. /\ sender' = sender /\ data' = data /\ whole' = whole
      /\ open' = open /\ length' = length
      /\ pos' \in 0 .. Len(data) /\ pos <= pos' /\ failed' \in BOOLEAN
      /\ sender = "file" /\ failed => failed'
  BY <1>3, FillEffect DEF given
<1>5. sender = "file" => /\ pos' = pos + Avail
                         /\ failed' = (Avail < b)
  BY <1>3 DEF FillChunk, Avail
<1>6. /\ Taken \in Nat /\ Avail \in Nat /\ Taken + Avail <= Len(data)
      /\ \A i \in 1 .. n :
           Piece(n)[i] = IF i <= Avail THEN data[Taken + i] ELSE Junk
  BY PieceByte
<1>7. TypeOK' /\ LengthInv'
  <2>1. curr_loc' = Len(wire')
    BY <1>1, <1>2
  <2>2. QED
    BY <1>1, <1>3, <1>4, <2>1 DEF TypeOK, LengthInv
<1>8. BoundInv'
  <2>1. open => curr_loc + b <= length
    BY ChunkSize
  <2>2. length \in Int
    BY DEF TypeOK
  <2>3. open => curr_loc + n <= length
    BY <1>2, <2>1, <2>2
  <2>4. phase' # "done"
    BY <1>3
  <2>5. QED
    BY <1>1, <1>4, <2>3, <2>4 DEF BoundInv
<1>9. /\ Taken' \in Nat /\ Taken <= Taken'
      /\ \A i \in 1 .. n : i <= Avail => Taken + i <= Taken'
  <2>1. CASE sender = "array"
    BY <1>1, <1>2, <1>4, <2>1 DEF Taken
  <2>2. CASE sender = "file"
    BY <1>4, <1>5, <1>6, <1>2, <2>2 DEF Taken
  <2>3. QED
    BY <2>1, <2>2 DEF TypeOK
<1>10. ASSUME NEW i \in 1 .. n, ~(i <= Avail)
       PROVE  sender = "file" /\ failed'
  <2>1. sender = "file"
    <3>1. SUFFICES ASSUME sender = "array" PROVE FALSE
      BY DEF TypeOK
    <3>2. Avail = b
      BY <3>1 DEF Avail
    <3>3. QED
      BY <1>2, <1>10, <3>2
  <2>2. Avail < b
    BY <1>2, <1>6, <1>10
  <2>3. QED
    BY <1>5, <2>1, <2>2
<1> HIDE DEF L, b
<1>11. FetchedInv'
  <2>1. SUFFICES ASSUME NEW i \in 1 .. L + n
                 PROVE  \/ wire'[i] = Junk /\ sender' = "file" /\ failed'
                        \/ \E p \in 1 .. Taken' : data'[p] = wire'[i]
    BY <1>1 DEF FetchedInv
  <2>2. CASE i \in 1 .. L
    <3>1. wire'[i] = wire[i]
      BY <1>1, <2>2
    <3>2. CASE wire[i] = Junk /\ sender = "file" /\ failed
      BY <1>4, <3>1, <3>2
    <3>3. CASE \E p \in 1 .. Taken : data[p] = wire[i]
      <4>1. PICK p \in 1 .. Taken : data[p] = wire[i]
        BY <3>3
      <4>2. p \in 1 .. Taken'
        BY <1>6, <1>9
      <4>3. QED
        BY <1>4, <3>1, <4>1, <4>2
    <3>4. QED
      BY <2>2, <3>2, <3>3 DEF FetchedInv, L
  <2>3. CASE i \notin 1 .. L
    <3>1. i - L \in 1 .. n /\ L + (i - L) = i
      BY <1>2, <2>3
    <3>2. wire'[i] = Piece(n)[i - L]
      BY <1>1, <3>1
    <3>3. CASE i - L <= Avail
      <4>1. wire'[i] = data[Taken + (i - L)]
        BY <1>6, <3>1, <3>2, <3>3
      <4>2. Taken + (i - L) \in 1 .. Taken'
        BY <1>2, <1>6, <1>9, <3>1, <3>3
      <4>3. QED
        BY <1>4, <4>1, <4>2
    <3>4. CASE ~(i - L <= Avail)
      <4>1. wire'[i] = Junk
        BY <1>6, <3>1, <3>2, <3>4
      <4>2. QED
        BY <1>4, <1>10, <3>1, <3>4, <4>1
    <3>5. QED
      BY <3>3, <3>4
  <2>4. QED
    BY <2>2, <2>3
<1>12. NeverBackwards'
  <2>1. SUFFICES ASSUME NEW i \in 1 .. L + n, NEW j \in 1 .. L + n, i < j,
                        wire'[j] # Junk
                 PROVE  \E p, q \in 1 .. Len(data) :
                          p < q /\ data[p] = wire'[i] /\ data[q] = wire'[j]
    <3>1. SUFFICES ASSUME NEW i \in 1 .. Len(wire'), NEW j \in 1 .. Len(wire'),
                          i < j
                   PROVE  \/ wire'[j] = Junk
                          \/ \E p, q \in 1 .. Len(data') :
                               /\ p < q
                               /\ data'[p] = wire'[i] /\ data'[q] = wire'[j]
      BY DEF NeverBackwards
    <3>2. i \in 1 .. L + n /\ j \in 1 .. L + n
      BY <1>1, <3>1
    <3>3. QED
      BY <1>4, <2>1, <3>1, <3>2, Zenon
  <2>2. Len(data) \in Nat
    BY DataType
  <2>3. CASE j <= L
    <3>1. i \in 1 .. L /\ j \in 1 .. L
      BY <1>2, <2>1, <2>3
    <3>2. wire'[i] = wire[i] /\ wire'[j] = wire[j]
      BY <1>1, <3>1
    <3>3. PICK p, q \in 1 .. Len(data) :
            p < q /\ data[p] = wire[i] /\ data[q] = wire[j]
      BY <2>1, <3>1, <3>2, Zenon DEF NeverBackwards, L
    <3>4. QED
      BY <3>2, <3>3
  <2>4. CASE ~(j <= L)
    <3>1. j - L \in 1 .. n /\ L + (j - L) = j
      BY <1>2, <2>4
    <3>2. wire'[j] = Piece(n)[j - L]
      BY <1>1, <3>1
    <3>3. j - L <= Avail /\ wire'[j] = data[Taken + (j - L)]
      BY <1>6, <2>1, <3>1, <3>2
    <3>4. Taken + (j - L) \in 1 .. Len(data)
      BY <1>6, <2>2, <3>1, <3>3
    <3>5. CASE i <= L
      <4>1. i \in 1 .. L /\ wire'[i] = wire[i]
        BY <1>1, <1>2, <3>5
      <4>2. ~(sender = "file" /\ failed)
        <5>1. SUFFICES ASSUME sender = "file", failed PROVE FALSE
          OBVIOUS
        <5>2. Avail = 0
          BY <5>1 DEF Avail, BytesRead
        <5>3. QED
          BY <3>1, <3>3, <5>2, <1>2
      <4>3. PICK p \in 1 .. Taken : data[p] = wire[i]
        BY <4>1, <4>2 DEF FetchedInv, L
      <4>4. p \in 1 .. Len(data) /\ p < Taken + (j - L)
        BY <1>6, <2>2, <3>1, <3>4, <4>3
      <4>5. QED
        BY <3>3, <3>4, <4>1, <4>3, <4>4
    <3>6. CASE ~(i <= L)
      <4>1. i - L \in 1 .. n /\ L + (i - L) = i /\ i - L < j - L
        BY <1>2, <2>1, <3>1, <3>6
      <4>2. wire'[i] = Piece(n)[i - L]
        BY <1>1, <4>1
      <4>3. i - L <= Avail
        BY <1>2, <1>6, <3>1, <3>3, <4>1
      <4>4. wire'[i] = data[Taken + (i - L)]
        BY <1>6, <4>1, <4>2, <4>3
      <4>5. /\ Taken + (i - L) \in 1 .. Len(data)
            /\ Taken + (i - L) < Taken + (j - L)
        <5> DEFINE k == i - L
                   m == j - L
        <5>1. k \in Nat /\ m \in Nat /\ 1 <= k /\ k < m
          BY <1>2, <3>1, <4>1
        <5>2. Taken \in Nat /\ Taken + m <= Len(data)
          BY <1>6, <2>2, <3>4
        <5> HIDE DEF k, m
        <5>3. Taken + k \in 1 .. Len(data) /\ Taken + k < Taken + m
          BY <2>2, <5>1, <5>2
        <5>4. QED
          BY <5>3 DEF k, m
      <4>6. QED
        BY <3>3, <3>4, <4>4, <4>5
    <3>7. QED
      BY <3>5, <3>6
  <2>5. QED
    BY <2>3, <2>4
<1>13. ExactInv'
  <2>1. SUFFICES ASSUME Exact
                 PROVE  /\ wire' = SubSeq(data, 1, curr_loc')
                        /\ sender = "file" => pos' = curr_loc' /\ ~failed'
    BY <1>4 DEF Exact, ExactInv
  <2>2. open /\ (sender = "array" \/ whole)
    BY <2>1 DEF Exact
  <2>3. Len(data) \in Nat /\ data \in Seq(Nat)
    BY DataType
  <2>4. curr_loc + b <= Len(data)
    BY <2>2, ChunkSize DEF LengthInv, b
  <2>5. curr_loc + n <= Len(data)
    BY <1>2, <2>3, <2>4
  <2>6. CASE sender = "array"
    <3>1. Piece(n) = SubSeq(data, curr_loc + 1, curr_loc + n)
      BY <1>1, <2>6, ArrayPiece DEF b
    <3>2. wire' = SubSeq(data, 1, curr_loc + n)
      <4>1. wire = SubSeq(data, 1, curr_loc)
        BY <2>1 DEF ExactInv
      <4>2. /\ 1 \in 1 .. Len(data) + 1 /\ curr_loc \in 1 - 1 .. Len(data)
            /\ curr_loc + n \in curr_loc .. Len(data)
        BY <1>2, <2>3, <2>5
      <4>3. SubSeq(data, 1, curr_loc)
              \o SubSeq(data, curr_loc + 1, curr_loc + n)
            = SubSeq(data, 1, curr_loc + n)
        BY <2>3, <4>2, ConcatAdjacentSubSeq
      <4>4. QED
        BY <1>1, <3>1, <4>1, <4>3
    <3>3. QED
      BY <1>1, <2>6, <3>2
  <2>7. CASE sender = "file"
    <3>1. n = b /\ pos = curr_loc /\ ~failed
      BY <1>1, <1>3, <2>1, <2>2, <2>7 DEF ExactInv
    <3>2. Avail = b
      BY <1>2, <2>4, <2>7, <3>1 DEF Avail, BytesRead, b
    <3>3. pos' = curr_loc' /\ ~failed'
      <4>1. pos' = pos + Avail /\ failed' = (Avail < b)
        BY <1>5, <2>7
      <4>2. pos' = curr_loc'
        BY <1>1, <3>1, <3>2, <4>1
      <4>3. ~(Avail < b)
        BY <1>2, <3>2
      <4>4. QED
        BY <4>1, <4>2, <4>3, Zenon
    <3>4. wire' = SubSeq(data, 1, curr_loc + n)
      <4> DEFINE t == SubSeq(data, 1, curr_loc + n)
      <4>1. t \in Seq(Nat) /\ Len(t) = L + n
            /\ \A i \in 1 .. L + n : t[i] = data[i]
        <5>1. /\ SubSeq(data, 0 + 1, 0 + (curr_loc + n)) \in Seq(Nat)
              /\ Len(SubSeq(data, 0 + 1, 0 + (curr_loc + n))) = curr_loc + n
              /\ \A i \in 1 .. curr_loc + n :
                   SubSeq(data, 0 + 1, 0 + (curr_loc + n))[i] = data[0 + i]
          <6>1. curr_loc + n \in Nat /\ 0 + (curr_loc + n) <= Len(data)
            BY <1>2, <2>5
          <6>2. QED
            BY <2>3, <6>1, Cut
        <5>2. 0 + 1 = 1 /\ 0 + (curr_loc + n) = curr_loc + n
          BY <1>2
        <5>3. \A i \in 1 .. curr_loc + n : 0 + i = i
          BY <1>2
        <5>4. QED
          BY <1>2, <5>1, <5>2, <5>3
      <4>2. \A i \in 1 .. L : wire[i] = data[i]
        <5>1. SubSeq(data, 0 + 1, 0 + curr_loc) = SubSeq(data, 1, curr_loc)
          BY <1>2
        <5>2. wire = SubSeq(data, 0 + 1, 0 + curr_loc)
          BY <2>1, <5>1 DEF ExactInv
        <5>3. 0 + curr_loc <= Len(data)
          BY <1>2, <2>3, <2>5
        <5>4. \A i \in 1 .. curr_loc :
                SubSeq(data, 0 + 1, 0 + curr_loc)[i] = data[0 + i]
          <6>1. curr_loc \in Nat /\ 0 \in Nat /\ data \in Seq(Nat)
            BY <1>2, <2>3
          <6>2. QED
            BY <5>3, <6>1, Cut
        <5>5. \A i \in 1 .. curr_loc : 0 + i = i
          BY <1>2
        <5>6. QED
          BY <1>2, <5>2, <5>4, <5>5
      <4> HIDE DEF t
      <4>3. \A i \in 1 .. L + n : wire'[i] = t[i]
        <5>1. TAKE i \in 1 .. L + n
        <5>2. CASE i \in 1 .. L
          BY <1>1, <4>1, <4>2, <5>2
        <5>3. CASE i \notin 1 .. L
          <6>1. i - L \in 1 .. n /\ L + (i - L) = i /\ i - L <= Avail
            BY <1>2, <3>2, <5>3
          <6>2. wire'[i] = data[Taken + (i - L)]
            BY <1>1, <1>6, <6>1
          <6>3. Taken = L
            BY <1>2, <2>7, <3>1 DEF Taken
          <6>4. QED
            BY <4>1, <6>1, <6>2, <6>3
        <5>4. QED
          BY <5>2, <5>3
      <4>4. wire' = t
        BY <1>1, <4>1, <4>3, SeqEqual
      <4>5. QED
        BY <4>4 DEF t
    <3>5. QED
      BY <1>1, <3>3, <3>4
  <2>8. QED
    BY <2>6, <2>7 DEF TypeOK
<1>14. QED
  BY <1>7, <1>8, <1>11, <1>12, <1>13

-----------------------------------------------------------------------------
(* The theorems.                                                           *)

\* IInv is inductive.
THEOREM IInvAlways == Spec => []IInv
<1>1. IInv /\ [Next]_vars => IInv'
  BY QuietStep, SendStep DEF Next
<1>2. QED
  BY <1>1, InitIInv, PTL DEF Spec

\* The types hold: in particular the ifstream's position stays in the file and
\* curr_loc is the number of bytes sent, for either sender.
THEOREM TypeCorrect == Spec => []TypeOK
<1>1. IInv => TypeOK
  BY DEF IInv
<1>2. QED
  BY <1>1, IInvAlways, PTL

\* The unsigned difference num_bytes_remaining never wraps for contents that
\* could be opened, so a transfer ends after exactly their length
\* (ChunkedDataSender.cpp:31-32 and 77-78).
THEOREM StopsExactly == Spec => []StopsAtLength
<1>1. IInv => StopsAtLength
  BY DEF IInv, TypeOK, BoundInv, StopsAtLength
<1>2. QED
  BY <1>1, IInvAlways, PTL

\* However a response is interrupted, neither sender repeats a byte or goes
\* back in the data (ChunkedDataSender.cpp:28-58 and 74-104).
THEOREM NoRepeats == Spec => []NeverBackwards
<1>1. IInv => NeverBackwards
  BY DEF IInv
<1>2. QED
  BY <1>1, IInvAlways, PTL

\* What the abstract sender sees of an inexact one never changes.
LEMMA InexactStutters ==
  ASSUME IInv, [Next]_vars, ~Exact
  PROVE  UNCHANGED Stream!bvars
<1>1. UNCHANGED given
  BY DEF Next, SendSome, WouldBlock, SendError, NothingLeft, Writable,
         FillChunk, vars
<1>2. Exact' = Exact /\ data' = data
  BY <1>1 DEF given, Exact
<1>3. QED
  BY <1>2 DEF Stream!bvars

\* A step of an exact sender delivers more of the data, finishes, or is not
\* seen by the client.
LEMMA ExactSteps ==
  ASSUME IInv, [Next]_vars, Exact
  PROVE  Stream!Next \/ UNCHANGED Stream!bvars
<1>1. UNCHANGED given
  BY DEF Next, SendSome, WouldBlock, SendError, NothingLeft, Writable,
         FillChunk, vars
<1>2. Exact' /\ data' = data
  BY <1>1 DEF given, Exact
<1>3. CASE SendSome
  <2>1. IInv'
    BY <1>3, SendStep
  <2>2. phase = "sending" /\ phase' = "sending"
    BY <1>3 DEF SendSome, FillChunk
  <2>3. /\ wire' = SubSeq(data, 1, curr_loc')
        /\ curr_loc' <= Len(data)
    BY <1>2, <2>1 DEF IInv, ExactInv, BoundInv, LengthInv, Exact
  <2>4. curr_loc' \in Len(wire) + 1 .. Len(data)
    <3>1. PICK n \in 1 .. bytes_in_chunk : curr_loc' = curr_loc + n
      BY <1>3, SendEffect DEF IInv
    <3>2. n \in Nat /\ n > 0 /\ curr_loc = Len(wire) /\ Len(wire) \in Nat
          /\ Len(data) \in Nat
      BY ChunkSize, ChunkAssumption, LenProperties, DataType DEF IInv, TypeOK
    <3>3. QED
      BY <2>3, <3>1, <3>2
  <2>5. Stream!Deliver
    BY <1>2, <2>2, <2>3, <2>4 DEF Stream!Deliver
  <2>6. QED
    BY <2>5 DEF Stream!Next
<1>4. CASE NothingLeft
  <2>1. /\ bytes_in_chunk = 0 /\ phase' = "done" /\ wire' = wire
    BY <1>4 DEF NothingLeft
  <2>2. curr_loc = Len(data)
    BY <2>1, ChunkSize DEF IInv, LengthInv, Exact
  <2>3. wire = data
    BY <2>2, DataType, SubSeqFull DEF IInv, ExactInv
  <2>4. Stream!Finish
    BY <1>2, <2>1, <2>3 DEF Stream!Finish
  <2>5. QED
    BY <2>4 DEF Stream!Next
<1>5. CASE WouldBlock \/ SendError \/ Writable \/ UNCHANGED vars
  <2>1. wire' = wire /\ (phase' = "done" <=> phase = "done")
    BY <1>5 DEF WouldBlock, SendError, Writable, FillChunk, vars
  <2>2. QED
    BY <1>2, <2>1 DEF Stream!bvars
<1>6. QED
  BY <1>3, <1>4, <1>5 DEF Next

\* An ArraySender on every socket, and a FileSender on a socket that takes its
\* chunks whole, put the data into the connection byte by byte in order and
\* end after the last (ChunkedDataSender.h:47-48).
THEOREM ExactImplements == Spec => StreamSpec
<1>1. Init => Stream!Init
  BY DEF Init, Stream!Init, Exact
<1>2. IInv /\ [Next]_vars => [Stream!Next]_(Stream!bvars)
  BY InexactStutters, ExactSteps
<1>3. QED
  BY <1>1, <1>2, IInvAlways, PTL DEF Spec, StreamSpec, Stream!Spec
=============================================================================
