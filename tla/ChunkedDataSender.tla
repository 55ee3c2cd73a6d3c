-------------------------- MODULE ChunkedDataSender --------------------------
(***************************************************************************)
(* The jukebox's two senders and the loops that call send_next_chunk on a  *)
(* non-blocking socket: send_message (an ArraySender), send_audio and      *)
(* get_info (a FileSender) until the socket is full, then                  *)
(* continue_response each time epoll reports the socket writable.          *)
(*                                                                         *)
(* An ArraySender copies each chunk from its array at curr_loc.  A         *)
(* FileSender reads it from an ifstream, whose position and failbit are    *)
(* part of the state: a read moves the position by the whole chunk,        *)
(* curr_loc only by what send() took.                                      *)
(***************************************************************************)
EXTENDS Integers, Sequences

CONSTANTS
  Contents,     \* the messages and files that may be sent, sequences of bytes
  CHUNK_SIZE,   \* the largest number of bytes given to one send()
  SizeMod,      \* size_t counts modulo this number (2^64 in the code)
  Junk,         \* a byte of the freshly allocated chunk that no read has filled
  WireBound     \* bound of the model: bytes sent after which no send is taken

ASSUME ContentsAssumption == /\ \A d \in Contents : d \in Seq(Nat \ {Junk})
                             /\ Junk \in Nat
ASSUME ChunkAssumption == CHUNK_SIZE \in Nat \ {0}
\* Whatever is sent is shorter than a size_t can count.
ASSUME SizeAssumption == /\ SizeMod \in Nat /\ WireBound \in Nat
                         /\ CHUNK_SIZE < SizeMod
                         /\ \A d \in Contents : Len(d) < SizeMod

VARIABLES
  sender,        \* "array" or "file"
  data,          \* the message, or what the path names
  whole,         \* does this socket take every chunk whole?
  open,          \* the ifstream could be opened
  length,        \* array_length or file_length
  pos, failed,   \* position and failbit of the ifstream
  curr_loc,      \* bytes taken by the socket so far
  wire,          \* history: those bytes
  phase          \* "sending", "full" (waiting for EPOLLOUT), "done", "exited"

given == <<sender, data, whole, open, length>>
vars  == <<given, pos, failed, curr_loc, wire, phase>>

\* The constructors.  A FileSender seeks to the end, asks for the position
\* and seeks back: tellg() of a file that cannot be opened is -1.
Init ==
  /\ sender \in {"array", "file"}
  /\ data \in Contents
  /\ whole \in BOOLEAN
  /\ open \in IF sender = "file" THEN BOOLEAN ELSE {TRUE}
  /\ length = IF open THEN Len(data) ELSE -1
  /\ failed = ~open
  /\ pos = 0 /\ curr_loc = 0 /\ wire = <<>>
  /\ phase = "sending"

-----------------------------------------------------------------------------
(* send_next_chunk.                                                        *)

\* A size_t: a negative difference of ints becomes a huge one.
num_bytes_remaining == (length - curr_loc) % SizeMod

\* A changed form of bytes_in_chunk: a file's last chunk is not cut.
WholeChunk ==
  IF num_bytes_remaining = 0 THEN 0
  ELSE IF sender = "file" \/ num_bytes_remaining > CHUNK_SIZE
         THEN CHUNK_SIZE
         ELSE num_bytes_remaining

bytes_in_chunk == IF num_bytes_remaining < CHUNK_SIZE THEN num_bytes_remaining
                                                      ELSE CHUNK_SIZE

\* (*indata).read(chunk, n): how many bytes it fills
BytesRead(n) ==
  IF failed THEN 0
  ELSE IF pos + n <= Len(data) THEN n ELSE Len(data) - pos

FileChunk(n) ==
  [i \in 1 .. n |-> IF i <= BytesRead(n) THEN data[pos + i] ELSE Junk]

\* A changed form of Chunk: memcpy from the start of the array.
ChunkFromStart(n) ==
  IF sender = "array" THEN SubSeq(data, 1, n) ELSE FileChunk(n)

Chunk(n) ==
  IF sender = "array" THEN SubSeq(data, curr_loc + 1, curr_loc + n)
                      ELSE FileChunk(n)

\* A changed form of FillChunk: the position does not move.
PeekChunk ==
  /\ phase = "sending" /\ bytes_in_chunk > 0
  /\ Len(wire) < WireBound
  /\ failed' = (sender = "file" /\ BytesRead(bytes_in_chunk) < bytes_in_chunk)
  /\ UNCHANGED <<given, pos>>

\* What every send is preceded by.
FillChunk ==
  /\ phase = "sending" /\ bytes_in_chunk > 0
  /\ Len(wire) < WireBound
  /\ IF sender = "file"
       THEN /\ pos' = pos + BytesRead(bytes_in_chunk)
            /\ failed' = (BytesRead(bytes_in_chunk) < bytes_in_chunk)
       ELSE UNCHANGED <<pos, failed>>
  /\ UNCHANGED given

\* A changed form of SendSome: curr_loc moves by the chunk, not by n.
SendCounted ==
  /\ FillChunk
  /\ \E n \in 1 .. bytes_in_chunk :
       /\ n = bytes_in_chunk \/ ~whole
       /\ wire' = wire \o SubSeq(Chunk(bytes_in_chunk), 1, n)
       /\ curr_loc' = curr_loc + bytes_in_chunk
  /\ UNCHANGED phase

\* send() takes n bytes of the chunk; the loop calls again.
SendSome ==
  /\ FillChunk
  /\ \E n \in 1 .. bytes_in_chunk :
       /\ n = bytes_in_chunk \/ ~whole
       /\ wire' = wire \o SubSeq(Chunk(bytes_in_chunk), 1, n)
       /\ curr_loc' = curr_loc + n
  /\ UNCHANGED phase

\* send() fails with EAGAIN: -1, and the client is left SENDING.
WouldBlock ==
  /\ ~whole
  /\ FillChunk
  /\ phase' = "full"
  /\ UNCHANGED <<curr_loc, wire>>

\* send() fails otherwise: exit(EXIT_FAILURE).
SendError ==
  /\ FillChunk
  /\ phase' = "exited"
  /\ UNCHANGED <<curr_loc, wire>>

\* Nothing left: 0, and the sender is deleted.
NothingLeft ==
  /\ phase = "sending" /\ bytes_in_chunk = 0
  /\ phase' = "done"
  /\ UNCHANGED <<given, pos, failed, curr_loc, wire>>

\* A changed form of Writable: only a response already begun is continued.
WritableBegun ==
  /\ phase = "full" /\ curr_loc > 0
  /\ phase' = "sending"
  /\ UNCHANGED <<given, pos, failed, curr_loc, wire>>

\* EPOLLOUT: continue_response calls send_next_chunk again.
Writable ==
  /\ phase = "full"
  /\ phase' = "sending"
  /\ UNCHANGED <<given, pos, failed, curr_loc, wire>>

Next == SendSome \/ WouldBlock \/ SendError \/ NothingLeft \/ Writable

Spec == Init /\ [][Next]_vars

\* The event loop is never stuck elsewhere and the client keeps reading: the
\* socket is writable again and again, and takes at least a byte again and
\* again.
FairSpec == /\ Spec
            /\ WF_vars(Writable) /\ SF_vars(SendSome) /\ WF_vars(NothingLeft)

-----------------------------------------------------------------------------
(* Properties.                                                             *)

TypeOK ==
  /\ sender \in {"array", "file"} /\ data \in Contents
  /\ whole \in BOOLEAN /\ open \in BOOLEAN
  /\ length \in -1 .. SizeMod - 1
  /\ pos \in 0 .. Len(data) /\ failed \in BOOLEAN
  /\ wire \in Seq(Nat) /\ curr_loc = Len(wire)
  /\ phase \in {"sending", "full", "done", "exited"}

\* However the chunks are cut, a transfer stops after exactly as many bytes as
\* there are: curr_loc cannot step over length, where the size_t difference
\* would wrap (ChunkedDataSender.cpp:31-32 and 77-78).
StopsAtLength ==
  open => /\ curr_loc <= length
          /\ phase = "done" => Len(wire) = length

\* No byte is sent twice or out of order by either sender, and once the
\* ifstream has failed nothing but junk follows.
NeverBackwards ==
  \A i, j \in 1 .. Len(wire) :
    i < j => \/ wire[j] = Junk
             \/ \E p, q \in 1 .. Len(data) :
                  p < q /\ data[p] = wire[i] /\ data[q] = wire[j]

\* A response whose sending is interrupted any number of times still ends.
ResponseEnds == open ~> (phase \in {"done", "exited"})

\* An ArraySender is exact on every socket, a FileSender on those that take
\* each chunk whole.
Exact == open /\ (sender = "array" \/ whole)

Stream == INSTANCE ByteStream
            WITH wire <- IF Exact THEN wire ELSE <<>>,
                 finished <- (Exact /\ phase = "done")

\* The exact senders put the bytes of data into the connection, each once and
\* in order, whatever send() takes and however often it would block, and end
\* after the last (ChunkedDataSender.h:47-48).
StreamSpec == Stream!Spec
=============================================================================
