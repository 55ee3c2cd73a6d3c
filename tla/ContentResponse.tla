--------------------------- MODULE ContentResponse ---------------------------
(***************************************************************************)
(* ToreroServe's contentResponse and the sendData it calls, byte by byte:  *)
(* the file is read into a buffer of BufferSize bytes, and each buffer is  *)
(* handed to send() until the bytes counted as sent are as many as it      *)
(* holds.  send() may take fewer bytes than it is given (a signal that     *)
(* interrupts a blocked send, for one).                                    *)
(***************************************************************************)
EXTENDS Integers, Sequences

CONSTANTS
  Files,        \* the files that may be served, as sequences of bytes
  BufferSize,   \* buffer_size, 4096 in the code
  WireBound     \* bound of the model: bytes sent after which no send is taken

ASSUME FilesAssumption == \A f \in Files : f \in Seq(Nat)
ASSUME BufferAssumption == BufferSize \in Nat \ {0}
ASSUME BoundAssumption == WireBound \in Nat

VARIABLES
  whole,        \* does the connection take all it is given in one send()?
  file,         \* the content of the open ifstream
  pos, eof,     \* its position and its eofbit
  file_data,    \* the first bytes_read bytes of the buffer
  total_sent,   \* sendData's count
  wire,         \* history: the bytes the connection has taken
  pc            \* "read", "send" or "done"

vars == <<whole, file, pos, eof, file_data, total_sent, wire, pc>>

Init ==
  /\ whole \in BOOLEAN
  /\ file \in Files
  /\ pos = 0 /\ eof = FALSE
  /\ file_data = <<>> /\ total_sent = 0
  /\ wire = <<>>
  /\ pc = "read"

\* file.read(file_data, buffer_size): up to n bytes from position p on
Bytes(p, n) == SubSeq(file, p + 1, IF p + n < Len(file) THEN p + n ELSE Len(file))

\* Changed forms of Read: the whole buffer is sent whatever was read, and an
\* empty read does not end the file.
ReadFull ==
  /\ pc = "read" /\ ~eof
  /\ file_data' = LET new == Bytes(pos, BufferSize)
                  IN  new \o SubSeq(file_data, Len(new) + 1, Len(file_data))
  /\ pos' = pos + Len(Bytes(pos, BufferSize))
  /\ eof' = (Len(Bytes(pos, BufferSize)) < BufferSize)
  /\ total_sent' = 0
  /\ pc' = "send"
  /\ UNCHANGED <<whole, file, wire>>

ReadOn ==
  /\ pc = "read" /\ ~eof
  /\ file_data' = Bytes(pos, BufferSize)
  /\ pos' = pos + Len(file_data')
  /\ eof' = (Len(file_data') \in 1 .. BufferSize - 1)
  /\ total_sent' = 0
  /\ pc' = "send"
  /\ UNCHANGED <<whole, file, wire>>

\* while (!file.eof()): read a buffer and call sendData
Read ==
  /\ pc = "read" /\ ~eof
  /\ file_data' = Bytes(pos, BufferSize)
  /\ pos' = pos + Len(file_data')
  /\ eof' = (Len(file_data') < BufferSize)
  /\ total_sent' = 0
  /\ pc' = "send"
  /\ UNCHANGED <<whole, file, wire>>

\* The end of contentResponse.
Finish ==
  /\ pc = "read" /\ eof
  /\ pc' = "done"
  /\ UNCHANGED <<whole, file, pos, eof, file_data, total_sent, wire>>

\* One send(socked_fd, data, data_length, 0): it always starts at data.
Send ==
  /\ pc = "send" /\ total_sent # Len(file_data)
  /\ Len(wire) < WireBound
  /\ \E n \in 1 .. Len(file_data) :
       /\ whole => n = Len(file_data)
       /\ wire' = wire \o SubSeq(file_data, 1, n)
       /\ total_sent' = total_sent + n
  /\ UNCHANGED <<whole, file, pos, eof, file_data, pc>>

\* Changed form of Sent: the loop compares with < instead of #.
SentAtLeast ==
  /\ pc = "send" /\ total_sent >= Len(file_data)
  /\ pc' = "read"
  /\ UNCHANGED <<whole, file, pos, eof, file_data, total_sent, wire>>

\* sendData returns.
Sent ==
  /\ pc = "send" /\ total_sent = Len(file_data)
  /\ pc' = "read"
  /\ UNCHANGED <<whole, file, pos, eof, file_data, total_sent, wire>>

Next == Read \/ Finish \/ Send \/ Sent

Spec == Init /\ [][Next]_vars

\* The client keeps reading, so that send() always returns in the end.
FairSpec == Spec /\ WF_vars(Next)

-----------------------------------------------------------------------------
TypeOK ==
  /\ whole \in BOOLEAN
  /\ file \in Files
  /\ pos \in 0 .. Len(file) /\ eof \in BOOLEAN
  /\ file_data \in Seq(Nat) /\ Len(file_data) <= BufferSize
  /\ total_sent \in Nat
  /\ wire \in Seq(Nat)
  /\ pc \in {"read", "send", "done"}

\* The buffer the i-th byte of the file is read into.
Block(i) == (i - 1) \div BufferSize

\* A send that takes only a part repeats bytes of its buffer and loses others
\* (line 109-116 starts again at data), and that is all it does: no byte is sent
\* before its place, and a response that ends has the file's length, with every
\* byte from the buffer its place belongs to.
DamageStaysInBuffer ==
  /\ pc = "done" => Len(wire) = Len(file)
  /\ \A i \in DOMAIN wire :
       \E j \in 1 .. i : /\ j <= Len(file) /\ wire[i] = file[j]
                        /\ pc = "done" => Block(j) = Block(i)

\* On a connection that takes whole buffers contentResponse comes to an end for
\* every file, the empty one and those whose length is a multiple of the buffer
\* included (lines 324-328).
Terminates == whole ~> (pc = "done")

Stream == INSTANCE ByteStream
            WITH data <- file,
                 wire <- IF whole THEN wire ELSE <<>>,
                 finished <- (whole /\ pc = "done")

\* There no byte is lost, repeated or reordered at the edges of the buffer.
StreamSpec == Stream!Spec
=============================================================================
