------------------------------ MODULE Resolver -------------------------------
(***************************************************************************)
(* Project 3: the DNS resolver.  construct_query writes the host name into *)
(* the query with convertStringToDNS; resolve sends the query over UDP,    *)
(* once, and waits five seconds for the answer.  getStringFromDNS, which   *)
(* dns.h offers for reading the names of an answer, is run on them with    *)
(* every form of name a server writes: whole, compressed, compressed twice.*)
(* Both conversions are modelled byte by byte.                             *)
(***************************************************************************)
EXTENDS Integers, Sequences

CONSTANTS
  Hosts,      \* the names to resolve, as text
  Prefixed,   \* what the names of an answer put before a pointer
  Paddings,   \* bytes of other records between the question and those names
  Dot,        \* the character that separates labels
  HEADER,     \* sizeof(DNSHeader)
  MAX_QUERY_SIZE

\* Where labels begin in a text, and how many characters of a label are left at n.
Starts(text) == {n \in 1 .. Len(text) + 1 : n = 1 \/ text[n - 1] = Dot}
LabelEnd(text, n) ==
  CHOOSE m \in n .. Len(text) + 1 :
    /\ m = Len(text) + 1 \/ text[m] = Dot
    /\ \A k \in n .. m - 1 : text[k] # Dot
Left(text, n) == LabelEnd(text, n) - n

\* Names are what RFC 1035 allows: labels of 1 to 63 characters, no dot at the end.
IsName(text) == /\ text \in Seq(1 .. 255)
                /\ \A n \in Starts(text) : Left(text, n) \in 1 .. 63

\* A query has room for the name, and the 14 bits of a pointer for every address.
ASSUME HostAssumption ==
  /\ HEADER \in Nat /\ MAX_QUERY_SIZE \in Nat /\ Paddings \subseteq Nat
  /\ Dot \in 1 .. 255
  /\ \A text \in Hosts \cup {Prefixed} : IsName(text)
  /\ \A text \in Hosts : HEADER + Len(text) + 6 <= MAX_QUERY_SIZE
  /\ \A text \in Hosts, p \in Paddings : HEADER + Len(text) + 6 + p < 16384

VARIABLES
  host,                      \* the name to resolve
  pc,                        \* where the program is
  query, query_len,          \* the query's bytes, from address 0
  i, part_len,               \* of convertStringToDNS
  link,                      \* what is under way: "none", "query", "answer"
  response,                  \* the answer's bytes, from address 0
  name,                      \* the name of the answer to be read: see Names
  dns_name, part_remainder, str_name, return_len   \* of getStringFromDNS

sending  == <<query, query_len, i, part_len>>
decoding == <<dns_name, part_remainder, str_name, return_len>>
vars == <<host, pc, sending, link, response, name, decoding>>

-----------------------------------------------------------------------------
(* RFC 1035: what a name looks like in a message.  The fields of the      *)
(* header are left out: its bytes are 0 here.                              *)

\* Each label after its length: the dot in front of a label gives way to it.
Wire(text) ==
  [n \in 1 .. Len(text) + 1 |-> IF n \in Starts(text) THEN Left(text, n) ELSE text[n - 1]]
Pointer(address) == <<192 + address \div 256, address % 256>>

Memory(bytes) == [a \in 0 .. Len(bytes) - 1 |-> bytes[a + 1]]

\* A server's answer: the question, p bytes of other records, a name whose end,
\* from the label at k on, is in the question, and one that ends in that name.
Question(text) == [n \in 1 .. HEADER |-> 0] \o Wire(text) \o <<0, 0, 1, 0, 1>>
Address2(text, p) == HEADER + Len(text) + 6 + p
Name2(k) == Wire(Prefixed) \o Pointer(HEADER + k - 1)
Name3(text, p) == Wire(Prefixed) \o Pointer(Address2(text, p))
Answer(text, p, k) ==
  Question(text) \o [n \in 1 .. p |-> 1] \o Name2(k) \o Name3(text, p)

\* Its names: where each begins, how many bytes it takes there, what it means.
Name(start, bytes, text) == [start |-> start, bytes |-> bytes, text |-> text]
Names(text, p, k) ==
  LET text2 == Prefixed \o <<Dot>> \o SubSeq(text, k, Len(text))
      end   == Len(Prefixed) + 3
  IN {Name(HEADER, Len(text) + 2, text),
      Name(Address2(text, p), end, text2),
      Name(Address2(text, p) + end, end, Prefixed \o <<Dot>> \o text2)}

NoName == Name(0, 0, <<>>)

-----------------------------------------------------------------------------
Init ==
  /\ host \in Hosts
  /\ pc = "convert"
  /\ query = [a \in 0 .. MAX_QUERY_SIZE - 1 |-> 0]   \* memset
  /\ query_len = 0 /\ i = 0 /\ part_len = 0
  /\ link = "none" /\ response = <<>> /\ name = NoName
  /\ dns_name = 0 /\ part_remainder = 0 /\ str_name = <<>> /\ return_len = 0

(* convertStringToDNS, from its loop to the type and class that            *)
(* construct_query adds.                                                   *)

At(k) == HEADER + k

ConvertChar ==
  /\ pc = "convert" /\ i < Len(host)
  /\ host[i + 1] # Dot
  /\ query' = [query EXCEPT ![At(i + 1)] = host[i + 1]]
  /\ part_len' = part_len + 1
  /\ i' = i + 1
  /\ UNCHANGED <<host, pc, query_len, link, response, name, decoding>>

PartEnds(length_at) ==
  /\ pc = "convert" /\ i < Len(host)
  /\ host[i + 1] = Dot
  /\ query' = [query EXCEPT ![length_at] = part_len % 256]
  /\ part_len' = 0
  /\ i' = i + 1
  /\ UNCHANGED <<host, pc, query_len, link, response, name, decoding>>

\* A changed form of ConvertDot: the length is put where the part begins.
ConvertDotLate == PartEnds(At(i - part_len + 1))

ConvertDot == PartEnds(At(i - part_len))

ConstructQuery ==
  /\ pc = "convert" /\ i = Len(host)
  /\ LET end == At(Len(host) + 2)    \* name_len = strlen(str_name) + 2
     IN  /\ query' = [query EXCEPT ![At(Len(host) - part_len)] = part_len % 256,
                                   ![At(Len(host) + 1)] = 0,
                                   ![end] = 0, ![end + 1] = 1,        \* type A
                                   ![end + 2] = 0, ![end + 3] = 1]    \* INET
         /\ query_len' = end + 4
  /\ pc' = "send"
  /\ UNCHANGED <<host, i, part_len, link, response, name, decoding>>

-----------------------------------------------------------------------------
(* resolve.                                                                *)

Send ==
  /\ pc = "send"
  /\ pc' = "waiting"
  /\ link' = "query"
  /\ UNCHANGED <<host, sending, response, name, decoding>>

SendFails ==
  /\ pc = "send"
  /\ pc' = "exited"
  /\ UNCHANGED <<host, sending, link, response, name, decoding>>

Lose ==
  /\ link # "none" /\ link' = "none"
  /\ UNCHANGED <<host, pc, sending, response, name, decoding>>

ServerAnswers ==
  /\ link = "query" /\ link' = "answer"
  /\ \E p \in Paddings, k \in Starts(host) :
       /\ response' = Memory(Answer(host, p, k))
       /\ name' \in Names(host, p, k)
  /\ UNCHANGED <<host, pc, sending, decoding>>

\* The answer is left to be read by the program that is still to be written.
Receive ==
  /\ pc = "waiting" /\ link = "answer"
  /\ pc' = "read"
  /\ link' = "none"
  /\ dns_name' = name.start
  /\ UNCHANGED <<host, sending, response, name, part_remainder, str_name,
                 return_len>>

ReturnNull ==
  /\ pc = "waiting"
  /\ pc' = "returned"
  /\ UNCHANGED <<host, sending, link, response, name, decoding>>

\* A changed form of TimesOut: without SO_RCVTIMEO only a datagram ends recvfrom.
NeverTimesOut == link = "answer" /\ ReturnNull

\* Five seconds have passed: NULL, however late the answer comes.
TimesOut == ReturnNull

-----------------------------------------------------------------------------
(* getStringFromDNS.                                                       *)

Reading == pc = "read" /\ response[dns_name] # 0
AtLength == Reading /\ part_remainder = 0

Offset == (response[dns_name] % 64) * 256 + response[dns_name + 1]
AfterPointer == dns_name - name.start + 2

Follow(address, length) ==
  /\ AtLength /\ response[dns_name] >= 192
  /\ dns_name' = address
  /\ return_len' = length
  /\ UNCHANGED <<host, pc, sending, link, response, name, part_remainder, str_name>>

\* A changed form of FollowPointer: the second pointer is counted as well.
FollowCounting == Follow(Offset, AfterPointer)

FollowPointer ==
  Follow(Offset, IF return_len = 0 THEN AfterPointer ELSE return_len)

PartBegins ==
  /\ AtLength
  /\ part_remainder' = response[dns_name]
  /\ str_name' = IF str_name # <<>> THEN Append(str_name, Dot) ELSE str_name
  /\ dns_name' = dns_name + 1
  /\ UNCHANGED <<host, pc, sending, link, response, name, return_len>>

\* A changed form of ReadLength: a pointer's first byte is taken for a length.
ReadAnyLength == PartBegins

ReadLength == AtLength /\ response[dns_name] < 192 /\ PartBegins

ReadChar ==
  /\ Reading /\ part_remainder > 0
  /\ str_name' = Append(str_name, response[dns_name])
  /\ part_remainder' = part_remainder - 1
  /\ dns_name' = dns_name + 1
  /\ UNCHANGED <<host, pc, sending, link, response, name, return_len>>

ReadEnd ==
  /\ pc = "read" /\ response[dns_name] = 0
  /\ return_len' = IF return_len # 0 THEN return_len ELSE dns_name - name.start + 1
  /\ pc' = "returned"
  /\ UNCHANGED <<host, sending, link, response, name, dns_name, part_remainder,
                 str_name>>

Convert == ConvertChar \/ ConvertDot \/ ConstructQuery
Resolve == Send \/ SendFails \/ Receive \/ TimesOut
Read    == FollowPointer \/ ReadLength \/ ReadChar \/ ReadEnd

Next == Convert \/ Resolve \/ Read \/ ServerAnswers \/ Lose

Spec == Init /\ [][Next]_vars

\* The program runs and its timer fires; the server and the network owe nothing.
FairSpec == Spec /\ WF_vars(Convert) /\ WF_vars(Send \/ SendFails)
                 /\ WF_vars(TimesOut) /\ WF_vars(Read)

-----------------------------------------------------------------------------
(* Properties.                                                             *)

Bytes == 0 .. 255

\* Types, and where dns_name may point: inside the answer as long as a name is
\* being read, and at a compression pointer that leads back towards the beginning,
\* so that no name is read for ever (dns.h:87-107).
TypeOK ==
  /\ host \in Hosts
  /\ pc \in {"convert", "send", "waiting", "read", "returned", "exited"}
  /\ query \in [0 .. MAX_QUERY_SIZE - 1 -> Bytes]
  /\ query_len \in 0 .. MAX_QUERY_SIZE
  /\ i \in 0 .. Len(host) /\ part_len \in 0 .. 63
  /\ link \in {"none", "query", "answer"}
  /\ part_remainder \in 0 .. 63
  /\ str_name \in Seq(Bytes) /\ return_len \in Nat
  /\ pc = "read" =>
       /\ dns_name + part_remainder \in DOMAIN response
       /\ part_remainder = 0 /\ response[dns_name] >= 192 =>
            /\ dns_name + 1 \in DOMAIN response
            /\ Offset < dns_name

\* "(e.g. (3)www(8)sandiego(3)edu(0)" (dns.h:43-44): the query that is sent is
\* the question as RFC 1035 writes it, every length in the byte before its part
\* although it is known only after it, and its length is right.
QueryIsQuestion ==
  pc = "send" => [n \in 1 .. query_len |-> query[n - 1]] = Question(host)

\* Whatever mixture of host and pointers a name is made of, it is read as its
\* text, and "the number of bytes of dns_name read" (dns.h:80) is what the name
\* takes where it stands, not where the pointers lead.
NameRead ==
  pc = "returned" /\ str_name # <<>> => /\ str_name = name.text
                                        /\ return_len = name.bytes

\* One query, one wait of five seconds: resolve comes to its end although the
\* query, the answer or both may be lost or late (resolver.c:94-106 and 138-147).
ResolveEnds == <>(pc \in {"returned", "exited"})
=============================================================================
