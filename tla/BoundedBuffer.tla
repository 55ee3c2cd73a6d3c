---------------------------- MODULE BoundedBuffer ----------------------------
(***************************************************************************)
(* Lab 04: one producer and several consumers share a std::queue<int>      *)
(* without a lock, each after sleeping as long as it likes.  The queue is  *)
(* a block of memory with two cursors, and every load and store of them is *)
(* a step.  The block of a std::deque holds 128 ints; the model stays      *)
(* inside the first one, where a cursor that runs away reads memory nobody *)
(* has written.                                                            *)
(***************************************************************************)
EXTENDS Integers, Sequences, FiniteSets

CONSTANTS
  Consumers,   \* the threads that run consume (NUM_CONSUMERS = 5)
  MaxItems,    \* bound of the model: items produced
  MaxGets      \* bound of the model: calls of getItem

Junk == 0      \* what memory nobody has written holds; items count from 1

ASSUME ThreadAssumption == IsFiniteSet(Consumers)
ASSUME BoundAssumption == MaxItems \in Nat /\ MaxGets \in Nat

VARIABLES
  block,           \* the queue's memory
  start, finish,   \* its cursors: the front, and one past the back
  written,         \* push has stored its item and not moved finish yet
  pc, at, item,    \* of each consumer: where it is, the cursor and the item it has
  consumed,        \* history: the items printed, in order
  gets             \* getItem calls begun

vars == <<block, start, finish, written, pc, at, item, consumed, gets>>

Init ==
  /\ block = [a \in 0 .. MaxItems + MaxGets |-> Junk]
  /\ start = 0 /\ finish = 0 /\ written = FALSE
  /\ pc = [c \in Consumers |-> "asleep"]
  /\ at = [c \in Consumers |-> 0] /\ item = [c \in Consumers |-> Junk]
  /\ consumed = <<>> /\ gets = 0

(* putItem: push never looks at capacity.                                  *)

StoreItem ==
  /\ ~written /\ finish < MaxItems
  /\ block' = [block EXCEPT ![finish] = finish + 1]
  /\ written' = TRUE
  /\ UNCHANGED <<start, finish, pc, at, item, consumed, gets>>

MoveFinish ==
  /\ written
  /\ finish' = finish + 1
  /\ written' = FALSE
  /\ UNCHANGED <<block, start, pc, at, item, consumed, gets>>

(* getItem: front, then pop.                                               *)

Step(c, from, to) == pc[c] = from /\ pc' = [pc EXCEPT ![c] = to]

\* front() loads start and does not ask whether the queue is empty.
LoadFront(c) ==
  /\ Step(c, "asleep", "front")
  /\ gets < MaxGets /\ gets' = gets + 1
  /\ at' = [at EXCEPT ![c] = start]
  /\ UNCHANGED <<block, start, finish, written, item, consumed>>

ReadFront(c) ==
  /\ Step(c, "front", "pop")
  /\ item' = [item EXCEPT ![c] = block[at[c]]]
  /\ UNCHANGED <<block, start, finish, written, at, consumed, gets>>

\* pop() loads start again ...
LoadStart(c) ==
  /\ Step(c, "pop", "move")
  /\ at' = [at EXCEPT ![c] = start]
  /\ UNCHANGED <<block, start, finish, written, item, consumed, gets>>

MoveTo(c, cursor) ==
  /\ Step(c, "move", "print")
  /\ start' = cursor
  /\ UNCHANGED <<block, finish, written, at, item, consumed, gets>>

\* A changed form of MoveStart: it moves by two.
MoveTwo(c) == MoveTo(c, at[c] + 2)

\* ... and stores it, one further.
MoveStart(c) == MoveTo(c, at[c] + 1)

PrintItem(c) ==
  /\ Step(c, "print", "asleep")
  /\ consumed' = Append(consumed, item[c])
  /\ UNCHANGED <<block, start, finish, written, at, item, gets>>

Produce == StoreItem \/ MoveFinish
GetItem(c) == LoadFront(c) \/ ReadFront(c) \/ LoadStart(c) \/ MoveStart(c) \/ PrintItem(c)

Next == Produce \/ \E c \in Consumers : GetItem(c)

Spec == Init /\ [][Next]_vars

-----------------------------------------------------------------------------
(* Properties.                                                             *)

TypeOK ==
  /\ start \in 0 .. gets /\ finish \in 0 .. MaxItems /\ gets \in 0 .. MaxGets
  /\ block \in [0 .. MaxItems + MaxGets -> 0 .. MaxItems]
  /\ written \in BOOLEAN
  /\ pc \in [Consumers -> {"asleep", "front", "pop", "move", "print"}]
  /\ at \in [Consumers -> 0 .. gets] /\ item \in [Consumers -> 0 .. MaxItems]
  /\ consumed \in Seq(0 .. MaxItems)

\* The consumers that have an item, the items handed out, and the calls of front()
\* that have returned.
Held   == {c \in Consumers : pc[c] \in {"pop", "move", "print"}}
Handed == {consumed[k] : k \in DOMAIN consumed} \cup {item[c] : c \in Held}
Calls  == Len(consumed) + Cardinality(Held)

\* However many consumers interleave their loads and stores of start, an item is
\* skipped only when another has been handed out twice, or junk in its place:
\* the calls that gave nothing new are at least as many as the items passed over.
SkipsArePaidFor ==
  Cardinality((1 .. start) \ Handed) <= Calls - Cardinality(Handed \ {Junk})
=============================================================================
