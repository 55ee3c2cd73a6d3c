------------------------- MODULE BoundedBufferProofs -------------------------
(***************************************************************************)
(* What the lab's queue without a lock guarantees for any number of        *)
(* consumers, items and calls: they never pass over more items than they   *)
(* were given twice, or junk for.                                          *)
(***************************************************************************)
EXTENDS BoundedBuffer, FiniteSetTheorems, SequenceTheorems, TLAPS

-----------------------------------------------------------------------------
(* The inductive invariant.                                                *)

Busy    == {c \in Consumers : pc[c] # "asleep"}
Popping == {c \in Consumers : pc[c] = "pop"}
Got     == Handed \ {Junk}

\* Every call of getItem is over or under way.
CallsInv == gets = Len(consumed) + Cardinality(Busy)

\* What the memory holds.
BlockInv ==
  /\ \A a \in 0 .. MaxItems + MaxGets :
       block[a] \in {a + 1, Junk} /\ (a < finish => block[a] = a + 1)
  /\ written => finish < MaxItems /\ block[finish] = finish + 1

\* No cursor a consumer uses or will store is beyond m, and if every consumer that
\* is about to load start moved it one further, the items passed and the items
\* handed out together would still be no more than the calls.
Room(m) == (1 .. m + Cardinality(Popping)) \cup Got

SkipInv ==
  \E m \in Nat :
    /\ start <= m
    /\ \A c \in Consumers : /\ pc[c] = "front" => at[c] <= m
                            /\ pc[c] = "move" => at[c] + 1 <= m
    /\ Cardinality(Room(m)) <= Calls

IInv == TypeOK /\ CallsInv /\ BlockInv /\ SkipInv

-----------------------------------------------------------------------------
(* Sets and their sizes.                                                   *)

\* What is counted is finite.
LEMMA Finite ==
  ASSUME TypeOK
  PROVE  /\ IsFiniteSet(Consumers)
         /\ IsFiniteSet(Busy) /\ Cardinality(Busy) \in Nat
         /\ IsFiniteSet(Popping) /\ Cardinality(Popping) \in Nat
         /\ IsFiniteSet(Held) /\ Cardinality(Held) \in Nat
         /\ Held \subseteq Busy /\ Cardinality(Held) <= Cardinality(Busy)
         /\ Len(consumed) \in Nat
<1>1. IsFiniteSet(Consumers)
  BY ThreadAssumption
<1>2. Held \subseteq Busy /\ Busy \subseteq Consumers /\ Popping \subseteq Consumers
  BY DEF Held, Busy, Popping
<1>3. IsFiniteSet(Busy) /\ IsFiniteSet(Popping)
  BY <1>1, <1>2, FS_Subset
<1>4. IsFiniteSet(Held) /\ Cardinality(Held) <= Cardinality(Busy)
  BY <1>2, <1>3, FS_Subset
<1>5. Len(consumed) \in Nat
  BY LenProperties DEF TypeOK
<1>6. QED
  BY <1>1, <1>2, <1>3, <1>4, <1>5, FS_CardinalityType

\* The items handed out are items.
LEMMA GotFinite ==
  ASSUME TypeOK
  PROVE  Got \subseteq 1 .. MaxItems /\ IsFiniteSet(Got)
<1>1. \A k \in DOMAIN consumed : consumed[k] \in 0 .. MaxItems
  BY ElementOfSeq, LenProperties DEF TypeOK
<1>2. \A c \in Held : item[c] \in 0 .. MaxItems
  BY DEF TypeOK, Held
<1>3. Got \subseteq 1 .. MaxItems
  BY <1>1, <1>2, BoundAssumption DEF Got, Handed, Junk
<1>4. IsFiniteSet(1 .. MaxItems)
  BY BoundAssumption, FS_Interval
<1>5. QED
  BY <1>3, <1>4, FS_Subset

\* The room is finite and has m elements at least.
LEMMA RoomSize ==
  ASSUME TypeOK, NEW m \in Nat
  PROVE  /\ IsFiniteSet(Room(m))
         /\ Cardinality(Room(m)) \in Nat
         /\ m <= Cardinality(Room(m))
<1> DEFINE n == Cardinality(Popping)
<1>1. n \in Nat
  BY Finite
<1>2. IsFiniteSet(1 .. m + n) /\ IsFiniteSet(1 .. m) /\ Cardinality(1 .. m) = m
  <2> HIDE DEF n
  <2>1. IsFiniteSet(1 .. m + n)
    BY <1>1, FS_Interval
  <2>2. IsFiniteSet(1 .. m)
    BY FS_Interval
  <2>3. Cardinality(1 .. m) = IF 1 > m THEN 0 ELSE m - 1 + 1
    BY FS_Interval
  <2>4. QED
    BY <2>1, <2>2, <2>3
<1>3. IsFiniteSet(Room(m))
  BY <1>2, GotFinite, FS_Union DEF Room
<1>4. 1 .. m \subseteq Room(m)
  BY <1>1 DEF Room
<1>5. QED
  BY <1>2, <1>3, <1>4, FS_Subset, FS_CardinalityType

\* The cursor a consumer is about to store is one that was paid for.
LEMMA Capacity ==
  ASSUME TypeOK, CallsInv, SkipInv, NEW c \in Consumers, pc[c] = "move"
  PROVE  at[c] + 1 <= gets
<1>1. PICK m \in Nat : at[c] + 1 <= m /\ Cardinality(Room(m)) <= Calls
  BY DEF SkipInv
<1>2. m <= Calls
  BY <1>1, RoomSize, Finite DEF Calls
<1>3. Calls <= gets
  BY Finite DEF CallsInv, Calls
<1>4. at[c] \in Nat /\ gets \in Nat
  BY BoundAssumption DEF TypeOK
<1>5. QED
  BY <1>1, <1>2, <1>3, <1>4, Finite DEF Calls

-----------------------------------------------------------------------------
(* What the steps do to these sets.                                        *)

LEMMA StepEffect ==
  ASSUME TypeOK, NEW c \in Consumers, NEW from, NEW to,
         Step(c, from, to)
  PROVE  /\ pc[c] = from /\ pc'[c] = to
         /\ \A d \in Consumers \ {c} : pc'[d] = pc[d]
         /\ pc' \in [Consumers -> {pc[d] : d \in Consumers} \cup {to}]
BY DEF Step, TypeOK

\* A step of the producer is not seen in them.
LEMMA ProduceEffect ==
  ASSUME UNCHANGED <<pc, item, consumed>>
  PROVE  /\ Busy' = Busy /\ Popping' = Popping /\ Held' = Held
         /\ Got' = Got /\ Calls' = Calls
<1>1. Busy' = Busy /\ Popping' = Popping /\ Held' = Held
  BY DEF Busy, Popping, Held
<1>2. Handed' = Handed
  BY <1>1 DEF Handed
<1>3. QED
  BY <1>1, <1>2 DEF Got, Calls

LEMMA LoadFrontEffect ==
  ASSUME TypeOK, NEW c \in Consumers, LoadFront(c)
  PROVE  /\ c \notin Busy /\ Busy' = Busy \cup {c}
         /\ Popping' = Popping /\ Got' = Got /\ Calls' = Calls
<1>1. /\ pc[c] = "asleep" /\ pc'[c] = "front"
      /\ \A d \in Consumers \ {c} : pc'[d] = pc[d]
      /\ UNCHANGED <<item, consumed>>
  BY StepEffect DEF LoadFront
<1>2. c \notin Busy /\ Busy' = Busy \cup {c}
  BY <1>1 DEF Busy
<1>3. Popping' = Popping /\ Held' = Held
  BY <1>1 DEF Popping, Held
<1>4. Handed' = Handed
  BY <1>1, <1>3 DEF Handed
<1>5. QED
  BY <1>1, <1>2, <1>3, <1>4 DEF Got, Calls

LEMMA ReadFrontEffect ==
  ASSUME TypeOK, NEW c \in Consumers, ReadFront(c)
  PROVE  /\ c \notin Popping /\ Popping' = Popping \cup {c}
         /\ Busy' = Busy
         /\ Got' \subseteq Got \cup ({block[at[c]]} \ {Junk})
         /\ Calls' = Calls + 1
<1>1. /\ pc[c] = "front" /\ pc'[c] = "pop"
      /\ \A d \in Consumers \ {c} : pc'[d] = pc[d]
      /\ UNCHANGED consumed
  BY StepEffect DEF ReadFront
<1>2. c \notin Popping /\ Popping' = Popping \cup {c} /\ Busy' = Busy
  BY <1>1 DEF Popping, Busy
<1>3. c \notin Held /\ Held' = Held \cup {c}
  BY <1>1 DEF Held
<1>4. /\ item'[c] = block[at[c]]
      /\ \A d \in Consumers \ {c} : item'[d] = item[d]
  BY DEF ReadFront, TypeOK
<1>5. \A d \in Held' : item'[d] \in {item[e] : e \in Held} \cup {block[at[c]]}
  BY <1>3, <1>4 DEF Held, TypeOK
<1>6. Handed' \subseteq Handed \cup {block[at[c]]}
  BY <1>1, <1>5 DEF Handed
<1>7. Calls' = Calls + 1
  <2>1. Cardinality(Held') = Cardinality(Held) + 1
    BY <1>3, Finite, FS_AddElement
  <2>2. QED
    BY <1>1, <2>1, Finite DEF Calls
<1>8. QED
  BY <1>2, <1>6, <1>7 DEF Got

LEMMA LoadStartEffect ==
  ASSUME TypeOK, NEW c \in Consumers, LoadStart(c)
  PROVE  /\ c \in Popping /\ Popping' = Popping \ {c}
         /\ Busy' = Busy /\ Got' = Got /\ Calls' = Calls
<1>1. /\ pc[c] = "pop" /\ pc'[c] = "move"
      /\ \A d \in Consumers \ {c} : pc'[d] = pc[d]
      /\ UNCHANGED <<item, consumed>>
  BY StepEffect DEF LoadStart
<1>2. c \in Popping /\ Popping' = Popping \ {c} /\ Busy' = Busy /\ Held' = Held
  BY <1>1 DEF Popping, Busy, Held
<1>3. Handed' = Handed
  BY <1>1, <1>2 DEF Handed
<1>4. QED
  BY <1>1, <1>2, <1>3 DEF Got, Calls

LEMMA MoveStartEffect ==
  ASSUME TypeOK, NEW c \in Consumers, MoveStart(c)
  PROVE  /\ Popping' = Popping /\ Busy' = Busy /\ Got' = Got /\ Calls' = Calls
<1>1. /\ pc[c] = "move" /\ pc'[c] = "print"
      /\ \A d \in Consumers \ {c} : pc'[d] = pc[d]
      /\ UNCHANGED <<item, consumed>>
  BY StepEffect DEF MoveStart, MoveTo
<1>2. Popping' = Popping /\ Busy' = Busy /\ Held' = Held
  BY <1>1 DEF Popping, Busy, Held
<1>3. Handed' = Handed
  BY <1>1, <1>2 DEF Handed
<1>4. QED
  BY <1>1, <1>2, <1>3 DEF Got, Calls

LEMMA PrintEffect ==
  ASSUME TypeOK, NEW c \in Consumers, PrintItem(c)
  PROVE  /\ consumed' \in Seq(0 .. MaxItems)
         /\ Len(consumed') = Len(consumed) + 1
         /\ \A k \in 1 .. Len(consumed) : consumed'[k] = consumed[k]
         /\ consumed'[Len(consumed) + 1] = item[c]
         /\ c \in Busy /\ Busy' = Busy \ {c}
         /\ Popping' = Popping /\ Got' = Got /\ Calls' = Calls
<1>1. /\ pc[c] = "print" /\ pc'[c] = "asleep"
      /\ \A d \in Consumers \ {c} : pc'[d] = pc[d]
      /\ item' = item /\ consumed' = Append(consumed, item[c])
  BY StepEffect DEF PrintItem
<1>2. consumed \in Seq(0 .. MaxItems) /\ item[c] \in 0 .. MaxItems
  BY DEF TypeOK
<1>3. /\ consumed' \in Seq(0 .. MaxItems)
      /\ Len(consumed') = Len(consumed) + 1
      /\ \A k \in 1 .. Len(consumed) : consumed'[k] = consumed[k]
      /\ consumed'[Len(consumed) + 1] = item[c]
  BY <1>1, <1>2, AppendProperties
<1>4. c \in Busy /\ Busy' = Busy \ {c} /\ Popping' = Popping
  BY <1>1 DEF Busy, Popping
<1>5. c \in Held /\ Held' = Held \ {c}
  BY <1>1 DEF Held
<1>6. Handed' = Handed
  <2>1. /\ DOMAIN consumed = 1 .. Len(consumed)
        /\ DOMAIN consumed' = 1 .. Len(consumed) + 1
        /\ Len(consumed) \in Nat
    BY <1>2, <1>3, LenProperties
  <2>2. {consumed'[k] : k \in DOMAIN consumed'}
          = {consumed[k] : k \in DOMAIN consumed} \cup {item[c]}
    <3>1. ASSUME NEW x PROVE x \in {consumed'[k] : k \in DOMAIN consumed'}
            <=> x \in {consumed[k] : k \in DOMAIN consumed} \cup {item[c]}
      BY <1>3, <2>1
    <3>2. QED
      BY <3>1
  <2>3. {item[d] : d \in Held} = {item[d] : d \in Held \ {c}} \cup {item[c]}
    BY <1>5
  <2>4. QED
    BY <1>1, <1>5, <2>2, <2>3 DEF Handed
<1>7. Calls' = Calls
  <2>1. Cardinality(Held') = Cardinality(Held) - 1
    BY <1>5, Finite, FS_RemoveElement
  <2>2. QED
    BY <1>3, <2>1, Finite DEF Calls
<1>8. QED
  BY <1>3, <1>4, <1>6, <1>7 DEF Got

-----------------------------------------------------------------------------
(* Each conjunct of the invariant is preserved.                            *)

LEMMA InitIInv == Init => IInv
<1> SUFFICES ASSUME Init PROVE IInv
  OBVIOUS
<1>1. TypeOK
  <2>1. block \in [0 .. MaxItems + MaxGets -> 0 .. MaxItems]
    BY BoundAssumption DEF Init, Junk
  <2>2. at \in [Consumers -> 0 .. gets] /\ item \in [Consumers -> 0 .. MaxItems]
    BY BoundAssumption DEF Init, Junk
  <2>3. consumed \in Seq(0 .. MaxItems)
    BY EmptySeq DEF Init
  <2>4. pc \in [Consumers -> {"asleep", "front", "pop", "move", "print"}]
    BY DEF Init
  <2>5. written \in BOOLEAN
    BY DEF Init
  <2>6. start \in 0 .. gets /\ finish \in 0 .. MaxItems /\ gets \in 0 .. MaxGets
    BY BoundAssumption DEF Init
  <2>7. QED
    BY <2>1, <2>2, <2>3, <2>4, <2>5, <2>6 DEF TypeOK
<1>2. Busy = {} /\ Popping = {} /\ Held = {}
  BY DEF Init, Busy, Popping, Held
<1>3. Len(consumed) = 0 /\ DOMAIN consumed = {}
  BY DEF Init
<1>4. CallsInv
  BY <1>2, <1>3, FS_EmptySet DEF Init, CallsInv
<1>5. BlockInv
  BY BoundAssumption DEF Init, BlockInv, Junk
<1>6. SkipInv
  <2>1. Got = {} /\ Calls = 0
    BY <1>2, <1>3, FS_EmptySet DEF Got, Handed, Calls
  <2>2. Room(0) = {}
    BY <1>2, <2>1, FS_EmptySet DEF Room
  <2>3. start = 0 /\ Cardinality(Room(0)) = 0 /\ \A c \in Consumers : pc[c] = "asleep"
    BY <2>2, FS_EmptySet DEF Init
  <2>4. QED
    BY <2>1, <2>3 DEF SkipInv
<1>7. QED
  BY <1>1, <1>4, <1>5, <1>6 DEF IInv

LEMMA TypeStep ==
  ASSUME IInv, Next
  PROVE  TypeOK'
<1> USE BoundAssumption
<1>1. CASE StoreItem
  <2>1. block' \in [0 .. MaxItems + MaxGets -> 0 .. MaxItems]
    BY <1>1 DEF StoreItem, IInv, TypeOK
  <2>2. QED
    BY <1>1, <2>1 DEF StoreItem, IInv, TypeOK
<1>2. CASE MoveFinish
  <2>1. finish < MaxItems
    BY <1>2 DEF MoveFinish, IInv, BlockInv
  <2>2. finish' \in 0 .. MaxItems
    BY <1>2, <2>1 DEF MoveFinish, IInv, TypeOK
  <2>3. written' \in BOOLEAN
    BY <1>2 DEF MoveFinish
  <2>4. QED
    BY <1>2, <2>2, <2>3 DEF MoveFinish, IInv, TypeOK
<1>3. ASSUME NEW c \in Consumers, LoadFront(c) PROVE TypeOK'
  <2>1. gets \in Nat /\ gets' = gets + 1 /\ gets' \in 0 .. MaxGets
    BY <1>3 DEF LoadFront, IInv, TypeOK
  <2>2. at' \in [Consumers -> 0 .. gets'] /\ start' \in 0 .. gets'
    BY <1>3, <2>1 DEF LoadFront, IInv, TypeOK
  <2>3. pc' \in [Consumers -> {"asleep", "front", "pop", "move", "print"}]
    BY <1>3 DEF LoadFront, Step, IInv, TypeOK
  <2>4. QED
    BY <1>3, <2>1, <2>2, <2>3 DEF LoadFront, IInv, TypeOK
<1>4. ASSUME NEW c \in Consumers, ReadFront(c) PROVE TypeOK'
  <2>1. at[c] \in 0 .. MaxItems + MaxGets
    BY DEF IInv, TypeOK
  <2>2. item' \in [Consumers -> 0 .. MaxItems]
    BY <1>4, <2>1 DEF ReadFront, IInv, TypeOK
  <2>3. pc' \in [Consumers -> {"asleep", "front", "pop", "move", "print"}]
    BY <1>4 DEF ReadFront, Step, IInv, TypeOK
  <2>4. QED
    BY <1>4, <2>2, <2>3 DEF ReadFront, IInv, TypeOK
<1>5. ASSUME NEW c \in Consumers, LoadStart(c) PROVE TypeOK'
  <2>1. at' \in [Consumers -> 0 .. gets]
    BY <1>5 DEF LoadStart, IInv, TypeOK
  <2>2. pc' \in [Consumers -> {"asleep", "front", "pop", "move", "print"}]
    BY <1>5 DEF LoadStart, Step, IInv, TypeOK
  <2>3. QED
    BY <1>5, <2>1, <2>2 DEF LoadStart, IInv, TypeOK
<1>6. ASSUME NEW c \in Consumers, MoveStart(c) PROVE TypeOK'
  <2>1. pc[c] = "move"
    BY <1>6, StepEffect DEF MoveStart, MoveTo, IInv
  <2>2. start' \in 0 .. gets
    <3>1. at[c] + 1 <= gets
      BY <2>1, Capacity DEF IInv
    <3>2. QED
      BY <1>6, <3>1 DEF MoveStart, MoveTo, IInv, TypeOK
  <2>3. pc' \in [Consumers -> {"asleep", "front", "pop", "move", "print"}]
    BY <1>6 DEF MoveStart, MoveTo, Step, IInv, TypeOK
  <2>4. QED
    BY <1>6, <2>2, <2>3 DEF MoveStart, MoveTo, IInv, TypeOK
<1>7. ASSUME NEW c \in Consumers, PrintItem(c) PROVE TypeOK'
  <2>1. consumed' \in Seq(0 .. MaxItems)
    BY <1>7, PrintEffect DEF IInv
  <2>2. pc' \in [Consumers -> {"asleep", "front", "pop", "move", "print"}]
    BY <1>7 DEF PrintItem, Step, IInv, TypeOK
  <2>3. QED
    BY <1>7, <2>1, <2>2 DEF PrintItem, IInv, TypeOK
<1>8. QED
  BY <1>1, <1>2, <1>3, <1>4, <1>5, <1>6, <1>7 DEF Next, Produce, GetItem

LEMMA CallsStep ==
  ASSUME IInv, Next
  PROVE  CallsInv'
<1>0. TypeOK /\ gets = Len(consumed) + Cardinality(Busy)
      /\ Len(consumed) \in Nat /\ Cardinality(Busy) \in Nat /\ IsFiniteSet(Busy)
  BY Finite DEF IInv, CallsInv
<1>1. CASE Produce
  <2>1. UNCHANGED <<pc, item, consumed, gets>>
    BY <1>1 DEF Produce, StoreItem, MoveFinish
  <2>2. QED
    BY <1>0, <2>1, ProduceEffect DEF CallsInv
<1>2. ASSUME NEW c \in Consumers, LoadFront(c) PROVE CallsInv'
  <2>1. Cardinality(Busy') = Cardinality(Busy) + 1
    BY <1>0, <1>2, LoadFrontEffect, FS_AddElement
  <2>2. QED
    BY <1>0, <1>2, <2>1 DEF CallsInv, LoadFront
<1>3. ASSUME NEW c \in Consumers, ReadFront(c) PROVE CallsInv'
  BY <1>0, <1>3, ReadFrontEffect DEF CallsInv, ReadFront
<1>4. ASSUME NEW c \in Consumers, LoadStart(c) PROVE CallsInv'
  BY <1>0, <1>4, LoadStartEffect DEF CallsInv, LoadStart
<1>5. ASSUME NEW c \in Consumers, MoveStart(c) PROVE CallsInv'
  BY <1>0, <1>5, MoveStartEffect DEF CallsInv, MoveStart, MoveTo
<1>6. ASSUME NEW c \in Consumers, PrintItem(c) PROVE CallsInv'
  <2>1. Cardinality(Busy') = Cardinality(Busy) - 1
        /\ Len(consumed') = Len(consumed) + 1
    BY <1>0, <1>6, PrintEffect, FS_RemoveElement
  <2>2. QED
    BY <1>0, <1>6, <2>1 DEF CallsInv, PrintItem
<1>7. QED
  BY <1>1, <1>2, <1>3, <1>4, <1>5, <1>6 DEF Next, GetItem

LEMMA BlockStep ==
  ASSUME IInv, Next
  PROVE  BlockInv'
<1> USE BoundAssumption
<1>1. CASE StoreItem
  <2>1. /\ finish' = finish /\ finish \in Nat /\ finish < MaxItems
        /\ block' = [block EXCEPT ![finish] = finish + 1]
        /\ DOMAIN block = 0 .. MaxItems + MaxGets
    BY <1>1 DEF StoreItem, IInv, TypeOK
  <2>2. block'[finish] = finish + 1
    BY <2>1
  <2>3. \A a \in 0 .. MaxItems + MaxGets : a # finish => block'[a] = block[a]
    BY <2>1
  <2>4. QED
    BY <2>1, <2>2, <2>3 DEF IInv, BlockInv
<1>2. CASE MoveFinish
  BY <1>2 DEF MoveFinish, IInv, TypeOK, BlockInv
<1>3. CASE \E c \in Consumers : GetItem(c)
  <2>1. UNCHANGED <<block, finish, written>>
    BY <1>3 DEF GetItem, LoadFront, ReadFront, LoadStart, MoveStart, MoveTo, PrintItem
  <2>2. QED
    BY <2>1 DEF IInv, BlockInv
<1>4. QED
  BY <1>1, <1>2, <1>3 DEF Next, Produce

\* One more element than a set that holds all but one of them.
LEMMA OneMore ==
  ASSUME NEW S, NEW T, IsFiniteSet(S), NEW x, T \subseteq S \cup {x}
  PROVE  /\ IsFiniteSet(T)
         /\ Cardinality(S) \in Nat /\ Cardinality(T) \in Nat
         /\ Cardinality(T) <= Cardinality(S) + 1
<1>1. /\ IsFiniteSet(S \cup {x})
      /\ Cardinality(S \cup {x}) =
           IF x \in S THEN Cardinality(S) ELSE Cardinality(S) + 1
  BY FS_AddElement
<1>2. IsFiniteSet(T) /\ Cardinality(T) <= Cardinality(S \cup {x})
  BY <1>1, FS_Subset
<1>3. QED
  BY <1>1, <1>2, FS_CardinalityType

LEMMA SkipStep ==
  ASSUME IInv, Next
  PROVE  SkipInv'
<1> DEFINE n == Cardinality(Popping)
           Covers(m) == /\ start <= m
                        /\ \A c \in Consumers : /\ pc[c] = "front" => at[c] <= m
                                                /\ pc[c] = "move" => at[c] + 1 <= m
<1>1. PICK m \in Nat : Covers(m) /\ Cardinality(Room(m)) <= Calls
  BY DEF IInv, SkipInv
<1>2. TypeOK /\ IsFiniteSet(Popping) /\ n \in Nat
  BY Finite DEF IInv
<1>3. SUFFICES \E k \in Nat : Covers(k)' /\ Cardinality(Room(k)') <= Calls'
  BY DEF SkipInv
<1>4. CASE Produce
  <2>1. UNCHANGED <<pc, item, consumed, start, at>>
    BY <1>4 DEF Produce, StoreItem, MoveFinish
  <2>2. Room(m)' = Room(m) /\ Calls' = Calls
    BY <2>1, ProduceEffect DEF Room
  <2>3. Covers(m)'
    BY <1>1, <2>1
  <2>4. QED
    BY <1>1, <2>2, <2>3
<1>5. ASSUME NEW c \in Consumers, LoadFront(c)
      PROVE  \E k \in Nat : Covers(k)' /\ Cardinality(Room(k)') <= Calls'
  <2>1. Room(m)' = Room(m) /\ Calls' = Calls
    BY <1>2, <1>5, LoadFrontEffect DEF Room
  <2>2. Covers(m)'
    <3>1. /\ pc'[c] = "front" /\ \A d \in Consumers \ {c} : pc'[d] = pc[d]
          /\ at'[c] = start /\ \A d \in Consumers \ {c} : at'[d] = at[d]
          /\ start' = start
      BY <1>2, <1>5, StepEffect DEF LoadFront, TypeOK
    <3>2. QED
      BY <1>1, <3>1
  <2>3. QED
    BY <1>1, <2>1, <2>2
<1>6. ASSUME NEW c \in Consumers, ReadFront(c)
      PROVE  \E k \in Nat : Covers(k)' /\ Cardinality(Room(k)') <= Calls'
  <2>1. /\ pc[c] = "front" /\ pc'[c] = "pop"
        /\ \A d \in Consumers \ {c} : pc'[d] = pc[d]
        /\ start' = start /\ at' = at
    BY <1>2, <1>6, StepEffect DEF ReadFront
  <2>2. Covers(m)'
    BY <1>1, <2>1
  <2>3. Cardinality(Popping') = n + 1
    BY <1>2, <1>6, ReadFrontEffect, FS_AddElement
  <2>4. Room(m)' = (1 .. m + n + 1) \cup Got'
    BY <1>1, <1>2, <2>3 DEF Room
  <2>5. block[at[c]] \in {at[c] + 1, Junk} /\ at[c] \in Nat /\ at[c] + 1 <= m + n + 1
    <3>1. at[c] \in 0 .. MaxItems + MaxGets /\ at[c] \in Nat
      BY <1>2, BoundAssumption DEF TypeOK
    <3>2. at[c] <= m
      BY <1>1, <1>6, <2>1
    <3>3. QED
      BY <1>2, <3>1, <3>2 DEF IInv, BlockInv
  <2>6. Got' \subseteq Got \cup {at[c] + 1}
    BY <1>2, <1>6, <2>5, ReadFrontEffect
  <2>7. Room(m)' \subseteq Room(m) \cup {m + n + 1}
    <3>1. at[c] + 1 \in 1 .. m + n + 1
      BY <1>2, <2>5
    <3>2. 1 .. m + n + 1 = (1 .. m + n) \cup {m + n + 1}
      BY <1>2
    <3>3. QED
      BY <2>4, <2>6, <3>1, <3>2 DEF Room
  <2>8. Cardinality(Room(m)') <= Cardinality(Room(m)) + 1
        /\ Cardinality(Room(m)) \in Nat /\ Cardinality(Room(m)') \in Nat
    BY <1>2, <2>7, RoomSize, OneMore
  <2>9. Calls' = Calls + 1 /\ Calls \in Nat
    BY <1>2, <1>6, ReadFrontEffect, Finite DEF Calls
  <2>10. Cardinality(Room(m)') <= Calls'
    BY <1>1, <2>8, <2>9
  <2>11. QED
    BY <2>2, <2>10
<1>7. ASSUME NEW c \in Consumers, LoadStart(c)
      PROVE  \E k \in Nat : Covers(k)' /\ Cardinality(Room(k)') <= Calls'
  <2>1. /\ pc'[c] = "move" /\ \A d \in Consumers \ {c} : pc'[d] = pc[d]
        /\ at'[c] = start /\ \A d \in Consumers \ {c} : at'[d] = at[d]
        /\ start' = start
        /\ start \in Nat /\ \A d \in Consumers : at[d] \in Nat
    BY <1>2, <1>7, StepEffect, BoundAssumption DEF LoadStart, TypeOK
  <2>2. Covers(m + 1)'
    BY <1>1, <2>1
  <2>3. Cardinality(Popping') = n - 1
    BY <1>2, <1>7, LoadStartEffect, FS_RemoveElement
  <2>4. Room(m + 1)' = Room(m) /\ Calls' = Calls
    <3>1. (m + 1) + (n - 1) = m + n
      BY <1>2
    <3>2. QED
      BY <1>2, <1>7, <2>3, <3>1, LoadStartEffect DEF Room
  <2>5. m + 1 \in Nat
    OBVIOUS
  <2>6. QED
    BY <1>1, <2>2, <2>4, <2>5
<1>8. ASSUME NEW c \in Consumers, MoveStart(c)
      PROVE  \E k \in Nat : Covers(k)' /\ Cardinality(Room(k)') <= Calls'
  <2>1. Room(m)' = Room(m) /\ Calls' = Calls
    BY <1>2, <1>8, MoveStartEffect DEF Room
  <2>2. /\ pc[c] = "move" /\ pc'[c] = "print"
        /\ \A d \in Consumers \ {c} : pc'[d] = pc[d]
        /\ at' = at /\ start' = at[c] + 1
    BY <1>2, <1>8, StepEffect DEF MoveStart, MoveTo
  <2>3. Covers(m)'
    BY <1>1, <2>2
  <2>4. QED
    BY <1>1, <2>1, <2>3
<1>9. ASSUME NEW c \in Consumers, PrintItem(c)
      PROVE  \E k \in Nat : Covers(k)' /\ Cardinality(Room(k)') <= Calls'
  <2>1. Room(m)' = Room(m) /\ Calls' = Calls
    BY <1>2, <1>9, PrintEffect DEF Room
  <2>2. /\ pc'[c] = "asleep"
        /\ \A d \in Consumers \ {c} : pc'[d] = pc[d]
        /\ at' = at /\ start' = start
    BY <1>2, <1>9, StepEffect DEF PrintItem
  <2>3. Covers(m)'
    BY <1>1, <2>2
  <2>4. QED
    BY <1>1, <2>1, <2>3
<1>10. QED
  BY <1>4, <1>5, <1>6, <1>7, <1>8, <1>9 DEF Next, GetItem

LEMMA StutterStep ==
  ASSUME IInv, UNCHANGED vars
  PROVE  IInv'
<1>1. UNCHANGED <<block, start, finish, written, pc, at, item, consumed,
                  gets>>
  BY DEF vars
<1>2. TypeOK' /\ BlockInv'
  BY <1>1 DEF IInv, TypeOK, BlockInv
<1>3. /\ Busy' = Busy /\ Popping' = Popping /\ Got' = Got /\ Calls' = Calls
  BY <1>1, ProduceEffect
<1>4. CallsInv'
  BY <1>1, <1>3 DEF IInv, CallsInv
<1>5. SkipInv'
  BY <1>1, <1>3 DEF IInv, SkipInv, Room
<1>6. QED
  BY <1>2, <1>4, <1>5 DEF IInv

LEMMA IInvAlways == Spec => []IInv
<1>1. IInv /\ [Next]_vars => IInv'
  BY TypeStep, CallsStep, BlockStep, SkipStep, StutterStep DEF IInv
<1>2. QED
  BY InitIInv, <1>1, PTL DEF Spec

-----------------------------------------------------------------------------
(* The theorems.                                                           *)

\* Types; start never gets ahead of the calls of getItem, however many consumers
\* load and store it at the same time (BoundedBuffer.cpp:26-28).
THEOREM TypeCorrect == Spec => []TypeOK
BY IInvAlways, PTL DEF IInv

\* Any number of consumers without a lock skip no more items than they took
\* twice, or junk for (BoundedBuffer.cpp:26-28).
THEOREM SkipsPaid == Spec => []SkipsArePaidFor
<1>1. IInv => SkipsArePaidFor
  <2>1. SUFFICES ASSUME IInv PROVE SkipsArePaidFor
    OBVIOUS
  <2>2. PICK m \in Nat : start <= m /\ Cardinality(Room(m)) <= Calls
    <3>1. SkipInv
      BY <2>1 DEF IInv
    <3>2. QED
      BY <3>1 DEF SkipInv
  <2> DEFINE Passed == (1 .. start) \ Handed
  <2>3. TypeOK /\ start \in Nat /\ Cardinality(Popping) \in Nat
    <3>1. TypeOK /\ Cardinality(Popping) \in Nat
      BY <2>1, Finite DEF IInv
    <3>2. start \in Nat
      BY <3>1, BoundAssumption DEF TypeOK
    <3>3. QED
      BY <3>1, <3>2
  <2>4. /\ IsFiniteSet(Passed) /\ IsFiniteSet(Got) /\ Passed \cap Got = {}
    <3>1. IsFiniteSet(1 .. start)
      BY <2>3, FS_Interval
    <3>2. QED
      BY <2>3, <3>1, FS_Subset, GotFinite DEF Got
  <2>5. Cardinality(Passed \cup Got) = Cardinality(Passed) + Cardinality(Got)
        /\ Cardinality(Passed) \in Nat /\ Cardinality(Got) \in Nat
    <3> HIDE DEF Passed
    <3>1. Cardinality(Passed) \in Nat /\ Cardinality(Got) \in Nat
      BY <2>4, FS_CardinalityType
    <3>2. Cardinality(Passed \cup Got) = Cardinality(Passed) + Cardinality(Got)
                                         - Cardinality(Passed \cap Got)
      BY <2>4, FS_Union
    <3>3. Cardinality(Passed \cap Got) = 0
      BY <2>4, FS_EmptySet
    <3>4. QED
      BY <3>1, <3>2, <3>3
  <2>6. Passed \cup Got \subseteq Room(m)
    BY <2>2, <2>3 DEF Room
  <2>7. Cardinality(Passed \cup Got) <= Cardinality(Room(m))
        /\ Cardinality(Room(m)) \in Nat
    BY <2>3, <2>6, RoomSize, FS_Subset
  <2>8. Calls \in Nat
    BY <2>3, Finite DEF Calls
  <2>9. Cardinality(Passed) <= Calls - Cardinality(Got)
    BY <2>2, <2>5, <2>7, <2>8
  <2>10. QED
    BY <2>9 DEF SkipsArePaidFor, Got
<1>2. QED
  BY <1>1, IInvAlways, PTL
=============================================================================
