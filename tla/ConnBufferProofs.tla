-------------------------- MODULE ConnBufferProofs --------------------------
(***************************************************************************)
(* What ConnBuffer guarantees for any number of threads, slots and         *)
(* connections, and in either build: its types, the conservation of count, *)
(* the near-FIFO hand-off, and that it implements ConnQueue.               *)
(***************************************************************************)
EXTENDS ConnBuffer, TLAPS

-----------------------------------------------------------------------------
(* Remainders.                                                             *)

\* Quotient and remainder of a natural number.
LEMMA ModDef ==
  ASSUME NEW n \in Nat, NEW B \in Nat \ {0}
  PROVE  /\ n % B \in 0 .. B - 1
         /\ n \div B \in Nat
         /\ n = B * (n \div B) + (n % B)
  BY SMT

\* They are unique.
LEMMA ModUnique ==
  ASSUME NEW n \in Nat, NEW B \in Nat \ {0},
         NEW q \in Nat, NEW r \in 0 .. B - 1, n = B * q + r
  PROVE  n % B = r
<1> DEFINE p == n \div B
           s == n % B
<1>1. p \in Nat /\ s \in 0 .. B - 1 /\ n = B * p + s
  BY ModDef
<1> HIDE DEF p, s
<1>2. B * (p - q) = r - s
  BY <1>1
<1>3. p - q < 1
  <2>1. SUFFICES ASSUME p - q >= 1 PROVE FALSE
    BY <1>1
  <2>2. B * (p - q) >= B
    BY <2>1, <1>1
  <2>3. QED
    BY <2>2, <1>2, <1>1
<1>4. q - p < 1
  <2>1. SUFFICES ASSUME q - p >= 1 PROVE FALSE
    BY <1>1
  <2>2. B * (q - p) >= B
    BY <2>1, <1>1
  <2>3. B * (q - p) = s - r
    BY <1>2, <1>1
  <2>4. QED
    BY <2>2, <2>3, <1>1
<1>5. p = q
  BY <1>3, <1>4, <1>1
<1>6. QED
  BY <1>5, <1>1 DEF s

\* A cursor that is incremented modulo B stays the remainder of its count.
LEMMA ModNext ==
  ASSUME NEW n \in Nat, NEW B \in Nat \ {0}
  PROVE  ((n % B) + 1) % B = (n + 1) % B
<1> DEFINE q == n \div B
           r == n % B
<1>1. q \in Nat /\ r \in 0 .. B - 1 /\ n = B * q + r
  BY ModDef
<1> HIDE DEF q, r
<1>2. CASE r + 1 < B
  <2>1. (n + 1) % B = r + 1
    <3>1. n + 1 = B * q + (r + 1)
      BY <1>1
    <3>2. QED
      BY <3>1, <1>1, <1>2, ModUnique
  <2>2. (r + 1) % B = r + 1
    <3>1. r + 1 = B * 0 + (r + 1)
      BY <1>1
    <3>2. QED
      BY <3>1, <1>1, <1>2, ModUnique
  <2>3. QED
    BY <2>1, <2>2 DEF r
<1>3. CASE r + 1 = B
  <2>1. (n + 1) % B = 0
    <3>1. n + 1 = B * (q + 1) + 0
      BY <1>1, <1>3
    <3>2. QED
      BY <3>1, <1>1, ModUnique
  <2>2. (r + 1) % B = 0
    <3>1. r + 1 = B * 1 + 0
      BY <1>1, <1>3
    <3>2. QED
      BY <3>1, <1>1, ModUnique
  <2>3. QED
    BY <2>1, <2>2 DEF r
<1>4. QED
  BY <1>1, <1>2, <1>3

\* A full turn comes back to the same slot.
LEMMA ModTurn ==
  ASSUME NEW n \in Nat, NEW B \in Nat \ {0}
  PROVE  (n + B) % B = n % B
<1> DEFINE q == n \div B
           r == n % B
<1>1. q \in Nat /\ r \in 0 .. B - 1 /\ n = B * q + r
  BY ModDef
<1> HIDE DEF q, r
<1>2. n + B = B * (q + 1) + r
  BY <1>1
<1>3. (n + B) % B = r
  BY <1>1, <1>2, ModUnique
<1>4. QED
  BY <1>3 DEF r

\* Less than a turn away is another slot.
LEMMA ModDistinct ==
  ASSUME NEW a \in Nat, NEW b \in Nat, NEW B \in Nat \ {0}, a < b, b < a + B
  PROVE  a % B # b % B
<1> DEFINE q == a \div B
           r == b \div B
<1>1. SUFFICES ASSUME a % B = b % B PROVE FALSE
  OBVIOUS
<1>2. q \in Nat /\ r \in Nat /\ a = B * q + (a % B) /\ b = B * r + (a % B)
  BY ModDef, <1>1
<1>3. a % B \in Int
  BY ModDef
<1> HIDE DEF q, r
<1>4. B * (r - q) = b - a
  BY <1>2, <1>3
<1>5. r - q >= 1
  <2>1. SUFFICES ASSUME r - q <= 0 PROVE FALSE
    BY <1>2
  <2>2. B * (r - q) <= 0
    BY <2>1, <1>2
  <2>3. QED
    BY <2>2, <1>4
<1>6. B * (r - q) >= B
  BY <1>5, <1>2
<1>7. QED
  BY <1>6, <1>4

-----------------------------------------------------------------------------
(* The inductive invariant.                                                *)

GetHeld(w)   == pc[w] \in {"test", "lock", "load", "store", "unlock", "fetch",
                           "release"}
CountHeld(w) == pc[w] \in {"load", "store", "unlock"}

\* Who is where inside the locks.
LockInv ==
  /\ \A w \in Workers : GetHeld(w) <=> get_mutex = w
  /\ \A w \in Workers : CountHeld(w) <=> count_mutex = w
  /\ mainPc \in {"load", "store", "unlock"} <=> count_mutex = Main

\* What a thread knows of count between reading it and updating it: a worker
\* that found it positive still can decrement it, because only the holder of
\* get_mutex does; the main thread that found room still has it, because no
\* other thread increments.
KnowInv ==
  /\ \A w \in Workers : pc[w] \in {"lock", "load", "store"} => count >= 1
  /\ \A w \in Workers : pc[w] = "store" => tmp[w] = count
  /\ mainPc = "store" => mainTmp = count
  /\ mainPc \in {"write", "lock", "load", "store"} => count <= BuffSize - 1

\* Sockets written to the array, and sockets head has moved past.
Written  == IF mainPc \in {"check", "spin", "write"} THEN sock - 1 ELSE sock
Advanced == IF mainPc = "accept" THEN sock ELSE sock - 1

\* Where the cursors are, and what the last turn of writes left in the slots.
RingInv ==
  /\ mainPc # "accept" => sock >= 1
  /\ head = Advanced % BuffSize
  /\ tail = Len(handed) % BuffSize
  /\ \A n \in 1 .. Written :
       n > Written - BuffSize => sock_buff[(n - 1) % BuffSize] = n

IInv == TypeOK /\ LockInv /\ KnowInv /\ CountConserved /\ RingInv
        /\ NearlyInOrder

\* An empty array with both mutexes free satisfies the inductive invariant.
THEOREM InitIInv == Init => IInv
<1> SUFFICES ASSUME Init PROVE IInv
  OBVIOUS
<1> USE SizeAssumption, ThreadAssumption DEF Init
<1>1. TypeOK
  BY DEF TypeOK, Slots, Owners, MainPcs, WorkerPcs
<1>2. LockInv
  BY DEF LockInv, GetHeld, CountHeld
<1>3. KnowInv /\ CountConserved
  BY DEF KnowInv, CountConserved, Posted, Claimed
<1>4. RingInv
  <2>1. 0 % BuffSize = 0
    BY SMT
  <2>2. QED
    BY <2>1 DEF RingInv, Written, Advanced
<1>5. NearlyInOrder
  BY DEF NearlyInOrder
<1>6. QED
  BY <1>1, <1>2, <1>3, <1>4, <1>5 DEF IInv

\* The decrement never wraps and never goes below zero.
LEMMA DecrementExact ==
  ASSUME NEW c \in 1 .. BuffSize
  PROVE  CRem(c - 1, BuffSize) = c - 1
<1>1. c - 1 \in 0 .. BuffSize - 1 /\ c - 1 = BuffSize * 0 + (c - 1)
  BY SizeAssumption
<1>2. (c - 1) % BuffSize = c - 1
  BY <1>1, ModUnique, SizeAssumption
<1>3. QED
  BY <1>1, <1>2, SizeAssumption DEF CRem

\* A cursor stays inside the array.
LEMMA CursorInside ==
  ASSUME NEW i \in Slots
  PROVE  (i + 1) % BuffSize \in Slots
<1>1. i + 1 \in Nat
  BY SizeAssumption DEF Slots
<1>2. QED
  BY <1>1, ModDef, SizeAssumption DEF Slots

\* No step takes a variable out of its type, count least of all.
LEMMA TypeStep == IInv /\ [Next]_vars => TypeOK'
<1> SUFFICES ASSUME IInv, [Next]_vars PROVE TypeOK'
  OBVIOUS
<1> USE SizeAssumption, ThreadAssumption DEF TypeOK, Slots, Owners, MainPcs,
        WorkerPcs, mainVars, workerVars
<1>0. TypeOK
  BY DEF IInv
<1>1. CASE Accept
  BY <1>0, <1>1 DEF Accept, MainGoto
<1>2. CASE CheckFull
  BY <1>0, <1>2 DEF CheckFull, MainGoto
<1>3. CASE SpinExit
  BY <1>0, <1>3 DEF SpinExit, MainGoto
<1>4. CASE WriteSlot
  BY <1>0, <1>4 DEF WriteSlot, MainGoto
<1>5. CASE MainLockCount
  BY <1>0, <1>5 DEF MainLockCount, MainGoto
<1>6. CASE MainLoadCount
  BY <1>0, <1>6 DEF MainLoadCount, MainGoto
<1>7. CASE MainStoreCount
  <2>1. mainTmp = count /\ count <= BuffSize - 1
    BY <1>7 DEF IInv, KnowInv, MainStoreCount, MainGoto
  <2>2. QED
    BY <1>0, <1>7, <2>1 DEF MainStoreCount, MainGoto
<1>8. CASE MainUnlockCount
  <2>1. (head + 1) % BuffSize \in 0 .. BuffSize - 1
    BY <1>0, CursorInside
  <2>2. QED
    BY <1>0, <1>8, <2>1 DEF MainUnlockCount, MainGoto
<1>9. ASSUME NEW w \in Workers, WorkerNext(w) PROVE TypeOK'
  <2>1. CASE LockGet(w)
    BY <1>0, <2>1 DEF LockGet, Goto
  <2>2. CASE TestEmpty(w)
    BY <1>0, <2>2 DEF TestEmpty, Goto
  <2>3. CASE LockCount(w)
    BY <1>0, <2>3 DEF LockCount, Goto
  <2>4. CASE LoadCount(w)
    BY <1>0, <2>4 DEF LoadCount, Goto
  <2>5. CASE StoreCount(w)
    <3>1. tmp[w] \in 1 .. BuffSize
      BY <1>0, <2>5 DEF IInv, KnowInv, StoreCount, Goto
    <3>2. count' = tmp[w] - 1
      BY <2>5, <3>1, DecrementExact DEF StoreCount
    <3>3. count' \in 0 .. BuffSize
      BY <3>1, <3>2
    <3>4. QED
      BY <1>0, <2>5, <3>3 DEF StoreCount, Goto
  <2>6. CASE UnlockCount(w)
    BY <1>0, <2>6 DEF UnlockCount, Goto
  <2>7. CASE FetchSlot(w)
    <3>1. (tail + 1) % BuffSize \in 0 .. BuffSize - 1
      BY <1>0, CursorInside
    <3>2. sock_buff[tail] \in 0 .. MaxConns
      BY <1>0
    <3>3. Append(handed, sock_buff[tail]) \in Seq(0 .. MaxConns)
      BY <1>0, <3>2
    <3>4. QED
      BY <1>0, <2>7, <3>1, <3>2, <3>3 DEF FetchSlot, Goto
  <2>8. CASE UnlockGet(w)
    BY <1>0, <2>8 DEF UnlockGet, Goto
  <2>9. CASE HandleReturns(w)
    BY <1>0, <2>9 DEF HandleReturns, Goto
  <2>10. QED
    BY <1>9, <2>1, <2>2, <2>3, <2>4, <2>5, <2>6, <2>7, <2>8, <2>9
       DEF WorkerNext
<1>10. CASE UNCHANGED vars
  BY <1>0, <1>10 DEF vars
<1>11. QED
  BY <1>1, <1>2, <1>3, <1>4, <1>5, <1>6, <1>7, <1>8, <1>9, <1>10
     DEF Next, MainNext, MainStep

\* Each lock is held by the thread that is inside it, and by no other.
LEMMA LockStep == IInv /\ [Next]_vars => LockInv'
<1> SUFFICES ASSUME IInv, [Next]_vars PROVE LockInv'
  OBVIOUS
<1> USE ThreadAssumption DEF LockInv, GetHeld, CountHeld, mainVars, workerVars
<1>0. LockInv /\ pc \in [Workers -> WorkerPcs]
  BY DEF IInv, TypeOK
<1>1. CASE Accept
  BY <1>0, <1>1 DEF Accept, MainGoto
<1>2. CASE CheckFull
  BY <1>0, <1>2 DEF CheckFull, MainGoto
<1>3. CASE SpinExit
  BY <1>0, <1>3 DEF SpinExit, MainGoto
<1>4. CASE WriteSlot
  BY <1>0, <1>4 DEF WriteSlot, MainGoto
<1>5. CASE MainLockCount
  BY <1>0, <1>5 DEF MainLockCount, MainGoto
<1>6. CASE MainLoadCount
  BY <1>0, <1>6 DEF MainLoadCount, MainGoto
<1>7. CASE MainStoreCount
  BY <1>0, <1>7 DEF MainStoreCount, MainGoto
<1>8. CASE MainUnlockCount
  BY <1>0, <1>8 DEF MainUnlockCount, MainGoto
<1>9. ASSUME NEW w \in Workers, WorkerNext(w) PROVE LockInv'
  <2>1. CASE LockGet(w)
    BY <1>0, <2>1 DEF LockGet, Goto
  <2>2. CASE TestEmpty(w)
    BY <1>0, <2>2 DEF TestEmpty, Goto
  <2>3. CASE LockCount(w)
    BY <1>0, <2>3 DEF LockCount, Goto
  <2>4. CASE LoadCount(w)
    BY <1>0, <2>4 DEF LoadCount, Goto
  <2>5. CASE StoreCount(w)
    BY <1>0, <2>5 DEF StoreCount, Goto
  <2>6. CASE UnlockCount(w)
    BY <1>0, <2>6 DEF UnlockCount, Goto
  <2>7. CASE FetchSlot(w)
    BY <1>0, <2>7 DEF FetchSlot, Goto
  <2>8. CASE UnlockGet(w)
    BY <1>0, <2>8 DEF UnlockGet, Goto
  <2>9. CASE HandleReturns(w)
    BY <1>0, <2>9 DEF HandleReturns, Goto
  <2>10. QED
    BY <1>9, <2>1, <2>2, <2>3, <2>4, <2>5, <2>6, <2>7, <2>8, <2>9
       DEF WorkerNext
<1>10. CASE UNCHANGED vars
  BY <1>0, <1>10 DEF vars
<1>11. QED
  BY <1>1, <1>2, <1>3, <1>4, <1>5, <1>6, <1>7, <1>8, <1>9, <1>10
     DEF Next, MainNext, MainStep

\* What a thread has read of count still holds when it acts on it.
LEMMA KnowStep == IInv /\ [Next]_vars => KnowInv'
<1> SUFFICES ASSUME IInv, [Next]_vars PROVE KnowInv'
  OBVIOUS
<1> USE SizeAssumption, ThreadAssumption DEF KnowInv, mainVars, workerVars
<1>0. /\ KnowInv /\ LockInv
      /\ pc \in [Workers -> WorkerPcs]
      /\ tmp \in [Workers -> 0 .. BuffSize]
      /\ count \in 0 .. BuffSize /\ mainTmp \in 0 .. BuffSize
  BY DEF IInv, TypeOK
<1>1. CASE Accept
  BY <1>0, <1>1 DEF Accept, MainGoto
<1>2. CASE CheckFull
  BY <1>0, <1>2 DEF CheckFull, MainGoto
<1>3. CASE SpinExit
  BY <1>0, <1>3 DEF SpinExit, MainGoto
<1>4. CASE WriteSlot
  BY <1>0, <1>4 DEF WriteSlot, MainGoto
<1>5. CASE MainLockCount
  BY <1>0, <1>5 DEF MainLockCount, MainGoto
<1>6. CASE MainLoadCount
  BY <1>0, <1>6 DEF MainLoadCount, MainGoto
<1>7. CASE MainStoreCount
  <2>1. \A w \in Workers : pc[w] # "store"
    BY <1>0, <1>7 DEF MainStoreCount, MainGoto, LockInv, CountHeld
  <2>2. QED
    BY <1>0, <1>7, <2>1 DEF MainStoreCount, MainGoto
<1>8. CASE MainUnlockCount
  BY <1>0, <1>8 DEF MainUnlockCount, MainGoto
<1>9. ASSUME NEW w \in Workers, WorkerNext(w) PROVE KnowInv'
  <2>1. CASE LockGet(w)
    BY <1>0, <2>1 DEF LockGet, Goto
  <2>2. CASE TestEmpty(w)
    BY <1>0, <2>2 DEF TestEmpty, Goto
  <2>3. CASE LockCount(w)
    BY <1>0, <2>3 DEF LockCount, Goto
  <2>4. CASE LoadCount(w)
    BY <1>0, <2>4 DEF LoadCount, Goto
  <2>5. CASE StoreCount(w)
    <3>1. pc[w] = "store" /\ pc' = [pc EXCEPT ![w] = "unlock"]
      BY <2>5 DEF StoreCount, Goto
    <3>2. mainPc # "store"
      BY <1>0, <3>1 DEF LockInv, CountHeld
    <3>3. \A v \in Workers : pc'[v] \notin {"lock", "load", "store"}
      BY <1>0, <3>1 DEF LockInv, GetHeld
    <3>4. tmp[w] = count /\ count \in 1 .. BuffSize
      BY <1>0, <3>1
    <3>5. count' = count - 1
      BY <2>5, <3>4, DecrementExact DEF StoreCount
    <3>6. UNCHANGED <<mainPc, mainTmp, tmp>>
      BY <2>5 DEF StoreCount
    <3>7. QED
      BY <1>0, <3>2, <3>3, <3>5, <3>6
  <2>6. CASE UnlockCount(w)
    BY <1>0, <2>6 DEF UnlockCount, Goto
  <2>7. CASE FetchSlot(w)
    BY <1>0, <2>7 DEF FetchSlot, Goto
  <2>8. CASE UnlockGet(w)
    BY <1>0, <2>8 DEF UnlockGet, Goto
  <2>9. CASE HandleReturns(w)
    BY <1>0, <2>9 DEF HandleReturns, Goto
  <2>10. QED
    BY <1>9, <2>1, <2>2, <2>3, <2>4, <2>5, <2>6, <2>7, <2>8, <2>9
       DEF WorkerNext
<1>10. CASE UNCHANGED vars
  BY <1>0, <1>10 DEF vars
<1>11. QED
  BY <1>1, <1>2, <1>3, <1>4, <1>5, <1>6, <1>7, <1>8, <1>9, <1>10
     DEF Next, MainNext, MainStep

\* count moves with the two histories, in the same step.
LEMMA ConserveStep == IInv /\ [Next]_vars => CountConserved'
<1> DEFINE Claims(v) == pc[v] \in {"unlock", "fetch"}
<1> SUFFICES ASSUME IInv, [Next]_vars PROVE CountConserved'
  OBVIOUS
<1>0. /\ CountConserved /\ KnowInv /\ LockInv
      /\ pc \in [Workers -> WorkerPcs]
      /\ count \in 0 .. BuffSize
      /\ handed \in Seq(0 .. MaxConns)
  BY DEF IInv, TypeOK
<1>N. /\ count \in Int /\ sock \in Int /\ Len(handed) \in Int
      /\ Posted \in Int /\ Claimed \in Int
  <2>1. count \in Int /\ sock \in Int /\ Len(handed) \in Int
    BY <1>0, SizeAssumption DEF IInv, TypeOK
  <2>2. QED
    BY <2>1 DEF Posted, Claimed
<1> USE DEF mainVars, workerVars, MainGoto, Goto
<1>1. CASE /\ UNCHANGED <<count, pc, handed>> /\ Posted' = Posted
  BY <1>0, <1>1 DEF CountConserved, Claimed
<1>2. CASE MainStoreCount
  <2>1. Posted' = Posted + 1 /\ count' = count + 1
    BY <1>0, <1>2, <1>N DEF MainStoreCount, Posted, KnowInv
  <2>2. Claimed' = Claimed
    BY <1>2 DEF MainStoreCount, Claimed
  <2>3. QED
    BY <1>0, <1>N, <2>1, <2>2 DEF CountConserved
<1>3. CASE MainNext /\ ~MainStoreCount
  <2>1. UNCHANGED <<count, pc, handed>>
    BY <1>3 DEF MainNext, MainStep, Accept, CheckFull, SpinExit, WriteSlot,
                MainLockCount, MainLoadCount, MainUnlockCount
  <2>2. Posted' = Posted
    BY <1>3, <1>N DEF MainNext, MainStep, Accept, CheckFull, SpinExit, WriteSlot,
                MainLockCount, MainLoadCount, MainUnlockCount, Posted
  <2>3. QED
    BY <2>1, <2>2, <1>1
<1>4. ASSUME NEW w \in Workers, WorkerNext(w) PROVE CountConserved'
  <2>1. UNCHANGED <<mainPc, sock>>
    BY <1>4 DEF WorkerNext, LockGet, TestEmpty, LockCount, LoadCount,
                StoreCount, UnlockCount, FetchSlot, UnlockGet, HandleReturns
  <2>2. Posted' = Posted
    BY <2>1 DEF Posted
  <2>3. CASE /\ UNCHANGED <<count, handed>>
             /\ (\E v \in Workers : Claims(v))' = \E v \in Workers : Claims(v)
    BY <1>0, <2>2, <2>3 DEF CountConserved, Claimed
  <2>4. CASE StoreCount(w)
    <3>1. pc[w] = "store" /\ pc' = [pc EXCEPT ![w] = "unlock"]
          /\ handed' = handed
      BY <2>4 DEF StoreCount
    <3>2. \A v \in Workers : ~Claims(v)
      BY <1>0, <3>1 DEF LockInv, GetHeld
    <3>3. Claims(w)'
      BY <1>0, <3>1
    <3>4. Claimed' = Claimed + 1
      BY <1>N, <3>1, <3>2, <3>3 DEF Claimed
    <3>5. tmp[w] = count /\ count \in 1 .. BuffSize
      BY <1>0, <3>1 DEF KnowInv
    <3>6. count' = count - 1
      BY <2>4, <3>5, DecrementExact DEF StoreCount
    <3>7. QED
      BY <1>0, <1>N, <2>2, <3>4, <3>6 DEF CountConserved
  <2>5. CASE FetchSlot(w)
    <3>1. pc[w] = "fetch" /\ pc' = [pc EXCEPT ![w] = "release"]
          /\ count' = count
      BY <2>5 DEF FetchSlot
    <3>2. Len(handed') = Len(handed) + 1
      BY <1>0, <2>5 DEF FetchSlot
    <3>3. Claims(w)
      BY <3>1
    <3>4. \A v \in Workers : ~Claims(v)'
      BY <1>0, <3>1 DEF LockInv, GetHeld
    <3>5. Claimed' = Claimed
      BY <1>N, <3>2, <3>3, <3>4 DEF Claimed
    <3>6. QED
      BY <1>0, <2>2, <3>1, <3>5 DEF CountConserved
  <2>6. CASE UnlockCount(w)
    <3>1. pc[w] = "unlock" /\ pc' = [pc EXCEPT ![w] = "fetch"]
          /\ UNCHANGED <<count, handed>>
      BY <2>6 DEF UnlockCount
    <3>2. Claims(w) /\ Claims(w)'
      BY <1>0, <3>1
    <3>3. QED
      BY <2>3, <3>1, <3>2
  <2>7. ASSUME UNCHANGED <<count, handed>>, NEW b,
               ~Claims(w), b \notin {"unlock", "fetch"},
               pc' = [pc EXCEPT ![w] = b]
        PROVE  CountConserved'
    <3>1. \A v \in Workers : Claims(v)' <=> Claims(v)
      BY <1>0, <2>7
    <3>2. QED
      BY <2>3, <2>7, <3>1
  <2>8. CASE LockGet(w)
    BY <2>7, <2>8 DEF LockGet
  <2>9. CASE TestEmpty(w)
    <3>1. CASE count = 0
      BY <2>7, <2>9, <3>1 DEF TestEmpty
    <3>2. CASE count # 0
      BY <2>7, <2>9, <3>2 DEF TestEmpty
    <3>3. QED
      BY <3>1, <3>2
  <2>10. CASE LockCount(w)
    BY <2>7, <2>10 DEF LockCount
  <2>11. CASE LoadCount(w)
    BY <2>7, <2>11 DEF LoadCount
  <2>12. CASE UnlockGet(w)
    BY <2>7, <2>12 DEF UnlockGet
  <2>13. CASE HandleReturns(w)
    BY <2>7, <2>13 DEF HandleReturns
  <2>14. QED
    BY <1>4, <2>4, <2>5, <2>6, <2>8, <2>9, <2>10, <2>11, <2>12, <2>13
       DEF WorkerNext
<1>5. CASE UNCHANGED vars
  BY <1>1, <1>5 DEF vars, Posted
<1>6. QED
  BY <1>2, <1>3, <1>4, <1>5 DEF Next

\* How far the main thread is ahead of the thread about to read its slot.
LEMMA Lead ==
  ASSUME IInv, NEW w \in Workers, pc[w] = "fetch"
  PROVE  /\ Written \in Int /\ Written <= sock
         /\ Len(handed) + 1 <= Written
         /\ Written <= Len(handed) + 1 + BuffSize
<1>1. /\ count \in 0 .. BuffSize /\ BuffSize \in Nat /\ sock \in Int
      /\ mainPc \in MainPcs /\ Len(handed) \in Int
  BY SizeAssumption DEF IInv, TypeOK
<1>2. Claimed = Len(handed) + 1
  BY <1>1 DEF Claimed
<1>3. Posted = Len(handed) + 1 + count
  <2>1. count = Posted - Claimed /\ Posted \in Int
    BY <1>1 DEF IInv, CountConserved, Posted
  <2>2. QED
    BY <2>1, <1>1, <1>2
<1>4. Written \in Int /\ Written <= sock /\ Posted <= Written
  BY <1>1 DEF Written, Posted, MainPcs
<1>5. Written <= Posted + 1
  BY <1>1 DEF Written, Posted, MainPcs
<1>6. CASE mainPc \in {"lock", "load", "store"}
  <2>1. count <= BuffSize - 1
    BY <1>6 DEF IInv, KnowInv
  <2>2. QED
    BY <2>1, <1>1, <1>3, <1>4, <1>5
<1>7. CASE mainPc \notin {"lock", "load", "store"}
  <2>1. Written = Posted
    BY <1>1, <1>7 DEF Written, Posted, MainPcs
  <2>2. QED
    BY <2>1, <1>1, <1>3, <1>4
<1>8. QED
  BY <1>6, <1>7

\* What the slot at tail holds when a thread reads it.
LEMMA SlotHolds ==
  ASSUME IInv, NEW w \in Workers, pc[w] = "fetch"
  PROVE  /\ sock_buff[tail] \in {Len(handed) + 1, Len(handed) + 1 + BuffSize}
         /\ sock_buff[tail] <= sock
<1> DEFINE k == Len(handed) + 1
<1>1. k \in Nat \ {0} /\ BuffSize \in Nat \ {0} /\ sock \in Int
  BY SizeAssumption DEF IInv, TypeOK
<1>2. tail = (k - 1) % BuffSize
  BY <1>1 DEF IInv, RingInv
<1>3. Written \in Int /\ Written <= sock /\ k <= Written /\ Written <= k + BuffSize
  BY Lead
<1>4. \A n \in 1 .. Written :
        n > Written - BuffSize => sock_buff[(n - 1) % BuffSize] = n
  BY DEF IInv, RingInv
<1> HIDE DEF k
<1>5. CASE Written < k + BuffSize
  <2>1. k \in 1 .. Written /\ k > Written - BuffSize
    BY <1>1, <1>3, <1>5
  <2>2. sock_buff[tail] = k
    BY <2>1, <1>2, <1>4
  <2>3. QED
    BY <2>2, <1>1, <1>3 DEF k
<1>6. CASE Written = k + BuffSize
  <2>1. Written \in 1 .. Written /\ Written > Written - BuffSize
    BY <1>1, <1>3
  <2>2. (Written - 1) % BuffSize = (k - 1) % BuffSize
    <3>1. k - 1 \in Nat /\ Written - 1 = (k - 1) + BuffSize
      BY <1>1, <1>6
    <3>2. QED
      BY <3>1, <1>1, ModTurn
  <2>3. sock_buff[tail] = Written
    BY <2>1, <2>2, <1>2, <1>4
  <2>4. QED
    BY <2>3, <1>1, <1>3, <1>6 DEF k
<1>7. QED
  BY <1>1, <1>3, <1>5, <1>6

\* The cursors follow the histories, and a write disturbs no slot whose
\* socket was written less than a turn ago.
LEMMA RingStep == IInv /\ [Next]_vars => RingInv'
<1> SUFFICES ASSUME IInv, [Next]_vars PROVE RingInv'
  OBVIOUS
<1>0. /\ RingInv
      /\ sock \in Nat /\ BuffSize \in Nat \ {0}
      /\ sock_buff \in [Slots -> 0 .. MaxConns]
      /\ handed \in Seq(0 .. MaxConns)
      /\ Written \in Int /\ Advanced \in Int
  <2>1. sock \in Nat
    BY SizeAssumption DEF IInv, TypeOK
  <2>2. QED
    BY <2>1, SizeAssumption DEF IInv, TypeOK, Written, Advanced
<1> USE DEF mainVars, workerVars, MainGoto, Goto
<1>1. ASSUME UNCHANGED <<head, tail, handed, sock_buff>>, Written' = Written,
             Advanced' = Advanced, mainPc' # "accept" => sock' >= 1
      PROVE  RingInv'
  BY <1>0, <1>1 DEF RingInv
<1>2. CASE Accept
  BY <1>0, <1>1, <1>2 DEF Accept, Written, Advanced
<1>3. CASE CheckFull
  BY <1>0, <1>1, <1>3 DEF CheckFull, Written, Advanced, RingInv
<1>4. CASE SpinExit
  BY <1>0, <1>1, <1>4 DEF SpinExit, Written, Advanced, RingInv
<1>5. CASE WriteSlot
  <2>1. /\ Written = sock - 1 /\ Written' = sock
        /\ Advanced = sock - 1 /\ Advanced' = sock - 1
        /\ sock >= 1 /\ head = (sock - 1) % BuffSize
        /\ UNCHANGED <<head, tail, handed, sock>>
    BY <1>0, <1>5 DEF WriteSlot, Written, Advanced, RingInv
  <2>2. head \in DOMAIN sock_buff
    BY <1>0 DEF IInv, TypeOK
  <2>3. sock_buff' = [sock_buff EXCEPT ![head] = sock]
    BY <1>5 DEF WriteSlot
  <2>4. ASSUME NEW n \in 1 .. sock, n > sock - BuffSize
        PROVE  sock_buff'[(n - 1) % BuffSize] = n
    <3>1. CASE n = sock
      BY <3>1, <2>1, <2>2, <2>3
    <3>2. CASE n # sock
      <4>1. n \in 1 .. Written /\ n > Written - BuffSize
        BY <1>0, <2>1, <2>4, <3>2
      <4>2. sock_buff[(n - 1) % BuffSize] = n
        BY <4>1, <1>0 DEF RingInv
      <4>3. /\ n - 1 \in Nat /\ sock - 1 \in Nat
            /\ n - 1 < sock - 1 /\ sock - 1 < (n - 1) + BuffSize
        BY <1>0, <2>1, <2>4, <3>2
      <4>4. (n - 1) % BuffSize # head
        BY <4>3, <2>1, <1>0, ModDistinct
      <4>5. QED
        BY <4>2, <4>4, <2>3
    <3>3. QED
      BY <3>1, <3>2
  <2>5. QED
    BY <1>0, <2>1, <2>4 DEF RingInv
<1>6. CASE MainLockCount
  BY <1>0, <1>1, <1>6 DEF MainLockCount, Written, Advanced, RingInv
<1>7. CASE MainLoadCount
  BY <1>0, <1>1, <1>7 DEF MainLoadCount, Written, Advanced, RingInv
<1>8. CASE MainStoreCount
  BY <1>0, <1>1, <1>8 DEF MainStoreCount, Written, Advanced, RingInv
<1>9. CASE MainUnlockCount
  <2>1. /\ Advanced = sock - 1 /\ Advanced' = sock /\ Written' = Written
        /\ sock >= 1 /\ head = (sock - 1) % BuffSize
        /\ head' = (head + 1) % BuffSize
        /\ UNCHANGED <<tail, handed, sock_buff, sock>>
    BY <1>0, <1>9 DEF MainUnlockCount, Written, Advanced, RingInv
  <2>2. head' = sock % BuffSize
    <3>1. sock - 1 \in Nat /\ (sock - 1) + 1 = sock
      BY <1>0, <2>1
    <3>2. QED
      BY <3>1, <2>1, <1>0, ModNext
  <2>3. QED
    BY <1>0, <2>1, <2>2 DEF RingInv
<1>10. ASSUME NEW w \in Workers, WorkerNext(w) PROVE RingInv'
  <2>1. CASE FetchSlot(w)
    <3>1. /\ UNCHANGED <<head, sock, mainPc, sock_buff>>
          /\ tail' = (tail + 1) % BuffSize
      BY <2>1 DEF FetchSlot
    <3>2. Written' = Written /\ Advanced' = Advanced
      BY <3>1 DEF Written, Advanced
    <3>3. Len(handed) \in Nat /\ Len(handed') = Len(handed) + 1
      BY <1>0, <2>1 DEF FetchSlot
    <3>4. tail' = Len(handed') % BuffSize
      BY <1>0, <3>1, <3>3, ModNext DEF RingInv
    <3>5. QED
      BY <1>0, <3>1, <3>2, <3>4 DEF RingInv
  <2>2. CASE ~FetchSlot(w)
    <3>1. UNCHANGED <<head, tail, handed, sock_buff, mainPc, sock>>
      BY <1>10, <2>2 DEF WorkerNext, LockGet, TestEmpty, LockCount, LoadCount,
                         StoreCount, UnlockCount, UnlockGet, HandleReturns
    <3>2. QED
      BY <1>0, <1>1, <3>1 DEF Written, Advanced, RingInv
  <2>3. QED
    BY <2>1, <2>2
<1>11. CASE UNCHANGED vars
  BY <1>0, <1>1, <1>11 DEF vars, Written, Advanced, RingInv
<1>12. QED
  BY <1>2, <1>3, <1>4, <1>5, <1>6, <1>7, <1>8, <1>9, <1>10, <1>11
     DEF Next, MainNext, MainStep

\* Only FetchSlot adds to handed, and it adds what SlotHolds says.
LEMMA OrderStep == IInv /\ [Next]_vars => NearlyInOrder'
<1> SUFFICES ASSUME IInv, [Next]_vars PROVE NearlyInOrder'
  OBVIOUS
<1>0. NearlyInOrder /\ handed \in Seq(0 .. MaxConns)
  BY DEF IInv, TypeOK
<1>1. CASE UNCHANGED handed
  BY <1>0, <1>1 DEF NearlyInOrder
<1>2. ASSUME NEW w \in Workers, FetchSlot(w) PROVE NearlyInOrder'
  <2>1. handed' = Append(handed, sock_buff[tail]) /\ pc[w] = "fetch"
    BY <1>2 DEF FetchSlot, Goto
  <2>2. sock_buff[tail] \in {Len(handed) + 1, Len(handed) + 1 + BuffSize}
    BY <2>1, SlotHolds
  <2>3. QED
    BY <1>0, <2>1, <2>2 DEF NearlyInOrder
<1>3. UNCHANGED handed \/ \E w \in Workers : FetchSlot(w)
  BY DEF Next, MainNext, MainStep, WorkerNext, vars, mainVars, workerVars,
         Accept, CheckFull, SpinExit, WriteSlot, MainLockCount, MainLoadCount,
         MainStoreCount, MainUnlockCount, LockGet, TestEmpty, LockCount,
         LoadCount, StoreCount, UnlockCount, UnlockGet, HandleReturns
<1>4. QED
  BY <1>1, <1>2, <1>3

-----------------------------------------------------------------------------
(* The theorems.                                                           *)

\* The inductive invariant holds in every state of every behaviour, whatever
\* the number of threads, slots and connections (lines 464-471 and 490-500).
THEOREM IInvAlways == Spec => []IInv
<1>1. IInv /\ [Next]_vars => IInv'
  BY TypeStep, LockStep, KnowStep, ConserveStep, RingStep, OrderStep DEF IInv
<1>2. QED
  BY InitIInv, <1>1, PTL DEF Spec

\* Every variable keeps its type; in particular count stays in
\* 0 .. buff_size although two loops read it without count_mutex, and the
\* decrement of line 496 never wraps.
THEOREM TypeCorrect == Spec => []TypeOK
<1>1. IInv => TypeOK
  BY DEF IInv
<1>2. QED
  BY <1>1, IInvAlways, PTL

\* count is the number of sockets posted and not claimed (lines 468-470 and
\* 495-497), for any number of threads.
THEOREM CountIsConserved == Spec => []CountConserved
<1>1. IInv => CountConserved
  BY DEF IInv
<1>2. QED
  BY <1>1, IInvAlways, PTL

\* The n-th socket handed to a thread is the n-th accepted or the one a full
\* turn later (lines 465 and 498).
THEOREM NearlyFifo == Spec => []NearlyInOrder
<1>1. IInv => NearlyInOrder
  BY DEF IInv
<1>2. QED
  BY <1>1, IInvAlways, PTL

\* The hand-off implements ConnQueue: the main thread never gets more than
\* buff_size + 2 connections ahead, and every hand-over is a Take.
THEOREM ImplementsQueue == Spec => QueueSpec
<1> USE SizeAssumption
<1>1. Init => Queue!Init
  BY DEF Init, Queue!Init
<1>2. IInv /\ [Next]_vars => [Queue!Next]_(Queue!qvars)
  <2> SUFFICES ASSUME IInv, [Next]_vars PROVE [Queue!Next]_(Queue!qvars)
    OBVIOUS
  <2>0. /\ count \in 0 .. BuffSize /\ sock \in Nat /\ Len(handed) \in Nat
        /\ handed \in Seq(0 .. MaxConns)
    BY DEF IInv, TypeOK
  <2>1. CASE UNCHANGED <<sock, handed>>
    BY <2>1 DEF Queue!qvars
  <2>2. CASE Accept
    <3>1. mainPc = "accept" /\ sock' = sock + 1 /\ handed' = handed
      BY <2>2 DEF Accept, MainGoto, workerVars
    <3>2. count = sock - Claimed
      BY <3>1 DEF IInv, CountConserved, Posted
    <3>3. sock - Len(handed) < BuffSize + 2
      BY <2>0, <3>2 DEF Claimed
    <3>4. QED
      BY <3>1, <3>3 DEF Queue!Next, Queue!Accept, Queue!MayAccept
  <2>3. ASSUME NEW w \in Workers, FetchSlot(w)
        PROVE  [Queue!Next]_(Queue!qvars)
    <3>1. /\ handed' = Append(handed, sock_buff[tail]) /\ sock' = sock
          /\ pc[w] = "fetch"
      BY <2>3 DEF FetchSlot, Goto, mainVars
    <3>2. /\ sock_buff[tail] \in {Len(handed) + 1, Len(handed) + 1 + BuffSize}
          /\ sock_buff[tail] <= sock
      BY <3>1, SlotHolds
    <3>3. QED
      BY <3>1, <3>2 DEF Queue!Next, Queue!Take
  <2>4. UNCHANGED <<sock, handed>> \/ Accept \/ \E w \in Workers : FetchSlot(w)
    BY DEF Next, MainNext, MainStep, WorkerNext, vars, mainVars, workerVars,
           CheckFull, SpinExit, WriteSlot, MainLockCount, MainLoadCount,
           MainStoreCount, MainUnlockCount, LockGet, TestEmpty, LockCount,
           LoadCount, StoreCount, UnlockCount, UnlockGet, HandleReturns
  <2>5. QED
    BY <2>1, <2>2, <2>3, <2>4
<1>3. QED
  BY <1>1, <1>2, IInvAlways, PTL DEF Spec, QueueSpec, Queue!Spec
=============================================================================
