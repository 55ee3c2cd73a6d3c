----------------------------- MODULE ConnBuffer -----------------------------
(***************************************************************************)
(* ToreroServe's hand-off of accepted sockets: the main thread             *)
(* (acceptConnections) puts each socket accept() returns into the circular *)
(* array sock_buff, and the detached threads (thread_function) take them   *)
(* out and call handleClient.  count is shared and guarded by count_mutex, *)
(* except where the code reads it without the lock (lines 464 and 491);    *)
(* tail is guarded by get_mutex; head belongs to the main thread.          *)
(*                                                                         *)
(* Sockets are numbered in the order accept() returns them, so that sock   *)
(* is also the number of connections accepted so far.  One action is one   *)
(* access to shared memory or one mutex operation.  handleClient is a step *)
(* of its own here; ToreroServe.tla models it.                            *)
(***************************************************************************)
EXTENDS Integers, Sequences

CONSTANTS
  Workers,      \* the threads running thread_function
  Main,         \* the thread running acceptConnections
  Free,         \* the owner of a mutex nobody holds
  BuffSize,     \* buff_size, the number of slots of sock_buff
  MaxConns      \* bound of the model: how many connections accept() returns

ASSUME ThreadAssumption == /\ Main \notin Workers
                           /\ Free \notin Workers
                           /\ Main # Free
ASSUME SizeAssumption == BuffSize \in Nat \ {0} /\ MaxConns \in Nat

VARIABLES
  count, tail, sock_buff, count_mutex, get_mutex,  \* shared by the threads
  head, sock, mainPc, mainTmp,                     \* acceptConnections
  pc, tmp, socket,                                 \* one thread_function each
  handed                                           \* history: sockets taken

mainVars   == <<head, sock, mainPc, mainTmp>>
workerVars == <<tail, get_mutex, pc, tmp, socket, handed>>
vars == <<mainVars, workerVars, count, sock_buff, count_mutex>>

Slots   == 0 .. BuffSize - 1
Tickets == 1 .. MaxConns
Owners  == Workers \cup {Main, Free}

MainPcs   == {"accept", "check", "spin", "write", "lock", "load", "store",
              "unlock"}
WorkerPcs == {"get", "test", "lock", "load", "store", "unlock", "fetch",
              "release", "handle"}

\* The remainder of C++: it truncates towards zero, so (0 - 1) % n is -1.
CRem(a, n) == IF a < 0 THEN -((-a) % n) ELSE a % n

Init ==
  /\ count = 0 /\ tail = 0 /\ head = 0 /\ sock = 0
  /\ sock_buff = [i \in Slots |-> 0]       \* 0 is a slot never written
  /\ count_mutex = Free /\ get_mutex = Free
  /\ mainPc = "accept" /\ mainTmp = 0
  /\ pc = [w \in Workers |-> "get"]
  /\ tmp = [w \in Workers |-> 0]
  /\ socket = [w \in Workers |-> 0]
  /\ handed = <<>>

-----------------------------------------------------------------------------
(* acceptConnections, lines 428-472.                                       *)

MainGoto(from, to) == mainPc = from /\ mainPc' = to

\* sock = accept(server_sock, ...)
Accept ==
  /\ MainGoto("accept", "check")
  /\ sock < MaxConns
  /\ sock' = sock + 1
  /\ UNCHANGED <<workerVars, head, mainTmp, count, sock_buff, count_mutex>>

\* A changed form of CheckFull: the wait starts one socket too late.
CheckFullLate ==
  /\ IF count > BuffSize THEN MainGoto("check", "spin")
                         ELSE MainGoto("check", "write")
  /\ UNCHANGED <<workerVars, head, sock, mainTmp, count, sock_buff,
                 count_mutex>>

\* The first read of count in while (count == buff_size){}, without a lock.
CheckFull ==
  /\ IF count = BuffSize THEN MainGoto("check", "spin")
                         ELSE MainGoto("check", "write")
  /\ UNCHANGED <<workerVars, head, sock, mainTmp, count, sock_buff,
                 count_mutex>>

\* The loop leaves when a later read of count differs.  Nothing says that there
\* is one: the read is a data race, so a build may load count once and compare
\* that register for ever.  No fairness makes this step happen.
SpinExit ==
  /\ MainGoto("spin", "write")
  /\ count # BuffSize
  /\ UNCHANGED <<workerVars, head, sock, mainTmp, count, sock_buff,
                 count_mutex>>

\* sock_buff[head] = sock
WriteSlot ==
  /\ MainGoto("write", "lock")
  /\ sock_buff' = [sock_buff EXCEPT ![head] = sock]
  /\ UNCHANGED <<workerVars, head, sock, mainTmp, count, count_mutex>>

\* A changed form of MainLockCount: count += 1 outside count_mutex.
MainLockNothing ==
  /\ MainGoto("lock", "load")
  /\ UNCHANGED <<workerVars, head, sock, mainTmp, count, sock_buff,
                 count_mutex>>

\* count_mutex.lock()
MainLockCount ==
  /\ MainGoto("lock", "load")
  /\ count_mutex = Free
  /\ count_mutex' = Main
  /\ UNCHANGED <<workerVars, head, sock, mainTmp, count, sock_buff>>

\* count += 1, the load and the store
MainLoadCount ==
  /\ MainGoto("load", "store")
  /\ mainTmp' = count
  /\ UNCHANGED <<workerVars, head, sock, count, sock_buff, count_mutex>>

MainStoreCount ==
  /\ MainGoto("store", "unlock")
  /\ count' = mainTmp + 1
  /\ UNCHANGED <<workerVars, head, sock, mainTmp, sock_buff, count_mutex>>

\* count_mutex.unlock() and head = (head + 1) % buff_size, which is local
MainUnlockCount ==
  /\ MainGoto("unlock", "accept")
  /\ count_mutex' = Free
  /\ head' = (head + 1) % BuffSize
  /\ UNCHANGED <<workerVars, sock, mainTmp, count, sock_buff>>

MainStep == \/ Accept \/ CheckFull \/ WriteSlot
            \/ MainLockCount \/ MainLoadCount \/ MainStoreCount
            \/ MainUnlockCount

MainNext == MainStep \/ SpinExit

-----------------------------------------------------------------------------
(* thread_function, lines 488-502.                                         *)

Goto(w, from, to) == pc[w] = from /\ pc' = [pc EXCEPT ![w] = to]

\* get_mutex.lock(), on lines 490 and 493
LockGet(w) ==
  /\ Goto(w, "get", "test")
  /\ get_mutex = Free
  /\ get_mutex' = w
  /\ UNCHANGED <<mainVars, tail, tmp, socket, handed, count, sock_buff,
                 count_mutex>>

\* Changed forms of TestEmpty: if in place of while, and a test that leaves
\* the last socket in the array.
TestEmptyOnce(w) ==
  /\ Goto(w, "test", "lock")
  /\ UNCHANGED <<mainVars, tail, get_mutex, tmp, socket, handed, count,
                 sock_buff, count_mutex>>

TestAlmostEmpty(w) ==
  /\ IF count <= 1
       THEN Goto(w, "test", "get") /\ get_mutex' = Free
       ELSE Goto(w, "test", "lock") /\ UNCHANGED get_mutex
  /\ UNCHANGED <<mainVars, tail, tmp, socket, handed, count, sock_buff,
                 count_mutex>>

\* while (count == 0), read without count_mutex: an empty buffer gives
\* get_mutex up and asks for it again
TestEmpty(w) ==
  /\ IF count = 0
       THEN Goto(w, "test", "get") /\ get_mutex' = Free
       ELSE Goto(w, "test", "lock") /\ UNCHANGED get_mutex
  /\ UNCHANGED <<mainVars, tail, tmp, socket, handed, count, sock_buff,
                 count_mutex>>

LockCount(w) ==
  /\ Goto(w, "lock", "load")
  /\ count_mutex = Free
  /\ count_mutex' = w
  /\ UNCHANGED <<mainVars, tail, get_mutex, tmp, socket, handed, count,
                 sock_buff>>

\* count = (count - 1) % buff_size, the load and the store
LoadCount(w) ==
  /\ Goto(w, "load", "store")
  /\ tmp' = [tmp EXCEPT ![w] = count]
  /\ UNCHANGED <<mainVars, tail, get_mutex, socket, handed, count, sock_buff,
                 count_mutex>>

StoreCount(w) ==
  /\ Goto(w, "store", "unlock")
  /\ count' = CRem(tmp[w] - 1, BuffSize)
  /\ UNCHANGED <<mainVars, tail, get_mutex, tmp, socket, handed, sock_buff,
                 count_mutex>>

UnlockCount(w) ==
  /\ Goto(w, "unlock", "fetch")
  /\ count_mutex' = Free
  /\ UNCHANGED <<mainVars, tail, get_mutex, tmp, socket, handed, count,
                 sock_buff>>

\* A changed form of FetchSlot: tail stays where it is.
FetchSameSlot(w) ==
  /\ Goto(w, "fetch", "release")
  /\ socket' = [socket EXCEPT ![w] = sock_buff[tail]]
  /\ handed' = Append(handed, sock_buff[tail])
  /\ UNCHANGED <<mainVars, tail, get_mutex, tmp, count, sock_buff,
                 count_mutex>>

\* int socket = buff[tail]; tail = (tail + 1) % buff_size
FetchSlot(w) ==
  /\ Goto(w, "fetch", "release")
  /\ socket' = [socket EXCEPT ![w] = sock_buff[tail]]
  /\ handed' = Append(handed, sock_buff[tail])
  /\ tail' = (tail + 1) % BuffSize
  /\ UNCHANGED <<mainVars, get_mutex, tmp, count, sock_buff, count_mutex>>

UnlockGet(w) ==
  /\ Goto(w, "release", "handle")
  /\ get_mutex' = Free
  /\ UNCHANGED <<mainVars, tail, tmp, socket, handed, count, sock_buff,
                 count_mutex>>

\* handleClient(socket, base_dir) returns
HandleReturns(w) ==
  /\ Goto(w, "handle", "get")
  /\ UNCHANGED <<mainVars, tail, get_mutex, tmp, socket, handed, count,
                 sock_buff, count_mutex>>

WorkerNext(w) == \/ LockGet(w) \/ TestEmpty(w) \/ LockCount(w) \/ LoadCount(w)
                 \/ StoreCount(w) \/ UnlockCount(w) \/ FetchSlot(w)
                 \/ UnlockGet(w) \/ HandleReturns(w)

Next == MainNext \/ \E w \in Workers : WorkerNext(w)

Spec == Init /\ [][Next]_vars

\* Every thread that can run is eventually scheduled.  A thread waiting for a
\* mutex can run only while the mutex is free: std::mutex promises no order.
\* WF on HandleReturns assumes that clients let handleClient return.  MainStep
\* leaves SpinExit out: only a build that reads count again owes that step.
Fairness == WF_vars(MainStep) /\ \A w \in Workers : WF_vars(WorkerNext(w))

FairSpec == Spec /\ Fairness

-----------------------------------------------------------------------------
(* Properties.                                                             *)

TypeOK ==
  /\ count \in 0 .. BuffSize
  /\ tail \in Slots /\ head \in Slots
  /\ sock \in 0 .. MaxConns
  /\ sock_buff \in [Slots -> 0 .. MaxConns]
  /\ count_mutex \in Owners /\ get_mutex \in Owners
  /\ mainPc \in MainPcs /\ mainTmp \in 0 .. BuffSize
  /\ pc \in [Workers -> WorkerPcs]
  /\ tmp \in [Workers -> 0 .. BuffSize]
  /\ socket \in [Workers -> 0 .. MaxConns]
  /\ handed \in Seq(0 .. MaxConns)

\* Sockets whose count += 1 has been stored.
Posted == IF mainPc \in {"accept", "unlock"} THEN sock ELSE sock - 1

\* Sockets whose decrement of count has been stored: those taken out of the
\* array, and the one a thread has claimed and not read yet.
Claimed == Len(handed)
           + (IF \E w \in Workers : pc[w] \in {"unlock", "fetch"} THEN 1 ELSE 0)

\* No increment or decrement of count is lost, whatever the interleaving of
\* the two lock-free reads with the locked updates: count is always the number
\* of sockets posted and not yet claimed (lines 464-470 and 491-497).
CountConserved == count = Posted - Claimed

\* The n-th socket handed to a thread is the n-th one accepted, or the one
\* that overwrote it a full turn of the array later: never an older one, never
\* an uninitialised slot, never a slot two turns ahead (lines 465 and 498).
NearlyInOrder ==
  \A n \in 1 .. Len(handed) : handed[n] \in {n, n + BuffSize}

\* Each posted socket gets a turn: once n sockets are counted, an n-th one is
\* eventually handed to a thread, whether the main thread ever leaves its wait
\* or not, so the threads' busy-waiting loop (lines 491-494) loses no wake-up
\* to the updates it reads past.
EveryPostTaken ==
  \A n \in Tickets : (Posted >= n) ~> (Len(handed) >= n)

\* The comment of line 463, "Wait until a spot is open": a socket that waits
\* for a slot gets one, so each accepted connection gets a turn.  The build of
\* the Makefile (-O1) loads count once before the loop of line 464: a main
\* thread that found the array full never accepts again.
EveryTurnComes ==
  \A n \in Tickets : (sock >= n) ~> (Len(handed) >= n)

-----------------------------------------------------------------------------
\* The queue the hand-off implements.
Queue == INSTANCE ConnQueue WITH accepted <- sock, Depth <- BuffSize

\* The hand-off behaves as that queue, back-pressure included.
QueueSpec == Queue!Spec
=============================================================================
