---------------------------- MODULE Server_proof ----------------------------
(***************************************************************************)
(* What holds of the server in spite of its unlocked accesses, for every   *)
(* number of threads and connections and every capacity.                   *)
(***************************************************************************)
EXTENDS Server, SequenceTheorems, FiniteSetTheorems, WellFoundedInduction, TLAPS
-----------------------------------------------------------------------------
(***************************************************************************)
(* The inductive invariant behind SizeInBounds.  Main's register is never  *)
(* below the size (between its load and its store only workers change the  *)
(* size, downwards) and never reaches the capacity; a worker's register is *)
(* never above the size (between its load and its store only main changes  *)
(* it, upwards, because the mutex keeps the other workers out).            *)
(***************************************************************************)
QueueShape ==
    /\ queue \in [front : 0 .. Capacity - 1, rear : 0 .. Capacity - 1,
                  size : 0 .. Capacity, capacity : {Capacity},
                  array : [0 .. Capacity - 1 -> Conns \union Memory]]
    /\ mpc \in {"enqueue", "enqueuePut"} => mfd \in Conns
    /\ mpc = "enqueuePut" => queue.size < Capacity

MainRegister ==
    mpc = "enqueueSize" => msize \in queue.size .. Capacity - 1

WorkerRegister ==
    \A t \in Threads :
        /\ pc[t] = "dequeueSize" => loaded[t] \in 1 .. queue.size
        /\ pc[t] \in {"dequeue", "dequeueSize"} => mutex = t

PoolInv ==
    /\ pc \in [Threads -> Labels]
    /\ loaded \in [Threads -> Int]
    /\ totalHandledNumber \in Int /\ totalPortNumber \in Int
    /\ QueueShape
    /\ MainRegister
    /\ WorkerRegister

(***************************************************************************)
(* The inductive invariant behind DeclarationIsKept and RegistryOnlyGrows: *)
(* the worker in addToPortList holds fileMutex, so the count it loaded is  *)
(* still the count, and its entry still the one after the counted ones;    *)
(* and a worker on its way through a request has no declaration in temp.   *)
(***************************************************************************)
RegistryInv ==
    /\ pc \in [Threads -> Labels]
    /\ temp \in [Threads -> Messages]
    /\ portList \in Seq(Servants)
    /\ totalPortNumber \in 0 .. Len(portList)
    /\ \A t \in Threads :
        /\ pc[t] \in {"declare", "register", "registered"}
              => temp[t].type = "SERVANT_DECLARATION"
        /\ pc[t] \in {"each", "connect", "answer", "reply", "count"}
              => temp[t].type = "CLIENT_REQUEST"
        /\ pc[t] \in {"register", "registered"} => fileMutex = t
        /\ pc[t] = "registered" =>
              /\ loaded[t] = totalPortNumber
              /\ Len(portList) = totalPortNumber + 1
              /\ portList[totalPortNumber + 1] = temp[t].servant
    /\ DeclarationIsKept

(***************************************************************************)
(* The inductive invariant behind GoodbyeTellsAll: the servants main has   *)
(* passed in its loop were told, and stay in their places in portList.     *)
(***************************************************************************)
ToldInv ==
    /\ mindex \in Nat
    /\ mpc = "contact" =>
          /\ mindex <= totalPortNumber
          /\ \A i \in 1 .. mindex : portList[i] \in told
    /\ GoodbyeTellsAll
(***************************************************************************)
(* The inductive invariant behind AnswersTheRequest: what a worker has     *)
(* found out so far about the request it is answering.                     *)
(***************************************************************************)
Asked(t) == AskedIn(query[t])
Gone(s) == servant[s] = "gone"

\* The message in temp is that of the peer, unless somebody answered it.
AnswersItsPeer(t) ==
    pc[t] \in {"dispatch", "each", "connect", "answer", "reply"} /\ fd[t] \in Conns
        => /\ conn[fd[t]] # "idle"
           /\ Sends[fd[t]].type = "CLIENT_REQUEST" /\ reply[fd[t]] = Nobody
                 => temp[t] = Sends[fd[t]]

\* In a request about ALL the servants before query.i have been asked.
AsksEveryone(t) ==
    LET i == query[t].i
        busy == pc[t] \in {"connect", "answer"}
    IN  /\ pc[t] = "each" => temp[t].city = "ALL"
        /\ pc[t] \in {"each", "connect", "answer", "reply"} /\ temp[t].city = "ALL" =>
            /\ i <= totalPortNumber
            /\ busy => i > 0 /\ query[t].target = portList[i]
            /\ \A j \in 1 .. IF busy THEN i - 1 ELSE i :
                  portList[j] \in Asked(t)
            /\ pc[t] = "reply" /\ fd[t] \in Conns => known[fd[t]] \subseteq Asked(t)

\* In a request about one city only a servant that declared it is asked.
AsksWhoDeclared(t) ==
    LET city == temp[t].city
        s == query[t].target
    IN  pc[t] \in {"connect", "answer", "reply"} /\ city # "ALL" =>
            /\ s # Nobody => city \in Cities[s]
            /\ pc[t] # "reply" => s # Nobody
            /\ \A a \in Asked(t) : city \in Cities[a]
            /\ s = Nobody /\ fd[t] \in Conns =>
                  \A k \in known[fd[t]] : city \notin Cities[k]

\* What it got so far is what each of them answered, unless that one died.
GotOwnAnswers(t) ==
    pc[t] \in {"each", "connect", "answer", "reply"} =>
        Asked(t) \subseteq Servants /\ OwnAnswers(query[t], temp[t])

\* A worker that is not answering a request has no query.
ForgetsItsQuery(t) ==
    pc[t] \notin {"each", "connect", "answer", "reply", "count", "release"}
        => query[t] = NoQuery

\* What is known of a connection is registered, idle ones have no answer, and
\* an answer is made of what servants were asked.
ConnsKnown ==
    \A c \in Conns : /\ known[c] \subseteq registered
                     /\ reply[c] # Nobody =>
                           conn[c] # "idle" /\ AskedIn(reply[c]) \subseteq Servants

AnswerInv ==
    /\ \A t \in Threads :
          /\ AnswersItsPeer(t) /\ AsksEveryone(t) /\ AsksWhoDeclared(t)
          /\ GotOwnAnswers(t) /\ ForgetsItsQuery(t)
    /\ ConnsKnown
    /\ AnswersTheRequest
(***************************************************************************)
(* The inductive invariant behind NoUnnoticedSharing.  The slots 0 .. k-1  *)
(* hold the queued descriptors, each once; until somebody notices, dequeue *)
(* is not past them, and what the workers hold came from slots before the  *)
(* front, each from another one.                                           *)
(***************************************************************************)
Written == (queue.rear + 1) % Capacity

SlotsHold ==
    /\ \A i \in 0 .. Written - 1 :
          queue.array[i] \in Conns /\ conn[queue.array[i]] # "idle"
    /\ \A i, j \in 0 .. Written - 1 : queue.array[i] = queue.array[j] => i = j
    /\ \A i \in Written .. Capacity - 1 : queue.array[i] \in Memory
    /\ mpc \in {"enqueue", "enqueuePut"} =>
          /\ conn[mfd] # "idle"
          /\ \A i \in 0 .. Written - 1 : queue.array[i] # mfd

NobodyPastSlots ==
    /\ queue.front <= Written
    /\ \A t \in Threads :
          fd[t] \in Conns => \E i \in 0 .. queue.front - 1 : queue.array[i] = fd[t]
    /\ \A t, u \in Threads : fd[t] \in Conns /\ t # u => fd[t] # fd[u]

SharingInv ==
    SlotsTell =>
        /\ SlotsHold
        /\ \A t \in Threads :
              fd[t] \in Memory => pc[t] \in {"dequeueSize", "claim", "read"}
        /\ Noticed \/ NobodyPastSlots
(***************************************************************************)
(* The inductive invariant behind ImplementsService: where SlotsTell, and  *)
(* every peer writes a message, a descriptor is handed out once, and its   *)
(* worker is the only one to read, answer and close it, until somebody     *)
(* notices.                                                                *)
(***************************************************************************)
PeersWrite == \A c \in Conns : Sends[c] # NoMessage

\* Nobody has read what the peer wrote.
Fresh(c) == conn[c] = "open" /\ c \in unread /\ reply[c] = Nobody

\* What worker t has in hand, and how far it is with it.
ServesOne(t) ==
    /\ pc[t] \in {"claim", "read", "dispatch", "declare", "register", "registered",
                 "each", "connect", "answer", "reply", "count"} => fd[t] \in Conns
    /\ pc[t] \in {"dequeueSize", "claim", "read"} /\ fd[t] \in Conns => Fresh(fd[t])
    /\ pc[t] \in {"dispatch", "declare", "register", "registered",
                 "each", "connect", "answer", "reply"}
          => /\ conn[fd[t]] = "open" /\ reply[fd[t]] = Nobody
             /\ temp[t] = Sends[fd[t]]
    /\ pc[t] = "count"
          => /\ conn[fd[t]] = "open" /\ reply[fd[t]] # Nobody
             /\ Sends[fd[t]].type = "CLIENT_REQUEST"

ServedOnce ==
    /\ \A t \in Threads : ServesOne(t)
    /\ \A i \in queue.front .. Written - 1 : Fresh(queue.array[i])
    /\ mpc \in {"enqueue", "enqueuePut"} => Fresh(mfd)
    /\ \A c \in Conns : conn[c] = "idle" => c \in unread /\ reply[c] = Nobody

ServiceInv == SlotsTell /\ PeersWrite => Noticed \/ ServedOnce
-----------------------------------------------------------------------------
\* The modulus that advances an index of the ring stays in the ring.
LEMMA SuccIndexInRing ==
    ASSUME NEW i \in 0 .. Capacity - 1
    PROVE  (i + 1) % Capacity \in 0 .. Capacity - 1
BY CapacityAssumption

InDequeue == {"dequeue", "dequeueSize"}

\* A step of a worker away from the queue.
AwayFromQueue(t) ==
    /\ UNCHANGED <<queue, mutex, mpc, mfd, msize>>
    /\ pc' \in [Threads -> Labels] /\ loaded' \in [Threads -> Int]
    /\ totalHandledNumber' \in Int /\ totalPortNumber' \in Int
    /\ pc'[t] \notin InDequeue
    /\ \A u \in Threads \ {t} : pc'[u] = pc[u] /\ loaded'[u] = loaded[u]

\* Such a step keeps PoolInv.
LEMMA AwayKeepsPool ==
    ASSUME PoolInv, NEW t \in Threads, AwayFromQueue(t)
    PROVE  PoolInv'
<1> USE DEF PoolInv, AwayFromQueue, InDequeue
<1>1. QueueShape'
  BY DEF QueueShape
<1>2. MainRegister'
  BY DEF MainRegister
<1>3. WorkerRegister'
  <2> SUFFICES ASSUME NEW u \in Threads
               PROVE  /\ pc'[u] = "dequeueSize" => loaded'[u] \in 1 .. queue'.size
                      /\ pc'[u] \in {"dequeue", "dequeueSize"} => mutex' = u
    BY DEF WorkerRegister
  <2>1. CASE u = t
    BY <2>1
  <2>2. CASE u # t
    BY <2>2 DEF WorkerRegister
  <2>3. QED BY <2>1, <2>2
<1>4. QED BY <1>1, <1>2, <1>3

\* The steps of a worker between its unlock and its next dequeue.
LEMMA StepsAwayFromQueue ==
    ASSUME PoolInv, NEW t \in Threads,
           \/ TestSig(t) \/ TestQueue(t) \/ Wait(t) \/ Wake(t)
           \/ SpuriousWakeup(t) \/ Claim(t) \/ Read(t) \/ ReadUnwritten(t)
           \/ Dispatch(t)
           \/ NextServant(t) \/ Connect(t) \/ Answer(t) \/ Reply(t)
           \/ Count(t) \/ Declare(t) \/ Register(t) \/ Registered(t)
           \/ Release(t)
    PROVE  AwayFromQueue(t)
<1> USE DEF PoolInv, AwayFromQueue, InDequeue, Goto, Labels, mainVars,
        poolVars, localVars, registryVars, processVars
<1>1. CASE TestSig(t)
  BY <1>1 DEF TestSig
<1>2. CASE TestQueue(t)
  BY <1>2 DEF TestQueue
<1>3. CASE Wait(t)
  BY <1>3 DEF Wait
<1>4. CASE Wake(t)
  BY <1>4 DEF Wake
<1>5. CASE SpuriousWakeup(t)
  BY <1>5 DEF SpuriousWakeup
<1>6. CASE Claim(t)
  BY <1>6 DEF Claim
<1>7. CASE Read(t)
  BY <1>7 DEF Read
<1>8. CASE Dispatch(t)
  BY <1>8 DEF Dispatch
<1>9. CASE NextServant(t)
  BY <1>9 DEF NextServant
<1>10. CASE Connect(t)
  BY <1>10 DEF Connect
<1>11. CASE Answer(t)
  BY <1>11 DEF Answer
<1>12. CASE Reply(t)
  BY <1>12 DEF Reply
<1>13. CASE Count(t)
  BY <1>13 DEF Count
<1>14. CASE Declare(t)
  BY <1>14 DEF Declare
<1>15. CASE Register(t)
  BY <1>15 DEF Register
<1>16. CASE Registered(t)
  BY <1>16 DEF Registered
<1>17. CASE Release(t)
  BY <1>17 DEF Release
<1>18. CASE ReadUnwritten(t)
  BY <1>18 DEF ReadUnwritten
<1>19. QED
  BY <1>1, <1>2, <1>3, <1>4, <1>5, <1>6, <1>7, <1>8, <1>9, <1>10, <1>11,
     <1>12, <1>13, <1>14, <1>15, <1>16, <1>17, <1>18

\* The worker's own accesses to the queue.
LEMMA QueueSteps ==
    ASSUME PoolInv, NEW t \in Threads, Lock(t) \/ DequeueTake(t) \/ DequeueSize(t)
    PROVE  PoolInv'
<1> USE CapacityAssumption DEF PoolInv, Goto, Labels, mainVars, registryVars,
        processVars
<1>0. \A u \in Threads : u # NoItem
  BY DEF Threads, NoItem
<1>1. CASE Lock(t)
  <2>1. QueueShape' /\ MainRegister'
    BY <1>1 DEF Lock, QueueShape, MainRegister
  <2>2. WorkerRegister'
    BY <1>0, <1>1 DEF Lock, WorkerRegister, localVars
  <2>3. QED BY <1>1, <2>1, <2>2 DEF Lock, localVars
<1>2. CASE DequeueTake(t)
  <2>1. CASE isEmpty(queue)
    <3>1. QueueShape' /\ MainRegister'
      BY <1>2, <2>1 DEF DequeueTake, QueueShape, MainRegister
    <3>2. WorkerRegister'
      BY <1>2, <2>1 DEF DequeueTake, WorkerRegister
    <3>3. QED BY <1>2, <2>1, <3>1, <3>2 DEF DequeueTake
  <2>2. CASE ~ isEmpty(queue)
    <3>0. /\ queue.size \in 1 .. Capacity /\ queue.front \in 0 .. Capacity - 1
          /\ queue.capacity = Capacity
      BY <2>2 DEF QueueShape, isEmpty
    <3>1. queue' = [queue EXCEPT !.front = (queue.front + 1) % Capacity]
      BY <1>2, <2>2, <3>0 DEF DequeueTake, DropFront, SuccIndex
    <3>2. (queue.front + 1) % Capacity \in 0 .. Capacity - 1
      BY <3>0, SuccIndexInRing
    <3>3. QueueShape' /\ queue'.size = queue.size
      BY <1>2, <3>1, <3>2 DEF DequeueTake, QueueShape
    <3>4. loaded' = [loaded EXCEPT ![t] = queue.size]
      BY <1>2, <2>2 DEF DequeueTake
    <3>5. MainRegister'
      BY <1>2, <3>3 DEF DequeueTake, MainRegister
    <3>6. WorkerRegister'
      BY <1>2, <2>2, <3>0, <3>3, <3>4 DEF DequeueTake, WorkerRegister
    <3>7. QED BY <1>2, <2>2, <3>0, <3>3, <3>4, <3>5, <3>6 DEF DequeueTake
  <2>3. QED BY <2>1, <2>2
<1>3. CASE DequeueSize(t)
  <2>1. /\ mutex = t /\ loaded[t] \in 1 .. queue.size
        /\ queue.size \in 0 .. Capacity
    BY <1>3 DEF DequeueSize, WorkerRegister, QueueShape
  <2>2. QueueShape' /\ queue'.size = loaded[t] - 1
    <3>1. queue' = [queue EXCEPT !.size = loaded[t] - 1]
      BY <1>3 DEF DequeueSize
    <3>2. loaded[t] - 1 \in 0 .. Capacity /\ loaded[t] - 1 < Capacity
      BY <2>1
    <3>3. UNCHANGED <<mpc, mfd>>
      BY <1>3 DEF DequeueSize
    <3>4. queue'.size = loaded[t] - 1 /\ queue'.size < Capacity
      BY <3>1, <3>2 DEF QueueShape
    <3>5. QED BY <3>1, <3>2, <3>3, <3>4 DEF QueueShape
  <2>3. MainRegister'
    BY <1>3, <2>1, <2>2 DEF DequeueSize, MainRegister
  <2>4. WorkerRegister'
    <3>1. \A u \in Threads : pc'[u] \in InDequeue => u # t /\ pc'[u] = pc[u]
      BY <1>3 DEF DequeueSize, InDequeue
    <3>2. \A u \in Threads : u # t => pc[u] \notin InDequeue
      BY <2>1 DEF WorkerRegister, InDequeue
    <3>3. QED BY <3>1, <3>2 DEF WorkerRegister, InDequeue
  <2>5. QED BY <1>3, <2>2, <2>3, <2>4 DEF DequeueSize
<1>4. QED BY <1>1, <1>2, <1>3

\* Main's own accesses to the queue.
LEMMA EnqueueSteps ==
    ASSUME PoolInv, EnqueueTest \/ EnqueuePut \/ EnqueueSize
    PROVE  PoolInv'
<1> USE CapacityAssumption DEF PoolInv, localVars, registryVars, processVars
<1>0. CASE EnqueueTest
  <2>1. UNCHANGED <<queue, mutex, pc, loaded>> /\ mpc' # "enqueueSize"
    BY <1>0 DEF EnqueueTest, poolVars
  <2>2. mpc' = "enqueuePut" => mfd' = mfd /\ queue.size < Capacity
    BY <1>0 DEF EnqueueTest, QueueShape, isFull
  <2>3. mpc' # "enqueue" /\ mpc = "enqueue"
    BY <1>0 DEF EnqueueTest
  <2>4. QueueShape' /\ MainRegister' /\ WorkerRegister'
    BY <2>1, <2>2, <2>3 DEF QueueShape, MainRegister, WorkerRegister
  <2>5. QED BY <1>0, <2>1, <2>4 DEF EnqueueTest
<1>1. CASE EnqueuePut
  <2> DEFINE r == (queue.rear + 1) % Capacity
  <2>0. /\ queue.size \in 0 .. Capacity - 1 /\ queue.capacity = Capacity
        /\ mfd \in Conns
    BY <1>1 DEF EnqueuePut, QueueShape
  <2>1. r \in 0 .. Capacity - 1
    BY SuccIndexInRing DEF QueueShape
  <2>2. queue' = [queue EXCEPT !.rear = r,
                               !.array = [queue.array EXCEPT ![r] = mfd]]
    BY <1>1, <2>0 DEF EnqueuePut, PutRear, SuccIndex
  <2>3. QueueShape' /\ queue'.size = queue.size
    <3>1. mpc' = "enqueueSize"
      BY <1>1 DEF EnqueuePut
    <3>2. [queue.array EXCEPT ![r] = mfd] \in [0 .. Capacity - 1 -> Conns \union Memory]
      BY <2>0, <2>1 DEF QueueShape
    <3>3. QED BY <2>0, <2>1, <2>2, <3>1, <3>2 DEF QueueShape
  <2>4. MainRegister'
    BY <1>1, <2>0, <2>3 DEF EnqueuePut, MainRegister
  <2>5. WorkerRegister'
    BY <1>1, <2>3 DEF EnqueuePut, WorkerRegister
  <2>6. QED BY <1>1, <2>3, <2>4, <2>5 DEF EnqueuePut
<1>2. CASE EnqueueSize
  <2>1. msize \in queue.size .. Capacity - 1 /\ queue.size \in 0 .. Capacity
    BY <1>2 DEF EnqueueSize, MainRegister, QueueShape
  <2>2. QueueShape' /\ queue'.size = msize + 1
    BY SMTT(30), <1>2, <2>1 DEF EnqueueSize, QueueShape
  <2>3. MainRegister'
    BY <1>2 DEF EnqueueSize, MainRegister
  <2>4. WorkerRegister'
    BY <1>2, <2>1, <2>2 DEF EnqueueSize, WorkerRegister
  <2>5. QED BY <1>2, <2>2, <2>3, <2>4 DEF EnqueueSize
<1>3. QED BY <1>0, <1>1, <1>2

\* The signal moves at most one worker, from its sleep to the mutex.
LEMMA SignalKeepsPool ==
    ASSUME PoolInv, Signal
    PROVE  PoolInv'
<1>1. /\ UNCHANGED <<queue, mutex, msize, mfd, loaded>>
      /\ UNCHANGED <<totalHandledNumber, totalPortNumber>>
      /\ mpc' \notin {"enqueue", "enqueuePut", "enqueueSize"}
      /\ pc' = pc \/ SignalCond
  BY DEF Signal, localVars, poolVars, registryVars, processVars
<1>2. CASE pc' = pc
  BY <1>1, <1>2 DEF PoolInv, QueueShape, MainRegister, WorkerRegister
<1>3. ASSUME NEW t \in Threads, pc[t] = "waiting", pc' = [pc EXCEPT ![t] = "woken"]
      PROVE  PoolInv'
  BY <1>1, <1>3 DEF PoolInv, QueueShape, MainRegister, WorkerRegister, Labels
<1>4. QED BY <1>1, <1>2, <1>3 DEF SignalCond

\* PoolInv is inductive.
LEMMA PoolInductive == PoolInv /\ [Next]_vars => PoolInv'
<1> SUFFICES ASSUME PoolInv, [Next]_vars PROVE PoolInv'
  OBVIOUS
<1>1. CASE MainStep
  <2>1. CASE ContactServant \/ Goodbye
    BY <2>1 DEF ContactServant, Goodbye, mainVars, localVars, poolVars,
       registryVars, PoolInv, QueueShape, MainRegister, WorkerRegister
  <2>2. QED
    BY <1>1, <2>1, EnqueueSteps, SignalKeepsPool DEF MainStep
<1>2. ASSUME NEW t \in Threads, WorkerStep(t) PROVE PoolInv'
  BY <1>2, QueueSteps, StepsAwayFromQueue, AwayKeepsPool DEF WorkerStep
<1>3. CASE Environment
  <2>1. ASSUME NEW c \in Conns, Accept(c) PROVE PoolInv'
    BY <2>1 DEF Accept, localVars, poolVars, registryVars, processVars,
       PoolInv, QueueShape, MainRegister, WorkerRegister
  <2>2. CASE Sigint
    BY <2>2 DEF Sigint, localVars, poolVars, registryVars,
       PoolInv, QueueShape, MainRegister, WorkerRegister
  <2>3. ASSUME NEW t \in Threads, SpuriousWakeup(t) \/ ReadUnwritten(t)
        PROVE  PoolInv'
    BY <2>3, StepsAwayFromQueue, AwayKeepsPool
  <2>4. ASSUME NEW s \in Servants, ServantListens(s) \/ ServantStops(s)
        PROVE  PoolInv'
    BY <2>4 DEF ServantListens, ServantStops, mainVars, localVars, poolVars,
       registryVars, processVars, PoolInv, QueueShape, MainRegister,
       WorkerRegister
  <2>5. QED BY <1>3, <2>1, <2>2, <2>3, <2>4 DEF Environment
<1>4. CASE UNCHANGED vars
  BY <1>4 DEF vars, mainVars, localVars, poolVars, registryVars, processVars,
     PoolInv, QueueShape, MainRegister, WorkerRegister
<1>5. QED BY <1>1, <1>2, <1>3, <1>4 DEF Next

-----------------------------------------------------------------------------
InDeclaration == {"declare", "register", "registered"}
InRequest == {"each", "connect", "answer", "reply", "count"}

\* A step of one worker that leaves the registry alone and has not just been
\* in it.
AwayFromRegistry(t) ==
    /\ UNCHANGED <<portList, totalPortNumber, fileMutex>>
    /\ pc' \in [Threads -> Labels] /\ temp' \in [Threads -> Messages]
    /\ pc'[t] \notin {"register", "registered"}
    /\ pc'[t] = "declare" => temp'[t].type = "SERVANT_DECLARATION"
    /\ pc'[t] \in InRequest => temp'[t].type = "CLIENT_REQUEST"
    /\ pc'[t] = "release" => temp'[t].type # "SERVANT_DECLARATION"
    /\ \A u \in Threads \ {t} :
          pc'[u] = pc[u] /\ temp'[u] = temp[u] /\ loaded'[u] = loaded[u]

\* Such a step keeps RegistryInv.
LEMMA AwayKeepsRegistry ==
    ASSUME RegistryInv, NEW t \in Threads, AwayFromRegistry(t)
    PROVE  RegistryInv'
<1> USE DEF RegistryInv, AwayFromRegistry, InRequest
<1>1. DeclarationIsKept'
  BY DEF DeclarationIsKept, registered
<1>2. QED BY <1>1

\* The steps of a worker that do not touch the registry.
LEMMA StepsAwayFromRegistry ==
    ASSUME PoolInv, RegistryInv, NEW t \in Threads,
           \/ TestSig(t) \/ TestQueue(t) \/ Wait(t) \/ Wake(t)
           \/ SpuriousWakeup(t) \/ Lock(t) \/ DequeueTake(t)
           \/ DequeueSize(t) \/ Claim(t) \/ Read(t) \/ ReadUnwritten(t)
           \/ Dispatch(t)
           \/ NextServant(t) \/ Connect(t) \/ Answer(t) \/ Reply(t)
           \/ Count(t) \/ Release(t)
    PROVE  AwayFromRegistry(t) \/ UNCHANGED <<pc, temp, loaded, registryVars>>
<1> USE DEF PoolInv, RegistryInv, AwayFromRegistry, InRequest, Goto, Labels,
        localVars, registryVars
<1>1. CASE TestSig(t)
  BY <1>1 DEF TestSig
<1>2. CASE TestQueue(t)
  BY <1>2 DEF TestQueue
<1>3. CASE Wait(t)
  BY <1>3 DEF Wait
<1>4. CASE Wake(t)
  BY <1>4 DEF Wake
<1>5. CASE SpuriousWakeup(t)
  BY <1>5 DEF SpuriousWakeup
<1>6. CASE Lock(t)
  BY <1>6 DEF Lock
<1>7. CASE DequeueTake(t)
  BY <1>7 DEF DequeueTake
<1>8. CASE DequeueSize(t)
  BY <1>8 DEF DequeueSize
<1>9. CASE Claim(t)
  BY <1>9 DEF Claim
<1>10. CASE Read(t)
  <2>1. CASE conn[fd[t]] # "open"
    BY <1>10, <2>1 DEF Read
  <2>2. CASE conn[fd[t]] = "open"
    <3>1. Sends[fd[t]] \in Messages
      BY <1>10 DEF Read, Messages
    <3>2. QED BY <1>10, <2>2, <3>1 DEF Read
  <2>3. QED BY <2>1, <2>2
<1>11. CASE Dispatch(t)
  BY <1>11 DEF Dispatch
<1>12. CASE NextServant(t)
  BY ZenonT(40), <1>12 DEF NextServant
<1>13. CASE Connect(t)
  BY SMTT(30), <1>13 DEF Connect
<1>14. CASE Answer(t)
  <2>1. /\ UNCHANGED <<temp, loaded, registryVars>>
        /\ pc[t] = "answer"
        /\ \E l \in {"each", "reply", "release"} : pc' = [pc EXCEPT ![t] = l]
    BY <1>14 DEF Answer
  <2>2. QED BY <2>1
<1>15. CASE Reply(t)
  BY <1>15 DEF Reply
<1>16. CASE Count(t)
  BY <1>16 DEF Count
<1>17. CASE Release(t)
  BY <1>17 DEF Release
<1>18. CASE ReadUnwritten(t)
  BY <1>18 DEF ReadUnwritten
<1>19. QED
  BY <1>1, <1>2, <1>3, <1>4, <1>5, <1>6, <1>7, <1>8, <1>9, <1>10, <1>11,
     <1>12, <1>13, <1>14, <1>15, <1>16, <1>17, <1>18

\* The steps of the worker that handles a declaration.
LEMMA DeclarationSteps ==
    ASSUME PoolInv, RegistryInv, NEW t \in Threads,
           Declare(t) \/ Register(t) \/ Registered(t)
    PROVE  /\ RegistryInv'
           /\ totalPortNumber' >= totalPortNumber
           /\ \A i \in 1 .. totalPortNumber : portList'[i] = portList[i]
<1> USE DEF PoolInv, RegistryInv, Goto, Labels, localVars, registryVars
<1>0. \A u \in Threads : u # NoItem
  BY DEF Threads, NoItem
<1>1. CASE Declare(t)
  <2>1. /\ UNCHANGED <<temp, loaded, portList, totalPortNumber>>
        /\ pc' = [pc EXCEPT ![t] = "register"]
        /\ fileMutex = NoItem /\ fileMutex' = t /\ pc[t] = "declare"
    BY <1>1 DEF Declare
  <2>2. DeclarationIsKept'
    BY <2>1 DEF DeclarationIsKept, registered
  <2>3. \A u \in Threads \ {t} : pc'[u] \notin {"register", "registered"}
    BY <1>0, <2>1
  <2>4. QED BY <2>1, <2>2, <2>3
<1>2. CASE Register(t)
  <2> DEFINE before == SubSeq(portList, 1, totalPortNumber)
  <2>1. fileMutex = t /\ temp[t] \in Messages
        /\ temp[t].type = "SERVANT_DECLARATION"
    BY <1>2 DEF Register
  <2>2. temp[t].servant \in Servants
    BY <2>1, MessagesAssumption
  <2>3. /\ before \in Seq(Servants) /\ Len(before) = totalPortNumber
        /\ \A i \in 1 .. totalPortNumber : before[i] = portList[i]
    <3>1. \A i \in 1 .. totalPortNumber : portList[i] \in Servants
      BY ElementOfSeq
    <3>2. QED BY <3>1, SubSeqProperties
  <2>4. /\ portList' \in Seq(Servants) /\ Len(portList') = totalPortNumber + 1
        /\ \A i \in 1 .. totalPortNumber : portList'[i] = portList[i]
        /\ portList'[totalPortNumber + 1] = temp[t].servant
    BY <1>2, <2>2, <2>3, AppendProperties DEF Register
  <2>5. UNCHANGED <<totalPortNumber, fileMutex, temp>>
        /\ pc' = [pc EXCEPT ![t] = "registered"]
        /\ loaded' = [loaded EXCEPT ![t] = totalPortNumber]
    BY <1>2 DEF Register
  <2>6. DeclarationIsKept'
    <3>1. registered' = registered
      BY <2>4, <2>5 DEF registered
    <3>2. QED BY <2>5, <3>1 DEF DeclarationIsKept
  <2>7. \A u \in Threads \ {t} : pc[u] \notin {"register", "registered"}
    BY <2>1
  <2>8. QED BY <2>1, <2>4, <2>5, <2>6, <2>7
<1>3. CASE Registered(t)
  <2>1. /\ fileMutex = t /\ loaded[t] = totalPortNumber
        /\ Len(portList) = totalPortNumber + 1
        /\ portList[totalPortNumber + 1] = temp[t].servant
    BY <1>3 DEF Registered
  <2>2. /\ totalPortNumber' = totalPortNumber + 1
        /\ UNCHANGED <<portList, temp>>
        /\ pc' = [pc EXCEPT ![t] = "release"]
        /\ loaded' = [loaded EXCEPT ![t] = 0]
    BY <1>3, <2>1 DEF Registered
  <2>3. registered \subseteq registered' /\ temp[t].servant \in registered'
    <3>1. /\ 1 .. totalPortNumber \subseteq 1 .. totalPortNumber'
          /\ totalPortNumber + 1 \in 1 .. totalPortNumber'
      BY <2>1, <2>2
    <3> HIDE DEF PoolInv, RegistryInv
    <3>2. QED BY <2>1, <2>2, <3>1 DEF registered
  <2>4. DeclarationIsKept'
    BY <2>2, <2>3 DEF DeclarationIsKept
  <2>5. \A u \in Threads \ {t} : pc[u] \notin {"register", "registered"}
    BY <2>1
  <2>6. QED BY <2>1, <2>2, <2>4, <2>5
<1>4. QED BY <1>1, <1>2, <1>3

\* RegistryInv is inductive, and no step takes an entry away.
LEMMA RegistryInductive ==
    ASSUME PoolInv, RegistryInv, [Next]_vars
    PROVE  /\ RegistryInv'
           /\ totalPortNumber' >= totalPortNumber
           /\ \A i \in 1 .. totalPortNumber : portList'[i] = portList[i]
<1> DEFINE Goal == /\ RegistryInv'
                   /\ totalPortNumber' >= totalPortNumber
                   /\ \A i \in 1 .. totalPortNumber : portList'[i] = portList[i]
<1>1. ASSUME UNCHANGED <<pc, temp, loaded, registryVars>> PROVE Goal
  BY <1>1 DEF RegistryInv, registryVars, DeclarationIsKept, registered
<1>2. ASSUME NEW t \in Threads, AwayFromRegistry(t) PROVE Goal
  BY <1>2, AwayKeepsRegistry DEF AwayFromRegistry, RegistryInv
<1>3. CASE MainStep
  <2>1. CASE Signal
    <3>1. UNCHANGED <<temp, loaded, registryVars>> /\ (pc' = pc \/ SignalCond)
      BY <2>1 DEF Signal, localVars
    <3>2. ASSUME NEW t \in Threads, pc[t] = "waiting",
                 pc' = [pc EXCEPT ![t] = "woken"]
          PROVE  AwayFromRegistry(t)
      BY <3>1, <3>2 DEF AwayFromRegistry, RegistryInv, InRequest, Labels,
         registryVars
    <3>3. QED BY <1>1, <1>2, <3>1, <3>2 DEF SignalCond
  <2>2. CASE EnqueueTest \/ EnqueuePut \/ EnqueueSize \/ ContactServant \/ Goodbye
    BY <1>1, <2>2 DEF EnqueueTest, EnqueuePut, EnqueueSize, ContactServant,
       Goodbye, localVars
  <2>3. QED BY <1>3, <2>1, <2>2 DEF MainStep
<1>4. ASSUME NEW t \in Threads, WorkerStep(t) PROVE Goal
  BY <1>1, <1>2, <1>4, StepsAwayFromRegistry, DeclarationSteps DEF WorkerStep
<1>5. CASE Environment
  <2>1. ASSUME NEW c \in Conns, Accept(c) PROVE Goal
    BY <1>1, <2>1 DEF Accept, localVars
  <2>2. CASE Sigint
    BY <1>1, <2>2 DEF Sigint, localVars
  <2>3. ASSUME NEW t \in Threads, SpuriousWakeup(t) \/ ReadUnwritten(t)
        PROVE  Goal
    BY <1>1, <1>2, <2>3, StepsAwayFromRegistry
  <2>4. ASSUME NEW s \in Servants, ServantListens(s) \/ ServantStops(s)
        PROVE  Goal
    BY <1>1, <2>4 DEF ServantListens, ServantStops, localVars
  <2>5. QED BY <1>5, <2>1, <2>2, <2>3, <2>4 DEF Environment
<1>6. CASE UNCHANGED vars
  BY <1>1, <1>6 DEF vars, localVars
<1>7. QED BY <1>3, <1>4, <1>5, <1>6 DEF Next

\* The two invariants together.
LEMMA ServerInvariants == Spec => [](PoolInv /\ RegistryInv)
<1>1. Init => PoolInv
  <2> SUFFICES ASSUME Init PROVE PoolInv
    OBVIOUS
  <2>1. PICK slots \in [0 .. Capacity - 1 -> Memory] :
            queue = createQueue(Capacity, slots)
    BY DEF Init
  <2>2. QueueShape
    BY <2>1, CapacityAssumption DEF Init, createQueue, QueueShape
  <2>3. QED
    BY <2>2 DEF Init, PoolInv, Labels, MainRegister, WorkerRegister
<1>2. Init => RegistryInv
  BY EmptySeq DEF Init, RegistryInv, DeclarationIsKept, Labels, Messages
<1>3. QED BY <1>1, <1>2, PoolInductive, RegistryInductive, PTL DEF Spec

(***************************************************************************)
(* However the unlocked enqueue of main interleaves with the workers'      *)
(* dequeues, the size of the queue never leaves 0 .. Capacity.             *)
(***************************************************************************)
THEOREM QueueSizeStaysInBounds == Spec => []SizeInBounds
<1>1. PoolInv => SizeInBounds
  BY DEF PoolInv, QueueShape, SizeInBounds
<1>2. QED BY <1>1, ServerInvariants, PTL

\* What StoresKeepDirection says of one step.
StoreKeepsDirection ==
    /\ mpc = "enqueueSize" /\ mpc' # mpc => queue'.size > queue.size
    /\ \A t \in Threads : pc[t] = "dequeueSize" /\ pc'[t] # pc[t]
          => queue'.size < queue.size

\* A step that stores no size: main stays at its store, a worker at its own.
StoresNothing ==
    /\ mpc = "enqueueSize" => mpc' = mpc
    /\ \A t \in Threads : pc[t] = "dequeueSize" => pc'[t] = pc[t]

\* The steps of a worker that are not DequeueSize.
LEMMA OtherWorkerSteps ==
    ASSUME PoolInv, NEW t \in Threads,
           WorkerStep(t) \/ SpuriousWakeup(t) \/ ReadUnwritten(t),
           pc[t] # "dequeueSize"
    PROVE  StoresNothing
<1> USE DEF PoolInv, StoresNothing
<1>1. CASE Lock(t) \/ DequeueTake(t)
  BY <1>1 DEF Lock, DequeueTake, Goto, mainVars
<1>2. CASE ~ (Lock(t) \/ DequeueTake(t))
  <2>1. AwayFromQueue(t)
    BY <1>2, StepsAwayFromQueue DEF WorkerStep, DequeueSize
  <2>2. QED BY <2>1 DEF AwayFromQueue
<1>3. QED BY <1>1, <1>2

\* The two stores, and nothing else, are what StoresKeepDirection is about.
LEMMA StoresDirected == PoolInv /\ [Next]_vars => StoreKeepsDirection
<1> SUFFICES ASSUME PoolInv, [Next]_vars PROVE StoreKeepsDirection
  OBVIOUS
<1>1. ASSUME StoresNothing PROVE StoreKeepsDirection
  BY <1>1 DEF StoresNothing, StoreKeepsDirection
<1>2. CASE MainStep
  <2>1. CASE EnqueueSize
    <3>1. queue'.size = msize + 1 /\ pc' = pc
      BY <2>1 DEF EnqueueSize, PoolInv, QueueShape
    <3>2. msize \in queue.size .. Capacity - 1 /\ queue.size \in 0 .. Capacity
      BY <2>1 DEF EnqueueSize, PoolInv, QueueShape, MainRegister
    <3>3. queue'.size > queue.size
      BY <3>1, <3>2, CapacityAssumption
    <3>4. QED BY <3>1, <3>3 DEF StoreKeepsDirection
  <2>2. CASE EnqueueTest \/ EnqueuePut \/ ContactServant \/ Goodbye
    BY <1>1, <2>2 DEF EnqueueTest, EnqueuePut, ContactServant, Goodbye, mainVars,
       StoresNothing
  <2>3. CASE Signal
    <3>1. mpc = "signal" /\ (pc' = pc \/ SignalCond)
      BY <2>3 DEF Signal
    <3>2. \A t \in Threads : pc[t] = "dequeueSize" => pc'[t] = pc[t]
      BY <3>1 DEF SignalCond, PoolInv
    <3>3. QED BY <1>1, <3>1, <3>2 DEF StoresNothing
  <2>4. QED BY <1>2, <2>1, <2>2, <2>3 DEF MainStep
<1>3. ASSUME NEW t \in Threads, WorkerStep(t) PROVE StoreKeepsDirection
  <2>1. CASE pc[t] = "dequeueSize"
    <3>1. DequeueSize(t)
      BY <1>3, <2>1 DEF WorkerStep, TestSig, TestQueue, Wait, Wake, Lock,
         DequeueTake, Claim, Read, Dispatch, NextServant, Connect, Answer,
         Reply, Count, Declare, Register, Registered, Release
    <3>2. /\ queue'.size = loaded[t] - 1 /\ loaded[t] <= queue.size
          /\ mpc' = mpc
      BY <3>1 DEF DequeueSize, PoolInv, QueueShape, WorkerRegister, mainVars
    <3>3. queue'.size < queue.size
      BY <3>1, <3>2 DEF DequeueSize, PoolInv, QueueShape, WorkerRegister
    <3>4. QED BY <3>2, <3>3 DEF StoreKeepsDirection
  <2>2. CASE pc[t] # "dequeueSize"
    BY <1>1, <1>3, <2>2, OtherWorkerSteps
  <2>3. QED BY <2>1, <2>2
<1>4. CASE Environment
  <2>1. ASSUME NEW c \in Conns, Accept(c) PROVE StoresNothing
    BY <2>1 DEF Accept, StoresNothing
  <2>2. CASE Sigint
    BY <1>1, <2>2 DEF Sigint, StoresNothing
  <2>3. ASSUME NEW t \in Threads, SpuriousWakeup(t) \/ ReadUnwritten(t)
        PROVE  StoresNothing
    BY <2>3, OtherWorkerSteps DEF SpuriousWakeup, ReadUnwritten
  <2>4. ASSUME NEW s \in Servants, ServantListens(s) \/ ServantStops(s)
        PROVE  StoresNothing
    BY <2>4 DEF ServantListens, ServantStops, mainVars, StoresNothing
  <2>5. QED BY <1>1, <1>4, <2>1, <2>2, <2>3, <2>4 DEF Environment
<1>5. CASE UNCHANGED vars
  BY <1>1, <1>5 DEF vars, mainVars, StoresNothing
<1>6. QED BY <1>2, <1>3, <1>4, <1>5 DEF Next

(***************************************************************************)
(* Main's store of the size always raises it and a worker's always lowers  *)
(* it, for any number of threads and any capacity: the race can lose an    *)
(* update of the other side, and do no more.                               *)
(***************************************************************************)
THEOREM StoresNeverOvershoot == Spec => StoresKeepDirection
<1>1. PoolInv /\ [Next]_vars =>
        [/\ mpc = "enqueueSize" /\ mpc' # mpc => queue'.size > queue.size
         /\ \A t \in Threads : pc[t] = "dequeueSize" /\ pc'[t] # pc[t]
               => queue'.size < queue.size]_vars
  BY StoresDirected DEF StoreKeepsDirection
<1>2. QED BY <1>1, ServerInvariants, PTL DEF Spec, StoresKeepDirection

(***************************************************************************)
(* No declaration is lost, however many workers handle declarations at the *)
(* same time.                                                              *)
(***************************************************************************)
THEOREM NoDeclarationIsLost == Spec => []DeclarationIsKept
<1>1. RegistryInv => DeclarationIsKept
  BY DEF RegistryInv
<1>2. QED BY <1>1, ServerInvariants, PTL

(***************************************************************************)
(* Readers of portList take no lock, and need none: what they can see is   *)
(* never taken away or overwritten.                                        *)
(***************************************************************************)
THEOREM RegistryIsAppendOnly == Spec => RegistryOnlyGrows
<1>1. PoolInv /\ RegistryInv /\ [Next]_vars =>
        [/\ totalPortNumber' >= totalPortNumber
         /\ \A i \in 1 .. totalPortNumber : portList'[i] = portList[i]]_vars
  BY RegistryInductive
<1>2. QED BY <1>1, ServerInvariants, PTL DEF Spec, RegistryOnlyGrows

\* A step in which main stays where it is and nobody ends with success.
LEMMA MainRests ==
    ASSUME PoolInv, RegistryInv, ToldInv, [Next]_vars, mainVars' = mainVars,
           told \subseteq told', exit' # "success"
    PROVE  ToldInv'
<1>1. /\ totalPortNumber' >= totalPortNumber
      /\ \A i \in 1 .. totalPortNumber : portList'[i] = portList[i]
      /\ totalPortNumber \in Nat /\ totalPortNumber' \in Nat
  <2>1. RegistryInv'
    BY RegistryInductive
  <2>2. totalPortNumber \in Nat /\ totalPortNumber' \in Nat
    BY <2>1 DEF RegistryInv
  <2>3. QED
    BY <2>2, RegistryInductive
<1>2. mindex' = mindex /\ mpc' = mpc /\ mindex \in Nat
  BY DEF mainVars, ToldInv
<1>3. QED
  BY <1>1, <1>2 DEF ToldInv, GoodbyeTellsAll

\* The steps of the workers never move main, and end with failure if at all.
LEMMA WorkersKeepTold ==
    ASSUME NEW t \in Threads, exit = "no",
           WorkerStep(t) \/ SpuriousWakeup(t) \/ ReadUnwritten(t)
    PROVE  mainVars' = mainVars /\ told' = told /\ exit' # "success"
<1> USE DEF mainVars, servantVars, processVars
<1>1. CASE TestSig(t) \/ TestQueue(t) \/ Wait(t) \/ Wake(t) \/ SpuriousWakeup(t)
  BY <1>1 DEF TestSig, TestQueue, Wait, Wake, SpuriousWakeup
<1>2. CASE Lock(t) \/ DequeueTake(t) \/ DequeueSize(t) \/ Claim(t)
  BY <1>2 DEF Lock, DequeueTake, DequeueSize, Claim
<1>3. CASE Read(t) \/ ReadUnwritten(t) \/ Dispatch(t) \/ NextServant(t)
           \/ Connect(t)
  BY <1>3 DEF Read, ReadUnwritten, Dispatch, NextServant, Connect
<1>4. CASE Answer(t) \/ Reply(t) \/ Count(t)
  BY <1>4 DEF Answer, Reply, Count
<1>5. CASE Declare(t) \/ Register(t) \/ Registered(t) \/ Release(t)
  BY <1>5 DEF Declare, Register, Registered, Release
<1>6. QED BY <1>1, <1>2, <1>3, <1>4, <1>5 DEF WorkerStep

LEMMA ToldInductive ==
    PoolInv /\ RegistryInv /\ ToldInv /\ [Next]_vars => ToldInv'
<1> SUFFICES ASSUME PoolInv, RegistryInv, ToldInv, [Next]_vars PROVE ToldInv'
  OBVIOUS
<1>1. CASE UNCHANGED vars
  BY <1>1 DEF vars, mainVars, registryVars, processVars, servantVars, ToldInv,
     GoodbyeTellsAll, registered
<1>2. CASE MainStep
  <2>1. CASE EnqueueTest \/ EnqueuePut \/ EnqueueSize \/ Signal
    BY <1>2, <2>1 DEF MainStep, EnqueueTest, EnqueuePut, EnqueueSize, Signal, processVars,
       ToldInv, GoodbyeTellsAll
  <2>2. CASE ContactServant
    <3>1. mpc = "contact" /\ mpc' = mpc /\ mindex < totalPortNumber
          /\ portList' = portList /\ totalPortNumber' = totalPortNumber
          /\ totalPortNumber \in Nat /\ mindex \in Nat
      BY <2>2 DEF ContactServant, registryVars, RegistryInv, ToldInv
    <3>2. \/ told' = told \union {portList[mindex + 1]}
             /\ mindex' = mindex + 1 /\ exit' = exit
          \/ told' = told /\ mindex' = mindex /\ exit' = "failure"
      BY <2>2 DEF ContactServant
    <3>3. exit = "no"
      BY <1>2 DEF MainStep
    <3>4. mindex' \in Nat /\ mindex' <= totalPortNumber
      BY <3>1, <3>2
    <3>5. \A i \in 1 .. mindex' : i \in 1 .. mindex \/ i = mindex + 1
      BY <3>1, <3>2
    <3>6. \A i \in 1 .. mindex' : portList'[i] \in told'
      BY <3>1, <3>2, <3>5 DEF ToldInv
    <3>7. QED BY <3>1, <3>2, <3>3, <3>4, <3>6 DEF ToldInv, GoodbyeTellsAll
  <2>3. CASE Goodbye
    <3>1. /\ mpc = "contact" /\ mindex >= totalPortNumber
          /\ mainVars' = mainVars /\ registryVars' = registryVars
          /\ servantVars' = servantVars
      BY <2>3 DEF Goodbye
    <3>2. \A i \in 1 .. totalPortNumber : portList[i] \in told
      BY <3>1 DEF ToldInv, RegistryInv
    <3>3. QED
      BY <3>1, <3>2 DEF mainVars, registryVars, servantVars, ToldInv,
         GoodbyeTellsAll, registered
  <2>4. QED BY <1>2, <2>1, <2>2, <2>3 DEF MainStep
<1>3. ASSUME NEW t \in Threads, WorkerStep(t) PROVE ToldInv'
  BY <1>3, WorkersKeepTold, MainRests DEF WorkerStep
<1>4. CASE Environment
  <2>1. ASSUME NEW c \in Conns, Accept(c) PROVE ToldInv'
    BY <1>4, <2>1 DEF Environment, Accept, processVars, ToldInv, GoodbyeTellsAll
  <2>2. CASE Sigint
    BY <1>4, <2>2 DEF Environment, Sigint, registryVars, servantVars, ToldInv,
       GoodbyeTellsAll, RegistryInv
  <2>3. ASSUME NEW t \in Threads, SpuriousWakeup(t) \/ ReadUnwritten(t)
        PROVE  ToldInv'
    BY <1>4, <2>3, WorkersKeepTold, MainRests DEF Environment
  <2>4. ASSUME NEW s \in Servants, ServantListens(s) \/ ServantStops(s)
        PROVE  ToldInv'
    BY <1>4, <2>4, MainRests DEF Environment, ServantListens, ServantStops,
       processVars
  <2>5. QED BY <1>4, <2>1, <2>2, <2>3, <2>4 DEF Environment
<1>5. QED BY <1>1, <1>2, <1>3, <1>4 DEF Next

(***************************************************************************)
(* When the server says goodbye, every registered servant was sent EXIT or *)
(* is dead, however many workers register servants during the loop.        *)
(***************************************************************************)
THEOREM GoodbyeIsTold == Spec => []GoodbyeTellsAll
<1>1. Init => ToldInv
  BY DEF Init, ToldInv, GoodbyeTellsAll
<1>2. ToldInv => GoodbyeTellsAll
  BY DEF ToldInv
<1>3. QED
  BY <1>1, <1>2, ServerInvariants, ToldInductive, PTL DEF Spec
-----------------------------------------------------------------------------
\* A set of indices that is not empty has a least one.
LEMMA LeastElement ==
    ASSUME NEW S \in SUBSET Nat, S # {}
    PROVE  \E i \in S : \A j \in S : i <= j
<1> DEFINE R == OpToRel(<, Nat)
<1>1. \E x \in S : \A y \in S : ~ (<<y, x>> \in R)
  <2> HIDE DEF R
  <2>1. IsWellFoundedOn(R, Nat)
    BY NatLessThanWellFounded DEF R
  <2>2. QED BY <2>1, WFMin
<1>2. \A x, y \in Nat : y < x => <<y, x>> \in R
  BY DEF OpToRel
<1>3. PICK x \in S : \A y \in S : ~ (<<y, x>> \in R)
  BY <1>1
<1> HIDE DEF R
<1>4. \A y \in S : ~ (y < x)
  BY <1>2, <1>3, Zenon
<1>5. QED BY <1>4

\* findPortNumber finds a registered servant that declared the city, if
\* there is one, and nobody otherwise.
LEMMA FindsAServant ==
    ASSUME RegistryInv, NEW city
    PROVE  \/ /\ findPortNumber(city) \in Servants
              /\ findPortNumber(city) \in registered
              /\ city \in Cities[findPortNumber(city)]
           \/ /\ findPortNumber(city) = Nobody
              /\ \A s \in registered : city \notin Cities[s]
<1>1. CASE Handling(city) = {}
  BY <1>1 DEF Handling, findPortNumber, registered
<1>2. CASE Handling(city) # {}
  <2> DEFINE k == CHOOSE i \in Handling(city) : \A j \in Handling(city) : i <= j
  <2>1. Handling(city) \in SUBSET Nat
    BY DEF Handling, RegistryInv
  <2>2. k \in Handling(city)
    BY <1>2, <2>1, LeastElement
  <2>3. findPortNumber(city) = portList[k]
    BY <1>2 DEF findPortNumber
  <2> HIDE DEF k
  <2>4. k \in 1 .. totalPortNumber /\ city \in Cities[portList[k]]
    BY <2>2 DEF Handling
  <2>5. portList[k] \in Servants /\ portList[k] \in registered
    BY <2>4, ElementOfSeq DEF RegistryInv, registered
  <2>6. QED BY <2>3, <2>4, <2>5
<1>3. QED BY <1>1, <1>2

\* The variables only main changes, and the ones only workers change.
MainTypes ==
    /\ mpc \in {"accept", "enqueue", "enqueuePut", "enqueueSize", "signal",
               "contact"}
    /\ mfd \in Conns \union {NoItem}
    /\ msize \in Nat /\ mindex \in Nat
    /\ sig \in BOOLEAN
    /\ reported \in Nat \union {NoItem}
    /\ exit \in {"no", "success", "failure"}
    /\ told \in SUBSET Servants

WorkerTypes ==
    /\ fd \in [Threads -> Conns \union Memory \union {NoItem}]
    /\ loaded \in [Threads -> Nat]
    /\ query \in [Threads -> [i : Nat, target : Servants \union {Nobody},
                              asked : Seq(Asking)]]
    /\ response \in [Threads -> [BOOLEAN -> Responses]]
    /\ mutex \in Threads \union {NoItem}
    /\ fileMutex \in Threads \union {NoItem}
    /\ statusArray \in [Threads -> {"FREE", "IN_USE"}]
    /\ totalHandledNumber \in Nat

PeerTypes ==
    /\ conn \in [Conns -> {"idle", "open", "closed"}]
    /\ unread \in SUBSET Conns
    /\ reply \in [Conns -> Replies \union {Nobody}]
    /\ known \in [Conns -> SUBSET Servants]
    /\ servant \in [Servants -> {"starting", "listening", "gone"}]

\* With the two invariants these are all the types.
LEMMA TypesTogether ==
    PoolInv /\ RegistryInv =>
        (TypeOK <=> MainTypes /\ WorkerTypes /\ PeerTypes)
<1>1. PoolInv => queue \in [front : 0 .. Capacity - 1, rear : 0 .. Capacity - 1,
                  size : Int, capacity : {Capacity},
                  array : [0 .. Capacity - 1 -> Conns \union Memory]]
  BY DEF PoolInv, QueueShape
<1>2. RegistryInv => /\ portList \in Seq(Servants) /\ totalPortNumber \in Nat
                     /\ temp \in [Threads -> Messages]
                     /\ pc \in [Threads -> Labels]
  BY DEF RegistryInv
<1>3. QED BY <1>1, <1>2 DEF TypeOK, MainTypes, WorkerTypes, PeerTypes
\* The steps of main keep the types.
LEMMA MainKeepsTypes ==
    ASSUME TypeOK, PoolInv, RegistryInv, MainStep
    PROVE  MainTypes' /\ WorkerTypes' /\ PeerTypes'
<1> USE TypesTogether DEF MainTypes, WorkerTypes, PeerTypes, localVars, poolVars,
        registryVars, processVars, peerVars, servantVars
<1>0. CASE EnqueueTest
  BY <1>0 DEF EnqueueTest
<1>1. CASE EnqueuePut
  BY <1>1 DEF EnqueuePut, PoolInv, QueueShape
<1>2. CASE EnqueueSize
  BY <1>2 DEF EnqueueSize
<1>3. CASE Signal
  BY <1>3 DEF Signal
<1>4. CASE ContactServant
  <2>1. portList[mindex + 1] \in Servants
    BY <1>4, ElementOfSeq DEF ContactServant, RegistryInv
  <2>2. QED BY SMTT(30), <1>4, <2>1 DEF ContactServant
<1>5. CASE Goodbye
  BY <1>5 DEF Goodbye, mainVars
<1>6. QED BY <1>0, <1>1, <1>2, <1>3, <1>4, <1>5 DEF MainStep

\* What query[t] may be, and that the two updates of it stay in there.
Queries == [i : Nat, target : Servants \union {Nobody}, asked : Seq(Asking)]

LEMMA QueryMovesOn ==
    ASSUME NEW f \in [Threads -> Queries], NEW t \in Threads,
           NEW s \in Servants \union {Nobody}
    PROVE  [f EXCEPT ![t].i = f[t].i + 1, ![t].target = s] \in [Threads -> Queries]
<1> DEFINE g == [f EXCEPT ![t].i = f[t].i + 1]
<1>1. g \in [Threads -> Queries]
  <2>1. f[t].i + 1 \in Nat
    BY DEF Queries
  <2>2. ASSUME NEW n \in Nat PROVE [f EXCEPT ![t].i = n] \in [Threads -> Queries]
    BY DEF Queries
  <2>3. QED BY <2>1, <2>2
<1>2. [f EXCEPT ![t].i = f[t].i + 1, ![t].target = s] = [g EXCEPT ![t].target = s]
  OBVIOUS
<1> HIDE DEF g
<1>3. [g EXCEPT ![t].target = s] \in [Threads -> Queries]
  BY <1>1 DEF Queries
<1>4. QED BY <1>2, <1>3

LEMMA QueryRecords ==
    ASSUME NEW f \in [Threads -> Queries], NEW t \in Threads,
           NEW x \in Asking
    PROVE  [f EXCEPT ![t].asked = Append(f[t].asked, x)] \in [Threads -> Queries]
<1>1. f[t].asked \in Seq(Asking)
  BY DEF Queries
<1>2. Append(f[t].asked, x) \in Seq(Asking)
  BY <1>1, AppendProperties
<1>3. QED BY <1>2 DEF Queries

\* What a worker takes for the servant's answer, and how it goes on: with the
\* answer, or after an error of read with the end of the iteration.
LEMMA AnswerTakes ==
    ASSUME NEW t \in Threads, Answer(t)
    PROVE  \/ \E x \in StackLeft(t) \union {AnswerOf(query[t].target, temp[t])} :
                 /\ x = AnswerOf(query[t].target, temp[t])
                       \/ servant[query[t].target] = "gone"
                 /\ query' = [query EXCEPT ![t].asked = Append(query[t].asked,
                                 [servant |-> query[t].target, got |-> x])]
                 /\ response' = [response EXCEPT ![t][temp[t].city = "ALL"] = x]
                 /\ pc' = [pc EXCEPT ![t] =
                               IF temp[t].city = "ALL" THEN "each" ELSE "reply"]
           \/ UNCHANGED <<query, response>> /\ pc' = [pc EXCEPT ![t] = "release"]
BY DEF Answer, Goto

\* So do those of the workers.
LEMMA WorkersKeepTypes ==
    ASSUME TypeOK, PoolInv, RegistryInv, NEW t \in Threads,
           WorkerStep(t) \/ SpuriousWakeup(t) \/ ReadUnwritten(t)
    PROVE  MainTypes' /\ WorkerTypes' /\ PeerTypes'
<1> USE TypesTogether DEF MainTypes, WorkerTypes, PeerTypes, localVars, poolVars,
        registryVars, processVars, peerVars, servantVars, mainVars
<1>1. CASE TestSig(t) \/ TestQueue(t) \/ Wait(t) \/ Wake(t) \/ SpuriousWakeup(t)
  BY <1>1 DEF TestSig, TestQueue, Wait, Wake, SpuriousWakeup
<1>2. CASE Lock(t)
  BY <1>2 DEF Lock
<1>3. CASE DequeueTake(t)
  <2>1. queue.size \in Nat /\ front(queue) \in Conns \union Memory \union {NoItem}
    BY CapacityAssumption DEF PoolInv, QueueShape, front
  <2>2. QED BY <1>3, <2>1 DEF DequeueTake
<1>4. CASE DequeueSize(t) \/ Claim(t)
  <2>1. CASE DequeueSize(t)
    BY <2>1 DEF DequeueSize
  <2>2. CASE Claim(t)
    BY <2>2 DEF Claim
  <2>3. QED BY <1>4, <2>1, <2>2
<1>5. CASE Read(t) \/ ReadUnwritten(t) \/ Connect(t)
  BY <1>5 DEF Read, ReadUnwritten, Connect
<1>6. CASE Dispatch(t)
  <2>1. findPortNumber(temp[t].city) \in Servants \union {Nobody}
    BY FindsAServant
  <2>2. query' = query \/ query' = [query EXCEPT ![t].target = findPortNumber(temp[t].city)]
    BY <1>6 DEF Dispatch
  <2>3. QED BY ZenonT(40), <1>6, <2>1, <2>2 DEF Dispatch
<1>7. CASE NextServant(t)
  <2>1. query[t].i < totalPortNumber => portList[query[t].i + 1] \in Servants
    BY ElementOfSeq DEF RegistryInv
  <2>0. query \in [Threads -> Queries]
    BY DEF Queries
  <2>2. query' = query \/ \E s \in Servants :
          query' = [query EXCEPT ![t].i = query[t].i + 1, ![t].target = s]
    BY <1>7, <2>1 DEF NextServant
  <2> HIDE DEF WorkerTypes
  <2>3. query' \in [Threads -> Queries]
    BY <2>0, <2>2, QueryMovesOn
  <2> USE DEF WorkerTypes
  <2>4. QED BY <1>7, <2>3 DEF NextServant, Queries
<1>8. CASE Answer(t)
  <2> DEFINE to == query[t].target
  <2>1. to \in Servants \union {Nobody} /\ temp[t] \in Messages
    BY DEF RegistryInv
  <2>2. StackLeft(t) \union {AnswerOf(to, temp[t])} \subseteq Responses
    BY <2>1 DEF StackLeft, AnswerOf, Responses
  <2>3. /\ UNCHANGED <<mainVars, fd, loaded, poolVars, registryVars, processVars,
                       peerVars, servantVars>>
    BY <1>8 DEF Answer
  <2>4. query \in [Threads -> Queries] /\ response \in [Threads -> [BOOLEAN -> Responses]]
    BY DEF Queries
  <2>5. query' \in [Threads -> Queries] /\ response' \in [Threads -> [BOOLEAN -> Responses]]
    <3>1. CASE UNCHANGED <<query, response>>
      BY <2>4, <3>1
    <3>2. ASSUME NEW x \in Responses,
                 query' = [query EXCEPT ![t].asked =
                             Append(query[t].asked, [servant |-> to, got |-> x])],
                 response' = [response EXCEPT ![t][temp[t].city = "ALL"] = x]
          PROVE  query' \in [Threads -> Queries]
                 /\ response' \in [Threads -> [BOOLEAN -> Responses]]
      <4>1. [servant |-> to, got |-> x] \in Asking
        BY <2>1 DEF Asking
      <4> HIDE DEF to, WorkerTypes
      <4>2. query' \in [Threads -> Queries]
        BY <2>4, <3>2, <4>1, QueryRecords
      <4>3. response' \in [Threads -> [BOOLEAN -> Responses]]
        BY <2>4, <3>2
      <4>4. QED BY <4>2, <4>3
    <3>3. QED BY <1>8, <2>2, <3>1, <3>2, AnswerTakes
  <2>6. QED BY <2>3, <2>5 DEF Queries
<1>9. CASE Reply(t)
  <2>1. temp[t] \in Messages
    BY DEF RegistryInv
  <2>2. QED BY <1>9, <2>1 DEF Reply, Replies
<1>10. CASE Count(t) \/ Registered(t)
  <2>1. Closed(fd[t]) \in [Conns -> {"idle", "open", "closed"}]
    BY DEF Closed
  <2>2. CASE Count(t)
    BY SMTT(30), <2>1, <2>2 DEF Count
  <2>3. CASE Registered(t)
    BY <2>1, <2>3 DEF Registered
  <2>4. QED BY <1>10, <2>2, <2>3
<1>11. CASE Declare(t) \/ Register(t)
  <2>1. totalPortNumber \in Nat
    BY DEF RegistryInv
  <2>2. CASE Declare(t)
    BY <2>2 DEF Declare
  <2>3. CASE Register(t)
    BY <2>1, <2>3 DEF Register
  <2>4. QED BY <1>11, <2>2, <2>3
<1>12. CASE Release(t)
  BY <1>12, EmptySeq DEF Release, NoQuery
<1>13. QED
  BY <1>1, <1>2, <1>3, <1>4, <1>5, <1>6, <1>7, <1>8, <1>9, <1>10, <1>11, <1>12
     DEF WorkerStep

\* And those of the peers, the servants and the operating system.
LEMMA EnvironmentKeepsTypes ==
    ASSUME TypeOK, PoolInv, RegistryInv, Environment
    PROVE  MainTypes' /\ WorkerTypes' /\ PeerTypes'
<1> USE TypesTogether DEF MainTypes, WorkerTypes, PeerTypes, localVars, poolVars,
        registryVars, processVars, peerVars, servantVars, mainVars
<1>1. ASSUME NEW c \in Conns, Accept(c) PROVE MainTypes' /\ WorkerTypes' /\ PeerTypes'
  <2>1. registered \subseteq Servants
    BY ElementOfSeq DEF registered, RegistryInv
  <2>2. QED BY <1>1, <2>1 DEF Accept
<1>2. CASE Sigint
  BY <1>2 DEF Sigint
<1>3. ASSUME NEW s \in Servants, ServantListens(s) \/ ServantStops(s)
      PROVE  MainTypes' /\ WorkerTypes' /\ PeerTypes'
  <2>1. UNCHANGED <<mainVars, pc, localVars, poolVars, registryVars,
                    processVars, peerVars, told>>
    BY <1>3 DEF ServantListens, ServantStops
  <2>2. servant' \in [Servants -> {"starting", "listening", "gone"}]
    BY <1>3 DEF ServantListens, ServantStops
  <2>3. MainTypes'
    BY <2>1
  <2>4. WorkerTypes'
    BY <2>1
  <2>5. PeerTypes'
    BY <2>1, <2>2
  <2>6. QED BY <2>3, <2>4, <2>5
<1>4. QED BY <1>1, <1>2, <1>3, WorkersKeepTypes DEF Environment

(***************************************************************************)
(* Every variable keeps the type the code relies on: in particular no      *)
(* register and no counter becomes negative, and what a worker takes from  *)
(* the queue is a descriptor, an unwritten slot or nothing.                *)
(***************************************************************************)
THEOREM ServerTypes == Spec => []TypeOK
<1>1. Init => MainTypes /\ WorkerTypes /\ PeerTypes
  <2>1. <<>> \in Seq(Asking)
    BY EmptySeq
  <2>2. Init => MainTypes
    <3>1. Init => sig \in BOOLEAN /\ told \in SUBSET Servants
      BY Zenon DEF Init
    <3>2. QED BY <3>1 DEF Init, MainTypes
  <2>3. Init => WorkerTypes
    BY <2>1 DEF Init, WorkerTypes, NoQuery, Responses
  <2>4. Init => PeerTypes
    BY DEF Init, PeerTypes
  <2>5. QED BY <2>2, <2>3, <2>4
<1>2. TypeOK /\ PoolInv /\ RegistryInv /\ [Next]_vars
        => MainTypes' /\ WorkerTypes' /\ PeerTypes'
  <2>1. ASSUME TypeOK, PoolInv, RegistryInv, UNCHANGED vars
        PROVE  MainTypes' /\ WorkerTypes' /\ PeerTypes'
    BY <2>1, TypesTogether DEF vars, mainVars, localVars, poolVars, registryVars,
       processVars, peerVars, servantVars, MainTypes, WorkerTypes, PeerTypes
  <2>2. QED
    BY <2>1, MainKeepsTypes, WorkersKeepTypes, EnvironmentKeepsTypes DEF Next
<1>3. (PoolInv /\ RegistryInv)' /\ MainTypes' /\ WorkerTypes' /\ PeerTypes'
        => TypeOK'
  BY TypesTogether, PTL
<1>4. QED
  BY <1>1, <1>2, <1>3, TypesTogether, ServerInvariants, PTL DEF Spec
-----------------------------------------------------------------------------
\* What every step leaves: a connection that was accepted, an answer that was
\* given, an entry that was counted and a servant that stopped stay so.
Onward ==
    /\ \A c \in Conns : conn[c] # "idle" => conn'[c] # "idle" /\ known'[c] = known[c]
    /\ \A c \in Conns : reply[c] # Nobody => reply'[c] = reply[c]
    /\ \A s \in Servants : servant[s] = "gone" => servant'[s] = "gone"
    /\ totalPortNumber' \in Nat /\ totalPortNumber' >= totalPortNumber
    /\ \A i \in 1 .. totalPortNumber : portList'[i] = portList[i]

LEMMA ClosedIsNotIdle ==
    ASSUME NEW d
    PROVE  \A c \in Conns : conn[c] # "idle" => Closed(d)[c] # "idle"
BY DEF Closed

LEMMA StepsGoOnward ==
    ASSUME TypeOK, PoolInv, RegistryInv, [Next]_vars
    PROVE  Onward
<1>0. /\ totalPortNumber' \in Nat /\ totalPortNumber' >= totalPortNumber
      /\ \A i \in 1 .. totalPortNumber : portList'[i] = portList[i]
  <2>1. RegistryInv'
    BY RegistryInductive
  <2>2. totalPortNumber' \in Nat
    BY <2>1 DEF RegistryInv
  <2>3. QED BY <2>2, RegistryInductive
<1> DEFINE Still == UNCHANGED <<conn, known, reply, servant>>
<1>1. Still => Onward
  BY <1>0 DEF Onward
<1> USE DEF localVars, poolVars, registryVars, processVars, peerVars,
        servantVars, mainVars
<1>2. CASE UNCHANGED vars
  BY <1>1, <1>2 DEF vars
<1>3. CASE MainStep
  <2>1. Still
    BY <1>3 DEF MainStep, EnqueueTest, EnqueuePut, EnqueueSize, Signal,
       ContactServant, Goodbye
  <2>2. QED BY <1>1, <2>1
<1>4. ASSUME NEW t \in Threads, WorkerStep(t) \/ SpuriousWakeup(t) \/ ReadUnwritten(t)
      PROVE  Onward
  <2>1. CASE TestSig(t) \/ TestQueue(t) \/ Wait(t) \/ Wake(t) \/ SpuriousWakeup(t)
             \/ Lock(t) \/ DequeueTake(t) \/ DequeueSize(t) \/ Claim(t)
    BY <1>1, <2>1 DEF TestSig, TestQueue, Wait, Wake, SpuriousWakeup, Lock,
       DequeueTake, DequeueSize, Claim
  <2>2. CASE Read(t) \/ ReadUnwritten(t) \/ Dispatch(t) \/ NextServant(t)
             \/ Connect(t) \/ Answer(t)
    BY <1>1, <2>2 DEF Read, ReadUnwritten, Dispatch, NextServant, Connect, Answer
  <2>3. CASE Declare(t) \/ Register(t) \/ Release(t)
    BY <1>1, <2>3 DEF Declare, Register, Release
  <2>4. CASE Reply(t)
    BY <1>0, <2>4 DEF Reply, Onward, TypeOK
  <2>5. CASE Count(t) \/ Registered(t)
    <3>1. conn' = Closed(fd[t]) /\ UNCHANGED <<known, reply, servant>>
      BY <2>5 DEF Count, Registered
    <3>2. QED BY <1>0, <3>1, ClosedIsNotIdle DEF Onward
  <2>6. QED
    BY <1>4, <2>1, <2>2, <2>3, <2>4, <2>5 DEF WorkerStep
<1>5. CASE Environment
  <2>1. ASSUME NEW c \in Conns, Accept(c) PROVE Onward
    BY <1>0, <2>1 DEF Accept, Onward, TypeOK
  <2>2. CASE Sigint
    BY <1>1, <2>2 DEF Sigint
  <2>3. ASSUME NEW s \in Servants, ServantListens(s) \/ ServantStops(s)
        PROVE  Onward
    BY <1>0, <2>3 DEF ServantListens, ServantStops, Onward, TypeOK
  <2>4. QED BY <1>4, <1>5, <2>1, <2>2, <2>3 DEF Environment
<1>6. QED BY <1>2, <1>3, <1>4, <1>5 DEF Next

\* The servants that are registered stay so.
LEMMA RegisteredGrows ==
    ASSUME RegistryInv, Onward
    PROVE  registered \subseteq registered' /\ registered \subseteq Servants
<1>1. \A i \in 1 .. totalPortNumber :
         i \in 1 .. totalPortNumber' /\ portList'[i] = portList[i]
  BY DEF RegistryInv, Onward
<1>2. registered \subseteq Servants
  BY ElementOfSeq DEF RegistryInv, registered
<1>3. QED BY <1>1, <1>2 DEF registered

\* What one worker knows of its request.
WorkerKnows(t) ==
    /\ AnswersItsPeer(t) /\ AsksEveryone(t) /\ AsksWhoDeclared(t)
    /\ GotOwnAnswers(t) /\ ForgetsItsQuery(t)

Same(t) == pc'[t] = pc[t] /\ fd'[t] = fd[t] /\ temp'[t] = temp[t] /\ query'[t] = query[t]

\* What servants answered stays what they answered.
StillOwn(r, m) ==
    \A i \in 1 .. Len(r.asked) :
        LET s == r.asked[i].servant
        IN  r.asked[i].got = AnswerOf(s, m) \/ servant'[s] = "gone"

LEMMA OwnAnswersStay ==
    ASSUME Onward, NEW r, NEW m, AskedIn(r) \subseteq Servants, OwnAnswers(r, m)
    PROVE  StillOwn(r, m)
BY DEF Onward, OwnAnswers, StillOwn, AskedIn

\* It survives whatever the others do.
LEMMA OthersKeepKnowledge ==
    ASSUME TypeOK, RegistryInv, AnswerInv, Onward, NEW t \in Threads, Same(t)
    PROVE  WorkerKnows(t)'
<1> USE DEF Same, Onward, AnswerInv
<1>0. Asked(t)' = Asked(t)
  BY DEF Asked, AskedIn
<1>1. AnswersItsPeer(t)'
  BY DEF AnswersItsPeer
<1>2. AsksEveryone(t)'
  <2> SUFFICES ASSUME pc[t] \in {"each", "connect", "answer", "reply"},
                      temp[t].city = "ALL"
               PROVE  AsksEveryone(t)'
    BY DEF AsksEveryone
  <2> DEFINE i == query[t].i
             n == IF pc[t] \in {"connect", "answer"} THEN i - 1 ELSE i
  <2>1. /\ i \in Nat /\ totalPortNumber \in Nat /\ i <= totalPortNumber
        /\ pc[t] \in {"connect", "answer"} => i > 0 /\ query[t].target = portList[i]
        /\ \A j \in 1 .. n : portList[j] \in Asked(t)
        /\ pc[t] = "reply" /\ fd[t] \in Conns => known[fd[t]] \subseteq Asked(t)
    BY DEF AsksEveryone, TypeOK, RegistryInv
  <2>2. i <= totalPortNumber'
    BY <2>1
  <2>3. pc[t] \in {"connect", "answer"} => query[t].target = portList'[i]
    BY <2>1
  <2>4. \A j \in 1 .. n : portList'[j] \in Asked(t)
    <3>1. \A j \in 1 .. n : j \in 1 .. totalPortNumber
      BY <2>1
    <3>2. \A j \in 1 .. n : portList'[j] = portList[j]
      BY <3>1
    <3> HIDE DEF n
    <3>3. QED BY <2>1, <3>2
  <2>5. pc[t] = "reply" /\ fd[t] \in Conns => known'[fd[t]] \subseteq Asked(t)
    BY <2>1 DEF AnswersItsPeer
  <2>6. QED
    BY <1>0, <2>1, <2>2, <2>3, <2>4, <2>5 DEF AsksEveryone
<1>3. AsksWhoDeclared(t)'
  <2>1. pc[t] \in {"connect", "answer", "reply"} /\ fd[t] \in Conns
          => known'[fd[t]] = known[fd[t]]
    BY DEF AnswersItsPeer
  <2>2. QED BY <1>0, <2>1 DEF AsksWhoDeclared
<1>4. ForgetsItsQuery(t)'
  BY DEF ForgetsItsQuery
<1>5. GotOwnAnswers(t)'
  <2>1. ASSUME pc[t] \in {"each", "connect", "answer", "reply"}
        PROVE  Asked(t) \subseteq Servants /\ StillOwn(query[t], temp[t])
    BY <2>1, OwnAnswersStay DEF GotOwnAnswers, Asked
  <2>2. QED BY <1>0, <2>1 DEF GotOwnAnswers, OwnAnswers, StillOwn
<1>6. QED BY <1>1, <1>2, <1>3, <1>4, <1>5 DEF WorkerKnows

\* And so does what was answered already.
LEMMA AnswersStand ==
    ASSUME TypeOK, RegistryInv, AnswerInv, Onward, reply' = reply,
           \A c \in Conns : known'[c] = known[c] \/ known'[c] = registered
    PROVE  ConnsKnown' /\ AnswersTheRequest'
<1>1. ConnsKnown'
  BY RegisteredGrows DEF AnswerInv, ConnsKnown, Onward, AskedIn
<1>2. ASSUME NEW c \in Conns, Sends[c].type = "CLIENT_REQUEST", reply[c] # Nobody
      PROVE  known'[c] = known[c] /\ StillOwn(reply[c], Sends[c])
  <2>1. AskedIn(reply[c]) \subseteq Servants /\ OwnAnswers(reply[c], Sends[c])
    BY <1>2 DEF AnswerInv, ConnsKnown, AnswersTheRequest, Fits
  <2>2. QED BY <1>2, <2>1, OwnAnswersStay DEF AnswerInv, ConnsKnown, Onward
<1>3. AnswersTheRequest'
  BY <1>2 DEF AnswerInv, AnswersTheRequest, Fits, AskedIn, OwnAnswers, StillOwn
<1>4. QED BY <1>1, <1>3
\* A step of one worker leaves the others as they are.
LEMMA OneWorkerMoves ==
    ASSUME TypeOK, NEW t \in Threads,
           WorkerStep(t) \/ SpuriousWakeup(t) \/ ReadUnwritten(t)
    PROVE  /\ \A u \in Threads \ {t} : Same(u)
           /\ known' = known
           /\ Reply(t) \/ reply' = reply
<1> USE DEF TypeOK, Same, Goto, localVars, peerVars
<1>1. CASE TestSig(t) \/ TestQueue(t) \/ Wait(t) \/ Wake(t) \/ SpuriousWakeup(t)
  BY <1>1 DEF TestSig, TestQueue, Wait, Wake, SpuriousWakeup
<1>2. CASE Lock(t) \/ DequeueTake(t) \/ DequeueSize(t) \/ Claim(t)
  BY <1>2 DEF Lock, DequeueTake, DequeueSize, Claim
<1>3. CASE Read(t) \/ ReadUnwritten(t) \/ Connect(t)
  BY <1>3 DEF Read, ReadUnwritten, Connect
<1>4. CASE Dispatch(t) \/ NextServant(t)
  BY SMTT(30), <1>4 DEF Dispatch, NextServant
<1>5. CASE Answer(t)
  BY <1>5 DEF Answer
<1>6. CASE Reply(t) \/ Count(t)
  BY <1>6 DEF Reply, Count
<1>7. CASE Declare(t) \/ Register(t) \/ Registered(t) \/ Release(t)
  BY <1>7 DEF Declare, Register, Registered, Release
<1>8. QED
  BY <1>1, <1>2, <1>3, <1>4, <1>5, <1>6, <1>7 DEF WorkerStep

\* A worker that is not between its read and its reply knows nothing.
LEMMA IdleKnowsNothing ==
    ASSUME NEW t \in Threads,
           pc'[t] \notin {"dispatch", "each", "connect", "answer", "reply"},
           pc'[t] \in {"count", "release"} \/ query'[t] = NoQuery
    PROVE  WorkerKnows(t)'
BY DEF WorkerKnows, AnswersItsPeer, AsksEveryone, AsksWhoDeclared, GotOwnAnswers,
   ForgetsItsQuery

\* The steps that are not on the way through a request.
LEMMA StepsWithoutRequest ==
    ASSUME TypeOK, RegistryInv, AnswerInv, Onward, NEW t \in Threads,
           \/ TestSig(t) \/ TestQueue(t) \/ Wait(t) \/ Wake(t)
           \/ SpuriousWakeup(t) \/ Lock(t) \/ DequeueTake(t)
           \/ DequeueSize(t) \/ Claim(t) \/ Count(t)
           \/ Declare(t) \/ Register(t) \/ Registered(t) \/ Release(t)
    PROVE  WorkerKnows(t)'
<1> USE IdleKnowsNothing DEF TypeOK, Goto, localVars, ForgetsItsQuery, AnswerInv
<1>1. CASE TestSig(t)
  <2>1. Same(t) \/ (pc'[t] = "test" /\ query' = query /\ pc[t] = "top")
    BY <1>1 DEF TestSig, Same
  <2>2. QED BY <2>1, OthersKeepKnowledge
<1>2. CASE TestQueue(t) \/ Wait(t) \/ Wake(t) \/ SpuriousWakeup(t)
  BY <1>2 DEF TestQueue, Wait, Wake, SpuriousWakeup
<1>3. CASE Lock(t) \/ DequeueTake(t) \/ DequeueSize(t) \/ Claim(t)
  BY ZenonT(40), <1>3 DEF Lock, DequeueTake, DequeueSize, Claim
<1>4. CASE Count(t)
  BY <1>4 DEF Count
<1>5. CASE Declare(t) \/ Register(t) \/ Registered(t) \/ Release(t)
  BY ZenonT(40), <1>5 DEF Declare, Register, Registered, Release
<1>6. QED BY <1>1, <1>2, <1>3, <1>4, <1>5

\* read: what is in temp now is from the peer, or the peer was answered.
LEMMA ReadSteps ==
    ASSUME TypeOK, RegistryInv, AnswerInv, Onward, NEW t \in Threads,
           Read(t) \/ ReadUnwritten(t)
    PROVE  WorkerKnows(t)'
<1> USE DEF TypeOK, Goto, localVars, AnswerInv
<1>1. CASE pc' = pc
  <2>1. Same(t)
    BY <1>1 DEF Read, ReadUnwritten, Same
  <2>2. QED BY <2>1, OthersKeepKnowledge
<1>2. CASE ~ (pc' = pc)
  <2>1. pc'[t] = "dispatch" /\ query'[t] = NoQuery /\ fd' = fd
    BY <1>2 DEF Read, ReadUnwritten, ForgetsItsQuery
  <2>2. AnswersItsPeer(t)'
    <3>1. CASE ReadUnwritten(t)
      BY <2>1, <3>1 DEF ReadUnwritten, AnswersItsPeer
    <3>2. CASE Read(t)
      <4>1. /\ conn[fd[t]] = "open" /\ conn' = conn /\ reply' = reply
            /\ fd[t] \in unread \/ PeerClosed(fd[t])
            /\ temp' = IF fd[t] \in unread /\ Sends[fd[t]] # NoMessage
                       THEN [temp EXCEPT ![t] = Sends[fd[t]]] ELSE temp
        BY <1>2, <3>2 DEF Read
      <4>2. ASSUME Sends[fd[t]].type = "CLIENT_REQUEST", reply[fd[t]] = Nobody
            PROVE  temp'[t] = Sends[fd[t]]
        <5>1. fd[t] \in unread
          BY <4>1, <4>2 DEF PeerClosed
        <5>2. Sends[fd[t]] # NoMessage
          BY <4>2 DEF NoMessage
        <5>3. QED BY <4>1, <5>1, <5>2
      <4>3. QED BY <2>1, <4>1, <4>2 DEF AnswersItsPeer
    <3>3. QED BY <3>1, <3>2
  <2>3. QED
    BY <2>1, <2>2 DEF WorkerKnows, AsksEveryone, AsksWhoDeclared, GotOwnAnswers,
       ForgetsItsQuery
<1>3. QED BY <1>1, <1>2

\* A request about ALL begins with nobody asked; one about a city with the
\* servant that findPortNumber found.
LEMMA DispatchStep ==
    ASSUME TypeOK, RegistryInv, AnswerInv, Onward, NEW t \in Threads, Dispatch(t)
    PROVE  WorkerKnows(t)'
<1> USE DEF TypeOK, Goto, localVars, peerVars, registryVars, servantVars, AnswerInv
<1>0. /\ pc[t] = "dispatch" /\ query[t] = NoQuery
      /\ UNCHANGED <<fd, temp, conn, reply, known, portList, totalPortNumber, servant>>
  BY DEF Dispatch, ForgetsItsQuery
<1>1. AnswersItsPeer(t)'
  BY <1>0 DEF AnswersItsPeer
<1>2. ForgetsItsQuery(t)'
  BY <1>0 DEF Dispatch, ForgetsItsQuery
<1>3. AsksEveryone(t)'
  <2>0. pc'[t] = "each" => temp[t].city = "ALL"
    BY <1>0 DEF Dispatch
  <2>1. ASSUME temp[t].city = "ALL", pc'[t] \in {"each", "connect", "answer", "reply"}
        PROVE  pc'[t] = "each" /\ query'[t].i = 0
    BY SMTT(30), <1>0, <2>1 DEF Dispatch, NoQuery
  <2>2. totalPortNumber' \in Nat
    BY DEF Onward
  <2>3. \A j \in 1 .. 0 : FALSE
    OBVIOUS
  <2>4. QED BY <1>0, <2>0, <2>1, <2>2, <2>3 DEF AsksEveryone
<1>4. AsksWhoDeclared(t)'
  <2> SUFFICES ASSUME temp[t].city # "ALL", pc'[t] \in {"connect", "answer", "reply"}
               PROVE  AsksWhoDeclared(t)'
    BY <1>0 DEF AsksWhoDeclared
  <2> DEFINE s == findPortNumber(temp[t].city)
  <2>1. /\ query' = [query EXCEPT ![t].target = s]
        /\ pc'[t] = IF s = Nobody THEN "reply" ELSE "connect"
    BY <1>0 DEF Dispatch
  <2>2. query'[t].target = s /\ query'[t].asked = <<>>
    BY <1>0, <2>1 DEF NoQuery
  <2>3. Asked(t)' = {}
    BY <2>2 DEF Asked, AskedIn
  <2>4. s # Nobody => temp[t].city \in Cities[s]
    BY FindsAServant
  <2>5. s = Nobody => \A k \in registered : temp[t].city \notin Cities[k]
    BY FindsAServant, ServantsAssumption
  <2>6. s = Nobody /\ fd[t] \in Conns
          => \A k \in known[fd[t]] : temp[t].city \notin Cities[k]
    BY <2>5 DEF ConnsKnown
  <2> HIDE DEF s
  <2>7. QED BY <1>0, <2>1, <2>2, <2>3, <2>4, <2>6 DEF AsksWhoDeclared
<1>5. GotOwnAnswers(t)'
  <2>1. query'[t].asked = <<>>
    BY <1>0 DEF Dispatch, NoQuery
  <2>2. QED BY <2>1 DEF GotOwnAnswers, OwnAnswers, Asked, AskedIn
<1>6. QED BY <1>1, <1>2, <1>3, <1>4, <1>5 DEF WorkerKnows

\* At the end of the loop all entries were asked, and what the peer knows
\* is among them.
LEMMA NextServantStep ==
    ASSUME TypeOK, RegistryInv, AnswerInv, Onward, NEW t \in Threads, NextServant(t)
    PROVE  WorkerKnows(t)'
<1> USE DEF TypeOK, Goto, localVars, peerVars, registryVars, servantVars, AnswerInv
<1> DEFINE i == query[t].i
<1>0. /\ pc[t] = "each" /\ temp[t].city = "ALL" /\ i \in Nat /\ i <= totalPortNumber
      /\ totalPortNumber \in Nat
      /\ \A j \in 1 .. i : portList[j] \in Asked(t)
      /\ UNCHANGED <<fd, temp, conn, reply, known, portList, totalPortNumber, servant>>
  BY DEF NextServant, AsksEveryone
<1>1. AnswersItsPeer(t)' /\ ForgetsItsQuery(t)' /\ AsksWhoDeclared(t)'
  BY <1>0 DEF AnswersItsPeer, NextServant, ForgetsItsQuery, AsksWhoDeclared
<1>2. query'[t].asked = query[t].asked
  BY DEF NextServant
<1>3. GotOwnAnswers(t)'
  <2>1. Asked(t) \subseteq Servants /\ OwnAnswers(query[t], temp[t])
    BY <1>0 DEF GotOwnAnswers
  <2>2. QED BY <1>0, <1>2, <2>1 DEF GotOwnAnswers, OwnAnswers, Asked, AskedIn
<1>4. CASE i < totalPortNumber
  <2>1. /\ query'[t].i = i + 1 /\ query'[t].target = portList[i + 1]
        /\ query'[t].asked = query[t].asked /\ pc'[t] = "connect"
    BY <1>4 DEF NextServant
  <2>2. Asked(t)' = Asked(t)
    BY <2>1 DEF Asked, AskedIn
  <2> HIDE DEF i
  <2>3. (i + 1) - 1 = i /\ i + 1 > 0 /\ i + 1 <= totalPortNumber
    BY <1>0, <1>4
  <2>4. AsksEveryone(t)'
    BY <1>0, <2>1, <2>2, <2>3 DEF AsksEveryone
  <2>5. QED BY <1>1, <1>3, <2>4 DEF WorkerKnows
<1>5. CASE ~ (i < totalPortNumber)
  <2>1. query'[t] = query[t] /\ pc'[t] = "reply" /\ i = totalPortNumber
    BY <1>0, <1>5 DEF NextServant
  <2>2. Asked(t)' = Asked(t)
    BY <2>1 DEF Asked, AskedIn
  <2>3. registered \subseteq Asked(t)
    BY <1>0, <2>1 DEF registered
  <2>4. fd[t] \in Conns => known[fd[t]] \subseteq Asked(t)
    BY <2>3 DEF ConnsKnown
  <2>5. AsksEveryone(t)'
    BY <1>0, <2>1, <2>2, <2>4 DEF AsksEveryone
  <2>6. QED BY <1>1, <1>3, <2>5 DEF WorkerKnows
<1>6. QED BY <1>4, <1>5
\* Who has been asked, and what was got, when one more was asked.
LEMMA AskedOneMore ==
    ASSUME NEW S, NEW x \in S, NEW q, q.asked \in Seq(S),
           NEW r, r.asked = Append(q.asked, x)
    PROVE  /\ AskedIn(r) = AskedIn(q) \union {x.servant}
           /\ \A i \in 1 .. Len(r.asked) :
                 r.asked[i] = x \/ \E j \in 1 .. Len(q.asked) : r.asked[i] = q.asked[j]
<1> DEFINE p == q.asked
           n == Len(p)
<1>1. /\ n \in Nat /\ Len(r.asked) = n + 1 /\ r.asked[n + 1] = x
      /\ \A i \in 1 .. n : r.asked[i] = p[i]
  BY AppendProperties, LenProperties
<1> HIDE DEF n, p
<1>2. \A i \in 1 .. n + 1 : i \in 1 .. n \/ i = n + 1
  BY <1>1
<1>3. 1 .. n \subseteq 1 .. n + 1 /\ n + 1 \in 1 .. n + 1
  BY <1>1
<1>4. AskedIn(r) = {p[i].servant : i \in 1 .. n} \union {x.servant}
  BY <1>1, <1>2, <1>3 DEF AskedIn
<1>5. \A i \in 1 .. n + 1 : r.asked[i] = x \/ \E j \in 1 .. n : r.asked[i] = p[j]
  BY <1>1, <1>2
<1>6. QED BY <1>1, <1>4, <1>5 DEF AskedIn, p, n

\* connect leaves the query; the answer of the servant is noted in it.
LEMMA AskingSteps ==
    ASSUME TypeOK, RegistryInv, AnswerInv, Onward, NEW t \in Threads,
           Connect(t) \/ Answer(t)
    PROVE  WorkerKnows(t)'
<1> USE DEF TypeOK, Goto, localVars, peerVars, registryVars, servantVars, AnswerInv
<1>1. CASE Connect(t)
  <2>1. Same(t) \/ (pc[t] = "connect" /\ pc'[t] = "answer")
    BY <1>1 DEF Connect, Same
  <2>2. UNCHANGED <<fd, temp, query, conn, reply, known, portList, totalPortNumber, servant>>
    BY <1>1 DEF Connect
  <2>3. ASSUME pc[t] = "connect", pc'[t] = "answer" PROVE WorkerKnows(t)'
    BY <2>2, <2>3 DEF WorkerKnows, AnswersItsPeer, AsksEveryone, AsksWhoDeclared,
       ForgetsItsQuery, GotOwnAnswers, OwnAnswers, Asked
  <2>4. QED BY <2>1, <2>3, OthersKeepKnowledge
<1>2. CASE Answer(t)
  <2> DEFINE s == query[t].target
  <2>0. /\ pc[t] = "answer"
        /\ UNCHANGED <<fd, temp, conn, reply, known, portList, totalPortNumber, servant>>
    BY <1>2 DEF Answer
  <2>1. CASE pc' = [pc EXCEPT ![t] = "release"]
    BY <2>1, IdleKnowsNothing
  <2>2. ASSUME NEW x \in Responses,
               x = AnswerOf(s, temp[t]) \/ Gone(s),
               query' = [query EXCEPT ![t].asked =
                           Append(query[t].asked, [servant |-> s, got |-> x])],
               pc' = [pc EXCEPT ![t] = IF temp[t].city = "ALL" THEN "each" ELSE "reply"]
        PROVE  WorkerKnows(t)'
    <3> DEFINE new == [servant |-> s, got |-> x]
    <3>1. new.servant = s /\ new.got = x
      OBVIOUS
    <3>2. s \in Servants
      <4>1. CASE temp[t].city = "ALL"
        <5>1. query[t].i \in 1 .. totalPortNumber /\ s = portList[query[t].i]
          BY <2>0, <4>1 DEF AsksEveryone
        <5>2. QED BY <5>1, ElementOfSeq DEF RegistryInv
      <4>2. CASE temp[t].city # "ALL"
        BY <2>0, <4>2 DEF AsksWhoDeclared
      <4>3. QED BY <4>1, <4>2
    <3>3. /\ query'[t].asked = Append(query[t].asked, new)
          /\ query'[t].i = query[t].i /\ query'[t].target = s
          /\ pc'[t] = IF temp[t].city = "ALL" THEN "each" ELSE "reply"
      <4>1. query[t] \in Queries /\ query \in [Threads -> Queries]
        BY DEF Queries
      <4> HIDE DEF new
      <4>2. query' = [query EXCEPT ![t].asked = Append(query[t].asked, new)]
        BY <2>2 DEF new
      <4>3. query'[t] = [query[t] EXCEPT !.asked = Append(query[t].asked, new)]
        BY <4>1, <4>2
      <4>4. QED BY <2>2, <4>1, <4>3 DEF Queries
    <3>4. query[t].asked \in Seq(Asking) /\ new \in Asking
      BY <3>2 DEF Asking
    <3>5. /\ Asked(t)' = Asked(t) \union {s}
          /\ \A i \in 1 .. Len(query'[t].asked) :
                \/ query'[t].asked[i] = new
                \/ \E j \in 1 .. Len(query[t].asked) :
                      query'[t].asked[i] = query[t].asked[j]
      <4> DEFINE old == query[t]
                 later == query'[t]
      <4>1. /\ old.asked \in Seq(Asking) /\ new \in Asking
            /\ later.asked = Append(old.asked, new) /\ new.servant = s
        BY <3>3, <3>4
      <4> HIDE DEF old, later, new
      <4>2. AskedIn(later) = AskedIn(old) \union {new.servant}
        BY <4>1, AskedOneMore
      <4>3. \A i \in 1 .. Len(later.asked) :
               \/ later.asked[i] = new
               \/ \E j \in 1 .. Len(old.asked) : later.asked[i] = old.asked[j]
        BY <4>1, AskedOneMore
      <4>4. QED BY <4>1, <4>2, <4>3 DEF Asked, old, later
    <3>6. GotOwnAnswers(t)'
      <4>1. Asked(t) \subseteq Servants /\ OwnAnswers(query[t], temp[t])
        BY <2>0 DEF GotOwnAnswers
      <4>2. \A i \in 1 .. Len(query'[t].asked) :
               LET a == query'[t].asked[i]
               IN  a.got = AnswerOf(a.servant, temp[t]) \/ servant[a.servant] = "gone"
        <5> SUFFICES ASSUME NEW i \in 1 .. Len(query'[t].asked)
                     PROVE  LET a == query'[t].asked[i]
                            IN  \/ a.got = AnswerOf(a.servant, temp[t])
                                \/ servant[a.servant] = "gone"
          OBVIOUS
        <5>1. CASE query'[t].asked[i] = new
          <6> HIDE DEF new
          <6>1. QED BY <2>2, <3>1, <5>1 DEF Gone
        <5>2. CASE \E j \in 1 .. Len(query[t].asked) :
                      query'[t].asked[i] = query[t].asked[j]
          BY <4>1, <5>2 DEF OwnAnswers
        <5>3. QED BY <3>5, <5>1, <5>2
      <4> HIDE DEF new
      <4>3. QED BY <2>0, <3>2, <3>5, <4>1, <4>2 DEF GotOwnAnswers, OwnAnswers
    <3>7. AnswersItsPeer(t)' /\ ForgetsItsQuery(t)'
      BY <2>0, <3>3 DEF AnswersItsPeer, ForgetsItsQuery
    <3>8. AsksEveryone(t)'
      <4>1. CASE temp[t].city = "ALL"
        <5> DEFINE i == query[t].i
        <5>1. /\ i \in Nat /\ i > 0 /\ i <= totalPortNumber /\ s = portList[i]
              /\ \A j \in 1 .. i - 1 : portList[j] \in Asked(t)
          BY <2>0, <4>1 DEF AsksEveryone
        <5>2. portList[i] \in Asked(t)'
          BY <3>5, <5>1
        <5>3. \A j \in 1 .. i : j = i \/ j \in 1 .. i - 1
          BY <5>1
        <5> HIDE DEF i
        <5>4. \A j \in 1 .. i : portList[j] \in Asked(t)'
          BY <3>5, <5>1, <5>2, <5>3
        <5>5. QED BY <2>0, <3>3, <4>1, <5>1, <5>4 DEF AsksEveryone, i
      <4>2. CASE temp[t].city # "ALL"
        BY <2>0, <3>3, <4>2 DEF AsksEveryone
      <4>3. QED BY <4>1, <4>2
    <3>9. AsksWhoDeclared(t)'
      <4>1. CASE temp[t].city = "ALL"
        BY <2>0, <3>3, <4>1 DEF AsksWhoDeclared
      <4>2. CASE temp[t].city # "ALL"
        <5>1. /\ s # Nobody /\ temp[t].city \in Cities[s]
              /\ \A a \in Asked(t) : temp[t].city \in Cities[a]
          BY <2>0, <4>2 DEF AsksWhoDeclared
        <5>2. \A a \in Asked(t)' : temp[t].city \in Cities[a]
          BY <3>5, <5>1
        <5>3. QED BY <2>0, <3>3, <5>1, <5>2 DEF AsksWhoDeclared
      <4>3. QED BY <4>1, <4>2
    <3>10. QED BY <3>7, <3>8, <3>9, <3>6 DEF WorkerKnows
  <2>3. StackLeft(t) \union {AnswerOf(s, temp[t])} \subseteq Responses
    BY DEF StackLeft, AnswerOf, Responses, RegistryInv
  <2>4. QED BY <1>2, <2>1, <2>2, <2>3, AnswerTakes DEF Gone
<1>3. QED BY <1>1, <1>2

\* The answer that is written is right for the peer that reads it.
LEMMA ReplyStep ==
    ASSUME TypeOK, RegistryInv, AnswerInv, Onward, NEW t \in Threads, Reply(t)
    PROVE  WorkerKnows(t)' /\ ConnsKnown' /\ AnswersTheRequest'
<1> USE DEF TypeOK, Goto, localVars, peerVars, registryVars, servantVars, AnswerInv
<1> DEFINE c == fd[t]
           found == temp[t].city = "ALL" \/ query[t].target # Nobody
           r == [type |-> IF found THEN "RESPONSE" ELSE "NO_CITY_RESPONSE",
                 to |-> temp[t], asked |-> query[t].asked]
<1>0. /\ pc[t] = "reply" /\ pc'[t] = "count"
      /\ UNCHANGED <<fd, temp, query, conn, known, portList, totalPortNumber, servant>>
      /\ reply' = IF c \in Conns /\ conn[c] = "open" /\ reply[c] = Nobody
                  THEN [reply EXCEPT ![c] = r] ELSE reply
  BY DEF Reply
<1>1. WorkerKnows(t)'
  BY <1>0, IdleKnowsNothing
<1>2. CASE reply' = reply
  BY <1>0, <1>1, <1>2, AnswersStand
<1>3. CASE c \in Conns /\ conn[c] = "open" /\ reply[c] = Nobody
  <2>1. ConnsKnown'
    <3>1. registered' = registered
      BY <1>0 DEF registered
    <3>2. \A d \in Conns : reply'[d] # reply[d]
                         => conn[d] = "open" /\ reply'[d].asked = query[t].asked
      BY <1>0, <1>3
    <3>3. Asked(t) \subseteq Servants
      BY <1>0 DEF GotOwnAnswers
    <3>4. ASSUME NEW d \in Conns, reply'[d] # Nobody
          PROVE  conn[d] # "idle" /\ AskedIn(reply'[d]) \subseteq Servants
      <4>1. CASE reply'[d] = reply[d]
        BY <3>4, <4>1 DEF ConnsKnown
      <4>2. CASE reply'[d] # reply[d]
        <5>1. conn[d] = "open" /\ reply'[d].asked = query[t].asked
          BY <3>2, <4>2
        <5>2. AskedIn(reply'[d]) = Asked(t)
          BY <5>1 DEF Asked, AskedIn
        <5>3. QED BY <3>3, <5>1, <5>2
      <4>3. QED BY <4>1, <4>2
    <3>5. QED BY <1>0, <3>1, <3>4 DEF ConnsKnown, AskedIn
  <2>2. ASSUME Sends[c].type = "CLIENT_REQUEST" PROVE Fits(c, r)
    <3>1. temp[t] = Sends[c]
      BY <1>0, <1>3, <2>2 DEF AnswersItsPeer
    <3>2. temp[t].city = "ALL" => known[c] \subseteq Asked(t)
      BY <1>0, <1>3 DEF AsksEveryone
    <3>3. temp[t].city # "ALL" =>
            /\ \A a \in Asked(t) : temp[t].city \in Cities[a]
            /\ query[t].target = Nobody =>
                  \A k \in known[c] : temp[t].city \notin Cities[k]
      BY <1>0, <1>3 DEF AsksWhoDeclared
    <3>4. AskedIn(r) = Asked(t)
      BY DEF Asked, AskedIn
    <3>5. /\ r.to = temp[t]
          /\ r.type = "NO_CITY_RESPONSE" => temp[t].city # "ALL" /\ query[t].target = Nobody
      OBVIOUS
    <3>6. OwnAnswers(r, temp[t])
      BY <1>0 DEF GotOwnAnswers, OwnAnswers
    <3> HIDE DEF c, r
    <3>7. Sends[c].city = "ALL" => known[c] \subseteq Asked(t)
      BY <3>1, <3>2, Zenon
    <3>8. r.type = "NO_CITY_RESPONSE" => \A s \in known[c] : Sends[c].city \notin Cities[s]
      BY <3>1, <3>3, <3>5, Zenon
    <3>9. Sends[c].city # "ALL" => \A s \in Asked(t) : Sends[c].city \in Cities[s]
      BY <3>1, <3>3, Zenon
    <3>10. QED
      BY <3>1, <3>4, <3>5, <3>7, <3>8, <3>9, <3>6, Zenon DEF Fits
  <2>3. \A d \in Conns : reply'[d] = IF d = c THEN r ELSE reply[d]
    BY <1>0, <1>3
  <2>4. \A d \in Conns : Sends[d].type = "CLIENT_REQUEST" /\ reply'[d] # Nobody
            => Fits(d, reply'[d])
    BY <2>2, <2>3 DEF AnswersTheRequest
  <2>6. AnswersTheRequest'
    BY ZenonT(40), <1>0, <2>4 DEF AnswersTheRequest, Fits, AskedIn, OwnAnswers
  <2>7. QED BY <1>1, <2>1, <2>6
<1>4. QED BY <1>0, <1>2, <1>3

\* AnswerInv is inductive relative to the types and the registry.
LEMMA AnswerInductive ==
    TypeOK /\ PoolInv /\ RegistryInv /\ AnswerInv /\ [Next]_vars => AnswerInv'
<1> SUFFICES ASSUME TypeOK, PoolInv, RegistryInv, AnswerInv, [Next]_vars
             PROVE  AnswerInv'
  OBVIOUS
<1>1. Onward
  BY StepsGoOnward
<1>2. ASSUME \A t \in Threads : WorkerKnows(t)', ConnsKnown', AnswersTheRequest'
      PROVE  AnswerInv'
  BY <1>2 DEF AnswerInv, WorkerKnows
<1>3. ASSUME \A t \in Threads : Same(t), reply' = reply,
             \A c \in Conns : known'[c] = known[c] \/ known'[c] = registered
      PROVE  AnswerInv'
  BY <1>1, <1>2, <1>3, OthersKeepKnowledge, AnswersStand
<1>4. ASSUME NEW t \in Threads, WorkerStep(t) \/ SpuriousWakeup(t) \/ ReadUnwritten(t)
      PROVE  AnswerInv'
  <2>1. \A u \in Threads \ {t} : WorkerKnows(u)'
    BY <1>1, <1>4, OneWorkerMoves, OthersKeepKnowledge
  <2>2. CASE Reply(t)
    BY <1>1, <1>2, <2>1, <2>2, ReplyStep
  <2>3. CASE ~ Reply(t)
    <3>1. WorkerKnows(t)'
      BY <1>1, <1>4, <2>3, StepsWithoutRequest, ReadSteps, DispatchStep,
         NextServantStep, AskingSteps DEF WorkerStep
    <3>2. ConnsKnown' /\ AnswersTheRequest'
      BY <1>1, <1>4, <2>3, OneWorkerMoves, AnswersStand
    <3>3. QED BY <1>2, <2>1, <3>1, <3>2
  <2>4. QED BY <2>2, <2>3
<1>5. CASE MainStep
  <2>1. CASE Signal
    <3>1. UNCHANGED <<fd, temp, query, reply, known>> /\ (pc' = pc \/ SignalCond)
      BY <2>1 DEF Signal, localVars, peerVars
    <3>2. ASSUME NEW t \in Threads, pc[t] = "waiting", pc' = [pc EXCEPT ![t] = "woken"]
          PROVE  AnswerInv'
      <4>1. \A u \in Threads \ {t} : WorkerKnows(u)'
        BY <1>1, <3>1, <3>2, OthersKeepKnowledge DEF Same, TypeOK
      <4>2. WorkerKnows(t)'
        BY <3>1, <3>2, IdleKnowsNothing DEF TypeOK, AnswerInv, ForgetsItsQuery
      <4>3. ConnsKnown' /\ AnswersTheRequest'
        BY <1>1, <3>1, AnswersStand
      <4>4. QED BY <1>2, <4>1, <4>2, <4>3
    <3>3. QED BY <1>3, <3>1, <3>2 DEF SignalCond, Same
  <2>2. CASE EnqueueTest \/ EnqueuePut \/ EnqueueSize \/ ContactServant \/ Goodbye
    BY <1>3, <2>2 DEF EnqueueTest, EnqueuePut, EnqueueSize, ContactServant, Goodbye,
       localVars, peerVars, Same
  <2>3. QED BY <1>5, <2>1, <2>2 DEF MainStep
<1>6. CASE Environment
  <2>1. ASSUME NEW c \in Conns, Accept(c) PROVE AnswerInv'
    BY <1>3, <2>1 DEF Accept, localVars, Same, TypeOK
  <2>2. CASE Sigint
    BY <1>3, <2>2 DEF Sigint, localVars, peerVars, Same
  <2>3. ASSUME NEW s \in Servants, ServantListens(s) \/ ServantStops(s)
        PROVE  AnswerInv'
    BY <1>3, <2>3 DEF ServantListens, ServantStops, localVars, peerVars, Same
  <2>4. QED BY <1>4, <1>6, <2>1, <2>2, <2>3 DEF Environment
<1>7. CASE UNCHANGED vars
  BY <1>3, <1>7 DEF vars, localVars, peerVars, Same
<1>8. QED BY <1>4, <1>5, <1>6, <1>7 DEF Next

LEMMA AnswerInvariant == Spec => []AnswerInv
<1>1. Init => AnswerInv
  BY DEF Init, AnswerInv, AnswersItsPeer, AsksEveryone, AsksWhoDeclared,
     GotOwnAnswers, ForgetsItsQuery, ConnsKnown, AnswersTheRequest
<1>2. QED
  BY <1>1, ServerTypes, ServerInvariants, AnswerInductive, PTL DEF Spec

(***************************************************************************)
(* For any number of workers, connections and servants, with the races on  *)
(* the queue and descriptors shared or read at their end: a client is sent *)
(* what was made for its own request, with every servant asked that was    *)
(* registered when it connected and that the request is about, and every   *)
(* number in it is what that servant answered to this request, unless that *)
(* servant died after the worker connected to it.  Of a servant that died  *)
(* nothing is claimed: the code then forwards what response held before,   *)
(* which may be an answer to another client.                               *)
(***************************************************************************)
THEOREM AnswersAreRight == Spec => []AnswersTheRequest
<1>1. AnswerInv => AnswersTheRequest
  BY DEF AnswerInv
<1>2. QED
  BY <1>1, AnswerInvariant, PTL
-----------------------------------------------------------------------------
InHand == {"dequeueSize", "claim", "read"}

\* What SharingInv says where SlotsTell.
Sharing ==
    /\ SlotsHold
    /\ \A t \in Threads : fd[t] \in Memory => pc[t] \in InHand
    /\ Noticed \/ NobodyPastSlots

\* A step that neither writes nor takes a slot: a worker drops what it has in
\* hand, if anything, but not what an unwritten slot held.
LeavesSlots ==
    /\ queue'.front = queue.front /\ queue'.rear = queue.rear
    /\ queue'.array = queue.array
    /\ \A c \in Conns : conn[c] # "idle" => conn'[c] # "idle"
    /\ mpc' \in {"enqueue", "enqueuePut"}
          => mpc \in {"enqueue", "enqueuePut"} /\ mfd' = mfd
    /\ \A t \in Threads :
          /\ fd'[t] = fd[t] \/ (fd'[t] = NoItem /\ fd[t] \notin Memory)
          /\ fd'[t] \in Memory => pc'[t] \in InHand

LEMMA LeavesSlotsKeepsSharing ==
    ASSUME TypeOK, PoolInv, SlotsTell, Sharing, LeavesSlots
    PROVE  Sharing'
<1>1. Written' = Written
  BY DEF LeavesSlots, Written
<1>2. SlotsHold'
  <2>1. mpc \in {"enqueue", "enqueuePut"} => mfd \in Conns
    BY DEF PoolInv, QueueShape
  <2>2. QED BY <1>1, <2>1 DEF LeavesSlots, SlotsHold, Sharing
<1>3. Noticed => Noticed'
  BY DEF Noticed, LeavesSlots
<1>4. NobodyPastSlots => NobodyPastSlots'
  <2>1. \A t \in Threads : fd'[t] \in Conns => fd'[t] = fd[t]
    BY ConnsAssumption DEF LeavesSlots
  <2>2. \A t, u \in Threads : fd'[t] \in Conns /\ fd'[t] = fd'[u] => fd'[u] = fd[u]
    BY <2>1
  <2>3. QED BY <1>1, <2>1, <2>2 DEF LeavesSlots, NobodyPastSlots
<1>5. QED BY <1>2, <1>3, <1>4 DEF Sharing, LeavesSlots

\* The steps of the workers other than the dequeue itself.
LEMMA WorkersLeaveSlots ==
    ASSUME TypeOK, PoolInv, RegistryInv, SlotsTell, Sharing, Onward,
           NEW t \in Threads,
           WorkerStep(t) \/ SpuriousWakeup(t) \/ ReadUnwritten(t), ~ DequeueTake(t)
    PROVE  LeavesSlots
<1>0. \A c \in Conns : conn[c] # "idle" => conn'[c] # "idle"
  BY DEF Onward
<1>1. mainVars' = mainVars
  BY DEF WorkerStep, TestSig, TestQueue, Wait, Wake, SpuriousWakeup, Lock,
     DequeueSize, Claim, Read, ReadUnwritten, Dispatch, NextServant, Connect,
     Answer, Reply, Count, Declare, Register, Registered, Release
<1>2. UNCHANGED <<queue>> \/ queue' = [queue EXCEPT !.size = loaded[t] - 1]
  BY DEF WorkerStep, TestSig, TestQueue, Wait, Wake, SpuriousWakeup, Lock,
     DequeueSize, Claim, Read, ReadUnwritten, Dispatch, NextServant, Connect,
     Answer, Reply, Count, Declare, Register, Registered, Release, poolVars
<1>3. queue'.front = queue.front /\ queue'.rear = queue.rear
      /\ queue'.array = queue.array
  BY <1>2 DEF PoolInv, QueueShape
<1>4. \A u \in Threads \ {t} : pc'[u] = pc[u] /\ fd'[u] = fd[u]
  BY OneWorkerMoves DEF Same
<1>5. /\ fd'[t] = fd[t] \/ (fd'[t] = NoItem /\ fd[t] \notin Memory)
      /\ fd'[t] \in Memory => pc'[t] \in InHand
  <2> USE DEF TypeOK, Sharing, InHand, Goto, localVars
  <2>1. CASE TestSig(t) \/ TestQueue(t) \/ Wait(t) \/ Wake(t) \/ SpuriousWakeup(t)
             \/ Lock(t)
    BY <2>1 DEF TestSig, TestQueue, Wait, Wake, SpuriousWakeup, Lock
  <2>2. CASE DequeueSize(t) \/ Claim(t)
    BY <2>2 DEF DequeueSize, Claim, SlotsTell
  <2>3. CASE Read(t) \/ ReadUnwritten(t)
    BY <2>3 DEF Read, ReadUnwritten, SlotsTell
  <2>4. CASE Dispatch(t) \/ NextServant(t) \/ Connect(t)
    BY <2>4 DEF Dispatch, NextServant, Connect
  <2>5. CASE Answer(t) \/ Reply(t) \/ Count(t)
    BY <2>5 DEF Answer, Reply, Count
  <2>6. CASE Declare(t) \/ Register(t) \/ Registered(t)
    BY <2>6 DEF Declare, Register, Registered
  <2>7. CASE Release(t)
    BY <2>7 DEF Release, SlotsTell
  <2>8. QED
    BY <2>1, <2>2, <2>3, <2>4, <2>5, <2>6, <2>7 DEF WorkerStep
<1>6. QED BY <1>0, <1>1, <1>3, <1>4, <1>5 DEF LeavesSlots, mainVars, Sharing

\* dequeue: either the front is before the last written slot, and nobody has
\* the descriptor it holds, or the worker gets what an unwritten slot held.
LEMMA DequeueKeepsSharing ==
    ASSUME TypeOK, PoolInv, SlotsTell, Sharing, NEW t \in Threads, DequeueTake(t)
    PROVE  Sharing'
<1>0. /\ pc[t] = "dequeue" /\ fd[t] \notin Memory
      /\ UNCHANGED <<mpc, mfd, conn>>
  BY DEF DequeueTake, Sharing, InHand, mainVars, peerVars
<1>1. CASE isEmpty(queue)
  <2>1. UNCHANGED <<queue, fd>> /\ pc' = [pc EXCEPT ![t] = "top"]
    BY <1>1 DEF DequeueTake, Goto
  <2>2. LeavesSlots
    BY <1>0, <2>1 DEF LeavesSlots, Sharing, TypeOK
  <2>3. QED BY <2>2, LeavesSlotsKeepsSharing
<1>2. CASE ~ isEmpty(queue)
  <2> DEFINE k == Written
             f == queue.front
             d == queue.array[f]
  <2>1. /\ fd' = [fd EXCEPT ![t] = d] /\ pc' = [pc EXCEPT ![t] = "dequeueSize"]
        /\ queue' = [queue EXCEPT !.front = (f + 1) % Capacity]
    BY <1>2 DEF DequeueTake, Goto, front, DropFront, SuccIndex, PoolInv, QueueShape
  <2>2. /\ f \in 0 .. Capacity - 1 /\ k \in 0 .. Capacity - 1 /\ Capacity \in Nat
    BY CapacityAssumption, SuccIndexInRing DEF PoolInv, QueueShape, Written
  <2>3. Written' = k /\ queue'.array = queue.array
    BY <2>1 DEF Written, PoolInv, QueueShape
  <2>4. SlotsHold'
    BY <1>0, <2>3 DEF SlotsHold, Sharing
  <2>5. \A u \in Threads : fd'[u] \in Memory => pc'[u] \in InHand
    BY <2>1 DEF Sharing, InHand, TypeOK
  <2>6. Noticed => Noticed'
    BY <1>0, <2>1 DEF Noticed, TypeOK
  <2>7. CASE f \in k .. Capacity - 1
    <3>1. d \in Memory
      BY <2>7 DEF Sharing, SlotsHold
    <3>2. fd'[t] = d
      BY <2>1 DEF TypeOK
    <3>3. Noticed'
      BY <3>1, <3>2 DEF Noticed
    <3>4. QED BY <2>4, <2>5, <3>3 DEF Sharing
  <2>8. CASE f < k /\ NobodyPastSlots
    <3>1. (f + 1) % Capacity = f + 1
      BY <2>2, <2>8
    <3>2. queue'.front = f + 1
      BY <2>1, <3>1 DEF PoolInv, QueueShape
    <3>3. d \in Conns /\ \A i \in 0 .. f - 1 : queue.array[i] # d
      BY <2>2, <2>8 DEF Sharing, SlotsHold
    <3>4. \A u \in Threads : fd[u] # d
      BY <3>3, <2>8 DEF NobodyPastSlots
    <3>5. \A u \in Threads : fd'[u] = IF u = t THEN d ELSE fd[u]
      BY <2>1 DEF TypeOK
    <3>6. 0 .. f - 1 \subseteq 0 .. (f + 1) - 1 /\ f \in 0 .. (f + 1) - 1 /\ f + 1 <= k
      BY <2>2, <2>8
    <3>7. \A u \in Threads : fd'[u] \in Conns =>
             \E i \in 0 .. queue'.front - 1 : queue'.array[i] = fd'[u]
      <4> SUFFICES ASSUME NEW u \in Threads, fd'[u] \in Conns
                   PROVE  \E i \in 0 .. (f + 1) - 1 : queue.array[i] = fd'[u]
        BY <2>3, <3>2
      <4>1. CASE u = t
        BY <3>5, <3>6, <4>1
      <4>2. CASE u # t
        BY <2>8, <3>5, <3>6, <4>2 DEF NobodyPastSlots
      <4>3. QED BY <4>1, <4>2
    <3>8. \A u, v \in Threads : fd'[u] \in Conns /\ u # v => fd'[u] # fd'[v]
      BY <2>8, <3>4, <3>5 DEF NobodyPastSlots
    <3>9. NobodyPastSlots'
      BY <2>3, <3>2, <3>6, <3>7, <3>8 DEF NobodyPastSlots
    <3>10. QED BY <2>4, <2>5, <3>9 DEF Sharing
  <2>9. CASE Noticed
    BY <2>4, <2>5, <2>6, <2>9 DEF Sharing
  <2>10. QED
    <3>1. f < k \/ f \in k .. Capacity - 1
      BY <2>2
    <3>2. QED BY <3>1, <2>7, <2>8, <2>9 DEF Sharing
<1>3. QED BY <1>1, <1>2

\* There are more slots than descriptors to write into them.
LEMMA SlotsLeft ==
    ASSUME PoolInv, SlotsTell, SlotsHold, mpc = "enqueuePut"
    PROVE  Written + 1 < Capacity
<1> DEFINE k == Written
           S == 0 .. k
           f == [i \in S |-> IF i = k THEN mfd ELSE queue.array[i]]
<1>1. k \in Nat /\ mfd \in Conns /\ Capacity \in Nat
  BY CapacityAssumption, SuccIndexInRing DEF PoolInv, QueueShape, Written
<1>2. /\ \A i \in 0 .. k - 1 : queue.array[i] \in Conns /\ queue.array[i] # mfd
      /\ \A i, j \in 0 .. k - 1 : queue.array[i] = queue.array[j] => i = j
  BY DEF SlotsHold
<1> HIDE DEF k
<1>3. \A i \in S : i = k \/ i \in 0 .. k - 1
  BY <1>1
<1>4. f \in Injection(S, Conns)
  <2>1. f \in [S -> Conns]
    BY <1>1, <1>2, <1>3
  <2>2. \A i, j \in S : f[i] = f[j] => i = j
    BY <1>2, <1>3
  <2> HIDE DEF f
  <2>3. QED BY <2>1, <2>2 DEF Injection, IsInjective
<1>5. Cardinality(S) <= Cardinality(Conns) /\ Cardinality(S) = k + 1
  <2>1. Cardinality(S) = k + 1
    <3>1. 0 \in Int /\ k \in Int /\ ~ (0 > k) /\ k - 0 + 1 = k + 1
      BY <1>1
    <3>2. QED BY <3>1, FS_Interval
  <2> HIDE DEF f, S
  <2>2. Cardinality(S) <= Cardinality(Conns)
    BY <1>4, ConnsAssumption, FS_Injection
  <2>3. QED BY <2>1, <2>2
<1>6. Cardinality(Conns) \in Nat
  BY ConnsAssumption, FS_CardinalityType
<1>7. k + 1 < Capacity
  BY <1>1, <1>5, <1>6 DEF SlotsTell
<1>8. QED BY <1>7 DEF k

\* enqueue writes the next slot, with a descriptor that is in no slot yet.
LEMMA EnqueueKeepsSharing ==
    ASSUME TypeOK, PoolInv, SlotsTell, Sharing, EnqueuePut
    PROVE  Sharing'
<1>0. /\ mpc = "enqueuePut" /\ mpc' = "enqueueSize" /\ mfd \in Conns
      /\ UNCHANGED <<pc, fd, conn>>
  BY DEF EnqueuePut, localVars, peerVars, PoolInv, QueueShape
<1> DEFINE k == Written
<1>1. k \in Nat /\ Capacity \in Nat /\ k + 1 < Capacity
  BY <1>0, SlotsLeft, CapacityAssumption, SuccIndexInRing
     DEF Sharing, PoolInv, QueueShape, Written
<1>2. queue' = [queue EXCEPT !.rear = k, !.array = [queue.array EXCEPT ![k] = mfd]]
  BY <1>0 DEF EnqueuePut, PutRear, SuccIndex, Written, PoolInv, QueueShape
<1>3. /\ queue'.rear = k /\ queue'.front = queue.front
      /\ queue'.array = [queue.array EXCEPT ![k] = mfd]
  BY <1>2 DEF PoolInv, QueueShape
<1>4. (k + 1) % Capacity = k + 1
  BY <1>1
<1>5. Written' = k + 1
  BY <1>3, <1>4 DEF Written
<1>6. \A i \in 0 .. Capacity - 1 :
          queue'.array[i] = IF i = k THEN mfd ELSE queue.array[i]
  BY <1>1, <1>3 DEF PoolInv, QueueShape
<1> HIDE DEF k
<1>7. /\ 0 .. (k + 1) - 1 \subseteq 0 .. Capacity - 1
      /\ \A i \in 0 .. (k + 1) - 1 : i = k \/ i \in 0 .. k - 1
      /\ \A i \in k + 1 .. Capacity - 1 : i # k /\ i \in k .. Capacity - 1
                                       /\ i \in 0 .. Capacity - 1
  BY <1>1
<1>8. /\ \A i \in 0 .. k - 1 : queue.array[i] \in Conns
                              /\ conn[queue.array[i]] # "idle" /\ queue.array[i] # mfd
      /\ \A i, j \in 0 .. k - 1 : queue.array[i] = queue.array[j] => i = j
      /\ \A i \in k .. Capacity - 1 : queue.array[i] \in Memory
      /\ conn[mfd] # "idle"
  BY <1>0 DEF Sharing, SlotsHold, k
<1>9. SlotsHold'
  <2>1. \A i \in 0 .. (k + 1) - 1 :
            queue'.array[i] \in Conns /\ conn[queue'.array[i]] # "idle"
    BY <1>0, <1>6, <1>7, <1>8
  <2>2. \A i, j \in 0 .. (k + 1) - 1 : queue'.array[i] = queue'.array[j] => i = j
    BY <1>6, <1>7, <1>8
  <2>3. \A i \in k + 1 .. Capacity - 1 : queue'.array[i] \in Memory
    BY <1>6, <1>7, <1>8
  <2>4. QED BY <1>0, <1>5, <2>1, <2>2, <2>3 DEF SlotsHold
<1>10. Noticed' <=> Noticed
  BY <1>0 DEF Noticed
<1>11. NobodyPastSlots => NobodyPastSlots'
  <2> SUFFICES ASSUME NobodyPastSlots PROVE NobodyPastSlots'
    OBVIOUS
  <2>1. queue.front <= k /\ queue.front \in Nat
    BY DEF NobodyPastSlots, PoolInv, QueueShape, k
  <2>2. \A i \in 0 .. queue.front - 1 : queue'.array[i] = queue.array[i]
    BY <1>1, <1>6, <2>1
  <2>3. queue.front <= k + 1
    BY <1>1, <2>1
  <2>4. QED BY <1>0, <1>3, <1>5, <2>2, <2>3 DEF NobodyPastSlots
<1>12. QED BY <1>0, <1>9, <1>10, <1>11 DEF Sharing

\* SharingInv is inductive.
LEMMA SharingInductive ==
    TypeOK /\ PoolInv /\ RegistryInv /\ SharingInv /\ [Next]_vars => SharingInv'
<1>0. SharingInv <=> (SlotsTell => Sharing)
  BY DEF SharingInv, Sharing, InHand
<1>1. SharingInv' <=> (SlotsTell => Sharing')
  BY DEF SharingInv, Sharing, InHand, SlotsTell
<1> SUFFICES ASSUME TypeOK, PoolInv, RegistryInv, SlotsTell, Sharing, [Next]_vars
             PROVE  Sharing'
  BY <1>0, <1>1
<1>2. Onward
  BY StepsGoOnward
<1>3. LeavesSlots => Sharing'
  BY LeavesSlotsKeepsSharing
<1>4. ASSUME NEW t \in Threads, WorkerStep(t) \/ SpuriousWakeup(t) \/ ReadUnwritten(t)
      PROVE  Sharing'
  BY <1>2, <1>3, <1>4, WorkersLeaveSlots, DequeueKeepsSharing
<1> USE DEF LeavesSlots, localVars, poolVars, peerVars, mainVars
<1>5. CASE MainStep
  <2>0. CASE EnqueueTest
    BY <1>3, <2>0 DEF EnqueueTest, Sharing
  <2>1. CASE EnqueuePut
    BY <2>1, EnqueueKeepsSharing
  <2>2. CASE EnqueueSize
    BY <1>3, <2>2 DEF EnqueueSize, Sharing, PoolInv, QueueShape
  <2>3. CASE Signal
    <3>1. pc' = pc \/ \E t \in Threads : pc[t] = "waiting" /\ pc' = [pc EXCEPT ![t] = "woken"]
      BY <2>3 DEF Signal, SignalCond
    <3>2. \A t \in Threads : fd[t] \in Memory => pc'[t] \in InHand
      BY <3>1 DEF Sharing, InHand, TypeOK
    <3>3. QED BY <1>3, <2>3, <3>2 DEF Signal
  <2>4. CASE ContactServant \/ Goodbye
    BY <1>3, <2>4 DEF ContactServant, Goodbye, Sharing
  <2>5. QED BY <1>5, <2>0, <2>1, <2>2, <2>3, <2>4 DEF MainStep
<1>6. CASE Environment
  <2>1. ASSUME NEW c \in Conns, Accept(c) PROVE Sharing'
    <3>1. /\ mpc' = "enqueue" /\ mfd' = c /\ conn[c] = "idle"
          /\ conn' = [conn EXCEPT ![c] = "open"] /\ UNCHANGED <<pc, fd, queue>>
      BY <2>1 DEF Accept
    <3>2. Written' = Written
      BY <3>1 DEF Written
    <3>3. \A d \in Conns : conn'[d] = IF d = c THEN "open" ELSE conn[d]
      BY <3>1 DEF TypeOK
    <3>4. SlotsHold'
      BY <3>1, <3>2, <3>3 DEF SlotsHold, Sharing
    <3>5. (Noticed' <=> Noticed) /\ (NobodyPastSlots' <=> NobodyPastSlots)
      BY <3>1, <3>2 DEF Noticed, NobodyPastSlots
    <3>6. QED BY <3>1, <3>4, <3>5 DEF Sharing
  <2>2. CASE Sigint
    BY <1>3, <2>2 DEF Sigint, Sharing
  <2>3. ASSUME NEW s \in Servants, ServantListens(s) \/ ServantStops(s)
        PROVE  Sharing'
    BY <1>3, <2>3 DEF ServantListens, ServantStops, Sharing
  <2>4. QED BY <1>4, <1>6, <2>1, <2>2, <2>3 DEF Environment
<1>7. CASE UNCHANGED vars
  BY <1>3, <1>7 DEF vars, Sharing
<1>8. QED BY <1>4, <1>5, <1>6, <1>7 DEF Next

LEMMA SharingInvariant == Spec => []SharingInv
<1>1. Init => SharingInv
  <2> SUFFICES ASSUME Init, SlotsTell PROVE Sharing
    BY DEF SharingInv, Sharing, InHand
  <2>1. PICK slots \in [0 .. Capacity - 1 -> Memory] : queue = createQueue(Capacity, slots)
    BY DEF Init
  <2>2. queue.front = 0 /\ queue.rear = Capacity - 1 /\ queue.array = slots
    BY <2>1 DEF createQueue
  <2>3. Written = 0 /\ Capacity \in Nat
    BY <2>2, CapacityAssumption DEF Written
  <2>4. SlotsHold
    BY <2>2, <2>3 DEF SlotsHold, Init
  <2>5. \A t \in Threads : fd[t] = NoItem /\ fd[t] \notin Memory /\ fd[t] \notin Conns
    BY ConnsAssumption DEF Init, SlotsTell
  <2>6. QED BY <2>2, <2>3, <2>4, <2>5 DEF Sharing, NobodyPastSlots
<1>2. QED
  BY <1>1, ServerTypes, ServerInvariants, SharingInductive, PTL DEF Spec

(***************************************************************************)
(* Where a queue has more slots than there are connections, the lost       *)
(* updates of its size are noticed before they make two workers serve one  *)
(* descriptor: for any number of workers, in any interleaving of their     *)
(* dequeues with main's enqueue.                                           *)
(***************************************************************************)
THEOREM SharingIsNoticed == Spec => []NoUnnoticedSharing
<1>1. SharingInv => NoUnnoticedSharing
  BY DEF SharingInv, NoUnnoticedSharing, NobodyPastSlots
<1>2. QED
  BY <1>1, SharingInvariant, PTL
-----------------------------------------------------------------------------
\* All the invariants together.
AllInv == TypeOK /\ PoolInv /\ RegistryInv /\ AnswerInv /\ Sharing

\* The variables of RequestService do not change.
Unseen == UNCHANGED <<conn, registered, servant, known, reply>>

\* A step of worker t that changes no connection but its own.
TouchesOwn(t) ==
    /\ \A c \in Conns \ {fd[t]} :
          conn'[c] = conn[c] /\ reply'[c] = reply[c] /\ (c \in unread' <=> c \in unread)
    /\ \A u \in Threads \ {t} : pc'[u] = pc[u] /\ fd'[u] = fd[u] /\ temp'[u] = temp[u]
    /\ queue'.front = queue.front /\ queue'.rear = queue.rear
    /\ queue'.array = queue.array
    /\ mpc' = mpc /\ mfd' = mfd

\* The connection of a worker is its alone: it is not queued and not with main.
LEMMA OwnConnection ==
    ASSUME AllInv, NobodyPastSlots, NEW t \in Threads, fd[t] \in Conns
    PROVE  /\ conn[fd[t]] # "idle"
           /\ \A i \in queue.front .. Written - 1 : queue.array[i] # fd[t]
           /\ mpc \in {"enqueue", "enqueuePut"} => mfd # fd[t]
           /\ \A u \in Threads \ {t} : fd[u] # fd[t]
<1>1. PICK j \in 0 .. queue.front - 1 : queue.array[j] = fd[t]
  BY DEF NobodyPastSlots
<1>2. queue.front \in Nat /\ Written \in Nat /\ queue.front <= Written
  BY CapacityAssumption, SuccIndexInRing
     DEF NobodyPastSlots, AllInv, PoolInv, QueueShape, Written
<1>3. j \in 0 .. Written - 1
  BY <1>2
<1>4. \A i \in queue.front .. Written - 1 : i \in 0 .. Written - 1 /\ i # j
  BY <1>2
<1>5. QED BY <1>1, <1>3, <1>4 DEF AllInv, Sharing, SlotsHold, NobodyPastSlots

LEMMA OwnKeepsServed ==
    ASSUME AllInv, NobodyPastSlots, ServedOnce, NEW t \in Threads, TouchesOwn(t),
           fd[t] \in Conns => conn'[fd[t]] # "idle", ServesOne(t)'
    PROVE  ServedOnce'
<1>1. Written' = Written
  BY DEF TouchesOwn, Written
<1>2. \A c \in Conns \ {fd[t]} : Fresh(c) => Fresh(c)'
  BY DEF TouchesOwn, Fresh
<1>3. ASSUME NEW u \in Threads, u # t PROVE ServesOne(u)'
  <2>1. fd[u] \in Conns => fd[u] # fd[t]
    BY <1>3, OwnConnection
  <2>2. ServesOne(u)
    BY DEF ServedOnce
  <2>3. pc'[u] = pc[u] /\ fd'[u] = fd[u] /\ temp'[u] = temp[u]
    BY <1>3 DEF TouchesOwn
  <2>4. QED BY <2>1, <2>2, <2>3 DEF TouchesOwn, ServesOne, Fresh
<1>4. \A i \in queue.front .. Written - 1 : Fresh(queue.array[i])'
  <2> SUFFICES ASSUME NEW i \in queue.front .. Written - 1
               PROVE  Fresh(queue.array[i])'
    OBVIOUS
  <2>1. i \in 0 .. Written - 1
    BY DEF AllInv, PoolInv, QueueShape
  <2>2. Fresh(queue.array[i]) /\ queue.array[i] \in Conns
    BY <2>1 DEF ServedOnce, AllInv, Sharing, SlotsHold
  <2>3. queue.array[i] # fd[t]
    BY <2>2, OwnConnection
  <2>4. queue'.array[i] = queue.array[i]
    BY DEF TouchesOwn
  <2>5. QED BY <2>2, <2>3, <2>4 DEF TouchesOwn, Fresh
<1>5. mpc' \in {"enqueue", "enqueuePut"} => Fresh(mfd)'
  <2>1. mpc \in {"enqueue", "enqueuePut"} => mfd \in Conns /\ Fresh(mfd) /\ mfd # fd[t]
    BY OwnConnection DEF ServedOnce, AllInv, PoolInv, QueueShape
  <2>2. QED BY <2>1 DEF TouchesOwn, Fresh
<1>6. \A c \in Conns : conn'[c] = "idle" => c \in unread' /\ reply'[c] = Nobody
  BY DEF TouchesOwn, ServedOnce
<1>7. QED
  <2>1. queue'.front .. Written' - 1 = queue.front .. Written - 1
    BY <1>1 DEF TouchesOwn
  <2>2. \A u \in Threads : ServesOne(u)'
    BY <1>3
  <2>3. QED BY <1>4, <1>5, <1>6, <2>1, <2>2 DEF ServedOnce

\* What a step of worker t means to the peers, and that it keeps ServedOnce.
OwnStep(t) ==
    /\ TouchesOwn(t) /\ ServesOne(t)'
    /\ fd[t] \in Conns => conn'[fd[t]] # "idle"

\* A step in which a worker changes neither a connection nor the registry.
LEMMA QuietSteps ==
    ASSUME AllInv, SlotsTell, PeersWrite, ~ Noticed, NobodyPastSlots, ServedOnce,
           NEW t \in Threads,
           WorkerStep(t) \/ SpuriousWakeup(t) \/ ReadUnwritten(t),
           ~ DequeueTake(t), ~ Reply(t), ~ Count(t), ~ Register(t), ~ Registered(t)
    PROVE  OwnStep(t) /\ Unseen
<1>1. /\ UNCHANGED <<mainVars, conn, reply, known, portList, totalPortNumber, servant>>
      /\ queue' = queue \/ queue' = [queue EXCEPT !.size = loaded[t] - 1]
      /\ unread' = unread \/ unread' = unread \ {fd[t]}
  BY DEF WorkerStep, TestSig, TestQueue, Wait, Wake, SpuriousWakeup, Lock,
     DequeueSize, Claim, Read, ReadUnwritten, Dispatch, NextServant, Connect,
     Answer, Declare, Release, registryVars, servantVars, peerVars, poolVars
<1>2. Unseen
  BY <1>1 DEF Unseen, registered
<1>3. \A u \in Threads \ {t} : pc'[u] = pc[u] /\ fd'[u] = fd[u] /\ temp'[u] = temp[u]
  BY OneWorkerMoves DEF Same, AllInv
<1>4. queue'.front = queue.front /\ queue'.rear = queue.rear /\ queue'.array = queue.array
  BY <1>1 DEF AllInv, PoolInv, QueueShape
<1>5. TouchesOwn(t)
  BY <1>1, <1>3, <1>4 DEF TouchesOwn, mainVars
<1>6. fd[t] \in Conns => conn'[fd[t]] # "idle"
  BY <1>1, OwnConnection
<1>7. ServesOne(t)'
  <2>0. /\ ServesOne(t) /\ fd[t] \in Conns \union {NoItem}
        /\ pc \in [Threads -> Labels] /\ fd \in [Threads -> Conns \union Memory \union {NoItem}]
        /\ temp \in [Threads -> Messages] /\ UNCHANGED <<conn, reply>>
    BY <1>1 DEF ServedOnce, AllInv, TypeOK, Noticed
  <2> USE DEF ServesOne, Fresh, Goto, localVars, peerVars
  <2>1. CASE TestSig(t) \/ TestQueue(t) \/ Wait(t) \/ Wake(t) \/ SpuriousWakeup(t)
             \/ Lock(t)
    BY <2>0, <2>1 DEF TestSig, TestQueue, Wait, Wake, SpuriousWakeup, Lock
  <2>2. CASE DequeueSize(t) \/ Claim(t)
    BY <2>0, <2>2 DEF DequeueSize, Claim
  <2>3. CASE Read(t)
    <3>1. fd[t] \in Conns /\ Fresh(fd[t]) /\ Sends[fd[t]] # NoMessage
      BY <2>0, <2>3 DEF Read, PeersWrite
    <3>2. /\ pc' = [pc EXCEPT ![t] = "dispatch"] /\ fd' = fd
          /\ temp' = [temp EXCEPT ![t] = Sends[fd[t]]]
      BY <2>3, <3>1 DEF Read
    <3>3. QED BY <2>0, <3>1, <3>2
  <2>4. CASE ReadUnwritten(t)
    BY <2>0, <2>4 DEF ReadUnwritten
  <2>5. CASE Dispatch(t) \/ NextServant(t) \/ Connect(t)
    BY <2>0, <2>5 DEF Dispatch, NextServant, Connect
  <2>6. CASE Answer(t)
    BY <2>0, <2>6 DEF Answer
  <2>7. CASE Declare(t)
    BY <2>0, <2>7 DEF Declare
  <2>8. CASE Release(t)
    BY <2>0, <2>8 DEF Release
  <2>9. QED
    BY <2>1, <2>2, <2>3, <2>4, <2>5, <2>6, <2>7, <2>8 DEF WorkerStep
<1>8. QED BY <1>2, <1>5, <1>6, <1>7 DEF OwnStep

\* The answer is the one answer of a client, and right when it is given.
LEMMA ReplyIsAnswer ==
    ASSUME AllInv, AnswerInv', NobodyPastSlots, ServedOnce,
           NEW t \in Threads, Reply(t)
    PROVE  OwnStep(t) /\ Peers!Answer(fd[t])
<1> DEFINE c == fd[t]
           r == reply'[c]
<1>1. /\ pc[t] = "reply" /\ c \in Conns /\ conn[c] = "open" /\ reply[c] = Nobody
      /\ temp[t] = Sends[c] /\ temp[t].type = "CLIENT_REQUEST"
  BY DEF Reply, ServedOnce, ServesOne, AllInv, RegistryInv
<1>2. /\ UNCHANGED <<mainVars, queue, fd, temp, conn, unread, known, portList,
                     totalPortNumber, servant>>
      /\ pc' = [pc EXCEPT ![t] = "count"]
  BY DEF Reply, Goto, poolVars, registryVars, servantVars
<1>3. \E found \in BOOLEAN :
        /\ temp[t].city = "ALL" => found
        /\ reply' = [reply EXCEPT ![c] = [type |-> IF found THEN "RESPONSE"
                                                            ELSE "NO_CITY_RESPONSE",
                                          to |-> temp[t], asked |-> query[t].asked]]
  BY <1>1 DEF Reply
<1>4. /\ r.type \in {"RESPONSE", "NO_CITY_RESPONSE"} /\ r.to = Sends[c]
      /\ r.asked \in Seq(Asking)
      /\ Sends[c].city = "ALL" => r.type = "RESPONSE"
      /\ \A d \in Conns \ {c} : reply'[d] = reply[d]
  BY <1>1, <1>3 DEF AllInv, TypeOK
<1>5. r # Nobody
  BY <1>4 DEF Nobody
<1>6. Fits(fd[t], reply[fd[t]])'
  BY <1>1, <1>2, <1>5 DEF AnswerInv, AnswersTheRequest
<1> HIDE DEF c, r
<1>7. Peers!Right(c, r)
  <2>1. DOMAIN r.asked = 1 .. Len(r.asked)
    BY <1>4
  <2>2. {r.asked[i].servant : i \in DOMAIN r.asked} = AskedIn(r)
    BY <2>1 DEF AskedIn
  <2>3. Fits(c, r)
    BY <1>2, <1>6 DEF Fits, AskedIn, OwnAnswers, r, c
  <2>4. QED
    BY <1>4, <2>1, <2>2, <2>3 DEF Peers!Right, Fits, OwnAnswers, AnswerOf
<1>8. TouchesOwn(t)
  BY <1>2, <1>4 DEF TouchesOwn, mainVars, AllInv, TypeOK, c
<1>9. ServesOne(t)'
  BY <1>1, <1>2, <1>5 DEF ServesOne, AllInv, TypeOK, c, r
<1>10. Unseen \/ registered' = registered
  BY <1>2 DEF registered
<1>11. QED
  BY <1>1, <1>2, <1>4, <1>5, <1>7, <1>8, <1>9, <1>10
     DEF OwnStep, Peers!Answer, Peers!Client, Unseen, c, r

\* After its answer a client's connection is closed.
LEMMA CountIsClose ==
    ASSUME AllInv, NobodyPastSlots, ServedOnce, NEW t \in Threads, Count(t)
    PROVE  OwnStep(t) /\ Peers!Close(fd[t])
<1>1. /\ pc[t] = "count" /\ fd[t] \in Conns /\ conn[fd[t]] = "open"
      /\ reply[fd[t]] # Nobody /\ Sends[fd[t]].type = "CLIENT_REQUEST"
  BY DEF Count, ServedOnce, ServesOne
<1>2. /\ UNCHANGED <<mainVars, queue, fd, temp, reply, unread, known, portList,
                     totalPortNumber, servant>>
      /\ pc' = [pc EXCEPT ![t] = "release"] /\ conn' = Closed(fd[t])
  BY DEF Count, Goto, poolVars, registryVars, servantVars
<1>3. conn' = [conn EXCEPT ![fd[t]] = "closed"]
  BY <1>2 DEF Closed, AllInv, TypeOK
<1>4. registered' = registered
  BY <1>2 DEF registered
<1>5. OwnStep(t)
  BY <1>1, <1>2, <1>3 DEF OwnStep, TouchesOwn, ServesOne, mainVars, AllInv, TypeOK
<1>6. QED BY <1>1, <1>2, <1>3, <1>4, <1>5 DEF Peers!Close, Peers!Client

\* The entry of a declaration is not seen before it is counted ...
LEMMA RegisterIsUnseen ==
    ASSUME AllInv, NobodyPastSlots, ServedOnce, NEW t \in Threads, Register(t)
    PROVE  OwnStep(t) /\ Unseen
<1>1. /\ UNCHANGED <<mainVars, queue, fd, temp, conn, reply, unread, known,
                     totalPortNumber, servant>>
      /\ pc[t] = "register" /\ pc' = [pc EXCEPT ![t] = "registered"]
      /\ portList' = Append(SubSeq(portList, 1, totalPortNumber), temp[t].servant)
  BY DEF Register, Goto, poolVars, processVars, peerVars, servantVars
<1>2. temp[t].servant \in Servants
  BY <1>1, MessagesAssumption DEF AllInv, RegistryInv
<1>3. \A i \in 1 .. totalPortNumber : portList'[i] = portList[i]
  BY <1>1, <1>2 DEF AllInv, RegistryInv
<1>4. registered' = registered
  BY <1>1, <1>3 DEF registered
<1>5. OwnStep(t)
  BY SMTT(30), <1>1, OwnConnection
     DEF OwnStep, TouchesOwn, ServedOnce, ServesOne, Fresh, mainVars, AllInv, TypeOK
<1>6. QED BY <1>1, <1>4, <1>5 DEF Unseen

\* ... and then the servant of that connection is registered, and no other.
LEMMA RegisteredIsRegister ==
    ASSUME AllInv, NobodyPastSlots, ServedOnce, NEW t \in Threads, Registered(t)
    PROVE  OwnStep(t) /\ Peers!Register(fd[t])
<1>1. /\ UNCHANGED <<mainVars, queue, fd, temp, reply, unread, known, portList, servant>>
      /\ pc[t] = "registered" /\ pc' = [pc EXCEPT ![t] = "release"]
      /\ conn' = Closed(fd[t]) /\ totalPortNumber' = loaded[t] + 1
  BY DEF Registered, Goto, poolVars, servantVars
<1>2. /\ fd[t] \in Conns /\ conn[fd[t]] = "open" /\ temp[t] = Sends[fd[t]]
      /\ temp[t].type = "SERVANT_DECLARATION"
  BY <1>1 DEF ServedOnce, ServesOne, AllInv, RegistryInv
<1>3. /\ totalPortNumber \in Nat /\ totalPortNumber' = totalPortNumber + 1
      /\ portList[totalPortNumber + 1] = Sends[fd[t]].servant
  BY <1>1, <1>2 DEF AllInv, RegistryInv, TypeOK
<1>4. 1 .. totalPortNumber + 1 = (1 .. totalPortNumber) \union {totalPortNumber + 1}
  BY <1>3
<1>5. registered' = registered \union {Sends[fd[t]].servant}
  BY <1>1, <1>3, <1>4 DEF registered
<1>6. conn' = [conn EXCEPT ![fd[t]] = "closed"]
  BY <1>1 DEF Closed, AllInv, TypeOK
<1>7. OwnStep(t)
  BY <1>1, <1>2, <1>6 DEF OwnStep, TouchesOwn, ServesOne, mainVars, AllInv, TypeOK
<1>8. QED BY <1>1, <1>2, <1>5, <1>6, <1>7 DEF Peers!Register

\* Until somebody notices, dequeue hands out a descriptor nobody has read.
LEMMA DequeueHandsOut ==
    ASSUME AllInv, SlotsTell, ~ Noticed, ~ Noticed', ServedOnce,
           NEW t \in Threads, DequeueTake(t)
    PROVE  ServedOnce' /\ Unseen
<1> DEFINE f == queue.front
           d == queue.array[f]
<1>1. /\ UNCHANGED <<mainVars, temp, conn, unread, reply, known, portList,
                     totalPortNumber, servant>>
      /\ pc[t] = "dequeue"
  BY DEF DequeueTake, registryVars, peerVars, servantVars
<1>2. Unseen
  BY <1>1 DEF Unseen, registered
<1>3. CASE isEmpty(queue)
  <2>1. UNCHANGED <<queue, fd>> /\ pc' = [pc EXCEPT ![t] = "top"]
    BY <1>3 DEF DequeueTake, Goto
  <2>2. Written' = Written
    BY <2>1 DEF Written
  <2>3. \A u \in Threads : ServesOne(u)'
    BY <1>1, <2>1 DEF ServedOnce, ServesOne, Fresh, AllInv, TypeOK
  <2>4. QED BY <1>1, <1>2, <2>1, <2>2, <2>3 DEF ServedOnce, Fresh, mainVars
<1>4. CASE ~ isEmpty(queue)
  <2>1. /\ fd' = [fd EXCEPT ![t] = d] /\ pc' = [pc EXCEPT ![t] = "dequeueSize"]
        /\ queue' = [queue EXCEPT !.front = (f + 1) % Capacity]
    BY <1>4 DEF DequeueTake, Goto, front, DropFront, SuccIndex, AllInv, PoolInv, QueueShape
  <2>2. f \in 0 .. Capacity - 1 /\ Written \in 0 .. Capacity - 1 /\ Capacity \in Nat
    BY CapacityAssumption, SuccIndexInRing DEF AllInv, PoolInv, QueueShape, Written
  <2>3. fd'[t] = d
    BY <2>1 DEF AllInv, TypeOK
  <2>4. d \notin Memory
    BY <2>3 DEF Noticed
  <2>5. f < Written
    BY <2>2, <2>4 DEF AllInv, Sharing, SlotsHold
  <2>6. (f + 1) % Capacity = f + 1
    BY <2>2, <2>5
  <2>7. queue'.front = f + 1 /\ Written' = Written /\ queue'.array = queue.array
    BY <2>1, <2>6 DEF AllInv, PoolInv, QueueShape, Written
  <2>8. Fresh(d) /\ d \in Conns
    BY <2>2, <2>5 DEF ServedOnce, AllInv, Sharing, SlotsHold
  <2>9. \A u \in Threads : ServesOne(u)'
    <3> SUFFICES ASSUME NEW u \in Threads PROVE ServesOne(u)'
      OBVIOUS
    <3>1. UNCHANGED <<conn, unread, reply, temp>> /\ ServesOne(u)
      BY <1>1 DEF ServedOnce
    <3>2. pc'[t] = "dequeueSize" /\ fd'[t] = d
      BY <2>1 DEF AllInv, TypeOK
    <3>3. u # t => pc'[u] = pc[u] /\ fd'[u] = fd[u]
      BY <2>1 DEF AllInv, TypeOK
    <3>4. CASE u = t
      BY <2>8, <3>1, <3>2, <3>4 DEF ServesOne, Fresh
    <3>5. CASE u # t
      BY <3>1, <3>3, <3>5 DEF ServesOne, Fresh
    <3>6. QED BY <3>4, <3>5
  <2>10. \A i \in f + 1 .. Written - 1 : i \in f .. Written - 1
    BY <2>2
  <2>11. \A c : Fresh(c)' <=> Fresh(c)
    BY <1>1 DEF Fresh
  <2>12. \A i \in queue'.front .. Written' - 1 : Fresh(queue'.array[i])
    BY <2>7, <2>10 DEF ServedOnce
  <2>13. \A i \in queue'.front .. Written' - 1 : Fresh(queue.array[i])'
    BY <2>11, <2>12
  <2>14. (mpc \in {"enqueue", "enqueuePut"} => Fresh(mfd))'
    BY <1>1, <2>11 DEF ServedOnce, mainVars
  <2>15. QED BY <1>1, <1>2, <2>9, <2>13, <2>14 DEF ServedOnce
<1>5. QED BY <1>3, <1>4

\* Main puts a descriptor nobody has read into the next slot.
LEMMA EnqueueHandsIn ==
    ASSUME AllInv, SlotsTell, NobodyPastSlots, ServedOnce, EnqueuePut
    PROVE  ServedOnce' /\ Unseen
<1>1. /\ UNCHANGED <<pc, localVars, conn, unread, reply, known, portList,
                     totalPortNumber, servant>>
      /\ mpc = "enqueuePut" /\ mpc' = "enqueueSize" /\ mfd \in Conns
  BY DEF EnqueuePut, registryVars, peerVars, servantVars, AllInv, PoolInv, QueueShape
<1>2. Unseen
  BY <1>1 DEF Unseen, registered
<1>3. \A u \in Threads : ServesOne(u)'
  BY <1>1 DEF ServedOnce, ServesOne, Fresh, localVars
<1>4. \A c : Fresh(c)' <=> Fresh(c)
  BY <1>1 DEF Fresh
<1> DEFINE k == Written
<1>5. k \in Nat /\ Capacity \in Nat /\ k + 1 < Capacity
  BY <1>1, SlotsLeft, CapacityAssumption, SuccIndexInRing
     DEF AllInv, Sharing, PoolInv, QueueShape, Written
<1>6. queue' = [queue EXCEPT !.rear = k, !.array = [queue.array EXCEPT ![k] = mfd]]
  BY <1>1 DEF EnqueuePut, PutRear, SuccIndex, Written, AllInv, PoolInv, QueueShape
<1>7. /\ queue'.rear = k /\ queue'.front = queue.front
      /\ queue'.array = [queue.array EXCEPT ![k] = mfd]
  BY <1>6 DEF AllInv, PoolInv, QueueShape
<1>8. (k + 1) % Capacity = k + 1
  BY <1>5
<1>9. Written' = k + 1
  BY <1>7, <1>8 DEF Written
<1>10. /\ queue.front \in 0 .. Capacity - 1
      /\ queue.array \in [0 .. Capacity - 1 -> Conns \union Memory]
      /\ Fresh(mfd) /\ \A i \in queue.front .. k - 1 : Fresh(queue.array[i])
  BY <1>1 DEF AllInv, PoolInv, QueueShape, ServedOnce
<1> HIDE DEF k
<1>11. ASSUME NEW i \in queue.front .. (k + 1) - 1
      PROVE  Fresh(queue'.array[i])
  <2>1. i = k \/ i \in queue.front .. k - 1
    BY <1>5, <1>10
  <2>2. i \in 0 .. Capacity - 1
    BY <1>5, <1>10
  <2>3. queue'.array[i] = IF i = k THEN mfd ELSE queue.array[i]
    BY <1>7, <1>10, <2>2
  <2>4. QED BY <1>10, <2>1, <2>3
<1>12. \A i \in queue'.front .. Written' - 1 : Fresh(queue.array[i])'
  BY <1>4, <1>7, <1>9, <1>11
<1>13. QED BY <1>1, <1>2, <1>3, <1>12 DEF ServedOnce

\* The other steps of main, of the servants and of the peers leave what the
\* workers have in hand as it is.
LEMMA OthersKeepServed ==
    ASSUME AllInv, ServedOnce, UNCHANGED <<localVars, conn, unread, reply>>,
           \A t \in Threads : pc'[t] = pc[t] \/ (pc[t] = "waiting" /\ pc'[t] = "woken"),
           queue' = queue \/ queue' = [queue EXCEPT !.size = msize + 1],
           mpc' \in {"enqueue", "enqueuePut"} =>
              mpc \in {"enqueue", "enqueuePut"} /\ mfd' = mfd
    PROVE  ServedOnce'
<1>1. queue'.front = queue.front /\ queue'.array = queue.array /\ Written' = Written
  BY DEF AllInv, PoolInv, QueueShape, Written
<1>2. \A u \in Threads : ServesOne(u)'
  BY DEF ServedOnce, ServesOne, Fresh, localVars
<1>3. QED BY <1>1, <1>2 DEF ServedOnce, Fresh

\* Every step keeps ServedOnce and is one of RequestService, or none.
LEMMA ServiceStep ==
    ASSUME AllInv, AllInv', SlotsTell, PeersWrite, ~ Noticed, ~ Noticed',
           ServedOnce, [Next]_vars
    PROVE  ServedOnce' /\ [Peers!Next]_(Peers!serviceVars)
<1>0. NobodyPastSlots
  BY DEF AllInv, Sharing
<1>1. Unseen => UNCHANGED Peers!serviceVars
  BY DEF Unseen, Peers!serviceVars
<1>2. ASSUME NEW t \in Threads, WorkerStep(t) \/ SpuriousWakeup(t) \/ ReadUnwritten(t)
      PROVE  ServedOnce' /\ [Peers!Next]_(Peers!serviceVars)
  <2>1. CASE DequeueTake(t)
    BY <1>1, <2>1, DequeueHandsOut
  <2>2. CASE Reply(t)
    <3>1. OwnStep(t) /\ Peers!Answer(fd[t]) /\ fd[t] \in Conns
      BY <1>0, <2>2, ReplyIsAnswer DEF AllInv, ServedOnce, ServesOne, Reply
    <3>2. QED BY <1>0, <3>1, OwnKeepsServed DEF OwnStep, Peers!Next
  <2>3. CASE Count(t)
    <3>1. OwnStep(t) /\ Peers!Close(fd[t]) /\ fd[t] \in Conns
      BY <1>0, <2>3, CountIsClose DEF ServedOnce, ServesOne, Count
    <3>2. QED BY <1>0, <3>1, OwnKeepsServed DEF OwnStep, Peers!Next
  <2>4. CASE Register(t)
    BY <1>0, <1>1, <2>4, RegisterIsUnseen, OwnKeepsServed DEF OwnStep
  <2>5. CASE Registered(t)
    <3>1. OwnStep(t) /\ Peers!Register(fd[t]) /\ fd[t] \in Conns
      BY <1>0, <2>5, RegisteredIsRegister DEF ServedOnce, ServesOne, Registered
    <3>2. QED BY <1>0, <3>1, OwnKeepsServed DEF OwnStep, Peers!Next
  <2>6. CASE ~ DequeueTake(t) /\ ~ Reply(t) /\ ~ Count(t) /\ ~ Register(t) /\ ~ Registered(t)
    <3>1. OwnStep(t) /\ Unseen
      BY <1>0, <1>2, <2>6, QuietSteps
    <3>2. QED BY <1>0, <1>1, <3>1, OwnKeepsServed DEF OwnStep
  <2>7. QED BY <2>1, <2>2, <2>3, <2>4, <2>5, <2>6
<1>3. CASE MainStep
  <2>1. CASE EnqueuePut
    BY <1>0, <1>1, <2>1, EnqueueHandsIn
  <2>2. CASE EnqueueTest \/ EnqueueSize \/ Signal \/ ContactServant \/ Goodbye
    <3>1. UNCHANGED <<localVars, conn, unread, reply, known, portList,
                      totalPortNumber, servant>>
      BY <2>2 DEF EnqueueTest, EnqueueSize, Signal, ContactServant, Goodbye, poolVars,
         registryVars, peerVars, servantVars
    <3>2. \A t \in Threads : pc'[t] = pc[t] \/ (pc[t] = "waiting" /\ pc'[t] = "woken")
      <4>1. pc' = pc \/ \E t \in Threads : pc[t] = "waiting" /\ pc' = [pc EXCEPT ![t] = "woken"]
        BY <2>2 DEF EnqueueTest, EnqueueSize, Signal, SignalCond, ContactServant, Goodbye
      <4>2. QED BY SMTT(30), <4>1 DEF AllInv, TypeOK
    <3>3. queue' = queue \/ queue' = [queue EXCEPT !.size = msize + 1]
      BY <2>2 DEF EnqueueTest, EnqueueSize, Signal, ContactServant, Goodbye, poolVars
    <3>4. mpc' \in {"enqueue", "enqueuePut"} =>
             mpc \in {"enqueue", "enqueuePut"} /\ mfd' = mfd
      BY <2>2 DEF EnqueueTest, EnqueueSize, Signal, ContactServant, Goodbye, mainVars
    <3>5. Unseen
      BY <3>1 DEF Unseen, registered
    <3>6. QED BY <1>1, <3>1, <3>2, <3>3, <3>4, <3>5, OthersKeepServed
  <2>3. QED BY <1>3, <2>1, <2>2 DEF MainStep
<1>4. CASE Environment
  <2>1. ASSUME NEW c \in Conns, Accept(c)
        PROVE  ServedOnce' /\ [Peers!Next]_(Peers!serviceVars)
    <3>1. /\ UNCHANGED <<pc, localVars, queue, unread, reply, portList,
                         totalPortNumber, servant>>
          /\ mpc' = "enqueue" /\ mfd' = c /\ conn[c] = "idle"
          /\ conn' = [conn EXCEPT ![c] = "open"] /\ known' = [known EXCEPT ![c] = registered]
      BY <2>1 DEF Accept, poolVars, registryVars, servantVars
    <3>2. Peers!Accept(c)
      BY <3>1 DEF Peers!Accept, registered
    <3>3. \A d \in Conns : conn'[d] = IF d = c THEN "open" ELSE conn[d]
      BY <3>1 DEF AllInv, TypeOK
    <3>4. \A d \in Conns : Fresh(d) => Fresh(d)'
      BY <3>1, <3>3 DEF Fresh
    <3>5. Fresh(c)'
      BY <3>1, <3>3 DEF Fresh, ServedOnce
    <3>6. \A u \in Threads : ServesOne(u)'
      <4> SUFFICES ASSUME NEW u \in Threads PROVE ServesOne(u)'
        OBVIOUS
      <4>1. ServesOne(u) /\ pc'[u] = pc[u] /\ fd'[u] = fd[u] /\ temp'[u] = temp[u]
            /\ reply' = reply
        BY <3>1 DEF ServedOnce, localVars
      <4>2. fd[u] \in Conns => fd[u] # c
        BY <1>0, <3>1, OwnConnection
      <4>3. QED BY <3>3, <3>4, <4>1, <4>2 DEF ServesOne
    <3>7. \A i \in queue.front .. Written - 1 : Fresh(queue.array[i])'
      <4> SUFFICES ASSUME NEW i \in queue.front .. Written - 1
                   PROVE  Fresh(queue.array[i])'
        OBVIOUS
      <4>1. i \in 0 .. Written - 1
        BY DEF AllInv, PoolInv, QueueShape
      <4>2. Fresh(queue.array[i]) /\ queue.array[i] \in Conns
        BY <4>1 DEF ServedOnce, AllInv, Sharing, SlotsHold
      <4>3. QED BY <3>1, <3>3, <4>2 DEF Fresh
    <3>8. ServedOnce'
      BY <3>1, <3>3, <3>5, <3>6, <3>7 DEF ServedOnce, Written
    <3>9. QED BY <3>2, <3>8 DEF Peers!Next
  <2>2. CASE Sigint
    <3>1. /\ UNCHANGED <<pc, localVars, queue, conn, unread, reply, known, portList,
                         totalPortNumber, servant>>
          /\ mpc' \in {"enqueue", "enqueuePut"} =>
                mpc \in {"enqueue", "enqueuePut"} /\ mfd' = mfd
      BY <2>2 DEF Sigint, poolVars, registryVars, peerVars, servantVars
    <3>2. Unseen
      BY <3>1 DEF Unseen, registered
    <3>3. QED BY <1>1, <3>1, <3>2, OthersKeepServed
  <2>3. ASSUME NEW s \in Servants, ServantListens(s) \/ ServantStops(s)
        PROVE  ServedOnce' /\ [Peers!Next]_(Peers!serviceVars)
    <3>1. UNCHANGED <<mainVars, pc, localVars, queue, conn, unread, reply, known,
                      portList, totalPortNumber>>
      BY <2>3 DEF ServantListens, ServantStops, poolVars, registryVars, peerVars
    <3>2. Peers!ServantMoves(s)
      BY <2>3, <3>1 DEF ServantListens, ServantStops, Peers!ServantMoves, registered
    <3>3. QED BY <3>1, <3>2, OthersKeepServed DEF Peers!Next, mainVars
  <2>4. QED BY <1>2, <1>4, <2>1, <2>2, <2>3 DEF Environment
<1>5. CASE UNCHANGED vars
  <2>1. UNCHANGED <<mainVars, pc, localVars, queue, conn, unread, reply, known,
                    portList, totalPortNumber, servant>>
    BY <1>5 DEF vars, poolVars, registryVars, peerVars, servantVars
  <2>2. Unseen
    BY <2>1 DEF Unseen, registered
  <2>3. QED BY <1>1, <2>1, <2>2, OthersKeepServed DEF mainVars
<1>6. QED BY <1>2, <1>3, <1>4, <1>5 DEF Next

(***************************************************************************)
(* The server is a RequestService: as long as no worker holds what an      *)
(* unwritten slot held, every accept, answer, close and registration is    *)
(* one of the service, and every answer right when it is given.  A queue   *)
(* with more slots than connections, and peers that write before they      *)
(* close, are needed: without them a descriptor is read by two workers, or *)
(* a stale message is answered.                                            *)
(***************************************************************************)
THEOREM ServiceImplemented ==
    ASSUME SlotsTell, PeersWrite
    PROVE  Spec /\ []~ Noticed => ImplementsService
<1> DEFINE Facts == TypeOK /\ PoolInv /\ RegistryInv /\ AnswerInv /\ SharingInv
<1>1. Facts <=> AllInv
  BY DEF AllInv, SharingInv, Sharing, InHand
<1>2. Facts' <=> AllInv'
  BY DEF AllInv, SharingInv, Sharing, InHand, SlotsTell
<1>3. Init => ServedOnce /\ Peers!Init
  <2> SUFFICES ASSUME Init PROVE ServedOnce /\ Peers!Init
    OBVIOUS
  <2>1. PICK slots \in [0 .. Capacity - 1 -> Memory] : queue = createQueue(Capacity, slots)
    BY DEF Init
  <2>2. Written = 0 /\ queue.front = 0
    BY <2>1, CapacityAssumption DEF createQueue, Written
  <2>3. \A t \in Threads : ServesOne(t)
    BY DEF Init, ServesOne
  <2>4. registered = {}
    BY DEF Init, registered
  <2>5. QED BY <2>2, <2>3, <2>4 DEF Init, ServedOnce, Peers!Init
<1>4. Facts /\ Facts' /\ ~ Noticed /\ ~ Noticed' /\ ServedOnce /\ [Next]_vars
         => ServedOnce' /\ [Peers!Next]_(Peers!serviceVars)
  BY <1>1, <1>2, ServiceStep
<1> HIDE DEF Facts
<1>5. Spec => []Facts
  BY ServerTypes, ServerInvariants, AnswerInvariant, SharingInvariant, PTL DEF Facts
<1>6. QED
  BY <1>3, <1>4, <1>5, PTL DEF Spec, ImplementsService, Peers!Service
=============================================================================
