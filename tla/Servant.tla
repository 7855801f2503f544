------------------------------- MODULE Servant -------------------------------
(***************************************************************************)
(* A servant of the Final Project (servant.c): it loads a range of the     *)
(* cities of the data set into a hash table, declares them to the server,  *)
(* listens, and gives each connection to a detached thread of its own,     *)
(* which answers one request and ends.                                     *)
(*                                                                         *)
(* Main hands the descriptors to the threads through the request queue,    *)
(* and NOBODY locks it: every access of enqueue and dequeue to a field     *)
(* that another thread writes is a step of its own, and so are the load    *)
(* and the store of handledRequestNum++ (the makefile builds without       *)
(* optimisation).  The table is only read once main listens - until some   *)
(* thread calls freeResources: it empties the table slot by slot and frees *)
(* the queue while main and the other threads go on.                       *)
(*                                                                         *)
(* Outside the module: the peers (the constant Sends says what each one    *)
(* writes, if it writes), the files (Dataset), the text of a date.  The    *)
(* tree of a city's entries is the set of them.  Descriptor numbers are    *)
(* not reused.  SIGINT, for which no handler is installed, is left out.    *)
(***************************************************************************)
EXTENDS RequestQueue, FiniteSets, Sequences

CONSTANTS
    cities,         \* the directories of the data set, sorted
    Dataset,        \* the entries in the files of each city
    Ranges,         \* the arguments -c, [start, end], the program may get
    tableSize,      \* 1024 in servant.h
    HashCodes,      \* what the hash function may be
    Conns,          \* the connections peers make, each with its descriptor
    Sends,          \* the message the peer of each connection writes
    Capacity,       \* the argument of createQueue (100 in main)
    Memory,         \* what a slot of the queue's array holds from malloc
    Stack,          \* the messages a fresh stack may look like
    Failing         \* the calls of main that may fail: "declare", "listen",
                    \* "accept", "create"

Slots == 0 .. tableSize - 1
Names == {cities[i] : i \in 1 .. Len(cities)}
Entries == UNION {Dataset[n] : n \in Names}
Empty == [key |-> "NULL"]
NoReply == -1
Anything == -2        \* a number made of memory that was being freed
NoMessage == [type |-> "EOF"]          \* the peer closes without writing
Junk == [type |-> "UNINITIALISED"]
Exit == [type |-> "EXIT"]
Request(city, field, start, end) ==
    [type |-> "CLIENT_REQUEST", city |-> city, field |-> field,
     start |-> start, end |-> end]

ASSUME CitiesAssumption ==
    /\ cities \in Seq(Names) /\ "NULL" \notin Names
    /\ \A i, j \in 1 .. Len(cities) : cities[i] = cities[j] => i = j
ASSUME RangesAssumption == \* and the table is never full
    \A r \in Ranges : /\ r.start \in Nat \ {0} /\ r.end \in Nat
                      /\ r.start <= r.end /\ r.end - r.start + 1 < tableSize
ASSUME HashAssumption ==
    tableSize \in Nat \ {0} /\ HashCodes \subseteq [Names -> Slots]
ASSUME FailingAssumption ==
    Failing \subseteq {"declare", "listen", "accept", "create"}
ASSUME ConnsAssumption ==
    /\ {NoItem, "main"} \intersect Conns = {}
    /\ IsFiniteSet(Conns) /\ Capacity \in Nat \ {0}

Dates == [day : 1 .. 31, month : 1 .. 12, year : Nat]

ASSUME DatesAssumption ==
    /\ IsFiniteSet(Entries) /\ \A e \in Entries : e.date \in Dates
    /\ \A c \in Conns : Sends[c].type = "CLIENT_REQUEST" =>
          /\ Sends[c].city \in Names \union {"ALL"}
          /\ Sends[c].start \in Dates /\ Sends[c].end \in Dates

VARIABLES
    \* the arguments and the hash function of this process
    range, hashCode,
    \* main
    mpc,            \* where it is
    mindex,         \* the index i of its loop over the cities
    mslot,          \* hashIndex in insertToHash
    overwritten,    \* history: insertToHash has stored over another key
    mfd,            \* fd_array[fd_count], the descriptor it just accepted
    msize,          \* its register between the load and store of queue->size
    \* the threads, each named by the connection it was created for
    pc,             \* where each one is
    fd,             \* new_socket_fd: it need not be that connection
    temp,           \* the message on its stack
    loaded,         \* its register between a load and a store
    \* shared by them
    hashArray, queue, handledRequestNum,
    \* the process
    freed,          \* the queue and fd_array were given back
    exit,           \* "no", or how it ended
    reported,       \* the number in the goodbye message, once printed
    \* outside
    declared,       \* the cities of the declaration the server got
    conn,           \* "idle", "open" (accepted) or "closed" by the servant
    unread,         \* the connections whose message is still to be read
    reply,          \* the number a peer got first
    dropped,        \* history: the connections a full queue turned away
    raced           \* history: two threads were in the queue at once

loadVars == <<range, hashCode, mindex, mslot, overwritten>>
tableVars == <<loadVars, hashArray>>
threadVars == <<pc, fd, temp, loaded>>
peerVars == <<conn, unread, reply, dropped>>
exitVars == <<freed, exit, reported>>
vars == <<tableVars, mpc, mfd, msize, threadVars, queue, handledRequestNum,
          exitVars, declared, peerVars, raced>>

Init ==
    /\ range \in Ranges /\ hashCode \in HashCodes
    /\ mpc = "arguments" /\ mindex = range.start /\ mslot = 0
    /\ overwritten = FALSE
    /\ mfd = NoItem /\ msize = 0
    /\ pc = [h \in Conns |-> "none"]
    /\ fd = [h \in Conns |-> NoItem]
    /\ temp \in [Conns -> Stack]
    /\ loaded = [h \in Conns |-> 0]
    /\ hashArray = [s \in Slots |-> Empty]
    /\ \E slots \in [0 .. Capacity - 1 -> Memory] :
          queue = createQueue(Capacity, slots)
    /\ handledRequestNum = 0
    /\ freed = FALSE /\ exit = "no" /\ reported = NoItem
    /\ declared = {}
    /\ conn = [c \in Conns |-> "idle"] /\ unread = Conns
    /\ reply = [c \in Conns |-> NoReply]
    /\ dropped = {} /\ raced = FALSE
-----------------------------------------------------------------------------
(***************************************************************************)
(* The hash table: open addressing with linear probing.                    *)
(***************************************************************************)
\* The slots a search that begins at h looks at before it comes to s.
Before(h, s) ==
    IF h <= s THEN h .. s - 1 ELSE (h .. tableSize - 1) \union (0 .. s - 1)

StopsAt(key, s) == hashArray[s] = Empty \/ hashArray[s].key = key

\* Mutant of searchSlot: only the key's own slot is looked at.
searchNoProbing(key) == hashCode[key]

\* The slot in which a search ends: the table is not full, so there is one.
searchSlot(key) ==
    CHOOSE s \in Slots :
        /\ StopsAt(key, s)
        /\ \A p \in Before(hashCode[key], s) : ~ StopsAt(key, p)

search(key) == hashArray[searchSlot(key)]

\* Mutant of compareDate: the months are not compared.
compareDateNoMonth(dt1, dt2) ==
    IF dt1 = dt2 THEN 0
    ELSE IF \/ dt1.year < dt2.year
            \/ dt1.year = dt2.year /\ dt1.day < dt2.day
    THEN -1 ELSE 1

\* 0 for equal dates, -1 if the second is later, 1 if the first is.
compareDate(dt1, dt2) ==
    LET Less(f) == dt1[f] < dt2[f]
        Same(f) == dt1[f] = dt2[f]
    IN  IF Same("day") /\ Same("month") /\ Same("year") THEN 0
        ELSE IF \/ Less("year")
                \/ Same("year") /\ Less("month")
                \/ Same("year") /\ Same("month") /\ Less("day")
        THEN -1 ELSE 1

\* countCities: the entries of a tree that a request asks for.
Matching(data, req) ==
    {e \in data : /\ compareDate(e.date, req.start) >= 0
                  /\ e.real_estate = req.field
                  /\ compareDate(e.date, req.end) < 0}

findCities(req) ==
    IF search(req.city) = Empty THEN 0
    ELSE Cardinality(Matching(search(req.city).data, req))

findAllCities(req) ==
    Cardinality({x \in Slots \X Entries :
                    /\ hashArray[x[1]] # Empty
                    /\ x[2] \in Matching(hashArray[x[1]].data, req)})
-----------------------------------------------------------------------------
(***************************************************************************)
(* freeResources, of whoever calls it: the main thread or a handler.  The  *)
(* table is emptied from its first slot to its last.  The tree of a slot   *)
(* and the slot itself are freed in one step, and so are the queue's       *)
(* array, the queue and fd_array: what another thread makes of memory that *)
(* is gone is the same after the first of them and after the last.         *)
(***************************************************************************)
Procs == Conns \union {"main"}
Place(a) == IF a = "main" THEN mpc ELSE pc[a]
InFreeResources == {a \in Procs : Place(a) \in {"free", "exit"}}
Taken(s) == hashArray[s] # Empty

FreeSlot(a) ==
    /\ Place(a) = "free"
    /\ \E s \in Slots :
          /\ Taken(s) /\ \A t \in 0 .. s - 1 : ~ Taken(t)
          /\ hashArray' = [hashArray EXCEPT ![s] = Empty]
    /\ UNCHANGED <<loadVars, mpc, mfd, msize, threadVars, queue,
                   handledRequestNum, exitVars, declared, peerVars, raced>>

\* A second thread that comes here finds requestQueue NULL.
FreeQueue(a) ==
    /\ Place(a) = "free" /\ \A s \in Slots : ~ Taken(s)
    /\ freed' = TRUE
    /\ exit' = IF freed THEN "killed" ELSE "no"
    /\ IF a = "main" THEN mpc' = "exit" /\ pc' = pc
                     ELSE mpc' = mpc /\ pc' = [pc EXCEPT ![a] = "exit"]
    /\ UNCHANGED <<tableVars, mfd, msize, fd, temp, loaded, queue,
                   handledRequestNum, reported, declared, peerVars, raced>>

Leave(a) ==
    /\ Place(a) = "exit"
    /\ exit' = "success"
    /\ UNCHANGED <<tableVars, mpc, mfd, msize, threadVars, queue,
                   handledRequestNum, freed, reported, declared, peerVars,
                   raced>>

FreeResources(a) == FreeSlot(a) \/ FreeQueue(a) \/ Leave(a)

\* Who is about to use what freeResources frees: the table, from its first
\* slot on, and the queue and fd_array once they are freed.
UsesFreedMemory(a) ==
    \/ Place(a) \in {"free", "exit"} /\ InFreeResources # {a}
    \/ Place(a) = "answer" /\ InFreeResources # {}
    \/ freed /\ Place(a) \in {"enqueue", "enqueuePut", "enqueueLoad",
           "enqueueSize", "test", "item", "front", "frontStore", "size",
           "sizeStore"}
    \/ freed /\ Place(a) = "accept" /\ \E c \in Conns : conn[c] = "idle"

\* It may kill the process.
Crash ==
    /\ \E a \in Procs : UsesFreedMemory(a)
    /\ exit' = "killed"
    /\ UNCHANGED <<tableVars, mpc, mfd, msize, threadVars, queue,
                   handledRequestNum, freed, reported, declared, peerVars,
                   raced>>
-----------------------------------------------------------------------------
(***************************************************************************)
(* main before it listens: alone in the process.                           *)
(***************************************************************************)
\* A range that is not in the data set ends the process, as success.
CheckArguments ==
    /\ mpc = "arguments"
    /\ mpc' = IF range.start > Len(cities) \/ range.end > Len(cities)
              THEN "free" ELSE "load"
    /\ UNCHANGED <<tableVars, mfd, msize, threadVars, queue,
                   handledRequestNum, exitVars, declared, peerVars, raced>>

NextCity ==
    /\ mpc = "load"
    /\ IF mindex <= range.end
       THEN mpc' = "probe" /\ mslot' = hashCode[cities[mindex]]
       ELSE mpc' = "declare" /\ mslot' = mslot
    /\ UNCHANGED <<range, hashCode, mindex, overwritten, hashArray, mfd, msize,
                   threadVars, queue, handledRequestNum, exitVars, declared,
                   peerVars, raced>>

\* insertToHash, one slot at a time.  The last slot is never passed: a key
\* that comes to it takes it, whatever it holds.
Probe ==
    /\ mpc = "probe"
    /\ IF hashArray[mslot] # Empty /\ mslot < tableSize - 1
       THEN /\ mslot' = mslot + 1
            /\ UNCHANGED <<mpc, hashArray, overwritten>>
       ELSE /\ hashArray' = [hashArray EXCEPT ![mslot] =
                                [key |-> cities[mindex], data |-> {}]]
            /\ overwritten' = (overwritten \/ hashArray[mslot] # Empty)
            /\ mpc' = "file"
            /\ mslot' = mslot
    /\ UNCHANGED <<range, hashCode, mindex, mfd, msize, threadVars, queue,
                   handledRequestNum, exitVars, declared, peerVars, raced>>

\* readFile: every entry of the city's files goes to the item that search
\* finds (addEntry).
ReadFile ==
    /\ mpc = "file"
    /\ LET city == cities[mindex]
       IN  hashArray' =
             IF search(city) = Empty THEN hashArray
             ELSE [hashArray EXCEPT ![searchSlot(city)].data =
                      @ \union Dataset[city]]
    /\ mindex' = mindex + 1
    /\ mpc' = "load"
    /\ UNCHANGED <<range, hashCode, mslot, overwritten, mfd, msize, threadVars,
                   queue, handledRequestNum, exitVars, declared, peerVars,
                   raced>>

\* The connection to the server, which is told the cities and the port ...
Declare ==
    /\ mpc = "declare"
    /\ declared' = {cities[i] : i \in range.start .. range.end}
    /\ mpc' = "listen"
    /\ UNCHANGED <<tableVars, mfd, msize, threadVars, queue,
                   handledRequestNum, exitVars, peerVars, raced>>

\* ... before the port is bound.
Listen ==
    /\ mpc = "listen"
    /\ mpc' = "accept"
    /\ UNCHANGED <<tableVars, mfd, msize, threadVars, queue,
                   handledRequestNum, exitVars, declared, peerVars, raced>>

\* A call that fails ends the process, with status 0.
CallFails ==
    /\ mpc \in Failing
    /\ mpc' = "free"
    /\ UNCHANGED <<tableVars, mfd, msize, threadVars, queue, handledRequestNum,
                   exitVars, declared, peerVars, raced>>
-----------------------------------------------------------------------------
(***************************************************************************)
(* main: the accept loop, and enqueue without a lock.                      *)
(***************************************************************************)
\* The step of a is an access to the queue; it races with every other
\* thread that has begun an operation on it and not ended.
InQueue ==
    {h \in Conns : pc[h] \in {"item", "front", "frontStore", "size", "sizeStore"}}
    \union (IF mpc \in {"enqueuePut", "enqueueLoad", "enqueueSize"}
            THEN {"main"} ELSE {})

Touch(a) == raced' = (raced \/ InQueue \ {a} # {})

\* What a test of the size gives: anything once the queue is freed.
Seen(result) == IF freed THEN BOOLEAN ELSE {result}

Accept(c) ==
    /\ mpc = "accept" /\ conn[c] = "idle"
    /\ conn' = [conn EXCEPT ![c] = "open"]
    /\ mfd' = c
    /\ mpc' = "enqueue"
    /\ UNCHANGED <<tableVars, msize, threadVars, queue, handledRequestNum,
                   exitVars, declared, unread, reply, dropped, raced>>

\* A full queue drops the descriptor; a thread is created all the same.
EnqueueTest ==
    /\ mpc = "enqueue"
    /\ \E full \in Seen(isFull(queue)) :
          /\ mpc' = IF full THEN "create" ELSE "enqueuePut"
          /\ dropped' = IF full THEN dropped \union {mfd} ELSE dropped
    /\ Touch("main")
    /\ UNCHANGED <<tableVars, mfd, msize, threadVars, queue, handledRequestNum,
                   exitVars, declared, conn, unread, reply>>

\* Mutant of EnqueuePut: the item goes into the slot of the old rear.
EnqueuePutOldRear ==
    /\ mpc = "enqueuePut"
    /\ queue' = PutOldRear(queue, mfd)
    /\ mpc' = "enqueueLoad"
    /\ Touch("main")
    /\ UNCHANGED <<tableVars, mfd, msize, threadVars, handledRequestNum,
                   exitVars, declared, peerVars>>

EnqueuePut ==
    /\ mpc = "enqueuePut"
    /\ queue' = PutRear(queue, mfd)
    /\ mpc' = "enqueueLoad"
    /\ Touch("main")
    /\ UNCHANGED <<tableVars, mfd, msize, threadVars, handledRequestNum,
                   exitVars, declared, peerVars>>

EnqueueLoad ==
    /\ mpc = "enqueueLoad"
    /\ msize' = queue.size
    /\ mpc' = "enqueueSize"
    /\ Touch("main")
    /\ UNCHANGED <<tableVars, mfd, threadVars, queue, handledRequestNum,
                   exitVars, declared, peerVars>>

\* Mutant of EnqueueSize: the new size is not stored.
EnqueueSizeForgets ==
    /\ mpc = "enqueueSize"
    /\ mpc' = "create"
    /\ Touch("main")
    /\ UNCHANGED <<queue, msize, tableVars, mfd, threadVars,
                   handledRequestNum, exitVars, declared, peerVars>>

EnqueueSize ==
    /\ mpc = "enqueueSize"
    /\ queue' = [queue EXCEPT !.size = msize + 1]
    /\ msize' = 0
    /\ mpc' = "create"
    /\ Touch("main")
    /\ UNCHANGED <<tableVars, mfd, threadVars, handledRequestNum, exitVars,
                   declared, peerVars>>

\* pthread_create: the thread takes what it finds in the queue.
Create ==
    /\ mpc = "create"
    /\ pc' = [pc EXCEPT ![mfd] = "test"]
    /\ mfd' = NoItem
    /\ mpc' = "accept"
    /\ UNCHANGED <<tableVars, msize, fd, temp, loaded, queue,
                   handledRequestNum, exitVars, declared, peerVars, raced>>

MainStep ==
    /\ exit = "no"
    /\ \/ CheckArguments \/ NextCity \/ Probe \/ ReadFile \/ Declare \/ Listen
       \/ EnqueueTest \/ EnqueuePut \/ EnqueueLoad \/ EnqueueSize \/ Create
       \/ FreeResources("main")
-----------------------------------------------------------------------------
(***************************************************************************)
(* servantHandler: dequeue without a lock.                                 *)
(***************************************************************************)
Goto(h, label) == pc' = [pc EXCEPT ![h] = label]

\* An empty queue ends the thread; the connection it was meant for stays.
DequeueTest(h) ==
    /\ pc[h] = "test"
    /\ \E empty \in Seen(isEmpty(queue)) :
          Goto(h, IF empty THEN "ended" ELSE "item")
    /\ Touch(h)
    /\ UNCHANGED <<tableVars, mpc, mfd, msize, fd, temp, loaded, queue,
                   handledRequestNum, exitVars, declared, peerVars>>

\* Reading the front and reading its slot are one step: the slot was written
\* before the thread existed, and is written again only when the ring has come
\* round.  In freed memory it finds what was there, or what malloc may leave.
DequeueItem(h) ==
    /\ pc[h] = "item"
    /\ \E item \in IF freed THEN Memory \union {queue.array[queue.front]}
                             ELSE {queue.array[queue.front]} :
          fd' = [fd EXCEPT ![h] = item]
    /\ Goto(h, "front")
    /\ Touch(h)
    /\ UNCHANGED <<tableVars, mpc, mfd, msize, temp, loaded, queue,
                   handledRequestNum, exitVars, declared, peerVars>>

DequeueFront(h) ==
    /\ pc[h] = "front"
    /\ loaded' = [loaded EXCEPT ![h] = queue.front]
    /\ Goto(h, "frontStore")
    /\ Touch(h)
    /\ UNCHANGED <<tableVars, mpc, mfd, msize, fd, temp, queue,
                   handledRequestNum, exitVars, declared, peerVars>>

\* Mutant of DequeueFrontStore: the front stays.
DequeueFrontStays(h) ==
    /\ pc[h] = "frontStore"
    /\ loaded' = [loaded EXCEPT ![h] = 0]
    /\ Goto(h, "size")
    /\ Touch(h)
    /\ UNCHANGED <<queue, tableVars, mpc, mfd, msize, fd, temp,
                   handledRequestNum, exitVars, declared, peerVars>>

DequeueFrontStore(h) ==
    /\ pc[h] = "frontStore"
    /\ queue' = [queue EXCEPT !.front = SuccIndex(queue, loaded[h])]
    /\ loaded' = [loaded EXCEPT ![h] = 0]
    /\ Goto(h, "size")
    /\ Touch(h)
    /\ UNCHANGED <<tableVars, mpc, mfd, msize, fd, temp, handledRequestNum,
                   exitVars, declared, peerVars>>

DequeueSize(h) ==
    /\ pc[h] = "size"
    /\ loaded' = [loaded EXCEPT ![h] = queue.size]
    /\ Goto(h, "sizeStore")
    /\ Touch(h)
    /\ UNCHANGED <<tableVars, mpc, mfd, msize, fd, temp, queue,
                   handledRequestNum, exitVars, declared, peerVars>>

\* The thread ends when what it took is the -1 that stands for nothing.
DequeueSizeStore(h) ==
    /\ pc[h] = "sizeStore"
    /\ queue' = [queue EXCEPT !.size = loaded[h] - 1]
    /\ loaded' = [loaded EXCEPT ![h] = 0]
    /\ Goto(h, IF fd[h] = NoItem THEN "ended" ELSE "read")
    /\ Touch(h)
    /\ UNCHANGED <<tableVars, mpc, mfd, msize, fd, temp, handledRequestNum,
                   exitVars, declared, peerVars>>
-----------------------------------------------------------------------------
(***************************************************************************)
(* servantHandler: the request.                                            *)
(***************************************************************************)
\* The server has closed its end: at once after EXIT, else after the answer.
PeerClosed(c) == Sends[c].type # "CLIENT_REQUEST" \/ reply[c] # NoReply

\* A descriptor that was closed, or never was one, makes read fail.  At the
\* end of the stream read gives 0, which is no error for the code: temp
\* stays what the stack held.
Read(h) ==
    /\ pc[h] = "read"
    /\ LET c == fd[h]
       IN  IF c \notin Conns \/ (c \in Conns /\ conn[c] # "open")
           THEN Goto(h, "free") /\ UNCHANGED <<temp, unread>>
           ELSE /\ c \in unread \/ PeerClosed(c)
                /\ temp' = IF c \in unread /\ Sends[c] # NoMessage
                           THEN [temp EXCEPT ![h] = Sends[c]] ELSE temp
                /\ unread' = unread \ {c}
                /\ Goto(h, "answer")
    /\ UNCHANGED <<tableVars, mpc, mfd, msize, fd, loaded, queue,
                   handledRequestNum, exitVars, declared, conn, reply, dropped,
                   raced>>

\* Mutant of Answer: every message is counted as a request.
AnswerCountsAll(h) ==
    /\ pc[h] = "answer"
    /\ Goto(h, "count")
    /\ reply' = IF temp[h].type = "CLIENT_REQUEST" /\ temp[h].city # "ALL"
                THEN [reply EXCEPT ![fd[h]] = findCities(temp[h])] ELSE reply
    /\ UNCHANGED <<exitVars, tableVars, mpc, mfd, msize, fd, temp, loaded,
                   queue, handledRequestNum, declared, conn, unread, dropped,
                   raced>>

\* The answer a thread gives: what it counts in a table that somebody is
\* emptying is anything.
Total(req) ==
    IF InFreeResources # {} THEN Anything
    ELSE IF req.city = "ALL" THEN findAllCities(req) ELSE findCities(req)

\* A message that is no request ends the process; EXIT with the goodbye.
Answer(h) ==
    /\ pc[h] = "answer"
    /\ IF temp[h].type = "CLIENT_REQUEST"
       THEN /\ reply' = IF reply[fd[h]] # NoReply THEN reply
                        ELSE [reply EXCEPT ![fd[h]] = Total(temp[h])]
            /\ Goto(h, "count")
            /\ reported' = reported
       ELSE /\ reported' = IF temp[h].type = "EXIT" THEN handledRequestNum
                                                    ELSE reported
            /\ Goto(h, "free")
            /\ reply' = reply
    /\ UNCHANGED <<tableVars, mpc, mfd, msize, fd, temp, loaded, queue,
                   handledRequestNum, freed, exit, declared, conn, unread,
                   dropped, raced>>

CountLoad(h) ==
    /\ pc[h] = "count"
    /\ loaded' = [loaded EXCEPT ![h] = handledRequestNum]
    /\ Goto(h, "countStore")
    /\ UNCHANGED <<tableVars, mpc, mfd, msize, fd, temp, queue,
                   handledRequestNum, exitVars, declared, peerVars, raced>>

\* handledRequestNum is stored and the descriptor closed.
CountStore(h) ==
    /\ pc[h] = "countStore"
    /\ handledRequestNum' = loaded[h] + 1
    /\ loaded' = [loaded EXCEPT ![h] = 0]
    /\ conn' = [conn EXCEPT ![fd[h]] = "closed"]
    /\ Goto(h, "ended")
    /\ UNCHANGED <<tableVars, mpc, mfd, msize, fd, temp, queue, exitVars,
                   declared, unread, reply, dropped, raced>>

\* The thread waits in read for its peer, who may take any time.
AwaitsPeer(h) ==
    pc[h] = "read" /\ fd[h] \in Conns /\ conn[fd[h]] = "open"

Serve(h) ==
    \/ DequeueTest(h) \/ DequeueItem(h) \/ DequeueFront(h)
    \/ DequeueFrontStore(h) \/ DequeueSize(h) \/ DequeueSizeStore(h)
    \/ Read(h) \/ Answer(h) \/ CountLoad(h) \/ CountStore(h)

HandlerStep(h) == exit = "no" /\ (Serve(h) \/ FreeResources(h))
-----------------------------------------------------------------------------
Next ==
    \/ MainStep
    \/ \E h \in Conns : HandlerStep(h)
    \/ exit = "no" /\ (CallFails \/ Crash \/ \E c \in Conns : Accept(c))

Spec == Init /\ [][Next]_vars

\* The threads of the process are scheduled; nobody need connect or write,
\* and no call need fail.
FairSpec ==
    /\ Spec
    /\ WF_vars(MainStep)
    /\ \A h \in Conns : WF_vars(HandlerStep(h) /\ ~ AwaitsPeer(h))
-----------------------------------------------------------------------------
TypeOK ==
    /\ range \in Ranges /\ hashCode \in HashCodes
    /\ mindex \in range.start .. range.end + 1
    /\ mslot \in Slots
    /\ hashArray \in [Slots -> [key : Names, data : SUBSET Entries] \union {Empty}]
    /\ mpc \in {"arguments", "load", "probe", "file", "declare", "listen",
                "accept", "enqueue", "enqueuePut", "enqueueLoad",
                "enqueueSize", "create", "free",
                "exit"}
    /\ fd \in [Conns -> Conns \union Memory \union {NoItem}]
    /\ queue.front \in 0 .. Capacity - 1 /\ queue.size \in Int
    /\ handledRequestNum \in 0 .. Cardinality(Conns)
    /\ exit \in {"no", "success", "killed"}
    /\ declared \in SUBSET Names

Loaded == {cities[i] : i \in range.start .. mindex - 1}

(***************************************************************************)
(* Whatever the hash function does to the names, search finds every city   *)
(* that was inserted, with all its entries and no others: the slots that   *)
(* insertToHash passed were taken and stay taken, although insertToHash    *)
(* and search do not go round the table in the same way.  That holds until *)
(* the table is emptied, and as long as no key was stored over another.    *)
(***************************************************************************)
CitiesFound ==
    (~ overwritten /\ InFreeResources = {}) =>
        \A city \in Loaded :
            search(city) = [key |-> city, data |-> Dataset[city]]

\* The dates in the order of the calendar.
Day(dt) == (dt.year * 12 + dt.month) * 31 + dt.day

\* What the files of the servant's cities say about a request.
Expected(req) ==
    Cardinality({x \in Loaded \X Entries :
                    /\ req.city \in {x[1], "ALL"} /\ x[2] \in Dataset[x[1]]
                    /\ x[2].real_estate = req.field
                    /\ Day(x[2].date) \in Day(req.start) .. Day(req.end) - 1})

(***************************************************************************)
(* The number a peer gets first is the answer to its own request, although *)
(* threads take each other's connections and two of them may take one, of  *)
(* which the later reads nothing and works on what its stack held.  The    *)
(* start date is in the range, the end date is not (countCities).  Only a  *)
(* number that was still being counted when somebody had begun to empty    *)
(* the table (freeResources) may be wrong.                                 *)
(***************************************************************************)
AnswersRight ==
    ~ overwritten =>
        \A c \in Conns :
            (reply[c] # NoReply /\ Sends[c].type = "CLIENT_REQUEST")
                => \/ reply[c] = Expected(Sends[c])
                   \/ reply[c] = Anything /\ InFreeResources # {}

\* The threads that answered a request and counted it.
Counted == {h \in Conns : /\ pc[h] = "ended" /\ fd[h] # NoItem
                          /\ temp[h].type = "CLIENT_REQUEST"}

\* The connections closed behind their answer.
Answered == {c \in Conns : conn[c] = "closed"}

(***************************************************************************)
(* The number in the goodbye message is never above the number of threads  *)
(* that answered a request and counted it (servantHandler): lost           *)
(* increments make it too small, never too large.  It may be above the     *)
(* number of requests, since two threads on one connection both answer and *)
(* both count - but only after accesses to the queue overlapped, or once   *)
(* the queue was freed.                                                    *)
(***************************************************************************)
CountNeverAhead ==
    /\ handledRequestNum <= Cardinality(Counted)
    /\ ~ raced /\ ~ freed => handledRequestNum <= Cardinality(Answered)

(***************************************************************************)
(* Without the lock, too, a thread only ever takes a descriptor that       *)
(* accept returned: lost updates of the front leave it too far behind,     *)
(* never too far ahead, and there is no thread without its item.           *)
(***************************************************************************)
TakesAccepted ==
    ~ freed => \A h \in Conns : pc[h] \in {"read", "answer"} =>
        fd[h] \in Conns /\ conn[fd[h]] # "idle"

(***************************************************************************)
(* Two threads share a connection only after they, or main and one of      *)
(* them, were in the queue at the same time.                               *)
(***************************************************************************)
NobodyShares ==
    ~ raced /\ ~ freed =>
        \A h, k \in Conns : (fd[h] = fd[k] /\ fd[h] # NoItem) => h = k

(***************************************************************************)
(* What the threads make of the unlocked queue and counter until the queue *)
(* is freed: what is taken was accepted, by one thread unless accesses     *)
(* overlapped, and the number in the goodbye message is bounded by the     *)
(* threads that answered and, unless accesses overlapped, by the           *)
(* connections that got an answer (servantHandler).                        *)
(***************************************************************************)
ConnectionsAccounted ==
    TypeOK /\ TakesAccepted /\ NobodyShares /\ CountNeverAhead

\* The peer was answered, or has yet to write and a thread waits in read for
\* that; or a full queue, a race or the end of the process was in the way.
DealtWith(c) ==
    \/ reply[c] # NoReply
    \/ c \in unread /\ \E h \in Conns : fd[h] = c /\ AwaitsPeer(h)
    \/ c \in dropped \/ raced \/ exit # "no"

(***************************************************************************)
(* Every accepted request is answered in the end, unless its peer does not *)
(* write it, a full queue turned the connection away, the process ends, or *)
(* accesses to the queue overlapped: then the thread meant for it may have *)
(* found the queue empty, and the peer waits for ever.                     *)
(***************************************************************************)
Served ==
    []<>(\A c \in Conns :
            (conn[c] = "open" /\ Sends[c].type = "CLIENT_REQUEST")
                => DealtWith(c))
=============================================================================
