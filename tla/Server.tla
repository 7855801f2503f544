------------------------------- MODULE Server -------------------------------
(***************************************************************************)
(* The server of the Final Project (server.c): the main thread accepts     *)
(* connections and queues their file descriptors; a pool of detached       *)
(* worker threads takes them from the queue, reads one message from each,  *)
(* and registers a servant or answers a client with what servants answer.  *)
(*                                                                         *)
(* A step is a run of code with at most one access to memory that another  *)
(* thread writes at the same time.  The places where the code shares       *)
(* without a common lock are steps of their own: main changes the queue    *)
(* without the mutex the workers hold, and queue->size = queue->size + 1,  *)
(* totalHandledNumber++ are a load and a store.                            *)
(*                                                                         *)
(* Outside the module: the peers of the connections (which message each    *)
(* one writes is the constant Sends), and the servants, of which the       *)
(* server sees whether they accept a connection and whether they answer.   *)
(* Numbers of descriptors are not reused: a connection is its own          *)
(* descriptor, and closing one a second time closes nothing.               *)
(* The inductive invariants are in Server_proof, with the proofs.          *)
(***************************************************************************)
EXTENDS RequestQueue, FiniteSets, Sequences

CONSTANTS
    numThreads,     \* the argument -t
    Conns,          \* the connections peers make, each with its descriptor
    Sends,          \* the message the peer of each connection writes
    Capacity,       \* the argument of createQueue (100 in main)
    Servants,       \* the servant processes, each with its port
    Cities,         \* the cities of each servant's declaration
    Mortal,         \* the servants that may be killed
    Memory,         \* what a slot of the queue's array holds from malloc
    Stack,          \* the messages a fresh stack may look like
    Disturbances,   \* which of these occur: "SIGINT", "spurious" wakeups,
                    \* "stdin" (standard input is at its end)
    MaxAccepted     \* bound: how many of Conns are accepted in a run

Threads == 0 .. numThreads - 1

NoMessage == [type |-> "EOF"]          \* the peer closes without writing
ClientRequest(city) == [type |-> "CLIENT_REQUEST", city |-> city]
Declaration(s) == [type |-> "SERVANT_DECLARATION", servant |-> s]
Junk == [type |-> "UNINITIALISED"]
Nobody == [type |-> "NOBODY"]
AnswerOf(s, m) == [by |-> s, to |-> m]  \* what servant s answers to message m

ASSUME ThreadsAssumption == numThreads \in Nat \ {0}
ASSUME CapacityAssumption == Capacity \in Nat \ {0}
\* What the peers and an uninitialised stack may put into temp.
Messages == {Sends[c] : c \in Conns} \union Stack

ASSUME MessagesAssumption ==
    \A m \in Messages :
        m.type = "SERVANT_DECLARATION" => m.servant \in Servants
ASSUME ServantsAssumption == Nobody \notin Servants
ASSUME ConnsAssumption == NoItem \notin Conns /\ IsFiniteSet(Conns)

VARIABLES
    \* the main thread
    mpc,            \* where it is
    mfd,            \* fd_array[fd_count], the descriptor it just accepted
    msize,          \* its register between the load and store of queue->size
    mindex,         \* the index i of its loops
    \* the workers
    pc,             \* where each one is
    fd,             \* new_socket_fd
    temp,           \* the message on its stack; it outlives the iteration
    loaded,         \* its register between a load and a store
    query,          \* [i, target, asked] of the request it is answering
    response,       \* the variable of that name of each branch, TRUE for ALL
    \* shared by the threads
    queue, mutex, statusArray,
    portList, totalPortNumber, fileMutex,
    totalHandledNumber, sig,
    \* the process
    exit,           \* "no", or how it ended
    reported,       \* the number in the goodbye message, once printed
    \* outside
    conn,           \* "idle", "open" (accepted) or "closed" by the server
    unread,         \* the connections whose message is still to be read
    reply,          \* what was written to each connection
    known,          \* history: the servants registered when it was accepted
    servant,        \* "starting", "listening" or "gone"
    told            \* the servants that were sent EXIT

mainVars == <<mpc, mfd, msize, mindex>>
localVars == <<fd, temp, loaded, query, response>>
poolVars == <<queue, mutex, statusArray>>
registryVars == <<portList, totalPortNumber, fileMutex>>
processVars == <<totalHandledNumber, sig, exit, reported>>
peerVars == <<conn, unread, reply, known>>
servantVars == <<servant, told>>
vars == <<mainVars, pc, localVars, poolVars, registryVars, processVars,
          peerVars, servantVars>>

NoQuery == [i |-> 0, target |-> Nobody, asked |-> <<>>]

Init ==
    /\ mpc = "accept" /\ mfd = NoItem /\ msize = 0 /\ mindex = 0
    /\ pc = [t \in Threads |-> "top"]
    /\ fd = [t \in Threads |-> NoItem]
    /\ temp \in [Threads -> Stack]
    /\ loaded = [t \in Threads |-> 0]
    /\ query = [t \in Threads |-> NoQuery]
    /\ response = [t \in Threads |-> [all \in BOOLEAN |-> Junk]]
    /\ \E slots \in [0 .. Capacity - 1 -> Memory] :
          queue = createQueue(Capacity, slots)
    /\ mutex = NoItem /\ fileMutex = NoItem
    /\ statusArray = [t \in Threads |-> "FREE"]
    /\ portList = <<>> /\ totalPortNumber = 0
    /\ totalHandledNumber = 0 /\ sig = FALSE
    /\ exit = "no" /\ reported = NoItem
    /\ conn = [c \in Conns |-> "idle"]
    /\ unread = Conns
    /\ reply = [c \in Conns |-> Nobody]
    /\ known = [c \in Conns |-> {}]
    /\ servant = [s \in Servants |-> "starting"]
    /\ told = {}
-----------------------------------------------------------------------------
(***************************************************************************)
(* main: the accept loop.                                                  *)
(***************************************************************************)
registered == {portList[i] : i \in 1 .. totalPortNumber}

Accept(c) ==
    /\ mpc = "accept" /\ conn[c] = "idle"
    /\ Cardinality({d \in Conns : conn[d] # "idle"}) < MaxAccepted
    /\ conn' = [conn EXCEPT ![c] = "open"]
    /\ known' = [known EXCEPT ![c] = registered]
    /\ mfd' = c
    /\ mpc' = "enqueue"
    /\ UNCHANGED <<msize, mindex, pc, localVars, poolVars, registryVars,
                   processVars, unread, reply, servantVars>>

\* enqueue: a full queue drops the descriptor, which stays open with nobody
\* to serve it ...
EnqueueTest ==
    /\ mpc = "enqueue"
    /\ IF isFull(queue) THEN mpc' = "signal" /\ mfd' = NoItem
                        ELSE mpc' = "enqueuePut" /\ mfd' = mfd
    /\ mindex' = 0
    /\ UNCHANGED <<msize, pc, localVars, poolVars, registryVars, processVars,
                   peerVars, servantVars>>

\* ... else it is written, the size loaded ...
EnqueuePut ==
    /\ mpc = "enqueuePut"
    /\ queue' = PutRear(queue, mfd)
    /\ msize' = queue.size
    /\ mfd' = NoItem
    /\ mpc' = "enqueueSize"
    /\ UNCHANGED <<mindex, pc, localVars, mutex, statusArray, registryVars,
                   processVars, peerVars, servantVars>>

\* ... and stored.
EnqueueSize ==
    /\ mpc = "enqueueSize"
    /\ queue' = [queue EXCEPT !.size = msize + 1]
    /\ msize' = 0
    /\ mpc' = "signal"
    /\ UNCHANGED <<mfd, mindex, pc, localVars, mutex, statusArray,
                   registryVars, processVars, peerVars, servantVars>>

\* pthread_cond_signal: wakes a waiting worker, if there is one.
SignalCond ==
    IF \E t \in Threads : pc[t] = "waiting"
    THEN \E t \in Threads : /\ pc[t] = "waiting"
                            /\ pc' = [pc EXCEPT ![t] = "woken"]
    ELSE pc' = pc

\* The scan for a FREE worker, one element of statusArray at a time.
Signal ==
    /\ mpc = "signal"
    /\ IF mindex = numThreads
       THEN mpc' = "accept" /\ mindex' = 0 /\ pc' = pc
       ELSE IF statusArray[mindex] = "FREE"
       THEN mpc' = "accept" /\ mindex' = 0 /\ SignalCond
       ELSE mpc' = mpc /\ mindex' = mindex + 1 /\ pc' = pc
    /\ UNCHANGED <<mfd, msize, localVars, poolVars, registryVars,
                   processVars, peerVars, servantVars>>

\* SIGINT is delivered to the main thread.  It makes accept fail when main
\* is in it; otherwise main goes on and only the flag remains.
Sigint ==
    /\ "SIGINT" \in Disturbances
    /\ sig' = TRUE
    /\ IF mpc = "accept" THEN mpc' = "contact" /\ mindex' = 0
                         ELSE UNCHANGED <<mpc, mindex>>
    /\ UNCHANGED <<mfd, msize, pc, localVars, poolVars, registryVars,
                   totalHandledNumber, exit, reported, peerVars, servantVars>>

\* Mutant of ContactServant: a servant that refuses is passed over.
ContactServantSkips ==
    /\ mpc = "contact" /\ mindex < totalPortNumber
    /\ LET s == portList[mindex + 1]
       IN  told' = IF servant[s] = "listening" THEN told \union {s} ELSE told
    /\ mindex' = mindex + 1
    /\ UNCHANGED <<mpc, mfd, msize, pc, localVars, poolVars, registryVars,
                   processVars, peerVars, servant>>

\* handleSigint: one registered servant after the other is sent EXIT.
ContactServant ==
    /\ mpc = "contact" /\ mindex < totalPortNumber
    /\ LET s == portList[mindex + 1]
       IN  IF servant[s] = "listening"
           THEN told' = told \union {s} /\ mindex' = mindex + 1 /\ exit' = exit
           ELSE exit' = "failure" /\ UNCHANGED <<told, mindex>>
    /\ UNCHANGED <<mpc, mfd, msize, pc, localVars, poolVars, registryVars,
                   totalHandledNumber, sig, reported, peerVars, servant>>

\* The end of handleSigint, free_serverResources and the goodbye message.
Goodbye ==
    /\ mpc = "contact" /\ mindex >= totalPortNumber
    /\ reported' = totalHandledNumber
    /\ exit' = "success"
    /\ UNCHANGED <<mainVars, pc, localVars, poolVars, registryVars,
                   totalHandledNumber, sig, peerVars, servantVars>>

MainStep ==
    /\ exit = "no"
    /\ \/ EnqueueTest \/ EnqueuePut \/ EnqueueSize \/ Signal
       \/ ContactServant \/ Goodbye
-----------------------------------------------------------------------------
(***************************************************************************)
(* serverHandler: how a worker gets a descriptor, or goes to sleep.        *)
(***************************************************************************)
Goto(t, label) == pc' = [pc EXCEPT ![t] = label]

TestSig(t) ==
    /\ pc[t] = "top"
    /\ IF sig THEN exit' = "failure" /\ pc' = pc
              ELSE Goto(t, "test") /\ exit' = exit
    /\ UNCHANGED <<mainVars, localVars, poolVars, registryVars,
                   totalHandledNumber, sig, reported, peerVars, servantVars>>

\* The emptiness test is made without the mutex.
TestQueue(t) ==
    /\ pc[t] = "test"
    /\ Goto(t, IF isEmpty(queue) THEN "wait" ELSE "lock")
    /\ UNCHANGED <<mainVars, localVars, poolVars, registryVars, processVars,
                   peerVars, servantVars>>

\* lock, then pthread_cond_wait lets the mutex go and sleeps, untested.
Wait(t) ==
    /\ pc[t] = "wait" /\ mutex = NoItem
    /\ Goto(t, "waiting")
    /\ UNCHANGED <<mainVars, localVars, poolVars, registryVars, processVars,
                   peerVars, servantVars>>

\* pthread_cond_wait may return without a signal.
SpuriousWakeup(t) ==
    /\ "spurious" \in Disturbances
    /\ pc[t] = "waiting"
    /\ Goto(t, "woken")
    /\ UNCHANGED <<mainVars, localVars, poolVars, registryVars, processVars,
                   peerVars, servantVars>>

\* pthread_cond_wait takes the mutex back; it is unlocked at once.
Wake(t) ==
    /\ pc[t] = "woken" /\ mutex = NoItem
    /\ Goto(t, "top")
    /\ UNCHANGED <<mainVars, localVars, poolVars, registryVars, processVars,
                   peerVars, servantVars>>

\* Mutant of Lock: dequeue is called without the mutex.
LockNothing(t) ==
    /\ pc[t] = "lock"
    /\ Goto(t, "dequeue")
    /\ UNCHANGED <<mutex, mainVars, localVars, queue, statusArray,
                   registryVars, processVars, peerVars, servantVars>>

Lock(t) ==
    /\ pc[t] = "lock" /\ mutex = NoItem
    /\ mutex' = t
    /\ Goto(t, "dequeue")
    /\ UNCHANGED <<mainVars, localVars, queue, statusArray, registryVars,
                   processVars, peerVars, servantVars>>

\* Mutant of DequeueTake: an empty queue leaves the mutex locked.
DequeueTakeLeavesLocked(t) ==
    /\ pc[t] = "dequeue"
    /\ IF isEmpty(queue)
       THEN Goto(t, "top") /\ UNCHANGED <<queue, fd, loaded>>
       ELSE /\ fd' = [fd EXCEPT ![t] = front(queue)]
            /\ loaded' = [loaded EXCEPT ![t] = queue.size]
            /\ queue' = DropFront(queue)
            /\ Goto(t, "dequeueSize")
    /\ UNCHANGED <<mutex, mainVars, temp, query, response, statusArray,
                   registryVars, processVars, peerVars, servantVars>>

\* dequeue up to the load of the size; on an empty queue the worker unlocks.
\* The test and the load are one step: only main writes the size in between,
\* and it only raises it (StoresKeepDirection).
DequeueTake(t) ==
    /\ pc[t] = "dequeue"
    /\ IF isEmpty(queue)
       THEN /\ mutex' = NoItem
            /\ Goto(t, "top")
            /\ UNCHANGED <<queue, fd, loaded>>
       ELSE /\ fd' = [fd EXCEPT ![t] = front(queue)]
            /\ loaded' = [loaded EXCEPT ![t] = queue.size]
            /\ queue' = DropFront(queue)
            /\ Goto(t, "dequeueSize")
            /\ mutex' = mutex
    /\ UNCHANGED <<mainVars, temp, query, response, statusArray,
                   registryVars, processVars, peerVars, servantVars>>

\* A slot nobody wrote may hold the -1 that stands for no descriptor.
DequeueSize(t) ==
    /\ pc[t] = "dequeueSize"
    /\ queue' = [queue EXCEPT !.size = loaded[t] - 1]
    /\ loaded' = [loaded EXCEPT ![t] = 0]
    /\ mutex' = NoItem
    /\ Goto(t, IF fd[t] = NoItem THEN "top" ELSE "claim")
    /\ UNCHANGED <<mainVars, fd, temp, query, response, statusArray,
                   registryVars, processVars, peerVars, servantVars>>

\* Main still saw the worker FREE between its unlock and this step.
Claim(t) ==
    /\ pc[t] = "claim"
    /\ statusArray' = [statusArray EXCEPT ![t] = "IN_USE"]
    /\ Goto(t, "read")
    /\ UNCHANGED <<mainVars, localVars, queue, mutex, registryVars,
                   processVars, peerVars, servantVars>>

-----------------------------------------------------------------------------
(***************************************************************************)
(* serverHandler: what a worker does with a descriptor.                    *)
(***************************************************************************)
\* The peer of c has closed its end: a servant closes after its message, a
\* client after it has read the answer.
PeerClosed(c) == Sends[c].type # "CLIENT_REQUEST" \/ reply[c] # Nobody

\* A descriptor that was closed makes read fail, and the process exit.  At
\* the end of the stream read gives 0, which is not an error for the code:
\* temp keeps the message of the iteration before.
Read(t) ==
    /\ pc[t] = "read" /\ fd[t] \in Conns
    /\ IF conn[fd[t]] # "open"
       THEN exit' = "failure" /\ UNCHANGED <<pc, temp, unread>>
       ELSE /\ fd[t] \in unread \/ PeerClosed(fd[t])
            /\ temp' = IF fd[t] \in unread /\ Sends[fd[t]] # NoMessage
                       THEN [temp EXCEPT ![t] = Sends[fd[t]]] ELSE temp
            /\ unread' = unread \ {fd[t]}
            /\ Goto(t, "dispatch")
            /\ exit' = exit
    /\ UNCHANGED <<mainVars, fd, loaded, query, response, poolVars,
                   registryVars, totalHandledNumber, sig, reported, conn, reply, known,
                   servantVars>>

\* What a slot nobody wrote holds is no descriptor, or it is 0, the standard
\* input, which may be at its end (or keep the worker waiting).
ReadUnwritten(t) ==
    /\ pc[t] = "read" /\ fd[t] \notin Conns
    /\ \/ exit' = "failure" /\ pc' = pc
       \/ "stdin" \in Disturbances /\ Goto(t, "dispatch") /\ exit' = exit
    /\ UNCHANGED <<mainVars, localVars, poolVars, registryVars,
                   totalHandledNumber, sig, reported, peerVars, servantVars>>

\* Mutant of Handling: the loop stops before the last entry.
HandlingButLast(city) ==
    {i \in 1 .. totalPortNumber - 1 : city \in Cities[portList[i]]}

\* findPortNumber: the first registered servant that declared the city.
\* Entries are only ever added, so the scan is the scan at its last test.
Handling(city) ==
    {i \in 1 .. totalPortNumber : city \in Cities[portList[i]]}

findPortNumber(city) ==
    IF Handling(city) = {} THEN Nobody
    ELSE portList[CHOOSE i \in Handling(city) :
                      \A j \in Handling(city) : i <= j]

\* An unknown message is ignored and its descriptor never closed.
Dispatch(t) ==
    /\ pc[t] = "dispatch"
    /\ CASE temp[t].type = "SERVANT_DECLARATION" ->
                Goto(t, "declare") /\ query' = query
         [] temp[t].type = "CLIENT_REQUEST" /\ temp[t].city = "ALL" ->
                Goto(t, "each") /\ query' = query
         [] temp[t].type = "CLIENT_REQUEST" /\ temp[t].city # "ALL" ->
                LET s == findPortNumber(temp[t].city)
                IN  /\ query' = [query EXCEPT ![t].target = s]
                    /\ Goto(t, IF s = Nobody THEN "reply" ELSE "connect")
         [] OTHER -> Goto(t, "release") /\ query' = query
    /\ UNCHANGED <<mainVars, fd, temp, loaded, response, poolVars,
                   registryVars, processVars, peerVars, servantVars>>

\* Mutant of NextServant: the loop skips the first servant.
NextServantSkipsFirst(t) ==
    /\ pc[t] = "each"
    /\ LET i == query[t].i + 1
       IN  IF i < totalPortNumber
           THEN /\ query' = [query EXCEPT ![t].i = i,
                                          ![t].target = portList[i + 1]]
                /\ Goto(t, "connect")
           ELSE Goto(t, "reply") /\ query' = query
    /\ UNCHANGED <<mainVars, fd, temp, loaded, response, poolVars,
                   registryVars, processVars, peerVars, servantVars>>

\* The loop over the registered servants for a request about ALL cities.
NextServant(t) ==
    /\ pc[t] = "each"
    /\ LET i == query[t].i
       IN  IF i < totalPortNumber
           THEN /\ query' = [query EXCEPT ![t].i = i + 1,
                                          ![t].target = portList[i + 1]]
                /\ Goto(t, "connect")
           ELSE Goto(t, "reply") /\ query' = query
    /\ UNCHANGED <<mainVars, fd, temp, loaded, response, poolVars,
                   registryVars, processVars, peerVars, servantVars>>

\* Mutant of Connect: the worker tries until the servant listens.
ConnectRetries(t) ==
    /\ pc[t] = "connect"
    /\ servant[query[t].target] = "listening"
    /\ Goto(t, "answer")
    /\ UNCHANGED <<exit, mainVars, localVars, poolVars, registryVars,
                   totalHandledNumber, sig, reported, peerVars, servantVars>>

\* A servant that refuses the connection ends the whole server.
Connect(t) ==
    /\ pc[t] = "connect"
    /\ IF servant[query[t].target] = "listening"
       THEN Goto(t, "answer") /\ exit' = exit
       ELSE exit' = "failure" /\ pc' = pc
    /\ UNCHANGED <<mainVars, localVars, poolVars, registryVars,
                   totalHandledNumber, sig, reported, peerVars, servantVars>>

\* What response holds when read gave it nothing: it is not initialised, and
\* the compiler may lay the variables of both branches, and others, over it.
StackLeft(t) == {response[t][all] : all \in BOOLEAN} \union {Junk}

\* Mutant of Answer: read goes into the variable of the other branch.
AnswerIntoOther(t) ==
    /\ pc[t] = "answer"
    /\ LET s == query[t].target
           all == temp[t].city = "ALL"
       IN  /\ response' = [response EXCEPT ![t][~ all] = AnswerOf(s, temp[t])]
           /\ query' = [query EXCEPT ![t].asked =
                           Append(@, [servant |-> s, got |-> response[t][all]])]
           /\ Goto(t, IF all THEN "each" ELSE "reply")
    /\ UNCHANGED <<mainVars, fd, temp, loaded, poolVars, registryVars,
                   processVars, peerVars, servantVars>>

\* The servant's answer.  When it died, read may give 0, which the code takes
\* for an answer, or an error, after which a request about ALL goes on with
\* what response holds and one about a city is abandoned with its client
\* still connected.  A servant that lives may also never answer.
Answer(t) ==
    /\ pc[t] = "answer"
    /\ LET s == query[t].target
           all == temp[t].city = "ALL"
           Got(x) ==
             /\ response' = [response EXCEPT ![t][all] = x]
             /\ query' = [query EXCEPT ![t].asked =
                             Append(@, [servant |-> s, got |-> x])]
             /\ Goto(t, IF all THEN "each" ELSE "reply")
       IN  \/ Got(AnswerOf(s, temp[t]))
           \/ servant[s] = "gone" /\ \E x \in StackLeft(t) : Got(x)
           \/ /\ servant[s] = "gone" /\ ~ all
              /\ Goto(t, "release") /\ UNCHANGED <<query, response>>
    /\ UNCHANGED <<mainVars, fd, temp, loaded, poolVars, registryVars,
                   processVars, peerVars, servantVars>>

Closed(d) == [c \in Conns |-> IF c = d THEN "closed" ELSE conn[c]]

\* The answer goes to the client; then totalHandledNumber is loaded.
Reply(t) ==
    /\ pc[t] = "reply"
    /\ LET c == fd[t]
           found == temp[t].city = "ALL" \/ query[t].target # Nobody
       IN  reply' = IF c \in Conns /\ conn[c] = "open" /\ reply[c] = Nobody
                    THEN [reply EXCEPT ![c] =
                            [type |-> IF found THEN "RESPONSE"
                                               ELSE "NO_CITY_RESPONSE",
                             to |-> temp[t], asked |-> query[t].asked]]
                    ELSE reply
    /\ loaded' = [loaded EXCEPT ![t] = totalHandledNumber]
    /\ Goto(t, "count")
    /\ UNCHANGED <<mainVars, fd, temp, query, response, poolVars, registryVars,
                   processVars, conn, unread, known, servantVars>>

\* totalHandledNumber is stored and the descriptor closed.
Count(t) ==
    /\ pc[t] = "count"
    /\ totalHandledNumber' = loaded[t] + 1
    /\ loaded' = [loaded EXCEPT ![t] = 0]
    /\ conn' = Closed(fd[t])
    /\ Goto(t, "release")
    /\ UNCHANGED <<mainVars, fd, temp, query, response, poolVars, registryVars,
                   sig, exit, reported, unread, reply, known, servantVars>>

\* Mutant of Declare: the declaration is handled without fileMutex.
DeclareUnlocked(t) ==
    /\ pc[t] = "declare"
    /\ fileMutex' = t
    /\ Goto(t, "register")
    /\ UNCHANGED <<mainVars, localVars, poolVars, portList, totalPortNumber,
                   processVars, peerVars, servantVars>>

\* The declaration of a servant, under fileMutex.
Declare(t) ==
    /\ pc[t] = "declare" /\ fileMutex = NoItem
    /\ fileMutex' = t
    /\ Goto(t, "register")
    /\ UNCHANGED <<mainVars, localVars, poolVars, portList, totalPortNumber,
                   processVars, peerVars, servantVars>>

\* Mutant of Register: the entry goes over the last one.
RegisterOverLast(t) ==
    /\ pc[t] = "register"
    /\ portList' = Append(SubSeq(portList, 1, totalPortNumber - 1),
                          temp[t].servant)
    /\ loaded' = [loaded EXCEPT ![t] = totalPortNumber]
    /\ Goto(t, "registered")
    /\ UNCHANGED <<mainVars, fd, temp, query, response, poolVars,
                   totalPortNumber, fileMutex, processVars, peerVars, servantVars>>

\* addToPortList: the entry after the last one is written ...
Register(t) ==
    /\ pc[t] = "register"
    /\ portList' = Append(SubSeq(portList, 1, totalPortNumber), temp[t].servant)
    /\ loaded' = [loaded EXCEPT ![t] = totalPortNumber]
    /\ Goto(t, "registered")
    /\ UNCHANGED <<mainVars, fd, temp, query, response, poolVars,
                   totalPortNumber, fileMutex, processVars, peerVars, servantVars>>

\* ... and counted; then the descriptor is closed and fileMutex unlocked.
Registered(t) ==
    /\ pc[t] = "registered"
    /\ totalPortNumber' = loaded[t] + 1
    /\ loaded' = [loaded EXCEPT ![t] = 0]
    /\ conn' = Closed(fd[t])
    /\ fileMutex' = NoItem
    /\ Goto(t, "release")
    /\ UNCHANGED <<mainVars, fd, temp, query, response, poolVars, portList,
                   processVars, unread, reply, known, servantVars>>

\* The end of an iteration, whatever was done in it.
Release(t) ==
    /\ pc[t] = "release"
    /\ statusArray' = [statusArray EXCEPT ![t] = "FREE"]
    /\ fd' = [fd EXCEPT ![t] = NoItem]
    /\ query' = [query EXCEPT ![t] = NoQuery]
    /\ Goto(t, "top")
    /\ UNCHANGED <<mainVars, temp, loaded, response, queue, mutex,
                   registryVars, processVars, peerVars, servantVars>>

WorkerStep(t) ==
    /\ exit = "no"
    /\ \/ TestSig(t) \/ TestQueue(t) \/ Wait(t) \/ Wake(t)
       \/ Lock(t) \/ DequeueTake(t) \/ DequeueSize(t) \/ Claim(t)
       \/ Read(t) \/ Dispatch(t) \/ NextServant(t) \/ Connect(t) \/ Answer(t)
       \/ Reply(t) \/ Count(t)
       \/ Declare(t) \/ Register(t) \/ Registered(t) \/ Release(t)
-----------------------------------------------------------------------------
(***************************************************************************)
(* The servants as the server sees them.  A servant listens some time      *)
(* after it has declared itself, and stops when it is told or killed; what *)
(* it does before it is registered makes no difference to the server.      *)
(***************************************************************************)
ServantListens(s) ==
    /\ servant[s] = "starting" /\ s \in registered
    /\ servant' = [servant EXCEPT ![s] = "listening"]
    /\ UNCHANGED <<mainVars, pc, localVars, poolVars, registryVars,
                   processVars, peerVars, told>>

ServantStops(s) ==
    /\ servant[s] = "listening"
    /\ s \in Mortal \union told
    /\ servant' = [servant EXCEPT ![s] = "gone"]
    /\ UNCHANGED <<mainVars, pc, localVars, poolVars, registryVars,
                   processVars, peerVars, told>>

Environment ==
    /\ exit = "no"
    /\ \/ \E c \in Conns : Accept(c)
       \/ Sigint
       \/ \E t \in Threads : SpuriousWakeup(t) \/ ReadUnwritten(t)
       \/ \E s \in Servants : ServantListens(s) \/ ServantStops(s)

Next == MainStep \/ (\E t \in Threads : WorkerStep(t)) \/ Environment

Spec == Init /\ [][Next]_vars

\* A worker in a call of read that only the other end can bring to an end: a
\* peer that has not written or closed, a servant that has not answered.
AwaitsPeer(t) ==
    \/ pc[t] = "read" /\ (fd[t] \in Conns => conn[fd[t]] = "open")
    \/ pc[t] = "answer" /\ servant[query[t].target] = "listening"

RunsOn(t) == WorkerStep(t) /\ ~ AwaitsPeer(t)

\* Threads that can run do run.  Nothing makes peers connect or write or
\* servants answer, or the operating system wake a thread for no reason.
FairSpec ==
    /\ Spec
    /\ WF_vars(MainStep)
    /\ \A t \in Threads : WF_vars(RunsOn(t))
-----------------------------------------------------------------------------
\* What a worker's response may hold, and whom it asked for what it got.
Responses == [by : Servants \union {Nobody}, to : Messages] \union {Junk}
Asking == [servant : Servants \union {Nobody}, got : Responses]
Replies == [type : {"RESPONSE", "NO_CITY_RESPONSE"}, to : Messages,
            asked : Seq(Asking)]

Labels ==
    {"top", "test", "wait", "waiting", "woken", "lock", "dequeue",
     "dequeueSize", "claim", "read", "dispatch", "each", "connect", "answer",
     "reply", "count", "declare", "register", "registered", "release"}

TypeOK ==
    /\ mpc \in {"accept", "enqueue", "enqueuePut", "enqueueSize", "signal",
               "contact"}
    /\ mfd \in Conns \union {NoItem}
    /\ msize \in Nat /\ mindex \in Nat
    /\ pc \in [Threads -> Labels]
    /\ fd \in [Threads -> Conns \union Memory \union {NoItem}]
    /\ temp \in [Threads -> Messages]
    /\ loaded \in [Threads -> Nat]
    /\ query \in [Threads -> [i : Nat, target : Servants \union {Nobody},
                              asked : Seq(Asking)]]
    /\ response \in [Threads -> [BOOLEAN -> Responses]]
    /\ queue \in [front : 0 .. Capacity - 1, rear : 0 .. Capacity - 1,
                  size : Int, capacity : {Capacity},
                  array : [0 .. Capacity - 1 -> Conns \union Memory]]
    /\ mutex \in Threads \union {NoItem}
    /\ statusArray \in [Threads -> {"FREE", "IN_USE"}]
    /\ portList \in Seq(Servants) /\ totalPortNumber \in Nat
    /\ fileMutex \in Threads \union {NoItem}
    /\ totalHandledNumber \in Nat /\ sig \in BOOLEAN
    /\ exit \in {"no", "success", "failure"}
    /\ reported \in Nat \union {NoItem}
    /\ conn \in [Conns -> {"idle", "open", "closed"}]
    /\ unread \in SUBSET Conns
    /\ reply \in [Conns -> Replies \union {Nobody}]
    /\ known \in [Conns -> SUBSET Servants]
    /\ servant \in [Servants -> {"starting", "listening", "gone"}]
    /\ told \in SUBSET Servants

(***************************************************************************)
(* Main changes the size of the queue without the mutex under which the    *)
(* workers change it, so updates get lost; all the same the size stays     *)
(* between 0 and the capacity: main never stores a size above the          *)
(* capacity, and no worker one below 0.                                    *)
(***************************************************************************)
SizeInBounds == queue.size \in 0 .. Capacity

(***************************************************************************)
(* What is lost in the race between main and the workers is the other      *)
(* side's update, never more: main's store of the size always raises it,   *)
(* a worker's store always lowers it, because the mutex keeps a second     *)
(* worker out between the load and the store (dequeue in serverHandler,    *)
(* enqueue in main).                                                       *)
(***************************************************************************)
StoresKeepDirection ==
    [][/\ mpc = "enqueueSize" /\ mpc' # mpc => queue'.size > queue.size
       /\ \A t \in Threads : pc[t] = "dequeueSize" /\ pc'[t] # pc[t]
             => queue'.size < queue.size]_vars

(***************************************************************************)
(* A worker that has handled a servant's declaration leaves the servant in *)
(* the part of portList that findPortNumber and the ALL loop read, however *)
(* many workers handle declarations at the same time (fileMutex in         *)
(* serverHandler, addToPortList).                                          *)
(***************************************************************************)
DeclarationIsKept ==
    \A t \in Threads :
        pc[t] = "release" /\ temp[t].type = "SERVANT_DECLARATION"
            => temp[t].servant \in registered

(***************************************************************************)
(* portList only grows: an entry that a reader may be using is never moved *)
(* or overwritten, although readers take no lock (addToPortList).          *)
(***************************************************************************)
RegistryOnlyGrows ==
    [][/\ totalPortNumber' >= totalPortNumber
       /\ \A i \in 1 .. totalPortNumber : portList'[i] = portList[i]]_vars

\* The queue has more slots than there are connections, an unwritten slot
\* holds neither a descriptor nor the -1 of dequeue, and a read of what it
\* holds fails or blocks.
SlotsTell ==
    /\ Cardinality(Conns) < Capacity
    /\ Memory \intersect (Conns \union {NoItem}) = {}
    /\ "stdin" \notin Disturbances

\* A worker holds what an unwritten slot held.
Noticed == \E v \in Threads : fd[v] \in Memory

(***************************************************************************)
(* Where SlotsTell, the lost updates of the size never make two workers    *)
(* share a connection unnoticed: before dequeue comes round to a           *)
(* descriptor it has handed out, a worker holds what an unwritten slot     *)
(* held, on which its read fails or blocks (the mutex round dequeue in     *)
(* serverHandler).  A slot that holds -1 is passed over in silence, and    *)
(* then descriptors are shared; with a standard input at its end the       *)
(* worker goes on with what it read before.                                *)
(***************************************************************************)
NoUnnoticedSharing ==
    SlotsTell =>
        \A t, u \in Threads :
            fd[t] \in Conns /\ fd[t] = fd[u] /\ t # u => Noticed

\* The servants asked for a reply, or so far for a query.
AskedIn(r) == {r.asked[i].servant : i \in 1 .. Len(r.asked)}

\* Each of them gave its own answer to m, unless it died.
OwnAnswers(r, m) ==
    \A i \in 1 .. Len(r.asked) :
        LET s == r.asked[i].servant
        IN  r.asked[i].got = AnswerOf(s, m) \/ servant[s] = "gone"

\* r answers the request of c and takes account of what c may expect.
Fits(c, r) ==
    /\ r.to = Sends[c] /\ OwnAnswers(r, Sends[c])
    /\ Sends[c].city = "ALL" => known[c] \subseteq AskedIn(r)
    /\ r.type = "NO_CITY_RESPONSE" =>
          \A s \in known[c] : Sends[c].city \notin Cities[s]
    /\ r.type = "RESPONSE" /\ Sends[c].city # "ALL" =>
          \A s \in AskedIn(r) : Sends[c].city \in Cities[s]

(***************************************************************************)
(* What a client is sent was made for the request it wrote, and takes      *)
(* account of every servant registered when its connection was accepted: a *)
(* request about ALL asked each of them, one about a city only a servant   *)
(* that declared it, and NO_CITY_RESPONSE means that none of them did.     *)
(* Every number that went into it is what the servant asked for it         *)
(* answered to this very request, unless that servant DIED after the       *)
(* worker connected to it: then the code sends on what response held       *)
(* before, which may be an answer to somebody else (serverHandler,         *)
(* findPortNumber).                                                        *)
(***************************************************************************)
AnswersTheRequest ==
    \A c \in Conns :
        Sends[c].type = "CLIENT_REQUEST" /\ reply[c] # Nobody => Fits(c, reply[c])

(***************************************************************************)
(* The server implements RequestService: whatever its threads do in        *)
(* between, a peer sees one accept, one answer that is right for the       *)
(* servants registered when it connected, and one close; a declaration     *)
(* registers its servant and is never taken for another one.               *)
(***************************************************************************)
Peers == INSTANCE RequestService

ImplementsService == Peers!Service

\* A worker that cannot run until somebody else does something.
Blocked(t) == pc[t] = "waiting" \/ AwaitsPeer(t)

(***************************************************************************)
(* Descriptors are left lying in the queue for ever in only one way: from  *)
(* some time on every worker sleeps in pthread_cond_wait, because its      *)
(* wakeup came between its test of the queue and its sleep, or hangs in a  *)
(* read that its peer or servant never ends.  Else the queue empties again *)
(* and again, until the process ends (serverHandler).                      *)
(***************************************************************************)
QueueDrains ==
    \/ []<>(isEmpty(queue) \/ exit # "no")
    \/ <>[](\A t \in Threads : Blocked(t))

(***************************************************************************)
(* A worker that took a descriptor comes back without one for the next,    *)
(* unless the process ends, or its peer or the servant it asked never ends *)
(* the read it is in: no mutex, and nothing another worker does, holds it  *)
(* up for ever (serverHandler).                                            *)
(***************************************************************************)
WorkerReturns ==
    \A t \in Threads :
        []<>(fd[t] = NoItem \/ exit # "no") \/ <>[]AwaitsPeer(t)

(***************************************************************************)
(* The two together: work goes on in serverHandler as long as a worker is  *)
(* not held up by the other end of a read or by a signal that came early.  *)
(***************************************************************************)
WorkGoesOn == QueueDrains /\ WorkerReturns

(***************************************************************************)
(* The goodbye message is true: when main prints it, every servant that    *)
(* was counted in portList at the last test of its loop was sent EXIT or   *)
(* is dead, also one that declared itself during the loop or did not       *)
(* listen yet when its turn came (handleSigint).  A servant that refuses   *)
(* the connection, and a worker that sees sig, end the process without it. *)
(***************************************************************************)
GoodbyeTellsAll ==
    exit = "success" => \A s \in registered : s \in told \/ servant[s] = "gone"
=============================================================================
