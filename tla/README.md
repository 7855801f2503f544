# CSE344 System Programming: a TLA+ verification project

The repository holds seven C programs of a system programming course: a
client/server/servant system over sockets (Final Project), a pipeline of two
servers over FIFOs (Midterm Project) and five homeworks on locks, fork/exec,
semaphores and condition variables. Each is small, and each keeps its difficulty
in a few dozen lines where processes, threads or signals meet. This directory
models those lines in TLA+, checks them with TLC on small instances, and proves
with TLAPS what matters most for every value of the constants.

Contents: [inventory](#inventory), [modules](#modules), [runs](#runs),
[fairness](#fairness), [disagreements](#disagreements-found),
[proofs](#proofs), [not modelled](#what-is-not-modelled), [plan](#plan).

## Inventory

### Final Project: server, servant, client, request queue

A **client** starts one thread per line of a request file; each sends one request
("how many transactions of this type between these dates, in this city or in all
of them?") to the **server**. **Servants** load a range of cities, tell the
server their port and cities, and answer requests. The server's main thread
accepts connections and hands them to a pool of workers; a worker registers a
servant, or forwards a client's request to the servant of the city (to every
servant, for all cities) and returns the answer. SIGINT makes the server send
EXIT to every servant and end.

| Part | State | Operations | Must hold |
|---|---|---|---|
| Request queue (`helper.c`, `struct Queue`) | ring: front, rear, size, array | createQueue, enqueue, dequeue, front, rear | first in, first out; nothing unwritten is handed out |
| Server (`server.c`) | queue, `mutex`, `cond`, `statusArray`, registry `portList`, `fileMutex`, `totalHandledNumber`, `sig` | accept loop, worker loop, registration, requests about one city or ALL, SIGINT | size within bounds; no declaration lost; an answer goes to the client that asked and comes from the right servants; queued work is done; the goodbye message is true |
| Servant (`servant.c`) | hash table of cities, a date tree for each, queue, `handledRequestNum` | load, declare, listen, one detached thread per connection, EXIT | every loaded city is found; the number returned is what the files say; no thread takes what was never accepted; requests are served |
| Client (`client.c`) | `num_threads`, `flag`, a mutex, `cond`, `sig` | create threads, barrier, request, join, goodbye | nobody contacts the server early; everybody passes; the goodbye is true |
| Dates, lines, sorting (`helper.c`, `servant.c`) | none | compareDate, parseDate, getArgNum, sortCityNames | ordering of dates |

Interaction: sockets between processes, shared memory between threads. Hard
behaviour: the server's `enqueue` runs *without* the mutex that `dequeue` is
under; the servant's queue has no lock at all; the emptiness test comes before
the lock, and the signal may come between test and sleep; the registry is read
without its lock; counters are incremented unlocked; a peer may close, be killed,
or never answer; a worker keeps the previous message in a variable when a read
gives nothing; SIGINT is seen by main and workers independently.

### Midterm Project: serverY, serverZ, client

A client writes a matrix and its pid to serverY's FIFO and reads the answer from
a FIFO of its own. serverY's parent gives the request to its own pool through a
pipe while fewer than `poolSize` are busy, else to serverZ through another pipe
while fewer than `poolSize2` are busy there; serverZ's parent puts it into one
slot of shared memory and wakes one stopped worker with SIGCONT.
State: counting semaphores used as counters (busy, forwarded, handled), the slot,
a status array. Operations: dispatch, work, answer, stop/continue, SIGINT.
Hard: the counters are read before a blocking read and used after it; the
slot may be overwritten before it is read; SIGCONT may come before
SIGSTOP; a client that is gone kills the worker that answers it; the SIGINT
handler counts its own runs with a semaphore. Must hold: a request that is
admitted finds a worker; no request is answered twice; nobody waits for a
semaphore that is not coming; the totals of the log claim no more than
happened.

### Homework 1: replacement in a file

A process replaces words in a file, once per operation given: it reads all words
into a list, replacing those that match (everywhere, at the starts or at the ends
of lines), truncates the file and writes the list back. State: the file, the
lock, the list. Hard: reading and writing are two sections, the file is truncated
before it is locked, and of three `fcntl` calls only one gets a lock. Must hold:
an operation nobody ran into is right; what is written under the lock stays.

### Homework 2: parent and children

A parent forks a child for every ten points it reads; each child appends a
matrix to one output file under a lock, in twenty writes; the parent waits for all,
reads the file, and searches it for the two matrices whose norms are closest.
Hard: records of different children must not mix; SIGINT in the middle; characters
processed again at the end of a file. Must hold: records stay apart, the parent
collects what the file is in the end, a norm belongs to the child whose id it has,
the children share out the input without a gap, everybody ends.

### Homework 3: wholesaler and six chefs

Processes with named (or unnamed) semaphores. The wholesaler reads two ingredients
per line and, through four "pushers", wakes the one chef who lacks them; the chef
makes a dessert and gives the turn back. At the end the chefs are
killed one by one and their exit statuses summed. State: the turn, six chef
semaphores, four ingredient semaphores and flags, each chef's count. Must hold:
one delivery at a time, to the right chef; every line served; the right total.

### Homework 4: supplier and consumers

A supplier thread reads a file of 1s and 2s and posts one of two System V
semaphores for each; consumers take one of both atomically, N times each. Must
hold: pairs are taken whole and none is lost; main removes the semaphores last;
everybody finishes.

### Homework 5: two-phase matrix computation

m threads compute columns of a product, meet at a rendezvous (mutex,
condition variable, counter) and transform their columns of the whole product.
Must hold: nobody starts the second part early; no wake-up is lost; no incomplete
output is written; the columns are shared out without gap or overlap.

`PROJECT.json` lists the same components with their status, and under `hazards`
each place in the code that is hard to test, with the properties that watch it.

## Modules

One module per component; `MC...` modules only give constants their values;
`..._proof` modules hold the proofs. In every module a definition has the name of
the function or variable it stands for where there is one, and a comment says
where a step begins and ends.

How steps are cut: a step is a run of code with at most one access to memory that
somebody else writes at the same time. Code under a lock that all its users
take is one step; code that shares without one is cut at each access, so that
`x++` is a load and a store.

Bodies that begin with "Mutant of X" are deliberately wrong variants of the
definition X, kept beside it. They show for each property which mistake it catches;
`PROJECT.json` lists them, and nothing else uses them.

* **RequestQueue**: the ring of `helper.c` as operators on a value. `PutRear` and
  `DropFront` are the parts of enqueue and dequeue without the update of the
  size, for the modules in which that is another step.
* **RingQueue**, **BoundedFifo**: the ring with one caller, and the bounded FIFO
  it implements (`Fifo == INSTANCE BoundedFifo WITH items <- Contents(queue)`).
* **Server**: main's loop is `Accept`, `EnqueueTest`, `EnqueuePut`, `EnqueueSize`,
  `Signal` (one element of `statusArray` a step); on SIGINT, `ContactServant` and `Goodbye`. A
  worker goes through `TestSig`, `TestQueue`, then `Wait`/`Wake` or `Lock`,
  `DequeueTake`, `DequeueSize`, `Claim`, `Read`, `Dispatch`, and then either
  `NextServant`, `Connect`, `Answer`, `Reply`, `Count` or `Declare`, `Register`,
  `Registered`, and `Release`. What peers write is the constant `Sends`; what an
  uninitialised stack or array may hold are `Stack` and `Memory`. `response` is the
  variable of that name in each of the two branches, which nobody initialises and no
  iteration clears: when a servant dies after the worker connected to it, read gives 0
  and the code sends on what the variable held, perhaps an answer to somebody else. A
  servant may answer, or die, or leave the worker in read for ever (`AwaitsPeer`); so
  may a peer that never writes. `known` is a
  history variable: the servants registered when a connection was accepted.
  `told` is the set of servants that were sent EXIT.
* **RequestService**: what the server promises to somebody who sees its connections
  only: accept, answer at most once and rightly, close; a declaration is
  remembered for good. It has no threads, queue or lock. `Server` implements it
  with `Peers == INSTANCE RequestService`, whose variables are some of its own: a
  step of main, a worker or a peer is one of its five actions or none. A servant that died may have had any number
  put in its place. An answer is right for the servants
  that were registered when the connection was accepted, so that what the server
  knows may change while the request is handled.
* **Servant**: main is `CheckArguments`, `NextCity`/`Probe`/`ReadFile` (one slot
  of `insertToHash` a step), `Declare`, `Listen`, then `Accept`, `EnqueueTest`,
  `EnqueuePut`, `EnqueueLoad`, `EnqueueSize`, `Create`. A thread is `DequeueTest`,
  `DequeueItem`, `DequeueFront`, `DequeueFrontStore`, `DequeueSize`,
  `DequeueSizeStore`, `Read`, `Answer`, `CountLoad`, `CountStore`. Whoever
  ends the process, main or a thread, goes through `freeResources` while the others go
  on: `FreeSlot` empties the hash table slot by slot, `FreeQueue` gives back the queue
  and `fd_array`, `Leave` exits. Who counts in a table that is being emptied may get
  `Anything`; who uses the queue after it was freed finds what was there or what malloc
  may leave; any use of freed memory may kill the process (`Crash`). A thread has the
  name of the connection it was created for; the descriptor it takes can be
  another. A date is a record of day, month and year; `compareDate` is translated
  comparison by comparison and used where the code counts entries, and the expected
  answer uses the order of the calendar. A city's tree is the set of its entries, the
  hash function any of a set. `raced` (two threads were inside queue
  operations at once), `dropped` (the connections a full queue turned away) and
  `overwritten` (one city was stored over another) are history variables.
* **Client**: main creates and joins the threads; a thread arrives at the barrier,
  waits or passes, connects, and reads. Everything between lock and unlock is a
  step. Any pthread_create may fail (`CreateFails`), which ends the process.
* **Wholesaler**: all the wholesaler does for a line is one step, because only the
  post of a chef's semaphore is visible to others; the four pushers are applied
  one after the other to the state of the ingredient semaphores and flags. A line has two letters, of which one may stand for no ingredient
  ("Other": the switches of the code have no default). A chef looks, cooks, posts.
* **Supplier**: main, supplier, consumers, the two semaphores with their limit.
  `consumed` is a history variable.
* **Rendezvous**: main reads the files (`Accepted` is what its length check really
  accepts), creates, joins, tests the flag, writes; a thread computes its columns,
  locks, loops on the condition, unlocks, transforms, and tests the flag where the
  code does.
* **MatrixRequests**, **ServerY**, **ServerZ**, **Pipeline**: the Midterm Project.
  `MatrixRequests` has what the programs share and the client: `Submit`,
  `ReadAnswer`, `Killed`, and what open, write and close of a client's FIFO do to a
  worker (`Connect`, `WriteKills`, `WriteAnswer`). `ServerY` has the parent
  (`LookA`, `LookB`, `ReadRequest`, then `PostSema`, `WriteP` or `Forward`), the
  pool (`TakeRequest`, `OpenFifo`, `Answer`, `WaitSema`) and the SIGINT handler
  in three steps, because it posts a semaphore and reads it afterwards. `ServerZ`
  has the parent (`LookLast`, `ReadServerP`, `PostCommon`, `CopyToSlot`, `ScanStatus` one
  element a step, `Continue`), the stopped workers (`TakeSlot`, `ZOpenFifo`, `ZAnswer`,
  `FreeSlot`, `WaitCommon`, `PostHandled`, `WaitLast`, `Stop`) and
  its handler. `Pipeline` composes the two servers and the clients, and adds
  Ctrl-C, which reaches every process, and a SIGINT to serverY's parent alone.
  `overwritten` and `missed` are history variables.
* **Children**: Homework 2. The parent is `ReadChar`, `Fork`, `Look`,
  `KillChildren`, `WaitChildren`, `ReadToken` (one token of the output file a
  step, with `read_output` as a fold of `TakeToken`), `ReadEnd` (after which the
  search for the closest pair may crash on `id_list[-1]`); a child is `Exec`,
  `TakeLock`, `Write` (one of its twenty a step), `Finish`. `Interrupt`, `Handler`,
  `ChildHandler` and `ChildKilled` are what SIGINT does to whom.
* **Replace**: Homework 1. `Begin`, `ReadChar`, `ReadEnd`, `Truncate`, `Lock`,
  `WriteChar`, `Unlock`; every character read or written is a step. `before`,
  `alone` and `stands` are history variables.

`Pipeline` is the composition of all the processes of its system. The Final Project
is modelled one process at a time: Server sees servants as something that accepts,
answers or dies, and Servant sees the server as the peer of its connections. The
two views agree on the message types and on the order "declare, then listen",
which is why a server can be refused by a servant it knows.

## Runs

| Run | Instance | Question, and what it shows |
|---|---|---|
| `ring_queue` | capacity 3, two items | `IInv`: the three indices describe one run of written slots; `ImplementsFifo`: the ring implements the FIFO, through every wrap, from arbitrary memory |
| `server_pool` | 2 workers, any 2 of 3 connections (`MaxAccepted`): a servant that may be killed, a client, a peer that closes without a word; capacity 1, SIGINT, spurious wakeups | `SizeInBounds`, `StoresKeepDirection`: lost updates never drive the size out of bounds; `AnswersTheRequest`: what a client is sent was made for its own request, of the asked servants' own answers to it, except where a servant died after the worker connected to it; `GoodbyeTellsAll`: the goodbye is printed only when every registered servant was sent EXIT or is dead; `WorkGoesOn` (`QueueDrains` and `WorkerReturns`): no worker is held up but by the other end of a read or by a signal that came early |
| `server_registry` | 2 workers, 2 declarations and a request about ALL, capacity 4; nobody dies | `DeclarationIsKept`, `RegistryOnlyGrows`, `NoUnnoticedSharing`; `ImplementsService`: the server is a `RequestService` |
| `client` | 4 threads, one of which may not be created; refused, reset and closed connections; SIGINT | `NobodyEarly`, `EverybodyPasses`, `GoodbyeIsLast` |
| `servant` | 2 cities with one hash code (or a range that is not there), entries whose dates order differently by day, month and year, 3 connections: ALL, one city, EXIT, whose peers need not write; a queue of 2, so that it drops the third; a table of 3 slots; calls that fail | `CitiesFound`, `AnswersRight`, `ConnectionsAccounted` (types, `TakesAccepted`, `NobodyShares`, `CountNeverAhead`), `Served` |
| `wholesaler` | a file with every pair but one, in both orders, one twice; another with a wrong line; a third with a letter that is no ingredient; SIGINT | `DeliveryIsRight` (types, `OneDelivery`, `RightChef`), `TotalIsRight`, `EverythingServed` |
| `wholesaler_milkwalnuts` | a line of milk and walnuts | **violation** of `WaitsForSomebody` |
| `supplier` | 3 consumers of 2 pairs, 15 characters | `PairsMatch`, `ConsumersFinish`, `EverybodyLeaves` |
| `pipeline` | four situations: pools of 1 and 2 with three clients; pools of 1 and 1 with three clients, so that serverY finds both full; SIGINT with two clients; clients that are killed | `CountersHold` (types, `OwnPoolHasRoom`, `CountersInPools`, `ScanFindsWorker`, `NoWaitForEver`): what the counters admit finds a worker; `AnsweredOnce`; `TotalsTruthful`; `EveryClientAnswered` |
| `children` | three children of two points each; a file one character short of two children and one longer than two; Ctrl-C, SIGINT to the parent alone, a fork that fails | `RecordsApart`, `CollectsTheEnd`, `NormsMatchIds`, `PointsInOrder`, `EverybodyEnds` |
| `replace` | two processes with two operations each on one line, one of the patterns refused; one process with every pair of line cases on two lines; one with every line case on every text of four characters (two letters, blank, newline) and of five (one letter), the shorter ones included | `AloneIsRight`, `TextStands` (types, `LockedTextStands`), `EverybodyEnds` |
| `rendezvous` | 3 threads, 8 columns (so with a remainder), file lengths 56, 60 and 64, SIGINT, spurious wakeups | `SecondPartSeesAll`, `OutputComplete`, `OutputWritten` |

Where a run checks a conjunction, the table names its parts. Client, Supplier,
Rendezvous and Children have their types in the inductive invariants that are
proved (below), and TLC checked those before. Server's `TypeOK` is a theorem.

Why the bounds are enough. The queue races need main and two threads at the most:
a lost update has one loser. Capacity 1 makes the server's queue full and empty in
every other step; in `server_registry` it is above the number of connections,
the precondition of `NoUnnoticedSharing`, and workers do run past the written slots.
No run has a 0 there with the standard input at its end ("stdin"): one slot is never
read unwritten, and what `server_registry` checks excludes it (`SlotsTell`);
`AnswersAreRight`, `RegistryIsAppendOnly` and the other theorems without that
precondition include it. `server_pool` has one servant, which may die: that what is then sent on was another
client's answer takes a second client on the same worker, and is only in the proof. In
`server_registry` nobody dies. Three connections let one
thread of the servant be inside the queue while another ends and a third is created. Two declarations and
one reader are what the unlocked registry can confuse. Three threads and eight
columns give the last thread a remainder; four client threads let some wait, some
arrive and one broadcast. In the pipeline, two workers of serverZ are what it takes
to overwrite the slot and to scan past a taken worker; one worker in each pool and
three clients fill both pools with a request left. With three children one can
wait for the lock of another that is killed while a third has ended. Two
processes of Homework 1 suffice for one to truncate what the other writes, and
the second operation starts on the file the first one left. The table of the servant
has three slots and two cities of one hash code, so one is passed over, and a free slot
ends the search. Where an inductive
proof exists, the bound only matters for the liveness properties.

`CHECK_DEADLOCK FALSE` everywhere: every program ends, and a server with all its
workers asleep and no peer left to connect is a state the code can be in.

Some properties say less than one would wish, because that is all the code gives:

* `AnswersTheRequest` excepts, for each number that went into an answer, a servant that
  died: what is then forwarded is whatever `response` held (see the
  [disagreements](#disagreements-found)). It says that nothing else, neither the races in
  the queue nor a message left over in `temp`, puts a number there that the asked
  servant did not answer to this request.
* `QueueDrains` excepts "all workers blocked". The emptiness test is made outside
  the mutex and `pthread_cond_wait` is not in a loop round it: a worker can go to
  sleep after the signal it needed. Then the descriptor lies there until the next
  connection. Or all workers are in a read that a peer or a servant never ends; the
  code has no timeout. `WorkerReturns` excepts the worker in such a read, and no other.
* `NobodyShares` and `Served` of the servant except executions in which accesses
  to its queue overlapped. The run reaches states in which two threads hold one
  descriptor and another connection is never served; what holds even
  then is `TakesAccepted`, `AnswersRight` and the first half of `CountNeverAhead`. `Served`
  excepts also the connection that a full queue drops (`dropped`, reached in the run),
  the one whose peer does not write, and the end of the process.
* `AnswersRight` allows a wrong number that was still being counted when somebody had
  begun to empty the table: `Anything` in the model, a partial total in the code.
* `CountNeverAhead` bounds `handledRequestNum` from above only, because increments are
  lost. The bound is the number of threads that answered and counted, which may be more
  than the requests: two threads on one connection both do. Before accesses overlap it
  is the number of connections that were answered.
* `CitiesFound` is about tables in which no city was stored over another: `insertToHash`
  stops at the last slot and overwrites what is there. It ends when somebody begins to
  empty the table.
* `TotalIsRight` is about fewer than `Statuses` (2^8) desserts per chef: the count is
  an exit status.
* `PairsMatch` is about files that cannot fill a semaphore (SEMVMX).
* `GoodbyeTellsAll` does not say that the goodbye is printed; see SIGINT under
  [disagreements](#disagreements-found).
* `EveryClientAnswered` excepts, besides interruptions, executions in which serverZ
  overwrote a request in its slot before a worker read it (`overwritten`) or continued
  a worker that had not stopped yet (`missed`). Both happen in the run. It
  says that nothing else loses a request. `AnsweredOnce` excepts `overwritten` alone.
* `TotalsTruthful` bounds the totals from above and does not claim that they are
  written.
* `AloneIsRight` is about operations nobody ran into, on a file nobody damaged; an
  overlap loses what the other one wrote. Within that it is exact: the letter is replaced
  in the words its line case works on in `read_file` (`Replaces`) and nowhere else. At
  the starts of lines these are not the words one would expect; see the last of the
  [disagreements](#disagreements-found).
* `EverythingServed` excepts a line that is not a pair of two ingredients a pusher
  answers: one of milk and walnuts, or with a letter that stands for nothing.
* `EverybodyLeaves` is about files with enough '2's for their '1's.
* `LockedTextStands` ends when another process truncates the file.
* `NormsMatchIds` states that one norm less is computed than matrices are compared.
* `OutputWritten` excepts SIGINT: a thread that returns because of it never
  reaches the rendezvous, or leaves the mutex locked, and the others may wait for
  ever.

## Fairness

Liveness properties use `FairSpec` (in Supplier and Replace with the module's name in
it), which asks for weak fairness of every thread's
own steps and nothing else: a thread that can run does run, which a Linux scheduler
gives. No fairness is asked of peers (nobody has to connect, to write, or to answer): the
step in which a worker or a servant's thread gets what it reads is outside the fairness
(`AwaitsPeer`), so a peer that stays silent for ever is one of the behaviours every
liveness property has to hold in. Nor is it asked of signals, of failing calls, or of being chosen: in Supplier a consumer may be passed
over as often as another one is there, and System V semaphores promise no more.
No property relies on a fair mutex either: none needs that a
thread which is overtaken at a lock again and again gets it in the end. `Rendezvous!FairSpec` also
says that spurious wakeups do not go on for ever; without it the loop round the
wait would allow one thread to wake and sleep for ever, which
POSIX allows and no program can exclude.

In Pipeline, fairness is asked of each client and of each process of the two servers
while it is not in a signal handler, and of no signal; a parent that finds both
pools full looks again and again, and it is fair only that the workers run
meanwhile. In Children and Replace it is asked of each process; the kernel
gives a free lock to somebody who waits, and each waits once (Children) or a
bounded number of times (Replace), so weak fairness is enough.

## Disagreements found

* **Milk and walnuts** (`wholesaler_milkwalnuts`): the walnut pusher tests its own
  flag where milk's was meant (hw3named.c:384); no chef is woken and everybody
  waits, while hw3named.c:226 has a chef "waiting for milk and walnuts". This is
  the one finding a run of its own demonstrates.

Seen while modelling, and in the models as the code has it:

* **SIGINT in the server**: a worker that sees the flag calls
  `exit(EXIT_FAILURE)` (server.c:184) while main is still contacting servants; some
  are never told and the goodbye of server.c:126 is not printed, although
  server.c:404 says "Contacting ALL to deliver SIGINT to servants".
  `GoodbyeTellsAll` is what is left.
* **Answers of dead servants**: server.c:314 prints "Response received: %d, forwarded to
  client" also when the servant died and read gave 0; what is printed and forwarded is then
  what the variable `response`, which nobody initialises, held before (server.c:307): the
  answer of an earlier iteration, perhaps another client's. The ALL branch
  (server.c:238) adds such a number to its total.
* **Totals of the pipeline**: the code that computes the determinant is commented
  out; the workers log every matrix as invertible, and serverZ counts it so, but
  serverY's total of invertible ones stays 0. When two handlers have
  posted before either looks, both find 2 and nobody writes totals.
* **Killing the children** (Homework 2): the list the parent kills from is filled
  only in the children's own copies; what the parent has is what malloc left.
* **Closest matrices** (Homework 2): main.c:256 reports "The closest 2 matrices",
  but the last norm is never computed.
* **Locks of Homework 1**: `F_WRLCK` is asked on a descriptor opened for reading,
  which fails unnoticed; `O_TRUNC || O_WRONLY` is `O_WRONLY`, so the second open
  does not truncate.
* **Starts of lines** (Homework 1): the word at the start of a line is not always the
  one that is replaced: the flags are looked at when a word ends, the last word of the
  file is replaced in every case, and the only word of a line, unless it is the first
  of the file, in none. In a file that begins with an empty line two words are
  taken for the first one: the newline sets `start_line`, the first word clears
  `first_word` alone, and so the second word is replaced as well. `Replaces` states
  exactly which words are meant in this way: the first and the last of the text, and the
  first of each later line that has another word behind it.

## Proofs

All proofs are of safety, for every value of the constants that meets the named
assumptions (`...Assumption`) of the module: any number of threads, connections,
workers, processes, any capacity, file and table. TLC evaluates the assumptions, and
each invariant below was checked by TLC on the instance of its run before it was
proved. An invariant that serves its proof alone is defined in the proof module. `PROJECT.json` lists the theorems under `theorems`.

The two recurring ideas: a counter that several processes move is the number of
processes in some range of places (cardinalities, with the finite-set library), and
what a process holds between two of its steps is what nobody else can change in
between.

* **RingQueue_proof.** `StructInvariant`: the rear follows from front and size, and
  every slot of the run was written. The invariant needs all three indices together:
  enqueue looks at rear and size, dequeue at front and size.
  `RingImplementsFifo`: every step of the ring is a step of the FIFO or none, by
  one lemma for what enqueue does to `Contents` and one for dequeue.
* **Server_proof.**
  `ServerTypes`: type correctness.
  `QueueSizeStaysInBounds`, `StoresNeverOvershoot` from
  `PoolInv`: main's register is never below the size and never at the capacity,
  because between its load and its store only workers change the size, downwards;
  a worker's register is never above the size, because the mutex keeps other
  workers out and main only raises it. `NoDeclarationIsLost`,
  `RegistryIsAppendOnly` from `RegistryInv`: the worker in `addToPortList`
  holds `fileMutex`, so the count it loaded is still the count. `GoodbyeIsTold`
  from `ToldInv`: main's index says whom it has contacted, nobody it passed
  can become untold because entries never move (`RegistryInv` again), and main looks
  at the counter afresh before it says goodbye.
  `AnswersAreRight` from `AnswerInv`, which says for each state of a worker what its
  `temp` and its `query` are: in a request about ALL everybody before the index has
  been asked or is dead, in one about a city only who declared it is; what was got from
  each is its own answer to this message, or it is dead (`GotOwnAnswers`); and when a
  worker leaves a request it forgets its query (`ForgetsItsQuery`). A message left
  over in `temp` may be answered, but never to a peer that is still without its
  answer. Who is dead stays dead, so an answer once right stays right (`AnswersStand`). `RegistryIsAppendOnly` makes "before the index" stable.
  `SharingIsNoticed` from `SharingInv`: until one of the workers notices (it
  finds the queue with something that is no descriptor), the slots before the front
  were each taken by one worker, in the order in which main filled them. It has
  the precondition `SlotsTell`: the capacity is above the number of connections, so
  that no slot is written twice, and memory that was never written is no descriptor;
  without it two workers can share a descriptor and never know.
  `ServiceImplemented`, the refinement, from all of these and `ServiceInv`: as long as
  nobody notices a slot that was read too often, a connection has one worker, and each
  step of a worker is a step of the service or none. It has three hypotheses.
  `SlotsTell` as above. `PeersWrite`: no peer closes without a word; otherwise a
  worker takes the message of an earlier peer for its own and answers, or registers,
  on its behalf, which no service promises. `[]~Noticed`: with three workers or more,
  one that was stopped between its load and its store can put the size back up after
  the others drained the queue, and after that descriptors are shared. The run
  `server_registry` has two workers, with which that does not happen.
* **Client_proof.** `BarrierHolds`, `GoodbyeIsTrue` from `BarrierInv`: the counter is
  the number of threads that arrived, so it reaches `requestSize` only when all of
  them have (`AllArrived`).
* **Servant_proof.** `EveryCityFound` from `TableKept`, which is `TableInv` until somebody is in
  `freeResources`: every key lies at or after the
  slot of its hash code with no free slot between (`Reachable`), no key is twice in the
  table, and as long as no city was stored over another every city inserted is there with
  its entries.
  `Reachable` is what makes linear probing work: it survives
  insertions because a taken slot is never freed. `SearchFinds` then says that a
  search, which goes round the table, ends in the slot to which the insertion,
  which does not, came, and a search for a city that is not there ends in an empty slot.
  `EveryConnectionAccounted` is about the queue without a lock, until it is freed. `ThreadsInv` is the
  types; `AcceptedInv` says that whatever overlaps, a thread takes a connection that was
  accepted: until main has gone round the ring the size is at most what was put in,
  so no connection is dropped and the front is not past the rear, and afterwards
  every slot holds an accepted one. `RingInv` says that as long as nothing overlapped
  the slots from front to rear (`Live`, by their distance `Ahead` from the front) hold
  the connections that nobody took, each once. `CountInv` bounds the counter and the
  registers of it by the threads that are done (`Done`), and says that a thread that counted has
  closed the connection it answered: before an overlap no two share one, so the threads
  that counted are no more than those connections (`InjectionCount`).
  `EveryAnswerRight` from `AnswerInv` and the table: `compareDate`, translated
  comparison by comparison, is the order of the days of the calendar (`Day`); the count
  over one city's entries is a cardinality, and the sum over the slots of the table,
  of which the code has one per city, is the cardinality of a set of pairs of
  city and entry, by a bijection; so the answer is `Expected`, or
  `Anything` once somebody is in `freeResources`, which he does not leave but with the
  process (`FreeingStays`).
* **Pipeline_proof.** `CountersMeanWhatTheySay` from `CountersInv`: the semaphores of
  serverY bound the requests that are in the pipe or with a worker of the first pool;
  of serverZ, `last` is at least the number of workers taken or about to
  decrement, with one more for a request on its way from the pipe to a worker, so a
  parent that found `last` below the pool's size finds a free worker when it scans, and
  no `sem_wait` waits for ever. `TotalsAreTruthful` from `TotalsInv`: of two processes in
  the handler neither finds the semaphore at 1, so the totals are written once; and a
  request leaves the places in which it is still to come when it is counted.
  `ClientsAreAnsweredOnce` from `AnsweredInv`: the request of a client is in one
  of nine places, or nowhere (`Requests(c) <= 1`), as long as serverZ did not overwrite
  its slot; in that case at most one worker of serverZ reads the slot, and the
  parent writes it only when none does.
* **Rendezvous_proof.** `ColumnsPartition`: the integer arithmetic that shares
  out the columns covers them and never overlaps, for all m and matrixSize.
  `RendezvousIsComplete`, `OutputIsComplete` from `RInv`: the counter never exceeds
  the number of threads that finished the first part.
* **Children_proof.** `RecordsNeverMix`, `ParentReadsTheEnd` from `ChildrenInv`.
  `RecordsApart` alone is not inductive: that a child whose record somebody wrote
  after will not write again needs `Writers` (it has ended), which needs `Writes`
  (a writer has the lock). That nobody is left when the parent reads needs
  `Numbered`: a fork gives a number no child has, so no ended child is revived.
  `PointsAreInOrder` from `PointsInv`: the position of the parent is what its
  children and the point it is collecting account for. `NormsBelongToIds` from
  `RecordsInv`: as long as SIGINT reached no child the output file is made of
  records of twenty tokens, each of a child of its own (`FileInv`), and `read_output`,
  at token k of record a, has exactly the ids and numbers of that prefix (`Reading`).
* **Homeworks_proof** holds the proofs about three small programs, and extends the modules
  of all three; so that it can, Supplier and Replace carry their names in `SupplierSpec`,
  `ReplaceSpec` and the like. No lemma about one program uses another.
  Homework 3: the four pushers are evaluated for every pair of letters
  (`PushersMakeThePair`; `PushersLeaveOne` and `PushersLeaveNone` for a line that is
  no pair), one lemma for each pusher on a state
  without, or with, the flag it looks for. `RightChefIsServed` from `DeliveryInv` (at
  most one chef is owed a dessert, its semaphore posted or itself cooking or posting, and
  none while `agent` is 1) and `CountInv`; its hypothesis `AllAnswered` says that no line so far was of milk
  and walnuts, for which no chef is woken (see the disagreements). `TotalIsTrue` from
  `TotalInv`: the sum of the desserts is the number of lines read, less the one in
  progress, and `totalDeserts` the sum over the chefs waited for; it needs no hypothesis
  about the file, because a wholesaler that nobody answers is never done.
  Homework 1: `WhatIsWrittenStands` from `ReplaceInv`: who writes has the lock, so
  between a process's lock and somebody's truncation it alone changes the file, and
  the first `offset` characters are those of its list. That a list of words has no
  Nul needs that `String` cuts at the first one; the first place of a character exists
  because the naturals are well-founded (`SmallestOf`).
  `AloneReplacesRight` from `Alone`, for each process: while an operation that nobody ran
  into reads, the list of words is what the text becomes up to the word being
  read (`ReadSoFar`), and `FlagsTell` what the flags of `read_file` are worth; then
  the list is what the whole text becomes, and the file a prefix of it that ends at
  the offset. The text before and the file after need not have the same length,
  because an unterminated buffer adds what malloc left; so two places
  belong together when as many characters that are no such garbage come before the one as
  before the other (`Rank`, a cardinality, where a filtered
  sequence would be a recursion out of the prover's reach), and
  `RightSkipsOld`, `RightSkipsNew` and `RightNext` move one place on in either text.
  Homework 4: `NothingIsLost`, `RemovedAtTheEnd` from `SupplierInv`: semaphore plus
  consumed equals what was read, of each kind; main's index says who was joined.

Only model-checked: everything temporal beyond `[]` and action properties
(liveness under fairness is out of the prover's reach). Every invariant and every
action property of the runs is a theorem.

## What is not modelled

* Midterm: the lock file against a second instance, the arguments, the parsing of the
  matrix, and the determinant (commented out in the code). A worker is taken to have
  installed its handler when SIGINT comes. The semaphore `busy` of
  serverZ, which only a log line shows.
* Homework 1: the pattern language. `remove_symbols` reads an index nothing
  initialises, so which pattern is used is not determined; a word is one letter and a
  pattern matches one letter.
* Homework 2: the arithmetic of covariances and norms, the arguments, and a program
  child that is missing.
* Homework 3 with unnamed semaphores (`hw3unnamed.c`): it has the control of
  `hw3named.c`, and `Wholesaler` is mapped to the latter.
* Failing calls of the wholesaler: a fork that fails makes it kill(-1), every process of
  the user.
* Reuse of descriptor numbers: a connection is its own descriptor, and so the second
  close of server.c:246 and 325 (after 243 and 312) closes nothing. The
  code's races could, with reuse, hand a thread someone else's new connection. (The
  servant relies on reuse: servant.c:182 accepts on `socket_fd`, which was closed,
  and which is the listening socket because `socket_fd2` got the same number.)
* `realloc` of `portList` under a reader: undefined behaviour whose outcomes cannot be
  enumerated. What the server's and the client's threads do in the moment between the
  freeing of their memory and the end of the process: there the two are one step. In the
  servant, where the server's EXIT brings it about, they are not (`FreeResources`); a use
  of freed memory then gives anything or ends the process, but does not write over
  something else.
* Partial reads of a message, and lines of text: parsing, formatting, printing;
  `sortCityNames`, `parseDate`, `getArgNum`.
* `totalHandledNumber` of the server is modelled with its lost increments, but no
  property is about its value.
* The servant's search for a free port and for its own process number in `/proc`;
  SIGINT in the servant, which has no handler and simply kills it; the overflow
  of `threadArray`; the growth of the hash table (the table is never full
  under `RangesAssumption`).
* The client's reading of its request file: the threads start from a filled array.
* Elements of matrices and their arithmetic; norms and determinants.
* The dataset and build files, which have no behaviour.

## Plan

Done: every program of the repository has a module. In order of importance: the
request queue and the server with the service it implements, the client, the
servant, the homeworks whose whole point is synchronisation (3, 4, 5), the
pipeline, the parent and children, the replacement.

Proved: every invariant and every action property of the runs, and both
refinements.

Left, where the code gives it: more of Homework 1's file handling (what
`remove_symbols` would match if its index were initialised), and a second server
module with reused descriptor numbers.
