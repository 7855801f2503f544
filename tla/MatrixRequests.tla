--------------------------- MODULE MatrixRequests ---------------------------
(***************************************************************************)
(* The Midterm Project outside its two servers: the clients (client.c) and *)
(* what the processes share.  A client makes a FIFO of its own, writes its *)
(* request to the FIFO of serverY, opens its own for reading and reads one *)
(* answer; on its way out it unlinks it.  A request is the client that     *)
(* sent it: the matrix is never looked at.                                 *)
(*                                                                         *)
(* Opening a FIFO waits for the other end, so a client and the worker that *)
(* answers it meet in open.  A client that SIGINT kills leaves its FIFO in *)
(* the file system without a reader.                                       *)
(***************************************************************************)
EXTENDS Integers, Sequences, FiniteSets

CONSTANTS
    Clients,
    MaxPool,        \* the largest pool of a situation
    Situations      \* the arguments -p and -r, the pools of serverY and of
                    \* serverZ, which clients come, and whether SIGINT may be
                    \* sent to the servers or kill a client

ASSUME PoolAssumption ==
    /\ MaxPool \in Nat /\ IsFiniteSet(Clients) /\ 0 \notin Clients
    /\ Situations \subseteq [poolSize : 1 .. MaxPool, poolSize2 : 1 .. MaxPool,
                             clients : SUBSET Clients,
                             disturbances : SUBSET {"SIGINT", "killed"}]

VARIABLES
    situation,      \* the one of Situations, for good
    cpc,            \* each client: "absent", "new", "reading" (in open or
                    \* read), "gone" (its FIFO unlinked) or "killed"
    connected,      \* the clients whose open has met a writer's
    inbox,          \* the answers written to each client's FIFO
    serverFifo,     \* the requests in the FIFO of serverY
    serverP,        \* the requests in the pipe from serverY to serverZ
    sharedSema,     \* "myshm": busy workers of serverZ, as serverY sees them
    pendingY, pendingZ  \* the processes of each server that SIGINT was sent to

clientVars == <<cpc, connected, inbox, serverFifo>>

poolSize == situation.poolSize
poolSize2 == situation.poolSize2

\* The processes of a server: its parent is 0.
YProcs == 0 .. poolSize
ZProcs == 0 .. poolSize2
YWorkers == 1 .. poolSize
ZWorkers == 1 .. poolSize2

Nobody == 0                     \* no client: a descriptor of -1

SharedInit ==
    /\ situation \in Situations
    /\ cpc = [c \in Clients |->
                IF c \in situation.clients THEN "new" ELSE "absent"]
    /\ connected = {}
    /\ inbox = [c \in Clients |-> 0]
    /\ serverFifo = <<>> /\ serverP = <<>> /\ sharedSema = 0
    /\ pendingY = {} /\ pendingZ = {}
-----------------------------------------------------------------------------
\* The client writes its request and calls open: it waits for a writer.
Submit(c) ==
    /\ cpc[c] = "new"
    /\ cpc' = [cpc EXCEPT ![c] = "reading"]
    /\ serverFifo' = Append(serverFifo, c)
    /\ UNCHANGED <<connected, inbox>>

\* read gives the first answer, or 0 when every writer has closed; the
\* client does not tell the two apart.  It exits, and removeFifo unlinks.
ReadAnswer(c, hasWriter) ==
    /\ cpc[c] = "reading" /\ c \in connected
    /\ inbox[c] > 0 \/ ~ hasWriter
    /\ cpc' = [cpc EXCEPT ![c] = "gone"]
    /\ UNCHANGED <<connected, inbox, serverFifo>>

\* SIGINT in a client, which has no handler: removeFifo does not run.
Killed(c) ==
    /\ "killed" \in situation.disturbances
    /\ cpc[c] = "reading"
    /\ cpc' = [cpc EXCEPT ![c] = "killed"]
    /\ UNCHANGED <<connected, inbox, serverFifo>>
-----------------------------------------------------------------------------
(***************************************************************************)
(* open, write and close of a client's FIFO, as both servers' workers call *)
(* them.                                                                   *)
(***************************************************************************)
\* open fails when the FIFO is not there; otherwise it waits for a reader.
FifoExists(c) == c \in Clients /\ cpc[c] \in {"reading", "killed"}

HasReader(c) == cpc[c] = "reading"

Connect(c) ==
    /\ HasReader(c)
    /\ connected' = connected \union {c}
    /\ UNCHANGED <<cpc, inbox, serverFifo>>

\* write to a FIFO that nobody has open for reading is SIGPIPE, which kills
\* the worker; write to the descriptor -1 does nothing.
WriteKills(c) == c # Nobody /\ ~ HasReader(c)

WriteAnswer(c) ==
    /\ inbox' = IF c # Nobody /\ HasReader(c) THEN [inbox EXCEPT ![c] = @ + 1]
                                              ELSE inbox
    /\ UNCHANGED <<cpc, connected, serverFifo>>
=============================================================================
