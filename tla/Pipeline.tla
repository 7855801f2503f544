------------------------------ MODULE Pipeline ------------------------------
(***************************************************************************)
(* The Midterm Project as a whole: serverY, serverZ, the clients and       *)
(* SIGINT, which Ctrl-C sends to every process of both servers and kill to *)
(* serverY's parent alone.                                                 *)
(***************************************************************************)
EXTENDS ServerY, ServerZ

vars == <<situation, clientVars, serverP, sharedSema, pendingY, pendingZ, yVars,
          zVars>>

Init == SharedInit /\ YInit /\ ZInit

\* The client's FIFO is open for writing in some worker.
HasWriter(c) ==
    \/ \E w \in YWorkers : wfd[w] = c /\ ypc[w] # "open"
    \/ \E w \in ZWorkers : zfd[w] = c /\ zpc[w] # "open"

ClientStep(c) ==
    /\ Submit(c) \/ ReadAnswer(c, HasWriter(c))
    /\ UNCHANGED <<situation, serverP, sharedSema, pendingY, pendingZ, yVars,
                   zVars>>

YStep(i) ==
    /\ i \in YProcs /\ ypc[i] \notin InHandler \union {"dead"}
    /\ IF i = 0 THEN YParentStep ELSE YWorkerStep(i)
    /\ UNCHANGED <<situation, pendingY, pendingZ, zVars>>

ZStep(i) ==
    /\ i \in ZProcs /\ zpc[i] \notin ZInHandler \union {"dead"}
    /\ IF i = 0 THEN ZParentStep ELSE ZWorkerStep(i)
    /\ UNCHANGED <<situation, pendingY, pendingZ, yVars>>

Handler ==
    \/ \E i \in YProcs : YHandlerStep(i) /\ UNCHANGED <<situation, zVars>>
    \/ \E i \in ZProcs :
          ZHandlerStep(i) /\ UNCHANGED <<situation, pendingY, pendingZ, yVars>>

CtrlC ==
    /\ "SIGINT" \in situation.disturbances /\ pendingY = {}
    /\ pendingY' = YProcs /\ pendingZ' = ZProcs
    /\ UNCHANGED <<situation, clientVars, serverP, sharedSema, yVars, zVars>>

KillParent ==
    /\ "SIGINT" \in situation.disturbances /\ pendingY = {}
    /\ pendingY' = {0}
    /\ UNCHANGED <<situation, clientVars, serverP, sharedSema, pendingZ, yVars,
                   zVars>>

ClientKilled(c) ==
    /\ Killed(c)
    /\ UNCHANGED <<situation, serverP, sharedSema, pendingY, pendingZ, yVars,
                   zVars>>

Next ==
    \/ \E c \in Clients : ClientStep(c) \/ ClientKilled(c)
    \/ \E i \in YProcs : YStep(i)
    \/ \E i \in ZProcs : ZStep(i)
    \/ Handler \/ CtrlC \/ KillParent

Spec == Init /\ [][Next]_vars

\* Every process is scheduled; nobody need be interrupted or killed.
FairSpec ==
    /\ Spec
    /\ \A c \in Clients : WF_vars(ClientStep(c))
    /\ \A i \in 0 .. MaxPool : WF_vars(YStep(i)) /\ WF_vars(ZStep(i))
-----------------------------------------------------------------------------
TypeOK ==
    /\ cpc \in [Clients -> {"absent", "new", "reading", "gone", "killed"}]
    /\ connected \subseteq Clients /\ inbox \in [Clients -> Nat]
    /\ {serverFifo, serverP, p} \subseteq Seq(Clients)
    /\ pendingY \subseteq YProcs /\ pendingZ \subseteq ZProcs
    /\ yreq \in Clients \union {Nobody} /\ zreq \in Clients \union {Nobody}
    /\ shmem \in Clients \union {Nobody}
    /\ wfd \in [YWorkers -> Clients \union {Nobody}]
    /\ zfd \in [ZWorkers -> Clients \union {Nobody}]
    /\ stopped \subseteq ZWorkers /\ zindex \in 1 .. poolSize2 + 1
    /\ status \in [ZWorkers -> {0, 1}]
    /\ {sema, forwardedSemaphore, handledSemaphore, sharedSema, last, handledZ,
        invertedSemaphore, sigintSemaphore, sigintSemaphoreZ} \subseteq Nat

IdleY == {w \in YWorkers : ypc[w] = "read"}

(***************************************************************************)
(* serverY never gives its pool a request without a worker free to take    *)
(* it, although the counter it admits by is looked at before the blocking  *)
(* read and the posts and waits on it are steps of different processes.    *)
(***************************************************************************)
OwnPoolHasRoom ==
    pendingY = {} =>
        Len(p) + (IF ypc[0] = "writeP" THEN 1 ELSE 0) <= Cardinality(IdleY)

(***************************************************************************)
(* The counters the two servers admit requests by stay within the pools,   *)
(* also when workers die without counting themselves free.                 *)
(***************************************************************************)
CountersInPools ==
    sema <= poolSize /\ sharedSema <= poolSize2 /\ last <= poolSize2

(***************************************************************************)
(* serverZ never drops the request in its slot: the counter last, which a  *)
(* worker lowers after it has marked itself free, promises that the scan   *)
(* of sharedArray finds a free worker.                                     *)
(***************************************************************************)
ScanFindsWorker ==
    zpc[0] = "scan" => \E w \in zindex .. poolSize2 : status[w] = 0

(***************************************************************************)
(* A worker of serverZ runs only for a request, so that each one of the    *)
(* semaphores it waits on after the answer is there to be taken.           *)
(***************************************************************************)
NoWaitForEver ==
    \A w \in ZWorkers :
        /\ zpc[w] = "waitCommon" => sharedSema > 0
        /\ zpc[w] = "waitLast" => last > 0

(***************************************************************************)
(* The counters the processes of both servers go by mean what they are     *)
(* taken to mean: what they admit finds room, a worker, and its semaphores,*)
(* although each is read, posted and waited on by different processes.     *)
(***************************************************************************)
CountersHold ==
    /\ TypeOK
    /\ OwnPoolHasRoom /\ CountersInPools /\ ScanFindsWorker /\ NoWaitForEver

Served(c) ==
    {<<"Y", w>> : w \in {v \in YWorkers : wfd[v] = c}} \union
    {<<"Z", w>> : w \in {v \in ZWorkers : zfd[v] = c}}

(***************************************************************************)
(* Two workers serve one client, and a client is answered twice, only      *)
(* after a request in the slot was overwritten unread.                     *)
(***************************************************************************)
AnsweredOnce ==
    ~ overwritten =>
        \A c \in Clients : inbox[c] + Cardinality(Served(c)) <= 1

Submitted == Cardinality({c \in Clients : cpc[c] \notin {"absent", "new"}})

(***************************************************************************)
(* The totals SIGINT makes serverY write are written at most once and      *)
(* never claim more requests than clients submitted; those of serverZ      *)
(* never count a request as handled that was not counted as invertible.    *)
(***************************************************************************)
TotalsTruthful ==
    /\ Len(totalsY) <= 1 /\ Len(totalsZ) <= 1
    /\ \A k \in 1 .. Len(totalsY) :
          totalsY[k].handled + totalsY[k].forwarded <= Submitted
    /\ \A k \in 1 .. Len(totalsZ) :
          totalsZ[k].handled <= totalsZ[k].inverted

Interrupted == pendingY # {} \/ \E c \in Clients : cpc[c] = "killed"

(***************************************************************************)
(* Every client gets its answer, whichever pool is full when, unless       *)
(* somebody is interrupted or serverZ overwrote a request in its slot or   *)
(* continued a worker that had not stopped yet.                            *)
(***************************************************************************)
EveryClientAnswered ==
    <>(\/ \A c \in situation.clients : cpc[c] = "gone" /\ inbox[c] > 0
       \/ overwritten \/ missed \/ Interrupted)
=============================================================================
