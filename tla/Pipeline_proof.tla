--------------------------- MODULE Pipeline_proof ---------------------------
(***************************************************************************)
(* Proofs about the Midterm Project (Pipeline): what the counters of the   *)
(* two servers are worth, that the totals are true, and that no client is  *)
(* served twice, for any sizes of the pools and any number of clients.     *)
(***************************************************************************)
EXTENDS Pipeline, SequenceTheorems, FiniteSetTheorems, TLAPS
-----------------------------------------------------------------------------
(***************************************************************************)
(* The inductive invariant behind CountersHold: what the counters are      *)
(* worth.  A worker that dies leaves its share in them, so that they can   *)
(* only be too high; each request in hand is counted once on its way.      *)
(***************************************************************************)
YParentLabels == {"lookA", "lookB", "read", "post", "writeP", "forward"}
YWorkerLabels == {"read", "open", "answer", "release"}
ZParentLabels == {"look", "read", "postCommon", "copy", "scan", "wake"}
ZWorkerLabels ==
    {"slot", "open", "answer", "free", "waitCommon", "postHandled", "waitLast", "stop"}
Leaving == {"posted", "totals", "dead"}

\* Where the processes are, and that the parents hold a request in between.
PlacesOK ==
    /\ situation \in Situations /\ ya \in Nat
    /\ ypc \in [YProcs -> YParentLabels \union YWorkerLabels \union Leaving]
    /\ ypc[0] \in YParentLabels \union Leaving
    /\ \A w \in YWorkers : ypc[w] \in YWorkerLabels \union Leaving
    /\ zpc \in [ZProcs -> ZParentLabels \union ZWorkerLabels \union Leaving]
    /\ zpc[0] \in ZParentLabels \union Leaving
    /\ \A w \in ZWorkers : zpc[w] \in ZWorkerLabels \union Leaving
    /\ \A w \in stopped : zpc[w] = "slot"
    /\ ypc[0] \in {"post", "writeP", "forward"} => yreq \in Clients
    /\ zpc[0] \in {"postCommon", "copy"} => zreq \in Clients
    /\ zpc[0] \in {"scan", "wake"} => zindex \in ZWorkers
    /\ \A w \in YWorkers : ypc[w] = "open" => wfd[w] \in Clients
    /\ \A w \in ZWorkers : zpc[w] = "open" => zfd[w] \in Clients

One(b) == IF b THEN 1 ELSE 0

\* ya is never below sema, which only the parent raises; without signals
\* sema counts the requests in the pipe and the workers that are not idle.
AdmitsY ==
    /\ ypc[0] \in {"lookB", "read", "post"} => sema <= ya
    /\ ypc[0] = "post" => ya < poolSize
    /\ sema <= poolSize
    /\ pendingY = {} =>
          /\ \A i \in YProcs : ypc[i] \notin InHandler
          /\ sema + Cardinality(IdleY) = Len(p) + One(ypc[0] = "writeP") + poolSize

Taken == {w \in ZWorkers : status[w] = 1}
At(label) == {w \in ZWorkers : zpc[w] = label}

\* Workers between their wait on commonSem and the one on last.
Paying == Cardinality(At("postHandled")) + Cardinality(At("waitLast"))

\* A worker of serverZ that has not come to its Stop again.
Runs(w) == zpc[w] \in {"open", "answer", "free"} \/ (zpc[w] = "slot" /\ w \notin stopped)

AdmitsZ ==
    /\ \A w \in ZWorkers : Runs(w) => status[w] = 1
    /\ zpc[0] = "wake" => status[zindex] = 1 /\ ~ Runs(zindex)
    /\ zpc[0] \in {"read", "postCommon", "copy", "scan"} => last < poolSize2
    /\ last <= poolSize2
    /\ Cardinality(Taken) + Cardinality(At("waitCommon")) + Paying <= last
    /\ Cardinality(Taken) + Cardinality(At("waitCommon")) + One(zpc[0] \in {"copy", "scan"})
          <= sharedSema
    /\ sharedSema + Paying
          <= IF zpc[0] \in {"look", "read", "postCommon", "wake"} THEN last
             ELSE IF zpc[0] \in {"copy", "scan"} THEN last + 1 ELSE poolSize2
    /\ ScanFindsWorker

CountersInv == TypeOK /\ PlacesOK /\ AdmitsY /\ AdmitsZ
(***************************************************************************)
(* The inductive invariant behind TotalsTruthful: of two processes in the  *)
(* handler neither finds the semaphore at 1, and a request is counted as   *)
(* handled, or as forwarded, when it leaves the places it is counted in.   *)
(***************************************************************************)
OneWrites(P, place, semaphore, totals) ==
    /\ \A i \in P : place[i] \in InHandler => semaphore >= 1 + Len(totals)
    /\ \A i, j \in P : {place[i], place[j]} \subseteq InHandler /\ i # j => semaphore >= 2
    /\ \A i, j \in P : place[i] = "totals" /\ place[j] = "totals" => i = j
    /\ \A i \in P : place[i] = "totals" => Len(totals) = 0
    /\ Len(totals) <= 1 /\ Len(totals) <= semaphore

BusyY == {w \in YWorkers : ypc[w] \in {"open", "answer"}}

TotalsInv ==
    /\ totalsY \in Seq([handled : Nat, forwarded : Nat])
    /\ totalsZ \in Seq([handled : Nat, inverted : Nat])
    /\ yhandled \in 0 .. handledSemaphore /\ zhandled \in 0 .. handledZ
    /\ OneWrites(YProcs, ypc, sigintSemaphore, totalsY)
    /\ OneWrites(ZProcs, zpc, sigintSemaphoreZ, totalsZ)
    /\ handledSemaphore + forwardedSemaphore + Len(serverFifo) + Len(p)
          + One(ypc[0] \in {"post", "writeP", "forward"}) + Cardinality(BusyY)
          <= Submitted
    /\ handledZ + Cardinality(At("free")) + Cardinality(At("waitCommon"))
          + Cardinality(At("postHandled")) <= invertedSemaphore
    /\ TotalsTruthful
(***************************************************************************)
(* The inductive invariant behind AnsweredOnce: as long as the slot was    *)
(* not overwritten unread, the request of a client is in one place.        *)
(***************************************************************************)
Times(s, c) == Cardinality({i \in DOMAIN s : s[i] = c})

Requests(c) ==
    Times(serverFifo, c) + One(yreq = c) + Times(p, c) + Times(wfd, c)
    + Times(serverP, c) + One(zreq = c) + One(~ slotRead /\ shmem = c)
    + Times(zfd, c) + inbox[c]

ReadsSlot(w) == zpc[w] = "slot" /\ w \notin stopped

AnsweredInv ==
    ~ overwritten =>
        /\ \A c \in Clients :
              /\ Requests(c) <= 1
              /\ cpc[c] \in {"absent", "new"} => Requests(c) = 0
        /\ \A w \in ZWorkers : ReadsSlot(w) => ~ slotRead
        /\ \A v, w \in ZWorkers : ReadsSlot(v) /\ ReadsSlot(w) => v = w
        /\ zpc[0] \in {"scan", "wake"} =>
              ~ slotRead /\ \A w \in ZWorkers : ~ ReadsSlot(w)
-----------------------------------------------------------------------------
(***************************************************************************)
(* Counting.                                                               *)
(***************************************************************************)
\* Two sets that differ in one element at most.
LEMMA CountChange ==
    ASSUME NEW W, IsFiniteSet(W), NEW A \in SUBSET W, NEW B \in SUBSET W, NEW w,
           \A v \in W \ {w} : v \in A <=> v \in B
    PROVE  /\ Cardinality(A) \in Nat /\ Cardinality(B) \in Nat
           /\ Cardinality(B) + One(w \in A) = Cardinality(A) + One(w \in B)
<1>1. IsFiniteSet(A) /\ IsFiniteSet(B)
  BY FS_Subset
<1>2. Cardinality(A) \in Nat /\ Cardinality(B) \in Nat
  BY <1>1, FS_CardinalityType
<1>3. A \ {w} = B \ {w}
  OBVIOUS
<1>4. /\ Cardinality(A \ {w}) = IF w \in A THEN Cardinality(A) - 1 ELSE Cardinality(A)
      /\ Cardinality(B \ {w}) = IF w \in B THEN Cardinality(B) - 1 ELSE Cardinality(B)
  BY <1>1, FS_RemoveElement
<1>5. QED BY <1>2, <1>3, <1>4 DEF One

LEMMA CountSubset ==
    ASSUME NEW W, IsFiniteSet(W), NEW A \in SUBSET W
    PROVE  /\ Cardinality(A) \in Nat /\ Cardinality(A) <= Cardinality(W)
           /\ Cardinality(A) = Cardinality(W) => A = W
           /\ \A x \in A : Cardinality(A) > 0
<1>1. IsFiniteSet(A) /\ Cardinality(A) <= Cardinality(W)
      /\ (Cardinality(W) = Cardinality(A) => W = A)
  BY FS_Subset
<1>2. Cardinality(A) \in Nat
  BY <1>1, FS_CardinalityType
<1>3. \A x \in A : Cardinality(A) # 0
  BY <1>1, FS_EmptySet
<1>4. QED BY <1>1, <1>2, <1>3
-----------------------------------------------------------------------------
(***************************************************************************)
(* Types.                                                                  *)
(***************************************************************************)
SharedTypes ==
    /\ cpc \in [Clients -> {"absent", "new", "reading", "gone", "killed"}]
    /\ connected \subseteq Clients /\ inbox \in [Clients -> Nat]
    /\ serverFifo \in Seq(Clients) /\ serverP \in Seq(Clients)
    /\ sharedSema \in Nat
    /\ pendingY \subseteq YProcs /\ pendingZ \subseteq ZProcs

YTypes ==
    /\ ya \in Nat /\ p \in Seq(Clients) /\ yreq \in Clients \union {Nobody}
    /\ wfd \in [YWorkers -> Clients \union {Nobody}]
    /\ sema \in Nat /\ forwardedSemaphore \in Nat /\ handledSemaphore \in Nat
    /\ sigintSemaphore \in Nat
    /\ ypc \in [YProcs -> YParentLabels \union YWorkerLabels \union Leaving]
    /\ ypc[0] \in YParentLabels \union Leaving
    /\ \A w \in YWorkers : ypc[w] \in YWorkerLabels \union Leaving
    /\ ypc[0] \in {"post", "writeP", "forward"} => yreq \in Clients
    /\ \A w \in YWorkers : ypc[w] = "open" => wfd[w] \in Clients

ZTypes ==
    /\ zreq \in Clients \union {Nobody} /\ shmem \in Clients \union {Nobody}
    /\ zfd \in [ZWorkers -> Clients \union {Nobody}]
    /\ stopped \subseteq ZWorkers /\ zindex \in 1 .. poolSize2 + 1
    /\ status \in [ZWorkers -> {0, 1}]
    /\ last \in Nat /\ handledZ \in Nat /\ invertedSemaphore \in Nat
    /\ sigintSemaphoreZ \in Nat
    /\ zpc \in [ZProcs -> ZParentLabels \union ZWorkerLabels \union Leaving]
    /\ zpc[0] \in ZParentLabels \union Leaving
    /\ \A w \in ZWorkers : zpc[w] \in ZWorkerLabels \union Leaving
    /\ \A w \in stopped : zpc[w] = "slot"
    /\ zpc[0] \in {"postCommon", "copy"} => zreq \in Clients
    /\ zpc[0] \in {"scan", "wake"} => zindex \in ZWorkers
    /\ \A w \in ZWorkers : zpc[w] = "open" => zfd[w] \in Clients

Types == situation \in Situations /\ SharedTypes /\ YTypes /\ ZTypes

LEMMA TypesTogether == Types <=> TypeOK /\ PlacesOK
  BY DEF Types, SharedTypes, YTypes, ZTypes, TypeOK, PlacesOK

LEMMA Pools ==
    ASSUME situation \in Situations
    PROVE  /\ poolSize \in Nat /\ poolSize > 0 /\ poolSize2 \in Nat /\ poolSize2 > 0
           /\ 0 \in YProcs /\ YWorkers = YProcs \ {0} /\ IsFiniteSet(YWorkers)
           /\ Cardinality(YWorkers) = poolSize
           /\ 0 \in ZProcs /\ ZWorkers = ZProcs \ {0} /\ IsFiniteSet(ZWorkers)
           /\ Cardinality(ZWorkers) = poolSize2
           /\ IsFiniteSet(Clients) /\ 0 \notin Clients
<1>1. /\ poolSize \in Nat /\ poolSize > 0 /\ poolSize2 \in Nat /\ poolSize2 > 0
      /\ IsFiniteSet(Clients) /\ 0 \notin Clients
  BY PoolAssumption DEF poolSize, poolSize2
<1>2. /\ 0 \in YProcs /\ YWorkers = YProcs \ {0}
      /\ 0 \in ZProcs /\ ZWorkers = ZProcs \ {0}
  BY <1>1 DEF YProcs, YWorkers, ZProcs, ZWorkers
<1>3. \A n \in Nat : n > 0 => IsFiniteSet(1 .. n) /\ Cardinality(1 .. n) = n
  BY FS_Interval
<1>4. QED BY <1>1, <1>2, <1>3 DEF YWorkers, ZWorkers

\* The steps of a client, and SIGINT.
LEMMA ClientTypes ==
    ASSUME Types, NEW c \in Clients, ClientStep(c) \/ ClientKilled(c)
    PROVE  Types'
<1>1. UNCHANGED <<situation, serverP, sharedSema, pendingY, pendingZ, yVars, zVars>>
  BY DEF ClientStep, ClientKilled
<1>2. YTypes' /\ ZTypes'
  BY <1>1 DEF Types, YTypes, ZTypes, yVars, zVars, zHistory, poolSize, poolSize2,
     YProcs, ZProcs, YWorkers, ZWorkers
<1>3. SharedTypes'
  <2>1. /\ \E label \in {"reading", "gone", "killed"} : cpc' = [cpc EXCEPT ![c] = label]
        /\ UNCHANGED <<connected, inbox>>
    BY DEF ClientStep, ClientKilled, Submit, ReadAnswer, Killed
  <2>2. serverFifo' \in Seq(Clients)
    <3>1. serverFifo' = serverFifo \/ serverFifo' = Append(serverFifo, c)
      BY DEF ClientStep, ClientKilled, Submit, ReadAnswer, Killed
    <3>2. serverFifo \in Seq(Clients)
      BY DEF Types, SharedTypes
    <3>3. Append(serverFifo, c) \in Seq(Clients)
      BY <3>2, AppendProperties
    <3>4. QED BY <3>1, <3>2, <3>3
  <2>3. QED
    BY <1>1, <2>1, <2>2 DEF Types, SharedTypes, YProcs, ZProcs, poolSize, poolSize2
<1>4. QED BY <1>1, <1>2, <1>3 DEF Types

LEMMA SignalTypes ==
    ASSUME Types, CtrlC \/ KillParent
    PROVE  Types'
<1>1. UNCHANGED <<situation, clientVars, serverP, sharedSema, yVars, zVars>>
  BY DEF CtrlC, KillParent
<1>2. YTypes' /\ ZTypes'
  BY <1>1 DEF Types, YTypes, ZTypes, yVars, zVars, zHistory, poolSize, poolSize2,
     YProcs, ZProcs, YWorkers, ZWorkers
<1>3. pendingY' \subseteq YProcs /\ pendingZ' \subseteq ZProcs
  BY Pools DEF CtrlC, KillParent, Types, SharedTypes
<1>4. SharedTypes'
  BY <1>1, <1>3 DEF Types, SharedTypes, YProcs, ZProcs, poolSize, poolSize2, clientVars
<1>5. QED BY <1>1, <1>2, <1>4 DEF Types

LEMMA WriteTypes ==
    ASSUME Types, NEW c \in Clients \union {Nobody}, WriteAnswer(c)
    PROVE  inbox' \in [Clients -> Nat] /\ UNCHANGED <<cpc, connected, serverFifo>>
<1>1. inbox' = inbox \/ (c \in Clients /\ inbox' = [inbox EXCEPT ![c] = @ + 1])
  BY DEF WriteAnswer
<1>2. QED BY <1>1 DEF WriteAnswer, Types, SharedTypes

\* The steps of the processes of serverY.
YOwnStep(i) == YStep(i) \/ (YHandlerStep(i) /\ UNCHANGED <<situation, zVars>>)

LEMMA YStepTypes ==
    ASSUME Types, NEW i \in YProcs, YOwnStep(i)
    PROVE  Types'
<1>1. UNCHANGED <<situation, zVars>>
  BY DEF YOwnStep, YStep
<1>2. ZTypes'
  BY <1>1 DEF Types, ZTypes, zVars, zHistory, poolSize2, ZProcs, ZWorkers
<1>3. YProcs' = YProcs /\ YWorkers' = YWorkers /\ ZProcs' = ZProcs
  BY <1>1 DEF YProcs, YWorkers, ZProcs, poolSize, poolSize2
<1>4. /\ 0 \in YProcs /\ YWorkers = YProcs \ {0} /\ 0 \in ZProcs
  BY Pools DEF Types
<1> SUFFICES SharedTypes' /\ YTypes'
  BY <1>1, <1>2 DEF Types
<1> USE DEF YGoto, YParentLabels, YWorkerLabels, Leaving, InHandler, clientVars
<1>5. ASSUME i = 0, YParentStep, UNCHANGED <<pendingY, pendingZ>>
      PROVE  SharedTypes' /\ YTypes'
  <2>1. CASE LookA
    BY <1>3, <1>4, <1>5, <2>1 DEF LookA, Types, SharedTypes, YTypes
  <2>2. CASE LookB
    BY <1>3, <1>4, <1>5, <2>2 DEF LookB, Types, SharedTypes, YTypes
  <2>3. CASE ReadRequest
    <3>1. Head(serverFifo) \in Clients /\ Tail(serverFifo) \in Seq(Clients)
      BY <2>3 DEF ReadRequest, Types, SharedTypes
    <3>2. QED
      BY <1>3, <1>4, <1>5, <2>3, <3>1 DEF ReadRequest, Types, SharedTypes, YTypes
  <2>4. CASE PostSema
    BY <1>3, <1>4, <1>5, <2>4 DEF PostSema, Types, SharedTypes, YTypes
  <2>5. CASE WriteP
    BY <1>3, <1>4, <1>5, <2>5 DEF WriteP, Types, SharedTypes, YTypes
  <2>6. CASE Forward
    BY <1>3, <1>4, <1>5, <2>6 DEF Forward, Types, SharedTypes, YTypes
  <2>7. QED BY <1>5, <2>1, <2>2, <2>3, <2>4, <2>5, <2>6 DEF YParentStep
<1>6. ASSUME i \in YWorkers, YWorkerStep(i), UNCHANGED <<pendingY, pendingZ>>
      PROVE  SharedTypes' /\ YTypes'
  <2>1. CASE TakeRequest(i)
    <3>1. Head(p) \in Clients /\ Tail(p) \in Seq(Clients)
      BY <2>1 DEF TakeRequest, Types, YTypes
    <3>2. QED
      BY ZenonT(40), <1>3, <1>4, <1>6, <2>1, <3>1 DEF TakeRequest, Types, SharedTypes, YTypes
  <2>2. CASE OpenFifo(i)
    <3>1. wfd[i] \in Clients
      BY <1>6, <2>2 DEF OpenFifo, Types, YTypes
    <3>2. QED
      BY <1>3, <1>4, <1>6, <2>2, <3>1 DEF OpenFifo, Connect, Types, SharedTypes, YTypes
  <2>3. CASE Answer(i)
    <3>1. inbox' \in [Clients -> Nat] /\ UNCHANGED <<cpc, connected, serverFifo>>
      BY <1>6, <2>3, WriteTypes DEF Answer, Types, YTypes
    <3>2. QED
      BY <1>3, <1>4, <1>6, <2>3, <3>1 DEF Answer, Types, SharedTypes, YTypes
  <2>4. CASE WaitSema(i)
    BY <1>3, <1>4, <1>6, <2>4 DEF WaitSema, Types, SharedTypes, YTypes
  <2>5. QED BY <1>6, <2>1, <2>2, <2>3, <2>4 DEF YWorkerStep
<1>7. ASSUME YHandlerStep(i)
      PROVE  SharedTypes' /\ YTypes'
  <2>1. CASE YHandlerPost(i)
    BY <1>3, <1>4, <2>1 DEF YHandlerPost, Types, SharedTypes, YTypes
  <2>2. CASE YReadHandled(i)
    BY <1>3, <1>4, <2>2 DEF YReadHandled, Types, SharedTypes, YTypes
  <2>3. CASE YLeave(i)
    BY <1>3, <1>4, <2>3 DEF YLeave, Types, SharedTypes, YTypes
  <2>4. QED BY <1>7, <2>1, <2>2, <2>3 DEF YHandlerStep
<1>8. QED BY <1>4, <1>5, <1>6, <1>7 DEF YOwnStep, YStep

\* The steps of the processes of serverZ.
ZOwnStep(i) ==
    \/ ZStep(i)
    \/ ZHandlerStep(i) /\ UNCHANGED <<situation, pendingY, pendingZ, yVars>>

LEMMA ZStepTypes ==
    ASSUME Types, NEW i \in ZProcs, ZOwnStep(i)
    PROVE  Types'
<1>1. UNCHANGED <<situation, pendingY, pendingZ, yVars>>
  BY DEF ZOwnStep, ZStep
<1>2. YTypes'
  BY <1>1 DEF Types, YTypes, yVars, poolSize, YProcs, YWorkers
<1>3. YProcs' = YProcs /\ ZWorkers' = ZWorkers /\ ZProcs' = ZProcs /\ poolSize2' = poolSize2
  BY <1>1 DEF YProcs, ZWorkers, ZProcs, poolSize, poolSize2
<1>4. /\ 0 \in ZProcs /\ ZWorkers = ZProcs \ {0}
      /\ poolSize2 \in Nat /\ poolSize2 > 0 /\ ZWorkers = 1 .. poolSize2
  BY Pools DEF Types, ZWorkers
<1> SUFFICES SharedTypes' /\ ZTypes'
  BY <1>1, <1>2 DEF Types
<1> USE DEF ZGoto, ZParentLabels, ZWorkerLabels, Leaving, ZInHandler, clientVars, zHistory
<1>5. ASSUME i = 0, ZParentStep
      PROVE  SharedTypes' /\ ZTypes'
  <2>1. CASE LookLast
    BY <1>1, <1>3, <1>4, <1>5, <2>1 DEF LookLast, Types, SharedTypes, ZTypes
  <2>2. CASE ReadServerP
    <3>1. Head(serverP) \in Clients /\ Tail(serverP) \in Seq(Clients)
      BY <2>2 DEF ReadServerP, Types, SharedTypes
    <3>2. QED
      BY SMTT(30), <1>1, <1>3, <1>4, <1>5, <2>2, <3>1 DEF ReadServerP, Types, SharedTypes,
         ZTypes
  <2>7. CASE PostCommon
    BY SMTT(30), <1>1, <1>3, <1>4, <1>5, <2>7 DEF PostCommon, Types, SharedTypes, ZTypes
  <2>3. CASE CopyToSlot
    <3>1. SharedTypes'
      BY <1>1, <1>3, <2>3 DEF CopyToSlot, Types, SharedTypes
    <3>2. zpc' = [zpc EXCEPT ![0] = "scan"] /\ zindex' = 1 /\ 1 \in 1 .. poolSize2 + 1
          /\ 1 \in ZWorkers
      BY <1>4, <2>3 DEF CopyToSlot
    <3>3. QED
      BY <1>3, <1>4, <2>3, <3>1, <3>2 DEF CopyToSlot, Types, ZTypes
  <2>4. CASE ScanStatus
    <3>1. SharedTypes'
      BY <1>1, <1>3, <2>4 DEF ScanStatus, Types, SharedTypes
    <3>2. zindex \in ZWorkers /\ zpc[0] = "scan"
      BY <2>4 DEF ScanStatus, Types, ZTypes
    <3>3. CASE status[zindex] = 0
      BY SMTT(30), <1>3, <1>4, <2>4, <3>1, <3>2, <3>3 DEF ScanStatus, Types, ZTypes
    <3>4. CASE status[zindex] # 0
      <4>1. /\ zindex + 1 \in 1 .. poolSize2 + 1
            /\ zindex # poolSize2 => zindex + 1 \in ZWorkers
        BY <1>4, <3>2
      <4>2. QED BY <1>3, <1>4, <2>4, <3>1, <3>2, <3>4, <4>1 DEF ScanStatus, Types, ZTypes
    <3>5. QED BY <3>3, <3>4
  <2>5. CASE Continue
    BY <1>1, <1>3, <1>4, <1>5, <2>5 DEF Continue, Types, SharedTypes, ZTypes
  <2>6. QED BY <1>5, <2>1, <2>2, <2>3, <2>4, <2>5, <2>7 DEF ZParentStep
<1>6. ASSUME i \in ZWorkers, ZWorkerStep(i)
      PROVE  SharedTypes' /\ ZTypes'
  <2>1. CASE TakeSlot(i)
    <3>1. SharedTypes'
      BY <1>1, <1>3, <2>1 DEF TakeSlot, Types, SharedTypes
    <3>2. i \notin stopped
      BY <1>6 DEF ZWorkerStep
    <3>3. \/ /\ shmem \in Clients /\ zfd' = [zfd EXCEPT ![i] = shmem]
             /\ zpc' = [zpc EXCEPT ![i] = "open"]
          \/ zfd' = zfd /\ zpc' = [zpc EXCEPT ![i] = "answer"]
      BY <2>1 DEF TakeSlot, FifoExists
    <3>4. QED
      BY <1>3, <1>4, <1>6, <2>1, <3>1, <3>2, <3>3 DEF TakeSlot, Types, ZTypes
  <2>2. CASE ZOpenFifo(i)
    <3>1. zfd[i] \in Clients
      BY <1>6, <2>2 DEF ZOpenFifo, Types, ZTypes
    <3>2. QED
      BY <1>1, <1>3, <1>4, <1>6, <2>2, <3>1
         DEF ZOpenFifo, Connect, ZWorkerStep, Types, SharedTypes, ZTypes
  <2>3. CASE ZAnswer(i)
    <3>1. inbox' \in [Clients -> Nat] /\ UNCHANGED <<cpc, connected, serverFifo>>
      BY <1>6, <2>3, WriteTypes DEF ZAnswer, Types, ZTypes
    <3>2. QED
      BY <1>1, <1>3, <1>4, <1>6, <2>3, <3>1
         DEF ZAnswer, ZWorkerStep, Types, SharedTypes, ZTypes
  <2>4. CASE FreeSlot(i) \/ WaitCommon(i) \/ PostHandled(i) \/ WaitLast(i)
    <3>1. SharedTypes'
      BY <1>1, <1>3, <2>4 DEF FreeSlot, WaitCommon, PostHandled, WaitLast, Types, SharedTypes
    <3>2. i \notin stopped
      BY <1>6 DEF ZWorkerStep
    <3>3. CASE FreeSlot(i)
      BY <1>3, <1>4, <1>6, <3>1, <3>2, <3>3 DEF FreeSlot, Types, ZTypes
    <3>4. CASE WaitCommon(i)
      BY <1>3, <1>4, <1>6, <3>1, <3>2, <3>4 DEF WaitCommon, Types, ZTypes
    <3>5. CASE WaitLast(i)
      BY <1>3, <1>4, <1>6, <3>1, <3>2, <3>5 DEF WaitLast, Types, ZTypes
    <3>6. CASE PostHandled(i)
      BY <1>3, <1>4, <1>6, <3>1, <3>2, <3>6 DEF PostHandled, Types, ZTypes
    <3>7. QED BY <2>4, <3>3, <3>4, <3>5, <3>6
  <2>5. CASE Stop(i)
    BY SMTT(30), <1>1, <1>3, <1>4, <1>6, <2>5 DEF Stop, ZWorkerStep, Types, SharedTypes, ZTypes
  <2>6. QED BY <1>6, <2>1, <2>2, <2>3, <2>4, <2>5 DEF ZWorkerStep
<1>7. ASSUME ZHandlerStep(i)
      PROVE  SharedTypes' /\ ZTypes'
  <2>1. CASE ZHandlerPost(i)
    <3>1. SharedTypes'
      BY <1>1, <1>3, <2>1 DEF ZHandlerPost, Types, SharedTypes
    <3>2. QED
      BY <1>3, <1>4, <2>1, <3>1 DEF ZHandlerPost, Types, ZTypes
  <2>2. CASE ZReadHandled(i)
    BY <1>1, <1>3, <1>4, <2>2 DEF ZReadHandled, Types, SharedTypes, ZTypes
  <2>3. CASE ZLeave(i)
    BY <1>1, <1>3, <1>4, <2>3 DEF ZLeave, Types, SharedTypes, ZTypes
  <2>4. QED BY <1>7, <2>1, <2>2, <2>3 DEF ZHandlerStep
<1>8. QED BY <1>4, <1>5, <1>6, <1>7 DEF ZOwnStep, ZStep

LEMMA TypesInductive == Types /\ [Next]_vars => Types'
<1> SUFFICES ASSUME Types, [Next]_vars PROVE Types'
  OBVIOUS
<1>1. CASE UNCHANGED vars
  BY <1>1 DEF vars, Types, SharedTypes, YTypes, ZTypes, clientVars, yVars, zVars, zHistory,
     poolSize, poolSize2, YProcs, ZProcs, YWorkers, ZWorkers
<1>2. CASE Next
  BY <1>2, ClientTypes, SignalTypes, YStepTypes, ZStepTypes
     DEF Next, Handler, YOwnStep, ZOwnStep
<1>3. QED BY <1>1, <1>2

LEMMA TypesInitially == Init => Types
<1> SUFFICES ASSUME Init PROVE Types
  OBVIOUS
<1>1. situation \in Situations
  BY DEF Init, SharedInit
<1>2. /\ 0 \in YProcs /\ YWorkers = YProcs \ {0} /\ 0 \in ZProcs /\ ZWorkers = ZProcs \ {0}
      /\ poolSize2 \in Nat /\ poolSize2 > 0
  BY <1>1, Pools
<1>3. SharedTypes
  BY <1>1, PoolAssumption DEF Init, SharedInit, SharedTypes
<1>4. YTypes
  BY <1>2 DEF Init, YInit, YTypes, YParentLabels, YWorkerLabels, Leaving, Nobody
<1>5. ZTypes
  BY <1>2 DEF Init, ZInit, ZTypes, ZParentLabels, ZWorkerLabels, Leaving, Nobody
<1>6. QED BY <1>1, <1>3, <1>4, <1>5 DEF Types

LEMMA PipelineTypes == Spec => []Types
  BY TypesInitially, TypesInductive, PTL DEF Spec
-----------------------------------------------------------------------------
(***************************************************************************)
(* The counters of serverY.                                                *)
(***************************************************************************)
LEMMA IdleChange ==
    ASSUME Types, situation' = situation, NEW i,
           \A w \in YWorkers \ {i} : ypc'[w] = ypc[w]
    PROVE  /\ Cardinality(IdleY) \in Nat /\ Cardinality(IdleY)' \in Nat
           /\ i \in YWorkers => Cardinality(IdleY)' + One(ypc[i] = "read")
                                 = Cardinality(IdleY) + One(ypc'[i] = "read")
           /\ i \notin YWorkers => Cardinality(IdleY)' = Cardinality(IdleY)
<1>1. YWorkers' = YWorkers /\ IsFiniteSet(YWorkers)
  BY Pools DEF YWorkers, poolSize, Types
<1>2. IdleY \in SUBSET YWorkers /\ IdleY' \in SUBSET YWorkers
  BY <1>1 DEF IdleY
<1>3. \A v \in YWorkers \ {i} : v \in IdleY <=> v \in IdleY'
  BY <1>1 DEF IdleY
<1>4. /\ Cardinality(IdleY) \in Nat /\ Cardinality(IdleY') \in Nat
      /\ Cardinality(IdleY') + One(i \in IdleY) = Cardinality(IdleY) + One(i \in IdleY')
  BY <1>1, <1>2, <1>3, CountChange
<1>5. i \in YWorkers => (i \in IdleY <=> ypc[i] = "read") /\ (i \in IdleY' <=> ypc'[i] = "read")
  BY <1>1 DEF IdleY
<1>6. i \notin YWorkers => i \notin IdleY /\ i \notin IdleY'
  BY <1>2
<1>7. QED BY <1>4, <1>5, <1>6 DEF One

LEMMA AdmitsYStays ==
    ASSUME AdmitsY, UNCHANGED <<situation, ypc, ya, sema, p, pendingY>>
    PROVE  AdmitsY'
  BY DEF AdmitsY, IdleY, YWorkers, YProcs, poolSize

LEMMA AdmitsYSteps ==
    ASSUME Types, AdmitsY, NEW i \in YProcs, YOwnStep(i)
    PROVE  AdmitsY'
<1>1. /\ situation' = situation /\ YProcs' = YProcs /\ poolSize' = poolSize
      /\ pendingY' = pendingY
  BY DEF YOwnStep, YStep, YHandlerStep, YHandlerPost, YReadHandled, YLeave, YProcs, poolSize
<1>2. /\ 0 \in YProcs /\ YWorkers = YProcs \ {0} /\ poolSize \in Nat
      /\ ypc \in [YProcs -> YParentLabels \union YWorkerLabels \union Leaving]
      /\ ya \in Nat /\ sema \in Nat /\ p \in Seq(Clients)
  BY Pools DEF Types, YTypes
<1>3. \A w \in YProcs \ {i} : ypc'[w] = ypc[w]
  <2>1. \E label : ypc' = [ypc EXCEPT ![i] = label]
    BY DEF YOwnStep, YStep, YHandlerStep, YHandlerPost, YReadHandled, YLeave, YGoto,
       YParentStep, LookA, LookB, ReadRequest, PostSema, WriteP, Forward,
       YWorkerStep, TakeRequest, OpenFifo, Answer, WaitSema
  <2>2. QED BY <1>2, <2>1
<1>4. /\ Cardinality(IdleY) \in Nat /\ Cardinality(IdleY)' \in Nat
      /\ i \in YWorkers => Cardinality(IdleY)' + One(ypc[i] = "read")
                            = Cardinality(IdleY) + One(ypc'[i] = "read")
      /\ i \notin YWorkers => Cardinality(IdleY)' = Cardinality(IdleY)
  <2>1. \A w \in YWorkers \ {i} : ypc'[w] = ypc[w]
    BY <1>2, <1>3
  <2>2. QED BY <1>1, <2>1, IdleChange
<1>5. CASE i = 0 /\ YParentStep
  <2>0. i \notin YWorkers /\ Cardinality(IdleY)' = Cardinality(IdleY)
    BY <1>2, <1>4, <1>5
  <2> USE DEF AdmitsY, YGoto, InHandler, One
  <2>1. CASE LookA
    <3>1. /\ ypc[0] = "lookA" /\ ypc'[0] = "lookB" /\ ya' = sema /\ UNCHANGED <<sema, p>>
      BY <1>2, <2>1 DEF LookA
    <3>2. \A j \in YProcs : pendingY = {} => ypc'[j] \notin InHandler
      BY <1>2, <1>3, <1>5, <3>1
    <3>3. pendingY = {} => sema + Cardinality(IdleY)' = Len(p) + 0 + poolSize
      BY <1>1, <1>2, <1>4, <2>0, <3>1
    <3>4. QED BY <1>1, <1>2, <3>1, <3>2, <3>3
  <2>2. CASE LookB
    BY <1>1, <1>2, <1>3, <1>4, <1>5, <2>0, <2>2 DEF LookB
  <2>3. CASE ReadRequest
    BY <1>1, <1>2, <1>3, <1>4, <1>5, <2>0, <2>3 DEF ReadRequest
  <2>4. CASE PostSema
    BY <1>1, <1>2, <1>3, <1>4, <1>5, <2>0, <2>4 DEF PostSema
  <2>5. CASE WriteP
    <3>1. Len(p') = Len(p) + 1
      BY <1>2, <1>5, <2>5 DEF WriteP, Types, YTypes
    <3>2. ypc[0] = "writeP" /\ ypc'[0] = "lookA" /\ UNCHANGED <<sema, ya>>
      BY <1>2, <2>5 DEF WriteP
    <3>3. Len(p) \in Nat
      BY <1>2
    <3>4. \A j \in YProcs : pendingY = {} => ypc'[j] \notin InHandler
      BY <1>2, <1>3, <1>5, <3>2
    <3>5. pendingY = {} => sema + Cardinality(IdleY)' = Len(p') + 0 + poolSize
      BY <1>1, <1>2, <1>4, <2>0, <3>1, <3>2, <3>3
    <3>6. QED BY <1>1, <1>2, <3>2, <3>4, <3>5
  <2>6. CASE Forward
    BY <1>1, <1>2, <1>3, <1>4, <1>5, <2>0, <2>6 DEF Forward
  <2>7. QED BY <1>5, <2>1, <2>2, <2>3, <2>4, <2>5, <2>6 DEF YParentStep
<1>6. CASE i \in YWorkers /\ YWorkerStep(i)
  <2>0. /\ ypc'[0] = ypc[0] /\ ypc[0] \in YParentLabels \union Leaving
        /\ Cardinality(IdleY)' + One(ypc[i] = "read")
             = Cardinality(IdleY) + One(ypc'[i] = "read")
    BY <1>2, <1>3, <1>4, <1>6 DEF Types, YTypes
  <2> USE DEF AdmitsY, YGoto, InHandler, One
  <2>1. CASE TakeRequest(i)
    <3>1. Len(p') = Len(p) - 1 /\ Len(p) \in Nat
      BY <1>2, <2>1 DEF TakeRequest
    <3>2. ypc[i] = "read" /\ ypc'[i] \in {"open", "answer"} /\ UNCHANGED <<ya, sema>>
      BY <1>2, <2>1 DEF TakeRequest
    <3>3. QED BY SMTT(30), <1>1, <1>2, <1>3, <1>4, <2>0, <3>1, <3>2
  <2>2. CASE OpenFifo(i)
    BY <1>1, <1>2, <1>3, <1>4, <2>0, <2>2 DEF OpenFifo
  <2>3. CASE Answer(i)
    BY <1>1, <1>2, <1>3, <1>4, <2>0, <2>3 DEF Answer
  <2>4. CASE WaitSema(i)
    BY <1>1, <1>2, <1>3, <1>4, <2>0, <2>4 DEF WaitSema
  <2>5. QED BY <1>6, <2>1, <2>2, <2>3, <2>4 DEF YWorkerStep
<1>7. CASE YHandlerStep(i)
  <2>1. pendingY # {}
    BY <1>7 DEF YHandlerStep, YHandlerPost, YReadHandled, YLeave, AdmitsY, InHandler
  <2>2. UNCHANGED <<ya, sema>> /\ ypc'[i] \in Leaving
    BY <1>2, <1>7 DEF YHandlerStep, YHandlerPost, YReadHandled, YLeave, YGoto, Leaving
  <2>3. QED BY <1>1, <1>2, <1>3, <2>1, <2>2 DEF AdmitsY, Leaving
<1>8. QED BY <1>2, <1>5, <1>6, <1>7 DEF YOwnStep, YStep
-----------------------------------------------------------------------------
(***************************************************************************)
(* The counters of serverZ.                                                *)
(***************************************************************************)
TakenCount == Cardinality(Taken)
CountAt(label) == Cardinality(At(label))
PayLabels == {"postHandled", "waitLast"}
PayingCount == CountAt("postHandled") + CountAt("waitLast")

\* What a step that moves one process changes in the counts.
LEMMA ZCounts ==
    ASSUME Types, situation' = situation, NEW i,
           \A w \in ZWorkers \ {i} : zpc'[w] = zpc[w] /\ status'[w] = status[w]
    PROVE  /\ TakenCount \in Nat /\ TakenCount' \in Nat
           /\ \A label : CountAt(label) \in Nat /\ CountAt(label)' \in Nat
           /\ i \in ZWorkers =>
                 /\ TakenCount' + One(status[i] = 1) = TakenCount + One(status'[i] = 1)
                 /\ \A label : CountAt(label)' + One(zpc[i] = label)
                                = CountAt(label) + One(zpc'[i] = label)
           /\ i \notin ZWorkers =>
                 /\ TakenCount' = TakenCount
                 /\ \A label : CountAt(label)' = CountAt(label)
<1>1. ZWorkers' = ZWorkers /\ IsFiniteSet(ZWorkers)
  BY Pools DEF ZWorkers, poolSize2, Types
<1>2. /\ TakenCount \in Nat /\ TakenCount' \in Nat
      /\ i \in ZWorkers =>
            TakenCount' + One(status[i] = 1) = TakenCount + One(status'[i] = 1)
      /\ i \notin ZWorkers => TakenCount' = TakenCount
  <2>1. Taken \in SUBSET ZWorkers /\ Taken' \in SUBSET ZWorkers
    BY <1>1 DEF Taken
  <2>2. \A v \in ZWorkers \ {i} : v \in Taken <=> v \in Taken'
    BY <1>1 DEF Taken
  <2>3. /\ Cardinality(Taken) \in Nat /\ Cardinality(Taken') \in Nat
        /\ Cardinality(Taken') + One(i \in Taken) = Cardinality(Taken) + One(i \in Taken')
    BY <1>1, <2>1, <2>2, CountChange
  <2>4. i \in ZWorkers => (i \in Taken <=> status[i] = 1) /\ (i \in Taken' <=> status'[i] = 1)
    BY <1>1 DEF Taken
  <2>5. i \notin ZWorkers => i \notin Taken /\ i \notin Taken'
    BY <2>1
  <2>6. QED BY <2>3, <2>4, <2>5 DEF One, TakenCount
<1>3. ASSUME NEW label
      PROVE  /\ CountAt(label) \in Nat /\ CountAt(label)' \in Nat
             /\ i \in ZWorkers => CountAt(label)' + One(zpc[i] = label)
                                    = CountAt(label) + One(zpc'[i] = label)
             /\ i \notin ZWorkers => CountAt(label)' = CountAt(label)
  <2> DEFINE A == At(label)
             B == {w \in ZWorkers : zpc'[w] = label}
  <2>0. CountAt(label) = Cardinality(A) /\ CountAt(label)' = Cardinality(B)
    BY <1>1 DEF CountAt, At
  <2>1. A \in SUBSET ZWorkers /\ B \in SUBSET ZWorkers
    BY DEF At
  <2>2. \A v \in ZWorkers \ {i} : v \in A <=> v \in B
    BY DEF At
  <2>3. /\ i \in ZWorkers => (i \in A <=> zpc[i] = label) /\ (i \in B <=> zpc'[i] = label)
        /\ i \notin ZWorkers => i \notin A /\ i \notin B
    BY DEF At
  <2> HIDE DEF A, B
  <2>4. /\ Cardinality(A) \in Nat /\ Cardinality(B) \in Nat
        /\ Cardinality(B) + One(i \in A) = Cardinality(A) + One(i \in B)
    BY <1>1, <2>1, <2>2, CountChange
  <2>5. QED BY <2>0, <2>3, <2>4 DEF One
<1>4. QED BY <1>2, <1>3

LEMMA PayingChange ==
    ASSUME Types, situation' = situation, NEW i,
           \A w \in ZWorkers \ {i} : zpc'[w] = zpc[w] /\ status'[w] = status[w]
    PROVE  /\ PayingCount \in Nat /\ PayingCount' \in Nat
           /\ i \in ZWorkers => PayingCount' + One(zpc[i] \in PayLabels)
                                 = PayingCount + One(zpc'[i] \in PayLabels)
           /\ i \notin ZWorkers => PayingCount' = PayingCount
<1> DEFINE H == CountAt("postHandled")
           W == CountAt("waitLast")
<1>1. /\ H \in Nat /\ H' \in Nat /\ W \in Nat /\ W' \in Nat
      /\ i \notin ZWorkers => H' = H /\ W' = W
  BY ZCounts
<1>2. PayingCount = H + W /\ PayingCount' = H' + W'
  BY DEF PayingCount
<1>3. ASSUME i \in ZWorkers
      PROVE  /\ H' + One(zpc[i] = "postHandled") = H + One(zpc'[i] = "postHandled")
             /\ W' + One(zpc[i] = "waitLast") = W + One(zpc'[i] = "waitLast")
  BY <1>3, ZCounts
<1>4. ASSUME NEW h \in Nat, NEW hNext \in Nat, NEW w \in Nat, NEW wNext \in Nat,
             h = H, hNext = H', w = W, wNext = W'
      PROVE  /\ PayingCount \in Nat /\ PayingCount' \in Nat
             /\ i \in ZWorkers => PayingCount' + One(zpc[i] \in PayLabels)
                                   = PayingCount + One(zpc'[i] \in PayLabels)
             /\ i \notin ZWorkers => PayingCount' = PayingCount
  <2>1. PayingCount = h + w /\ PayingCount' = hNext + wNext
    BY <1>2, <1>4
  <2>2. i \notin ZWorkers => hNext = h /\ wNext = w
    BY <1>1, <1>4
  <2>3. ASSUME i \in ZWorkers
        PROVE  /\ hNext + One(zpc[i] = "postHandled") = h + One(zpc'[i] = "postHandled")
               /\ wNext + One(zpc[i] = "waitLast") = w + One(zpc'[i] = "waitLast")
    BY <1>3, <1>4, <2>3
  <2> HIDE DEF H, W
  <2>4. ASSUME i \in ZWorkers
        PROVE  (hNext + wNext) + One(zpc[i] \in PayLabels) = (h + w) + One(zpc'[i] \in PayLabels)
    BY <2>3, <2>4 DEF One, PayLabels
  <2>5. QED BY <2>1, <2>2, <2>4
<1>5. QED BY <1>1, <1>4

\* AdmitsZ with the counts named.
Admits ==
    /\ \A w \in ZWorkers : Runs(w) => status[w] = 1
    /\ zpc[0] = "wake" => status[zindex] = 1 /\ ~ Runs(zindex)
    /\ zpc[0] \in {"read", "postCommon", "copy", "scan"} => last < poolSize2
    /\ last <= poolSize2
    /\ TakenCount + CountAt("waitCommon") + PayingCount <= last
    /\ TakenCount + CountAt("waitCommon") + One(zpc[0] \in {"copy", "scan"}) <= sharedSema
    /\ sharedSema + PayingCount
          <= IF zpc[0] \in {"look", "read", "postCommon", "wake"} THEN last
             ELSE IF zpc[0] \in {"copy", "scan"} THEN last + 1 ELSE poolSize2
    /\ ScanFindsWorker

LEMMA AdmitsNamed == (AdmitsZ <=> Admits) /\ (AdmitsZ' <=> Admits')
  BY DEF AdmitsZ, Admits, TakenCount, CountAt, Paying, PayingCount

LEMMA AdmitsZStays ==
    ASSUME AdmitsZ, UNCHANGED <<situation, zpc, stopped, status, last, sharedSema, zindex>>
    PROVE  AdmitsZ'
  BY DEF AdmitsZ, Taken, At, Paying, Runs, ScanFindsWorker, ZWorkers, poolSize2

\* The scan begins with a worker that is free.
LEMMA SomeoneIsFree ==
    ASSUME Types, TakenCount < poolSize2
    PROVE  \E w \in 1 .. poolSize2 : status[w] = 0
<1>1. /\ IsFiniteSet(ZWorkers) /\ Cardinality(ZWorkers) = poolSize2 /\ poolSize2 \in Nat
      /\ ZWorkers = 1 .. poolSize2
  BY Pools DEF Types, ZWorkers
<1>2. Taken # ZWorkers
  BY <1>1 DEF TakenCount
<1>3. PICK w \in ZWorkers : status[w] # 1
  BY <1>2 DEF Taken
<1>4. QED BY <1>1, <1>3 DEF Types, ZTypes

LEMMA ZMoves ==
    ASSUME Types, NEW i \in ZProcs, ZOwnStep(i)
    PROVE  /\ UNCHANGED <<situation, poolSize2, ZWorkers, ZProcs>>
           /\ 0 \in ZProcs /\ ZWorkers = ZProcs \ {0} /\ ZWorkers = 1 .. poolSize2
           /\ poolSize2 \in Nat /\ poolSize2 > 0
           /\ zpc \in [ZProcs -> ZParentLabels \union ZWorkerLabels \union Leaving]
           /\ stopped \subseteq ZWorkers /\ status \in [ZWorkers -> {0, 1}]
           /\ last \in Nat /\ sharedSema \in Nat
           /\ \A w \in ZProcs \ {i} : zpc'[w] = zpc[w]
<1>1. situation' = situation
  BY DEF ZOwnStep, ZStep
<1>2. /\ 0 \in ZProcs /\ ZWorkers = ZProcs \ {0} /\ ZWorkers = 1 .. poolSize2
      /\ poolSize2 \in Nat /\ poolSize2 > 0
      /\ zpc \in [ZProcs -> ZParentLabels \union ZWorkerLabels \union Leaving]
      /\ stopped \subseteq ZWorkers /\ status \in [ZWorkers -> {0, 1}]
      /\ last \in Nat /\ sharedSema \in Nat
  BY Pools DEF Types, ZTypes, SharedTypes, ZWorkers
<1>3. \E label : zpc' = [zpc EXCEPT ![i] = label]
  BY DEF ZOwnStep, ZStep, ZHandlerStep, ZHandlerPost, ZReadHandled, ZLeave, ZGoto,
     ZParentStep, LookLast, ReadServerP, PostCommon, CopyToSlot, ScanStatus, Continue,
     ZWorkerStep, TakeSlot, ZOpenFifo, ZAnswer, FreeSlot, WaitCommon, PostHandled, WaitLast,
     Stop
<1>4. QED BY <1>1, <1>2, <1>3 DEF ZProcs, ZWorkers, poolSize2

LEMMA AdmitsZParent ==
    ASSUME Types, Admits, ZOwnStep(0), ZParentStep
    PROVE  Admits'
<1>0. 0 \in ZProcs
  BY Pools DEF Types
<1>1. /\ UNCHANGED <<situation, poolSize2, ZWorkers, ZProcs>>
      /\ 0 \in ZProcs /\ ZWorkers = ZProcs \ {0} /\ ZWorkers = 1 .. poolSize2
      /\ poolSize2 \in Nat /\ poolSize2 > 0
      /\ zpc \in [ZProcs -> ZParentLabels \union ZWorkerLabels \union Leaving]
      /\ stopped \subseteq ZWorkers /\ status \in [ZWorkers -> {0, 1}]
      /\ last \in Nat /\ sharedSema \in Nat
      /\ \A w \in ZWorkers : zpc'[w] = zpc[w]
  BY <1>0, ZMoves
<1>2. /\ TakenCount \in Nat /\ \A label : CountAt(label) \in Nat
      /\ \A label : CountAt(label)' = CountAt(label)
      /\ status' = status => TakenCount' = TakenCount
  <2>1. CASE status' = status
    BY <1>1, <2>1, ZCounts
  <2>2. CASE status' # status
    <3>1. zindex \in ZWorkers /\ status' = [status EXCEPT ![zindex] = 1]
      BY <2>2, <1>1 DEF ZParentStep, LookLast, ReadServerP, PostCommon, CopyToSlot, ScanStatus,
         Continue, Types, ZTypes
    <3>2. \A w \in ZWorkers \ {zindex} : zpc'[w] = zpc[w] /\ status'[w] = status[w]
      BY <1>1, <3>1
    <3>3. /\ TakenCount \in Nat
          /\ \A label : /\ CountAt(label) \in Nat /\ CountAt(label)' \in Nat
                        /\ CountAt(label)' + One(zpc[zindex] = label)
                             = CountAt(label) + One(zpc'[zindex] = label)
      BY <1>1, <3>1, <3>2, ZCounts
    <3>4. \A label : CountAt(label)' = CountAt(label)
      BY <1>1, <3>1, <3>3 DEF One
    <3>5. QED BY <2>2, <3>3, <3>4
  <2>3. QED BY <2>1, <2>2
<1> DEFINE T == TakenCount
           C == CountAt("waitCommon")
           L == PayingCount
<1>3. /\ T \in Nat /\ C \in Nat /\ L \in Nat /\ C' = C /\ L' = L
      /\ status' = status => T' = T
  BY <1>2 DEF PayingCount
<1> HIDE DEF T, C, L
<1> USE DEF ZGoto
<1>4. CASE LookLast
  <2>1. /\ zpc[0] = "look" /\ zpc'[0] = "read" /\ last < poolSize2
        /\ UNCHANGED <<stopped, status, last, sharedSema, zindex>>
    BY <1>1, <1>4 DEF LookLast
  <2>2. \A w \in ZWorkers : Runs(w)' => status'[w] = 1
    BY <1>1, <2>1 DEF Admits, Runs
  <2>3. QED BY <1>1, <1>3, <2>1, <2>2 DEF Admits, ScanFindsWorker, One, T, C, L
<1>5. CASE ReadServerP
  <2>1. /\ zpc[0] = "read" /\ zpc'[0] = "postCommon"
        /\ UNCHANGED <<stopped, status, last, sharedSema, zindex>>
    BY <1>1, <1>5 DEF ReadServerP
  <2>2. \A w \in ZWorkers : Runs(w)' => status'[w] = 1
    BY <1>1, <2>1 DEF Admits, Runs
  <2>3. QED BY <1>1, <1>3, <2>1, <2>2 DEF Admits, ScanFindsWorker, One, T, C, L
<1>10. CASE PostCommon
  <2>1. /\ zpc[0] = "postCommon" /\ zpc'[0] = "copy" /\ sharedSema' = sharedSema + 1
        /\ UNCHANGED <<stopped, status, last, zindex>>
    BY <1>1, <1>10 DEF PostCommon
  <2>2. \A w \in ZWorkers : Runs(w)' => status'[w] = 1
    BY <1>1, <2>1 DEF Admits, Runs
  <2>3. QED BY <1>1, <1>3, <2>1, <2>2 DEF Admits, ScanFindsWorker, One, T, C, L
<1>6. CASE CopyToSlot
  <2>1. /\ zpc[0] = "copy" /\ zpc'[0] = "scan" /\ zindex' = 1
        /\ UNCHANGED <<stopped, status, last, sharedSema>>
    BY <1>1, <1>6 DEF CopyToSlot
  <2>2. \A w \in ZWorkers : Runs(w)' => status'[w] = 1
    BY <1>1, <2>1 DEF Admits, Runs
  <2>3. T < poolSize2
    BY <1>1, <1>3, <2>1 DEF Admits, T, C, L
  <2>4. ScanFindsWorker'
    BY <1>1, <2>1, <2>3, SomeoneIsFree DEF ScanFindsWorker, T
  <2>5. QED BY <1>1, <1>3, <2>1, <2>2, <2>4 DEF Admits, One, T, C, L
<1>7. CASE ScanStatus
  <2>0. zpc[0] = "scan" /\ zindex \in ZWorkers /\ UNCHANGED <<stopped, sharedSema>>
    BY <1>7 DEF ScanStatus, Types, ZTypes
  <2>1. CASE status[zindex] = 0
    <3>1. /\ last' = last + 1 /\ status' = [status EXCEPT ![zindex] = 1]
          /\ zpc'[0] = "wake" /\ zindex' = zindex
      BY <1>1, <1>7, <2>1 DEF ScanStatus
    <3>2. T' = T + 1
      <4>1. \A w \in ZWorkers \ {zindex} : zpc'[w] = zpc[w] /\ status'[w] = status[w]
        BY <1>1, <2>0, <3>1
      <4>2. T \in Nat /\ T' \in Nat
            /\ T' + One(status[zindex] = 1) = T + One(status'[zindex] = 1)
        BY <1>1, <2>0, <4>1, ZCounts DEF T
      <4>3. status[zindex] # 1 /\ status'[zindex] = 1
        BY <1>1, <2>0, <2>1, <3>1
      <4>4. One(status[zindex] = 1) = 0 /\ One(status'[zindex] = 1) = 1
        BY <4>3 DEF One
      <4>5. QED BY <4>2, <4>4
    <3>3. \A w \in ZWorkers : Runs(w)' => status'[w] = 1
      BY <1>1, <2>0, <3>1 DEF Admits, Runs
    <3>4. status'[zindex] = 1 /\ ~ Runs(zindex)'
      BY <1>1, <2>0, <2>1, <3>1 DEF Admits, Runs
    <3>5. (zpc[0] = "wake" => status[zindex] = 1 /\ ~ Runs(zindex))'
      BY <3>1, <3>4 DEF Runs
    <3>6. QED
      BY <1>1, <1>3, <2>0, <3>1, <3>2, <3>3, <3>5 DEF Admits, ScanFindsWorker, One, T, C, L
  <2>2. CASE status[zindex] # 0
    <3>0. PICK w \in zindex .. poolSize2 : status[w] = 0
      BY <2>0 DEF Admits, ScanFindsWorker
    <3>1. zindex < poolSize2 /\ w \in zindex + 1 .. poolSize2
      BY <1>1, <2>0, <2>2, <3>0
    <3>2. /\ zpc'[0] = "scan" /\ zindex' = zindex + 1 /\ UNCHANGED <<last, status>>
      BY <1>1, <1>7, <2>2, <3>1 DEF ScanStatus
    <3>3. \A v \in ZWorkers : Runs(v)' => status'[v] = 1
      BY <1>1, <2>0, <3>2 DEF Admits, Runs
    <3>4. ScanFindsWorker'
      BY <1>1, <3>0, <3>1, <3>2 DEF ScanFindsWorker
    <3>5. QED BY <1>1, <1>3, <2>0, <3>2, <3>3, <3>4 DEF Admits, One, T, C, L
  <2>3. QED BY <2>1, <2>2
<1>8. CASE Continue
  <2>1. /\ zpc[0] = "wake" /\ zpc'[0] = "look" /\ stopped' = stopped \ {zindex}
        /\ UNCHANGED <<status, last, sharedSema, zindex>>
    BY <1>1, <1>8 DEF Continue
  <2>2. \A w \in ZWorkers : Runs(w)' => status'[w] = 1
    BY <1>1, <2>1 DEF Admits, Runs
  <2>3. QED BY <1>1, <1>3, <2>1, <2>2 DEF Admits, ScanFindsWorker, One, T, C, L
<1>9. QED BY <1>4, <1>5, <1>6, <1>7, <1>8, <1>10 DEF ZParentStep

LEMMA AdmitsZWorker ==
    ASSUME Types, Admits, NEW i \in ZWorkers, ZOwnStep(i), ZWorkerStep(i) \/ ZHandlerStep(i)
    PROVE  Admits'
<1>0. i \in ZProcs
  BY Pools DEF Types
<1>1. /\ UNCHANGED <<situation, poolSize2, ZWorkers, ZProcs>>
      /\ 0 \in ZProcs /\ ZWorkers = ZProcs \ {0} /\ ZWorkers = 1 .. poolSize2
      /\ poolSize2 \in Nat /\ poolSize2 > 0
      /\ zpc \in [ZProcs -> ZParentLabels \union ZWorkerLabels \union Leaving]
      /\ stopped \subseteq ZWorkers /\ status \in [ZWorkers -> {0, 1}]
      /\ last \in Nat /\ sharedSema \in Nat
      /\ \A w \in ZProcs \ {i} : zpc'[w] = zpc[w]
  BY <1>0, ZMoves
<1>2. /\ status' = status \/ (zpc[i] = "free" /\ status' = [status EXCEPT ![i] = 0])
      /\ zindex' = zindex
  BY DEF ZWorkerStep, TakeSlot, ZOpenFifo, ZAnswer, FreeSlot, WaitCommon, PostHandled,
     WaitLast, Stop, ZHandlerStep, ZHandlerPost, ZReadHandled, ZLeave
<1>3. \A w \in ZWorkers \ {i} : zpc'[w] = zpc[w] /\ status'[w] = status[w]
  BY <1>1, <1>2
<1> DEFINE T == TakenCount
           C == CountAt("waitCommon")
           L == PayingCount
<1>4. /\ T \in Nat /\ C \in Nat /\ L \in Nat /\ T' \in Nat /\ C' \in Nat /\ L' \in Nat
      /\ T' + One(status[i] = 1) = T + One(status'[i] = 1)
      /\ C' + One(zpc[i] = "waitCommon") = C + One(zpc'[i] = "waitCommon")
      /\ L' + One(zpc[i] \in PayLabels) = L + One(zpc'[i] \in PayLabels)
  BY <1>1, <1>3, ZCounts, PayingChange
<1> HIDE DEF T, C, L
<1>5. zpc'[0] = zpc[0]
  BY <1>1
\* It is enough that the step keeps what concerns worker i and the counts.
<1>6. ASSUME Runs(i)' => status'[i] = 1,
             status'[i] = status[i] \/ (zpc[i] = "free" /\ status'[i] = 0),
             Runs(i)' => Runs(i),
             \A w \in ZWorkers : w \in stopped' => w \in stopped \/ w = i,
             \A w \in ZWorkers : w \in stopped => w \in stopped',
             last' \in Nat, sharedSema' \in Nat, last' <= last,
             T' + C' + L' <= last',
             T' + C' + One(zpc[0] \in {"copy", "scan"}) <= sharedSema',
             sharedSema' + L' <= IF zpc[0] \in {"look", "read", "postCommon", "wake"} THEN last'
                 ELSE IF zpc[0] \in {"copy", "scan"} THEN last' + 1 ELSE poolSize2
      PROVE  Admits'
  <2>1. \A w \in ZWorkers : Runs(w)' => status'[w] = 1
    BY <1>3, <1>6 DEF Admits, Runs
  <2>2. zpc[0] = "wake" => status'[zindex] = 1 /\ ~ Runs(zindex)'
    <3> SUFFICES ASSUME zpc[0] = "wake" PROVE status'[zindex] = 1 /\ ~ Runs(zindex)'
      OBVIOUS
    <3>1. zindex \in ZWorkers /\ status[zindex] = 1 /\ ~ Runs(zindex)
      BY DEF Types, ZTypes, Admits
    <3>2. CASE zindex = i
      BY <1>2, <1>6, <3>1, <3>2 DEF Runs
    <3>3. CASE zindex # i
      BY <1>2, <1>3, <1>6, <3>1, <3>3 DEF Runs
    <3>4. QED BY <3>2, <3>3
  <2>3. (zpc[0] = "wake" => status[zindex] = 1 /\ ~ Runs(zindex))'
    BY <1>2, <1>5, <2>2 DEF Runs
  <2>4. ScanFindsWorker'
    <3> SUFFICES ASSUME zpc[0] = "scan" PROVE \E w \in zindex .. poolSize2 : status'[w] = 0
      BY <1>1, <1>2, <1>5 DEF ScanFindsWorker
    <3>1. PICK w \in zindex .. poolSize2 : status[w] = 0
      BY DEF Admits, ScanFindsWorker
    <3>2. w \in ZWorkers
      BY <1>1, <3>1 DEF Types, ZTypes
    <3>3. status'[w] = 0
      BY <1>3, <1>6, <3>1, <3>2
    <3>4. QED BY <3>1, <3>3
  <2>5. /\ zpc[0] \in {"read", "postCommon", "copy", "scan"} => last' < poolSize2
        /\ last' <= poolSize2
    BY <1>1, <1>6 DEF Admits
  <2>6. QED BY <1>1, <1>5, <1>6, <2>1, <2>3, <2>4, <2>5 DEF Admits, T, C, L
<1>7. /\ T + C + L <= last /\ T + C + One(zpc[0] \in {"copy", "scan"}) <= sharedSema
      /\ sharedSema + L <= IF zpc[0] \in {"look", "read", "postCommon", "wake"} THEN last
                           ELSE IF zpc[0] \in {"copy", "scan"} THEN last + 1 ELSE poolSize2
      /\ last <= poolSize2 /\ (Runs(i) => status[i] = 1)
  BY DEF Admits, T, C, L
<1> USE DEF ZGoto
<1>8. CASE ZWorkerStep(i)
  <2>0. i \notin stopped
    BY <1>8 DEF ZWorkerStep
  <2>1. CASE TakeSlot(i) \/ ZOpenFifo(i) \/ ZAnswer(i)
    <3>1. /\ UNCHANGED <<stopped, status, last, sharedSema>>
          /\ zpc[i] \in {"slot", "open", "answer"}
          /\ zpc'[i] \in {"open", "answer", "free", "dead"}
      BY <1>1, <2>1 DEF TakeSlot, ZOpenFifo, ZAnswer
    <3>2. T' = T /\ C' = C /\ L' = L
      <4>1. /\ zpc[i] # "waitCommon" /\ zpc'[i] # "waitCommon"
            /\ zpc[i] \notin PayLabels /\ zpc'[i] \notin PayLabels /\ status'[i] = status[i]
        BY <3>1 DEF PayLabels
      <4>2. /\ One(status[i] = 1) = One(status'[i] = 1)
            /\ One(zpc[i] = "waitCommon") = 0 /\ One(zpc'[i] = "waitCommon") = 0
            /\ One(zpc[i] \in PayLabels) = 0 /\ One(zpc'[i] \in PayLabels) = 0
            /\ One(status[i] = 1) \in Nat
        BY <4>1 DEF One
      <4>3. QED BY <1>4, <4>2
    <3>3. Runs(i)
      BY <2>0, <3>1 DEF Runs
    <3>4. QED BY <1>1, <1>6, <1>7, <3>1, <3>2, <3>3
  <2>2. CASE FreeSlot(i)
    <3>1. /\ UNCHANGED <<stopped, last, sharedSema>>
          /\ status' = [status EXCEPT ![i] = 0]
          /\ zpc[i] = "free" /\ zpc'[i] = "waitCommon"
      BY <1>1, <2>2 DEF FreeSlot
    <3>2. status[i] = 1 /\ status'[i] = 0 /\ ~ Runs(i)'
      BY <1>1, <1>7, <3>1 DEF Runs
    <3>3. T' = T - 1 /\ C' = C + 1 /\ L' = L
      <4>1. /\ One(status[i] = 1) = 1 /\ One(status'[i] = 1) = 0
            /\ One(zpc[i] = "waitCommon") = 0 /\ One(zpc'[i] = "waitCommon") = 1
            /\ One(zpc[i] \in PayLabels) = 0 /\ One(zpc'[i] \in PayLabels) = 0
        BY <3>1, <3>2 DEF One, PayLabels
      <4>2. QED BY <1>4, <4>1
    <3>4. QED BY <1>1, <1>4, <1>6, <1>7, <3>1, <3>2, <3>3 DEF One
  <2>3. CASE WaitCommon(i)
    <3>1. /\ UNCHANGED <<stopped, last, status>> /\ sharedSema > 0
          /\ sharedSema' = sharedSema - 1
          /\ zpc[i] = "waitCommon" /\ zpc'[i] = "postHandled"
      BY <1>1, <2>3 DEF WaitCommon
    <3>2. T' = T /\ C' = C - 1 /\ L' = L + 1 /\ ~ Runs(i)'
      <4>1. /\ zpc[i] = "waitCommon" /\ zpc'[i] # "waitCommon"
            /\ zpc[i] \notin PayLabels /\ zpc'[i] \in PayLabels /\ status'[i] = status[i]
        BY <3>1 DEF PayLabels
      <4>2. /\ One(status[i] = 1) = One(status'[i] = 1)
            /\ One(zpc[i] = "waitCommon") = 1 /\ One(zpc'[i] = "waitCommon") = 0
            /\ One(zpc[i] \in PayLabels) = 0 /\ One(zpc'[i] \in PayLabels) = 1
            /\ One(status[i] = 1) \in Nat
        BY <4>1 DEF One
      <4>3. ~ Runs(i)'
        BY <3>1 DEF Runs
      <4>4. QED BY <1>4, <4>2, <4>3
    <3>3. QED BY <1>1, <1>4, <1>6, <1>7, <3>1, <3>2 DEF One
  <2>4. CASE WaitLast(i)
    <3>1. /\ UNCHANGED <<stopped, sharedSema, status>> /\ last > 0 /\ last' = last - 1
          /\ zpc[i] = "waitLast" /\ zpc'[i] = "stop"
      BY <1>1, <2>4 DEF WaitLast
    <3>2. T' = T /\ C' = C /\ L' = L - 1 /\ ~ Runs(i)'
      <4>1. /\ zpc[i] # "waitCommon" /\ zpc'[i] # "waitCommon"
            /\ zpc[i] \in PayLabels /\ zpc'[i] \notin PayLabels /\ status'[i] = status[i]
        BY <3>1 DEF PayLabels
      <4>2. /\ One(status[i] = 1) = One(status'[i] = 1)
            /\ One(zpc[i] = "waitCommon") = 0 /\ One(zpc'[i] = "waitCommon") = 0
            /\ One(zpc[i] \in PayLabels) = 1 /\ One(zpc'[i] \in PayLabels) = 0
            /\ One(status[i] = 1) \in Nat
        BY <4>1 DEF One
      <4>3. ~ Runs(i)'
        BY <3>1 DEF Runs
      <4>4. T' = T
        BY <1>4, <4>2
      <4>5. C' = C
        BY <1>4, <4>2
      <4>6. L' = L - 1
        BY <1>4, <4>2
      <4>7. QED BY <4>3, <4>4, <4>5, <4>6
    <3>3. QED BY <1>1, <1>4, <1>6, <1>7, <3>1, <3>2 DEF One
  <2>5. CASE Stop(i)
    <3>1. /\ UNCHANGED <<last, sharedSema, status>> /\ stopped' = stopped \union {i}
          /\ zpc[i] = "stop" /\ zpc'[i] = "slot"
      BY <1>1, <2>5 DEF Stop
    <3>2. T' = T /\ C' = C /\ L' = L /\ ~ Runs(i)'
      <4>1. /\ zpc[i] # "waitCommon" /\ zpc'[i] # "waitCommon"
            /\ zpc[i] \notin PayLabels /\ zpc'[i] \notin PayLabels /\ status'[i] = status[i]
        BY <3>1 DEF PayLabels
      <4>2. /\ One(status[i] = 1) = One(status'[i] = 1)
            /\ One(zpc[i] = "waitCommon") = 0 /\ One(zpc'[i] = "waitCommon") = 0
            /\ One(zpc[i] \in PayLabels) = 0 /\ One(zpc'[i] \in PayLabels) = 0
            /\ One(status[i] = 1) \in Nat
        BY <4>1 DEF One
      <4>3. ~ Runs(i)'
        BY <3>1 DEF Runs
      <4>4. QED BY <1>4, <4>2, <4>3
    <3>3. QED BY <1>1, <1>4, <1>6, <1>7, <3>1, <3>2
  <2>6. CASE PostHandled(i)
    <3>1. /\ UNCHANGED <<stopped, last, sharedSema, status>>
          /\ zpc[i] = "postHandled" /\ zpc'[i] = "waitLast"
      BY <1>1, <2>6 DEF PostHandled
    <3>2. T' = T /\ C' = C /\ L' = L /\ ~ Runs(i)'
      <4>1. /\ One(status[i] = 1) = One(status'[i] = 1)
            /\ One(zpc[i] = "waitCommon") = 0 /\ One(zpc'[i] = "waitCommon") = 0
            /\ One(zpc[i] \in PayLabels) = 1 /\ One(zpc'[i] \in PayLabels) = 1
            /\ One(status[i] = 1) \in Nat
        BY <3>1 DEF One, PayLabels
      <4>2. ~ Runs(i)'
        BY <3>1 DEF Runs
      <4>3. QED BY <1>4, <4>1, <4>2
    <3>3. QED BY <1>1, <1>4, <1>6, <1>7, <3>1, <3>2
  <2>7. QED BY <1>8, <2>1, <2>2, <2>3, <2>4, <2>5, <2>6 DEF ZWorkerStep
<1>9. CASE ZHandlerStep(i)
  <2>1. UNCHANGED <<stopped, status, last, sharedSema>> /\ zpc'[i] \in Leaving
    BY <1>1, <1>9 DEF ZHandlerStep, ZHandlerPost, ZReadHandled, ZLeave, Leaving
  <2>2. ~ Runs(i)'
    BY <2>1 DEF Runs, Leaving
  <2>3. /\ One(zpc'[i] = "waitCommon") = 0 /\ One(zpc'[i] \in PayLabels) = 0
        /\ One(zpc[i] = "waitCommon") \in {0, 1} /\ One(zpc[i] \in PayLabels) \in {0, 1}
        /\ One(status[i] = 1) = One(status'[i] = 1) /\ One(status[i] = 1) \in Nat
    BY <2>1 DEF One, PayLabels, Leaving
  <2>4. T' = T
    BY <1>4, <2>3
  <2>5. C' = C \/ C' = C - 1
    BY <1>4, <2>3
  <2>6. L' = L \/ L' = L - 1
    BY <1>4, <2>3
  <2>7. T' + C' + L' <= last
    <3>1. T + C + L <= last /\ last \in Nat
      BY <1>1, <1>7
    <3>2. T \in Nat /\ C \in Nat /\ L \in Nat
      BY <1>4
    <3>3. QED BY <2>4, <2>5, <2>6, <3>1, <3>2
  <2>8. T' + C' + One(zpc[0] \in {"copy", "scan"}) <= sharedSema
    <3>1. T + C + One(zpc[0] \in {"copy", "scan"}) <= sharedSema
          /\ sharedSema \in Nat /\ One(zpc[0] \in {"copy", "scan"}) \in Nat
      BY <1>1, <1>7 DEF One
    <3>2. T \in Nat /\ C \in Nat
      BY <1>4
    <3>3. QED BY <2>4, <2>5, <3>1, <3>2
  <2>9. sharedSema + L' <= IF zpc[0] \in {"look", "read", "postCommon", "wake"} THEN last
                           ELSE IF zpc[0] \in {"copy", "scan"} THEN last + 1 ELSE poolSize2
    <3>1. L \in Nat /\ last \in Nat /\ sharedSema \in Nat /\ poolSize2 \in Nat
      BY <1>1, <1>4
    <3>2. QED BY <1>7, <2>6, <3>1
  <2>10. QED BY <1>1, <1>6, <2>1, <2>2, <2>7, <2>8, <2>9
<1>10. QED BY <1>8, <1>9

LEMMA AdmitsZLeaving ==
    ASSUME Types, Admits, ZOwnStep(0), ZHandlerStep(0)
    PROVE  Admits'
<1>0. 0 \in ZProcs
  BY Pools DEF Types
<1>1. /\ UNCHANGED <<situation, poolSize2, ZWorkers>>
      /\ ZWorkers = ZProcs \ {0} /\ ZWorkers = 1 .. poolSize2 /\ poolSize2 \in Nat
      /\ zpc \in [ZProcs -> ZParentLabels \union ZWorkerLabels \union Leaving]
      /\ last \in Nat /\ sharedSema \in Nat
      /\ \A w \in ZWorkers : zpc'[w] = zpc[w]
  BY <1>0, ZMoves
<1>2. UNCHANGED <<stopped, status, last, sharedSema, zindex>> /\ zpc'[0] \in Leaving
  BY <1>0, <1>1 DEF ZHandlerStep, ZHandlerPost, ZReadHandled, ZLeave, ZGoto, Leaving
<1> DEFINE T == TakenCount
           C == CountAt("waitCommon")
           L == PayingCount
<1>3. /\ T \in Nat /\ C \in Nat /\ L \in Nat /\ T' = T /\ C' = C /\ L' = L
  BY <1>1, <1>2, ZCounts, PayingChange
<1> HIDE DEF T, C, L
<1>4. /\ T + C + L <= last /\ T + C + One(zpc[0] \in {"copy", "scan"}) <= sharedSema
      /\ sharedSema + L <= IF zpc[0] \in {"look", "read", "postCommon", "wake"} THEN last
                           ELSE IF zpc[0] \in {"copy", "scan"} THEN last + 1 ELSE poolSize2
      /\ last <= poolSize2 /\ (zpc[0] \in {"copy", "scan"} => last < poolSize2)
  BY DEF Admits, T, C, L
<1>5. T' + C' + One(zpc'[0] \in {"copy", "scan"}) <= sharedSema
  <2>1. One(zpc'[0] \in {"copy", "scan"}) = 0 /\ One(zpc[0] \in {"copy", "scan"}) \in Nat
    BY <1>2 DEF One, Leaving
  <2>2. QED BY <1>1, <1>3, <1>4, <2>1
<1>6. sharedSema + L' <= poolSize2
  <2>1. CASE zpc[0] \in {"look", "read", "postCommon", "wake"}
    BY <1>1, <1>3, <1>4, <2>1
  <2>2. CASE zpc[0] \in {"copy", "scan"}
    BY <1>1, <1>3, <1>4, <2>2
  <2>3. QED BY <1>3, <1>4, <2>1, <2>2
<1>7. \A w \in ZWorkers : Runs(w)' => status'[w] = 1
  BY <1>1, <1>2 DEF Admits, Runs
<1>8. T' + C' + L' <= last'
  BY <1>2, <1>3, <1>4
<1>9. QED
  BY <1>1, <1>2, <1>4, <1>5, <1>6, <1>7, <1>8
     DEF Admits, ScanFindsWorker, Leaving, T, C, L

LEMMA AdmitsZSteps ==
    ASSUME Types, AdmitsZ, NEW i \in ZProcs, ZOwnStep(i)
    PROVE  AdmitsZ'
<1>1. ZWorkers = ZProcs \ {0}
  BY Pools DEF Types
<1>2. Admits /\ (Admits' => AdmitsZ')
  BY AdmitsNamed
<1>3. CASE i = 0
  BY <1>2, <1>3, AdmitsZParent, AdmitsZLeaving DEF ZOwnStep, ZStep
<1>4. CASE i # 0
  <2>1. i \in ZWorkers
    BY <1>1, <1>4
  <2>2. QED BY <1>2, <1>4, <2>1, AdmitsZWorker DEF ZOwnStep, ZStep
<1>5. QED BY <1>3, <1>4

\* CountersInv is inductive.
LEMMA CountersInductive ==
    Types /\ AdmitsY /\ AdmitsZ /\ [Next]_vars => (AdmitsY /\ AdmitsZ)'
<1> SUFFICES ASSUME Types, AdmitsY, AdmitsZ, [Next]_vars PROVE AdmitsY' /\ AdmitsZ'
  OBVIOUS
<1>1. ASSUME NEW i \in YProcs, YOwnStep(i) PROVE AdmitsY' /\ AdmitsZ'
  <2>1. UNCHANGED <<situation, zVars, sharedSema>>
    BY <1>1 DEF YOwnStep, YStep, YHandlerStep, YHandlerPost, YReadHandled, YLeave,
       YParentStep, LookA, LookB, ReadRequest, PostSema, WriteP, Forward,
       YWorkerStep, TakeRequest, OpenFifo, Answer, WaitSema
  <2>2. QED BY <1>1, <2>1, AdmitsYSteps, AdmitsZStays DEF zVars
<1>2. ASSUME NEW i \in ZProcs, ZOwnStep(i) PROVE AdmitsY' /\ AdmitsZ'
  <2>1. UNCHANGED <<situation, yVars, pendingY>>
    BY <1>2 DEF ZOwnStep, ZStep
  <2>2. QED BY <1>2, <2>1, AdmitsZSteps, AdmitsYStays DEF yVars
<1>3. ASSUME NEW c \in Clients, ClientStep(c) \/ ClientKilled(c) PROVE AdmitsY' /\ AdmitsZ'
  BY <1>3, AdmitsYStays, AdmitsZStays DEF ClientStep, ClientKilled, yVars, zVars
<1>4. CASE CtrlC \/ KillParent
  <2>1. UNCHANGED <<situation, sharedSema, yVars, zVars>> /\ pendingY' # {}
    BY <1>4, Pools DEF CtrlC, KillParent, Types
  <2>2. AdmitsZ'
    BY <2>1, AdmitsZStays DEF zVars
  <2>3. QED BY <2>1, <2>2 DEF AdmitsY, yVars, poolSize
<1>5. CASE UNCHANGED vars
  BY <1>5, AdmitsYStays, AdmitsZStays DEF vars, yVars, zVars
<1>6. QED
  BY <1>1, <1>2, <1>3, <1>4, <1>5 DEF Next, Handler, YOwnStep, ZOwnStep

LEMMA CountersInitially == Init => AdmitsY /\ AdmitsZ
<1> SUFFICES ASSUME Init PROVE AdmitsY /\ AdmitsZ
  OBVIOUS
<1>1. Types
  BY TypesInitially
<1>2. AdmitsY
  <2>1. YWorkers = YProcs \ {0} /\ 0 \in YProcs /\ Cardinality(YWorkers) = poolSize
        /\ poolSize \in Nat
    BY <1>1, Pools DEF Types
  <2>2. IdleY = YWorkers
    BY <2>1 DEF Init, YInit, IdleY
  <2>3. QED BY <2>1, <2>2 DEF Init, SharedInit, YInit, AdmitsY, InHandler, One
<1>3. AdmitsZ
  <2>1. ZWorkers = ZProcs \ {0} /\ 0 \in ZProcs /\ poolSize2 \in Nat
    BY <1>1, Pools DEF Types
  <2>2. /\ Taken = {} /\ At("waitCommon") = {}
        /\ At("postHandled") = {} /\ At("waitLast") = {}
    BY <2>1 DEF Init, ZInit, Taken, At
  <2>3. Cardinality({}) = 0
    BY FS_EmptySet
  <2>4. TakenCount = 0 /\ CountAt("waitCommon") = 0 /\ PayingCount = 0
    BY <2>2, <2>3 DEF TakenCount, CountAt, PayingCount
  <2>5. \A w \in ZWorkers : ~ Runs(w)
    BY <2>1 DEF Init, ZInit, Runs
  <2>6. last = 0 /\ sharedSema = 0 /\ zpc[0] = "look"
    BY <2>1 DEF Init, SharedInit, ZInit
  <2>7. Admits
    BY <2>1, <2>4, <2>5, <2>6 DEF Admits, ScanFindsWorker, One
  <2>8. QED BY <2>7, AdmitsNamed
<1>4. QED BY <1>2, <1>3

LEMMA CountersInvariant == Spec => []CountersInv
<1>1. Types /\ AdmitsY /\ AdmitsZ => CountersInv
  BY TypesTogether DEF CountersInv
<1>2. QED
  BY <1>1, PipelineTypes, CountersInitially, CountersInductive, PTL DEF Spec

(***************************************************************************)
(* For pools of any size and any number of clients, with signals at any    *)
(* moment and workers that die with their counters raised, the counters    *)
(* of serverY and serverZ mean what they are taken to mean: a request that *)
(* is admitted finds room in a pool, a free worker and its semaphores.     *)
(***************************************************************************)
THEOREM CountersMeanWhatTheySay == Spec => []CountersHold
<1>1. CountersInv => CountersHold
  <2> SUFFICES ASSUME CountersInv PROVE CountersHold
    OBVIOUS
  <2>1. TypeOK /\ Types
    BY TypesTogether DEF CountersInv
  <2>2. /\ poolSize \in Nat /\ IsFiniteSet(YWorkers) /\ IsFiniteSet(ZWorkers)
        /\ sema \in Nat /\ p \in Seq(Clients) /\ poolSize2 \in Nat
        /\ last \in Nat /\ sharedSema \in Nat
    BY <2>1, Pools DEF Types, YTypes, ZTypes, SharedTypes
  <2>3. OwnPoolHasRoom
    <3>1. Cardinality(IdleY) \in Nat
      BY <2>2, CountSubset DEF IdleY
    <3>2. QED BY <2>2, <3>1 DEF CountersInv, AdmitsY, OwnPoolHasRoom, One
  <2>4. /\ Cardinality(Taken) \in Nat
        /\ \A l : Cardinality(At(l)) \in Nat /\ \A w \in At(l) : Cardinality(At(l)) > 0
    BY <2>2, CountSubset DEF Taken, At
  <2>5. One(zpc[0] \in {"copy", "scan"}) \in Nat
    BY DEF One
  <2>6. NoWaitForEver
    <3>1. ASSUME NEW w \in ZWorkers, zpc[w] = "waitCommon" PROVE sharedSema > 0
      <4>1. Cardinality(At("waitCommon")) > 0
        BY <2>4, <3>1 DEF At
      <4>2. QED BY <2>2, <2>4, <2>5, <4>1 DEF CountersInv, AdmitsZ
    <3>2. ASSUME NEW w \in ZWorkers, zpc[w] = "waitLast" PROVE last > 0
      <4>1. Cardinality(At("waitLast")) > 0
        BY <2>4, <3>2 DEF At
      <4>2. QED BY <2>2, <2>4, <4>1 DEF CountersInv, AdmitsZ, Paying
    <3>3. QED BY <3>1, <3>2 DEF NoWaitForEver
  <2>7. sharedSema <= poolSize2
    <3>1. Paying \in Nat
      BY <2>4 DEF Paying
    <3>2. QED
      BY <2>2, <3>1 DEF CountersInv, AdmitsZ
  <2>8. QED
    BY <2>1, <2>3, <2>6, <2>7 DEF CountersInv, AdmitsY, AdmitsZ, CountersHold, CountersInPools
<1>2. QED BY <1>1, CountersInvariant, PTL
-----------------------------------------------------------------------------
(***************************************************************************)
(* The totals.                                                             *)
(***************************************************************************)
\* One process takes a step in the handler, to it or outside it.
LEMMA OneStillWrites ==
    ASSUME NEW P, NEW a, NEW b, NEW m \in Nat, NEW n \in Nat, NEW S,
           NEW s \in Seq(S), NEW t \in Seq(S), NEW i \in P,
           OneWrites(P, a, m, s),
           \A j \in P \ {i} : b[j] = a[j],
           \/ a[i] \notin InHandler /\ b[i] \notin InHandler /\ m = n /\ s = t
           \/ a[i] \notin InHandler /\ b[i] = "posted" /\ n = m + 1 /\ s = t
           \/ a[i] = "posted" /\ m = 1 /\ b[i] = "totals" /\ m = n /\ s = t
           \/ a[i] = "posted" /\ b[i] = "dead" /\ m = n /\ s = t
           \/ a[i] = "totals" /\ b[i] = "dead" /\ m = n /\ \E x \in S : t = Append(s, x)
    PROVE  OneWrites(P, b, n, t)
<1>0. Len(s) \in Nat /\ Len(t) \in Nat /\ InHandler = {"posted", "totals"}
  BY DEF InHandler
<1>1. /\ \A j \in P : a[j] \in InHandler => m >= 1 + Len(s)
      /\ \A j, k \in P : a[j] \in InHandler /\ a[k] \in InHandler /\ j # k => m >= 2
      /\ \A j, k \in P : a[j] = "totals" /\ a[k] = "totals" => j = k
      /\ \A j \in P : a[j] = "totals" => Len(s) = 0
      /\ Len(s) <= 1 /\ Len(s) <= m
  BY DEF OneWrites
<1>2. ASSUME /\ \A j \in P : b[j] \in InHandler => n >= 1 + Len(t)
             /\ \A j, k \in P : b[j] \in InHandler /\ b[k] \in InHandler /\ j # k => n >= 2
             /\ \A j, k \in P : b[j] = "totals" /\ b[k] = "totals" => j = k
             /\ \A j \in P : b[j] = "totals" => Len(t) = 0
             /\ Len(t) <= 1 /\ Len(t) <= n
      PROVE  OneWrites(P, b, n, t)
  BY <1>2 DEF OneWrites
<1>3. CASE b[i] \notin InHandler /\ m = n /\ s = t
  <2>1. \A j \in P : b[j] \in InHandler => j # i /\ a[j] = b[j]
    BY <1>3
  <2>2. QED BY <1>0, <1>1, <1>2, <1>3, <2>1
<1>4. CASE a[i] \notin InHandler /\ b[i] = "posted" /\ n = m + 1 /\ s = t
  <2>1. \A j \in P : j = i \/ a[j] = b[j]
    OBVIOUS
  <2>2. \A j \in P : b[j] \in InHandler => n >= 1 + Len(t)
    BY <1>0, <1>1, <1>4, <2>1
  <2>3. \A j, k \in P : b[j] \in InHandler /\ b[k] \in InHandler /\ j # k => n >= 2
    BY <1>0, <1>1, <1>4, <2>1
  <2>4. \A j \in P : b[j] = "totals" => j # i /\ a[j] = "totals"
    BY <1>4, <2>1
  <2>5. QED BY <1>0, <1>1, <1>2, <1>4, <2>2, <2>3, <2>4
<1>5. CASE a[i] = "posted" /\ m = 1 /\ b[i] = "totals" /\ m = n /\ s = t
  <2>1. Len(s) = 0
    BY <1>0, <1>1, <1>5
  <2>2. \A j \in P : j # i => a[j] \notin InHandler
    BY <1>0, <1>1, <1>5
  <2>3. \A j \in P : b[j] \in InHandler => j = i
    BY <2>2
  <2>4. QED BY <1>0, <1>2, <1>5, <2>1, <2>3
<1>6. CASE a[i] = "totals" /\ b[i] = "dead" /\ m = n /\ \E x \in S : t = Append(s, x)
  <2>1. Len(s) = 0 /\ Len(t) = 1 /\ m >= 1
    BY <1>0, <1>1, <1>6
  <2>2. \A j \in P : b[j] \in InHandler => j # i /\ a[j] = b[j]
    BY <1>0, <1>6
  <2>3. \A j \in P : b[j] # "totals"
    BY <1>0, <1>1, <1>6, <2>2
  <2>4. \A j \in P : b[j] \in InHandler => n >= 2
    BY <1>0, <1>1, <1>6, <2>2
  <2>5. QED BY <1>0, <1>2, <1>6, <2>1, <2>3, <2>4
<1>7. QED BY <1>0, <1>3, <1>4, <1>5, <1>6

BusyCount == Cardinality(BusyY)

TotalsOfY ==
    /\ totalsY \in Seq([handled : Nat, forwarded : Nat])
    /\ yhandled \in 0 .. handledSemaphore
    /\ OneWrites(YProcs, ypc, sigintSemaphore, totalsY)
    /\ handledSemaphore + forwardedSemaphore + Len(serverFifo) + Len(p)
          + One(ypc[0] \in {"post", "writeP", "forward"}) + BusyCount
          <= Submitted
    /\ \A k \in 1 .. Len(totalsY) :
          totalsY[k].handled + totalsY[k].forwarded <= Submitted

TotalsOfZ ==
    /\ totalsZ \in Seq([handled : Nat, inverted : Nat])
    /\ zhandled \in 0 .. handledZ
    /\ OneWrites(ZProcs, zpc, sigintSemaphoreZ, totalsZ)
    /\ handledZ + CountAt("free") + CountAt("waitCommon") + CountAt("postHandled")
          <= invertedSemaphore
    /\ \A k \in 1 .. Len(totalsZ) : totalsZ[k].handled <= totalsZ[k].inverted

LEMMA TotalsTogether == TotalsInv <=> TotalsOfY /\ TotalsOfZ
<1>1. TotalsOfY /\ TotalsOfZ => TotalsTruthful
  BY DEF TotalsOfY, TotalsOfZ, OneWrites, TotalsTruthful
<1>2. QED
  BY <1>1 DEF TotalsInv, TotalsOfY, TotalsOfZ, BusyCount, CountAt, TotalsTruthful

LEMMA BusyChange ==
    ASSUME Types, situation' = situation, NEW i,
           \A w \in YWorkers \ {i} : ypc'[w] = ypc[w]
    PROVE  /\ BusyCount \in Nat /\ BusyCount' \in Nat
           /\ i \in YWorkers => BusyCount' + One(ypc[i] \in {"open", "answer"})
                                 = BusyCount + One(ypc'[i] \in {"open", "answer"})
           /\ i \notin YWorkers => BusyCount' = BusyCount
<1>1. YWorkers' = YWorkers /\ IsFiniteSet(YWorkers)
  BY Pools DEF YWorkers, poolSize, Types
<1>2. BusyY \in SUBSET YWorkers /\ BusyY' \in SUBSET YWorkers
  BY <1>1 DEF BusyY
<1>3. \A v \in YWorkers \ {i} : v \in BusyY <=> v \in BusyY'
  BY <1>1 DEF BusyY
<1>4. /\ Cardinality(BusyY) \in Nat /\ Cardinality(BusyY') \in Nat
      /\ Cardinality(BusyY') + One(i \in BusyY) = Cardinality(BusyY) + One(i \in BusyY')
  BY <1>1, <1>2, <1>3, CountChange
<1>5. i \in YWorkers => /\ i \in BusyY <=> ypc[i] \in {"open", "answer"}
                        /\ i \in BusyY' <=> ypc'[i] \in {"open", "answer"}
  BY <1>1 DEF BusyY
<1>6. i \notin YWorkers => i \notin BusyY /\ i \notin BusyY'
  BY <1>2
<1>7. QED BY <1>4, <1>5, <1>6 DEF One, BusyCount

\* Nobody but a client that submits changes the number of submitted requests.
LEMMA SubmittedChange ==
    ASSUME Types, NEW c \in Clients, \A d \in Clients \ {c} : cpc'[d] = cpc[d]
    PROVE  /\ Submitted \in Nat /\ Submitted' \in Nat
           /\ Submitted' + One(cpc[c] \notin {"absent", "new"})
                = Submitted + One(cpc'[c] \notin {"absent", "new"})
<1> DEFINE A == {d \in Clients : cpc[d] \notin {"absent", "new"}}
           B == {d \in Clients : cpc'[d] \notin {"absent", "new"}}
<1>1. IsFiniteSet(Clients) /\ A \in SUBSET Clients /\ B \in SUBSET Clients
  BY Pools DEF Types
<1>2. \A d \in Clients \ {c} : d \in A <=> d \in B
  OBVIOUS
<1>3. (c \in A <=> cpc[c] \notin {"absent", "new"}) /\ (c \in B <=> cpc'[c] \notin {"absent", "new"})
  OBVIOUS
<1>4. Submitted = Cardinality(A) /\ Submitted' = Cardinality(B)
  BY DEF Submitted
<1> HIDE DEF A, B
<1>5. /\ Cardinality(A) \in Nat /\ Cardinality(B) \in Nat
      /\ Cardinality(B) + One(c \in A) = Cardinality(A) + One(c \in B)
  BY <1>1, <1>2, CountChange
<1>6. QED BY <1>3, <1>4, <1>5 DEF One

\* The step of a process of serverY as OneStillWrites sees it.
LEMMA YWrites ==
    ASSUME Types, TotalsOfY, NEW i \in YProcs, YOwnStep(i)
    PROVE  /\ OneWrites(YProcs, ypc, sigintSemaphore, totalsY)'
           /\ totalsY' \in Seq([handled : Nat, forwarded : Nat])
           /\ yhandled' \in 0 .. handledSemaphore \/ yhandled' = yhandled
           /\ totalsY' = totalsY \/ totalsY' = Append(totalsY, [handled |-> yhandled,
                                                 forwarded |-> forwardedSemaphore])
<1>1. YProcs' = YProcs
  BY DEF YOwnStep, YStep, YProcs, poolSize
<1>2. /\ ypc \in [YProcs -> YParentLabels \union YWorkerLabels \union Leaving]
      /\ sigintSemaphore \in Nat /\ totalsY \in Seq([handled : Nat, forwarded : Nat])
      /\ handledSemaphore \in Nat /\ forwardedSemaphore \in Nat /\ yhandled \in Nat
      /\ yhandled \in 0 .. handledSemaphore
      /\ OneWrites(YProcs, ypc, sigintSemaphore, totalsY)
  BY DEF Types, YTypes, TotalsOfY
<1> DEFINE R == [handled : Nat, forwarded : Nat]
           r == [handled |-> yhandled, forwarded |-> forwardedSemaphore]
<1>3. r \in R
  BY <1>2
<1>4. CASE YStep(i)
  <2>1. \E label \in YParentLabels \union YWorkerLabels \union {"dead"} :
            ypc' = [ypc EXCEPT ![i] = label]
    BY <1>4 DEF YStep, YGoto, YParentStep, LookA, LookB, ReadRequest, PostSema, WriteP,
       Forward, YWorkerStep, TakeRequest, OpenFifo, Answer, WaitSema, YParentLabels,
       YWorkerLabels
  <2>2. ypc[i] \notin InHandler /\ UNCHANGED <<sigintSemaphore, totalsY, yhandled>>
    BY <1>4 DEF YStep, YParentStep, LookA, LookB, ReadRequest, PostSema, WriteP,
       Forward, YWorkerStep, TakeRequest, OpenFifo, Answer, WaitSema
  <2>3. ypc'[i] \notin InHandler /\ \A j \in YProcs \ {i} : ypc'[j] = ypc[j]
    BY <1>2, <2>1 DEF InHandler, YParentLabels, YWorkerLabels
  <2>4. OneWrites(YProcs, ypc', sigintSemaphore', totalsY')
    BY <1>2, <2>2, <2>3, OneStillWrites
  <2>5. QED BY <1>1, <1>2, <2>2, <2>4
<1>5. CASE YHandlerStep(i)
  <2>1. /\ \A j \in YProcs \ {i} : ypc'[j] = ypc[j]
        /\ \/ /\ ypc[i] \notin InHandler /\ ypc'[i] = "posted"
              /\ sigintSemaphore' = sigintSemaphore + 1 /\ UNCHANGED <<totalsY, yhandled>>
           \/ /\ ypc[i] = "posted" /\ sigintSemaphore = 1 /\ ypc'[i] = "totals"
              /\ UNCHANGED <<sigintSemaphore, totalsY>> /\ yhandled' = handledSemaphore
           \/ /\ ypc[i] = "posted" /\ ypc'[i] = "dead"
              /\ UNCHANGED <<sigintSemaphore, totalsY, yhandled>>
           \/ /\ ypc[i] = "totals" /\ ypc'[i] = "dead" /\ totalsY' = Append(totalsY, r)
              /\ UNCHANGED <<sigintSemaphore, yhandled>>
    BY <1>2, <1>5 DEF YHandlerStep, YHandlerPost, YReadHandled, YLeave, YGoto
  <2>2. Append(totalsY, r) \in Seq(R)
    BY <1>2, <1>3, AppendProperties
  <2> HIDE DEF R, r
  <2>3. totalsY' \in Seq(R)
    <3>1. totalsY \in Seq(R) /\ (totalsY' = totalsY \/ totalsY' = Append(totalsY, r))
      BY <1>2, <2>1 DEF R
    <3>2. QED BY <2>2, <3>1
  <2>4. sigintSemaphore' \in Nat /\ OneWrites(YProcs, ypc', sigintSemaphore', totalsY')
    <3>1. totalsY \in Seq(R) /\ sigintSemaphore \in Nat
          /\ OneWrites(YProcs, ypc, sigintSemaphore, totalsY)
      BY <1>2 DEF R
    <3>2. CASE /\ ypc[i] \notin InHandler /\ ypc'[i] = "posted"
               /\ sigintSemaphore' = sigintSemaphore + 1 /\ totalsY' = totalsY
      BY <2>1, <2>3, <3>1, <3>2, OneStillWrites
    <3>3. CASE /\ ypc[i] = "posted" /\ sigintSemaphore = 1 /\ ypc'[i] = "totals"
               /\ UNCHANGED <<sigintSemaphore, totalsY>>
      BY <2>1, <2>3, <3>1, <3>3, OneStillWrites
    <3>4. CASE /\ ypc[i] = "posted" /\ ypc'[i] = "dead"
               /\ UNCHANGED <<sigintSemaphore, totalsY>>
      BY <2>1, <2>3, <3>1, <3>4, OneStillWrites
    <3>5. CASE /\ ypc[i] = "totals" /\ ypc'[i] = "dead" /\ totalsY' = Append(totalsY, r)
               /\ sigintSemaphore' = sigintSemaphore
      BY <1>3, <2>1, <2>3, <3>1, <3>5, OneStillWrites
    <3>6. QED BY <2>1, <3>2, <3>3, <3>4, <3>5
  <2>5. yhandled' \in 0 .. handledSemaphore \/ yhandled' = yhandled
    BY <1>2, <2>1
  <2>6. QED BY <1>1, <2>1, <2>3, <2>4, <2>5 DEF R, r
<1>6. QED BY <1>4, <1>5 DEF YOwnStep

LEMMA TotalsYSteps ==
    ASSUME Types, TotalsOfY, NEW i \in YProcs, YOwnStep(i)
    PROVE  TotalsOfY'
<1>1. situation' = situation /\ YProcs' = YProcs
  BY DEF YOwnStep, YStep, YProcs, poolSize
<1>2. /\ 0 \in YProcs /\ YWorkers = YProcs \ {0}
      /\ ypc \in [YProcs -> YParentLabels \union YWorkerLabels \union Leaving]
      /\ p \in Seq(Clients) /\ serverFifo \in Seq(Clients)
      /\ handledSemaphore \in Nat /\ forwardedSemaphore \in Nat
  BY Pools DEF Types, YTypes, SharedTypes
<1>3. cpc' = cpc
  BY DEF YOwnStep, YStep, YHandlerStep, YHandlerPost, YReadHandled, YLeave, clientVars,
     YParentStep, LookA, LookB, ReadRequest, PostSema, WriteP, Forward, YWorkerStep,
     TakeRequest, OpenFifo, Connect, Answer, WriteAnswer, WaitSema
<1>4. Submitted \in Nat /\ Submitted' = Submitted
  <2>1. IsFiniteSet(Clients)
    BY Pools DEF Types
  <2>2. QED BY <1>3, <2>1, CountSubset DEF Submitted
<1> DEFINE Held == One(ypc[0] \in {"post", "writeP", "forward"})
           F == Len(serverFifo)
           H == handledSemaphore
           G == forwardedSemaphore
<1>5. \A w \in YProcs \ {i} : ypc'[w] = ypc[w]
  <2>1. \E label : ypc' = [ypc EXCEPT ![i] = label]
    BY DEF YOwnStep, YStep, YHandlerStep, YHandlerPost, YReadHandled, YLeave, YGoto,
       YParentStep, LookA, LookB, ReadRequest, PostSema, WriteP, Forward,
       YWorkerStep, TakeRequest, OpenFifo, Answer, WaitSema
  <2>2. QED BY <1>2, <2>1
<1>6. /\ BusyCount \in Nat /\ BusyCount' \in Nat
      /\ i \in YWorkers => BusyCount' + One(ypc[i] \in {"open", "answer"})
                            = BusyCount + One(ypc'[i] \in {"open", "answer"})
      /\ i \notin YWorkers => BusyCount' = BusyCount
  <2>1. \A w \in YWorkers \ {i} : ypc'[w] = ypc[w]
    BY <1>2, <1>5
  <2>2. QED BY <1>1, <2>1, BusyChange
<1>7. H + G + F + Len(p) + Held + BusyCount <= Submitted
  BY DEF TotalsOfY
<1>8. Held \in Nat /\ Held' \in Nat /\ F \in Nat /\ Len(p) \in Nat
  BY <1>2 DEF One
\* It is enough that no step makes the requests more than they were.
<1>9. ASSUME H' \in Nat, H' >= H,
             H' + G' + F' + Len(p)' + Held' + BusyCount' <= H + G + F + Len(p) + Held + BusyCount
      PROVE  TotalsOfY'
  <2>1. H' + G' + F' + Len(p)' + Held' + BusyCount' <= Submitted'
    <3>1. G' \in Nat /\ F' \in Nat /\ Len(p)' \in Nat
      BY SMTT(30), YStepTypes DEF Types, YTypes, SharedTypes
    <3>2. H \in Nat /\ G \in Nat
      BY <1>2
    <3> HIDE DEF H, G, F, Held
    <3>3. BusyCount \in Nat /\ BusyCount' \in Nat
      BY <1>6
    <3>4. H + G + F + Len(p) + Held + BusyCount <= Submitted
      BY <1>7
    <3>5. H' + G' + F' + Len(p)' + Held' + BusyCount' <= H + G + F + Len(p) + Held + BusyCount
      BY <1>9
    <3>6. H' \in Nat
      BY <1>9
    <3>7. H + G + F + Len(p) + Held + BusyCount \in Nat
      BY <1>8, <3>2, <3>3
    <3>8. H' + G' + F' + Len(p)' + Held' + BusyCount' \in Nat
      BY <1>8, <3>1, <3>3, <3>6
    <3>10. H' + G' + F' + Len(p)' + Held' + BusyCount' <= Submitted
      BY <1>4, <3>4, <3>5, <3>7, <3>8
    <3>11. QED BY <1>4, <3>10
  <2>2. /\ OneWrites(YProcs, ypc, sigintSemaphore, totalsY)'
        /\ totalsY' \in Seq([handled : Nat, forwarded : Nat])
        /\ yhandled' \in 0 .. H \/ yhandled' = yhandled
        /\ totalsY' = totalsY \/ totalsY' = Append(totalsY, [handled |-> yhandled, forwarded |-> G])
    BY YWrites
  <2>3. yhandled \in 0 .. H
    BY DEF TotalsOfY
  <2>4. yhandled' \in 0 .. H'
    BY <1>2, <1>9, <2>2, <2>3
  <2>5. yhandled + G <= Submitted
    BY <1>2, <1>4, <1>6, <1>7, <1>8, <2>3
  <2>6. \A k \in 1 .. Len(totalsY') :
            totalsY'[k].handled + totalsY'[k].forwarded <= Submitted
    <3>1. CASE totalsY' = totalsY
      BY <3>1 DEF TotalsOfY
    <3>2. CASE totalsY' = Append(totalsY, [handled |-> yhandled, forwarded |-> G])
      <4>1. totalsY \in Seq([handled : Nat, forwarded : Nat])
            /\ \A k \in 1 .. Len(totalsY) :
                  totalsY[k].handled + totalsY[k].forwarded <= Submitted
        BY DEF TotalsOfY
      <4>2. \A k \in 1 .. Len(totalsY') : k \in 1 .. Len(totalsY) \/ k = Len(totalsY) + 1
        BY <3>2, <4>1
      <4>3. QED BY <2>5, <3>2, <4>1, <4>2
    <3>3. QED BY <2>2, <3>1, <3>2
  <2>7. QED BY <1>4, <2>1, <2>2, <2>4, <2>6 DEF TotalsOfY
<1>10. CASE i = 0 /\ YParentStep
  <2>0. BusyCount' = BusyCount
    BY <1>2, <1>6, <1>10
  <2> USE DEF YGoto, One
  <2>1. CASE LookA \/ LookB \/ PostSema
    <3>1. UNCHANGED <<handledSemaphore, forwardedSemaphore, serverFifo, p>>
      BY <2>1 DEF LookA, LookB, PostSema, clientVars
    <3>2. Held' = Held
      BY <1>2, <2>1 DEF LookA, LookB, PostSema
    <3>3. QED BY <1>2, <1>6, <1>8, <1>9, <2>0, <3>1, <3>2
  <2>2. CASE ReadRequest
    <3>1. /\ UNCHANGED <<handledSemaphore, forwardedSemaphore, p>>
          /\ F' = F - 1 /\ Held = 0 /\ Held' = 1
      BY <1>2, <2>2 DEF ReadRequest
    <3>2. QED BY <1>2, <1>6, <1>8, <1>9, <2>0, <3>1
  <2>3. CASE WriteP
    <3>1. /\ UNCHANGED <<handledSemaphore, forwardedSemaphore, serverFifo>>
          /\ Held = 1 /\ Held' = 0
      BY <1>2, <2>3 DEF WriteP, clientVars
    <3>2. Len(p)' = Len(p) + 1
      BY <1>2, <2>3 DEF WriteP, Types, YTypes
    <3>3. QED BY <1>2, <1>6, <1>8, <1>9, <2>0, <3>1, <3>2
  <2>4. CASE Forward
    <3>1. /\ UNCHANGED <<handledSemaphore, serverFifo, p>>
          /\ forwardedSemaphore' = forwardedSemaphore + 1 /\ Held = 1 /\ Held' = 0
      BY <1>2, <2>4 DEF Forward, clientVars
    <3>2. QED BY <1>2, <1>6, <1>8, <1>9, <2>0, <3>1
  <2>5. QED BY <1>10, <2>1, <2>2, <2>3, <2>4 DEF YParentStep
<1>11. CASE i \in YWorkers /\ YWorkerStep(i)
  <2>0. /\ Held' = Held
        /\ BusyCount' + One(ypc[i] \in {"open", "answer"})
             = BusyCount + One(ypc'[i] \in {"open", "answer"})
    BY <1>2, <1>5, <1>6, <1>11
  <2> USE DEF YGoto
  <2>1. CASE TakeRequest(i)
    <3>1. /\ UNCHANGED <<handledSemaphore, forwardedSemaphore, serverFifo>>
          /\ Len(p)' = Len(p) - 1
          /\ ypc[i] = "read" /\ ypc'[i] \in {"open", "answer"}
      BY <1>2, <2>1 DEF TakeRequest, clientVars
    <3>2. BusyCount' = BusyCount + 1
      <4>1. One(ypc[i] \in {"open", "answer"}) = 0 /\ One(ypc'[i] \in {"open", "answer"}) = 1
        BY <3>1 DEF One
      <4>2. QED BY <1>6, <2>0, <4>1
    <3>3. QED BY <1>2, <1>6, <1>8, <1>9, <2>0, <3>1, <3>2
  <2>2. CASE OpenFifo(i) \/ WaitSema(i)
    <3>1. UNCHANGED <<handledSemaphore, forwardedSemaphore, serverFifo, p>>
      BY <2>2 DEF OpenFifo, Connect, WaitSema, clientVars
    <3>2. BusyCount' = BusyCount
      <4>1. One(ypc[i] \in {"open", "answer"}) = One(ypc'[i] \in {"open", "answer"})
            /\ One(ypc[i] \in {"open", "answer"}) \in Nat
        BY <1>2, <2>2 DEF OpenFifo, WaitSema, One
      <4>2. QED BY <1>6, <2>0, <4>1
    <3>3. QED BY <1>2, <1>6, <1>8, <1>9, <2>0, <3>1, <3>2
  <2>3. CASE Answer(i)
    <3>1. /\ UNCHANGED <<forwardedSemaphore, serverFifo, p>>
          /\ handledSemaphore' = handledSemaphore + 1
          /\ ypc[i] = "answer" /\ ypc'[i] \in {"release", "dead"}
      BY <1>2, <2>3 DEF Answer, WriteAnswer
    <3>2. BusyCount' = BusyCount - 1
      <4>1. One(ypc[i] \in {"open", "answer"}) = 1 /\ One(ypc'[i] \in {"open", "answer"}) = 0
        BY <3>1 DEF One
      <4>2. QED BY <1>6, <2>0, <4>1
    <3>3. QED BY <1>2, <1>6, <1>8, <1>9, <2>0, <3>1, <3>2
  <2>4. QED BY <1>11, <2>1, <2>2, <2>3 DEF YWorkerStep
<1>12. CASE YHandlerStep(i)
  <2>1. /\ UNCHANGED <<handledSemaphore, forwardedSemaphore, serverFifo, p>>
        /\ ypc'[i] \in Leaving
    BY <1>2, <1>12 DEF YHandlerStep, YHandlerPost, YReadHandled, YLeave, YGoto, clientVars,
       Leaving
  <2>2. BusyCount' = BusyCount \/ BusyCount' = BusyCount - 1
    <3>1. CASE i \in YWorkers
      <4>1. One(ypc'[i] \in {"open", "answer"}) = 0
            /\ One(ypc[i] \in {"open", "answer"}) \in {0, 1}
        BY <2>1 DEF One, Leaving
      <4>2. QED BY <1>6, <3>1, <4>1
    <3>2. CASE i \notin YWorkers
      BY <1>6, <3>2
    <3>3. QED BY <3>1, <3>2
  <2>3. Held' = Held \/ (Held = 1 /\ Held' = 0)
    BY <1>2, <1>5, <2>1 DEF One, Leaving
  <2>4. QED BY <1>2, <1>6, <1>8, <1>9, <2>1, <2>2, <2>3
<1>13. QED BY <1>2, <1>10, <1>11, <1>12 DEF YOwnStep, YStep

\* A client that submits is one more in the FIFO and one more that submitted.
LEMMA TotalsYClients ==
    ASSUME Types, TotalsOfY, NEW c \in Clients, ClientStep(c) \/ ClientKilled(c)
    PROVE  TotalsOfY'
<1>1. /\ UNCHANGED <<situation, ypc, p, forwardedSemaphore, handledSemaphore,
                     sigintSemaphore, yhandled, totalsY>>
      /\ YProcs' = YProcs /\ YWorkers' = YWorkers
  BY DEF ClientStep, ClientKilled, yVars, YProcs, YWorkers, poolSize
<1>2. BusyCount' = BusyCount
  BY <1>1 DEF BusyCount, BusyY
<1>3. /\ Submitted \in Nat /\ Submitted' \in Nat
      /\ Submitted' + One(cpc[c] \notin {"absent", "new"})
           = Submitted + One(cpc'[c] \notin {"absent", "new"})
  <2>1. \A d \in Clients \ {c} : cpc'[d] = cpc[d]
    BY DEF ClientStep, ClientKilled, Submit, ReadAnswer, Killed, Types, SharedTypes
  <2>2. QED BY <2>1, SubmittedChange
<1>4. \/ Len(serverFifo') = Len(serverFifo) + 1 /\ Submitted' = Submitted + 1
      \/ Len(serverFifo') = Len(serverFifo) /\ Submitted' = Submitted
  <2>1. CASE Submit(c)
    <3>1. cpc[c] = "new" /\ cpc'[c] = "reading"
      BY <2>1 DEF Submit, Types, SharedTypes
    <3>2. One(cpc[c] \notin {"absent", "new"}) = 0 /\ One(cpc'[c] \notin {"absent", "new"}) = 1
      BY <3>1 DEF One
    <3>3. Len(serverFifo') = Len(serverFifo) + 1
      BY <2>1 DEF Submit, Types, SharedTypes
    <3>4. QED BY <1>3, <3>2, <3>3
  <2>2. CASE ReadAnswer(c, HasWriter(c)) \/ Killed(c)
    <3>1. cpc[c] = "reading" /\ cpc'[c] \in {"gone", "killed"} /\ serverFifo' = serverFifo
      BY <2>2 DEF ReadAnswer, Killed, Types, SharedTypes
    <3>2. One(cpc[c] \notin {"absent", "new"}) = 1 /\ One(cpc'[c] \notin {"absent", "new"}) = 1
      BY <3>1 DEF One
    <3>3. QED BY <1>3, <3>1, <3>2
  <2>3. QED BY <2>1, <2>2 DEF ClientStep, ClientKilled
<1> DEFINE Rest == handledSemaphore + forwardedSemaphore
           Held == One(ypc[0] \in {"post", "writeP", "forward"})
<1>5. /\ Rest \in Nat /\ Rest' = Rest /\ Held \in Nat /\ Held' = Held
      /\ Len(p) \in Nat /\ p' = p /\ Len(serverFifo) \in Nat /\ BusyCount \in Nat
  <2>1. YWorkers \in SUBSET YProcs /\ IsFiniteSet(YWorkers)
    BY Pools DEF Types
  <2>2. BusyY \in SUBSET YWorkers
    BY DEF BusyY
  <2>3. BusyCount \in Nat
    BY <2>1, <2>2, FS_Subset, FS_CardinalityType DEF BusyCount
  <2>4. QED BY <1>1, <2>3 DEF Types, YTypes, SharedTypes, One
<1>6. Rest + Len(serverFifo) + Len(p) + Held + BusyCount <= Submitted
  BY DEF TotalsOfY
<1>7. Rest' + Len(serverFifo') + Len(p') + Held' + BusyCount' <= Submitted'
  <2> HIDE DEF Rest, Held
  <2>1. QED BY <1>2, <1>3, <1>4, <1>5, <1>6
<1>8. \A k \in 1 .. Len(totalsY) :
          totalsY[k].handled + totalsY[k].forwarded <= Submitted'
  <2>1. totalsY \in Seq([handled : Nat, forwarded : Nat])
        /\ \A k \in 1 .. Len(totalsY) :
              totalsY[k].handled + totalsY[k].forwarded <= Submitted
    BY DEF TotalsOfY
  <2>2. Submitted' = Submitted \/ Submitted' = Submitted + 1
    BY <1>4
  <2>3. \A n \in Nat : n <= Submitted => n <= Submitted'
    BY <1>3, <2>2
  <2>4. \A k \in 1 .. Len(totalsY) : totalsY[k].handled + totalsY[k].forwarded \in Nat
    <3> DEFINE R == [handled : Nat, forwarded : Nat]
    <3>1. totalsY \in Seq(R)
      BY <2>1
    <3>2. \A r \in R : r.handled + r.forwarded \in Nat
      OBVIOUS
    <3> HIDE DEF R
    <3>3. \A k \in 1 .. Len(totalsY) : totalsY[k] \in R
      BY <3>1
    <3>4. QED BY <3>2, <3>3
  <2>5. QED BY <2>1, <2>3, <2>4
<1>9. /\ OneWrites(YProcs, ypc, sigintSemaphore, totalsY)'
      /\ totalsY' \in Seq([handled : Nat, forwarded : Nat])
      /\ yhandled' \in 0 .. handledSemaphore'
  BY <1>1 DEF TotalsOfY
<1>10. QED BY <1>1, <1>7, <1>8, <1>9 DEF TotalsOfY

LEMMA TotalsYStays ==
    ASSUME TotalsOfY,
           UNCHANGED <<situation, cpc, serverFifo, ypc, p, forwardedSemaphore,
                       handledSemaphore, sigintSemaphore, yhandled, totalsY>>
    PROVE  TotalsOfY'
<1>1. BusyCount' = BusyCount /\ Submitted' = Submitted /\ YProcs' = YProcs
  BY DEF BusyCount, BusyY, Submitted, YProcs, YWorkers, poolSize
<1>2. QED BY <1>1 DEF TotalsOfY

LEMMA TotalsZStays ==
    ASSUME TotalsOfZ,
           UNCHANGED <<situation, zpc, handledZ, invertedSemaphore,
                       sigintSemaphoreZ, zhandled, totalsZ>>
    PROVE  TotalsOfZ'
<1>1. (\A label : CountAt(label)' = CountAt(label)) /\ ZProcs' = ZProcs
  BY DEF CountAt, At, ZProcs, ZWorkers, poolSize2
<1>2. QED BY <1>1 DEF TotalsOfZ

\* The step of a process of serverZ as OneStillWrites sees it.
LEMMA ZWrites ==
    ASSUME Types, TotalsOfZ, NEW i \in ZProcs, ZOwnStep(i)
    PROVE  /\ OneWrites(ZProcs, zpc, sigintSemaphoreZ, totalsZ)'
           /\ totalsZ' \in Seq([handled : Nat, inverted : Nat])
           /\ zhandled' \in 0 .. handledZ \/ zhandled' = zhandled
           /\ totalsZ' = totalsZ \/ totalsZ' = Append(totalsZ, [handled |-> zhandled,
                                                 inverted |-> invertedSemaphore])
<1>1. ZProcs' = ZProcs
  BY ZMoves
<1>2. /\ zpc \in [ZProcs -> ZParentLabels \union ZWorkerLabels \union Leaving]
      /\ sigintSemaphoreZ \in Nat /\ totalsZ \in Seq([handled : Nat, inverted : Nat])
      /\ handledZ \in Nat /\ invertedSemaphore \in Nat /\ zhandled \in Nat
      /\ zhandled \in 0 .. handledZ
      /\ OneWrites(ZProcs, zpc, sigintSemaphoreZ, totalsZ)
  BY DEF Types, ZTypes, TotalsOfZ
<1> DEFINE R == [handled : Nat, inverted : Nat]
           r == [handled |-> zhandled, inverted |-> invertedSemaphore]
<1>3. r \in R
  BY <1>2
<1>4. CASE ZStep(i)
  <2>1. \E label \in ZParentLabels \union ZWorkerLabels \union {"dead"} :
            zpc' = [zpc EXCEPT ![i] = label]
    BY <1>4 DEF ZStep, ZGoto, ZParentStep, LookLast, ReadServerP, PostCommon, CopyToSlot,
       ScanStatus, Continue, ZWorkerStep, TakeSlot, ZOpenFifo, ZAnswer, FreeSlot,
       WaitCommon, PostHandled, WaitLast, Stop, ZParentLabels, ZWorkerLabels
  <2>2. zpc[i] \notin InHandler /\ UNCHANGED <<sigintSemaphoreZ, totalsZ, zhandled>>
    BY <1>4 DEF ZStep, ZInHandler, InHandler, ZParentStep, LookLast, ReadServerP,
       PostCommon, CopyToSlot, ScanStatus, Continue, ZWorkerStep, TakeSlot, ZOpenFifo,
       ZAnswer, FreeSlot, WaitCommon, PostHandled, WaitLast, Stop
  <2>3. zpc'[i] \notin InHandler /\ \A j \in ZProcs \ {i} : zpc'[j] = zpc[j]
    BY <1>2, <2>1 DEF InHandler, ZParentLabels, ZWorkerLabels
  <2>4. OneWrites(ZProcs, zpc', sigintSemaphoreZ', totalsZ')
    BY <1>2, <2>2, <2>3, OneStillWrites
  <2>5. QED BY <1>1, <1>2, <2>2, <2>4
<1>5. CASE ZHandlerStep(i)
  <2>1. /\ \A j \in ZProcs \ {i} : zpc'[j] = zpc[j]
        /\ \/ /\ zpc[i] \notin InHandler /\ zpc'[i] = "posted"
              /\ sigintSemaphoreZ' = sigintSemaphoreZ + 1 /\ UNCHANGED <<totalsZ, zhandled>>
           \/ /\ zpc[i] = "posted" /\ sigintSemaphoreZ = 1 /\ zpc'[i] = "totals"
              /\ UNCHANGED <<sigintSemaphoreZ, totalsZ>> /\ zhandled' = handledZ
           \/ /\ zpc[i] = "posted" /\ zpc'[i] = "dead"
              /\ UNCHANGED <<sigintSemaphoreZ, totalsZ, zhandled>>
           \/ /\ zpc[i] = "totals" /\ zpc'[i] = "dead" /\ totalsZ' = Append(totalsZ, r)
              /\ UNCHANGED <<sigintSemaphoreZ, zhandled>>
    BY <1>2, <1>5 DEF ZHandlerStep, ZHandlerPost, ZReadHandled, ZLeave, ZGoto, InHandler,
       ZInHandler
  <2>2. Append(totalsZ, r) \in Seq(R)
    BY <1>2, <1>3, AppendProperties
  <2> HIDE DEF R, r
  <2>3. totalsZ' \in Seq(R)
    <3>1. totalsZ \in Seq(R) /\ (totalsZ' = totalsZ \/ totalsZ' = Append(totalsZ, r))
      BY <1>2, <2>1 DEF R
    <3>2. QED BY <2>2, <3>1
  <2>4. sigintSemaphoreZ' \in Nat /\ OneWrites(ZProcs, zpc', sigintSemaphoreZ', totalsZ')
    <3>1. totalsZ \in Seq(R) /\ sigintSemaphoreZ \in Nat
          /\ OneWrites(ZProcs, zpc, sigintSemaphoreZ, totalsZ)
      BY <1>2 DEF R
    <3>2. CASE /\ zpc[i] \notin InHandler /\ zpc'[i] = "posted"
               /\ sigintSemaphoreZ' = sigintSemaphoreZ + 1 /\ totalsZ' = totalsZ
      BY <2>1, <2>3, <3>1, <3>2, OneStillWrites
    <3>3. CASE /\ zpc[i] = "posted" /\ sigintSemaphoreZ = 1 /\ zpc'[i] = "totals"
               /\ UNCHANGED <<sigintSemaphoreZ, totalsZ>>
      BY <2>1, <2>3, <3>1, <3>3, OneStillWrites
    <3>4. CASE /\ zpc[i] = "posted" /\ zpc'[i] = "dead"
               /\ UNCHANGED <<sigintSemaphoreZ, totalsZ>>
      BY <2>1, <2>3, <3>1, <3>4, OneStillWrites
    <3>5. CASE /\ zpc[i] = "totals" /\ zpc'[i] = "dead" /\ totalsZ' = Append(totalsZ, r)
               /\ sigintSemaphoreZ' = sigintSemaphoreZ
      BY <1>3, <2>1, <2>3, <3>1, <3>5, OneStillWrites
    <3>6. QED BY <2>1, <3>2, <3>3, <3>4, <3>5
  <2>5. zhandled' \in 0 .. handledZ \/ zhandled' = zhandled
    BY <1>2, <2>1
  <2>6. QED BY <1>1, <2>1, <2>3, <2>4, <2>5 DEF R, r
<1>6. QED BY <1>4, <1>5 DEF ZOwnStep

\* The counts of workers at a label, whatever becomes of their flags.
LEMMA CountMoves ==
    ASSUME Types, ZWorkers' = ZWorkers, NEW i, NEW label,
           \A w \in ZWorkers \ {i} : zpc'[w] = zpc[w]
    PROVE  /\ CountAt(label) \in Nat /\ CountAt(label)' \in Nat
           /\ i \in ZWorkers => CountAt(label)' + One(zpc[i] = label)
                                  = CountAt(label) + One(zpc'[i] = label)
           /\ i \notin ZWorkers => CountAt(label)' = CountAt(label)
<1> DEFINE A == At(label)
           B == {w \in ZWorkers : zpc'[w] = label}
<1>0. CountAt(label) = Cardinality(A) /\ CountAt(label)' = Cardinality(B)
  BY DEF CountAt, At
<1>1. A \in SUBSET ZWorkers /\ B \in SUBSET ZWorkers /\ IsFiniteSet(ZWorkers)
  BY Pools DEF At, Types
<1>2. \A v \in ZWorkers \ {i} : v \in A <=> v \in B
  BY DEF At
<1>3. /\ i \in ZWorkers => (i \in A <=> zpc[i] = label) /\ (i \in B <=> zpc'[i] = label)
      /\ i \notin ZWorkers => i \notin A /\ i \notin B
  BY DEF At
<1> HIDE DEF A, B
<1>4. /\ Cardinality(A) \in Nat /\ Cardinality(B) \in Nat
      /\ Cardinality(B) + One(i \in A) = Cardinality(A) + One(i \in B)
  BY <1>1, <1>2, CountChange
<1>5. QED BY <1>0, <1>3, <1>4 DEF One

\* What a worker counts as invertible it has counted before it is counted as handled.
LEMMA TotalsZSteps ==
    ASSUME Types, TotalsOfZ, NEW i \in ZProcs, ZOwnStep(i)
    PROVE  TotalsOfZ'
<1>0. Types'
  BY ZStepTypes
<1>1. /\ UNCHANGED <<situation, ZWorkers, ZProcs>>
      /\ 0 \in ZProcs /\ ZWorkers = ZProcs \ {0}
      /\ zpc \in [ZProcs -> ZParentLabels \union ZWorkerLabels \union Leaving]
      /\ \A w \in ZProcs \ {i} : zpc'[w] = zpc[w]
  BY ZMoves
<1> DEFINE I == invertedSemaphore
           H == handledZ
           F == CountAt("free")
           C == CountAt("waitCommon")
           P == CountAt("postHandled")
<1>2. H \in Nat /\ I \in Nat /\ H' \in Nat /\ I' \in Nat
  BY <1>0 DEF Types, ZTypes
<1>3. /\ F \in Nat /\ C \in Nat /\ P \in Nat
      /\ F' \in Nat /\ C' \in Nat /\ P' \in Nat
  BY <1>1, CountMoves
<1>4. /\ i \in ZWorkers => /\ F' + One(zpc[i] = "free") = F + One(zpc'[i] = "free")
                           /\ C' + One(zpc[i] = "waitCommon") = C + One(zpc'[i] = "waitCommon")
                           /\ P' + One(zpc[i] = "postHandled") = P + One(zpc'[i] = "postHandled")
      /\ i \notin ZWorkers => F' = F /\ C' = C /\ P' = P
  BY <1>0, <1>1, CountMoves
<1>5. H + F + C + P <= I
  BY DEF TotalsOfZ
<1>6. ASSUME H' = H \/ H' = H + 1, I' = I \/ I' = I + 1, H' + F' + C' + P' <= I'
      PROVE  TotalsOfZ'
  <2>1. /\ OneWrites(ZProcs, zpc, sigintSemaphoreZ, totalsZ)'
        /\ totalsZ' \in Seq([handled : Nat, inverted : Nat])
        /\ zhandled' \in 0 .. H \/ zhandled' = zhandled
        /\ totalsZ' = totalsZ \/ totalsZ' = Append(totalsZ, [handled |-> zhandled, inverted |-> I])
    BY ZWrites
  <2>2. zhandled \in 0 .. H
    BY DEF TotalsOfZ
  <2>3. zhandled' \in 0 .. H'
    BY <1>2, <1>6, <2>1, <2>2
  <2>4. zhandled <= I
    BY <1>2, <1>3, <1>5, <2>2
  <2>5. \A k \in 1 .. Len(totalsZ') : totalsZ'[k].handled <= totalsZ'[k].inverted
    <3>1. CASE totalsZ' = totalsZ
      BY <3>1 DEF TotalsOfZ
    <3>2. CASE totalsZ' = Append(totalsZ, [handled |-> zhandled, inverted |-> I])
      <4>1. totalsZ \in Seq([handled : Nat, inverted : Nat])
            /\ \A k \in 1 .. Len(totalsZ) : totalsZ[k].handled <= totalsZ[k].inverted
        BY DEF TotalsOfZ
      <4>2. \A k \in 1 .. Len(totalsZ') : k \in 1 .. Len(totalsZ) \/ k = Len(totalsZ) + 1
        BY <3>2, <4>1
      <4>3. QED BY <2>4, <3>2, <4>1, <4>2
    <3>3. QED BY <2>1, <3>1, <3>2
  <2>6. QED BY <1>6, <2>1, <2>3, <2>5 DEF TotalsOfZ
<1>7. CASE i = 0 /\ ZParentStep
  <2>1. UNCHANGED <<handledZ, invertedSemaphore>>
    BY <1>7 DEF ZParentStep, LookLast, ReadServerP, PostCommon, CopyToSlot, ScanStatus, Continue
  <2>2. QED BY <1>1, <1>4, <1>5, <1>6, <1>7, <2>1
<1>8. CASE i \in ZWorkers /\ ZWorkerStep(i)
  <2>0. /\ F' + One(zpc[i] = "free") = F + One(zpc'[i] = "free")
        /\ C' + One(zpc[i] = "waitCommon") = C + One(zpc'[i] = "waitCommon")
        /\ P' + One(zpc[i] = "postHandled") = P + One(zpc'[i] = "postHandled")
    BY <1>4, <1>8
  <2> USE DEF ZGoto
  <2>1. CASE TakeSlot(i) \/ ZOpenFifo(i) \/ WaitLast(i) \/ Stop(i)
    <3>1. UNCHANGED <<handledZ, invertedSemaphore>>
      BY <2>1 DEF TakeSlot, ZOpenFifo, WaitLast, Stop
    <3>2. /\ One(zpc[i] = "free") = 0 /\ One(zpc'[i] = "free") = 0
          /\ One(zpc[i] = "waitCommon") = 0 /\ One(zpc'[i] = "waitCommon") = 0
          /\ One(zpc[i] = "postHandled") = 0 /\ One(zpc'[i] = "postHandled") = 0
      BY <1>1, <2>1 DEF TakeSlot, ZOpenFifo, WaitLast, Stop, One
    <3>3. F' = F /\ C' = C /\ P' = P
      BY <1>3, <2>0, <3>2
    <3>4. QED BY <1>5, <1>6, <3>1, <3>3
  <2>2. CASE ZAnswer(i)
    <3>1. handledZ' = handledZ /\ invertedSemaphore' = invertedSemaphore + 1
      BY <2>2 DEF ZAnswer
    <3>2. /\ One(zpc[i] = "free") = 0 /\ One(zpc'[i] = "free") \in {0, 1}
          /\ One(zpc[i] = "waitCommon") = 0 /\ One(zpc'[i] = "waitCommon") = 0
          /\ One(zpc[i] = "postHandled") = 0 /\ One(zpc'[i] = "postHandled") = 0
      BY <1>1, <2>2 DEF ZAnswer, One
    <3>3. (F' = F \/ F' = F + 1) /\ C' = C /\ P' = P
      BY <1>3, <2>0, <3>2
    <3>4. QED BY <1>2, <1>3, <1>5, <1>6, <3>1, <3>3
  <2>3. CASE FreeSlot(i)
    <3>1. UNCHANGED <<handledZ, invertedSemaphore>>
      BY <2>3 DEF FreeSlot
    <3>2. /\ One(zpc[i] = "free") = 1 /\ One(zpc'[i] = "free") = 0
          /\ One(zpc[i] = "waitCommon") = 0 /\ One(zpc'[i] = "waitCommon") = 1
          /\ One(zpc[i] = "postHandled") = 0 /\ One(zpc'[i] = "postHandled") = 0
      BY <1>1, <2>3 DEF FreeSlot, One
    <3>3. F' = F - 1 /\ C' = C + 1 /\ P' = P
      BY <1>3, <2>0, <3>2
    <3>4. QED BY <1>2, <1>3, <1>5, <1>6, <3>1, <3>3
  <2>4. CASE WaitCommon(i)
    <3>1. UNCHANGED <<handledZ, invertedSemaphore>>
      BY <2>4 DEF WaitCommon
    <3>2. /\ One(zpc[i] = "free") = 0 /\ One(zpc'[i] = "free") = 0
          /\ One(zpc[i] = "waitCommon") = 1 /\ One(zpc'[i] = "waitCommon") = 0
          /\ One(zpc[i] = "postHandled") = 0 /\ One(zpc'[i] = "postHandled") = 1
      BY <1>1, <2>4 DEF WaitCommon, One
    <3>3. F' = F /\ C' = C - 1 /\ P' = P + 1
      BY <1>3, <2>0, <3>2
    <3>4. QED BY <1>2, <1>3, <1>5, <1>6, <3>1, <3>3
  <2>5. CASE PostHandled(i)
    <3>1. handledZ' = handledZ + 1 /\ invertedSemaphore' = invertedSemaphore
      BY <2>5 DEF PostHandled
    <3>2. /\ One(zpc[i] = "free") = 0 /\ One(zpc'[i] = "free") = 0
          /\ One(zpc[i] = "waitCommon") = 0 /\ One(zpc'[i] = "waitCommon") = 0
          /\ One(zpc[i] = "postHandled") = 1 /\ One(zpc'[i] = "postHandled") = 0
      BY <1>1, <2>5 DEF PostHandled, One
    <3>3. F' = F /\ C' = C /\ P' = P - 1
      BY <1>3, <2>0, <3>2
    <3>4. QED BY <1>2, <1>3, <1>5, <1>6, <3>1, <3>3
  <2>6. QED BY <1>8, <2>1, <2>2, <2>3, <2>4, <2>5 DEF ZWorkerStep
<1>9. CASE ZHandlerStep(i)
  <2>1. UNCHANGED <<handledZ, invertedSemaphore>> /\ zpc'[i] \in Leaving
    BY <1>1, <1>9 DEF ZHandlerStep, ZHandlerPost, ZReadHandled, ZLeave, ZGoto, Leaving
  <2>2. /\ One(zpc'[i] = "free") = 0 /\ One(zpc[i] = "free") \in {0, 1}
        /\ One(zpc'[i] = "waitCommon") = 0 /\ One(zpc[i] = "waitCommon") \in {0, 1}
        /\ One(zpc'[i] = "postHandled") = 0 /\ One(zpc[i] = "postHandled") \in {0, 1}
    BY <2>1 DEF One, Leaving
  <2>3. /\ F' = F \/ F' = F - 1
        /\ C' = C \/ C' = C - 1
        /\ P' = P \/ P' = P - 1
    BY <1>3, <1>4, <2>2
  <2>4. QED BY <1>2, <1>3, <1>5, <1>6, <2>1, <2>3
<1>10. QED BY <1>1, <1>7, <1>8, <1>9 DEF ZOwnStep, ZStep

LEMMA TotalsInitially == Init => TotalsOfY /\ TotalsOfZ
<1> SUFFICES ASSUME Init PROVE TotalsOfY /\ TotalsOfZ
  OBVIOUS
<1>1. situation \in Situations /\ YWorkers = YProcs \ {0} /\ ZWorkers = ZProcs \ {0}
      /\ 0 \in YProcs /\ 0 \in ZProcs
  BY Pools DEF Init, SharedInit
<1>2. /\ BusyY = {} /\ At("free") = {}
      /\ At("waitCommon") = {} /\ At("postHandled") = {}
  BY <1>1 DEF Init, YInit, ZInit, BusyY, At
<1>3. {c \in Clients : cpc[c] \notin {"absent", "new"}} = {}
  BY DEF Init, SharedInit
<1>4. /\ BusyCount = 0 /\ Submitted = 0 /\ CountAt("free") = 0
      /\ CountAt("waitCommon") = 0 /\ CountAt("postHandled") = 0
  BY <1>2, <1>3, FS_EmptySet DEF BusyCount, CountAt, Submitted
<1>5. /\ OneWrites(YProcs, ypc, sigintSemaphore, totalsY)
      /\ OneWrites(ZProcs, zpc, sigintSemaphoreZ, totalsZ)
  BY DEF Init, YInit, ZInit, OneWrites, InHandler
<1>6. One(ypc[0] \in {"post", "writeP", "forward"}) = 0
  BY <1>1 DEF Init, YInit, One
<1>7. QED BY <1>4, <1>5, <1>6 DEF TotalsOfY, TotalsOfZ, Init, SharedInit, YInit, ZInit

LEMMA TotalsInductive ==
    ASSUME Types, TotalsOfY, TotalsOfZ, [Next]_vars
    PROVE  TotalsOfY' /\ TotalsOfZ'
<1>1. CASE UNCHANGED vars
  BY <1>1, TotalsYStays, TotalsZStays DEF vars, clientVars, yVars, zVars
<1>2. ASSUME NEW c \in Clients, ClientStep(c) \/ ClientKilled(c)
      PROVE  TotalsOfY' /\ TotalsOfZ'
  BY <1>2, TotalsYClients, TotalsZStays DEF ClientStep, ClientKilled, zVars
<1>3. ASSUME NEW i \in YProcs, YOwnStep(i)
      PROVE  TotalsOfY' /\ TotalsOfZ'
  BY <1>3, TotalsYSteps, TotalsZStays DEF YOwnStep, YStep, zVars
<1>4. ASSUME NEW i \in ZProcs, ZOwnStep(i)
      PROVE  TotalsOfY' /\ TotalsOfZ'
  <2>1. UNCHANGED <<situation, cpc, serverFifo, yVars>>
    BY <1>4 DEF ZOwnStep, ZStep, ZHandlerStep, ZHandlerPost, ZReadHandled, ZLeave, clientVars,
       ZParentStep, LookLast, ReadServerP, PostCommon, CopyToSlot, ScanStatus, Continue,
       ZWorkerStep, TakeSlot, ZOpenFifo, Connect, ZAnswer, WriteAnswer, FreeSlot,
       WaitCommon, PostHandled, WaitLast, Stop
  <2>2. QED BY <1>4, <2>1, TotalsZSteps, TotalsYStays DEF yVars
<1>5. CASE CtrlC \/ KillParent
  BY <1>5, TotalsYStays, TotalsZStays DEF CtrlC, KillParent, clientVars, yVars, zVars
<1>6. QED BY <1>1, <1>2, <1>3, <1>4, <1>5 DEF Next, Handler, YOwnStep, ZOwnStep

LEMMA TotalsInvariant == Spec => []TotalsInv
<1>1. Init => TotalsOfY /\ TotalsOfZ
  BY TotalsInitially
<1>2. Types /\ TotalsOfY /\ TotalsOfZ /\ [Next]_vars => (TotalsOfY /\ TotalsOfZ)'
  BY TotalsInductive
<1>3. QED BY <1>1, <1>2, PipelineTypes, TotalsTogether, PTL DEF Spec

(***************************************************************************)
(* Each server writes its totals at most once, serverY's never claim more  *)
(* requests than clients submitted, and serverZ's never more handled than  *)
(* invertible ones, although each total is read piece by piece while the   *)
(* workers count on.                                                       *)
(***************************************************************************)
THEOREM TotalsAreTruthful == Spec => []TotalsTruthful
<1>1. TotalsInv => TotalsTruthful
  BY DEF TotalsInv
<1>2. QED BY <1>1, TotalsInvariant, PTL
-----------------------------------------------------------------------------
(***************************************************************************)
(* Where a request is: how often a client is in a sequence or a table.     *)
(***************************************************************************)
LEMMA TimesInSeq ==
    ASSUME NEW S, NEW s \in Seq(S), NEW c
    PROVE  Times(s, c) \in Nat
<1>1. DOMAIN s = 1 .. Len(s) /\ Len(s) \in Nat
  OBVIOUS
<1>2. IsFiniteSet(1 .. Len(s))
  BY <1>1, FS_Interval
<1>3. {k \in DOMAIN s : s[k] = c} \in SUBSET (1 .. Len(s))
  BY <1>1
<1>4. QED BY <1>2, <1>3, CountSubset DEF Times

LEMMA TimesAppend ==
    ASSUME NEW S, NEW s \in Seq(S), NEW x \in S, NEW c
    PROVE  Times(Append(s, x), c) = Times(s, c) + One(x = c)
<1> DEFINE n == Len(s) + 1
           t == Append(s, x)
           A == {k \in DOMAIN s : s[k] = c}
           B == {k \in DOMAIN t : t[k] = c}
<1>1. /\ n \in Nat /\ DOMAIN s = 1 .. Len(s) /\ DOMAIN t = 1 .. n
      /\ \A k \in 1 .. Len(s) : t[k] = s[k]
      /\ t[n] = x
  <2>1. Len(s) \in Nat /\ DOMAIN s = 1 .. Len(s)
    OBVIOUS
  <2>2. /\ Len(t) = n /\ t \in Seq(S)
        /\ \A k \in 1 .. Len(s) : t[k] = s[k]
        /\ t[n] = x
    BY AppendProperties
  <2>3. DOMAIN t = 1 .. Len(t)
    BY <2>2
  <2>4. QED BY <2>1, <2>2, <2>3
<1>2. IsFiniteSet(1 .. n) /\ A \in SUBSET (1 .. n) /\ B \in SUBSET (1 .. n)
  <2>1. IsFiniteSet(1 .. n)
    BY <1>1, FS_Interval
  <2>2. QED BY <1>1, <2>1
<1>3. \A k \in (1 .. n) \ {n} : k \in A <=> k \in B
  BY <1>1
<1>4. n \notin A /\ (n \in B <=> x = c)
  BY <1>1
<1>5. Times(s, c) = Cardinality(A) /\ Times(t, c) = Cardinality(B)
  BY DEF Times
<1> HIDE DEF A, B, n, t
<1>6. /\ Cardinality(A) \in Nat /\ Cardinality(B) \in Nat
      /\ Cardinality(B) + One(n \in A) = Cardinality(A) + One(n \in B)
  <2> DEFINE W == 1 .. n
  <2>1. /\ IsFiniteSet(W) /\ A \in SUBSET W /\ B \in SUBSET W
        /\ \A k \in W \ {n} : k \in A <=> k \in B
    BY <1>2, <1>3
  <2> HIDE DEF W
  <2>2. QED BY <2>1, CountChange
<1>7. QED BY <1>4, <1>5, <1>6 DEF One, t

LEMMA TimesTail ==
    ASSUME NEW S, NEW s \in Seq(S), s # <<>>, NEW c
    PROVE  Times(Tail(s), c) + One(Head(s) = c) <= Times(s, c)
<1> DEFINE t == Tail(s)
           A == {k \in DOMAIN s : s[k] = c}
           B == {k \in DOMAIN s : k # 1 /\ s[k] = c}
           C == {k \in DOMAIN t : t[k] = c}
<1>1. /\ Len(s) \in Nat /\ Len(s) > 0 /\ DOMAIN s = 1 .. Len(s)
      /\ DOMAIN t = 1 .. (Len(s) - 1) /\ Head(s) = s[1]
      /\ \A k \in 1 .. (Len(s) - 1) : t[k] = s[k + 1]
  <2>1. Len(s) \in Nat /\ Len(s) > 0 /\ DOMAIN s = 1 .. Len(s) /\ Head(s) = s[1]
    OBVIOUS
  <2>2. /\ t \in Seq(S) /\ Len(t) = Len(s) - 1
        /\ \A k \in 1 .. Len(t) : t[k] = s[k + 1]
    BY HeadTailProperties
  <2>3. DOMAIN t = 1 .. Len(t)
    BY <2>2
  <2>4. QED BY <2>1, <2>2, <2>3
<1>2. /\ IsFiniteSet(1 .. Len(s)) /\ A \in SUBSET (1 .. Len(s))
      /\ B \in SUBSET (1 .. Len(s)) /\ C \in SUBSET (1 .. Len(s))
  <2>1. IsFiniteSet(1 .. Len(s))
    BY <1>1, FS_Interval
  <2>2. QED BY <1>1, <2>1
<1>3. \A k \in (1 .. Len(s)) \ {1} : k \in A <=> k \in B
  BY <1>1
<1>4. 1 \notin B /\ (1 \in A <=> Head(s) = c)
  BY <1>1
<1>5. [k \in B |-> k - 1] \in Surjection(B, C)
  <2>1. \A k \in B : k - 1 \in C
    BY <1>1
  <2>2. \A k \in C : k + 1 \in B /\ (k + 1) - 1 = k
    BY <1>1
  <2>3. QED BY <2>1, <2>2 DEF Surjection
<1>6. Times(s, c) = Cardinality(A) /\ Times(t, c) = Cardinality(C)
  BY DEF Times
<1> HIDE DEF A, B, C, t
<1>7. /\ Cardinality(A) \in Nat /\ Cardinality(B) \in Nat
      /\ Cardinality(B) + One(1 \in A) = Cardinality(A) + One(1 \in B)
  <2> DEFINE W == 1 .. Len(s)
  <2>1. /\ IsFiniteSet(W) /\ A \in SUBSET W /\ B \in SUBSET W
        /\ \A k \in W \ {1} : k \in A <=> k \in B
    BY <1>2, <1>3
  <2> HIDE DEF W
  <2>2. QED BY <2>1, CountChange
<1>8. IsFiniteSet(B) /\ Cardinality(C) \in Nat
  BY <1>2, CountSubset, FS_Subset
<1>9. Cardinality(C) <= Cardinality(B)
  BY <1>5, <1>8, FS_Surjection
<1>10. QED BY <1>4, <1>6, <1>7, <1>8, <1>9 DEF One, t

\* A table that changes at one place at most.
LEMMA TimesChange ==
    ASSUME NEW W, IsFiniteSet(W), NEW f, NEW g, DOMAIN f = W, DOMAIN g = W,
           NEW w \in W, \A v \in W \ {w} : g[v] = f[v], NEW c
    PROVE  /\ Times(f, c) \in Nat /\ Times(g, c) \in Nat
           /\ Times(g, c) + One(f[w] = c) = Times(f, c) + One(g[w] = c)
<1> DEFINE A == {v \in W : f[v] = c}
           B == {v \in W : g[v] = c}
<1>1. A \in SUBSET W /\ B \in SUBSET W /\ \A v \in W \ {w} : v \in A <=> v \in B
  OBVIOUS
<1>2. (w \in A <=> f[w] = c) /\ (w \in B <=> g[w] = c)
  OBVIOUS
<1>3. Times(f, c) = Cardinality(A) /\ Times(g, c) = Cardinality(B)
  BY DEF Times
<1> HIDE DEF A, B
<1>4. /\ Cardinality(A) \in Nat /\ Cardinality(B) \in Nat
      /\ Cardinality(B) + One(w \in A) = Cardinality(A) + One(w \in B)
  BY <1>1, CountChange
<1>5. QED BY <1>2, <1>3, <1>4 DEF One

LEMMA TimesInTable ==
    ASSUME NEW W, IsFiniteSet(W), NEW f, DOMAIN f = W, NEW c
    PROVE  Times(f, c) \in Nat
<1>1. {w \in DOMAIN f : f[w] = c} \in SUBSET W
  OBVIOUS
<1>2. QED BY <1>1, CountSubset DEF Times

\* Tagging does not make a set larger.
LEMMA TaggedCount ==
    ASSUME NEW A, IsFiniteSet(A), NEW tag
    PROVE  LET T == {<<tag, w>> : w \in A}
           IN  IsFiniteSet(T) /\ Cardinality(T) <= Cardinality(A)
<1> DEFINE T == {<<tag, w>> : w \in A}
<1>1. [w \in A |-> <<tag, w>>] \in Surjection(A, T)
  BY DEF Surjection
<1>2. IsFiniteSet(T) /\ Cardinality(T) <= Cardinality(A)
  BY <1>1, FS_Surjection
<1>3. QED BY <1>2

LEMMA ServedCount ==
    ASSUME Types, NEW c
    PROVE  /\ Times(wfd, c) \in Nat /\ Times(zfd, c) \in Nat /\ Cardinality(Served(c)) \in Nat
           /\ Cardinality(Served(c)) <= Times(wfd, c) + Times(zfd, c)
<1> DEFINE A == {w \in YWorkers : wfd[w] = c}
           B == {w \in ZWorkers : zfd[w] = c}
           S == {<<"Y", w>> : w \in A}
           T == {<<"Z", w>> : w \in B}
<1>1. IsFiniteSet(A) /\ IsFiniteSet(B)
  <2>1. IsFiniteSet(YWorkers) /\ IsFiniteSet(ZWorkers)
    BY Pools DEF Types
  <2>2. A \in SUBSET YWorkers /\ B \in SUBSET ZWorkers
    OBVIOUS
  <2>3. QED BY <2>1, <2>2, FS_Subset
<1>2. Times(wfd, c) = Cardinality(A) /\ Times(zfd, c) = Cardinality(B)
  BY DEF Times, Types, YTypes, ZTypes
<1>3. Served(c) = S \cup T
  BY DEF Served
<1> HIDE DEF A, B
<1>4. IsFiniteSet(S) /\ Cardinality(S) <= Cardinality(A)
  BY <1>1, TaggedCount
<1>5. IsFiniteSet(T) /\ Cardinality(T) <= Cardinality(B)
  BY <1>1, TaggedCount
<1> HIDE DEF S, T
<1>6. /\ IsFiniteSet(S \cup T) /\ IsFiniteSet(S \cap T)
      /\ Cardinality(S \cup T) = Cardinality(S) + Cardinality(T) - Cardinality(S \cap T)
  <2>1. S \cap T \in SUBSET S
    OBVIOUS
  <2>2. QED BY <1>4, <1>5, <2>1, FS_Union, FS_Subset
<1>7. /\ Cardinality(A) \in Nat /\ Cardinality(B) \in Nat /\ Cardinality(S) \in Nat
      /\ Cardinality(T) \in Nat /\ Cardinality(S \cap T) \in Nat
      /\ Cardinality(S \cup T) \in Nat
  BY <1>1, <1>4, <1>5, <1>6, FS_CardinalityType
<1>8. QED BY <1>2, <1>3, <1>4, <1>5, <1>6, <1>7
-----------------------------------------------------------------------------
(***************************************************************************)
(* No step makes the places a client's request is in more than they were.  *)
(***************************************************************************)
LEMMA MovedSum ==
    ASSUME NEW a \in Nat, NEW b \in Nat, NEW m \in Nat, NEW n \in Nat, NEW h \in Nat,
           m + h <= a, n <= b + h
    PROVE  m + n <= a + b
  OBVIOUS

LEMMA FirstSum ==
    ASSUME NEW a \in Nat, NEW b \in Nat, NEW m \in Nat, NEW n \in Nat,
           NEW r \in Nat, NEW s \in Nat, NEW t \in Nat,
           m + n <= a
    PROVE  m + (n + r + s) + t <= a + (b + r + s) + t
  OBVIOUS

LEMMA KeptSum ==
    ASSUME NEW a \in Nat, NEW b \in Nat, NEW m \in Nat, m <= a
    PROVE  m + b <= a + b
  OBVIOUS

LEMMA MiddleSum ==
    ASSUME NEW a \in Nat, NEW b \in Nat, NEW m \in Nat, NEW n \in Nat,
           NEW r \in Nat, NEW s \in Nat, NEW t \in Nat, NEW u \in Nat,
           m + n <= a + b
    PROVE  r + s + m + n + t + u <= r + s + a + b + t + u
  OBVIOUS

RequestsInY(c) ==
    Times(serverFifo, c) + One(yreq = c) + Times(p, c) + Times(wfd, c)
    + Times(serverP, c)

RequestsInZ(c) ==
    One(zreq = c) + One(~ slotRead /\ shmem = c) + Times(zfd, c)

LEMMA RequestsSplit ==
    ASSUME Types, NEW c \in Clients
    PROVE  /\ Times(serverFifo, c) \in Nat /\ Times(p, c) \in Nat /\ Times(serverP, c) \in Nat
           /\ Times(wfd, c) \in Nat /\ Times(zfd, c) \in Nat /\ inbox[c] \in Nat
           /\ RequestsInY(c) \in Nat /\ RequestsInZ(c) \in Nat
           /\ Requests(c) = RequestsInY(c) + RequestsInZ(c) + inbox[c]
<1>1. /\ Times(serverFifo, c) \in Nat /\ Times(p, c) \in Nat /\ Times(serverP, c) \in Nat
  BY TimesInSeq DEF Types, SharedTypes, YTypes
<1>2. Times(wfd, c) \in Nat /\ Times(zfd, c) \in Nat
  BY ServedCount
<1>3. inbox[c] \in Nat
  BY DEF Types, SharedTypes
<1>4. One(yreq = c) \in Nat /\ One(zreq = c) \in Nat /\ One(~ slotRead /\ shmem = c) \in Nat
  BY DEF One
<1>5. RequestsInY(c) \in Nat /\ RequestsInZ(c) \in Nat
  BY <1>1, <1>2, <1>4 DEF RequestsInY, RequestsInZ
<1>6. Requests(c) = RequestsInY(c) + RequestsInZ(c) + inbox[c]
  BY <1>1, <1>2, <1>3, <1>4 DEF Requests, RequestsInY, RequestsInZ
<1>7. QED BY <1>1, <1>2, <1>3, <1>5, <1>6

LEMMA RequestsAfter ==
    ASSUME Types', NEW c \in Clients
    PROVE  /\ Times(serverP, c)' \in Nat /\ inbox'[c] \in Nat
           /\ RequestsInY(c)' \in Nat /\ RequestsInZ(c)' \in Nat /\ Requests(c)' \in Nat
           /\ Requests(c)' = RequestsInY(c)' + RequestsInZ(c)' + inbox'[c]
<1>1. Times(serverFifo', c) \in Nat /\ Times(p', c) \in Nat /\ Times(serverP', c) \in Nat
  BY TimesInSeq DEF Types, SharedTypes, YTypes
<1>2. Times(wfd', c) \in Nat /\ Times(zfd', c) \in Nat
  <2>1. situation' \in Situations
    BY DEF Types
  <2>2. poolSize' \in Nat /\ poolSize2' \in Nat
    BY <2>1, PoolAssumption DEF poolSize, poolSize2
  <2>3. IsFiniteSet(YWorkers') /\ IsFiniteSet(ZWorkers')
    BY <2>2, FS_Interval DEF YWorkers, ZWorkers
  <2>4. DOMAIN wfd' = YWorkers' /\ DOMAIN zfd' = ZWorkers'
    BY DEF Types, YTypes, ZTypes
  <2>5. QED BY <2>3, <2>4, TimesInTable
<1>3. inbox'[c] \in Nat
  BY DEF Types, SharedTypes
<1>4. One(yreq' = c) \in Nat /\ One(zreq' = c) \in Nat /\ One(~ slotRead' /\ shmem' = c) \in Nat
  BY DEF One
<1>5. RequestsInY(c)' \in Nat /\ RequestsInZ(c)' \in Nat
  BY <1>1, <1>2, <1>4 DEF RequestsInY, RequestsInZ
<1>6. Requests(c)' = RequestsInY(c)' + RequestsInZ(c)' + inbox'[c]
  BY <1>1, <1>2, <1>3, <1>4 DEF Requests, RequestsInY, RequestsInZ
<1>7. QED BY <1>1, <1>3, <1>5, <1>6

LEMMA RequestsOfY ==
    ASSUME Types, NEW i \in YProcs, YOwnStep(i), NEW c \in Clients
    PROVE  RequestsInY(c)' + inbox'[c] <= RequestsInY(c) + inbox[c]
<1>1. Types' /\ c # Nobody
  BY YStepTypes, Pools DEF Types, Nobody
<1>2. /\ YWorkers' = YWorkers /\ IsFiniteSet(YWorkers) /\ YWorkers = YProcs \ {0}
      /\ wfd \in [YWorkers -> Clients \union {Nobody}]
      /\ p \in Seq(Clients) /\ serverFifo \in Seq(Clients) /\ serverP \in Seq(Clients)
      /\ inbox \in [Clients -> Nat]
      /\ ypc[0] \in {"post", "writeP", "forward"} => yreq \in Clients
  BY Pools DEF Types, YTypes, SharedTypes, YOwnStep, YStep, YWorkers, poolSize
<1> DEFINE F == Times(serverFifo, c)
           Q == Times(p, c)
           V == Times(serverP, c)
           W == Times(wfd, c)
           y == One(yreq = c)
           B == inbox[c]
<1>3. /\ F \in Nat /\ Q \in Nat /\ V \in Nat /\ W \in Nat /\ B \in Nat
      /\ y \in Nat
  BY RequestsSplit DEF One
<1>4. /\ F' \in Nat /\ Q' \in Nat /\ V' \in Nat /\ B' \in Nat /\ W' \in Nat
      /\ y' \in Nat
  <2>1. /\ p' \in Seq(Clients) /\ serverFifo' \in Seq(Clients) /\ serverP' \in Seq(Clients)
        /\ inbox' \in [Clients -> Nat] /\ wfd' \in [YWorkers -> Clients \union {Nobody}]
    BY <1>1, <1>2 DEF Types, YTypes, SharedTypes
  <2>2. F' \in Nat /\ Q' \in Nat /\ V' \in Nat
    BY <2>1, TimesInSeq
  <2>3. W' \in Nat
    BY <1>2, <2>1, TimesInTable
  <2>4. QED BY <2>1, <2>2, <2>3 DEF One
<1>5. /\ RequestsInY(c) = F + y + Q + W + V
      /\ RequestsInY(c)' = F' + y' + Q' + W' + V'
  BY DEF RequestsInY
<1>6. ASSUME F' + y' + Q' + W' + V' + B' <= F + y + Q + W + V + B
      PROVE  RequestsInY(c)' + inbox'[c] <= RequestsInY(c) + inbox[c]
  BY <1>5, <1>6
<1> HIDE DEF F, Q, V, W, y, B
<1>7. ASSUME UNCHANGED <<yreq, p, wfd, inbox, serverFifo, serverP>>
      PROVE  RequestsInY(c)' + inbox'[c] <= RequestsInY(c) + inbox[c]
  <2>1. F' = F /\ y' = y /\ Q' = Q /\ W' = W /\ V' = V /\ B' = B
    BY <1>7 DEF F, y, Q, W, V, B
  <2>2. QED BY <1>3, <1>6, <2>1
<1>8. CASE i = 0 /\ YParentStep
  <2>1. CASE LookA \/ LookB \/ PostSema
    BY <1>7, <2>1 DEF LookA, LookB, PostSema, clientVars
  <2>2. CASE ReadRequest
    <3>1. F' + One(Head(serverFifo) = c) <= F
      BY <1>2, <2>2, TimesTail DEF ReadRequest, F
    <3>2. y' = One(Head(serverFifo) = c) /\ Q' = Q /\ W' = W /\ V' = V /\ B' = B
      BY <2>2 DEF ReadRequest, y, Q, W, V, B
    <3>3. QED BY <1>3, <1>4, <1>6, <3>1, <3>2
  <2>3. CASE WriteP
    <3>1. Q' = Q + y
      BY <1>2, <2>3, TimesAppend DEF WriteP, Q, y
    <3>2. y' = 0 /\ F' = F /\ W' = W /\ V' = V /\ B' = B
      BY <1>1, <2>3 DEF WriteP, clientVars, y, F, W, V, B, One
    <3>3. QED BY <1>3, <1>6, <3>1, <3>2
  <2>4. CASE Forward
    <3>1. V' = V + y
      BY <1>2, <2>4, TimesAppend DEF Forward, V, y
    <3>2. y' = 0 /\ F' = F /\ W' = W /\ Q' = Q /\ B' = B
      BY <1>1, <2>4 DEF Forward, clientVars, y, F, W, Q, B, One
    <3>3. QED BY <1>3, <1>6, <3>1, <3>2
  <2>5. QED BY <1>8, <2>1, <2>2, <2>3, <2>4 DEF YParentStep
<1>9. CASE i \in YWorkers /\ YWorkerStep(i)
  <2>0. /\ \A v \in YWorkers \ {i} : wfd'[v] = wfd[v]
        /\ wfd' \in [YWorkers -> Clients \union {Nobody}]
    BY <1>1, <1>2, <1>9 DEF YWorkerStep, TakeRequest, OpenFifo, Answer, WaitSema, Types, YTypes
  <2>1. W' + One(wfd[i] = c) = W + One(wfd'[i] = c)
    <3>1. DOMAIN wfd = YWorkers /\ DOMAIN wfd' = YWorkers /\ i \in YWorkers
      BY <1>2, <1>9, <2>0
    <3>2. IsFiniteSet(YWorkers) /\ \A v \in YWorkers \ {i} : wfd'[v] = wfd[v]
      BY <1>2, <2>0
    <3>3. QED BY <3>1, <3>2, TimesChange DEF W
  <2>2. CASE OpenFifo(i) \/ WaitSema(i)
    BY <1>7, <2>2 DEF OpenFifo, Connect, WaitSema, clientVars
  <2>3. CASE TakeRequest(i)
    <3>1. Q' + One(Head(p) = c) <= Q
      BY <1>2, <2>3, TimesTail DEF TakeRequest, Q
    <3>2. y' = y /\ F' = F /\ V' = V /\ B' = B
      BY <2>3 DEF TakeRequest, clientVars, y, F, V, B
    <3>3. wfd' = wfd \/ wfd'[i] = Head(p)
      BY <1>2, <1>9, <2>3 DEF TakeRequest
    <3>4. W' <= W + One(Head(p) = c)
      <4>1. CASE wfd' = wfd
        BY <1>3, <4>1 DEF W, One
      <4>2. CASE wfd'[i] = Head(p)
        BY <1>3, <1>4, <2>1, <4>2 DEF One
      <4>3. QED BY <3>3, <4>1, <4>2
    <3>5. One(Head(p) = c) \in Nat
      BY DEF One
    <3>6. Q' + W' <= Q + W
      <4> DEFINE h == One(Head(p) = c)
      <4>1. Q \in Nat /\ W \in Nat /\ Q' \in Nat /\ W' \in Nat /\ h \in Nat
        BY <1>3, <1>4, <3>5
      <4>2. Q' + h <= Q /\ W' <= W + h
        BY <3>1, <3>4
      <4> HIDE DEF h
      <4>3. QED BY <4>1, <4>2, MovedSum
    <3>7. F + y + Q' + W' + V + B <= F + y + Q + W + V + B
      BY <1>3, <1>4, <3>6, MiddleSum
    <3>8. F' + y' + Q' + W' + V' + B' <= F + y + Q + W + V + B
      BY <3>2, <3>7
    <3>9. QED BY <1>6, <3>8
  <2>4. CASE Answer(i)
    <3>1. y' = y /\ F' = F /\ V' = V /\ Q' = Q
      BY <2>4 DEF Answer, WriteAnswer, y, F, V, Q
    <3>2. wfd'[i] = Nobody
      BY <1>2, <1>9, <2>4 DEF Answer
    <3>3. W' = W - One(wfd[i] = c)
      BY <1>1, <1>3, <1>4, <2>1, <3>2 DEF One
    <3>4. B' = B \/ (B' = B + 1 /\ wfd[i] = c)
      BY <1>2, <2>4 DEF Answer, WriteAnswer, B
    <3>5. B' <= B + One(wfd[i] = c)
      BY <1>3, <3>4 DEF One
    <3>6. One(wfd[i] = c) \in Nat
      BY DEF One
    <3>7. QED BY <1>3, <1>4, <1>6, <3>1, <3>3, <3>5, <3>6
  <2>5. QED BY <1>9, <2>2, <2>3, <2>4 DEF YWorkerStep
<1>10. CASE YHandlerStep(i)
  <2>1. CASE YHandlerPost(i) \/ YReadHandled(i)
    BY <1>7, <2>1 DEF YHandlerPost, YReadHandled, clientVars
  <2>2. CASE YLeave(i)
    <3>1. y' = y /\ F' = F /\ V' = V /\ Q' = Q /\ B' = B
      BY <2>2 DEF YLeave, clientVars, y, F, V, Q, B
    <3>2. /\ wfd' \in [YWorkers -> Clients \union {Nobody}]
          /\ \A v \in YWorkers \ {i} : wfd'[v] = wfd[v]
          /\ i \in YWorkers => wfd'[i] = Nobody
      BY <1>2, <2>2 DEF YLeave
    <3>3. W' <= W
      <4>1. CASE i \in YWorkers
        <5>1. W' + One(wfd[i] = c) = W + One(wfd'[i] = c)
          <6>1. DOMAIN wfd = YWorkers /\ DOMAIN wfd' = YWorkers
            BY <1>2, <3>2
          <6>2. IsFiniteSet(YWorkers) /\ \A v \in YWorkers \ {i} : wfd'[v] = wfd[v]
            BY <1>2, <3>2
          <6>3. QED BY <4>1, <6>1, <6>2, TimesChange DEF W
        <5>2. One(wfd'[i] = c) = 0 /\ One(wfd[i] = c) \in Nat
          BY <1>1, <3>2, <4>1 DEF One
        <5>3. QED BY <1>3, <1>4, <5>1, <5>2
      <4>2. CASE i \notin YWorkers
        <5>1. wfd' = wfd
          BY <1>2, <3>2, <4>2
        <5>2. QED BY <1>3, <5>1 DEF W
      <4>3. QED BY <4>1, <4>2
    <3>4. QED BY <1>3, <1>4, <1>6, <3>1, <3>3
  <2>3. QED BY <1>10, <2>1, <2>2 DEF YHandlerStep
<1>11. QED BY <1>2, <1>8, <1>9, <1>10 DEF YOwnStep, YStep

LEMMA RequestsOfZ ==
    ASSUME Types, NEW i \in ZProcs, ZOwnStep(i), NEW c \in Clients,
           ~ overwritten', \A w \in ZWorkers : ReadsSlot(w) => ~ slotRead
    PROVE  Times(serverP, c)' + RequestsInZ(c)' + inbox'[c]
             <= Times(serverP, c) + RequestsInZ(c) + inbox[c]
<1>1. Types' /\ c # Nobody
  BY ZStepTypes, Pools DEF Types, Nobody
<1>2. /\ ZWorkers' = ZWorkers /\ IsFiniteSet(ZWorkers) /\ ZWorkers = ZProcs \ {0}
      /\ zfd \in [ZWorkers -> Clients \union {Nobody}]
      /\ zfd' \in [ZWorkers -> Clients \union {Nobody}]
      /\ DOMAIN zfd = ZWorkers /\ DOMAIN zfd' = ZWorkers
      /\ serverP \in Seq(Clients) /\ inbox \in [Clients -> Nat]
      /\ serverP' \in Seq(Clients) /\ inbox' \in [Clients -> Nat]
  BY <1>1, Pools, ZMoves DEF Types, ZTypes, SharedTypes
<1> DEFINE V == Times(serverP, c)
           X == Times(zfd, c)
           z == One(zreq = c)
           l == One(~ slotRead /\ shmem = c)
           B == inbox[c]
<1>3. V \in Nat /\ X \in Nat /\ B \in Nat /\ z \in Nat /\ l \in Nat
  BY RequestsSplit DEF One
<1>4. V' \in Nat /\ X' \in Nat /\ B' \in Nat /\ z' \in Nat /\ l' \in Nat
  <2>1. V' \in Nat /\ X' \in Nat
    BY <1>2, TimesInSeq, TimesInTable
  <2>2. QED BY <1>2, <2>1 DEF One
<1>5. RequestsInZ(c) = z + l + X /\ RequestsInZ(c)' = z' + l' + X'
  BY DEF RequestsInZ
<1>6. ASSUME V' + (z' + l' + X') + B' <= V + (z + l + X) + B
      PROVE  Times(serverP, c)' + RequestsInZ(c)' + inbox'[c]
               <= Times(serverP, c) + RequestsInZ(c) + inbox[c]
  BY <1>5, <1>6
<1> HIDE DEF V, X, z, l, B
<1>7. ASSUME UNCHANGED <<zreq, zfd, inbox, serverP, slotRead, shmem>>
      PROVE  V' + (z' + l' + X') + B' <= V + (z + l + X) + B
  <2>1. V' = V /\ z' = z /\ l' = l /\ X' = X /\ B' = B
    BY <1>7 DEF V, X, z, l, B
  <2>2. QED BY <1>3, <2>1
<1>8. CASE i = 0 /\ ZParentStep
  <2>1. CASE LookLast \/ PostCommon \/ ScanStatus \/ Continue
    BY <1>6, <1>7, <2>1 DEF LookLast, PostCommon, ScanStatus, Continue, clientVars, zHistory
  <2>2. CASE ReadServerP
    <3>1. V' + z' <= V
      <4>1. Times(Tail(serverP), c) + One(Head(serverP) = c) <= Times(serverP, c)
        BY <1>2, <2>2, TimesTail DEF ReadServerP
      <4>2. QED BY <2>2, <4>1 DEF ReadServerP, V, z
    <3>2. l' = l /\ X' = X /\ B' = B
      BY <2>2 DEF ReadServerP, zHistory, clientVars, l, X, B
    <3>3. V' + (z' + l + X) + B <= V + (z + l + X) + B
      BY <1>3, <1>4, <3>1, FirstSum
    <3>4. QED BY <1>6, <3>2, <3>3
  <2>3. CASE CopyToSlot
    <3>1. slotRead /\ slotRead' = FALSE /\ shmem' = zreq /\ zreq' = Nobody
      BY <2>3 DEF CopyToSlot
    <3>2. l' = z /\ z' = 0
      BY <1>1, <3>1 DEF l, z, One
    <3>3. V' = V /\ X' = X /\ B' = B
      BY <2>3 DEF CopyToSlot, clientVars, V, X, B
    <3>4. QED BY <1>3, <1>6, <3>2, <3>3
  <2>4. QED BY <1>8, <2>1, <2>2, <2>3 DEF ZParentStep
<1>9. CASE i \in ZWorkers /\ ZWorkerStep(i)
  <2>0. \A v \in ZWorkers \ {i} : zfd'[v] = zfd[v]
    BY <1>2, <1>9 DEF ZWorkerStep, TakeSlot, ZOpenFifo, ZAnswer, FreeSlot, WaitCommon,
       PostHandled, WaitLast, Stop
  <2>1. X' + One(zfd[i] = c) = X + One(zfd'[i] = c)
    <3>1. /\ DOMAIN zfd = ZWorkers /\ DOMAIN zfd' = ZWorkers /\ i \in ZWorkers
          /\ IsFiniteSet(ZWorkers)
      BY <1>2, <1>9
    <3>2. QED BY <2>0, <3>1, TimesChange DEF X
  <2>2. CASE \/ ZOpenFifo(i) \/ FreeSlot(i) \/ WaitCommon(i)
             \/ PostHandled(i) \/ WaitLast(i) \/ Stop(i)
    BY <1>6, <1>7, <2>2 DEF ZOpenFifo, Connect, FreeSlot, WaitCommon, PostHandled, WaitLast,
       Stop, clientVars, zHistory
  <2>3. CASE TakeSlot(i)
    <3>1. ~ slotRead /\ slotRead'
      BY <1>9, <2>3 DEF TakeSlot, ZWorkerStep, ReadsSlot
    <3>2. l = One(shmem = c) /\ l' = 0
      BY <3>1 DEF l, One
    <3>3. V' = V /\ z' = z /\ B' = B
      BY <2>3 DEF TakeSlot, clientVars, V, z, B
    <3>4. zfd' = zfd \/ zfd'[i] = shmem
      BY <1>2, <1>9, <2>3 DEF TakeSlot
    <3>5. X' <= X + l
      <4>1. CASE zfd' = zfd
        <5>1. X' = X
          BY <4>1 DEF X
        <5>2. QED BY <1>3, <5>1
      <4>2. CASE zfd'[i] = shmem
        <5>1. X' + One(zfd[i] = c) = X + l
          BY <2>1, <3>2, <4>2
        <5>2. One(zfd[i] = c) \in Nat
          BY DEF One
        <5>3. QED BY <1>3, <1>4, <5>1, <5>2
      <4>3. QED BY <3>4, <4>1, <4>2
    <3>6. QED BY <1>3, <1>4, <1>6, <3>2, <3>3, <3>5
  <2>4. CASE ZAnswer(i)
    <3>1. z' = z /\ l' = l /\ V' = V
      BY <2>4 DEF ZAnswer, WriteAnswer, zHistory, z, l, V
    <3>2. zfd'[i] = Nobody
      BY <1>2, <1>9, <2>4 DEF ZAnswer
    <3>3. X' = X - One(zfd[i] = c)
      <4>1. One(zfd'[i] = c) = 0 /\ One(zfd[i] = c) \in Nat
        BY <1>1, <3>2 DEF One
      <4>2. QED BY <1>3, <1>4, <2>1, <4>1
    <3>4. B' = B \/ (B' = B + 1 /\ zfd[i] = c)
      BY <1>2, <2>4 DEF ZAnswer, WriteAnswer, B
    <3>5. X' + B' <= X + B
      <4>1. CASE B' = B
        <5>1. X' <= X
          BY <1>3, <1>4, <3>3 DEF One
        <5>2. X' + B <= X + B
          BY <1>3, <1>4, <5>1, KeptSum
        <5>3. QED BY <4>1, <5>2
      <4>2. CASE B' = B + 1 /\ zfd[i] = c
        <5>1. X' = X - 1
          BY <3>3, <4>2 DEF One
        <5>2. QED BY <1>3, <1>4, <4>2, <5>1
      <4>3. QED BY <3>4, <4>1, <4>2
    <3>6. QED BY <1>3, <1>4, <1>6, <3>1, <3>5
  <2>5. QED BY <1>9, <2>2, <2>3, <2>4 DEF ZWorkerStep
<1>10. CASE ZHandlerStep(i)
  <2>1. CASE ZHandlerPost(i) \/ ZReadHandled(i)
    BY <1>6, <1>7, <2>1 DEF ZHandlerPost, ZReadHandled, clientVars, zHistory
  <2>2. CASE ZLeave(i)
    <3>1. z' = z /\ l' = l /\ V' = V /\ B' = B
      BY <2>2 DEF ZLeave, clientVars, zHistory, z, l, V, B
    <3>2. /\ \A v \in ZWorkers \ {i} : zfd'[v] = zfd[v]
          /\ i \in ZWorkers => zfd'[i] = Nobody
      BY <1>2, <2>2 DEF ZLeave
    <3>3. X' <= X
      <4>1. CASE i \in ZWorkers
        <5>1. X' + One(zfd[i] = c) = X + One(zfd'[i] = c)
          <6>1. /\ DOMAIN zfd = ZWorkers /\ DOMAIN zfd' = ZWorkers
                /\ IsFiniteSet(ZWorkers)
            BY <1>2
          <6>2. QED BY <3>2, <4>1, <6>1, TimesChange DEF X
        <5>2. One(zfd'[i] = c) = 0 /\ One(zfd[i] = c) \in Nat
          BY <1>1, <3>2, <4>1 DEF One
        <5>3. QED BY <1>3, <1>4, <5>1, <5>2
      <4>2. CASE i \notin ZWorkers
        <5>1. zfd' = zfd
          BY <1>2, <3>2, <4>2
        <5>2. QED BY <1>3, <5>1 DEF X
      <4>3. QED BY <4>1, <4>2
    <3>4. QED BY <1>3, <1>4, <1>6, <3>1, <3>3
  <2>3. QED BY <1>10, <2>1, <2>2 DEF ZHandlerStep
<1>11. QED BY <1>2, <1>8, <1>9, <1>10 DEF ZOwnStep, ZStep

\* A client that submits is nowhere yet.
LEMMA RequestsOfClients ==
    ASSUME Types, NEW d \in Clients, ClientStep(d) \/ ClientKilled(d), NEW c \in Clients
    PROVE  \/ Submit(d) /\ d = c /\ Requests(c)' = Requests(c) + 1
           \/ Requests(c)' = Requests(c)
<1>1. UNCHANGED <<inbox, serverP, yVars, zVars>>
  BY DEF ClientStep, ClientKilled, Submit, ReadAnswer, Killed
<1>2. /\ Times(serverFifo, c) \in Nat /\ Times(p, c) \in Nat /\ Times(serverP, c) \in Nat
      /\ Times(wfd, c) \in Nat /\ Times(zfd, c) \in Nat /\ inbox[c] \in Nat
      /\ One(yreq = c) \in Nat /\ One(zreq = c) \in Nat /\ One(~ slotRead /\ shmem = c) \in Nat
  BY RequestsSplit DEF One
<1> DEFINE F == Times(serverFifo, c)
           Rest == One(yreq = c) + Times(p, c) + Times(wfd, c)
                   + Times(serverP, c) + One(zreq = c) + One(~ slotRead /\ shmem = c)
                   + Times(zfd, c) + inbox[c]
<1>3. Rest' = Rest /\ Rest \in Nat
  BY <1>1, <1>2 DEF yVars, zVars, zHistory
<1>4. F' = F \/ (Submit(d) /\ d = c /\ F' = F + 1)
  <2>1. CASE Submit(d)
    <3>1. F' = F + One(d = c)
      BY <2>1, TimesAppend DEF Submit, Types, SharedTypes
    <3>2. QED BY <1>2, <2>1, <3>1 DEF One
  <2>2. CASE ~ Submit(d)
    BY <2>2 DEF ClientStep, ClientKilled, ReadAnswer, Killed
  <2>3. QED BY <2>1, <2>2
<1>5. Requests(c) = F + Rest
  BY <1>2 DEF Requests
<1>6. Requests(c)' = F' + Rest'
  <2>1. F' \in Nat
    BY <1>2, <1>4
  <2>2. Requests(c)' = F' + One(yreq = c) + Times(p, c) + Times(wfd, c)
                   + Times(serverP, c) + One(zreq = c) + One(~ slotRead /\ shmem = c)
                   + Times(zfd, c) + inbox[c]
    BY <1>1 DEF Requests, yVars, zVars, zHistory
  <2>3. QED BY <1>2, <1>3, <2>1, <2>2
<1> HIDE DEF F, Rest
<1>7. F \in Nat
  BY <1>2 DEF F
<1>8. QED BY <1>3, <1>4, <1>5, <1>6, <1>7
-----------------------------------------------------------------------------
(***************************************************************************)
(* Nobody is answered twice.                                               *)
(***************************************************************************)
\* Nobody who has the slot in hand misses that it was read.
SlotIsFresh ==
    /\ \A w \in ZWorkers : ReadsSlot(w) => ~ slotRead
    /\ \A v, w \in ZWorkers : ReadsSlot(v) /\ ReadsSlot(w) => v = w
    /\ zpc[0] \in {"scan", "wake"} => ~ slotRead /\ \A w \in ZWorkers : ~ ReadsSlot(w)

InOnePlace ==
    \A c \in Clients :
        /\ Requests(c) <= 1
        /\ cpc[c] \in {"absent", "new"} => Requests(c) = 0

LEMMA AnsweredTogether == AnsweredInv <=> (~ overwritten => InOnePlace /\ SlotIsFresh)
  BY DEF AnsweredInv, InOnePlace, SlotIsFresh

LEMMA FreshSteps ==
    ASSUME Types, SlotIsFresh, NEW i \in ZProcs, ZOwnStep(i), ~ overwritten'
    PROVE  SlotIsFresh'
<1>1. /\ ZWorkers' = ZWorkers /\ 0 \in ZProcs /\ ZWorkers = ZProcs \ {0}
      /\ zpc \in [ZProcs -> ZParentLabels \union ZWorkerLabels \union Leaving]
      /\ stopped \subseteq ZWorkers
      /\ \A w \in ZProcs \ {i} : zpc'[w] = zpc[w]
  BY ZMoves
<1>2. CASE i = 0 /\ ZParentStep
  <2>0. \A w \in ZWorkers : zpc'[w] = zpc[w]
    BY <1>1, <1>2
  <2>1. CASE LookLast \/ ReadServerP \/ PostCommon
    <3>1. UNCHANGED <<stopped, slotRead>> /\ zpc'[0] \in {"read", "postCommon", "copy"}
      BY <1>1, <2>1 DEF LookLast, ReadServerP, PostCommon, ZGoto, zHistory
    <3>2. QED BY <1>1, <2>0, <3>1 DEF SlotIsFresh, ReadsSlot
  <2>2. CASE CopyToSlot
    <3>1. slotRead /\ slotRead' = FALSE /\ stopped' = stopped
      BY <2>2 DEF CopyToSlot
    <3>2. \A w \in ZWorkers : ~ ReadsSlot(w) /\ ~ ReadsSlot(w)'
      BY <1>1, <2>0, <3>1 DEF SlotIsFresh, ReadsSlot
    <3>3. QED BY <1>1, <3>1, <3>2 DEF SlotIsFresh
  <2>3. CASE ScanStatus
    <3>1. UNCHANGED <<stopped, slotRead>> /\ zpc[0] = "scan"
      BY <2>3 DEF ScanStatus, zHistory
    <3>2. \A w \in ZWorkers : ~ ReadsSlot(w) /\ ~ ReadsSlot(w)'
      BY <1>1, <2>0, <3>1 DEF SlotIsFresh, ReadsSlot
    <3>3. QED BY <1>1, <3>1, <3>2 DEF SlotIsFresh
  <2>4. CASE Continue
    <3>1. /\ zpc[0] = "wake" /\ zpc'[0] = "look" /\ slotRead' = slotRead
          /\ stopped' = stopped \ {zindex}
      BY <1>1, <2>4 DEF Continue, ZGoto
    <3>2. ~ slotRead /\ \A w \in ZWorkers : ReadsSlot(w)' => w = zindex
      BY <1>1, <2>0, <3>1 DEF SlotIsFresh, ReadsSlot
    <3>3. QED BY <1>1, <3>1, <3>2 DEF SlotIsFresh
  <2>5. QED BY <1>2, <2>1, <2>2, <2>3, <2>4 DEF ZParentStep
<1>3. CASE i \in ZWorkers /\ ZWorkerStep(i)
  <2>0. zpc'[0] = zpc[0] /\ i \notin stopped
    BY <1>1, <1>3 DEF ZWorkerStep
  <2>1. CASE \/ ZOpenFifo(i) \/ ZAnswer(i) \/ FreeSlot(i) \/ WaitCommon(i)
             \/ PostHandled(i) \/ WaitLast(i)
    <3>1. UNCHANGED <<stopped, slotRead>> /\ zpc'[i] # "slot"
      BY <1>1, <2>1 DEF ZOpenFifo, ZAnswer, FreeSlot, WaitCommon, PostHandled, WaitLast,
         ZGoto, zHistory
    <3>2. \A w \in ZWorkers : ReadsSlot(w)' => ReadsSlot(w)
      BY <1>1, <3>1 DEF ReadsSlot
    <3>3. QED BY <1>1, <2>0, <3>1, <3>2 DEF SlotIsFresh
  <2>2. CASE TakeSlot(i)
    <3>1. ReadsSlot(i) /\ stopped' = stopped /\ zpc'[i] # "slot"
      BY <1>1, <2>0, <2>2 DEF TakeSlot, ZGoto, ReadsSlot
    <3>2. \A w \in ZWorkers : ~ ReadsSlot(w)'
      BY <1>1, <1>3, <3>1 DEF ReadsSlot, SlotIsFresh
    <3>3. zpc'[0] \notin {"scan", "wake"}
      BY <1>3, <2>0, <3>1 DEF SlotIsFresh
    <3>4. QED BY <1>1, <3>2, <3>3 DEF SlotIsFresh
  <2>3. CASE Stop(i)
    <3>1. stopped' = stopped \union {i} /\ slotRead' = slotRead
      BY <2>3 DEF Stop, zHistory
    <3>2. \A w \in ZWorkers : ReadsSlot(w)' => ReadsSlot(w)
      BY <1>1, <3>1 DEF ReadsSlot
    <3>3. QED BY <1>1, <2>0, <3>1, <3>2 DEF SlotIsFresh
  <2>4. QED BY <1>3, <2>1, <2>2, <2>3 DEF ZWorkerStep
<1>4. CASE ZHandlerStep(i)
  <2>1. UNCHANGED <<stopped, slotRead>> /\ zpc'[i] \in Leaving
    BY <1>1, <1>4 DEF ZHandlerStep, ZHandlerPost, ZReadHandled, ZLeave, ZGoto, zHistory, Leaving
  <2>2. \A w \in ZWorkers : ReadsSlot(w)' => ReadsSlot(w)
    BY <1>1, <2>1 DEF ReadsSlot, Leaving
  <2>3. zpc'[0] \in {"scan", "wake"} => zpc[0] \in {"scan", "wake"}
    BY <1>1, <2>1 DEF Leaving
  <2>4. QED BY <1>1, <2>1, <2>2, <2>3 DEF SlotIsFresh
<1>5. QED BY <1>1, <1>2, <1>3, <1>4 DEF ZOwnStep, ZStep

LEMMA FreshStays ==
    ASSUME SlotIsFresh, UNCHANGED <<situation, zVars>>
    PROVE  SlotIsFresh'
  BY DEF SlotIsFresh, ReadsSlot, ZWorkers, poolSize2, zVars, zHistory

\* Fewer places keep the requests of the clients in one.
LEMMA OnePlaceStays ==
    ASSUME Types, Types', InOnePlace, UNCHANGED cpc,
           \A c \in Clients : Requests(c)' <= Requests(c)
    PROVE  InOnePlace'
<1> SUFFICES ASSUME NEW c \in Clients
             PROVE  Requests(c)' <= 1 /\ (cpc'[c] \in {"absent", "new"} => Requests(c)' = 0)
  BY DEF InOnePlace
<1>1. Requests(c) \in Nat
  BY RequestsSplit
<1>2. Requests(c)' \in Nat
  BY RequestsAfter
<1>3. Requests(c)' <= Requests(c)
  OBVIOUS
<1>4. Requests(c) <= 1 /\ (cpc[c] \in {"absent", "new"} => Requests(c) = 0)
  BY DEF InOnePlace
<1>5. \A m, n \in Nat : m <= n /\ n <= 1 => m <= 1
  OBVIOUS
<1>6. \A m, n \in Nat : m <= n /\ n = 0 => m = 0
  OBVIOUS
<1>7. QED BY <1>1, <1>2, <1>3, <1>4, <1>5, <1>6

LEMMA OnePlaceSteps ==
    ASSUME Types, InOnePlace, SlotIsFresh, [Next]_vars, ~ overwritten'
    PROVE  InOnePlace'
<1>0. Types'
  BY TypesInductive
<1>1. CASE UNCHANGED vars
  BY <1>1 DEF vars, InOnePlace, Requests, clientVars, yVars, zVars, zHistory
<1>2. ASSUME NEW d \in Clients, ClientStep(d) \/ ClientKilled(d)
      PROVE  InOnePlace'
  <2> SUFFICES ASSUME NEW c \in Clients
               PROVE  Requests(c)' <= 1 /\ (cpc'[c] \in {"absent", "new"} => Requests(c)' = 0)
    BY DEF InOnePlace
  <2>1. \/ Submit(d) /\ d = c /\ Requests(c)' = Requests(c) + 1
        \/ Requests(c)' = Requests(c)
    BY <1>2, RequestsOfClients
  <2>2. Requests(c) <= 1 /\ (cpc[c] \in {"absent", "new"} => Requests(c) = 0)
    BY DEF InOnePlace
  <2>3. CASE Submit(d) /\ d = c /\ Requests(c)' = Requests(c) + 1
    <3>1. cpc[c] = "new" /\ cpc'[c] = "reading"
      BY <2>3 DEF Submit, Types, SharedTypes
    <3>2. QED BY <2>2, <2>3, <3>1
  <2>4. CASE Requests(c)' = Requests(c)
    <3>1. cpc'[c] \in {"absent", "new"} => cpc[c] \in {"absent", "new"}
      BY <1>2 DEF ClientStep, ClientKilled, Submit, ReadAnswer, Killed, Types, SharedTypes
    <3>2. QED BY <2>2, <2>4, <3>1
  <2>5. QED BY <2>1, <2>3, <2>4
<1>3. ASSUME NEW i \in YProcs, YOwnStep(i)
      PROVE  InOnePlace'
  <2>1. UNCHANGED <<cpc, zVars>>
    BY <1>3 DEF YOwnStep, YStep, YHandlerStep, YHandlerPost, YReadHandled, YLeave, clientVars,
       YParentStep, LookA, LookB, ReadRequest, PostSema, WriteP, Forward, YWorkerStep,
       TakeRequest, OpenFifo, Connect, Answer, WriteAnswer, WaitSema
  <2>2. ASSUME NEW c \in Clients PROVE Requests(c)' <= Requests(c)
    <3> DEFINE M == RequestsInY(c) + inbox[c]
               N == RequestsInZ(c)
    <3>1. M' <= M
      BY <1>3, RequestsOfY
    <3>2. N' = N
      BY <2>1 DEF RequestsInZ, zVars, zHistory
    <3>3. M \in Nat /\ N \in Nat /\ Requests(c) = M + N
      BY RequestsSplit
    <3>4. M' \in Nat /\ Requests(c)' = M' + N'
      BY <1>0, RequestsAfter
    <3> HIDE DEF M, N
    <3>5. M' + N <= M + N
      BY <3>1, <3>3, <3>4, KeptSum
    <3>6. QED BY <3>2, <3>3, <3>4, <3>5
  <2>3. QED BY <1>0, <2>1, <2>2, OnePlaceStays
<1>4. ASSUME NEW i \in ZProcs, ZOwnStep(i)
      PROVE  InOnePlace'
  <2>1. UNCHANGED <<cpc, serverFifo, yVars>>
    BY <1>4 DEF ZOwnStep, ZStep, ZHandlerStep, ZHandlerPost, ZReadHandled, ZLeave, clientVars,
       ZParentStep, LookLast, ReadServerP, PostCommon, CopyToSlot, ScanStatus, Continue,
       ZWorkerStep, TakeSlot, ZOpenFifo, Connect, ZAnswer, WriteAnswer, FreeSlot,
       WaitCommon, PostHandled, WaitLast, Stop
  <2>2. ASSUME NEW c \in Clients PROVE Requests(c)' <= Requests(c)
    <3> DEFINE V == Times(serverP, c)
               M == V + RequestsInZ(c) + inbox[c]
               N == Times(serverFifo, c) + One(yreq = c) + Times(p, c) + Times(wfd, c)
    <3>1. M' <= M
      BY <1>4, RequestsOfZ DEF SlotIsFresh
    <3>2. N' = N /\ N \in Nat
      BY <2>1, RequestsSplit DEF yVars, One
    <3>3. M \in Nat /\ Requests(c) = M + N
      <4>1. RequestsInY(c) = N + V
        BY DEF RequestsInY
      <4>2. V \in Nat /\ RequestsInZ(c) \in Nat /\ inbox[c] \in Nat
            /\ Requests(c) = RequestsInY(c) + RequestsInZ(c) + inbox[c]
        BY RequestsSplit
      <4> HIDE DEF V, N
      <4>3. QED BY <3>2, <4>1, <4>2
    <3>4. M' \in Nat /\ Requests(c)' = M' + N'
      <4>1. RequestsInY(c)' = N' + V'
        BY DEF RequestsInY
      <4>2. V' \in Nat /\ RequestsInZ(c)' \in Nat /\ inbox'[c] \in Nat
            /\ Requests(c)' = RequestsInY(c)' + RequestsInZ(c)' + inbox'[c]
        BY <1>0, RequestsAfter
      <4> HIDE DEF V, N
      <4>3. QED BY <3>2, <4>1, <4>2
    <3> HIDE DEF M, N
    <3>5. M' + N <= M + N
      BY <3>1, <3>2, <3>3, <3>4, KeptSum
    <3>6. QED BY <3>2, <3>3, <3>4, <3>5
  <2>3. QED BY <1>0, <2>1, <2>2, OnePlaceStays
<1>5. CASE CtrlC \/ KillParent
  BY <1>5 DEF CtrlC, KillParent, InOnePlace, Requests, clientVars, yVars, zVars, zHistory
<1>6. QED BY <1>1, <1>2, <1>3, <1>4, <1>5 DEF Next, Handler, YOwnStep, ZOwnStep

LEMMA AnsweredInitially == Init => AnsweredInv
<1> SUFFICES ASSUME Init PROVE InOnePlace /\ SlotIsFresh
  BY AnsweredTogether
<1>1. SlotIsFresh
  <2>1. 0 \in ZProcs /\ ZWorkers = ZProcs \ {0}
    BY Pools DEF Init, SharedInit
  <2>2. QED BY <2>1 DEF Init, ZInit, SlotIsFresh, ReadsSlot
<1>2. ASSUME NEW c \in Clients PROVE Requests(c) = 0
  <2>1. c # Nobody
    BY PoolAssumption DEF Nobody
  <2>2. /\ {k \in DOMAIN serverFifo : serverFifo[k] = c} = {}
        /\ {k \in DOMAIN serverP : serverP[k] = c} = {}
        /\ {k \in DOMAIN p : p[k] = c} = {}
    BY DEF Init, SharedInit, YInit
  <2>3. {w \in DOMAIN wfd : wfd[w] = c} = {} /\ {w \in DOMAIN zfd : zfd[w] = c} = {}
    BY <2>1 DEF Init, YInit, ZInit
  <2>4. /\ Times(serverFifo, c) = 0 /\ Times(serverP, c) = 0 /\ Times(p, c) = 0
        /\ Times(wfd, c) = 0 /\ Times(zfd, c) = 0
    BY <2>2, <2>3, FS_EmptySet DEF Times
  <2>5. One(yreq = c) = 0 /\ One(zreq = c) = 0 /\ One(~ slotRead /\ shmem = c) = 0
    BY <2>1 DEF Init, YInit, ZInit, One
  <2>6. inbox[c] = 0
    BY DEF Init, SharedInit
  <2>7. QED BY <2>4, <2>5, <2>6 DEF Requests
<1>3. QED BY <1>1, <1>2 DEF InOnePlace

\* overwritten stays true.
LEMMA OverwrittenStays == Types /\ [Next]_vars /\ overwritten => overwritten'
<1> SUFFICES ASSUME Types, [Next]_vars, overwritten PROVE overwritten'
  OBVIOUS
<1>1. ASSUME NEW i \in ZProcs, ZOwnStep(i) PROVE overwritten'
  BY <1>1 DEF ZOwnStep, ZStep, ZHandlerStep, ZHandlerPost, ZReadHandled, ZLeave, zHistory,
     ZParentStep, LookLast, ReadServerP, PostCommon, CopyToSlot, ScanStatus, Continue,
     ZWorkerStep, TakeSlot, ZOpenFifo, ZAnswer, FreeSlot, WaitCommon, PostHandled, WaitLast,
     Stop
<1>2. CASE UNCHANGED zVars
  BY <1>2 DEF zVars, zHistory
<1>3. QED BY <1>1, <1>2 DEF vars, Next, ClientStep, ClientKilled, YStep, Handler, CtrlC,
         KillParent, ZOwnStep

LEMMA AnsweredInductive == Types /\ AnsweredInv /\ [Next]_vars => AnsweredInv'
<1> SUFFICES ASSUME Types, AnsweredInv, [Next]_vars, ~ overwritten'
             PROVE  InOnePlace' /\ SlotIsFresh'
  BY DEF AnsweredInv, InOnePlace, SlotIsFresh
<1>1. InOnePlace /\ SlotIsFresh
  BY OverwrittenStays, AnsweredTogether
<1>2. InOnePlace'
  BY <1>1, OnePlaceSteps
<1>3. SlotIsFresh'
  <2>1. ASSUME NEW i \in ZProcs, ZOwnStep(i) PROVE SlotIsFresh'
    BY <1>1, <2>1, FreshSteps
  <2>2. CASE UNCHANGED <<situation, zVars>>
    BY <1>1, <2>2, FreshStays
  <2>3. QED BY <2>1, <2>2 DEF vars, Next, ClientStep, ClientKilled, YStep, Handler, CtrlC,
           KillParent, ZOwnStep
<1>4. QED BY <1>2, <1>3

LEMMA AnsweredInvariant == Spec => []AnsweredInv
  BY AnsweredInitially, AnsweredInductive, PipelineTypes, PTL DEF Spec

(***************************************************************************)
(* As long as serverZ has not overwritten a request that nobody had read,  *)
(* no client is answered twice and no two workers serve it, whichever way  *)
(* its request takes and whoever is interrupted on the way.                *)
(***************************************************************************)
THEOREM ClientsAreAnsweredOnce == Spec => []AnsweredOnce
<1>1. Types /\ AnsweredInv => AnsweredOnce
  <2> SUFFICES ASSUME Types, AnsweredInv, ~ overwritten, NEW c \in Clients
               PROVE  inbox[c] + Cardinality(Served(c)) <= 1
    BY DEF AnsweredOnce
  <2>1. Requests(c) <= 1
    BY DEF AnsweredInv
  <2>2. /\ Times(serverFifo, c) \in Nat /\ Times(p, c) \in Nat /\ Times(serverP, c) \in Nat
        /\ Times(wfd, c) \in Nat /\ Times(zfd, c) \in Nat /\ inbox[c] \in Nat
        /\ One(yreq = c) \in Nat /\ One(zreq = c) \in Nat
        /\ One(~ slotRead /\ shmem = c) \in Nat
    BY RequestsSplit DEF One
  <2>3. Times(wfd, c) + Times(zfd, c) + inbox[c] <= 1
    BY <2>1, <2>2 DEF Requests
  <2>4. /\ Cardinality(Served(c)) \in Nat
        /\ Cardinality(Served(c)) <= Times(wfd, c) + Times(zfd, c)
    BY ServedCount
  <2>5. QED BY <2>2, <2>3, <2>4
<1>2. QED BY <1>1, AnsweredInvariant, PipelineTypes, PTL
=============================================================================
