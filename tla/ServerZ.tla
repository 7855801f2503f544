------------------------------- MODULE ServerZ -------------------------------
(***************************************************************************)
(* serverZ.c: the parent copies a request from the pipe into the one slot  *)
(* of shared memory, marks a free worker as taken and continues it with    *)
(* SIGCONT; the worker reads the slot, answers, marks itself free, counts  *)
(* down the semaphores the parent counted up and stops itself.             *)
(*                                                                         *)
(* Nothing but the counter last holds the parent back: it may write the    *)
(* slot before the worker it continued has read it, and may continue a     *)
(* worker that has marked itself free and has not stopped yet.  The        *)
(* history variables overwritten and missed say that this has happened.    *)
(*                                                                         *)
(* A SIGSTOP takes effect at once.  The semaphore busy, which only a log   *)
(* line shows, is left out.                                                *)
(***************************************************************************)
EXTENDS MatrixRequests

VARIABLES
    zpc,            \* where each process of serverZ is; 0 is the parent
    stopped,        \* the workers that are stopped
    zreq,           \* the parent's serverZreq
    zindex,         \* its i
    shmem,          \* the slot
    status,         \* sharedArray[w - 1].status of worker w
    last, handledZ, invertedSemaphore,
    zfd,            \* the client each worker took from the slot
    sigintSemaphoreZ,
    zhandled,       \* what the handler that writes the totals read first
    totalsZ,        \* the lines with the totals written to the log
    slotRead,       \* history: the slot was read since it was written
    overwritten,    \* history: a request nobody had read was overwritten
    missed          \* history: a worker that was not stopped was continued

zVars == <<zpc, stopped, zreq, zindex, shmem, status, last, handledZ,
           invertedSemaphore, zfd, sigintSemaphoreZ, zhandled, totalsZ,
           slotRead, overwritten, missed>>
zHistory == <<slotRead, overwritten, missed>>

ZInit ==
    /\ zpc = [i \in ZProcs |-> IF i = 0 THEN "look" ELSE "slot"]
    /\ stopped = ZWorkers
    /\ zreq = Nobody /\ zindex = 1 /\ shmem = Nobody
    /\ status = [w \in ZWorkers |-> 0]
    /\ last = 0 /\ handledZ = 0 /\ invertedSemaphore = 0
    /\ zfd = [w \in ZWorkers |-> Nobody]
    /\ sigintSemaphoreZ = 0 /\ zhandled = 0 /\ totalsZ = <<>>
    /\ slotRead = TRUE /\ overwritten = FALSE /\ missed = FALSE

ZGoto(i, label) == zpc' = [zpc EXCEPT ![i] = label]
-----------------------------------------------------------------------------
(***************************************************************************)
(* The parent.                                                             *)
(***************************************************************************)
\* Mutant of LookLast: one request too many is let in.
LookLastLate ==
    /\ zpc[0] = "look"
    /\ last <= poolSize2
    /\ ZGoto(0, "read")
    /\ UNCHANGED <<stopped, zreq, zindex, shmem, status, last, handledZ,
                   invertedSemaphore, zfd, sigintSemaphoreZ, zhandled, totalsZ,
                   zHistory, clientVars, serverP, sharedSema>>

\* While all workers are taken it looks again and again.
LookLast ==
    /\ zpc[0] = "look"
    /\ last < poolSize2
    /\ ZGoto(0, "read")
    /\ UNCHANGED <<stopped, zreq, zindex, shmem, status, last, handledZ,
                   invertedSemaphore, zfd, sigintSemaphoreZ, zhandled, totalsZ,
                   zHistory, clientVars, serverP, sharedSema>>

ReadServerP ==
    /\ zpc[0] = "read" /\ serverP # <<>>
    /\ zreq' = Head(serverP)
    /\ serverP' = Tail(serverP)
    /\ ZGoto(0, "postCommon")
    /\ UNCHANGED <<stopped, zindex, shmem, status, last, handledZ,
                   invertedSemaphore, zfd, sigintSemaphoreZ, zhandled, totalsZ,
                   zHistory, clientVars, sharedSema>>

\* Mutant of PostCommon: serverY's counter is not posted.
PostCommonForgets ==
    /\ zpc[0] = "postCommon"
    /\ ZGoto(0, "copy")
    /\ UNCHANGED <<stopped, zreq, zindex, shmem, status, last, handledZ,
                   invertedSemaphore, zfd, sigintSemaphoreZ, zhandled, totalsZ,
                   zHistory, clientVars, serverP, sharedSema>>

\* Until here serverY does not see the request in the counter it forwards by.
PostCommon ==
    /\ zpc[0] = "postCommon"
    /\ sharedSema' = sharedSema + 1
    /\ ZGoto(0, "copy")
    /\ UNCHANGED <<stopped, zreq, zindex, shmem, status, last, handledZ,
                   invertedSemaphore, zfd, sigintSemaphoreZ, zhandled, totalsZ,
                   zHistory, clientVars, serverP>>

CopyToSlot ==
    /\ zpc[0] = "copy"
    /\ shmem' = zreq
    /\ zreq' = Nobody
    /\ zindex' = 1
    /\ ZGoto(0, "scan")
    /\ slotRead' = FALSE
    /\ overwritten' = (overwritten \/ ~ slotRead)
    /\ UNCHANGED <<stopped, status, last, handledZ, invertedSemaphore, zfd,
                   sigintSemaphoreZ, zhandled, totalsZ, missed, clientVars,
                   serverP, sharedSema>>

\* One element of sharedArray a step: the first free worker is taken.  With
\* none the parent goes on, and the request in the slot is dropped.
ScanStatus ==
    /\ zpc[0] = "scan"
    /\ IF status[zindex] = 0
       THEN /\ last' = last + 1
            /\ status' = [status EXCEPT ![zindex] = 1]
            /\ ZGoto(0, "wake")
            /\ zindex' = zindex
       ELSE /\ zindex' = zindex + 1
            /\ ZGoto(0, IF zindex = poolSize2 THEN "look" ELSE "scan")
            /\ UNCHANGED <<last, status>>
    /\ UNCHANGED <<stopped, zreq, shmem, handledZ, invertedSemaphore, zfd,
                   sigintSemaphoreZ, zhandled, totalsZ, zHistory, clientVars,
                   serverP, sharedSema>>

\* SIGCONT to a process that is not stopped does nothing.
Continue ==
    /\ zpc[0] = "wake"
    /\ stopped' = stopped \ {zindex}
    /\ missed' = (missed \/ zindex \notin stopped)
    /\ ZGoto(0, "look")
    /\ UNCHANGED <<zreq, zindex, shmem, status, last, handledZ,
                   invertedSemaphore, zfd, sigintSemaphoreZ, zhandled, totalsZ,
                   slotRead, overwritten, clientVars, serverP, sharedSema>>

ZParentStep ==
    \/ LookLast \/ ReadServerP \/ PostCommon \/ CopyToSlot \/ ScanStatus
    \/ Continue
-----------------------------------------------------------------------------
(***************************************************************************)
(* A worker that is not stopped.                                           *)
(***************************************************************************)
\* Reading the slot and calling open are one step.  A FIFO that is gone gives
\* -1, which the code reports and goes on with.
TakeSlot(w) ==
    /\ zpc[w] = "slot"
    /\ slotRead' = TRUE
    /\ IF FifoExists(shmem)
       THEN zfd' = [zfd EXCEPT ![w] = shmem] /\ ZGoto(w, "open")
       ELSE zfd' = zfd /\ ZGoto(w, "answer")
    /\ UNCHANGED <<stopped, zreq, zindex, shmem, status, last, handledZ,
                   invertedSemaphore, sigintSemaphoreZ, zhandled, totalsZ,
                   overwritten, missed, clientVars, serverP, sharedSema>>

ZOpenFifo(w) ==
    /\ zpc[w] = "open"
    /\ Connect(zfd[w])
    /\ ZGoto(w, "answer")
    /\ UNCHANGED <<stopped, zreq, zindex, shmem, status, last, handledZ,
                   invertedSemaphore, zfd, sigintSemaphoreZ, zhandled, totalsZ,
                   zHistory, serverP, sharedSema>>

\* After its sleep the worker counts the matrix as invertible, which every
\* one is for it, and answers.
ZAnswer(w) ==
    /\ zpc[w] = "answer"
    /\ invertedSemaphore' = invertedSemaphore + 1
    /\ WriteAnswer(zfd[w])
    /\ ZGoto(w, IF WriteKills(zfd[w]) THEN "dead" ELSE "free")
    /\ zfd' = [zfd EXCEPT ![w] = Nobody]
    /\ UNCHANGED <<stopped, zreq, zindex, shmem, status, last, handledZ,
                   sigintSemaphoreZ, zhandled, totalsZ, zHistory, serverP,
                   sharedSema>>

FreeSlot(w) ==
    /\ zpc[w] = "free"
    /\ status' = [status EXCEPT ![w] = 0]
    /\ ZGoto(w, "waitCommon")
    /\ UNCHANGED <<stopped, zreq, zindex, shmem, last, handledZ,
                   invertedSemaphore, zfd, sigintSemaphoreZ, zhandled, totalsZ,
                   zHistory, clientVars, serverP, sharedSema>>

WaitCommon(w) ==
    /\ zpc[w] = "waitCommon" /\ sharedSema > 0
    /\ sharedSema' = sharedSema - 1
    /\ ZGoto(w, "postHandled")
    /\ UNCHANGED <<stopped, zreq, zindex, shmem, status, last, handledZ,
                   invertedSemaphore, zfd, sigintSemaphoreZ, zhandled, totalsZ,
                   zHistory, clientVars, serverP>>

PostHandled(w) ==
    /\ zpc[w] = "postHandled"
    /\ handledZ' = handledZ + 1
    /\ ZGoto(w, "waitLast")
    /\ UNCHANGED <<stopped, zreq, zindex, shmem, status, last,
                   invertedSemaphore, zfd, sigintSemaphoreZ, zhandled, totalsZ,
                   zHistory, clientVars, serverP, sharedSema>>

\* Mutant of WaitLast: the parent is not told that the worker is free.
WaitLastForgets(w) ==
    /\ zpc[w] = "waitLast"
    /\ ZGoto(w, "stop")
    /\ UNCHANGED <<stopped, zreq, zindex, shmem, status, last, handledZ,
                   invertedSemaphore, zfd, sigintSemaphoreZ, zhandled, totalsZ,
                   zHistory, clientVars, serverP, sharedSema>>

WaitLast(w) ==
    /\ zpc[w] = "waitLast" /\ last > 0
    /\ last' = last - 1
    /\ ZGoto(w, "stop")
    /\ UNCHANGED <<stopped, zreq, zindex, shmem, status, handledZ,
                   invertedSemaphore, zfd, sigintSemaphoreZ, zhandled, totalsZ,
                   zHistory, clientVars, serverP, sharedSema>>

\* Mutant of Stop: the worker goes on.
StopForgets(w) ==
    /\ zpc[w] = "stop"
    /\ ZGoto(w, "slot")
    /\ UNCHANGED <<stopped, zreq, zindex, shmem, status, last, handledZ,
                   invertedSemaphore, zfd, sigintSemaphoreZ, zhandled, totalsZ,
                   zHistory, clientVars, serverP, sharedSema>>

Stop(w) ==
    /\ zpc[w] = "stop"
    /\ stopped' = stopped \union {w}
    /\ ZGoto(w, "slot")
    /\ UNCHANGED <<zreq, zindex, shmem, status, last, handledZ,
                   invertedSemaphore, zfd, sigintSemaphoreZ, zhandled, totalsZ,
                   zHistory, clientVars, serverP, sharedSema>>

ZWorkerStep(w) ==
    /\ w \notin stopped
    /\ \/ TakeSlot(w) \/ ZOpenFifo(w) \/ ZAnswer(w) \/ FreeSlot(w)
       \/ WaitCommon(w) \/ PostHandled(w) \/ WaitLast(w) \/ Stop(w)
-----------------------------------------------------------------------------
(***************************************************************************)
(* The SIGINT handler.  A stopped worker does not run it.                  *)
(***************************************************************************)
ZInHandler == {"posted", "totals"}

ZHandlerPost(i) ==
    /\ i \in pendingZ \ stopped /\ zpc[i] \notin ZInHandler \union {"dead"}
    /\ sigintSemaphoreZ' = sigintSemaphoreZ + 1
    /\ ZGoto(i, "posted")
    /\ UNCHANGED <<stopped, zreq, zindex, shmem, status, last, handledZ,
                   invertedSemaphore, zfd, zhandled, totalsZ, zHistory,
                   clientVars, serverP, sharedSema>>

ZReadHandled(i) ==
    /\ zpc[i] = "posted" /\ sigintSemaphoreZ = 1
    /\ zhandled' = handledZ
    /\ ZGoto(i, "totals")
    /\ UNCHANGED <<stopped, zreq, zindex, shmem, status, last, handledZ,
                   invertedSemaphore, zfd, sigintSemaphoreZ, totalsZ, zHistory,
                   clientVars, serverP, sharedSema>>

ZLeave(i) ==
    /\ \/ /\ zpc[i] = "totals"
          /\ totalsZ' = Append(totalsZ, [handled |-> zhandled,
                                         inverted |-> invertedSemaphore])
       \/ /\ zpc[i] = "posted" /\ sigintSemaphoreZ # 1
          /\ totalsZ' = totalsZ
    /\ ZGoto(i, "dead")
    /\ zfd' = [w \in ZWorkers |-> IF w = i THEN Nobody ELSE zfd[w]]
    /\ UNCHANGED <<stopped, zreq, zindex, shmem, status, last, handledZ,
                   invertedSemaphore, sigintSemaphoreZ, zhandled, zHistory,
                   clientVars, serverP, sharedSema>>

ZHandlerStep(i) == ZHandlerPost(i) \/ ZReadHandled(i) \/ ZLeave(i)
=============================================================================
