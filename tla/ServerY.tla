------------------------------- MODULE ServerY -------------------------------
(***************************************************************************)
(* serverY.c: the parent reads a request from its FIFO and gives it to its *)
(* own pool through the pipe p while fewer than poolSize workers are busy, *)
(* else to serverZ through the pipe serverP while fewer than poolSize2 are *)
(* busy there.  It looks at both counters BEFORE it blocks in read.        *)
(*                                                                         *)
(* The counters are semaphores nobody waits on for admission: sema is      *)
(* posted by the parent and waited on by a worker that has finished.       *)
(***************************************************************************)
EXTENDS MatrixRequests

VARIABLES
    ypc,            \* where each process of serverY is; 0 is the parent
    ya,             \* the parent's a, the value of sema it saw
    yreq,           \* its client_request
    p,              \* the requests in the pipe to its pool
    sema, forwardedSemaphore, handledSemaphore,
    wfd,            \* the client each worker serves
    sigintSemaphore,
    yhandled,       \* what the handler that writes the totals read first
    totalsY         \* the lines with the totals written to the log

yVars == <<ypc, ya, yreq, p, sema, forwardedSemaphore, handledSemaphore, wfd,
           sigintSemaphore, yhandled, totalsY>>

YInit ==
    /\ ypc = [i \in YProcs |-> IF i = 0 THEN "lookA" ELSE "read"]
    /\ ya = 0 /\ yreq = Nobody
    /\ p = <<>> /\ sema = 0
    /\ forwardedSemaphore = 0 /\ handledSemaphore = 0
    /\ wfd = [w \in YWorkers |-> Nobody]
    /\ sigintSemaphore = 0 /\ yhandled = 0 /\ totalsY = <<>>

YGoto(i, label) == ypc' = [ypc EXCEPT ![i] = label]
-----------------------------------------------------------------------------
(***************************************************************************)
(* The parent.                                                             *)
(***************************************************************************)
LookA ==
    /\ ypc[0] = "lookA"
    /\ ya' = sema
    /\ YGoto(0, "lookB")
    /\ UNCHANGED <<yreq, p, sema, forwardedSemaphore, handledSemaphore, wfd,
                   sigintSemaphore, yhandled, totalsY, clientVars, serverP,
                   sharedSema>>

\* With both pools full it looks again and again.
LookB ==
    /\ ypc[0] = "lookB"
    /\ YGoto(0, IF ya >= poolSize /\ sharedSema >= poolSize2
                THEN "lookA" ELSE "read")
    /\ UNCHANGED <<ya, yreq, p, sema, forwardedSemaphore, handledSemaphore, wfd,
                   sigintSemaphore, yhandled, totalsY, clientVars, serverP,
                   sharedSema>>

\* Where the request goes was settled by ya before it came: with ya below
\* poolSize to the own pool, else (sharedSema was below poolSize2) to serverZ.
ReadRequest ==
    /\ ypc[0] = "read" /\ serverFifo # <<>>
    /\ yreq' = Head(serverFifo)
    /\ serverFifo' = Tail(serverFifo)
    /\ YGoto(0, IF ya < poolSize THEN "post" ELSE "forward")
    /\ UNCHANGED <<ya, p, sema, forwardedSemaphore, handledSemaphore, wfd,
                   sigintSemaphore, yhandled, totalsY, cpc, connected, inbox,
                   serverP, sharedSema>>

\* Mutant of PostSema: the request is written to the pipe before the counter
\* is posted.
PostSemaForgets ==
    /\ ypc[0] = "post"
    /\ YGoto(0, "writeP")
    /\ UNCHANGED <<ya, yreq, p, sema, forwardedSemaphore, handledSemaphore, wfd,
                   sigintSemaphore, yhandled, totalsY, clientVars, serverP,
                   sharedSema>>

PostSema ==
    /\ ypc[0] = "post"
    /\ sema' = sema + 1
    /\ YGoto(0, "writeP")
    /\ UNCHANGED <<ya, yreq, p, forwardedSemaphore, handledSemaphore, wfd,
                   sigintSemaphore, yhandled, totalsY, clientVars, serverP,
                   sharedSema>>

WriteP ==
    /\ ypc[0] = "writeP"
    /\ p' = Append(p, yreq)
    /\ yreq' = Nobody
    /\ YGoto(0, "lookA")
    /\ UNCHANGED <<ya, sema, forwardedSemaphore, handledSemaphore, wfd,
                   sigintSemaphore, yhandled, totalsY, clientVars, serverP,
                   sharedSema>>

\* The counter of the forwarded requests is the parent's alone.
Forward ==
    /\ ypc[0] = "forward"
    /\ forwardedSemaphore' = forwardedSemaphore + 1
    /\ serverP' = Append(serverP, yreq)
    /\ yreq' = Nobody
    /\ YGoto(0, "lookA")
    /\ UNCHANGED <<ya, p, sema, handledSemaphore, wfd, sigintSemaphore,
                   yhandled, totalsY, clientVars, sharedSema>>

YParentStep ==
    \/ LookA \/ LookB \/ ReadRequest
    \/ PostSema \/ WriteP \/ Forward
-----------------------------------------------------------------------------
(***************************************************************************)
(* A worker of the pool.                                                   *)
(***************************************************************************)
\* Reading the request and calling open are one step: no other process has
\* this request.
TakeRequest(w) ==
    /\ ypc[w] = "read" /\ p # <<>>
    /\ p' = Tail(p)
    /\ LET c == Head(p)
       IN  IF FifoExists(c)
           THEN wfd' = [wfd EXCEPT ![w] = c] /\ YGoto(w, "open")
           ELSE wfd' = wfd /\ YGoto(w, "answer")
    /\ UNCHANGED <<ya, yreq, sema, forwardedSemaphore, handledSemaphore,
                   sigintSemaphore, yhandled, totalsY, clientVars, serverP,
                   sharedSema>>

OpenFifo(w) ==
    /\ ypc[w] = "open"
    /\ Connect(wfd[w])
    /\ YGoto(w, "answer")
    /\ UNCHANGED <<ya, yreq, p, sema, forwardedSemaphore, handledSemaphore, wfd,
                   sigintSemaphore, yhandled, totalsY, serverP, sharedSema>>

\* After its sleep the worker counts the request, and answers it.
Answer(w) ==
    /\ ypc[w] = "answer"
    /\ handledSemaphore' = handledSemaphore + 1
    /\ WriteAnswer(wfd[w])
    /\ YGoto(w, IF WriteKills(wfd[w]) THEN "dead" ELSE "release")
    /\ wfd' = [wfd EXCEPT ![w] = Nobody]
    /\ UNCHANGED <<ya, yreq, p, sema, forwardedSemaphore, sigintSemaphore,
                   yhandled, totalsY, serverP, sharedSema>>

WaitSema(w) ==
    /\ ypc[w] = "release" /\ sema > 0
    /\ sema' = sema - 1
    /\ YGoto(w, "read")
    /\ UNCHANGED <<ya, yreq, p, forwardedSemaphore, handledSemaphore, wfd,
                   sigintSemaphore, yhandled, totalsY, clientVars, serverP,
                   sharedSema>>

YWorkerStep(w) ==
    \/ TakeRequest(w) \/ OpenFifo(w) \/ Answer(w) \/ WaitSema(w)
-----------------------------------------------------------------------------
(***************************************************************************)
(* The SIGINT handler, in any process of serverY.                          *)
(***************************************************************************)
InHandler == {"posted", "totals"}

YHandlerPost(i) ==
    /\ i \in pendingY /\ ypc[i] \notin InHandler \union {"dead"}
    /\ sigintSemaphore' = sigintSemaphore + 1
    /\ YGoto(i, "posted")
    /\ UNCHANGED <<ya, yreq, p, sema, forwardedSemaphore, handledSemaphore, wfd,
                   yhandled, totalsY, clientVars, serverP, sharedSema, pendingY,
                   pendingZ>>

\* Mutant of YReadHandled: every process writes the totals.
YReadHandledAlways(i) ==
    /\ ypc[i] = "posted" /\ sigintSemaphore >= 1
    /\ yhandled' = handledSemaphore
    /\ YGoto(i, "totals")
    /\ UNCHANGED <<ya, yreq, p, sema, forwardedSemaphore, handledSemaphore, wfd,
                   sigintSemaphore, totalsY, clientVars, serverP, sharedSema,
                   pendingY, pendingZ>>

\* The process that finds the semaphore at 1 is to write the totals.
YReadHandled(i) ==
    /\ ypc[i] = "posted" /\ sigintSemaphore = 1
    /\ yhandled' = handledSemaphore
    /\ YGoto(i, "totals")
    /\ UNCHANGED <<ya, yreq, p, sema, forwardedSemaphore, handledSemaphore, wfd,
                   sigintSemaphore, totalsY, clientVars, serverP, sharedSema,
                   pendingY, pendingZ>>

\* Each one passes the signal on to serverZ's parent, and exits.
YLeave(i) ==
    /\ \/ /\ ypc[i] = "totals"
          /\ totalsY' = Append(totalsY, [handled |-> yhandled,
                                         forwarded |-> forwardedSemaphore])
       \/ /\ ypc[i] = "posted" /\ sigintSemaphore # 1
          /\ totalsY' = totalsY
    /\ pendingZ' = pendingZ \union {0}
    /\ YGoto(i, "dead")
    /\ wfd' = [w \in YWorkers |-> IF w = i THEN Nobody ELSE wfd[w]]
    /\ UNCHANGED <<ya, yreq, p, sema, forwardedSemaphore, handledSemaphore,
                   sigintSemaphore, yhandled, clientVars, serverP, sharedSema,
                   pendingY>>

YHandlerStep(i) == YHandlerPost(i) \/ YReadHandled(i) \/ YLeave(i)
=============================================================================
