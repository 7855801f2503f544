------------------------------- MODULE Client -------------------------------
(***************************************************************************)
(* The client of the Final Project (client.c): main creates one thread per *)
(* line of the request file and joins them; the threads meet at a barrier  *)
(* made of a mutex, a condition variable and a counter, and then each one  *)
(* connects to the server, writes its request and reads the answer.        *)
(*                                                                         *)
(* num_threads and flag are used under the mutex only, so the code between *)
(* lock (or the return of pthread_cond_wait) and unlock (or the next wait) *)
(* is one step.  The server is outside: it accepts or refuses a connection *)
(* and answers it, closes it or keeps it waiting.                          *)
(***************************************************************************)
EXTENDS Integers, FiniteSets

CONSTANTS
    requestSize,    \* the number of requests in the file
    Failures        \* which of "create", "refused", "reset", "closed", "SIGINT"
                    \* occur

ASSUME RequestSizeAssumption == requestSize \in Nat \ {0}

Threads == 0 .. requestSize - 1

VARIABLES
    mpc,            \* main: "create", "join", or how the process ended
    mindex,         \* the index i of main's loops
    pc,             \* where each thread is
    num_threads, flag, sig,
    answer          \* what each thread prints: "none" before it does

mainVars == <<mpc, mindex>>
barrierVars == <<num_threads, flag>>
vars == <<mainVars, pc, barrierVars, sig, answer>>

Ended == {"goodbye", "failure"}

Init ==
    /\ mpc = "create" /\ mindex = 0
    /\ pc = [t \in Threads |-> "absent"]
    /\ num_threads = 0 /\ flag = 0 /\ sig = FALSE
    /\ answer = [t \in Threads |-> "none"]
-----------------------------------------------------------------------------
\* Mutant of Create: the loop of the joins starts at its second thread.
CreateJoinsLate ==
    /\ mpc = "create"
    /\ pc' = [pc EXCEPT ![mindex] = "arrive"]
    /\ mindex' = IF mindex + 1 = requestSize THEN 1 ELSE mindex + 1
    /\ mpc' = IF mindex + 1 = requestSize THEN "join" ELSE mpc
    /\ UNCHANGED <<barrierVars, sig, answer>>

Create ==
    /\ mpc = "create"
    /\ pc' = [pc EXCEPT ![mindex] = "arrive"]
    /\ IF mindex + 1 = requestSize THEN mpc' = "join" /\ mindex' = 0
                                   ELSE mpc' = mpc /\ mindex' = mindex + 1
    /\ UNCHANGED <<barrierVars, sig, answer>>

\* A thread cannot be created: the process ends with those it has.
CreateFails ==
    /\ mpc = "create" /\ "create" \in Failures
    /\ mpc' = "failure"
    /\ UNCHANGED <<mindex, pc, barrierVars, sig, answer>>

\* The flag is tested before a join, never while main is blocked in one.
\* The model's step is the test and the join it leads to.
TestSig ==
    /\ mpc = "join" /\ mindex < requestSize
    /\ IF sig THEN mpc' = "failure" ELSE mpc' = "joining"
    /\ UNCHANGED <<mindex, pc, barrierVars, sig, answer>>

Join ==
    /\ mpc = "joining" /\ pc[mindex] = "terminated"
    /\ mindex' = mindex + 1
    /\ mpc' = "join"
    /\ UNCHANGED <<pc, barrierVars, sig, answer>>

Goodbye ==
    /\ mpc = "join" /\ mindex = requestSize
    /\ mpc' = "goodbye"
    /\ UNCHANGED <<mindex, pc, barrierVars, sig, answer>>

Sigint ==
    /\ "SIGINT" \in Failures
    /\ sig' = TRUE
    /\ UNCHANGED <<mainVars, pc, barrierVars, answer>>
-----------------------------------------------------------------------------
\* Mutant of Proceed: the first thread to pass wakes one other.
ProceedSignals(t) ==
    IF num_threads' < requestSize
    THEN pc' = [pc EXCEPT ![t] = "waiting"] /\ flag' = flag
    ELSE /\ flag' = 1
         /\ \E u \in Threads :
               /\ u = t \/ pc[u] = "waiting"
               /\ pc' = IF flag = 0 /\ u # t
                        THEN [pc EXCEPT ![t] = "connect", ![u] = "woken"]
                        ELSE [pc EXCEPT ![t] = "connect"]

\* The test of the while loop, at arrival and after every wakeup.  The first
\* thread to pass wakes the others.
Proceed(t) ==
    IF num_threads' < requestSize
    THEN /\ pc' = [pc EXCEPT ![t] = "waiting"]
         /\ flag' = flag
    ELSE /\ pc' = [u \in Threads |->
                     IF u = t THEN "connect"
                     ELSE IF flag = 0 /\ pc[u] = "waiting" THEN "woken"
                     ELSE pc[u]]
         /\ flag' = 1

Arrive(t) ==
    /\ pc[t] = "arrive"
    /\ num_threads' = num_threads + 1
    /\ Proceed(t)
    /\ UNCHANGED <<mainVars, sig, answer>>

\* Mutant of Wake: the counter is not tested again.
WakeUntested(t) ==
    /\ pc[t] = "woken"
    /\ pc' = [pc EXCEPT ![t] = "connect"]
    /\ UNCHANGED <<mainVars, barrierVars, sig, answer>>

Wake(t) ==
    /\ pc[t] = "woken"
    /\ num_threads' = num_threads
    /\ Proceed(t)
    /\ UNCHANGED <<mainVars, sig, answer>>

\* pthread_cond_wait may return without a broadcast.
SpuriousWakeup(t) ==
    /\ pc[t] = "waiting"
    /\ pc' = [pc EXCEPT ![t] = "woken"]
    /\ UNCHANGED <<mainVars, barrierVars, sig, answer>>

\* connect and write.  A refused connection ends the process, with every
\* other thread in it.
Connect(t) ==
    /\ pc[t] = "connect"
    /\ pc' = [pc EXCEPT ![t] = "read"]
    /\ UNCHANGED <<mainVars, barrierVars, sig, answer>>

Refused(t) ==
    /\ pc[t] = "connect" /\ "refused" \in Failures
    /\ mpc' = "failure"
    /\ UNCHANGED <<mindex, pc, barrierVars, sig, answer>>

\* The answer is read and printed.  A server that closes without a word
\* makes read give 0, and the thread prints an uninitialised response.
Read(t) ==
    /\ pc[t] = "read"
    /\ \E a \in {"RESPONSE", "NO_CITY_RESPONSE"} \union
                (IF "closed" \in Failures THEN {"uninitialised"} ELSE {}) :
          answer' = [answer EXCEPT ![t] = a]
    /\ pc' = [pc EXCEPT ![t] = "terminated"]
    /\ UNCHANGED <<mainVars, barrierVars, sig>>

\* A connection that is reset ends the process.
ReadFails(t) ==
    /\ pc[t] = "read" /\ "reset" \in Failures
    /\ mpc' = "failure"
    /\ UNCHANGED <<mindex, pc, barrierVars, sig, answer>>

MainStep == mpc \notin Ended /\ (Create \/ TestSig \/ Join \/ Goodbye)

ThreadStep(t) == mpc \notin Ended /\ (Arrive(t) \/ Wake(t) \/ Connect(t))

Outside ==
    /\ mpc \notin Ended
    /\ \/ Sigint \/ CreateFails
       \/ \E t \in Threads :
             SpuriousWakeup(t) \/ Refused(t) \/ Read(t) \/ ReadFails(t)

Next == MainStep \/ (\E t \in Threads : ThreadStep(t)) \/ Outside

Spec == Init /\ [][Next]_vars

\* Main and the threads that can run do run.  Whether the server answers is
\* not the client's to say.
FairSpec ==
    /\ Spec
    /\ WF_vars(MainStep)
    /\ \A t \in Threads : WF_vars(ThreadStep(t))
-----------------------------------------------------------------------------
Stages == {"absent", "arrive", "waiting", "woken", "connect", "read",
           "terminated"}
BeforeBarrier == {"absent", "arrive"}
PastBarrier == {"connect", "read", "terminated"}

TypeOK ==
    /\ mpc \in {"create", "join", "joining"} \union Ended
    /\ mindex \in 0 .. requestSize
    /\ pc \in [Threads -> Stages]
    /\ num_threads \in 0 .. requestSize
    /\ flag \in {0, 1} /\ sig \in BOOLEAN
    /\ answer \in [Threads -> {"none", "RESPONSE", "NO_CITY_RESPONSE",
                               "uninitialised"}]

(***************************************************************************)
(* The barrier: no thread connects to the server before every thread has   *)
(* been created and has arrived (lines 248-269 of client.c), also when     *)
(* pthread_cond_wait returns for no reason.                                *)
(***************************************************************************)
NobodyEarly ==
    \A t, u \in Threads : pc[t] \in PastBarrier => pc[u] \notin BeforeBarrier

(***************************************************************************)
(* client.c:90 prints "All threads have terminated, goodbye.": it is true  *)
(* when it is printed, and every request's answer was printed before.      *)
(***************************************************************************)
GoodbyeIsLast ==
    mpc = "goodbye" =>
        \A t \in Threads : pc[t] = "terminated" /\ answer[t] # "none"

(***************************************************************************)
(* The barrier lets everybody through: unless the process ends first,      *)
(* every thread gets to the server, although only the first thread that    *)
(* passes wakes the others, and only once (flag).                          *)
(***************************************************************************)
EverybodyPasses ==
    <>(mpc \in Ended \/ \A t \in Threads : pc[t] \in PastBarrier)
=============================================================================
