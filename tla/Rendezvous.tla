----------------------------- MODULE Rendezvous -----------------------------
(***************************************************************************)
(* Homework 5 (hw5.c): m threads multiply two square matrices, each the    *)
(* columns it owns, meet at a rendezvous made of a mutex, a counter and a  *)
(* condition variable, and then transform their columns of the product,    *)
(* for which each of them reads all of it.  Main joins them and writes the *)
(* result.  SIGINT sets a flag that everybody tests at certain places.     *)
(*                                                                         *)
(* Arithmetic on the elements is left out: a column of the product is      *)
(* there or not.  What a thread computes in one loop is one step here.     *)
(***************************************************************************)
EXTENDS Integers, FiniteSets

CONSTANTS
    m,              \* the number of threads, the argument -m
    matrixSize,     \* rows and columns, 2^n for the argument -n
    Lengths,        \* how many characters an input file may have
    Interrupts      \* whether a SIGINT may come

ASSUME RendezvousAssumption ==
    /\ m \in Nat /\ m >= 2
    /\ matrixSize \in Nat /\ matrixSize >= 8
    /\ Lengths \subseteq Nat
    /\ Interrupts \in BOOLEAN

NoThread == -1

Threads == 0 .. m - 1

AllColumns == 0 .. matrixSize - 1

VARIABLES
    mpc,            \* main: where it is, or how it ended
    index,          \* the index i of main's loops
    pc,             \* where each thread is
    sig,            \* set by the handler, never reset
    mtx,            \* the thread that holds the mutex, or NoThread
    total,          \* threads that reached the rendezvous
    length,         \* the lengths of the two input files
    product,        \* the columns of resultMatrix that are computed
    transformed     \* the columns of resultMatrixRe and resultMatrixImg that are

mainVars == <<mpc, index, length>>
columnVars == <<product, transformed>>
lockVars == <<mtx, total>>
vars == <<mainVars, pc, sig, lockVars, columnVars>>

Ended == {"failed", "exited", "returned"}

(***************************************************************************)
(* The columns a thread owns: equal shares, of which the last thread also  *)
(* takes the remainder; with more threads than columns one each, and none  *)
(* for the threads that are left over.                                     *)
(***************************************************************************)
share == matrixSize \div m

start(k) == IF m > matrixSize THEN k ELSE k * share

\* Mutant of end: the last thread does not take the remainder.
endNoRemainder(k) == IF m > matrixSize THEN k + 1 ELSE (k + 1) * share

end(k) ==
    IF matrixSize % m # 0 /\ k = m - 1 THEN matrixSize
    ELSE IF m > matrixSize THEN k + 1
    ELSE (k + 1) * share

Columns(k) == IF k < matrixSize THEN start(k) .. end(k) - 1 ELSE {}

(***************************************************************************)
(* What main makes of a file of so many characters: it fills rows until it *)
(* has enough of them, and finds fault only with a row begun and not ended.*)
(***************************************************************************)
Whole(characters) == characters >= matrixSize * matrixSize
Accepted(characters) == Whole(characters) \/ characters % matrixSize = 0

Init ==
    /\ mpc = "read" /\ index = 0
    /\ length \in Lengths \X Lengths
    /\ pc = [k \in Threads |-> "absent"]
    /\ sig = FALSE
    /\ mtx = NoThread /\ total = 0
    /\ product = {} /\ transformed = {}
-----------------------------------------------------------------------------
(***************************************************************************)
(* Main.                                                                   *)
(***************************************************************************)
Read ==
    /\ mpc = "read"
    /\ mpc' = IF Accepted(length[1]) /\ Accepted(length[2])
              THEN "start" ELSE "failed"
    /\ UNCHANGED <<index, length, pc, sig, lockVars, columnVars>>

\* Before the first thread, after each, before each join and at the end
\* main tests the flag, frees everything and exits, which ends the threads.
Tested(next) == mpc' = IF sig THEN "exited" ELSE next

Start ==
    /\ mpc = "start"
    /\ Tested("create")
    /\ UNCHANGED <<index, length, pc, sig, lockVars, columnVars>>

Create ==
    /\ mpc = "create" /\ index < m
    /\ pc' = [pc EXCEPT ![index] = "multiply"]
    /\ mpc' = "created" /\ index' = index + 1
    /\ UNCHANGED <<length, sig, lockVars, columnVars>>

Created ==
    /\ mpc = "created"
    /\ Tested(IF index < m THEN "create" ELSE "join")
    /\ index' = IF index < m THEN index ELSE 0
    /\ UNCHANGED <<length, pc, sig, lockVars, columnVars>>

BeforeJoin ==
    /\ mpc = "join" /\ index < m
    /\ Tested("joining")
    /\ UNCHANGED <<index, length, pc, sig, lockVars, columnVars>>

Join ==
    /\ mpc = "joining"
    /\ pc[index] = "left"
    /\ mpc' = "join" /\ index' = index + 1
    /\ UNCHANGED <<length, pc, sig, lockVars, columnVars>>

\* Mutant of Output: main does not test the flag a last time.
OutputUntested ==
    /\ mpc = "join" /\ index = m
    /\ mpc' = "returned"
    /\ UNCHANGED <<index, length, pc, sig, lockVars, columnVars>>

Output ==
    /\ mpc = "join" /\ index = m
    /\ Tested("returned")
    /\ UNCHANGED <<index, length, pc, sig, lockVars, columnVars>>

\* The handler runs in some thread of the process.
Sigint ==
    /\ Interrupts /\ mpc \notin Ended /\ ~sig
    /\ sig' = TRUE
    /\ UNCHANGED <<mainVars, pc, lockVars, columnVars>>
-----------------------------------------------------------------------------
(***************************************************************************)
(* The threads, multiplyCalculator.                                        *)
(***************************************************************************)
Goto(k, label) == pc' = [pc EXCEPT ![k] = label]

\* A test of the flag: the thread returns, with the mutex if it holds it.
TestedBy(k, next) == Goto(k, IF sig THEN "left" ELSE next)

Multiply(k) ==
    /\ pc[k] = "multiply"
    /\ product' = product \union Columns(k)
    /\ Goto(k, "multiplied")
    /\ UNCHANGED <<mainVars, sig, lockVars, transformed>>

Reached(k) ==
    /\ pc[k] = "multiplied"
    /\ TestedBy(k, "lock")
    /\ UNCHANGED <<mainVars, sig, lockVars, columnVars>>

Lock(k) ==
    /\ pc[k] = "lock" /\ mtx = NoThread
    /\ mtx' = k /\ total' = total + 1
    /\ Goto(k, "loop")
    /\ UNCHANGED <<mainVars, sig, columnVars>>

\* Mutant of Loop: it does not wait for the last thread.
LoopOneShort(k) ==
    /\ pc[k] = "loop"
    /\ IF total + 1 < m
       THEN TestedBy(k, "waiting") /\ mtx' = IF sig THEN mtx ELSE NoThread
       ELSE Goto(k, "through") /\ mtx' = mtx
    /\ UNCHANGED <<mainVars, sig, total, columnVars>>

Loop(k) ==
    /\ pc[k] = "loop"
    /\ IF total < m
       THEN TestedBy(k, "waiting") /\ mtx' = IF sig THEN mtx ELSE NoThread
       ELSE Goto(k, "through") /\ mtx' = mtx
    /\ UNCHANGED <<mainVars, sig, total, columnVars>>

\* A wait on the condition variable may also end by itself.
WakeUp(k) ==
    /\ pc[k] = "waiting"
    /\ Goto(k, "woken")
    /\ UNCHANGED <<mainVars, sig, lockVars, columnVars>>

Relock(k) ==
    /\ pc[k] = "woken" /\ mtx = NoThread
    /\ mtx' = k
    /\ Goto(k, "loop")
    /\ UNCHANGED <<mainVars, sig, total, columnVars>>

\* Mutant of Broadcast: nobody is woken.
BroadcastNobody(k) ==
    /\ pc[k] = "through"
    /\ Goto(k, IF sig THEN "left" ELSE "unlock")
    /\ UNCHANGED <<mainVars, sig, lockVars, columnVars>>

Broadcast(k) ==
    /\ pc[k] = "through"
    /\ pc' = IF sig THEN [pc EXCEPT ![k] = "left"]
             ELSE [l \in Threads |-> IF l = k THEN "unlock"
                                     ELSE IF pc[l] = "waiting" THEN "woken"
                                     ELSE pc[l]]
    /\ UNCHANGED <<mainVars, sig, lockVars, columnVars>>

Unlock(k) ==
    /\ pc[k] = "unlock"
    /\ TestedBy(k, "advance")
    /\ mtx' = IF sig THEN mtx ELSE NoThread
    /\ UNCHANGED <<mainVars, sig, total, columnVars>>

Advance(k) ==
    /\ pc[k] = "advance"
    /\ TestedBy(k, "transform")
    /\ UNCHANGED <<mainVars, sig, lockVars, columnVars>>

Transform(k) ==
    /\ pc[k] = "transform"
    /\ transformed' = transformed \union Columns(k)
    /\ Goto(k, "left")
    /\ UNCHANGED <<mainVars, sig, lockVars, product>>
-----------------------------------------------------------------------------
MainStep ==
    Read \/ Start \/ Create \/ Created \/ BeforeJoin \/ Join \/ Output

\* What the program does by itself in a thread.
ThreadStep(k) ==
    /\ mpc \notin Ended
    /\ \/ Multiply(k) \/ Reached(k) \/ Lock(k) \/ Loop(k) \/ Relock(k)
       \/ Broadcast(k) \/ Unlock(k) \/ Advance(k) \/ Transform(k)

Spurious(k) == mpc \notin Ended /\ WakeUp(k)

Next == MainStep \/ Sigint \/ \E k \in Threads : ThreadStep(k) \/ Spurious(k)

Spec == Init /\ [][Next]_vars

\* Main and the threads run, and a wait does not end by itself for ever.
FairSpec ==
    /\ Spec
    /\ WF_vars(MainStep)
    /\ \A k \in Threads : WF_vars(ThreadStep(k))
    /\ <>[][\A k \in Threads : ~Spurious(k)]_vars
-----------------------------------------------------------------------------
Labels == {"absent", "multiply", "multiplied", "lock", "loop", "waiting",
           "woken", "through", "unlock", "advance", "transform", "left"}

(***************************************************************************)
(* A thread that advances to the second part, where it reads the whole     *)
(* product, finds every column of it computed: nobody gets through the     *)
(* rendezvous before everybody has reached it.                             *)
(***************************************************************************)
SecondPartSeesAll ==
    \A k \in Threads :
        pc[k] \in {"through", "unlock", "advance", "transform"} =>
            product = AllColumns

(***************************************************************************)
(* The output file is written only of a complete transform: a thread that  *)
(* gave up because of SIGINT is noticed by main's last test, even if main  *)
(* joined it like the others.                                              *)
(***************************************************************************)
OutputComplete == mpc = "returned" => transformed = AllColumns

(***************************************************************************)
(* Unless a SIGINT comes, no wake-up is lost and the output is written,    *)
(* whatever the order in which the threads reach the rendezvous.           *)
(***************************************************************************)
OutputWritten == <>(sig \/ mpc \in {"failed", "returned"})
=============================================================================
