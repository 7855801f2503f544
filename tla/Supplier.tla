------------------------------ MODULE Supplier ------------------------------
(***************************************************************************)
(* Homework 4 (hw4.c): a supplier thread reads a file of '1's and '2's and *)
(* posts one of two System V semaphores for each; consumer threads take    *)
(* one unit of both at a time with a single semop, each n times.  Main     *)
(* joins the consumers, removes the semaphores and returns, whether or not *)
(* the detached supplier has come to the end of the file.                  *)
(***************************************************************************)
EXTENDS Integers, Sequences, FiniteSets

CONSTANTS
    c, n,           \* the arguments -C and -N
    Input,          \* the characters of the file: "1", "2" and others
    SemMax          \* SEMVMX: no semaphore goes above it (32767)

ASSUME SupplierAssumption ==
    c \in Nat \ {0} /\ n \in Nat /\ SemMax \in Nat /\ Input \in Seq({"1", "2", "?"})

Consumers == 0 .. c - 1

VARIABLES
    mpc,            \* main: "check", "create", "join", or how it ended
    index,          \* the index i of main's loops
    position,       \* how much of the file the supplier has read
    spc,            \* the supplier: "absent", "running" or "left"
    consumer,       \* each consumer: the same
    iteration,      \* each consumer's i
    ones, twos,     \* the semaphores
    consumed        \* history: the pairs taken so far

mainVars == <<mpc, index>>
consumerVars == <<consumer, iteration, consumed>>
supplierVars == <<mainVars, position, spc, consumerVars, ones, twos>>

\* The places of a character in the first k characters of the file.
PlacesOf(ch, k) == {p \in 1 .. k : Input[p] = ch}

checkFile == Cardinality(PlacesOf("1", Len(Input))) = n * c

Ended == {"failed", "interrupted", "returned"}

SupplierInit ==
    /\ mpc = "check" /\ index = 0 /\ position = 0
    /\ spc = "absent"
    /\ consumer = [k \in Consumers |-> "absent"]
    /\ iteration = [k \in Consumers |-> 0]
    /\ ones = 0 /\ twos = 0 /\ consumed = 0
-----------------------------------------------------------------------------
\* Only the '1's are counted before the threads are started.
Check ==
    /\ mpc = "check"
    /\ IF checkFile THEN mpc' = "create" /\ spc' = "running"
                    ELSE mpc' = "failed" /\ spc' = spc
    /\ UNCHANGED <<index, position, consumerVars, ones, twos>>

\* Mutant of Create: the joins begin at the second consumer.
CreateJoinsLate ==
    /\ mpc = "create"
    /\ consumer' = [consumer EXCEPT ![index] = "running"]
    /\ index' = IF index + 1 = c THEN 1 ELSE index + 1
    /\ mpc' = IF index + 1 = c THEN "join" ELSE mpc
    /\ UNCHANGED <<position, spc, iteration, consumed, ones, twos>>

Create ==
    /\ mpc = "create"
    /\ consumer' = [consumer EXCEPT ![index] = "running"]
    /\ index' = IF index + 1 = c THEN 0 ELSE index + 1
    /\ mpc' = IF index + 1 = c THEN "join" ELSE mpc
    /\ UNCHANGED <<position, spc, iteration, consumed, ones, twos>>

Join ==
    /\ mpc = "join" /\ index < c
    /\ consumer[index] = "left"
    /\ index' = index + 1
    /\ UNCHANGED <<mpc, position, spc, consumerVars, ones, twos>>

\* The semaphores are removed while the supplier may still be posting.
RemoveSemaphores ==
    /\ mpc = "join" /\ index = c
    /\ mpc' = "removed"
    /\ UNCHANGED <<index, position, spc, consumerVars, ones, twos>>

Return ==
    /\ mpc = "removed"
    /\ mpc' = "returned"
    /\ UNCHANGED <<index, position, spc, consumerVars, ones, twos>>

\* The handler calls exit, in whichever thread it runs.
Interrupt ==
    /\ mpc \notin Ended
    /\ mpc' = "interrupted"
    /\ UNCHANGED <<index, position, spc, consumerVars, ones, twos>>
-----------------------------------------------------------------------------
\* Mutant of postSem: the semaphore is binary.
postSemBinary(value) == 1

\* semop by one fails at SEMVMX, and on semaphores that are gone; the
\* supplier does not look at its result.
postSem(value) ==
    IF value < SemMax /\ mpc # "removed" THEN value + 1 ELSE value

Supply ==
    /\ spc = "running" /\ position < Len(Input)
    /\ LET ch == Input[position + 1]
       IN  /\ ones' = IF ch = "1" THEN postSem(ones) ELSE ones
           /\ twos' = IF ch = "2" THEN postSem(twos) ELSE twos
    /\ position' = position + 1
    /\ UNCHANGED <<mainVars, spc, consumerVars>>

SupplierLeaves ==
    /\ spc = "running" /\ position = Len(Input)
    /\ spc' = "left"
    /\ UNCHANGED <<mainVars, position, consumerVars, ones, twos>>

\* Mutant of waitSem: it leaves the second unit where it is.
waitSemTakesOne == ones > 0 /\ twos > 0 /\ ones' = ones - 1 /\ twos' = twos

\* Both units at once, or neither.
waitSem == ones > 0 /\ twos > 0 /\ ones' = ones - 1 /\ twos' = twos - 1

Consume(k) ==
    /\ consumer[k] = "running" /\ iteration[k] < n
    /\ waitSem
    /\ iteration' = [iteration EXCEPT ![k] = @ + 1]
    /\ consumed' = consumed + 1
    /\ UNCHANGED <<mainVars, position, spc, consumer>>

ConsumerLeaves(k) ==
    /\ consumer[k] = "running" /\ iteration[k] = n
    /\ consumer' = [consumer EXCEPT ![k] = "left"]
    /\ UNCHANGED <<mainVars, position, spc, iteration, consumed, ones, twos>>

MainStep == mpc \notin Ended /\ (Check \/ Create \/ Join \/ RemoveSemaphores \/ Return)

SupplierStep == mpc \notin Ended /\ (Supply \/ SupplierLeaves)

ConsumerStep(k) == mpc \notin Ended /\ (Consume(k) \/ ConsumerLeaves(k))

SupplierNext ==
    MainStep \/ SupplierStep \/ Interrupt \/ \E k \in Consumers : ConsumerStep(k)

SupplierSpec == SupplierInit /\ [][SupplierNext]_supplierVars

\* The threads run.  semop is not fair: which of several waiting consumers
\* gets a pair is not said.
FairSupplierSpec ==
    /\ SupplierSpec
    /\ WF_supplierVars(MainStep)
    /\ WF_supplierVars(SupplierStep)
    /\ \A k \in Consumers : WF_supplierVars(ConsumerStep(k))
-----------------------------------------------------------------------------
\* Nothing the supplier posted has been lost.
Kept ==
    /\ ones + consumed = Cardinality(PlacesOf("1", position))
    /\ twos + consumed = Cardinality(PlacesOf("2", position))

(***************************************************************************)
(* A pair is taken as a whole: what the semaphores hold and what has been  *)
(* consumed is together what was read from the file, of each kind, as long *)
(* as the file cannot drive a semaphore to its limit and until main        *)
(* removes the semaphores (postSem, waitSem).                              *)
(***************************************************************************)
PairsMatch ==
    Len(Input) <= SemMax /\ mpc \notin {"removed", "returned", "interrupted"}
        => Kept

(***************************************************************************)
(* Main returns, and takes the semaphores and the supplier with it, only   *)
(* after every consumer has consumed its n pairs (the joins in main).      *)
(***************************************************************************)
ConsumersFinish ==
    mpc \in {"removed", "returned"} =>
        \A k \in Consumers : consumer[k] = "left" /\ iteration[k] = n

(***************************************************************************)
(* With enough '2's for the '1's that checkFile counts, nobody waits for   *)
(* ever for a pair, although a consumer may be passed over again and again *)
(* (consumer).                                                             *)
(***************************************************************************)
EverybodyLeaves ==
    Cardinality(PlacesOf("2", Len(Input))) >= n * c /\ Len(Input) <= SemMax
        => <>(mpc \in Ended)
=============================================================================
