----------------------------- MODULE Wholesaler -----------------------------
(***************************************************************************)
(* Homework 3 (hw3named.c; hw3unnamed.c differs in how the semaphores are  *)
(* made and has the same control): a wholesaler reads pairs of ingredients *)
(* from a file and wakes the one of six chef processes that lacks exactly  *)
(* those two; the chef makes a dessert and lets the wholesaler go on.  At  *)
(* the end of the file the wholesaler kills the chefs one by one and adds  *)
(* up the numbers of desserts, which are their exit statuses.              *)
(*                                                                         *)
(* The semaphores of the four ingredients, m and the is... flags belong to *)
(* the wholesaler alone, so what it does for one line is one step: all     *)
(* that a chef can see of it is the post of its own semaphore.             *)
(***************************************************************************)
EXTENDS Integers, Sequences, FiniteSets

CONSTANTS
    Inputs,         \* files: the lines of one are pairs of letters, or Wrong
    Statuses        \* how many exit statuses there are (2 ^ 8)

Ingredients == {"Milk", "Sugar", "Flour", "Walnuts"}
LineLetters == Ingredients \union {"Other"}
Wrong == <<>>       \* a line without its newline in the third place

\* A chef is the pair of ingredients it waits for.
Chefs == {c \in SUBSET Ingredients : Cardinality(c) = 2}
ChefOrder == << {"Walnuts", "Sugar"}, {"Flour", "Walnuts"},
                {"Sugar", "Flour"}, {"Milk", "Flour"},
                {"Milk", "Walnuts"}, {"Sugar", "Milk"} >>

ASSUME StatusAssumption == Statuses \in Nat \ {0}
ASSUME InputAssumption ==
    Inputs \subseteq Seq({Wrong} \union (LineLetters \X LineLetters))

VARIABLES
    input,      \* the file of this run
    wpc,        \* the wholesaler: "agent", "kill", "waitpid" or how it ended
    line,       \* how many lines it has read
    agent,      \* the semaphore it waits on before each line
    sem,        \* the semaphore of each ingredient
    chefSem,    \* the semaphore of each chef
    cpc,        \* each chef: "look", "cook", "post" or "exited"
    desserts,   \* each chef's numOfDesserts
    signalled,  \* the chefs to which SIGINT is on its way
    i,          \* index of the loop over chefArray
    totalDeserts

wholesalerVars == <<input, wpc, line, sem, i, totalDeserts>>
chefVars == <<cpc, desserts>>
vars == <<wholesalerVars, agent, chefSem, chefVars, signalled>>

Init ==
    /\ input \in Inputs
    /\ wpc = "agent" /\ line = 0 /\ agent = 1
    /\ sem = [g \in Ingredients |-> 0]
    /\ chefSem = [c \in Chefs |-> 0]
    /\ cpc = [c \in Chefs |-> "look"]
    /\ desserts = [c \in Chefs |-> 0]
    /\ signalled = {}
    /\ i = 1 /\ totalDeserts = 0
-----------------------------------------------------------------------------
(***************************************************************************)
(* The four pushers, which the wholesaler runs one after the other.  State *)
(* st is [sem, is, made]: the ingredient semaphores, the is... flags that  *)
(* are set, the chefs whose semaphores have been posted.                   *)
(***************************************************************************)
\* The flags a pusher tests, in the order of its else-ifs.
Tests == [Milk    |-> <<"Flour", "Sugar", "Walnuts">>,
          Sugar   |-> <<"Flour", "Milk", "Walnuts">>,
          Flour   |-> <<"Milk", "Sugar", "Walnuts">>,
          Walnuts |-> <<"Flour", "Sugar", "Walnuts">>]

\* Mutant of Posted: the semaphore of the first test's chef, always.
PostedFirst(g, q) == {g, Tests[g][1]}

\* The chef whose semaphore pusher g posts when it finds q's flag; the last
\* test of the walnut pusher is of its own flag, for the milk of the chef.
Posted(g, q) == IF g = q THEN {"Milk", g} ELSE {g, q}

\* The first of a pusher's tests that finds its flag set.
Flagged(g, is) == {k \in 1 .. 3 : Tests[g][k] \in is}
Found(g, is) ==
    Tests[g][CHOOSE k \in Flagged(g, is) : \A j \in Flagged(g, is) : k <= j]

\* Under m, the pusher completes a pair or leaves its own flag.
Match(g, st) ==
    IF Flagged(g, st.is) = {} THEN [st EXCEPT !.is = @ \union {g}]
    ELSE LET pair == Posted(g, Found(g, st.is))
         IN  [st EXCEPT !.is = @ \ (pair \ {g}), !.made = @ \union {pair}]

Pusher(g, st) ==
    IF st.sem[g] = 0 THEN st ELSE Match(g, [st EXCEPT !.sem[g] = @ - 1])

Pushed(sems) ==
    Pusher("Walnuts", Pusher("Flour", Pusher("Sugar", Pusher("Milk",
        [sem |-> sems, is |-> {}, made |-> {}]))))

\* The two letters of a line, one after the other: one that stands for no
\* ingredient is passed over.
Post(sems, g) == IF g \in Ingredients THEN [sems EXCEPT ![g] = @ + 1] ELSE sems

\* sem_wait(agent), read, and all that is done for a line.
Deliver ==
    /\ wpc = "agent" /\ agent > 0 /\ line < Len(input)
    /\ input[line + 1] # Wrong
    /\ LET pair == input[line + 1]
           st == Pushed(Post(Post(sem, pair[1]), pair[2]))
       IN  /\ sem' = st.sem
           /\ chefSem' = [c \in Chefs |-> IF c \in st.made THEN chefSem[c] + 1
                                                           ELSE chefSem[c]]
    /\ agent' = agent - 1
    /\ line' = line + 1
    /\ UNCHANGED <<input, wpc, i, totalDeserts, chefVars, signalled>>

\* The process ends; the chefs are not told.
WrongLine ==
    /\ wpc = "agent" /\ agent > 0 /\ line < Len(input)
    /\ input[line + 1] = Wrong
    /\ agent' = agent - 1
    /\ line' = line + 1
    /\ wpc' = "failed"
    /\ UNCHANGED <<input, sem, i, totalDeserts, chefSem, chefVars, signalled>>

EndOfInput ==
    /\ wpc = "agent" /\ agent > 0 /\ line = Len(input)
    /\ agent' = agent - 1
    /\ wpc' = "kill"
    /\ UNCHANGED <<input, line, sem, i, totalDeserts, chefSem, chefVars, signalled>>

Kill ==
    /\ wpc = "kill" /\ i <= Len(ChefOrder)
    /\ signalled' = signalled \union {ChefOrder[i]}
    /\ wpc' = "waitpid"
    /\ UNCHANGED <<input, line, agent, sem, i, totalDeserts, chefSem, chefVars>>

\* WEXITSTATUS gives the low bits of what the chef passed to exit.
Waitpid ==
    /\ wpc = "waitpid"
    /\ cpc[ChefOrder[i]] = "exited"
    /\ totalDeserts' = totalDeserts + (desserts[ChefOrder[i]] % Statuses)
    /\ i' = i + 1
    /\ wpc' = "kill"
    /\ UNCHANGED <<input, line, agent, sem, chefSem, chefVars, signalled>>

Done ==
    /\ wpc = "kill" /\ i > Len(ChefOrder)
    /\ wpc' = "done"
    /\ UNCHANGED <<input, line, agent, sem, i, totalDeserts, chefSem, chefVars,
                   signalled>>

\* A SIGINT from the terminal goes to all the processes.
Sigint ==
    /\ wpc \in {"agent", "kill", "waitpid"}
    /\ signalled' = Chefs
    /\ wpc' = "interrupted"
    /\ UNCHANGED <<input, line, agent, sem, i, totalDeserts, chefSem, chefVars>>
-----------------------------------------------------------------------------
\* Mutant of Take: the chef looks at its semaphore and does not wait on it.
TakeKeeps(c) ==
    /\ cpc[c] = "look" /\ chefSem[c] > 0
    /\ cpc' = [cpc EXCEPT ![c] = "cook"]
    /\ UNCHANGED <<chefSem, wholesalerVars, agent, desserts, signalled>>

\* A chef is the only one to wait on its semaphore, so the value it looked at
\* is still there when it takes the ingredients.
Take(c) ==
    /\ cpc[c] = "look" /\ chefSem[c] > 0
    /\ chefSem' = [chefSem EXCEPT ![c] = @ - 1]
    /\ cpc' = [cpc EXCEPT ![c] = "cook"]
    /\ UNCHANGED <<wholesalerVars, agent, desserts, signalled>>

Cook(c) ==
    /\ cpc[c] = "cook"
    /\ desserts' = [desserts EXCEPT ![c] = @ + 1]
    /\ cpc' = [cpc EXCEPT ![c] = "post"]
    /\ UNCHANGED <<wholesalerVars, agent, chefSem, signalled>>

\* Mutants of PostAgent: the dessert is delivered before it is counted, and
\* it is never delivered.
PostAgentEarly(c) ==
    /\ cpc[c] = "cook"
    /\ agent' = agent + 1
    /\ cpc' = [cpc EXCEPT ![c] = "look"]
    /\ UNCHANGED <<wholesalerVars, chefSem, desserts, signalled>>

PostAgentForgets(c) ==
    /\ cpc[c] = "post"
    /\ cpc' = [cpc EXCEPT ![c] = "look"]
    /\ UNCHANGED <<agent, wholesalerVars, chefSem, desserts, signalled>>

PostAgent(c) ==
    /\ cpc[c] = "post"
    /\ agent' = agent + 1
    /\ cpc' = [cpc EXCEPT ![c] = "look"]
    /\ UNCHANGED <<wholesalerVars, chefSem, desserts, signalled>>

\* The handler ends the chef wherever it is.
Exit(c) ==
    /\ cpc[c] # "exited" /\ c \in signalled
    /\ cpc' = [cpc EXCEPT ![c] = "exited"]
    /\ UNCHANGED <<wholesalerVars, agent, chefSem, desserts, signalled>>

WholesalerStep ==
    Deliver \/ WrongLine \/ EndOfInput \/ Kill \/ Waitpid \/ Done

ChefStep(c) == Take(c) \/ Cook(c) \/ PostAgent(c) \/ Exit(c)

Next == WholesalerStep \/ Sigint \/ \E c \in Chefs : ChefStep(c)

Spec == Init /\ [][Next]_vars

\* The processes run; a process that is sent a signal gets it.
FairSpec ==
    /\ Spec
    /\ WF_vars(WholesalerStep)
    /\ \A c \in Chefs : WF_vars(ChefStep(c)) /\ WF_vars(Exit(c))
-----------------------------------------------------------------------------
Busy(c) == cpc[c] \in {"cook", "post"}

\* A dessert somebody owes the wholesaler.
Owed(c) == chefSem[c] > 0 \/ Busy(c)

TypeOK ==
    /\ wpc \in {"agent", "kill", "waitpid", "done", "failed", "interrupted"}
    /\ line \in 0 .. Len(input)
    /\ agent \in Nat
    /\ sem \in [Ingredients -> Nat] /\ chefSem \in [Chefs -> Nat]
    /\ cpc \in [Chefs -> {"look", "cook", "post", "exited"}]
    /\ desserts \in [Chefs -> Nat]
    /\ signalled \in SUBSET Chefs
    /\ i \in 1 .. Len(ChefOrder) + 1 /\ totalDeserts \in Nat

(***************************************************************************)
(* The wholesaler delivers one pair at a time: while a chef has its        *)
(* ingredients, or is busy with them, no other chef has or is, and the     *)
(* wholesaler cannot take the next line (agent in hw3named.c).             *)
(***************************************************************************)
OneDelivery ==
    /\ agent \in {0, 1}
    /\ agent = 1 => \A c \in Chefs : ~ Owed(c)
    /\ \A c, d \in Chefs : Owed(c) /\ Owed(d) => c = d
    /\ \A c \in Chefs : chefSem[c] <= 1 /\ (Busy(c) => chefSem[c] = 0)

(***************************************************************************)
(* The dessert of each line is made by the chef who lacks just the two     *)
(* ingredients of the line: each chef has made as many desserts as lines   *)
(* with its ingredients were read, but for the one that it owes (the four  *)
(* pushers).                                                               *)
(***************************************************************************)
RightChef ==
    \A c \in Chefs :
        LET lines == {n \in 1 .. line : /\ input[n] # Wrong
                                        /\ {input[n][1], input[n][2]} = c}
            owes == chefSem[c] > 0 \/ cpc[c] = "cook"
        IN  wpc \in {"agent", "kill", "waitpid", "done"} /\ cpc[c] # "exited"
              => desserts[c] + (IF owes THEN 1 ELSE 0) = Cardinality(lines)

(***************************************************************************)
(* Each line is delivered to one chef, the right one, and the next only    *)
(* after its dessert.                                                      *)
(***************************************************************************)
DeliveryIsRight == TypeOK /\ OneDelivery /\ RightChef

(***************************************************************************)
(* hw3named.c:469 prints "the wholesaler (pid %d) is done (total desserts: *)
(* %d)": when it does, there is a dessert for every line, and no chef      *)
(* process is left, as long as no chef makes more desserts than an exit    *)
(* status can tell.                                                        *)
(***************************************************************************)
TotalIsRight ==
    wpc = "done" /\ (\A c \in Chefs : desserts[c] < Statuses) =>
        totalDeserts = Len(input) /\ \A c \in Chefs : cpc[c] = "exited"

(***************************************************************************)
(* hw3named.c:425-426 prints that the wholesaler "delivers" and "is        *)
(* waiting for the dessert": while it waits, some chef has ingredients or  *)
(* a dessert for it, so the wait ends.                                     *)
(***************************************************************************)
WaitsForSomebody ==
    wpc = "agent" /\ agent = 0 => \E c \in Chefs : Owed(c)

(***************************************************************************)
(* Every line is served and the wholesaler finishes, unless it is          *)
(* interrupted, finds a wrong line, or comes to a line that is not a pair  *)
(* of two ingredients, for which it waits for ever (the loop of            *)
(* hw3named.c:233).                                                        *)
(***************************************************************************)
NoPair(l) == l # Wrong /\ {l[1], l[2]} \notin Chefs

EverythingServed ==
    <>(\/ wpc \in {"done", "failed", "interrupted"}
       \/ line > 0 /\ NoPair(input[line]))
=============================================================================
