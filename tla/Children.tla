------------------------------ MODULE Children ------------------------------
(***************************************************************************)
(* Homework 2: the parent (main.c) reads points from a file and starts a   *)
(* child (child.c) for every Points of them; a child appends the record of *)
(* its covariance matrix to the output file, in many writes under one      *)
(* lock; the parent waits for all of them and reads the file.              *)
(*                                                                         *)
(* A character of the input file is its position; what a child writes is   *)
(* one token a write, with its writer; the numbers are not looked at.  The *)
(* program child exists, and the input file can be opened.                 *)
(*                                                                         *)
(* Neither program installs the handler it declares for the children:      *)
(* sigaction is called with NULL for the new action, and execve resets the *)
(* parent's handler, so SIGINT kills a child wherever it is.               *)
(***************************************************************************)
EXTENDS Integers, Sequences, FiniteSets

CONSTANTS
    Points,         \* points of three characters a child gets, 10 in the code
    MaxChildren,    \* the children the longest input file gives
    Situations      \* the length of the input file, and what may happen:
                    \* Ctrl-C, SIGINT to the parent only, a fork that fails

ASSUME SituationsAssumption ==
    /\ Points \in Nat \ {0} /\ MaxChildren \in Nat \ {0}
    /\ Situations \subseteq [length : Nat \ {0},
                             disturbances : SUBSET {"CtrlC", "parent", "fork"}]
    /\ \A s \in Situations : s.length < 3 * Points * (MaxChildren + 1) - 1

VARIABLES
    situation,      \* the one of Situations, for good
    ppc,            \* where the parent is
    pos,            \* the characters of the input file it has read
    sz,             \* what its last read gave
    env,            \* the characters of the points it has collected
    child_count,    \* its number of the last child; the first is 0
    signal_flag,    \* its signal_flag
    interrupted,    \* the processes SIGINT was sent to, not delivered yet
    sent,           \* SIGINT was sent from outside
    cpc,            \* where each child is: "none", "forked", "lock",
                    \* "write" or "ended"
    points,         \* the characters each child was given
    written,        \* how many writes each child has made
    lock,           \* who holds the lock on the output file
    file,           \* the tokens in the output file
    result          \* what read_output has made of them

vars == <<situation, ppc, pos, sz, env, child_count, signal_flag, interrupted,
          sent, cpc, points, written, lock, file, result>>
parentVars == <<ppc, pos, sz, env, child_count, signal_flag, result>>
childVars == <<cpc, points, written, lock, file>>

Ids == 0 .. MaxChildren - 1
Parent == -1
Nobody == -2

Ended == {"interrupted", "failed", "done"}
Live == (IF ppc \in Ended THEN {} ELSE {Parent})
            \union {c \in Ids : cpc[c] \notin {"none", "ended"}}
-----------------------------------------------------------------------------
(***************************************************************************)
(* The record a child writes, write by write.                              *)
(***************************************************************************)
Row == <<"value", "comma", "value", "comma", "value", "newline">>
Record == <<"id", "newline">> \o Row \o Row \o Row

Token(c, k) == [writer |-> c, text |-> Record[k]]

(***************************************************************************)
(* read_output.  Its text is the buffer value, as the tokens put into it;  *)
(* ids is id_list, and numbers the rows of matrix_list one after another.  *)
(* A line is an id when its number is a multiple of four.                  *)
(***************************************************************************)
NothingRead == [tokens |-> 0, line |-> 0, text |-> <<>>, ids |-> <<>>,
                numbers |-> <<>>]

\* Mutant of TakeToken: the line with the id is not counted.
TakeTokenEveryThree(r, token) ==
    CASE token.text = "newline" /\ r.line % 3 = 0 ->
            [r EXCEPT !.line = @ + 1, !.text = <<>>, !.ids = Append(@, r.text)]
      [] token.text = "newline" /\ r.line % 3 # 0 ->
            [r EXCEPT !.line = @ + 1, !.text = <<>>,
                      !.numbers = Append(@, r.text)]
      [] token.text = "comma" ->
            [r EXCEPT !.text = <<>>, !.numbers = Append(@, r.text)]
      [] OTHER -> [r EXCEPT !.text = Append(@, token)]

TakeToken(r, token) ==
    CASE token.text = "newline" /\ r.line % 4 = 0 ->
            [r EXCEPT !.line = @ + 1, !.text = <<>>, !.ids = Append(@, r.text)]
      [] token.text = "newline" /\ r.line % 4 # 0 ->
            [r EXCEPT !.line = @ + 1, !.text = <<>>,
                      !.numbers = Append(@, r.text)]
      [] token.text = "comma" ->
            [r EXCEPT !.text = <<>>, !.numbers = Append(@, r.text)]
      [] OTHER -> [r EXCEPT !.text = Append(@, token)]

\* The loop over the rows ends one short: the last norm is never computed,
\* and its place in frobenious_list keeps what malloc left there.
Norms(numbers) ==
    [k \in 1 .. (Len(numbers) \div 3 - 1) \div 3 |->
        SubSeq(numbers, 9 * k - 8, 9 * k)]

\* The matrices the search for the closest pair compares.
Compared(numbers) == Len(numbers) \div 9
-----------------------------------------------------------------------------
Init ==
    /\ situation \in Situations
    /\ ppc = "read" /\ pos = 0 /\ sz = 1 /\ env = <<>>
    /\ child_count = -1 /\ signal_flag = 0
    /\ interrupted = {} /\ sent = FALSE
    /\ cpc = [c \in Ids |-> "none"]
    /\ points = [c \in Ids |-> <<>>]
    /\ written = [c \in Ids |-> 0]
    /\ lock = Nobody /\ file = <<>>
    /\ result = NothingRead
-----------------------------------------------------------------------------
(***************************************************************************)
(* The parent, read_file: one character a step.                            *)
(***************************************************************************)
\* The character is kept also when read gave 0: ch is then the last one again.
ReadChar ==
    /\ ppc = "read"
    /\ LET more == pos < situation.length
           ch == IF more THEN pos + 1 ELSE pos
       IN  /\ sz' = IF more THEN 1 ELSE 0
           /\ pos' = ch
           /\ env' = Append(env, ch)
           /\ ppc' = IF Len(env') = 3 * Points THEN "fork" ELSE "look"
    /\ UNCHANGED <<situation, child_count, signal_flag, interrupted, sent,
                   result, childVars>>

\* Mutant of Fork: flag is not set back, and the character is kept again.
ForkKeepsFlag ==
    /\ ppc = "fork"
    /\ child_count' = child_count + 1
    /\ cpc' = [cpc EXCEPT ![child_count'] = "forked"]
    /\ points' = [points EXCEPT ![child_count'] = env]
    /\ ppc' = "look"
    /\ env' = <<env[Len(env)]>>
    /\ UNCHANGED <<situation, pos, sz, signal_flag, interrupted, sent, written,
                   lock, file, result>>

\* A failed fork ends the parent at once; its children go on.
Fork ==
    /\ ppc = "fork"
    /\ child_count' = child_count + 1
    /\ \/ /\ cpc' = [cpc EXCEPT ![child_count'] = "forked"]
          /\ points' = [points EXCEPT ![child_count'] = env]
          /\ ppc' = "look"
       \/ /\ "fork" \in situation.disturbances
          /\ UNCHANGED <<cpc, points>>
          /\ ppc' = "failed"
    /\ env' = <<>>
    /\ UNCHANGED <<situation, pos, sz, signal_flag, interrupted, sent, written,
                   lock, file, result>>

\* The end of the loop's body.
Look ==
    /\ ppc = "look" /\ signal_flag = 0
    /\ ppc' = IF sz > 0 THEN "read" ELSE "wait"
    /\ UNCHANGED <<situation, pos, sz, env, child_count, signal_flag,
                   interrupted, sent, result, childVars>>

\* The list of children was filled by none but the children, each in its own
\* copy.  What the parent finds in its own is what malloc left there: 0, which
\* is the whole process group, or the number of no process, where kill fails.
\* It signals as many times as there are children but the last.
KillChildren ==
    /\ ppc = "look" /\ signal_flag = 1
    /\ \/ /\ child_count > 0
          /\ interrupted' = interrupted \union Live
          /\ ppc' = "interrupted"
       \/ child_count > 0 /\ ppc' = "failed" /\ UNCHANGED interrupted
       \/ child_count <= 0 /\ ppc' = "interrupted" /\ UNCHANGED interrupted
    /\ UNCHANGED <<situation, pos, sz, env, child_count, signal_flag, sent,
                   result, childVars>>

\* Mutant of WaitChildren: the parent waits for one child only.
WaitOneChild ==
    /\ ppc = "wait" /\ \E c \in Ids : cpc[c] = "ended"
    /\ ppc' = "output"
    /\ UNCHANGED <<situation, pos, sz, env, child_count, signal_flag,
                   interrupted, sent, result, childVars>>

\* wait is restarted after SIGINT, and fails when there is no child left.
WaitChildren ==
    /\ ppc = "wait" /\ \A c \in Ids : cpc[c] \in {"none", "ended"}
    /\ ppc' = "output"
    /\ UNCHANGED <<situation, pos, sz, env, child_count, signal_flag,
                   interrupted, sent, result, childVars>>

ReadToken ==
    /\ ppc = "output" /\ result.tokens < Len(file)
    /\ result' = TakeToken([result EXCEPT !.tokens = @ + 1],
                           file[result.tokens + 1])
    /\ UNCHANGED <<situation, ppc, pos, sz, env, child_count, signal_flag,
                   interrupted, sent, childVars>>

\* The loop runs once more after read gave 0, with the last character again,
\* or with the one ch was left with when there was none.  Then the ids of the
\* closest pair are printed; the search has none when there are fewer than two
\* norms or no two are closer than min was set, and id_list[-1] may crash.
ReadEnd ==
    /\ ppc = "output" /\ result.tokens = Len(file)
    /\ IF result.tokens = 0
       THEN \/ result' = result
            \/ \E text \in {"value", "comma", "newline"} :
                  result' = TakeToken(result, [writer |-> Parent, text |-> text])
       ELSE result' = TakeToken(result, file[result.tokens])
    /\ ppc' \in {"done", "failed"}
    /\ UNCHANGED <<situation, pos, sz, env, child_count, signal_flag,
                   interrupted, sent, childVars>>

ParentStep ==
    \/ ReadChar \/ Fork \/ Look \/ KillChildren
    \/ WaitChildren \/ ReadToken \/ ReadEnd
-----------------------------------------------------------------------------
(***************************************************************************)
(* A child.                                                                *)
(***************************************************************************)
\* Until here it still has the handler of the parent.
Exec(c) ==
    /\ cpc[c] = "forked"
    /\ cpc' = [cpc EXCEPT ![c] = "lock"]
    /\ UNCHANGED <<situation, parentVars, interrupted, sent, points, written,
                   lock, file>>

\* Mutant of TakeLock: the result of fcntl is not looked at, and F_SETLK does
\* not wait.
TakeLockOrNot(c) ==
    /\ cpc[c] = "lock"
    /\ lock' = IF lock = Nobody THEN c ELSE lock
    /\ cpc' = [cpc EXCEPT ![c] = "write"]
    /\ UNCHANGED <<situation, parentVars, interrupted, sent, points, written,
                   file>>

TakeLock(c) ==
    /\ cpc[c] = "lock" /\ lock = Nobody
    /\ lock' = c
    /\ cpc' = [cpc EXCEPT ![c] = "write"]
    /\ UNCHANGED <<situation, parentVars, interrupted, sent, points, written,
                   file>>

\* O_APPEND: every write is at the end of the file.
Write(c) ==
    /\ cpc[c] = "write" /\ written[c] < Len(Record)
    /\ written' = [written EXCEPT ![c] = @ + 1]
    /\ file' = Append(file, Token(c, written'[c]))
    /\ UNCHANGED <<situation, parentVars, interrupted, sent, cpc, points, lock>>

\* It unlocks, closes and exits.
Finish(c) ==
    /\ cpc[c] = "write" /\ written[c] = Len(Record)
    /\ lock' = IF lock = c THEN Nobody ELSE lock
    /\ cpc' = [cpc EXCEPT ![c] = "ended"]
    /\ interrupted' = interrupted \ {c}
    /\ UNCHANGED <<situation, parentVars, sent, points, written, file>>

ChildStep(c) == Exec(c) \/ TakeLock(c) \/ Write(c) \/ Finish(c)
-----------------------------------------------------------------------------
(***************************************************************************)
(* SIGINT.                                                                 *)
(***************************************************************************)
Interrupt(who, disturbance) ==
    /\ disturbance \in situation.disturbances /\ ~ sent /\ Parent \in Live
    /\ sent' = TRUE
    /\ interrupted' = interrupted \union who
    /\ UNCHANGED <<situation, parentVars, childVars>>

Handler ==
    /\ Parent \in interrupted /\ Parent \in Live
    /\ signal_flag' = 1
    /\ interrupted' = interrupted \ {Parent}
    /\ UNCHANGED <<situation, ppc, pos, sz, env, child_count, sent, result,
                   childVars>>

\* Before execve the handler runs, on a signal_flag that execve forgets.
ChildHandler(c) ==
    /\ c \in interrupted /\ cpc[c] = "forked"
    /\ interrupted' = interrupted \ {c}
    /\ UNCHANGED <<situation, parentVars, sent, childVars>>

\* Mutant of ChildKilled: nobody takes the lock of a dead child from it.
ChildKilledKeepsLock(c) ==
    /\ c \in interrupted /\ cpc[c] \in {"lock", "write"}
    /\ cpc' = [cpc EXCEPT ![c] = "ended"]
    /\ interrupted' = interrupted \ {c}
    /\ UNCHANGED <<situation, parentVars, sent, points, written, lock, file>>

\* After it SIGINT kills, and the kernel gives up the lock of the dead.
ChildKilled(c) ==
    /\ c \in interrupted /\ cpc[c] \in {"lock", "write"}
    /\ cpc' = [cpc EXCEPT ![c] = "ended"]
    /\ lock' = IF lock = c THEN Nobody ELSE lock
    /\ interrupted' = interrupted \ {c}
    /\ UNCHANGED <<situation, parentVars, sent, points, written, file>>

Signals ==
    \/ Interrupt(Live, "CtrlC") \/ Interrupt({Parent}, "parent")
    \/ Handler
    \/ \E c \in Ids : ChildHandler(c) \/ ChildKilled(c)

Next == ParentStep \/ (\E c \in Ids : ChildStep(c)) \/ Signals

Spec == Init /\ [][Next]_vars

\* Every process is scheduled; a signal need not be sent.
FairSpec ==
    /\ Spec
    /\ WF_vars(ParentStep)
    /\ \A c \in Ids : WF_vars(ChildStep(c))
-----------------------------------------------------------------------------
(***************************************************************************)
(* The writes of two children never mix in the output file, although a     *)
(* record is twenty of them and SIGINT may end a child between any two.    *)
(***************************************************************************)
RecordsApart ==
    \A i \in 1 .. Len(file) - 1 :
        file[i].writer # file[i + 1].writer =>
            \A k \in i + 1 .. Len(file) : file[k].writer # file[i].writer

(***************************************************************************)
(* The parent collects what the file is in the end: no child writes once   *)
(* read_output has begun to read it, interrupted or not.                   *)
(***************************************************************************)
CollectsTheEnd == [][(ppc \in {"output", "done"}) => file' = file]_vars

Undisturbed == sent => "CtrlC" \notin situation.disturbances

(***************************************************************************)
(* Unless SIGINT reaches the children, the parent finds a record of every  *)
(* child it started, each once, and the numbers a norm is made of are the  *)
(* nine of the child whose id it has; but one norm less than it compares,  *)
(* if there is anything to compare.                                        *)
(***************************************************************************)
NormsMatchIds ==
    ppc = "done" /\ Undisturbed =>
        LET started == {c \in Ids : cpc[c] # "none"}
            compared == Compared(result.numbers)
            norms == Norms(result.numbers)
        IN  /\ compared = Cardinality(started)
            /\ {result.ids[k] : k \in 1 .. compared}
                    = {<<Token(c, 1)>> : c \in started}
            /\ compared > 0 => Len(norms) = compared - 1
            /\ \A k \in 1 .. Len(norms), n \in 1 .. 9 :
                  /\ Len(norms[k][n]) = 1
                  /\ norms[k][n][1].writer = result.ids[k][1].writer

\* The n-th character the parent collects: at the end it is the last again.
At(n) == IF n <= situation.length THEN n ELSE situation.length

(***************************************************************************)
(* The children get the file in order and without a gap: the n-th point of *)
(* child c is where the children before it end.  Only the last one may get *)
(* a character twice, the last of the file.                                *)
(***************************************************************************)
PointsInOrder ==
    \A c \in Ids : \A k \in 1 .. Len(points[c]) :
        points[c][k] = At(3 * Points * c + k)

(***************************************************************************)
(* Whatever is interrupted, the parent ends, and so does every child: a    *)
(* dead child does not keep the others from the lock.                      *)
(***************************************************************************)
EverybodyEnds == <>[](Live = {})
=============================================================================
