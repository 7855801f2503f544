--------------------------- MODULE Children_proof ---------------------------
(***************************************************************************)
(* Proofs about Homework 2, for any number of children and of points: the  *)
(* children get the characters of the input file in order, their records   *)
(* never mix in the output file, wherever SIGINT ends a child, the parent  *)
(* reads a file nobody writes any more, and the norms it makes of it are   *)
(* those of the children whose ids it has.                                 *)
(***************************************************************************)
EXTENDS Children, SequenceTheorems, FiniteSetTheorems, TLAPS
-----------------------------------------------------------------------------
(***************************************************************************)
(* The inductive invariant behind PointsInOrder: the parent has read as    *)
(* far as its children and what it has collected for the next one reach,   *)
(* and it has collected the characters after those of its last child.      *)
(***************************************************************************)
PointsInv ==
    /\ situation \in Situations
    /\ child_count \in Int /\ child_count >= -1
    /\ env \in Seq(Int) /\ (ppc = "fork" => Len(env) = 3 * Points)
    /\ pos = At(3 * Points * (child_count + 1) + Len(env))
    /\ \A k \in 1 .. Len(env) :
          env[k] = At(3 * Points * (child_count + 1) + k)
    /\ points \in [Ids -> Seq(Int)]
    /\ PointsInOrder

(***************************************************************************)
(* The inductive invariant behind RecordsApart and CollectsTheEnd: who is  *)
(* writing has the lock; a child that has written is writing or has ended, *)
(* and has ended once somebody wrote after it; a number is given to one    *)
(* child only; and nobody is left when the parent reads the output file.   *)
(***************************************************************************)
Writes == \A c \in Ids : cpc[c] = "write" => lock = c

Numbered == \A c \in Ids : cpc[c] # "none" => c <= child_count

Writers ==
    /\ \A i \in 1 .. Len(file) : cpc[file[i].writer] \in {"write", "ended"}
    /\ \A i \in 1 .. Len(file) - 1 :
          file[i].writer # file[i + 1].writer => cpc[file[i].writer] = "ended"

NobodyLeft ==
    ppc \in {"output", "done"} => \A c \in Ids : cpc[c] \in {"none", "ended"}

ChildrenInv ==
    /\ cpc \in [Ids -> {"none", "forked", "lock", "write", "ended"}]
    /\ child_count \in Int /\ written \in [Ids -> Int]
    /\ file \in Seq([writer : Ids, text : {Record[k] : k \in Int}])
    /\ Writes /\ Writers /\ Numbered /\ NobodyLeft
    /\ RecordsApart

(***************************************************************************)
(* The inductive invariant behind NormsMatchIds.  While SIGINT has not     *)
(* reached the children, the output file is made of records, each of a     *)
(* child of its own and in full but for the last (FileInv), and result is  *)
(* what the tokens of a full records and k tokens of the next one give     *)
(* (Reading).                                                              *)
(***************************************************************************)
Calm == Undisturbed /\ ppc \notin {"interrupted", "failed"}

Count == (Len(file) + 19) \div 20

Writer(m) == file[20 * m - 19].writer

StagesInv ==
    /\ interrupted \subseteq {Parent}
    /\ \A c \in Ids : /\ cpc[c] \in {"none", "forked", "lock"} => written[c] = 0
                      /\ cpc[c] = "write" => written[c] \in 0 .. 20
                      /\ cpc[c] = "ended" => written[c] = 20

FileInv ==
    /\ \A l, m \in 1 .. Count : Writer(l) = Writer(m) => l = m
    /\ \A c \in Ids : written[c] > 0 <=> \E m \in 1 .. Count : Writer(m) = c
    /\ \A m \in 1 .. Count :
          written[Writer(m)] = IF m < Count THEN 20
                               ELSE Len(file) - 20 * (Count - 1)
    /\ \A m \in 1 .. Count, k \in 1 .. 20 :
          20 * m - 20 + k <= Len(file) =>
              file[20 * m - 20 + k] = Token(Writer(m), k)

IdsRead ==
    \A m \in 1 .. Len(result.ids) : result.ids[m] = <<file[20 * m - 19]>>

NumbersRead ==
    \A m \in 1 .. Count, n \in 1 .. 9 :
        9 * m - 9 + n <= Len(result.numbers) =>
            result.numbers[9 * m - 9 + n] = <<file[20 * m - 19 + 2 * n]>>

Reading(a, k) ==
    /\ result.tokens = 20 * a + k /\ result.tokens <= Len(file)
    /\ result.line = 4 * a + (IF k < 2 THEN 0 ELSE IF k < 8 THEN 1
                              ELSE IF k < 14 THEN 2 ELSE 3)
    /\ result.text = IF k % 2 = 0 THEN <<>> ELSE <<file[20 * a + k]>>
    /\ Len(result.ids) = IF k < 2 THEN a ELSE a + 1
    /\ IdsRead
    /\ Len(result.numbers) = 9 * a + (IF k < 4 THEN 0 ELSE (k \div 2) - 1)
    /\ NumbersRead

OutputInv ==
    CASE ppc = "output" -> \E a \in 0 .. Count : \E k \in 0 .. 19 : Reading(a, k)
      [] ppc = "done" -> /\ Compared(result.numbers) = Count
                         /\ Count > 0 => /\ Len(result.numbers) = 9 * Count
                                         /\ NumbersRead
                         /\ \A m \in 1 .. Count :
                               result.ids[m] = <<file[20 * m - 19]>>
      [] OTHER -> result = NothingRead

Symbols == [writer : Int, text : {Record[k] : k \in Int}]

Results == [tokens : Nat, line : Nat, text : Seq(Symbols),
            ids : Seq(Seq(Symbols)), numbers : Seq(Seq(Symbols))]

RecordsInv ==
    /\ result \in Results
    /\ Calm => /\ StagesInv /\ FileInv /\ OutputInv
               /\ ppc \in {"output", "done"} => Len(file) = 20 * Count
-----------------------------------------------------------------------------
Stages == {"none", "forked", "lock", "write", "ended"}
Tokens == [writer : Ids, text : {Record[k] : k \in Int}]

\* The initial state satisfies the invariant (main before its first read).
LEMMA InitIsFine == Init => ChildrenInv
<1> SUFFICES ASSUME Init PROVE ChildrenInv
    OBVIOUS
<1>1. Len(file) = 0 /\ file \in Seq(Tokens)
    BY DEF Init
<1>2. Writers /\ RecordsApart
    BY <1>1 DEF Writers, RecordsApart
<1> QED
    BY <1>1, <1>2
    DEF Init, ChildrenInv, Tokens, Writes, Numbered, NobodyLeft

\* A step that leaves the file alone, and in which a child that writes goes
\* on or ends and an ended one stays so, keeps what is said of the file.
LEMMA FileUntouched ==
    ASSUME ChildrenInv, file' = file, cpc' \in [Ids -> Stages],
           \A c \in Ids : /\ cpc[c] = "ended" => cpc'[c] = "ended"
                          /\ cpc[c] = "write" => cpc'[c] \in {"write", "ended"}
    PROVE  Writers' /\ RecordsApart' /\ file' \in Seq(Tokens)
<1>1. file \in Seq(Tokens) /\ \A i \in 1 .. Len(file) : file[i].writer \in Ids
    <2>1. file \in Seq(Tokens)
        BY DEF ChildrenInv, Tokens
    <2>2. \A i \in 1 .. Len(file) : file[i] \in Tokens
        BY <2>1
    <2> QED
        BY <2>1, <2>2 DEF Tokens
<1>2. \A i \in 1 .. Len(file) : cpc'[file[i].writer] \in {"write", "ended"}
    BY <1>1 DEF ChildrenInv, Writers
<1>3. \A i \in 1 .. Len(file) - 1 :
          file[i].writer # file[i + 1].writer => cpc'[file[i].writer] = "ended"
    <2>1. Len(file) \in Nat
        BY <1>1
    <2> QED
        BY <1>1, <2>1 DEF ChildrenInv, Writers
<1> QED
    BY <1>1, <1>2, <1>3 DEF Writers, RecordsApart, ChildrenInv

-----------------------------------------------------------------------------
\* The steps of the parent (main.c).
LEMMA ParentKeepsInv == ChildrenInv /\ ParentStep => ChildrenInv'
<1> SUFFICES ASSUME ChildrenInv, ParentStep PROVE ChildrenInv'
    OBVIOUS
<1>1. CASE Fork
    <2>1. /\ cpc' \in [Ids -> Stages] /\ child_count' \in Int
          /\ \A c \in Ids : \/ cpc'[c] = cpc[c]
                            \/ /\ c = child_count + 1 /\ cpc[c] = "none"
                               /\ cpc'[c] = "forked"
        <3>1. child_count \in Int /\ child_count' = child_count + 1
            BY <1>1 DEF Fork, ChildrenInv
        <3>2. \A c \in Ids : c = child_count + 1 => cpc[c] = "none"
            BY <3>1 DEF ChildrenInv, Numbered, Ids
        <3>3. cpc \in [Ids -> Stages]
            BY DEF ChildrenInv, Stages
        <3>4. \/ cpc' = cpc
              \/ cpc' = [cpc EXCEPT ![child_count + 1] = "forked"]
            BY <1>1, <3>1 DEF Fork
        <3> QED
            BY <3>1, <3>2, <3>3, <3>4 DEF Stages
    <2>2. file' = file /\ lock' = lock /\ written' = written
          /\ ppc' \notin {"output", "done"} /\ child_count' = child_count + 1
        BY <1>1 DEF Fork
    <2>3. Writers' /\ RecordsApart' /\ file' \in Seq(Tokens)
        BY <2>1, <2>2, FileUntouched
    <2>4. Writes' /\ NobodyLeft'
        BY <2>1, <2>2 DEF Writes, NobodyLeft, ChildrenInv
    <2>5. Numbered'
        BY <2>1, <2>2 DEF Numbered, ChildrenInv, Ids
    <2> QED
        BY <2>1, <2>2, <2>3, <2>4, <2>5 DEF ChildrenInv, Stages, Tokens
<1>2. CASE ReadChar \/ Look \/ KillChildren \/ WaitChildren \/ ReadToken \/ ReadEnd
    <2>1. childVars' = childVars /\ child_count' = child_count
        BY <1>2 DEF ReadChar, Look, KillChildren, WaitChildren, ReadToken, ReadEnd
    <2>2. cpc' = cpc /\ file' = file /\ lock' = lock /\ written' = written
        BY <2>1 DEF childVars
    <2>3. NobodyLeft'
        BY <1>2, <2>2 DEF NobodyLeft, ChildrenInv, ReadChar, Look,
              KillChildren, WaitChildren, ReadToken, ReadEnd
    <2> QED
        BY <2>1, <2>2, <2>3 DEF ChildrenInv, Writes, Numbered, Writers,
              RecordsApart
<1> QED
    BY <1>1, <1>2 DEF ParentStep

\* A child moves on without writing (child.c around its writes).
LEMMA ChildMovesOn ==
    ASSUME ChildrenInv, NEW c \in Ids,
           Exec(c) \/ TakeLock(c) \/ Finish(c) \/ ChildKilled(c)
    PROVE  ChildrenInv'
<1>1. /\ cpc[c] \notin {"none", "ended"} /\ cpc'[c] \in Stages \ {"none"}
      /\ cpc[c] = "write" => cpc'[c] = "ended"
      /\ \A d \in Ids \ {c} : cpc'[d] = cpc[d]
      /\ cpc' \in [Ids -> Stages]
    BY DEF Exec, TakeLock, Finish, ChildKilled, ChildrenInv, Stages
<1>2. file' = file /\ written' = written
      /\ ppc' = ppc /\ child_count' = child_count
    BY DEF Exec, TakeLock, Finish, ChildKilled, parentVars
<1>3. Writers' /\ RecordsApart' /\ file' \in Seq(Tokens)
    BY <1>1, <1>2, FileUntouched
<1>4. Writes'
    <2>1. CASE TakeLock(c)
        <3>1. \A d \in Ids : cpc[d] # "write" \/ d = Nobody
            BY <2>1 DEF TakeLock, ChildrenInv, Writes
        <3>2. \A d \in Ids : d # Nobody
            BY DEF Ids, Nobody
        <3> QED
            BY <2>1, <3>1, <3>2, <1>1 DEF TakeLock, Writes
    <2>2. CASE Exec(c)
        BY <2>2, <1>1 DEF Exec, Writes, ChildrenInv
    <2>3. CASE Finish(c) \/ ChildKilled(c)
        <3>1. cpc'[c] = "ended" /\ lock' = (IF lock = c THEN Nobody ELSE lock)
            BY <2>3 DEF Finish, ChildKilled, ChildrenInv
        <3> QED
            BY <3>1, <1>1 DEF Writes, ChildrenInv
    <2> QED
        BY <2>1, <2>2, <2>3
<1>5. Numbered' /\ NobodyLeft'
    BY <1>1, <1>2 DEF Numbered, NobodyLeft, ChildrenInv
<1> QED
    BY <1>1, <1>2, <1>3, <1>4, <1>5 DEF ChildrenInv, Stages, Tokens

\* A child writes under the lock: those who wrote before have ended.
LEMMA WriteKeepsInv ==
    ASSUME ChildrenInv, NEW c \in Ids, Write(c) PROVE ChildrenInv'
<1> DEFINE n == Len(file)
           t == Token(c, written'[c])
<1>1. /\ cpc[c] = "write" /\ cpc' = cpc /\ lock' = lock /\ ppc' = ppc
      /\ child_count' = child_count
      /\ file' = Append(file, t) /\ written' \in [Ids -> Int]
    BY DEF Write, parentVars, ChildrenInv
<1>2. t \in Tokens /\ t.writer = c
    BY <1>1 DEF Token, Tokens
<1>3. file \in Seq(Tokens) /\ n \in Nat
    BY DEF ChildrenInv, Tokens
<1> HIDE DEF t
<1>4. /\ file' \in Seq(Tokens) /\ Len(file') = n + 1 /\ file'[n + 1] = t
      /\ \A i \in 1 .. n : file'[i] = file[i] /\ file[i].writer \in Ids
    <2>1. \A i \in 1 .. n : file[i] \in Tokens
        BY <1>3
    <2> QED
        BY <1>1, <1>2, <1>3, <2>1 DEF Tokens
<1>5. \A i \in 1 .. n : file[i].writer = c \/ cpc[file[i].writer] = "ended"
    BY <1>1, <1>4 DEF ChildrenInv, Writers, Writes
<1>6. Writers'
    <2>1. \A i \in 1 .. n + 1 : cpc'[file'[i].writer] \in {"write", "ended"}
        BY <1>1, <1>2, <1>3, <1>4 DEF ChildrenInv, Writers
    <2>2. ASSUME NEW i \in 1 .. n, file'[i].writer # file'[i + 1].writer
          PROVE  cpc'[file'[i].writer] = "ended"
        <3>1. CASE i = n
            BY <2>2, <3>1, <1>1, <1>2, <1>4, <1>5
        <3>2. CASE i < n
            <4>1. i \in 1 .. n - 1 /\ i + 1 \in 1 .. n
                BY <3>2, <1>3
            <4> QED
                BY <2>2, <4>1, <1>1, <1>4 DEF ChildrenInv, Writers
        <3> QED
            BY <3>1, <3>2, <1>3
    <2> QED
        BY <2>1, <2>2, <1>3, <1>4 DEF Writers
<1>7. RecordsApart'
    <2>1. ASSUME NEW i \in 1 .. n, file'[i].writer # file'[i + 1].writer,
                 NEW k \in i + 1 .. n + 1
          PROVE  file'[k].writer # file'[i].writer
        <3>1. cpc[file[i].writer] = "ended"
            BY <2>1, <1>1, <1>3, <1>4, <1>6 DEF Writers
        <3>2. CASE k = n + 1
            BY <3>1, <3>2, <1>1, <1>2, <1>4
        <3>3. CASE k # n + 1
            <4>1. i \in 1 .. n - 1 /\ i + 1 \in 1 .. n /\ k \in i + 1 .. n
                  /\ k \in 1 .. n
                BY <3>3, <1>3
            <4> QED
                BY <2>1, <4>1, <1>4 DEF ChildrenInv, RecordsApart
        <3> QED
            BY <3>2, <3>3
    <2> QED
        BY <2>1, <1>3, <1>4 DEF RecordsApart
<1>8. Writes' /\ Numbered' /\ NobodyLeft'
    BY <1>1 DEF Writes, Numbered, NobodyLeft, ChildrenInv
<1> QED
    BY <1>1, <1>4, <1>6, <1>7, <1>8 DEF ChildrenInv, Tokens

\* SIGINT before it reaches its process, and the handlers.
LEMMA SignalKeepsInv ==
    ASSUME ChildrenInv,
           \/ Interrupt(Live, "CtrlC") \/ Interrupt({Parent}, "parent")
           \/ Handler \/ \E c \in Ids : ChildHandler(c)
    PROVE  ChildrenInv'
<1>1. childVars' = childVars /\ child_count' = child_count /\ ppc' = ppc
    BY DEF Interrupt, Handler, ChildHandler, parentVars
<1> QED
    BY <1>1 DEF childVars, ChildrenInv, Writes, Numbered, Writers, NobodyLeft,
       RecordsApart

LEMMA StepKeepsInv == ChildrenInv /\ [Next]_vars => ChildrenInv'
<1> SUFFICES ASSUME ChildrenInv, [Next]_vars PROVE ChildrenInv'
    OBVIOUS
<1>1. CASE ParentStep
    BY <1>1, ParentKeepsInv
<1>2. ASSUME NEW c \in Ids, ChildStep(c) PROVE ChildrenInv'
    BY <1>2, ChildMovesOn, WriteKeepsInv DEF ChildStep
<1>3. CASE Signals
    BY <1>3, ChildMovesOn, SignalKeepsInv DEF Signals
<1>4. CASE UNCHANGED vars
    BY <1>4 DEF vars, ChildrenInv, Writes, Numbered, Writers, NobodyLeft,
       RecordsApart
<1> QED
    BY <1>1, <1>2, <1>3, <1>4 DEF Next

\* ChildrenInv holds throughout every run of main.c and child.c.
THEOREM ChildrenInvariant == Spec => []ChildrenInv
<1> QED
    BY InitIsFine, StepKeepsInv, PTL DEF Spec

-----------------------------------------------------------------------------
(***************************************************************************)
(* The records of the children are never mixed in the output file, however *)
(* many children there are and wherever SIGINT ends them (child.c).        *)
(***************************************************************************)
THEOREM RecordsNeverMix == Spec => []RecordsApart
<1>1. ChildrenInv => RecordsApart
    BY DEF ChildrenInv
<1> QED
    BY <1>1, ChildrenInvariant, PTL

(***************************************************************************)
(* Nobody writes the output file any more once the parent reads it (the    *)
(* loop round wait in main.c).                                             *)
(***************************************************************************)
THEOREM ParentReadsTheEnd == Spec => CollectsTheEnd
<1>1. ChildrenInv /\ [Next]_vars
          => [(ppc \in {"output", "done"}) => file' = file]_vars
    <2> SUFFICES ASSUME ChildrenInv, Next, ppc \in {"output", "done"}
                 PROVE  file' = file
        BY DEF vars
    <2>1. \A c \in Ids : ~ Write(c)
        BY DEF Write, ChildrenInv, NobodyLeft
    <2>2. CASE ParentStep
        BY <2>2 DEF ParentStep, ReadChar, Fork, Look, KillChildren,
           WaitChildren, ReadToken, ReadEnd, childVars
    <2>3. ASSUME NEW c \in Ids, ChildStep(c) PROVE file' = file
        BY <2>1, <2>3 DEF ChildStep, Exec, TakeLock, Finish
    <2>4. CASE Signals
        BY <2>4 DEF Signals, Interrupt, Handler, ChildHandler, ChildKilled,
           childVars
    <2> QED
        BY <2>2, <2>3, <2>4 DEF Next
<1> QED
    BY <1>1, ChildrenInvariant, PTL DEF Spec, CollectsTheEnd

-----------------------------------------------------------------------------
(***************************************************************************)
(* The points of the children (read_file in main.c).                       *)
(***************************************************************************)
\* The characters of child n and of those before it are 3 * Points more.
LEMMA OneChildMore ==
    \A n \in Int : /\ 3 * Points * (n + 1) \in Int
                   /\ 3 * Points * (n + 2) = 3 * Points * (n + 1) + 3 * Points
<1> SUFFICES ASSUME NEW n \in Int
             PROVE  /\ 3 * Points * (n + 1) \in Int
                    /\ 3 * Points * (n + 2) = 3 * Points * (n + 1) + 3 * Points
    OBVIOUS
<1> DEFINE w == 3 * Points
<1>1. w \in Int
    BY SituationsAssumption
<1> HIDE DEF w
<1>2. w * (n + 1) \in Int /\ w * (n + 2) = w * (n + 1) + w
    BY <1>1
<1> QED
    BY <1>2 DEF w

LEMMA InitHasPoints == Init => PointsInv
<1> SUFFICES ASSUME Init PROVE PointsInv
    OBVIOUS
<1>1. situation.length \in Nat /\ Points \in Nat
    BY SituationsAssumption DEF Init
<1>2. child_count = -1 /\ env = <<>> /\ Len(env) = 0
      /\ 3 * Points * (child_count + 1) + Len(env) = 0
    BY <1>1 DEF Init
<1>3. pos = At(3 * Points * (child_count + 1) + Len(env))
    BY <1>1, <1>2 DEF Init, At
<1>4. points \in [Ids -> Seq(Int)] /\ \A c \in Ids : Len(points[c]) = 0
    BY DEF Init
<1> QED
    BY <1>2, <1>3, <1>4 DEF Init, PointsInv, PointsInOrder

\* A character more is collected; at the end of the file, the last again.
LEMMA ReadCharKeepsPoints == PointsInv /\ ReadChar => PointsInv'
<1> SUFFICES ASSUME PointsInv, ReadChar PROVE PointsInv'
    OBVIOUS
<1> DEFINE base == 3 * Points * (child_count + 1)
           m == Len(env)
<1>1. situation.length \in Int /\ base \in Int /\ m \in Nat
    BY OneChildMore, SituationsAssumption DEF PointsInv
<1>2. /\ situation' = situation /\ child_count' = child_count
      /\ points' = points /\ pos' = At(base + m + 1)
    <2>1. pos = At(base + m) /\ pos' = IF pos < situation.length THEN pos + 1
                                       ELSE pos
        BY DEF ReadChar, PointsInv
    <2> HIDE DEF base, m
    <2>2. pos' = At(base + m + 1)
        BY <1>1, <2>1 DEF At
    <2> QED
        BY <2>2 DEF ReadChar, childVars
<1>3. /\ env' = Append(env, pos') /\ env' \in Seq(Int) /\ Len(env') = m + 1
      /\ env'[m + 1] = pos' /\ \A k \in 1 .. m : env'[k] = env[k]
    <2>1. pos' \in Int
        BY <1>1, <1>2 DEF At
    <2> QED
        BY <1>1, <2>1 DEF ReadChar, PointsInv
<1>4. ppc' = "fork" => Len(env') = 3 * Points
    BY DEF ReadChar
<1>5. \A n : At(n)' = At(n)
    BY <1>2 DEF At
<1>6. \A k \in 1 .. m + 1 : env'[k] = At(base + k)
    <2>1. \A k \in 1 .. m : env[k] = At(base + k)
        BY DEF PointsInv
    <2>2. \A k \in 1 .. m + 1 : k \in 1 .. m \/ k = m + 1
        BY <1>1
    <2>3. base + m + 1 = base + (m + 1)
        BY <1>1
    <2> QED
        BY <1>2, <1>3, <2>1, <2>2, <2>3
<1>7. pos' = At(base + Len(env'))
    BY <1>1, <1>2, <1>3
<1> QED
    BY <1>2, <1>3, <1>4, <1>5, <1>6, <1>7 DEF PointsInv, PointsInOrder, At

\* What is collected goes to the next child, and nothing of it is kept.
LEMMA ForkKeepsPoints == PointsInv /\ Fork => PointsInv'
<1> SUFFICES ASSUME PointsInv, Fork PROVE PointsInv'
    OBVIOUS
<1> DEFINE n == child_count
<1>1. /\ n \in Int /\ n >= -1 /\ child_count' = n + 1 /\ env' = <<>>
      /\ situation' = situation /\ pos' = pos /\ ppc' # "fork"
      /\ Len(env) = 3 * Points /\ Points \in Int
    BY SituationsAssumption DEF PointsInv, Fork
<1>2. /\ 3 * Points * (n + 1) \in Int
      /\ 3 * Points * ((n + 1) + 1) + 0 = 3 * Points * (n + 1) + 3 * Points
    <2>1. (n + 1) + 1 = n + 2 /\ n + 1 \in Int
        BY <1>1
    <2>2. 3 * Points * (n + 1) \in Int /\ 3 * Points * (n + 2) \in Int
          /\ 3 * Points * (n + 2) = 3 * Points * (n + 1) + 3 * Points
        BY <1>1, <2>1, OneChildMore
    <2> QED
        BY <2>1, <2>2
<1>3. pos = At(3 * Points * ((n + 1) + 1) + 0)
    BY <1>1, <1>2 DEF PointsInv
<1>4. Len(env') = 0 /\ env' \in Seq(Int)
    BY <1>1
<1>5. \A k \in 1 .. Len(env) : env[k] = At(3 * Points * (n + 1) + k)
    BY DEF PointsInv
<1>6. /\ points' \in [Ids -> Seq(Int)]
      /\ \A c \in Ids : \/ points'[c] = points[c]
                        \/ c = n + 1 /\ points'[c] = env
    <2>1. points' = points \/ points' = [points EXCEPT ![n + 1] = env]
        BY <1>1 DEF Fork
    <2> QED
        BY <2>1 DEF PointsInv
<1>7. \A c \in Ids : \A k \in 1 .. Len(points'[c]) :
          points'[c][k] = At(3 * Points * c + k)
    <2>1. \A c \in Ids : \A k \in 1 .. Len(points[c]) :
              points[c][k] = At(3 * Points * c + k)
        BY DEF PointsInv, PointsInOrder
    <2>2. ASSUME NEW c \in Ids
          PROVE  \A k \in 1 .. Len(points'[c]) :
                     points'[c][k] = At(3 * Points * c + k)
        <3>1. CASE points'[c] = points[c]
            BY <2>1, <3>1
        <3>2. CASE c = n + 1 /\ points'[c] = env
            BY <1>5, <3>2
        <3> QED
            BY <1>6, <3>1, <3>2
    <2> QED
        BY <2>2
<1>8. \A x : At(x)' = At(x)
    BY <1>1 DEF At
<1>9. PointsInOrder'
    BY <1>1, <1>7 DEF PointsInOrder, At
<1>10. /\ 3 * Points * (child_count' + 1) + Len(env')
              = 3 * Points * ((n + 1) + 1) + 0
       /\ pos' = At(3 * Points * ((n + 1) + 1) + 0)
    BY <1>1, <1>3, <1>4
<1> QED
    BY <1>1, <1>4, <1>6, <1>9, <1>10 DEF PointsInv, At

LEMMA StepKeepsPoints == PointsInv /\ [Next]_vars => PointsInv'
<1> SUFFICES ASSUME PointsInv, [Next]_vars PROVE PointsInv'
    OBVIOUS
<1>1. CASE \/ Look \/ KillChildren \/ WaitChildren \/ ReadToken \/ ReadEnd
           \/ (\E c \in Ids : ChildStep(c)) \/ Signals \/ UNCHANGED vars
    <2> DEFINE Kept == /\ situation' = situation /\ child_count' = child_count
                       /\ env' = env /\ pos' = pos /\ points' = points
                       /\ (ppc' = "fork" => ppc = "fork")
    <2>1. Kept
        <3>1. CASE Look \/ KillChildren \/ WaitChildren \/ ReadToken \/ ReadEnd
            BY <3>1 DEF Look, KillChildren, WaitChildren, ReadToken, ReadEnd,
               childVars
        <3>2. ASSUME NEW c \in Ids, ChildStep(c) \/ ChildHandler(c)
                     \/ ChildKilled(c)
              PROVE  Kept
            BY <3>2 DEF ChildStep, Exec, TakeLock, Write, Finish, ChildHandler,
               ChildKilled, parentVars, childVars
        <3>3. CASE Interrupt(Live, "CtrlC") \/ Interrupt({Parent}, "parent")
                   \/ Handler
            BY <3>3 DEF Interrupt, Handler, parentVars, childVars
        <3>4. CASE UNCHANGED vars
            BY <3>4 DEF vars
        <3>5. CASE Signals
            BY <3>2, <3>3, <3>5 DEF Signals
        <3>6. CASE \E c \in Ids : ChildStep(c)
            BY <3>2, <3>6
        <3> QED
            BY <1>1, <3>1, <3>4, <3>5, <3>6
    <2>2. PointsInOrder'
        BY <2>1 DEF PointsInv, PointsInOrder, At
    <2> QED
        BY <2>1, <2>2 DEF PointsInv, At
<1> QED
    BY <1>1, ReadCharKeepsPoints, ForkKeepsPoints DEF Next, ParentStep

(***************************************************************************)
(* Every child gets the characters of the input file that follow those of  *)
(* the child before it, and only at its end the last one again, whatever   *)
(* its length is and whenever SIGINT comes (read_file in main.c).          *)
(***************************************************************************)
THEOREM PointsAreInOrder == Spec => []PointsInOrder
<1>1. PointsInv => PointsInOrder
    BY DEF PointsInv
<1> QED
    BY <1>1, InitHasPoints, StepKeepsPoints, PTL DEF Spec

-----------------------------------------------------------------------------
(***************************************************************************)
(* The records in the output file, and what read_output makes of them.     *)
(***************************************************************************)
\* The record of a child: its id, and the nine numbers in three rows.
LEMMA RecordIs ==
    /\ Len(Record) = 20
    /\ \A k \in 1 .. 20 :
          Record[k] = IF k = 1 THEN "id"
                      ELSE IF k \in {2, 8, 14, 20} THEN "newline"
                      ELSE IF k \in {4, 6, 10, 12, 16, 18} THEN "comma"
                      ELSE "value"
<1> DEFINE Text == {"id", "value", "comma", "newline"}
           one == <<"id", "newline">>
           two == one \o Row
           three == two \o Row
<1>1. /\ Row \in Seq(Text) /\ Len(Row) = 6
      /\ Row[1] = "value" /\ Row[2] = "comma" /\ Row[3] = "value"
      /\ Row[4] = "comma" /\ Row[5] = "value" /\ Row[6] = "newline"
    BY DEF Row
<1>2. one \in Seq(Text) /\ Len(one) = 2 /\ one[1] = "id" /\ one[2] = "newline"
    OBVIOUS
<1> HIDE DEF one
<1>3. /\ two \in Seq(Text) /\ Len(two) = 8
      /\ \A k \in 1 .. 8 : two[k] = IF k <= 2 THEN one[k] ELSE Row[k - 2]
    <2> HIDE DEF Text
    <2>1. /\ two \in Seq(Text) /\ Len(two) = Len(one) + Len(Row)
          /\ \A k \in 1 .. Len(one) + Len(Row) :
                two[k] = IF k <= Len(one) THEN one[k] ELSE Row[k - Len(one)]
        BY <1>1, <1>2, ConcatProperties, Zenon
    <2> HIDE DEF two
    <2> QED
        BY <1>1, <1>2, <2>1
<1> HIDE DEF two
<1>4. /\ three \in Seq(Text) /\ Len(three) = 14
      /\ \A k \in 1 .. 14 : three[k] = IF k <= 8 THEN two[k] ELSE Row[k - 8]
    <2> HIDE DEF Text
    <2>1. /\ three \in Seq(Text) /\ Len(three) = Len(two) + Len(Row)
          /\ \A k \in 1 .. Len(two) + Len(Row) :
                three[k] = IF k <= Len(two) THEN two[k] ELSE Row[k - Len(two)]
        BY <1>1, <1>3, ConcatProperties, ZenonT(40)
    <2> HIDE DEF three
    <2> QED
        BY <1>1, <1>3, <2>1
<1> HIDE DEF three
<1>5. Record = three \o Row
    BY DEF Record, three, two, one
<1>6. /\ Len(Record) = 20
      /\ \A k \in 1 .. 20 : Record[k] = IF k <= 14 THEN three[k] ELSE Row[k - 14]
    <2> HIDE DEF Text
    <2>1. /\ Len(Record) = Len(three) + Len(Row)
          /\ \A k \in 1 .. Len(three) + Len(Row) :
                Record[k] = IF k <= Len(three) THEN three[k]
                            ELSE Row[k - Len(three)]
        BY <1>1, <1>4, <1>5, ConcatProperties, ZenonT(40)
    <2> QED
        BY <1>1, <1>4, <2>1
<1>7. /\ three[1] = "id" /\ three[2] = "newline" /\ three[3] = "value"
      /\ three[4] = "comma" /\ three[5] = "value" /\ three[6] = "comma"
      /\ three[7] = "value" /\ three[8] = "newline" /\ three[9] = "value"
      /\ three[10] = "comma" /\ three[11] = "value" /\ three[12] = "comma"
      /\ three[13] = "value" /\ three[14] = "newline"
    BY <1>1, <1>2, <1>3, <1>4
<1>8. /\ Record[15] = "value" /\ Record[16] = "comma" /\ Record[17] = "value"
      /\ Record[18] = "comma" /\ Record[19] = "value" /\ Record[20] = "newline"
    BY <1>1, <1>6
<1>9. \A k \in 1 .. 14 : Record[k] = three[k]
    BY <1>6
<1> QED
    BY <1>6, <1>7, <1>8, <1>9

\* How many records the file holds, the last one perhaps in part.
LEMMA CountIs ==
    ASSUME ChildrenInv
    PROVE  /\ Len(file) \in Nat /\ Count \in Nat
           /\ \/ 20 * Count - 20 < Len(file) /\ Len(file) <= 20 * Count
              \/ Count = 0 /\ Len(file) = 0
           /\ \A i \in 1 .. Len(file) : file[i] \in Tokens
           /\ \A m \in 1 .. Count : 20 * m - 19 \in 1 .. Len(file)
           /\ \A m \in 1 .. Count : Writer(m) \in Ids
<1>1. file \in Seq(Tokens) /\ Len(file) \in Nat
    BY DEF ChildrenInv, Tokens
<1>2. \A i \in 1 .. Len(file) : file[i] \in Tokens
    BY <1>1
<1>3. /\ Count \in Nat
      /\ \/ 20 * Count - 20 < Len(file) /\ Len(file) <= 20 * Count
         \/ Count = 0 /\ Len(file) = 0
    BY <1>1 DEF Count
<1>4. \A m \in 1 .. Count : 20 * m - 19 \in 1 .. Len(file)
    BY <1>1, <1>3
<1> QED
    BY <1>1, <1>2, <1>3, <1>4 DEF Writer, Tokens

\* One turn of the loop of read_output, field by field.
LEMMA TakeTokenIs ==
    ASSUME NEW r \in Results, NEW x \in Symbols
    PROVE  LET s == TakeToken(r, x)
           IN  /\ s \in Results /\ s.tokens = r.tokens
               /\ CASE x.text = "newline" /\ r.line % 4 = 0 ->
                         /\ s.line = r.line + 1 /\ s.text = <<>>
                         /\ s.ids = Append(r.ids, r.text)
                         /\ s.numbers = r.numbers
                    [] x.text = "newline" /\ r.line % 4 # 0 ->
                         /\ s.line = r.line + 1 /\ s.text = <<>>
                         /\ s.ids = r.ids
                         /\ s.numbers = Append(r.numbers, r.text)
                    [] x.text = "comma" ->
                         /\ s.line = r.line /\ s.text = <<>>
                         /\ s.ids = r.ids
                         /\ s.numbers = Append(r.numbers, r.text)
                    [] OTHER ->
                         /\ s.line = r.line /\ s.text = Append(r.text, x)
                         /\ s.ids = r.ids /\ s.numbers = r.numbers
<1> DEFINE isId == x.text = "newline" /\ r.line % 4 = 0
           isEnd == x.text = "newline" /\ r.line % 4 # 0
           isComma == x.text = "comma"
<1>1. /\ r.tokens \in Nat /\ r.line \in Nat /\ r.text \in Seq(Symbols)
      /\ r.ids \in Seq(Seq(Symbols)) /\ r.numbers \in Seq(Seq(Symbols))
      /\ Append(r.text, x) \in Seq(Symbols) /\ <<>> \in Seq(Symbols)
      /\ Append(r.ids, r.text) \in Seq(Seq(Symbols))
      /\ Append(r.numbers, r.text) \in Seq(Seq(Symbols))
    BY DEF Results
<1>2. CASE isId
    <2>1. TakeToken(r, x) = [r EXCEPT !.line = @ + 1, !.text = <<>>,
                                      !.ids = Append(@, r.text)]
        BY <1>2 DEF TakeToken
    <2>2. TakeToken(r, x) = [tokens |-> r.tokens, line |-> r.line + 1,
                             text |-> <<>>, ids |-> Append(r.ids, r.text),
                             numbers |-> r.numbers]
        BY <2>1 DEF Results
    <2>3. TakeToken(r, x) \in Results
        BY <1>1, <2>2 DEF Results
    <2> QED
        BY <1>2, <2>2, <2>3
<1>3. CASE isEnd
    <2>1. TakeToken(r, x) = [r EXCEPT !.line = @ + 1, !.text = <<>>,
                                      !.numbers = Append(@, r.text)]
        BY <1>3 DEF TakeToken
    <2>2. TakeToken(r, x) = [tokens |-> r.tokens, line |-> r.line + 1,
                             text |-> <<>>, ids |-> r.ids,
                             numbers |-> Append(r.numbers, r.text)]
        BY <2>1 DEF Results
    <2>3. TakeToken(r, x) \in Results
        BY <1>1, <2>2 DEF Results
    <2> QED
        BY <1>3, <2>2, <2>3
<1>4. CASE isComma
    <2>1. TakeToken(r, x) = [r EXCEPT !.text = <<>>, !.numbers = Append(@, r.text)]
        BY <1>4 DEF TakeToken
    <2> QED
        BY <1>1, <1>4, <2>1 DEF Results
<1>5. CASE ~ isId /\ ~ isEnd /\ ~ isComma
    <2>1. TakeToken(r, x) = [r EXCEPT !.text = Append(@, x)]
        BY <1>5 DEF TakeToken
    <2> QED
        BY <1>1, <1>5, <2>1 DEF Results
<1> QED
    BY <1>2, <1>3, <1>4, <1>5

LEMMA InitHasNoRecords == Init => RecordsInv
<1> SUFFICES ASSUME Init PROVE RecordsInv
    OBVIOUS
<1>1. Len(file) = 0 /\ Count = 0 /\ result = NothingRead
    BY DEF Init, Count
<1>2. result \in Results
    BY <1>1 DEF NothingRead, Results
<1>3. StagesInv
    BY DEF Init, StagesInv
<1>4. FileInv
    BY <1>1 DEF Init, FileInv
<1>5. OutputInv /\ ppc \notin {"output", "done"}
    BY <1>1 DEF Init, OutputInv
<1> QED
    BY <1>2, <1>3, <1>4, <1>5 DEF RecordsInv

\* What is not calm never becomes so again.
LEMMA CalmBefore == [Next]_vars /\ Calm' => Calm
<1> SUFFICES ASSUME [Next]_vars, Calm' PROVE Calm
    OBVIOUS
<1> DEFINE Kept == /\ situation' = situation /\ (sent => sent')
                   /\ (ppc \in {"interrupted", "failed"} => ppc' = ppc)
<1>1. CASE ParentStep
    <2>1. situation' = situation /\ sent' = sent
        BY <1>1 DEF ParentStep, ReadChar, Fork, Look, KillChildren,
           WaitChildren, ReadToken, ReadEnd
    <2>2. ppc \notin {"interrupted", "failed"}
        BY <1>1 DEF ParentStep, ReadChar, Fork, Look, KillChildren,
           WaitChildren, ReadToken, ReadEnd
    <2> QED
        BY <2>1, <2>2 DEF Calm, Undisturbed
<1>2. ASSUME NEW c \in Ids, ChildStep(c) \/ ChildHandler(c) \/ ChildKilled(c)
      PROVE  Kept
    BY <1>2 DEF ChildStep, Exec, TakeLock, Write, Finish, ChildHandler,
       ChildKilled, parentVars
<1>3. CASE Interrupt(Live, "CtrlC") \/ Interrupt({Parent}, "parent") \/ Handler
    <2>1. Kept
        BY <1>3 DEF Interrupt, Handler, parentVars
    <2> QED
        BY <2>1 DEF Calm, Undisturbed
<1>4. CASE UNCHANGED vars
    BY <1>4 DEF vars, Calm, Undisturbed
<1>5. Kept => Calm
    BY DEF Calm, Undisturbed
<1> HIDE DEF Kept
<1> QED
    BY <1>1, <1>2, <1>3, <1>4, <1>5 DEF Next, Signals

\* A step that neither writes nor reads the file keeps what is said of it.
LEMMA RecordsUntouched ==
    ASSUME RecordsInv, [Next]_vars, Calm' => StagesInv',
           file' = file, written' = written, result' = result,
           ppc' = ppc \/ {ppc, ppc'} \intersect {"output", "done"} = {}
    PROVE  RecordsInv'
<1> SUFFICES ASSUME Calm'
             PROVE  /\ FileInv' /\ OutputInv'
                    /\ ppc' \in {"output", "done"} => Len(file') = 20 * Count'
    BY DEF RecordsInv
<1>1. FileInv /\ OutputInv /\ (ppc \in {"output", "done"} => Len(file) = 20 * Count)
    BY CalmBefore DEF RecordsInv
<1>2. Count' = Count
    BY DEF Count
<1>3. FileInv'
    BY <1>1, <1>2 DEF FileInv, Writer
<1>4. OutputInv'
    BY <1>1, <1>2 DEF OutputInv, Reading, IdsRead, NumbersRead
<1> QED
    BY <1>1, <1>2, <1>3, <1>4

\* The steps of the parent but for its reading of the output file.
LEMMA ParentKeepsRecords ==
    ASSUME ChildrenInv, RecordsInv,
           ReadChar \/ Fork \/ Look \/ KillChildren
    PROVE  RecordsInv'
<1>1. [Next]_vars
    BY DEF Next, ParentStep
<1>2. /\ file' = file /\ written' = written /\ result' = result
      /\ {ppc, ppc'} \intersect {"output", "done"} = {}
    BY DEF ReadChar, Fork, Look, KillChildren, childVars
<1>3. ASSUME Calm' PROVE StagesInv'
    <2>1. StagesInv
        BY <1>1, <1>3, CalmBefore DEF RecordsInv
    <2>2. CASE ReadChar \/ Look
        BY <2>1, <2>2 DEF ReadChar, Look, childVars, StagesInv
    <2>3. CASE KillChildren
        BY <1>3, <2>3 DEF KillChildren, Calm
    <2>4. CASE Fork
        <3>1. \A c \in Ids : c = child_count + 1 => cpc[c] = "none"
            BY DEF ChildrenInv, Numbered, Ids
        <3>2. \A c \in Ids : \/ cpc'[c] = cpc[c]
                             \/ cpc[c] = "none" /\ cpc'[c] = "forked"
            BY <2>4, <3>1 DEF Fork, ChildrenInv
        <3>3. interrupted' = interrupted /\ written' = written
            BY <2>4 DEF Fork
        <3> QED
            BY <2>1, <3>2, <3>3 DEF StagesInv
    <2> QED
        BY <2>2, <2>3, <2>4
<1> QED
    BY <1>1, <1>2, <1>3, RecordsUntouched

\* A child that moves on without writing, and SIGINT.
LEMMA OthersKeepRecords ==
    ASSUME ChildrenInv, RecordsInv,
           \/ \E c \in Ids : Exec(c) \/ TakeLock(c) \/ Finish(c)
           \/ Signals
    PROVE  RecordsInv'
<1>1. [Next]_vars
    BY DEF Next, ChildStep
<1>2. /\ file' = file /\ written' = written /\ result' = result /\ ppc' = ppc
    BY DEF Exec, TakeLock, Finish, Signals, Interrupt, Handler, ChildHandler,
       ChildKilled, parentVars, childVars
<1>3. ASSUME Calm' PROVE StagesInv'
    <2>1. StagesInv
        BY <1>1, <1>3, CalmBefore DEF RecordsInv
    <2>2. ASSUME NEW c \in Ids, Exec(c) \/ TakeLock(c) \/ Finish(c)
          PROVE  StagesInv'
        <3>1. interrupted' \subseteq interrupted
            BY <2>2 DEF Exec, TakeLock, Finish
        <3>2. \A d \in Ids : \/ cpc'[d] = cpc[d]
                             \/ cpc[d] = "forked" /\ cpc'[d] = "lock"
                             \/ cpc[d] = "lock" /\ cpc'[d] = "write"
                             \/ /\ cpc'[d] = "ended" /\ written[d] = 20
            BY <2>2, RecordIs DEF Exec, TakeLock, Finish, ChildrenInv
        <3> QED
            BY <1>2, <2>1, <3>1, <3>2 DEF StagesInv
    <2>3. ASSUME NEW c \in Ids, ChildHandler(c) \/ ChildKilled(c)
          PROVE  FALSE
        <3>1. c \in interrupted /\ c # Parent
            BY <2>3 DEF ChildHandler, ChildKilled, Ids, Parent
        <3> QED
            BY <2>1, <3>1 DEF StagesInv
    <2>4. CASE Interrupt(Live, "CtrlC")
        BY <1>3, <2>4 DEF Interrupt, Calm, Undisturbed
    <2>5. CASE Interrupt({Parent}, "parent") \/ Handler
        BY <2>1, <2>5 DEF Interrupt, Handler, StagesInv, childVars
    <2> QED
        BY <2>2, <2>3, <2>4, <2>5 DEF Signals
<1> QED
    BY <1>1, <1>2, <1>3, RecordsUntouched


\* The last record is in full when it has twenty tokens, or none.
LEMMA LastInFull ==
    \A l, n, w \in Int :
        /\ n > 0 /\ 20 * n - 20 < l /\ l <= 20 * n
        /\ w = l - 20 * (n - 1)
        => /\ w > 0
           /\ w \in {0, 20} => l = 20 * n
OBVIOUS

\* The same without the tokens.
LEMMA CountNum ==
    ASSUME ChildrenInv
    PROVE  /\ Len(file) \in Nat /\ Count \in Nat
           /\ \/ 20 * Count - 20 < Len(file) /\ Len(file) <= 20 * Count
              \/ Count = 0 /\ Len(file) = 0
BY CountIs

\* When every child has ended, the last record is in full as well.
LEMMA WaitKeepsRecords ==
    ASSUME ChildrenInv, RecordsInv, WaitChildren PROVE RecordsInv'
<1>1. /\ ppc = "wait" /\ ppc' = "output" /\ interrupted' = interrupted
      /\ cpc' = cpc /\ written' = written /\ file' = file /\ result' = result
      /\ \A c \in Ids : cpc[c] \in {"none", "ended"}
    BY DEF WaitChildren, childVars
<1> SUFFICES ASSUME Calm'
             PROVE  /\ StagesInv' /\ FileInv' /\ OutputInv'
                    /\ Len(file') = 20 * Count'
    BY <1>1 DEF RecordsInv
<1>2. StagesInv /\ FileInv /\ OutputInv
    <2>1. Calm
        BY CalmBefore DEF Next, ParentStep
    <2> QED
        BY <2>1 DEF RecordsInv
<1>3. StagesInv' /\ FileInv' /\ Count' = Count
    BY ZenonT(40), <1>1, <1>2 DEF StagesInv, FileInv, Writer, Count
<1>4. Len(file) = 20 * Count
    <2>1. CASE Count > 0
        <3>1. Count \in 1 .. Count /\ Writer(Count) \in Ids
            BY <2>1, CountIs
        <3>2. written[Writer(Count)] = Len(file) - 20 * (Count - 1)
            BY <1>2, <2>1, <3>1 DEF FileInv
        <3>3. written[Writer(Count)] \in {0, 20}
            BY <1>1, <1>2, <3>1 DEF StagesInv
        <3>4. written[Writer(Count)] \in Int
            BY <3>3
        <3>5. /\ Len(file) \in Int /\ Count \in Int /\ Count > 0
              /\ 20 * Count - 20 < Len(file) /\ Len(file) <= 20 * Count
            BY <2>1, CountNum
        <3> QED
            BY <3>2, <3>3, <3>4, <3>5, LastInFull
    <2> QED
        BY <2>1, CountNum
<1>5. OutputInv'
    <2>1. result = NothingRead
        BY <1>1, <1>2 DEF OutputInv
    <2>2. /\ result.tokens = 0 /\ result.line = 0 /\ result.text = <<>>
          /\ result.ids = <<>> /\ result.numbers = <<>>
          /\ Len(result.ids) = 0 /\ Len(result.numbers) = 0
        BY <2>1 DEF NothingRead
    <2>3. IdsRead /\ NumbersRead
        <3>1. \A m \in 1 .. Count, n \in 1 .. 9 : ~ (9 * m - 9 + n <= 0)
            BY CountIs
        <3> QED
            BY <2>2, <3>1 DEF IdsRead, NumbersRead
    <2>4. Reading(0, 0) /\ 0 \in 0 .. Count /\ 0 \in 0 .. 19
        BY <2>2, <2>3, CountIs DEF Reading
    <2>5. Reading(0, 0)'
        BY <1>1, <1>3, <2>4 DEF Reading, IdsRead, NumbersRead
    <2> QED
        BY <1>1, <1>3, <2>4, <2>5 DEF OutputInv
<1> QED
    BY <1>1, <1>3, <1>4, <1>5

\* A child's first write begins a record after full ones; the others follow.
LEMMA WriteKeepsRecords ==
    ASSUME ChildrenInv, RecordsInv, NEW c \in Ids, Write(c)
    PROVE  RecordsInv'
<1> DEFINE L == Len(file)
           w == written[c]
           x == Token(c, w + 1)
           After(m) == file'[20 * m - 19].writer
<1>1. /\ cpc[c] = "write" /\ lock = c /\ cpc' = cpc /\ ppc' = ppc
      /\ interrupted' = interrupted /\ result' = result
      /\ written' = [written EXCEPT ![c] = w + 1] /\ w < 20
      /\ w \in Int /\ written'[c] = w + 1 /\ file' = Append(file, x)
    BY RecordIs DEF Write, parentVars, ChildrenInv, Writes
<1>2. ppc \notin {"output", "done"}
    BY <1>1 DEF ChildrenInv, NobodyLeft
<1> SUFFICES ASSUME Calm'
             PROVE  StagesInv' /\ FileInv' /\ OutputInv'
    BY <1>1, <1>2 DEF RecordsInv
<1>3. StagesInv /\ FileInv /\ OutputInv
    <2>1. Calm
        BY CalmBefore DEF Next, ChildStep
    <2> QED
        BY <2>1 DEF RecordsInv
<1>4. w \in 0 .. 19
    BY SMTT(30), <1>1, <1>3 DEF StagesInv
<1>5. /\ Len(file') = L + 1 /\ file'[L + 1] = x
      /\ \A i \in 1 .. L : file'[i] = file[i]
    BY <1>1, CountIs DEF ChildrenInv
<1>6. \A d \in Ids : written'[d] = IF d = c THEN w + 1 ELSE written[d]
    BY <1>1 DEF ChildrenInv
<1>7. StagesInv'
    <2>1. w + 1 \in 0 .. 20
        BY <1>4
    <2>2. ASSUME NEW d \in Ids
          PROVE  /\ cpc[d] \in {"none", "forked", "lock"} => written'[d] = 0
                 /\ cpc[d] = "write" => written'[d] \in 0 .. 20
                 /\ cpc[d] = "ended" => written'[d] = 20
        <3>1. CASE d = c
            BY <1>1, <2>1, <3>1
        <3>2. CASE d # c
            BY <1>3, <1>6, <3>2 DEF StagesInv
        <3> QED
            BY <3>1, <3>2
    <2> QED
        BY <1>1, <1>3, <2>2 DEF StagesInv
<1>8. OutputInv'
    BY <1>1, <1>2, <1>3 DEF OutputInv
<1>9. \A m \in 1 .. Count : After(m) = Writer(m)
    BY <1>5, CountIs DEF Writer, After
<1> HIDE DEF x, After
<1>10. CASE w = 0
    <2>1. L = 20 * Count
        <3>1. CASE Count > 0
            <4>1. Count \in 1 .. Count /\ Writer(Count) \in Ids
                BY <3>1, CountIs
            <4>2. written[Writer(Count)] = L - 20 * (Count - 1)
                BY <1>3, <3>1, <4>1 DEF FileInv
            <4>3. written[Writer(Count)] > 0
                BY <3>1, <4>2, CountIs
            <4>4. cpc[Writer(Count)] # "write"
                BY <1>1, <1>10, <4>1, <4>3 DEF ChildrenInv, Writes
            <4>5. cpc[Writer(Count)] \in {"write", "ended"}
                <5>1. 20 * Count - 19 \in 1 .. L
                    BY <4>1, CountIs
                <5> QED
                    BY <5>1 DEF Writer, ChildrenInv, Writers
            <4>6. written[Writer(Count)] = 20
                BY <1>3, <4>1, <4>4, <4>5 DEF StagesInv
            <4>7. /\ L \in Int /\ Count \in Int
                  /\ 20 * Count - 20 < L /\ L <= 20 * Count
                BY <3>1, CountNum
            <4>8. written[Writer(Count)] \in {0, 20} \intersect Int
                BY <4>6
            <4> QED
                BY <3>1, <4>2, <4>7, <4>8, LastInFull
        <3> QED
            BY <3>1, CountIs
    <2>2. Count' = Count + 1
        BY <1>5, <2>1, CountIs DEF Count
    <2>3. After(Count + 1) = c
        <3>1. 20 * (Count + 1) - 19 = L + 1
            BY <2>1, CountIs
        <3> QED
            BY <1>5, <3>1 DEF After, x, Token
    <2>4. \A m \in 1 .. Count + 1 : m \in 1 .. Count \/ m = Count + 1
        BY CountIs
    <2>5. \A m \in 1 .. Count : Writer(m) # c
        BY <1>3, <1>4, <1>10 DEF FileInv
    <2>6. \A l, m \in 1 .. Count + 1 : After(l) = After(m) => l = m
        BY <1>3, <1>9, <2>3, <2>4, <2>5 DEF FileInv
    <2>7. \A d \in Ids :
             written'[d] > 0 <=> \E m \in 1 .. Count + 1 : After(m) = d
        <3>1. \A m \in 1 .. Count : m \in 1 .. Count + 1
            BY CountIs
        <3>2. Count + 1 \in 1 .. Count + 1
            BY CountIs
        <3>3. \A d \in Ids \ {c} : written'[d] = written[d]
            BY <1>6
        <3>4. written'[c] > 0
            BY <1>1, <1>4
        <3> QED
            BY <1>3, <1>9, <2>3, <2>4, <3>1, <3>2, <3>3, <3>4 DEF FileInv
    <2>8. \A m \in 1 .. Count + 1 :
             written'[After(m)] = IF m < Count + 1 THEN 20
                                    ELSE Len(file') - 20 * (Count + 1 - 1)
        <3>1. ASSUME NEW m \in 1 .. Count PROVE written'[After(m)] = 20
            <4>1. Writer(m) \in Ids /\ After(m) = Writer(m) /\ Writer(m) # c
                BY <1>9, <2>5, CountIs
            <4>2. written[Writer(m)] = 20
                <5>1. written[Writer(m)] = IF m < Count THEN 20
                                           ELSE L - 20 * (Count - 1)
                    BY <1>3 DEF FileInv
                <5> QED
                    BY <2>1, <5>1, CountIs
            <4> QED
                BY <1>6, <4>1, <4>2
        <3>2. written'[c] = Len(file') - 20 * (Count + 1 - 1)
            BY <1>1, <1>5, <1>10, <2>1, CountNum
        <3> QED
            BY <2>3, <2>4, <3>1, <3>2, CountNum
    <2>9. \A m \in 1 .. Count + 1, k \in 1 .. 20 :
             20 * m - 20 + k <= Len(file') =>
                 file'[20 * m - 20 + k] = Token(After(m), k)
        <3>1. ASSUME NEW m \in 1 .. Count, NEW k \in 1 .. 20
              PROVE  file'[20 * m - 20 + k] = Token(After(m), k)
            <4>1. 20 * m - 20 + k \in 1 .. L /\ 20 * m - 20 + k <= Len(file)
                BY <2>1, CountIs
            <4>2. file[20 * m - 20 + k] = Token(Writer(m), k)
                BY <1>3, <4>1 DEF FileInv
            <4> QED
                BY <1>5, <1>9, <4>1, <4>2
        <3>2. ASSUME NEW k \in 1 .. 20,
                     20 * (Count + 1) - 20 + k <= Len(file')
              PROVE  file'[20 * (Count + 1) - 20 + k]
                         = Token(After(Count + 1), k)
            <4>1. k = 1 /\ 20 * (Count + 1) - 20 + k = L + 1
                BY SMTT(30), <1>5, <2>1, <3>2, CountIs
            <4> QED
                BY <1>5, <1>10, <2>3, <4>1 DEF x
        <3> QED
            BY <2>4, <3>1, <3>2
    <2>10. FileInv'
        <3>1. \A m : Writer(m)' = After(m)
            BY DEF Writer, After
        <3>2. /\ \A l, m \in 1 .. Count' : Writer(l)' = Writer(m)' => l = m
              /\ \A d \in Ids :
                    written'[d] > 0 <=> \E m \in 1 .. Count' : Writer(m)' = d
            BY <2>2, <2>6, <2>7, <3>1
        <3>3. \A m \in 1 .. Count' :
                 written'[Writer(m)'] = IF m < Count' THEN 20
                                        ELSE Len(file') - 20 * (Count' - 1)
            <4>1. \A m \in 1 .. Count' :
                     written'[After(m)] = IF m < Count' THEN 20
                                          ELSE Len(file') - 20 * (Count' - 1)
                BY <2>2, <2>8, CountNum
            <4> QED
                BY <3>1, <4>1
        <3>4. \A m \in 1 .. Count', k \in 1 .. 20 :
                 20 * m - 20 + k <= Len(file') =>
                     file'[20 * m - 20 + k] = Token(Writer(m)', k)
            BY <2>2, <2>9, <3>1
        <3> QED
            BY <3>2, <3>3, <3>4 DEF FileInv
    <2> QED
        BY <1>7, <1>8, <2>10
<1>11. CASE w > 0
    <2>1. /\ Count \in 1 .. Count /\ Writer(Count) = c
          /\ w = L - 20 * (Count - 1)
        <3>1. PICK m \in 1 .. Count : Writer(m) = c
            BY <1>3, <1>11 DEF FileInv
        <3>2. w = IF m < Count THEN 20 ELSE L - 20 * (Count - 1)
            BY <1>3, <3>1 DEF FileInv
        <3>3. m = Count
            BY <1>4, <3>1, <3>2, CountIs
        <3>4. ~ (m < Count)
            BY <3>3, CountNum
        <3> QED
            BY <3>1, <3>2, <3>3, <3>4
    <2>2. Count' = Count
        BY <1>4, <1>5, <2>1, CountIs DEF Count
    <2>3. \A d \in Ids : written'[d] > 0 <=> written[d] > 0
        BY <1>4, <1>6, <1>11
    <2>4. \A m \in 1 .. Count :
             written'[After(m)] = IF m < Count THEN 20
                                    ELSE Len(file') - 20 * (Count - 1)
        <3>1. ASSUME NEW m \in 1 .. Count, m < Count
              PROVE  written'[After(m)] = 20
            <4>1. Writer(m) \in Ids /\ After(m) = Writer(m)
                BY <1>9, CountIs
            <4>2. Writer(m) # c
                BY <1>3, <2>1, <3>1 DEF FileInv
            <4>3. written[Writer(m)] = 20
                BY <1>3, <3>1 DEF FileInv
            <4> QED
                BY <1>6, <4>1, <4>2, <4>3
        <3>2. written'[After(Count)] = Len(file') - 20 * (Count - 1)
            <4>1. After(Count) = c /\ Count \in Int /\ L \in Int
                BY <1>9, <2>1, CountNum
            <4>2. w + 1 = L + 1 - 20 * (Count - 1)
                BY <2>1, <4>1
            <4> QED
                BY <1>1, <1>5, <4>1, <4>2
        <3>3. \A m \in 1 .. Count : m < Count \/ m = Count
            BY CountIs
        <3> QED
            BY <3>1, <3>2, <3>3, CountNum
    <2>5. ASSUME NEW m \in 1 .. Count, NEW k \in 1 .. 20,
                 20 * m - 20 + k <= Len(file')
          PROVE  file'[20 * m - 20 + k] = Token(After(m), k)
        <3>1. CASE 20 * m - 20 + k <= L
            <4>1. 20 * m - 20 + k \in 1 .. L
                BY <3>1, CountIs
            <4>2. file[20 * m - 20 + k] = Token(Writer(m), k)
                BY <1>3, <3>1 DEF FileInv
            <4> QED
                BY <1>5, <1>9, <4>1, <4>2
        <3>2. CASE ~ (20 * m - 20 + k <= L)
            <4>1. 20 * m - 20 + k = L + 1 /\ m = Count /\ k = w + 1
                BY <1>4, <1>5, <2>1, <2>5, <3>2, CountNum
            <4> QED
                BY <1>5, <1>9, <2>1, <4>1 DEF x
        <3> QED
            BY <3>1, <3>2
    <2>6. FileInv'
        <3>1. \A l, m \in 1 .. Count : After(l) = After(m) => l = m
            BY <1>3, <1>9 DEF FileInv
        <3>2. \A d \in Ids :
                 written'[d] > 0 <=> \E m \in 1 .. Count : After(m) = d
            BY <1>3, <1>9, <2>3 DEF FileInv
        <3> QED
            BY <2>2, <2>4, <2>5, <3>1, <3>2 DEF FileInv, Writer, After
    <2> QED
        BY <1>7, <1>8, <2>6
<1> QED
    BY <1>4, <1>10, <1>11

\* Token k + 1 of a record, after a full ones, and what it is.
LEMMA NextToken ==
    ASSUME ChildrenInv, FileInv, Len(file) = 20 * Count,
           NEW a \in 0 .. Count, NEW k \in 0 .. 19, 20 * a + k < Len(file)
    PROVE  /\ a \in 0 .. Count - 1
           /\ file[20 * a + k + 1] \in Symbols
           /\ file[20 * a + k + 1].text = Record[k + 1]
<1>1. a \in 0 .. Count - 1
    BY CountNum
<1>2. a + 1 \in 1 .. Count /\ k + 1 \in 1 .. 20
      /\ 20 * a + k + 1 \in 1 .. Len(file)
    BY <1>1, CountNum
<1>3. 20 * (a + 1) - 20 + (k + 1) = 20 * a + k + 1
    BY CountNum
<1>4. file[20 * a + k + 1] = Token(Writer(a + 1), k + 1)
    <2>1. 20 * (a + 1) - 20 + (k + 1) <= Len(file)
        BY <1>2, <1>3
    <2>2. file[20 * (a + 1) - 20 + (k + 1)] = Token(Writer(a + 1), k + 1)
        BY <1>2, <2>1 DEF FileInv
    <2> QED
        BY <1>3, <2>2
<1>5. file[20 * a + k + 1] \in Tokens
    BY <1>2, CountIs
<1>6. Tokens \subseteq Symbols
    BY DEF Tokens, Symbols, Ids
<1> QED
    BY <1>1, <1>4, <1>5, <1>6 DEF Token

\* A token is counted when it is read.
LEMMA TokenCounted ==
    ASSUME NEW q \in Results
    PROVE  LET r == [q EXCEPT !.tokens = @ + 1]
           IN  /\ r \in Results /\ r.tokens = q.tokens + 1
               /\ r.line = q.line /\ r.text = q.text /\ r.ids = q.ids
               /\ r.numbers = q.numbers
<1>1. /\ q.tokens \in Nat /\ q.line \in Nat /\ q.text \in Seq(Symbols)
      /\ q.ids \in Seq(Seq(Symbols)) /\ q.numbers \in Seq(Seq(Symbols))
    BY DEF Results
<1>2. [q EXCEPT !.tokens = @ + 1]
        = [tokens |-> q.tokens + 1, line |-> q.line, text |-> q.text,
           ids |-> q.ids, numbers |-> q.numbers]
    <2>1. q \in [tokens : Nat, line : Nat, text : Seq(Symbols),
                 ids : Seq(Seq(Symbols)), numbers : Seq(Seq(Symbols))]
        BY DEF Results
    <2>2. q = [tokens |-> q.tokens, line |-> q.line, text |-> q.text,
               ids |-> q.ids, numbers |-> q.numbers]
        BY <2>1
    <2> QED
        BY <2>2
<1> QED
    BY <1>1, <1>2 DEF Results

\* One turn of the loop of read_output takes a token of the record.
LEMMA ReadingOn ==
    ASSUME ChildrenInv, FileInv, Len(file) = 20 * Count,
           result \in Results,
           NEW a \in 0 .. Count, NEW k \in 0 .. 19, Reading(a, k),
           ReadToken
    PROVE  IF k = 19 THEN Reading(a + 1, 0)' ELSE Reading(a, k + 1)'
<1> DEFINE x == file[20 * a + k + 1]
           r == [result EXCEPT !.tokens = @ + 1]
           s == TakeToken(r, x)
<1>1. /\ result.tokens = 20 * a + k /\ 20 * a + k < Len(file)
      /\ result.line = 4 * a + (IF k < 2 THEN 0 ELSE IF k < 8 THEN 1
                                ELSE IF k < 14 THEN 2 ELSE 3)
      /\ result.text = IF k % 2 = 0 THEN <<>> ELSE <<file[20 * a + k]>>
      /\ Len(result.ids) = IF k < 2 THEN a ELSE a + 1
      /\ Len(result.numbers) = 9 * a + (IF k < 4 THEN 0 ELSE (k \div 2) - 1)
      /\ IdsRead /\ NumbersRead
    BY DEF Reading, ReadToken
<1>2. /\ a \in Nat /\ Count \in Nat /\ a + 1 <= Count
      /\ x \in Symbols /\ x.text = Record[k + 1]
      /\ 20 * a + k + 1 <= Len(file) /\ 20 * a + k + 1 = 20 * a + (k + 1)
    <2>1. /\ a \in 0 .. Count - 1 /\ x \in Symbols /\ x.text = Record[k + 1]
        BY <1>1, NextToken
    <2>2. a \in Nat /\ Count \in Nat /\ a + 1 <= Count
        BY <2>1, CountNum
    <2>3. Len(file) \in Nat
        BY CountNum
    <2>4. 20 * a + k + 1 <= Len(file) /\ 20 * a + k + 1 = 20 * a + (k + 1)
        BY <1>1, <2>2, <2>3
    <2> QED
        BY <2>1, <2>2, <2>4
<1>3. /\ r \in Results /\ r.tokens = 20 * a + k + 1 /\ r.line = result.line
      /\ r.text = result.text /\ r.ids = result.ids
      /\ r.numbers = result.numbers
    <2>1. result.tokens + 1 = 20 * a + k + 1
        BY <1>1
    <2> QED
        BY <2>1, TokenCounted
<1>4. /\ result' = s /\ file' = file
    <2>1. result.tokens + 1 = 20 * a + k + 1
        BY <1>1
    <2> QED
        BY <2>1 DEF ReadToken, childVars
<1>5. /\ s \in Results /\ s.tokens = 20 * a + k + 1
      /\ CASE x.text = "newline" /\ r.line % 4 = 0 ->
                /\ s.line = r.line + 1 /\ s.text = <<>>
                /\ s.ids = Append(r.ids, r.text)
                /\ s.numbers = r.numbers
           [] x.text = "newline" /\ r.line % 4 # 0 ->
                /\ s.line = r.line + 1 /\ s.text = <<>>
                /\ s.ids = r.ids
                /\ s.numbers = Append(r.numbers, r.text)
           [] x.text = "comma" ->
                /\ s.line = r.line /\ s.text = <<>>
                /\ s.ids = r.ids
                /\ s.numbers = Append(r.numbers, r.text)
           [] OTHER ->
                /\ s.line = r.line /\ s.text = Append(r.text, x)
                /\ s.ids = r.ids /\ s.numbers = r.numbers
    BY <1>2, <1>3, TakeTokenIs
<1>6. /\ result.line \in Nat /\ result.ids \in Seq(Seq(Symbols))
      /\ result.numbers \in Seq(Seq(Symbols)) /\ result.text \in Seq(Symbols)
    BY DEF Results
<1>7. Count' = Count
    BY <1>4 DEF Count
<1> HIDE DEF x, r, s
\* The id of the record, or a number, is put into the buffer.
<1>8. CASE k % 2 = 0
    <2>1. Record[k + 1] \in {"id", "value"} /\ k # 19
        <3>1. k \in {0, 2, 4, 6, 8, 10, 12, 14, 16, 18}
            BY <1>8
        <3>2. /\ k + 1 \in 1 .. 20 /\ k + 1 \notin {2, 8, 14, 20}
              /\ k + 1 \notin {4, 6, 10, 12, 16, 18} /\ k # 19
            BY <3>1
        <3> QED
            BY <3>2, RecordIs
    <2>2. s.line = result.line /\ s.text = <<x>> /\ s.ids = result.ids
          /\ s.numbers = result.numbers
        <3>1. x.text # "newline" /\ x.text # "comma"
            BY <1>2, <2>1
        <3>2. r.text = <<>> /\ Append(<<>>, x) = <<x>>
            BY <1>1, <1>3, <1>8
        <3> QED
            BY <1>3, <1>5, <3>1, <3>2
    <2>3. Reading(a, k + 1)'
        <3>1. (k + 1) % 2 # 0
            BY <1>8
        <3>2. (IF k < 4 THEN 0 ELSE (k \div 2) - 1)
                = (IF k + 1 < 4 THEN 0 ELSE ((k + 1) \div 2) - 1)
            BY <1>8
        <3>3. (IF k < 2 THEN 0 ELSE IF k < 8 THEN 1 ELSE IF k < 14 THEN 2 ELSE 3)
                = (IF k + 1 < 2 THEN 0 ELSE IF k + 1 < 8 THEN 1
                   ELSE IF k + 1 < 14 THEN 2 ELSE 3)
            BY <1>8
        <3>4. (IF k < 2 THEN a ELSE a + 1) = (IF k + 1 < 2 THEN a ELSE a + 1)
            BY <1>8
        <3>5. IdsRead' /\ NumbersRead'
            BY <1>1, <1>4, <1>7, <2>2 DEF IdsRead, NumbersRead
        <3>6. result'.tokens = 20 * a + (k + 1) /\ 20 * a + (k + 1) <= Len(file)
            BY <1>2, <1>4, <1>5
        <3>7. result'.text = <<file'[20 * a + (k + 1)]>>
            BY <1>2, <1>4, <2>2 DEF x
        <3> QED
            BY <1>1, <1>4, <2>2, <3>1, <3>2, <3>3, <3>4, <3>5, <3>6, <3>7
            DEF Reading
    <2> QED
        BY <2>1, <2>3
\* The end of the first line: the id is in full.
<1>9. CASE k = 1
    <2>1. Record[k + 1] = "newline" /\ k % 2 # 0
        BY <1>9, RecordIs
    <2>2. result.line = 4 * a /\ result.line % 4 = 0
        BY <1>1, <1>2, <1>9
    <2>3. s.line = result.line + 1 /\ s.text = <<>>
          /\ s.ids = Append(result.ids, <<file[20 * a + k]>>)
          /\ s.numbers = result.numbers
        BY <1>1, <1>2, <1>3, <1>5, <2>1, <2>2
    <2>4. Len(result.ids) = a /\ Len(result.numbers) = 9 * a
        BY <1>1, <1>2, <1>9
    <2>5. /\ Len(s.ids) = a + 1 /\ s.ids[a + 1] = <<file[20 * a + k]>>
          /\ \A m \in 1 .. a : s.ids[m] = result.ids[m]
        <3>1. <<file[20 * a + k]>> \in Seq(Symbols)
            BY <1>1, <1>6, <2>1
        <3> HIDE DEF Results
        <3> QED
            BY <1>2, <1>6, <2>3, <2>4, <3>1, AppendProperties
    <2>6. IdsRead'
        <3>1. \A m \in 1 .. a + 1 : m \in 1 .. a \/ m = a + 1
            BY <1>2
        <3>2. 20 * (a + 1) - 19 = 20 * a + k
            BY <1>2, <1>9
        <3>3. \A m \in 1 .. a : result.ids[m] = <<file[20 * m - 19]>>
            BY <1>1, <2>4 DEF IdsRead
        <3>4. \A m \in 1 .. a + 1 : s.ids[m] = <<file[20 * m - 19]>>
            BY <2>5, <3>1, <3>2, <3>3
        <3> QED
            BY <1>4, <2>5, <3>4 DEF IdsRead
    <2>7. NumbersRead'
        BY <1>1, <1>4, <1>7, <2>3 DEF NumbersRead
    <2>8. /\ result'.tokens = 20 * a + 2 /\ 20 * a + 2 <= Len(file)
          /\ result'.line = 4 * a + 1
        <3>1. 20 * a + k + 1 = 20 * a + 2 /\ result.line + 1 = 4 * a + 1
            BY <1>2, <1>9, <2>2
        <3> QED
            BY <1>2, <1>4, <1>5, <2>3, <3>1
    <2>9. Reading(a, 2)'
        BY <1>2, <1>4, <2>3, <2>4, <2>5, <2>6, <2>7, <2>8 DEF Reading
    <2> QED
        BY <1>9, <2>9
\* The end of a number: a comma, or the end of one of the other lines.
<1>10. CASE k % 2 # 0 /\ k # 1
    <2>1. PICK n \in 1 .. 9 : k = 2 * n + 1
        BY <1>10
    <2>2. /\ Len(result.numbers) = 9 * a + n - 1
          /\ Len(result.ids) = a + 1
        <3>1. /\ (IF k < 4 THEN 0 ELSE (k \div 2) - 1) = n - 1
              /\ ~ (k < 2)
            BY <2>1
        <3>2. 9 * a + (n - 1) = 9 * a + n - 1
            BY <1>2
        <3> QED
            BY <1>1, <3>1, <3>2
    <2>3. /\ s.text = <<>> /\ s.ids = result.ids
          /\ s.numbers = Append(result.numbers, <<file[20 * a + k]>>)
          /\ s.line = result.line + (IF k \in {7, 13, 19} THEN 1 ELSE 0)
        <3>1. CASE k \in {7, 13, 19}
            <4>1. Record[k + 1] = "newline"
                <5>1. k + 1 \in 1 .. 20 /\ k + 1 # 1 /\ k + 1 \in {2, 8, 14, 20}
                    BY <3>1
                <5> QED
                    BY <5>1, RecordIs
            <4>2. result.line % 4 # 0
                <5>1. \E b \in 1 .. 3 : result.line = 4 * a + b
                    BY <1>1, <1>2, <3>1
                <5> QED
                    BY <1>2, <5>1
            <4>3. r.text = <<file[20 * a + k]>>
                BY <1>1, <1>3, <1>10
            <4> QED
                BY <1>2, <1>3, <1>5, <3>1, <4>1, <4>2, <4>3
        <3>2. CASE k \notin {7, 13, 19}
            <4>1. Record[k + 1] = "comma"
                <5>1. k \in {3, 5, 9, 11, 15, 17}
                    BY <2>1, <3>2
                <5>2. k + 1 \in 1 .. 20 /\ k + 1 # 1
                      /\ k + 1 \notin {2, 8, 14, 20}
                      /\ k + 1 \in {4, 6, 10, 12, 16, 18}
                    BY <5>1
                <5> QED
                    BY <5>2, RecordIs
            <4>2. r.text = <<file[20 * a + k]>>
                BY <1>1, <1>3, <1>10
            <4>3. x.text = "comma" /\ x.text # "newline"
                BY <1>2, <4>1
            <4>4. s.line = result.line /\ result.line + 0 = result.line
                BY <1>3, <1>5, <1>6, <4>3
            <4> QED
                BY <1>3, <1>5, <3>2, <4>2, <4>3, <4>4
        <3> QED
            BY <3>1, <3>2
    <2>4. /\ Len(s.numbers) = 9 * a + n
          /\ s.numbers[9 * a + n] = <<file[20 * a + k]>>
          /\ \A m \in 1 .. 9 * a + n - 1 : s.numbers[m] = result.numbers[m]
        <3>1. <<file[20 * a + k]>> \in Seq(Symbols)
            BY <1>1, <1>6, <1>10
        <3>2. 9 * a + n - 1 + 1 = 9 * a + n
            BY <1>2
        <3> QED
            BY <1>2, <1>6, <2>2, <2>3, <3>1, <3>2, AppendProperties
    <2>5. NumbersRead'
        <3>1. ASSUME NEW m \in 1 .. Count, NEW j \in 1 .. 9,
                     9 * m - 9 + j <= 9 * a + n
              PROVE  s.numbers[9 * m - 9 + j] = <<file[20 * m - 19 + 2 * j]>>
            <4>1. CASE 9 * m - 9 + j = 9 * a + n
                <5>1. m = a + 1 /\ j = n
                    BY <1>2, <4>1
                <5>2. 20 * m - 19 + 2 * j = 20 * a + k
                    BY <1>2, <2>1, <5>1
                <5> QED
                    BY <2>4, <4>1, <5>2
            <4>2. CASE 9 * m - 9 + j # 9 * a + n
                <5>1. 9 * m - 9 + j \in 1 .. 9 * a + n - 1
                      /\ 9 * m - 9 + j <= Len(result.numbers)
                    BY <1>2, <2>2, <3>1, <4>2
                <5>2. result.numbers[9 * m - 9 + j]
                        = <<file[20 * m - 19 + 2 * j]>>
                    BY <1>1, <5>1 DEF NumbersRead
                <5> QED
                    BY <2>4, <5>1, <5>2
            <4> QED
                BY <4>1, <4>2
        <3> QED
            BY <1>4, <1>7, <2>4, <3>1 DEF NumbersRead
    <2>6. IdsRead'
        BY <1>1, <1>4, <2>3 DEF IdsRead
    <2>7. 20 * a + k + 1 <= Len(file)
        BY <1>1, <1>2, CountNum
    <2>8. CASE k = 19
        <3>1. /\ s.line = 4 * (a + 1) /\ Len(s.numbers) = 9 * (a + 1)
              /\ s.tokens = 20 * (a + 1) /\ 20 * (a + 1) <= Len(file)
            <4>1. /\ n = 9 /\ 20 * a + k + 1 = 20 * (a + 1)
                  /\ 9 * a + n = 9 * (a + 1)
                BY <1>2, <2>1, <2>8
            <4>2. result.line + 1 = 4 * (a + 1)
                BY <1>1, <1>2, <2>8
            <4> QED
                BY <1>5, <2>3, <2>4, <2>7, <2>8, <4>1, <4>2
        <3> QED
            BY <1>2, <1>4, <2>2, <2>3, <2>5, <2>6, <2>8, <3>1 DEF Reading
    <2>9. CASE k # 19
        <3>1. /\ s.line = 4 * a + (IF k + 1 < 8 THEN 1
                                   ELSE IF k + 1 < 14 THEN 2 ELSE 3)
              /\ ((k + 1) \div 2) - 1 = n /\ ~ (k + 1 < 4) /\ ~ (k + 1 < 2)
              /\ (k + 1) % 2 = 0
            <4>1. /\ ((k + 1) \div 2) - 1 = n /\ ~ (k + 1 < 4) /\ ~ (k + 1 < 2)
                  /\ (k + 1) % 2 = 0
                BY <2>1
            <4>2. (IF k < 2 THEN 0 ELSE IF k < 8 THEN 1 ELSE IF k < 14 THEN 2
                   ELSE 3) + (IF k \in {7, 13, 19} THEN 1 ELSE 0)
                    = (IF k + 1 < 8 THEN 1 ELSE IF k + 1 < 14 THEN 2 ELSE 3)
                BY <2>1, <2>9
            <4>3. \A x1, x2 \in Int : (4 * a + x1) + x2 = 4 * a + (x1 + x2)
                BY <1>2
            <4> QED
                BY <1>1, <2>3, <4>1, <4>2, <4>3
        <3>2. s.tokens = 20 * a + (k + 1) /\ 20 * a + (k + 1) <= Len(file)
            BY <1>2, <1>5
        <3> QED
            BY <1>2, <1>4, <2>2, <2>3, <2>4, <2>5, <2>6, <2>9, <3>1, <3>2
            DEF Reading
    <2> QED
        BY <2>8, <2>9
<1> QED
    BY <1>8, <1>9, <1>10

\* The loop of read_output (main.c) goes on.
LEMMA ReadKeepsRecords ==
    ASSUME ChildrenInv, RecordsInv, ReadToken PROVE RecordsInv'
<1>1. /\ ppc = "output" /\ ppc' = ppc /\ interrupted' = interrupted
      /\ cpc' = cpc /\ written' = written /\ file' = file
      /\ result.tokens < Len(file)
      /\ result' = TakeToken([result EXCEPT !.tokens = @ + 1],
                             file[result.tokens + 1])
    BY DEF ReadToken, childVars
<1>2. result \in Results
    BY DEF RecordsInv
<1>3. result' \in Results
    <2>1. result.tokens + 1 \in 1 .. Len(file)
        BY <1>1, <1>2, CountNum DEF Results
    <2>2. file[result.tokens + 1] \in Symbols
        <3>1. file[result.tokens + 1] \in Tokens
            BY <2>1, CountIs
        <3> QED
            BY <3>1 DEF Tokens, Symbols, Ids
    <2> QED
        BY <1>1, <1>2, <2>2, TokenCounted, TakeTokenIs
<1> SUFFICES ASSUME Calm'
             PROVE  /\ StagesInv' /\ FileInv' /\ OutputInv'
                    /\ Len(file') = 20 * Count'
    BY <1>1, <1>3 DEF RecordsInv
<1>4. StagesInv /\ FileInv /\ OutputInv /\ Len(file) = 20 * Count
    <2>1. Calm
        BY CalmBefore DEF Next, ParentStep
    <2> QED
        BY <1>1, <2>1 DEF RecordsInv
<1>5. StagesInv' /\ FileInv' /\ Count' = Count
    BY <1>1, <1>4 DEF StagesInv, FileInv, Writer, Count
<1>6. OutputInv'
    <2>1. PICK a \in 0 .. Count, k \in 0 .. 19 : Reading(a, k)
        BY <1>1, <1>4 DEF OutputInv
    <2>2. IF k = 19 THEN Reading(a + 1, 0)' ELSE Reading(a, k + 1)'
        BY <1>2, <1>4, <2>1, ReadingOn
    <2>3. a + 1 \in 0 .. Count /\ k + 1 \in 1 .. 20
        <3>1. result.tokens = 20 * a + k
            BY <2>1 DEF Reading
        <3> QED
            <4>1. 20 * a + k < 20 * Count /\ Count \in Nat
                BY <1>1, <1>4, <3>1, CountNum
            <4> QED
                BY <4>1
    <2>4. \E b \in 0 .. Count : \E l \in 0 .. 19 : Reading(b, l)'
        <3>1. CASE k = 19
            BY <2>2, <2>3, <3>1
        <3>2. CASE k # 19
            BY <2>2, <3>2
        <3> QED
            BY <3>1, <3>2
    <2> QED
        BY <1>1, <1>5, <2>4 DEF OutputInv
<1> QED
    BY <1>1, <1>4, <1>5, <1>6

\* The end of the file: the newline once more gives an id more, an empty one.
LEMMA EndKeepsRecords ==
    ASSUME ChildrenInv, RecordsInv, ReadEnd PROVE RecordsInv'
<1>1. /\ ppc = "output" /\ ppc' \in {"done", "failed"} /\ interrupted' = interrupted
      /\ cpc' = cpc /\ written' = written /\ file' = file
      /\ result.tokens = Len(file)
    BY DEF ReadEnd, childVars
<1>2. result \in Results
    BY DEF RecordsInv
<1>3. \/ result' = result /\ Len(file) = 0
      \/ /\ Len(file) = 0
         /\ \E x \in Symbols : result' = TakeToken(result, x)
      \/ /\ Len(file) > 0 /\ file[Len(file)] \in Symbols
         /\ result' = TakeToken(result, file[Len(file)])
    <2>1. Len(file) > 0 => file[Len(file)] \in Symbols
        BY CountIs DEF Tokens, Symbols, Ids
    <2>2. \A t \in {"value", "comma", "newline"} :
             [writer |-> Parent, text |-> t] \in Symbols
        <3>1. Record[3] = "value" /\ Record[4] = "comma" /\ Record[2] = "newline"
            BY RecordIs
        <3> QED
            BY <3>1 DEF Symbols, Parent
    <2>3. Len(file) # 0 => Len(file) > 0
        BY CountNum
    <2> QED
        BY <1>1, <2>1, <2>2, <2>3 DEF ReadEnd
<1>4. result' \in Results
    BY <1>2, <1>3, TakeTokenIs
<1> SUFFICES ASSUME Calm'
             PROVE  /\ StagesInv' /\ FileInv' /\ OutputInv'
                    /\ Len(file') = 20 * Count'
    BY <1>1, <1>4 DEF RecordsInv
<1>5. StagesInv /\ FileInv /\ OutputInv /\ Len(file) = 20 * Count
    <2>1. Calm
        BY CalmBefore DEF Next, ParentStep
    <2> QED
        BY <1>1, <2>1 DEF RecordsInv
<1>6. StagesInv' /\ FileInv' /\ Count' = Count /\ ppc' = "done"
    BY <1>1, <1>5 DEF StagesInv, FileInv, Writer, Count, Calm
<1>7. PICK a \in 0 .. Count, k \in 0 .. 19 : Reading(a, k)
    BY <1>1, <1>5 DEF OutputInv
<1>8. /\ a = Count /\ k = 0 /\ Count \in Nat
    <2>1. result.tokens = 20 * a + k
        BY <1>7 DEF Reading
    <2> QED
        BY <1>1, <1>5, <2>1, CountNum
<1>9. /\ result.line = 4 * Count /\ result.text = <<>>
      /\ Len(result.ids) = Count /\ Len(result.numbers) = 9 * Count
      /\ IdsRead /\ NumbersRead
    <2>1. Reading(Count, 0)
        BY <1>7, <1>8
    <2>2. 4 * Count + 0 = 4 * Count /\ 9 * Count + 0 = 9 * Count
        BY <1>8
    <2> QED
        BY <2>1, <2>2 DEF Reading
<1>10. /\ result.ids \in Seq(Seq(Symbols)) /\ result.text \in Seq(Symbols)
       /\ result.numbers \in Seq(Seq(Symbols)) /\ result.line \in Nat
    BY <1>2 DEF Results
<1>11. OutputInv'
    <2>1. CASE Count > 0
        <3>1. file[Len(file)].text = "newline"
            <4>1. /\ Count \in 1 .. Count /\ 20 \in 1 .. 20
                  /\ 20 * Count - 20 + 20 = Len(file)
                BY <1>5, <1>8, <2>1
            <4>2. file[20 * Count - 20 + 20] = Token(Writer(Count), 20)
                BY <1>5, <1>8, <4>1 DEF FileInv
            <4> QED
                <5>1. Record[20] = "newline"
                    BY RecordIs
                <5> QED
                    BY <4>1, <4>2, <5>1 DEF Token
        <3>2. result.line % 4 = 0
            BY <1>8, <1>9
        <3>3. /\ result' = TakeToken(result, file[Len(file)])
              /\ file[Len(file)] \in Symbols
            BY <1>3, <1>5, <1>8, <2>1
        <3>4. /\ result'.ids = Append(result.ids, result.text)
              /\ result'.numbers = result.numbers
            BY <1>2, <3>1, <3>2, <3>3, TakeTokenIs
        <3>5. /\ Len(result'.numbers) = 9 * Count /\ NumbersRead'
              /\ Compared(result'.numbers) = Count
            <4>1. (9 * Count) \div 9 = Count
                BY <1>8
            <4> QED
                BY ZenonT(40), <1>1, <1>6, <1>9, <3>4, <4>1 DEF NumbersRead, Compared
        <3>6. \A m \in 1 .. Count : result'.ids[m] = <<file[20 * m - 19]>>
            <4>1. \A m \in 1 .. Count : result'.ids[m] = result.ids[m]
                BY <1>9, <1>10, <3>4
            <4> QED
                BY <1>9, <4>1 DEF IdsRead
        <3> QED
            BY <1>1, <1>6, <3>5, <3>6 DEF OutputInv
    <2>2. CASE Count = 0
        <3>1. Len(result'.numbers) \in {0, 1}
            <4>1. Len(result.numbers) = 0
                BY <1>9, <2>2
            <4>2. Len(Append(result.numbers, result.text)) = 1
                BY <1>10, <4>1
            <4> DEFINE Kept(q) == q.numbers \in {result.numbers,
                                       Append(result.numbers, result.text)}
            <4>3. Kept(result')
                <5>1. CASE result' = result
                    BY <5>1
                <5>2. ASSUME NEW x \in Symbols, result' = TakeToken(result, x)
                      PROVE  Kept(result')
                    BY <1>2, <5>2, TakeTokenIs
                <5> QED
                    BY <1>3, <1>5, <2>2, <5>1, <5>2
            <4> QED
                BY <4>1, <4>2, <4>3
        <3>2. Compared(result'.numbers) = 0
            <4>1. \A n \in {0, 1} : n \div 9 = 0
                OBVIOUS
            <4> QED
                BY <3>1, <4>1 DEF Compared
        <3> QED
            BY <1>1, <1>6, <2>2, <3>2 DEF OutputInv
    <2> QED
        BY <1>8, <2>1, <2>2
<1> QED
    BY <1>1, <1>5, <1>6, <1>11

LEMMA StepKeepsRecords ==
    ChildrenInv /\ RecordsInv /\ [Next]_vars => RecordsInv'
<1> SUFFICES ASSUME ChildrenInv, RecordsInv, [Next]_vars PROVE RecordsInv'
    OBVIOUS
<1>1. CASE ParentStep
    BY <1>1, ParentKeepsRecords, WaitKeepsRecords, ReadKeepsRecords,
       EndKeepsRecords DEF ParentStep
<1>2. ASSUME NEW c \in Ids, ChildStep(c) PROVE RecordsInv'
    BY <1>2, OthersKeepRecords, WriteKeepsRecords DEF ChildStep
<1>3. CASE Signals
    BY <1>3, OthersKeepRecords
<1>4. CASE UNCHANGED vars
    <2>1. Calm' => StagesInv'
        BY <1>4, CalmBefore DEF RecordsInv, StagesInv, vars
    <2> QED
        BY <1>4, <2>1, RecordsUntouched DEF vars
<1> QED
    BY <1>1, <1>2, <1>3, <1>4 DEF Next

\* What the parent has when it is done: as many norms as matrices but one,
\* each of the numbers after the id in the same place.
LEMMA DoneIsRight ==
    ChildrenInv /\ RecordsInv => NormsMatchIds
<1> SUFFICES ASSUME ChildrenInv, RecordsInv, ppc = "done", Undisturbed
             PROVE  NormsMatchIds
    BY DEF NormsMatchIds
<1> DEFINE started == {c \in Ids : cpc[c] # "none"}
           norms == Norms(result.numbers)
<1>1. /\ StagesInv /\ FileInv /\ OutputInv /\ Len(file) = 20 * Count
      /\ Count \in Nat /\ result \in Results
    BY CountNum DEF RecordsInv, Calm
<1>2. /\ Compared(result.numbers) = Count
      /\ Count > 0 => Len(result.numbers) = 9 * Count /\ NumbersRead
      /\ \A m \in 1 .. Count : result.ids[m] = <<file[20 * m - 19]>>
    BY <1>1 DEF OutputInv
<1>3. \A m \in 1 .. Count, k \in 1 .. 20 :
         file[20 * m - 20 + k] = Token(Writer(m), k)
    <2>1. \A m \in 1 .. Count, k \in 1 .. 20 : 20 * m - 20 + k <= Len(file)
        BY <1>1
    <2> QED
        BY <1>1, <2>1 DEF FileInv
<1>4. \A m \in 1 .. Count : Writer(m) \in started
    <2> SUFFICES ASSUME NEW m \in 1 .. Count PROVE Writer(m) \in started
        OBVIOUS
    <2>1. Writer(m) \in Ids /\ written[Writer(m)] > 0
        BY <1>1, CountIs DEF FileInv
    <2>2. cpc[Writer(m)] # "none"
        BY <1>1, <2>1 DEF StagesInv
    <2> QED
        BY <2>1, <2>2
<1>5. \A c \in started : \E m \in 1 .. Count : Writer(m) = c
    <2> SUFFICES ASSUME NEW c \in Ids, cpc[c] # "none"
                 PROVE  \E m \in 1 .. Count : Writer(m) = c
        OBVIOUS
    <2>1. cpc[c] = "ended"
        BY DEF ChildrenInv, NobodyLeft
    <2>2. written[c] > 0
        BY <1>1, <2>1 DEF StagesInv
    <2> QED
        BY <1>1, <2>2 DEF FileInv
<1>6. Cardinality(started) = Count
    <2> DEFINE place == [m \in 1 .. Count |-> Writer(m)]
    <2>1. /\ place \in Surjection(1 .. Count, started)
          /\ place \in Injection(1 .. Count, started)
        <3>1. place \in [1 .. Count -> started]
            BY <1>4
        <3>2. \A l, m \in 1 .. Count : place[l] = place[m] => l = m
            BY <1>1 DEF FileInv
        <3>3. \A c \in started : \E m \in 1 .. Count : place[m] = c
            BY <1>5
        <3> HIDE DEF place, started
        <3> QED
            BY <3>1, <3>2, <3>3 DEF Injection, Surjection, IsInjective
    <2>2. IsFiniteSet(1 .. Count) /\ Cardinality(1 .. Count) = Count
        BY <1>1, FS_Interval
    <2> HIDE DEF place, started
    <2> QED
        BY <2>1, <2>2, FS_Surjection
<1>7. {result.ids[k] : k \in 1 .. Count} = {<<Token(c, 1)>> : c \in started}
    <2>1. \A m \in 1 .. Count : result.ids[m] = <<Token(Writer(m), 1)>>
        <3>1. \A m \in 1 .. Count : 20 * m - 20 + 1 = 20 * m - 19
            BY <1>1
        <3> QED
            BY SMTT(30), <1>2, <1>3, <3>1
    <2> HIDE DEF started
    <2> QED
        BY <1>4, <1>5, <2>1
<1>8. Count > 0 =>
          /\ Len(norms) = Count - 1
          /\ \A k \in 1 .. Count - 1, n \in 1 .. 9 :
                /\ Len(norms[k][n]) = 1
                /\ norms[k][n][1].writer = result.ids[k][1].writer
    <2> SUFFICES ASSUME Count > 0
                 PROVE  /\ Len(norms) = Count - 1
                        /\ \A k \in 1 .. Count - 1, n \in 1 .. 9 :
                              /\ Len(norms[k][n]) = 1
                              /\ norms[k][n][1].writer
                                     = result.ids[k][1].writer
        OBVIOUS
    <2>1. /\ ((9 * Count) \div 3 - 1) \div 3 = Count - 1
          /\ Count - 1 \in Nat
        BY <1>1
    <2>2. /\ norms = [k \in 1 .. Count - 1 |->
                         SubSeq(result.numbers, 9 * k - 8, 9 * k)]
          /\ Len(norms) = Count - 1
        <3>1. (Len(result.numbers) \div 3 - 1) \div 3 = Count - 1
            BY <1>2, <2>1
        <3>2. norms = [k \in 1 .. Count - 1 |->
                          SubSeq(result.numbers, 9 * k - 8, 9 * k)]
            BY <3>1 DEF Norms
        <3> HIDE DEF norms
        <3> QED
            BY <2>1, <3>2
    <2>3. ASSUME NEW k \in 1 .. Count - 1, NEW n \in 1 .. 9
          PROVE  /\ Len(norms[k][n]) = 1
                 /\ norms[k][n][1].writer = result.ids[k][1].writer
        <3>1. /\ k \in 1 .. Count /\ 9 * k - 8 \in 1 .. Len(result.numbers)
              /\ 9 * k \in 1 .. Len(result.numbers)
              /\ 9 * k - 8 <= 9 * k
              /\ 9 * k - (9 * k - 8) + 1 = 9
              /\ (9 * k - 8) + n - 1 = 9 * k - 9 + n
              /\ 9 * k - 9 + n <= Len(result.numbers)
              /\ 2 * n + 1 \in 1 .. 20
              /\ 20 * k - 19 + 2 * n = 20 * k - 20 + (2 * n + 1)
            BY <1>1, <1>2
        <3>2. norms[k][n] = result.numbers[9 * k - 9 + n]
            <4>1. result.numbers \in Seq(Seq(Symbols))
                BY <1>1 DEF Results
            <4> QED
                BY <2>2, <3>1, <4>1, SubSeqProperties
        <3>3. result.numbers[9 * k - 9 + n] = <<file[20 * k - 19 + 2 * n]>>
            BY <1>2, <3>1 DEF NumbersRead
        <3>4. file[20 * k - 19 + 2 * n] = Token(Writer(k), 2 * n + 1)
            BY <1>3, <3>1
        <3>5. norms[k][n] = <<Token(Writer(k), 2 * n + 1)>>
            BY <3>2, <3>3, <3>4
        <3>6. result.ids[k] = <<file[20 * k - 19]>>
            BY <1>2, <3>1
        <3> HIDE DEF norms
        <3> QED
            BY <3>5, <3>6 DEF Token, Writer
    <2> QED
        BY <2>2, <2>3
<1>9. Count = 0 => Len(norms) = 0
    <2>1. ASSUME Count = 0 PROVE Len(norms) = 0
        <3>1. result.numbers \in Seq(Seq(Symbols))
            BY <1>1 DEF Results
        <3>2. PICK l \in Nat : l = Len(result.numbers) /\ (l \div 9) = 0
            <4>1. (Len(result.numbers) \div 9) = 0
                BY <1>2, <2>1 DEF Compared
            <4>2. Len(result.numbers) \in Nat
                BY <3>1
            <4> QED
                BY <4>1, <4>2
        <3>3. (l \div 3 - 1) \div 3 \in {-1, 0}
            <4>1. \A x \in Nat : (x \div 9) = 0 => x \in 0 .. 8
                OBVIOUS
            <4>2. l \in 0 .. 8
                BY <3>2, <4>1
            <4> QED
                BY <4>2
        <3>4. 1 .. (l \div 3 - 1) \div 3 = {}
            BY <3>3
        <3>5. norms = [k \in {} |-> SubSeq(result.numbers, 9 * k - 8, 9 * k)]
            BY <3>2, <3>4 DEF Norms
        <3> HIDE DEF norms
        <3> QED
            BY <3>5
    <2> QED
        BY <2>1
<1>10. NormsMatchIds <=>
          /\ Compared(result.numbers) = Cardinality(started)
          /\ {result.ids[k] : k \in 1 .. Compared(result.numbers)}
                  = {<<Token(c, 1)>> : c \in started}
          /\ Compared(result.numbers) > 0 =>
                Len(norms) = Compared(result.numbers) - 1
          /\ \A k \in 1 .. Len(norms), n \in 1 .. 9 :
                /\ Len(norms[k][n]) = 1
                /\ norms[k][n][1].writer = result.ids[k][1].writer
    BY DEF NormsMatchIds
<1> HIDE DEF started, norms
<1>11. CASE Count > 0
    BY <1>2, <1>6, <1>7, <1>8, <1>10, <1>11
<1>12. CASE Count = 0
    BY <1>2, <1>6, <1>7, <1>9, <1>10, <1>12
<1> QED
    BY <1>1, <1>11, <1>12

(***************************************************************************)
(* Unless SIGINT reaches the children, the parent finds one record of each *)
(* child it has started, and the norms it compares are of the children     *)
(* whose ids it prints with them, for any number of children, in whatever  *)
(* order they write (read_output in main.c).                               *)
(***************************************************************************)
THEOREM NormsBelongToIds == Spec => []NormsMatchIds
<1>1. ChildrenInv /\ ChildrenInv' /\ RecordsInv /\ [Next]_vars => RecordsInv'
    BY StepKeepsRecords
<1>2. ChildrenInv /\ RecordsInv => NormsMatchIds
    BY DoneIsRight
<1> QED
    BY <1>1, <1>2, InitHasNoRecords, ChildrenInvariant, PTL DEF Spec
=============================================================================
