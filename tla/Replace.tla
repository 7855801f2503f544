------------------------------- MODULE Replace -------------------------------
(***************************************************************************)
(* Homework 1: processes that replace words in one file.  Each operation   *)
(* of a process reads the whole file into a list of words (read_file) and  *)
(* writes the list back (write_file).                                      *)
(*                                                                         *)
(* The two functions lock the file, but a write lock needs a descriptor    *)
(* open for writing: fcntl fails, unnoticed, on the one that reads and on  *)
(* the first one of write_file, whose open truncates.  Only the second one *)
(* of write_file, opened with O_TRUNC || O_WRONLY, which is O_WRONLY, has  *)
(* a lock.                                                                 *)
(*                                                                         *)
(* A word of the texts is one letter, and a pattern matches one letter;    *)
(* what the pattern language matches is left out.  A buffer that was not   *)
(* terminated may end in what malloc left there, the letter Garbage.       *)
(***************************************************************************)
EXTENDS Integers, Sequences, FiniteSets, SequencesExt

CONSTANTS
    Procs,
    Letters,
    Situations      \* the text, and the operations of each process

NO_LINE_SYMBOL == 0
START_OF_LINE == 1
END_OF_LINE == 2

Nobody == "nobody"
Blank == "blank"
Newline == "newline"
Nul == "nul"                    \* what fills a hole in a file
Garbage == "garbage"
Special == {Blank, Newline, Nul, Garbage}

\* str1 and str2 of an operation, its line_case, and whether check_input
\* takes it.
Operation == [from : Letters, to : Letters, line_case : 0 .. 2, valid : BOOLEAN]

ASSUME SituationAssumption ==
    /\ Letters \intersect Special = {} /\ Nobody \notin Procs
    /\ \A s \in Situations :
          /\ s.text \in Seq(Letters \union {Blank, Newline})
          /\ s.operations \in [Procs -> Seq(Operation)]

VARIABLES
    file,           \* the characters of the file
    operations,     \* the operations of each process, the current one first
    pc,             \* "next", "read", "truncate", "lock", "write", "ended"
    offset,         \* of the descriptor of each process
    word,           \* the buffer word, up to word_len
    word_list,      \* the words of word_list, one after another
    flags,          \* each process's [start_line, first_word]
    lock,           \* who holds the lock
    before,         \* history: the file when the operation began
    alone,          \* history: the operation was the only one meanwhile
    stands          \* history: nobody truncated the file since the lock

replaceVars == <<file, operations, pc, offset, word, word_list, flags, lock, before,
          alone, stands>>

Op(i) == Head(operations[i])

Goto(i, label) == pc' = [pc EXCEPT ![i] = label]

NewFlags == [start_line |-> FALSE, first_word |-> TRUE]

Active(i) == pc[i] \notin {"next", "ended"}

ReplaceInit ==
    /\ \E s \in Situations : file = s.text /\ operations = s.operations
    /\ pc = [i \in Procs |-> "next"]
    /\ offset = [i \in Procs |-> 0]
    /\ word = [i \in Procs |-> <<>>]
    /\ word_list = [i \in Procs |-> <<>>]
    /\ flags = [i \in Procs |-> NewFlags]
    /\ lock = Nobody
    /\ before = [i \in Procs |-> <<>>]
    /\ alone = [i \in Procs |-> TRUE]
    /\ stands = TRUE
-----------------------------------------------------------------------------
\* Between two operations: a pattern check_input refuses ends the process.
Begin(i) ==
    /\ pc[i] = "next"
    /\ IF operations[i] # <<>> /\ Op(i).valid
       THEN /\ Goto(i, "read")
            /\ before' = [before EXCEPT ![i] = file]
            /\ alone' = [j \in Procs |->
                            IF j = i THEN \A k \in Procs : ~ Active(k)
                                     ELSE alone[j] /\ ~ Active(j)]
       ELSE Goto(i, "ended") /\ UNCHANGED <<before, alone>>
    /\ offset' = [offset EXCEPT ![i] = 0]
    /\ word' = [word EXCEPT ![i] = <<>>]
    /\ word_list' = [word_list EXCEPT ![i] = <<>>]
    /\ flags' = [flags EXCEPT ![i] = NewFlags]
    /\ UNCHANGED <<file, operations, lock, stands>>

-----------------------------------------------------------------------------
(***************************************************************************)
(* read_file: one character a step.                                        *)
(***************************************************************************)
\* A string ends at its first Nul.
Terminated(w) == SelectInSeq(w, LAMBDA ch : ch = Nul) - 1

\* Mutant of String: the length of the buffer is taken for the string's.
StringOfBuffer(w) == w

String(w) == IF Nul \in {w[k] : k \in 1 .. Len(w)}
             THEN SubSeq(w, 1, Terminated(w)) ELSE w

\* check_words: the match and what follows it in the word give way to str2.
check_words(w, op) ==
    LET k == SelectInSeq(w, LAMBDA ch : ch = op.from)
    IN  IF k = 0 THEN w ELSE Append(SubSeq(w, 1, k - 1), op.to)

\* The strings an unterminated buffer may be.
Unterminated(w) ==
    IF String(w) = w THEN {w, Append(w, Garbage)} ELSE {String(w)}

Put(i, w, separator) ==
    word_list' = [word_list EXCEPT ![i] = @ \o w \o separator]

EndOfWord(i, replaced, strings, separator) ==
    /\ IF word[i] = <<>>
       THEN Put(i, <<>>, separator)
       ELSE \E w \in strings :
               Put(i, IF replaced THEN check_words(w, Op(i)) ELSE w, separator)
    /\ word' = [word EXCEPT ![i] = <<>>]

\* Mutant of AtNewline: that a line starts is not noted.
AtNewlineForgets(i) ==
    /\ EndOfWord(i, Op(i).line_case # START_OF_LINE \/ flags[i].first_word,
                 Unterminated(word[i]), <<Newline>>)
    /\ flags' = [flags EXCEPT ![i].first_word = @ /\ word[i] = <<>>]

AtNewline(i) ==
    LET case == Op(i).line_case
        first == case = START_OF_LINE /\ flags[i].first_word
    IN  /\ EndOfWord(i, case # START_OF_LINE \/ first, Unterminated(word[i]),
                     <<Newline>>)
        /\ flags' = [flags EXCEPT ![i] =
                        [start_line |-> TRUE,
                         first_word |-> flags[i].first_word
                                          /\ ~ (first /\ word[i] # <<>>)]]

\* Mutant of AtBlank: the word is replaced whatever line_case is.
AtBlankAlways(i) ==
    /\ EndOfWord(i, TRUE, {String(word[i])}, <<Blank>>)
    /\ flags' = flags

AtBlank(i) ==
    LET case == Op(i).line_case
        first == case = START_OF_LINE /\ flags[i].first_word
        starts == case = START_OF_LINE /\ ~ first /\ flags[i].start_line
    IN  /\ EndOfWord(i, first \/ starts \/ case = NO_LINE_SYMBOL,
                     {String(word[i])}, <<Blank>>)
        /\ flags' = [flags EXCEPT ![i] =
                        [start_line |-> flags[i].start_line
                                          /\ ~ (starts /\ word[i] # <<>>),
                         first_word |-> flags[i].first_word
                                          /\ ~ (first /\ word[i] # <<>>)]]

InWord(i, ch) ==
    /\ word' = [word EXCEPT ![i] = Append(@, ch)]
    /\ UNCHANGED <<word_list, flags>>

ReadChar(i) ==
    /\ pc[i] = "read" /\ offset[i] < Len(file)
    /\ offset' = [offset EXCEPT ![i] = @ + 1]
    /\ LET ch == file[offset'[i]]
       IN  CASE ch = Newline -> AtNewline(i)
             [] ch = Blank -> AtBlank(i)
             [] OTHER -> InWord(i, ch)
    /\ UNCHANGED <<file, operations, pc, lock, before, alone, stands>>

\* Whether the list gets an unterminated copy of the last word (strncpy).
CopiedOpen(i) ==
    \/ Op(i).line_case = NO_LINE_SYMBOL
    \/ Op(i).line_case = START_OF_LINE /\ ~ flags[i].start_line

\* The last word is replaced whatever line_case is; also an empty buffer is
\* put, which is not terminated either.
ReadEnd(i) ==
    /\ pc[i] = "read" /\ offset[i] >= Len(file)
    /\ \E w \in Unterminated(word[i]) :
          LET last == check_words(w, Op(i))
          IN  \E copy \in IF CopiedOpen(i) THEN Unterminated(last) ELSE {last} :
                 Put(i, copy, <<>>)
    /\ Goto(i, "truncate")
    /\ UNCHANGED <<file, operations, offset, word, flags, lock, before, alone,
                   stands>>
-----------------------------------------------------------------------------
(***************************************************************************)
(* write_file.                                                             *)
(***************************************************************************)
Truncate(i) ==
    /\ pc[i] = "truncate"
    /\ file' = <<>>
    /\ stands' = FALSE
    /\ Goto(i, "lock")
    /\ UNCHANGED <<operations, offset, word, word_list, flags, lock, before,
                   alone>>

\* Mutant of Lock: also the third lock fails.
LockFails(i) ==
    /\ pc[i] = "lock"
    /\ lock' = i /\ stands' = TRUE
    /\ offset' = [offset EXCEPT ![i] = 0]
    /\ Goto(i, "write")
    /\ UNCHANGED <<file, operations, word, word_list, flags, before, alone>>

Lock(i) ==
    /\ pc[i] = "lock" /\ lock = Nobody
    /\ lock' = i /\ stands' = TRUE
    /\ offset' = [offset EXCEPT ![i] = 0]
    /\ Goto(i, "write")
    /\ UNCHANGED <<file, operations, word, word_list, flags, before, alone>>

\* A write beyond the end of the file leaves a hole.
WriteChar(i) ==
    /\ pc[i] = "write" /\ offset[i] < Len(word_list[i])
    /\ LET n == offset[i] + 1
           at(k) == IF k = n THEN word_list[i][n]
                    ELSE IF k <= Len(file) THEN file[k] ELSE Nul
       IN  /\ offset' = [offset EXCEPT ![i] = n]
           /\ file' = [k \in 1 .. (IF n > Len(file) THEN n ELSE Len(file)) |->
                          at(k)]
    /\ UNCHANGED <<operations, pc, word, word_list, flags, lock, before, alone,
                   stands>>

\* Mutant of Unlock: nobody gives the lock back.
UnlockForgets(i) ==
    /\ pc[i] = "write" /\ offset[i] = Len(word_list[i])
    /\ operations' = [operations EXCEPT ![i] = Tail(@)]
    /\ Goto(i, "next")
    /\ UNCHANGED <<file, offset, word, word_list, flags, lock, before, alone,
                   stands>>

Unlock(i) ==
    /\ pc[i] = "write" /\ offset[i] = Len(word_list[i])
    /\ lock' = Nobody
    /\ operations' = [operations EXCEPT ![i] = Tail(@)]
    /\ Goto(i, "next")
    /\ UNCHANGED <<file, offset, word, word_list, flags, before, alone, stands>>

Step(i) ==
    \/ Begin(i) \/ ReadChar(i) \/ ReadEnd(i)
    \/ Truncate(i) \/ Lock(i) \/ WriteChar(i) \/ Unlock(i)

ReplaceNext == \E i \in Procs : Step(i)

ReplaceSpec == ReplaceInit /\ [][ReplaceNext]_replaceVars

FairReplaceSpec == ReplaceSpec /\ \A i \in Procs : WF_replaceVars(Step(i))
-----------------------------------------------------------------------------
ReplaceTypeOK ==
    /\ file \in Seq(Letters \union Special)
    /\ pc \in [Procs -> {"next", "read", "truncate", "lock", "write", "ended"}]
    /\ offset \in [Procs -> Nat]
    /\ word \in [Procs -> Seq(Letters \union Special)]
    /\ word_list \in [Procs -> Seq(Letters \union {Blank, Newline, Garbage})]
    /\ lock \in Procs \union {Nobody}

\* No damage of an earlier overlap: words of one letter, no hole, and what
\* malloc left only at the end of a word, or of the text.
Whole(text) ==
    \A k \in 1 .. Len(text) :
        /\ text[k] # Nul
        /\ text[k] \in Letters /\ k > 1 => text[k - 1] \in {Blank, Newline}
        /\ text[k] = Garbage =>
              \/ k > 1 /\ text[k - 1] \notin {Blank, Newline}
              \/ \A j \in k .. Len(text) : text[j] = Garbage

\* The places of a text that are not what malloc left at the end of a word,
\* and how many of them there are up to place k: those of two texts that
\* have the same rank belong together.
Solid(text) == {k \in 1 .. Len(text) : text[k] # Garbage}
Rank(text, k) == Cardinality({j \in Solid(text) : j <= k})

FirstWord(text, k) == \A j \in 1 .. k - 1 : text[j] \notin Letters

\* The first word of a line that is not the first line of the text; the
\* first word of the text is passed over.
StartsLine(text, k) ==
    \E n \in 1 .. k - 1 :
        /\ text[n] = Newline
        /\ \A j \in n + 1 .. k - 1 : text[j] \in Letters => FirstWord(text, j)

EndsLine(text, k) ==
    \A j \in k + 1 .. Len(text) :
        text[j] = Garbage \/ \E n \in k + 1 .. j : text[n] = Newline

EndsText(text, k) == \A j \in k + 1 .. Len(text) : text[j] = Garbage

\* The words an operation of this line_case works on: all; the last one of
\* each line; or the first one of the text, the last one of the text, and on
\* each line but the first the first one, if another follows it there.
Replaces(text, k, case) ==
    \/ case = NO_LINE_SYMBOL
    \/ case = END_OF_LINE /\ EndsLine(text, k)
    \/ /\ case = START_OF_LINE
       /\ \/ FirstWord(text, k) \/ EndsText(text, k)
          \/ StartsLine(text, k) /\ ~ EndsLine(text, k)

RightLetter(text, k, ch, op) ==
    ch = IF text[k] = op.from /\ Replaces(text, k, op.line_case)
         THEN op.to ELSE text[k]

\* The first n characters of new are what op makes of the first m of old.
RightText(old, m, new, n, op) ==
    /\ Rank(old, m) = Rank(new, n)
    /\ \A j \in Solid(old), k \in Solid(new) :
          j <= m /\ k <= n /\ Rank(old, j) = Rank(new, k) =>
              RightLetter(old, j, new[k], op)

(***************************************************************************)
(* An operation that no other process ran into, on a file none has damaged *)
(* before, leaves the text of the file as it was, with its letter replaced *)
(* in exactly the words its line case works on in read_file (Replaces) and *)
(* nowhere else; what malloc left at the end of a word aside.              *)
(***************************************************************************)
AloneIsRight ==
    \A i \in Procs :
        pc[i] = "write" /\ offset[i] = Len(word_list[i])
                /\ alone[i] /\ Whole(before[i]) =>
            RightText(before[i], Len(before[i]), file, Len(file), Op(i))

(***************************************************************************)
(* What a process has written under its lock stands there, until another   *)
(* one truncates the file, for which no lock is asked.                     *)
(***************************************************************************)
LockedTextStands ==
    \A i \in Procs :
        pc[i] = "write" /\ stands =>
            /\ offset[i] <= Len(file)
            /\ SubSeq(file, 1, offset[i]) = SubSeq(word_list[i], 1, offset[i])

(***************************************************************************)
(* What is read from the file, put into the list and written under the     *)
(* lock is the text it is meant to be: a list of words holds no Nul, also  *)
(* where an overlap left a hole in the file.                               *)
(***************************************************************************)
TextStands == ReplaceTypeOK /\ LockedTextStands

(***************************************************************************)
(* Every process carries out its operations and ends: a lock is given back *)
(* before the next one is asked for.                                       *)
(***************************************************************************)
EverybodyEnds == <>(\A i \in Procs : pc[i] = "ended")
=============================================================================
