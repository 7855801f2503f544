----------------------------- MODULE MCReplace -----------------------------
(***************************************************************************)
(* Two processes that run into each other; one that carries out two        *)
(* operations on a text of two lines while the other has nothing to do;    *)
(* and one that carries out one on every text of a few characters.         *)
(***************************************************************************)
EXTENDS Replace, TLC

CONSTANTS P1, P2, a, b, c

op(from, to, case) ==
    [from |-> from, to |-> to, line_case |-> case, valid |-> TRUE]
refused == [op(a, a, NO_LINE_SYMBOL) EXCEPT !.valid = FALSE]

Together(text, first, second) ==
    [text |-> text, operations |-> P1 :> first @@ P2 :> second]

OneLine == <<a, Blank, b>>
TwoLines == <<a, Blank, a, Newline, a, Blank, b, Blank, a>>

SomeSituations ==
    {Together(OneLine, <<op(a, c, NO_LINE_SYMBOL), op(c, a, START_OF_LINE)>>,
                       <<op(b, c, END_OF_LINE), refused>>)}
    \union {Together(TwoLines, <<op(a, b, x), op(b, c, y)>>, <<>>) :
              x, y \in 0 .. 2}
    \union {Together(text, <<op(a, c, x)>>, <<>>) :
              text \in SeqOf({a, b, Blank, Newline}, 4)
                           \union SeqOf({a, Blank, Newline}, 5),
              x \in 0 .. 2}
=============================================================================
