---------------------------- MODULE MCWholesaler ----------------------------
(***************************************************************************)
(* Input files for the wholesaler.                                         *)
(***************************************************************************)
EXTENDS Wholesaler, TLC

\* Every pair but milk and walnuts, in both orders, and one of them twice.
AllButMilkWalnuts ==
    << <<"Milk", "Flour">>, <<"Flour", "Milk">>, <<"Sugar", "Walnuts">>,
       <<"Walnuts", "Flour">>, <<"Flour", "Sugar">>, <<"Sugar", "Milk">>,
       <<"Milk", "Flour">> >>

\* Two good lines and a wrong one.
WithWrongLine == << <<"Sugar", "Walnuts">>, <<"Sugar", "Milk">>, Wrong >>

\* A good line, and one with a letter that stands for nothing.
WithOtherLetter == << <<"Sugar", "Milk">>, <<"Milk", "Other">>, <<"Flour", "Sugar">> >>

\* The one pair that no pusher answers.
WithMilkWalnuts == << <<"Sugar", "Walnuts">>, <<"Milk", "Walnuts">> >>

OnlyMilkWalnuts == {WithMilkWalnuts}
ServedOrWrong == {AllButMilkWalnuts, WithWrongLine, WithOtherLetter}
=============================================================================
