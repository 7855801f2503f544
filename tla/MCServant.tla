------------------------------ MODULE MCServant ------------------------------
(* A data set of three cities, of which the servant loads two, which have  *)
(* one hash code, or is asked for one that is not there; the server        *)
(* connects for a request about ALL, one about a city, and EXIT.           *)
EXTENDS Servant, TLC

CONSTANTS c1, c2, c3, unwritten

ThreeCities == <<"A", "B", "C">>
Entry(id, field, date) == [id |-> id, real_estate |-> field, date |-> date]
Date(day, month, year) == [day |-> day, month |-> month, year |-> year]
\* Three dates in this order, in which days and months count down.
first == Date(30, 12, 2029)
second == Date(15, 1, 2030)
third == Date(2, 2, 2030)

DatasetOfThree ==
    [n \in Names |->
        CASE n = "A" -> {Entry(1, "field", first), Entry(2, "field", second)}
          [] n = "B" -> {Entry(3, "field", second), Entry(4, "villa", first)}
          [] n = "C" -> {Entry(5, "field", third), Entry(6, "field", first)}]
FirstTwoOrBeyond == {[start |-> 1, end |-> 2], [start |-> 3, end |-> 4]}
Collisions == {[n \in Names |-> IF n = "C" THEN 2 ELSE 1]}

AllOneExit ==
    c1 :> Request("ALL", "field", first, third)
    @@ c2 :> Request("B", "field", second, third) @@ c3 :> Exit
AnOldRequest == {Request("A", "field", first, second)}
=============================================================================
