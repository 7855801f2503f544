----------------------------- MODULE BoundedFifo -----------------------------
(***************************************************************************)
(* What the request queue promises to a single thread: first in, first     *)
(* out, of at most Capacity items; an item that does not fit is dropped;   *)
(* removing from, or looking into, an empty queue gives NoItem.            *)
(***************************************************************************)
EXTENDS Integers, Sequences

CONSTANTS Items, Capacity, NoItem

VARIABLES
    items,      \* the items in the queue, oldest first
    returned    \* what the last operation returned

vars == <<items, returned>>

Init == items = <<>> /\ returned = NoItem

Put(item) ==
    /\ items' = IF Len(items) < Capacity THEN Append(items, item) ELSE items
    /\ returned' = NoItem

Get ==
    IF items = <<>>
    THEN items' = items /\ returned' = NoItem
    ELSE items' = Tail(items) /\ returned' = Head(items)

Oldest ==
    /\ returned' = IF items = <<>> THEN NoItem ELSE Head(items)
    /\ UNCHANGED items

Newest ==
    /\ returned' = IF items = <<>> THEN NoItem ELSE items[Len(items)]
    /\ UNCHANGED items

Next == (\E item \in Items : Put(item)) \/ Get \/ Oldest \/ Newest

Spec == Init /\ [][Next]_vars
=============================================================================
