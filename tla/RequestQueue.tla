---------------------------- MODULE RequestQueue ----------------------------
(***************************************************************************)
(* struct Queue of helper.h and the functions of helper.c that work on it: *)
(* an array used as a ring, with the index of its first element, the index *)
(* of its last one and the number of elements.  server.c keeps the file    *)
(* descriptors of accepted connections in one, servant.c does the same.    *)
(*                                                                         *)
(* The module is a set of operators on a queue VALUE; the modules that use *)
(* it say which of the memory accesses of a call are one step.             *)
(***************************************************************************)
EXTENDS Integers

\* What dequeue, front and rear return when there is nothing to return.
NoItem == -1

\* The array comes from malloc: its slots hold whatever the memory held.
createQueue(capacity, memory) ==
    [front |-> 0, rear |-> capacity - 1, size |-> 0,
     capacity |-> capacity, array |-> memory]

isFullLate(q) == q.size > q.capacity             \* mutant of isFull
isFullEarly(q) == q.size + 1 = q.capacity        \* mutant of isFull
isFull(q) == q.size = q.capacity

isEmpty(q) == q.size = 0

SuccIndexNoWrap(q, i) == i + 1                   \* mutant of SuccIndex

\* The slot after slot i of the ring.
SuccIndex(q, i) == (i + 1) % q.capacity

\* Mutant of PutRear: the item goes into the slot of the old rear.
PutOldRear(q, item) ==
    [q EXCEPT !.rear = SuccIndex(q, @), !.array = [@ EXCEPT ![q.rear] = item]]

\* The item goes into the slot after the rear; the size is another store.
PutRear(q, item) ==
    LET r == SuccIndex(q, q.rear)
    IN  [q EXCEPT !.rear = r, !.array = [@ EXCEPT ![r] = item]]

DropFrontStays(q) == q                           \* mutant of DropFront

\* The front moves on; the size is another store.
DropFront(q) == [q EXCEPT !.front = SuccIndex(q, @)]

\* An item for which there is no room is dropped, and the caller not told.
enqueue(q, item) ==
    IF isFull(q) THEN q ELSE [PutRear(q, item) EXCEPT !.size = q.size + 1]

dequeue(q) ==
    IF isEmpty(q) THEN q ELSE [DropFront(q) EXCEPT !.size = q.size - 1]

\* What dequeue returns.
front(q) == IF isEmpty(q) THEN NoItem ELSE q.array[q.front]

rear(q) == IF isEmpty(q) THEN NoItem ELSE q.array[q.rear]
=============================================================================
