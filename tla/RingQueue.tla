------------------------------ MODULE RingQueue ------------------------------
(***************************************************************************)
(* The request queue in the hands of ONE thread: the functions of helper.c *)
(* called in any order, each as a whole.  Under these conditions the ring  *)
(* implements the bounded FIFO of BoundedFifo; module Server says what is  *)
(* left of that when server.c calls enqueue without its mutex.             *)
(***************************************************************************)
EXTENDS RequestQueue, Sequences

CONSTANTS
    Items,      \* what is queued: file descriptors
    Garbage,    \* what an array slot may hold before it is written
    Capacity    \* the argument of createQueue

ASSUME CapacityAssumption == Capacity \in Nat \ {0}
ASSUME ItemsAssumption == NoItem \notin Items

VARIABLES
    queue,      \* the struct Queue
    returned    \* what the last call returned

vars == <<queue, returned>>

Slots == 0 .. Capacity - 1
Memory == [Slots -> Items \union Garbage]

Structs == [front : Slots, rear : Slots, size : 0 .. Capacity,
            capacity : {Capacity}, array : Memory]

TypeOK ==
    /\ queue \in Structs
    /\ returned \in Items \union {NoItem}

Init ==
    /\ \E memory \in Memory : queue = createQueue(Capacity, memory)
    /\ returned = NoItem

Enqueue(item) ==
    /\ queue' = enqueue(queue, item)
    /\ returned' = NoItem

Dequeue ==
    /\ queue' = dequeue(queue)
    /\ returned' = front(queue)

Front ==
    /\ returned' = front(queue)
    /\ UNCHANGED queue

Rear ==
    /\ returned' = rear(queue)
    /\ UNCHANGED queue

Next == (\E item \in Items : Enqueue(item)) \/ Dequeue \/ Front \/ Rear

Spec == Init /\ [][Next]_vars
-----------------------------------------------------------------------------
\* The slot of the k-th item from the front, k = 1, 2, ...
SlotOf(q, k) ==
    IF q.front + k - 1 < Capacity THEN q.front + k - 1
                                  ELSE q.front + k - 1 - Capacity

\* The items in the ring, oldest first.
Contents(q) == [k \in 1 .. q.size |-> q.array[SlotOf(q, k)]]

\* The rear is size - 1 slots after the front; when the queue is empty, that
\* is the slot before the front.
RearIndex(q) ==
    IF q.size = 0
    THEN IF q.front = 0 THEN Capacity - 1 ELSE q.front - 1
    ELSE SlotOf(q, q.size)

(***************************************************************************)
(* The three indices of the struct always describe the same run of slots,  *)
(* also when the run wraps round the end of the array and when the queue   *)
(* is empty or full (enqueue and dequeue each move one index and change    *)
(* the size).                                                              *)
(***************************************************************************)
RearFollowsFront == queue.rear = RearIndex(queue)

(***************************************************************************)
(* No call ever hands out memory nobody wrote: every slot in the run holds *)
(* an item that was put in (malloc leaves Garbage in the others).          *)
(***************************************************************************)
OnlyWrittenSlots ==
    \A k \in 1 .. queue.size : queue.array[SlotOf(queue, k)] \in Items

(***************************************************************************)
(* Through any sequence of enqueue, dequeue, front and rear the struct     *)
(* describes one run of written slots, and a caller gets an item or the -1 *)
(* of an empty queue.                                                      *)
(***************************************************************************)
IInv == TypeOK /\ RearFollowsFront /\ OnlyWrittenSlots

(***************************************************************************)
(* The ring implements the bounded FIFO: what enqueue, dequeue, front and  *)
(* rear return, and when enqueue drops its argument, is what the FIFO of   *)
(* the ring's contents does.                                               *)
(***************************************************************************)
Fifo == INSTANCE BoundedFifo WITH items <- Contents(queue)
ImplementsFifo == Fifo!Spec
=============================================================================
