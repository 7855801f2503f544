--------------------------- MODULE RingQueue_proof ---------------------------
(***************************************************************************)
(* The ring of RingQueue implements the bounded FIFO, for every capacity   *)
(* and every set of items.  The invariant IInv is inductive; SlotOf turns  *)
(* the modulus of the code into a case distinction that the SMT backend    *)
(* can work with.                                                          *)
(***************************************************************************)
EXTENDS RingQueue, SequenceTheorems, TLAPS

\* What IInv says of the struct alone.
WellFormed(q) ==
    /\ q \in Structs
    /\ q.rear = RearIndex(q)
    /\ \A k \in 1 .. q.size : q.array[SlotOf(q, k)] \in Items

\* The modulus with which enqueue and dequeue advance an index wraps it to
\* zero at the capacity and nowhere else.
LEMMA SuccIndexWraps ==
    ASSUME NEW q \in Structs, NEW i \in Slots
    PROVE  /\ SuccIndex(q, i) = IF i + 1 = Capacity THEN 0 ELSE i + 1
           /\ SuccIndex(q, i) \in Slots
<1> USE CapacityAssumption DEF Slots
<1>0. SuccIndex(q, i) = (i + 1) % Capacity
  BY DEF SuccIndex, Structs
<1>1. CASE i + 1 = Capacity
  BY <1>0, <1>1
<1>2. CASE i + 1 < Capacity
  BY <1>0, <1>2
<1>3. QED BY <1>1, <1>2

\* The slots of the run are slots, and different items sit in different ones.
LEMMA SlotsOfTheRun ==
    ASSUME NEW q \in Structs
    PROVE  /\ \A k \in 1 .. Capacity : SlotOf(q, k) \in Slots
           /\ \A k, l \in 1 .. Capacity : SlotOf(q, k) = SlotOf(q, l) => k = l
BY CapacityAssumption DEF Structs, SlotOf, Slots

\* A well-formed queue is empty, or full, exactly when the FIFO of its
\* contents is.
LEMMA ContentsLength ==
    ASSUME NEW q, WellFormed(q)
    PROVE  /\ Contents(q) \in Seq(Items)
           /\ Len(Contents(q)) = q.size
           /\ isEmpty(q) <=> Contents(q) = <<>>
           /\ ~ isFull(q) <=> Len(Contents(q)) < Capacity
<1>1. q.size \in 0 .. Capacity /\ q.capacity = Capacity
  BY DEF WellFormed, Structs
<1>2. Contents(q) \in Seq(Items) /\ Len(Contents(q)) = q.size
  BY <1>1, CapacityAssumption DEF Contents, WellFormed
<1>3. QED BY <1>1, <1>2, CapacityAssumption DEF isEmpty, isFull

\* The free slot after the rear is the one the next item of the run gets.
LEMMA NextFreeSlot ==
    ASSUME NEW q, WellFormed(q), ~ isFull(q)
    PROVE  SuccIndex(q, q.rear) = SlotOf(q, q.size + 1)
<1>1. /\ q \in Structs
      /\ q.rear \in Slots /\ q.front \in Slots
      /\ q.size \in 0 .. Capacity - 1
      /\ q.rear = RearIndex(q)
  BY CapacityAssumption DEF WellFormed, Structs, isFull, Slots
<1>2. SuccIndex(q, q.rear) = IF q.rear + 1 = Capacity THEN 0 ELSE q.rear + 1
  BY <1>1, SuccIndexWraps
<1>3. QED
  BY <1>1, <1>2, CapacityAssumption DEF RearIndex, SlotOf, Slots

\* The fields of the struct after an enqueue that finds room.
LEMMA EnqueueFields ==
    ASSUME NEW q \in Structs, NEW item \in Items, ~ isFull(q)
    PROVE  LET r == SuccIndex(q, q.rear)
           IN  enqueue(q, item) =
                 [front |-> q.front, rear |-> r, size |-> q.size + 1,
                  capacity |-> Capacity, array |-> [q.array EXCEPT ![r] = item]]
BY DEF enqueue, PutRear, Structs

\* The fields of the struct after a dequeue that finds an item.
LEMMA DequeueFields ==
    ASSUME NEW q \in Structs, ~ isEmpty(q)
    PROVE  dequeue(q) =
             [front |-> SuccIndex(q, q.front), rear |-> q.rear,
              size |-> q.size - 1, capacity |-> Capacity, array |-> q.array]
BY DEF dequeue, DropFront, Structs

\* enqueue appends its argument to the contents when there is room.
LEMMA EnqueueAppends ==
    ASSUME NEW q, WellFormed(q), NEW item \in Items, ~ isFull(q)
    PROVE  /\ WellFormed(enqueue(q, item))
           /\ Contents(enqueue(q, item)) = Append(Contents(q), item)
<1> DEFINE p == enqueue(q, item)
           r == SuccIndex(q, q.rear)
<1>1. /\ q \in Structs
      /\ q.front \in Slots /\ q.rear \in Slots
      /\ q.size \in 0 .. Capacity - 1
      /\ q.array \in Memory
  BY CapacityAssumption DEF WellFormed, Structs, isFull, Slots
<1>2. /\ p.front = q.front /\ p.rear = r /\ p.size = q.size + 1
      /\ p.array = [q.array EXCEPT ![r] = item]
  BY <1>1, EnqueueFields
<1>3. r \in Slots /\ r = SlotOf(q, q.size + 1)
  BY <1>1, SuccIndexWraps, NextFreeSlot
<1>4. p \in Structs
  BY <1>1, <1>3, EnqueueFields, CapacityAssumption DEF Structs, Memory
<1>5. \A k \in 1 .. Capacity : SlotOf(p, k) = SlotOf(q, k)
  BY <1>2 DEF SlotOf
<1>6. p.array[SlotOf(p, q.size + 1)] = item
  BY <1>1, <1>2, <1>3, <1>5, CapacityAssumption DEF Memory
<1>7. \A k \in 1 .. q.size : p.array[SlotOf(p, k)] = q.array[SlotOf(q, k)]
  <2> SUFFICES ASSUME NEW k \in 1 .. q.size
               PROVE  p.array[SlotOf(p, k)] = q.array[SlotOf(q, k)]
    OBVIOUS
  <2>1. /\ k \in 1 .. Capacity /\ q.size + 1 \in 1 .. Capacity
        /\ k # q.size + 1
    BY <1>1, CapacityAssumption
  <2>2. SlotOf(q, k) \in Slots /\ SlotOf(q, k) # r
    BY <1>1, <1>3, <2>1, SlotsOfTheRun
  <2>3. QED BY <1>1, <1>2, <1>5, <2>1, <2>2 DEF Memory
<1>8. WellFormed(p)
  <2>1. p.rear = RearIndex(p)
    BY <1>1, <1>2, <1>3, <1>5, CapacityAssumption DEF RearIndex
  <2>2. \A k \in 1 .. p.size : p.array[SlotOf(p, k)] \in Items
    <3> SUFFICES ASSUME NEW k \in 1 .. p.size
                 PROVE  p.array[SlotOf(p, k)] \in Items
      OBVIOUS
    <3>1. k \in 1 .. q.size \/ k = q.size + 1
      BY <1>1, <1>2
    <3>2. QED BY <1>6, <1>7, <3>1 DEF WellFormed
  <2>3. QED BY <1>4, <2>1, <2>2 DEF WellFormed
<1>9. Contents(p) = Append(Contents(q), item)
  <2>1. Contents(q) \in Seq(Items) /\ Len(Contents(q)) = q.size
    BY ContentsLength
  <2>2. Contents(p) \in Seq(Items) /\ Len(Contents(p)) = q.size + 1
    BY <1>2, <1>8, ContentsLength
  <2>3. \A k \in 1 .. q.size + 1 : Contents(p)[k] = p.array[SlotOf(p, k)]
    BY <1>2 DEF Contents
  <2>4. \A k \in 1 .. q.size : Contents(q)[k] = q.array[SlotOf(q, k)]
    BY DEF Contents
  <2>5. /\ Append(Contents(q), item) \in Seq(Items)
        /\ Len(Append(Contents(q), item)) = q.size + 1
        /\ Append(Contents(q), item)[q.size + 1] = item
        /\ \A k \in 1 .. q.size :
              Append(Contents(q), item)[k] = Contents(q)[k]
    BY <1>1, <2>1, AppendProperties
  <2>6. \A k \in 1 .. q.size + 1 :
          Contents(p)[k] = Append(Contents(q), item)[k]
    BY <1>1, <1>6, <1>7, <2>3, <2>4, <2>5
  <2>7. QED BY <2>2, <2>5, <2>6, SeqEqual
<1>10. QED BY <1>8, <1>9

\* dequeue takes the oldest item off the contents, and front is that item.
LEMMA DequeueTakesOldest ==
    ASSUME NEW q, WellFormed(q), ~ isEmpty(q)
    PROVE  /\ WellFormed(dequeue(q))
           /\ Contents(dequeue(q)) = Tail(Contents(q))
           /\ Contents(q) # <<>>
           /\ front(q) = Head(Contents(q))
           /\ rear(q) = Contents(q)[Len(Contents(q))]
           /\ front(q) \in Items /\ rear(q) \in Items
<1> DEFINE p == dequeue(q)
<1>1. /\ q \in Structs
      /\ q.front \in Slots /\ q.rear \in Slots
      /\ q.size \in 1 .. Capacity
      /\ q.array \in Memory
      /\ q.rear = RearIndex(q)
  BY CapacityAssumption DEF WellFormed, Structs, isEmpty, Slots
<1>2. /\ p.front = SuccIndex(q, q.front) /\ p.rear = q.rear
      /\ p.size = q.size - 1 /\ p.array = q.array
  BY <1>1, DequeueFields
<1>3. /\ SuccIndex(q, q.front) \in Slots
      /\ SuccIndex(q, q.front) =
           IF q.front + 1 = Capacity THEN 0 ELSE q.front + 1
  BY <1>1, SuccIndexWraps
<1>4. p \in Structs
  BY <1>1, <1>3, DequeueFields, CapacityAssumption DEF Structs
<1>5. \A k \in 1 .. q.size - 1 : SlotOf(p, k) = SlotOf(q, k + 1)
  BY <1>1, <1>2, <1>3, CapacityAssumption DEF SlotOf, Slots
<1>6. p.rear = RearIndex(p)
  BY <1>1, <1>2, <1>3, CapacityAssumption DEF RearIndex, SlotOf, Slots
<1>7. WellFormed(p)
  BY <1>1, <1>2, <1>4, <1>5, <1>6 DEF WellFormed
<1>8. Contents(q) \in Seq(Items) /\ Len(Contents(q)) = q.size
  BY <1>1 DEF Contents, WellFormed
<1>9. \A k \in 1 .. q.size : Contents(q)[k] = q.array[SlotOf(q, k)]
  BY DEF Contents
<1>10. Contents(p) = Tail(Contents(q))
  <2>1. Contents(p) \in Seq(Items) /\ Len(Contents(p)) = q.size - 1
    BY <1>2, <1>7, ContentsLength
  <2>2. /\ Tail(Contents(q)) \in Seq(Items)
        /\ Len(Tail(Contents(q))) = q.size - 1
        /\ \A k \in 1 .. q.size - 1 : Tail(Contents(q))[k] = Contents(q)[k + 1]
    BY <1>1, <1>8, HeadTailProperties
  <2>3. \A k \in 1 .. q.size - 1 : Contents(p)[k] = p.array[SlotOf(p, k)]
    BY <1>2 DEF Contents
  <2>4. \A k \in 1 .. q.size - 1 : Contents(q)[k + 1] = q.array[SlotOf(q, k + 1)]
    BY <1>1, <1>9
  <2>5. \A k \in 1 .. q.size - 1 : Contents(p)[k] = Tail(Contents(q))[k]
    BY <1>2, <1>5, <2>2, <2>3, <2>4
  <2>6. QED BY <2>1, <2>2, <2>5, SeqEqual
<1>11. SlotOf(q, 1) = q.front /\ SlotOf(q, q.size) = q.rear
  BY <1>1, CapacityAssumption DEF SlotOf, RearIndex, Slots
<1>12. front(q) = Contents(q)[1] /\ rear(q) = Contents(q)[q.size]
  BY <1>1, <1>9, <1>11 DEF front, rear
<1>13. Contents(q) # <<>> /\ Head(Contents(q)) = Contents(q)[1]
  BY <1>1, <1>8
<1>14. Contents(q)[1] \in Items /\ Contents(q)[q.size] \in Items
  BY <1>1, <1>8
<1>15. QED BY <1>7, <1>8, <1>10, <1>12, <1>13, <1>14

-----------------------------------------------------------------------------
\* IInv is TypeOK of the returned value and the well-formed queue.
LEMMA IInvWellFormed ==
    IInv <=> WellFormed(queue) /\ returned \in Items \union {NoItem}
BY DEF IInv, TypeOK, WellFormed, RearFollowsFront, OnlyWrittenSlots

(***************************************************************************)
(* The struct describes one run of written slots at all times: front, rear *)
(* and size agree, and dequeue, front and rear of helper.c never return    *)
(* memory that no enqueue wrote.                                           *)
(***************************************************************************)
THEOREM StructInvariant == Spec => []IInv
<1>1. Init => IInv
  <2> SUFFICES ASSUME Init PROVE IInv
    OBVIOUS
  <2>1. PICK memory \in Memory : queue = createQueue(Capacity, memory)
    BY DEF Init
  <2>2. queue \in Structs /\ queue.size = 0 /\ queue.front = 0
        /\ queue.rear = Capacity - 1
    BY <2>1, CapacityAssumption DEF createQueue, Structs, Slots
  <2>3. QED
    BY <2>2 DEF Init, IInv, TypeOK, RearFollowsFront, OnlyWrittenSlots, RearIndex
<1>2. IInv /\ [Next]_vars => IInv'
  <2> SUFFICES ASSUME IInv, [Next]_vars PROVE IInv'
    OBVIOUS
  <2>0. WellFormed(queue) /\ returned \in Items \union {NoItem}
    BY IInvWellFormed
  <2>00. front(queue) \in Items \union {NoItem} /\ rear(queue) \in Items \union {NoItem}
    BY <2>0, DequeueTakesOldest DEF front, rear
  <2> SUFFICES WellFormed(queue)' /\ returned' \in Items \union {NoItem}
    BY DEF IInv, TypeOK, WellFormed, RearFollowsFront, OnlyWrittenSlots
  <2>1. ASSUME NEW item \in Items, Enqueue(item)
        PROVE  WellFormed(queue)' /\ returned' \in Items \union {NoItem}
    <3>1. WellFormed(enqueue(queue, item))
      BY <2>0, EnqueueAppends DEF enqueue
    <3>2. QED BY <2>1, <3>1 DEF Enqueue, WellFormed
  <2>2. CASE Dequeue
    <3>1. WellFormed(dequeue(queue))
      BY <2>0, DequeueTakesOldest DEF dequeue
    <3>2. QED BY <2>00, <2>2, <3>1 DEF Dequeue, WellFormed
  <2>3. CASE Front
    BY <2>0, <2>00, <2>3 DEF Front, WellFormed
  <2>4. CASE Rear
    BY <2>0, <2>00, <2>4 DEF Rear, WellFormed
  <2>5. CASE UNCHANGED vars
    BY <2>0, <2>5 DEF vars, WellFormed
  <2>6. QED BY <2>1, <2>2, <2>3, <2>4, <2>5 DEF Next
<1>3. QED BY <1>1, <1>2, PTL DEF Spec

(***************************************************************************)
(* The ring implements the bounded FIFO for every capacity: what each call *)
(* of helper.c returns, which item it removes and when enqueue drops its   *)
(* argument is what the FIFO of the ring's contents does.                  *)
(***************************************************************************)
THEOREM RingImplementsFifo == Spec => ImplementsFifo
<1> USE DEF NoItem
<1>1. Init => Fifo!Init
  <2> SUFFICES ASSUME Init PROVE Fifo!Init
    OBVIOUS
  <2>1. queue.size = 0
    BY DEF Init, createQueue
  <2>2. Contents(queue) = <<>>
    BY <2>1 DEF Contents
  <2>3. QED BY <2>2 DEF Init, Fifo!Init
<1>2. IInv /\ [Next]_vars => [Fifo!Next]_Fifo!vars
  <2> SUFFICES ASSUME IInv, [Next]_vars PROVE [Fifo!Next]_Fifo!vars
    OBVIOUS
  <2>0. WellFormed(queue)
    BY IInvWellFormed
  <2>1. ASSUME NEW item \in Items, Enqueue(item)
        PROVE  Fifo!Put(item)
    <3>1. Contents(enqueue(queue, item)) =
            IF Len(Contents(queue)) < Capacity
            THEN Append(Contents(queue), item) ELSE Contents(queue)
      BY <2>0, ContentsLength, EnqueueAppends DEF enqueue
    <3>2. Contents(queue)' = Contents(enqueue(queue, item))
      BY <2>1 DEF Enqueue, Contents, SlotOf
    <3>3. QED BY <2>1, <3>1, <3>2 DEF Enqueue, Fifo!Put
  <2>2. ASSUME Dequeue PROVE Fifo!Get
    <3>1. Contents(queue)' = Contents(dequeue(queue)) /\ returned' = front(queue)
      BY <2>2 DEF Dequeue, Contents, SlotOf
    <3>2. CASE isEmpty(queue)
      <4>1. Contents(queue) = <<>> /\ dequeue(queue) = queue /\ front(queue) = NoItem
        BY <2>0, <3>2, ContentsLength DEF dequeue, front
      <4>2. QED BY <3>1, <4>1 DEF Fifo!Get
    <3>3. CASE ~ isEmpty(queue)
      BY <2>0, <3>1, <3>3, DequeueTakesOldest DEF Fifo!Get
    <3>4. QED BY <3>2, <3>3
  <2>3. ASSUME Front PROVE Fifo!Oldest
    <3>1. Contents(queue)' = Contents(queue) /\ returned' = front(queue)
      BY <2>3 DEF Front, Contents, SlotOf
    <3>2. front(queue) = IF Contents(queue) = <<>> THEN NoItem ELSE Head(Contents(queue))
      BY <2>0, ContentsLength, DequeueTakesOldest DEF front
    <3>3. QED BY <3>1, <3>2 DEF Fifo!Oldest
  <2>4. ASSUME Rear PROVE Fifo!Newest
    <3>1. Contents(queue)' = Contents(queue) /\ returned' = rear(queue)
      BY <2>4 DEF Rear, Contents, SlotOf
    <3>2. rear(queue) = IF Contents(queue) = <<>> THEN NoItem
                        ELSE Contents(queue)[Len(Contents(queue))]
      BY <2>0, ContentsLength, DequeueTakesOldest DEF rear
    <3>3. QED BY <3>1, <3>2 DEF Fifo!Newest
  <2>5. CASE UNCHANGED vars
    <3>1. Contents(queue)' = Contents(queue) /\ returned' = returned
      BY <2>5 DEF vars, Contents, SlotOf
    <3>2. QED BY <3>1 DEF Fifo!vars
  <2>6. QED
    BY <2>1, <2>2, <2>3, <2>4, <2>5 DEF Next, Fifo!Next
<1>3. QED
  BY <1>1, <1>2, StructInvariant, PTL DEF Spec, ImplementsFifo, Fifo!Spec
=============================================================================
