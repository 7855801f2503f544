---------------------------- MODULE Servant_proof ----------------------------
(***************************************************************************)
(* The servant, for every data set, table size, hash function, capacity of *)
(* the queue and set of requests, and whatever the threads do: until it is *)
(* emptied the hash table finds each city; until the queue is freed what   *)
(* the threads take from it was accepted; the counter of requests is never *)
(* ahead of the threads that answered and counted one; and every answer is *)
(* the number of matching entries, unless the table was being emptied.     *)
(***************************************************************************)
EXTENDS Servant, FiniteSetTheorems, TLAPS
-----------------------------------------------------------------------------
(***************************************************************************)
(* The inductive invariants behind ConnectionsAccounted.                   *)
(***************************************************************************)
Loading == {"arguments", "load", "probe", "file", "declare", "listen"}
Adding == {"enqueueLoad", "enqueueSize"}
Serving == {"accept", "enqueue", "enqueuePut", "create"} \union Adding
Leaving == {"free", "exit"}
Taking == {"item", "front", "frontStore", "size", "sizeStore"}
HandlerLabels ==
    Taking \union {"none", "test", "read", "answer", "count", "countStore", "ended"}
           \union Leaving

Accepted(c) == c \in Conns /\ conn[c] # "idle"

\* Where everybody is; a thread is created for a connection once.
ThreadsInv ==
    /\ mpc \in Loading \union Serving \union Leaving
    /\ queue \in [front : 0 .. Capacity - 1, rear : 0 .. Capacity - 1, size : Int,
                  capacity : {Capacity}, array : [0 .. Capacity - 1 -> Conns \union Memory]]
    /\ pc \in [Conns -> HandlerLabels] /\ loaded \in [Conns -> Int]
    /\ msize \in Int /\ handledRequestNum \in Int
    /\ fd \in [Conns -> Conns \union Memory \union {NoItem}]
    /\ DOMAIN temp = Conns /\ DOMAIN reply = Conns
    /\ conn \in [Conns -> {"idle", "open", "closed"}]
    /\ freed \in BOOLEAN /\ exit \in {"no", "success", "killed"}
    /\ declared \in SUBSET Names
    /\ mpc \in Loading \union {"accept"} => mfd = NoItem
    /\ mpc \in Serving \ {"accept"} => Accepted(mfd) /\ pc[mfd] = "none"
    /\ \A h \in Conns :
          /\ pc[h] # "none" => conn[h] # "idle" /\ mpc \notin Loading
          /\ pc[h] \in {"none", "test", "item"} => fd[h] = NoItem
          /\ pc[h] \in {"answer", "count", "countStore"} => fd[h] \in Conns

One(b) == IF b THEN 1 ELSE 0
Started == {h \in Conns : pc[h] # "none"}
Past == {h \in Conns : pc[h] \in {"size", "sizeStore", "read", "answer", "count",
                                  "countStore", "ended"} \union Leaving}

\* main has put a connection for which there is no thread yet.
HasPut == mpc \in Adding \union {"create"} \/ (mpc \in Leaving /\ mfd # NoItem)
Puts == Cardinality(Started) + One(HasPut)

\* Until the ring has come round the size is never more than what was put
\* into it, so that no item is dropped, and the front is behind the threads.
AcceptedInv == ~ freed =>
        /\ \A s \in 0 .. Capacity - 1 : s < Puts => Accepted(queue.array[s])
        /\ Puts < Capacity =>
              /\ queue.rear = IF Puts = 0 THEN Capacity - 1 ELSE Puts - 1
              /\ queue.size <= Puts - One(mpc \in Adding)
              /\ mpc = "enqueueSize" => msize < Puts
              /\ queue.front <= Cardinality(Past)
              /\ \A h \in Conns :
                    /\ pc[h] = "sizeStore" => loaded[h] <= Puts - One(mpc \in Adding)
                    /\ pc[h] = "frontStore" => loaded[h] <= Cardinality(Past)
        /\ \A h \in Conns :
              /\ pc[h] = "frontStore" => loaded[h] \in 0 .. Capacity - 1
              /\ fd[h] = NoItem \/ Accepted(fd[h])
              /\ pc[h] \notin {"none", "test", "item", "ended"} => fd[h] # NoItem

\* How far slot s is behind the front, and whether an item is in it.
Ahead(s) == IF s >= queue.front THEN s - queue.front ELSE s - queue.front + Capacity
Content == queue.size + One(mpc \in Adding)
         - One(\E h \in Conns : pc[h] \in {"size", "sizeStore"})
Live(s) == s \in 0 .. Capacity - 1 /\ Ahead(s) < Content

\* As long as nothing overlapped, the slots from the front to the rear hold
\* the connections that were accepted and not taken.
RingInv ==
    ~ raced /\ ~ freed =>
        /\ \A a, b \in InQueue : a = b
        /\ Content \in 0 .. Capacity
        /\ Ahead(queue.rear) = IF Content = 0 THEN Capacity - 1 ELSE Content - 1
        /\ mpc = "enqueueSize" => msize = queue.size
        /\ mpc = "enqueuePut" => queue.size # Capacity
        /\ mpc \in {"enqueue", "enqueuePut"} => \A h \in Conns : fd[h] # mfd
        /\ \A h \in Conns :
              /\ pc[h] = "frontStore" => loaded[h] = queue.front
              /\ pc[h] = "sizeStore" => loaded[h] = queue.size
              /\ pc[h] \in {"item", "front", "frontStore"} => queue.size > 0
              /\ pc[h] \in {"front", "frontStore"} => fd[h] = queue.array[queue.front]
              /\ pc[h] \in {"none", "test", "item"} => fd[h] = NoItem
        /\ \A s \in 0 .. Capacity - 1 : Live(s) =>
              /\ Accepted(queue.array[s])
              /\ mpc \in {"enqueue", "enqueuePut"} => queue.array[s] # mfd
              /\ \A t \in 0 .. Capacity - 1 :
                    Live(t) /\ queue.array[s] = queue.array[t] => s = t
              /\ \A h \in Conns : fd[h] = queue.array[s] =>
                    s = queue.front /\ pc[h] \in {"front", "frontStore"}
        /\ NobodyShares

CountInv ==
    /\ handledRequestNum \in 0 .. Cardinality(Counted)
    /\ \A h \in Conns :
          /\ pc[h] = "countStore" => loaded[h] \in 0 .. Cardinality(Counted)
          /\ pc[h] \in {"count", "countStore"} => temp[h].type = "CLIENT_REQUEST"
    /\ \A h \in Counted : fd[h] \in Answered

(***************************************************************************)
(* The inductive invariant behind AnswersRight: who works on what its      *)
(* stack held works for a peer that was answered before.                   *)
(***************************************************************************)
AnswerInv ==
    /\ \A h \in Conns :
          (pc[h] = "answer" /\ Sends[fd[h]].type = "CLIENT_REQUEST")
              => temp[h] = Sends[fd[h]] \/ reply[fd[h]] # NoReply
    /\ mpc \in Loading => \A c \in Conns : reply[c] = NoReply
    /\ AnswersRight
-----------------------------------------------------------------------------
Items == [key : Names, data : SUBSET Entries]
\* A key lies at or after the slot of its hash code, and every slot between
\* is taken.
Reachable(key, s) ==
    hashCode[key] <= s /\ \A p \in hashCode[key] .. s - 1 : Taken(p)

TableTypeOK ==
    /\ range \in Ranges /\ hashCode \in HashCodes
    /\ mindex \in Nat /\ mindex <= range.end + 1 /\ mindex >= range.start
    /\ mslot \in Slots
    /\ hashArray \in [Slots -> Items \union {Empty}]
    /\ mpc = "arguments" => mindex = range.start
    /\ mpc \notin {"arguments"} \union Leaving => range.end <= Len(cities)
    /\ mpc \in {"probe", "file"} => mindex <= range.end

\* Every key in the table is of a city that was inserted, is there once, and
\* can be reached from its hash code.
InPlace(s) ==
    /\ \E i \in range.start .. mindex :
          /\ hashArray[s].key = cities[i]
          /\ i = mindex => mpc = "file"
    /\ Reachable(hashArray[s].key, s)
    /\ \A t \in Slots :
          (Taken(t) /\ hashArray[t].key = hashArray[s].key) => t = s

KeysInPlace == \A s \in Slots : Taken(s) => InPlace(s)

\* Every city that was loaded is in the table, unless one was overwritten.
Holds(city, data) ==
    \E s \in Slots : hashArray[s] = [key |-> city, data |-> data]

AllHeld ==
    ~ overwritten =>
        /\ \A i \in range.start .. mindex - 1 :
              Holds(cities[i], Dataset[cities[i]])
        /\ mpc = "file" => Holds(cities[mindex], {})

\* What insertToHash has passed is taken.
ProbeInv == mpc = "probe" => Reachable(cities[mindex], mslot)

TableInv == TableTypeOK /\ KeysInPlace /\ AllHeld /\ ProbeInv /\ mpc \notin Leaving

\* The table as it is while nobody empties it.
TableKept == TableTypeOK /\ (InFreeResources = {} => TableInv)

\* The empty slot is no item, and the cities of the data set are names.
LEMMA EmptyIsNoItem == \A item \in Items : item # Empty /\ item.key \in Names
BY CitiesAssumption DEF Items, Empty

LEMMA CityNames ==
    ASSUME NEW i \in Nat \ {0}, i <= Len(cities)
    PROVE  /\ cities[i] \in Names
           /\ Dataset[cities[i]] \in SUBSET Entries
<1>1. i \in 1 .. Len(cities)
  BY CitiesAssumption
<1>2. QED BY <1>1 DEF Names, Entries

\* A search ends in the slot that holds the key, if it is reachable and the
\* key is nowhere else.
LEMMA SearchFinds ==
    ASSUME hashArray \in [Slots -> Items \union {Empty}],
           NEW key \in Names, hashCode[key] \in Slots,
           NEW s \in Slots, Taken(s), hashArray[s].key = key,
           Reachable(key, s),
           \A t \in Slots : (Taken(t) /\ hashArray[t].key = key) => t = s
    PROVE  searchSlot(key) = s
<1> DEFINE Ends(x) == /\ StopsAt(key, x)
                      /\ \A p \in Before(hashCode[key], x) : ~ StopsAt(key, p)
<1>1. \A t \in Slots : StopsAt(key, t) => ~ Taken(t) \/ t = s
  BY DEF StopsAt, Taken
<1>2. hashCode[key] <= s /\ \A p \in hashCode[key] .. s - 1 : Taken(p)
  BY DEF Reachable
<1>3. \A p \in hashCode[key] .. s - 1 : p \in Slots /\ p # s
  BY HashAssumption DEF Slots
<1>4. Ends(s)
  <2>1. StopsAt(key, s)
    BY DEF StopsAt
  <2>2. Before(hashCode[key], s) = hashCode[key] .. s - 1
    BY <1>2 DEF Before
  <2>3. QED BY <1>1, <1>2, <1>3, <2>1, <2>2
<1>5. ASSUME NEW t \in Slots, Ends(t), t # s PROVE FALSE
  <2>1. StopsAt(key, s) /\ ~ Taken(t)
    BY <1>1, <1>5 DEF StopsAt
  <2>2. s \notin Before(hashCode[key], t)
    BY <1>5, <2>1
  <2>3. ~ (hashCode[key] <= t /\ t <= s - 1)
    BY <1>2, <2>1, HashAssumption DEF Slots
  <2>4. CASE hashCode[key] <= t
    <3>1. s <= t - 1
      BY <1>5, <2>3, <2>4, HashAssumption DEF Slots
    <3>2. QED BY <1>2, <2>2, <2>4, <3>1, HashAssumption DEF Before, Slots
  <2>5. CASE ~ (hashCode[key] <= t)
    BY <1>2, <2>2, <2>5, HashAssumption DEF Before, Slots
  <2>6. QED BY <2>4, <2>5
<1>6. QED
  BY <1>4, <1>5 DEF searchSlot

\* What the invariant says of main's loop.
LEMMA LoopFacts ==
    ASSUME TableTypeOK
    PROVE  /\ range.start \in Nat \ {0} /\ range.end \in Nat
           /\ hashCode \in [Names -> Slots]
           /\ mpc \in {"probe", "file"} =>
                 /\ cities[mindex] \in Names
                 /\ \A i \in range.start .. mindex - 1 :
                       cities[i] \in Names /\ cities[i] # cities[mindex]
<1>1. /\ range.start \in Nat \ {0} /\ range.end \in Nat
      /\ hashCode \in [Names -> Slots]
  BY RangesAssumption, HashAssumption DEF TableTypeOK, Leaving
<1>2. ASSUME mpc \in {"probe", "file"}
      PROVE  /\ cities[mindex] \in Names
             /\ \A i \in range.start .. mindex - 1 :
                   cities[i] \in Names /\ cities[i] # cities[mindex]
  <2>1. /\ mindex \in Nat \ {0} /\ mindex <= Len(cities)
        /\ mindex \in 1 .. Len(cities)
    BY <1>1, <1>2, CitiesAssumption DEF TableTypeOK, Leaving
  <2>2. cities[mindex] \in Names
    BY <2>1, CityNames
  <2>3. ASSUME NEW i \in range.start .. mindex - 1
        PROVE  cities[i] \in Names /\ cities[i] # cities[mindex]
    <3>1. i \in 1 .. Len(cities) /\ i # mindex /\ i \in Nat \ {0} /\ i <= Len(cities)
      BY <1>1, <2>1, CitiesAssumption
    <3>2. QED BY <2>1, <3>1, CityNames, CitiesAssumption
  <2>4. QED BY <2>2, <2>3
<1>3. QED BY <1>1, <1>2

\* A step that leaves the table alone and does not enter main's loop.
LEMMA OthersKeepTableInv ==
    ASSUME TableInv, UNCHANGED tableVars,
           mpc' = mpc \/ mpc' \notin {"arguments", "probe", "file"} \union Leaving,
           mpc # "file" \/ mpc' = mpc,
           mpc # "arguments" \/ mpc' = mpc
    PROVE  TableInv'
BY ZenonT(40) DEF TableInv, TableTypeOK, KeysInPlace, InPlace, AllHeld, ProbeInv, Holds, Taken,
       Reachable, tableVars, loadVars

\* The test of the arguments, and the start of an insertion.
LEMMA BeforeProbe ==
    ASSUME TableInv, (CheckArguments /\ mpc' = "load") \/ NextCity
    PROVE  TableInv'
<1> USE DEF TableInv
<1>1. /\ UNCHANGED <<range, hashCode, mindex, overwritten, hashArray>>
      /\ mpc \in {"arguments", "load"}
      /\ mpc' \in {"load", "probe", "declare"}
  BY DEF CheckArguments, NextCity, tableVars, loadVars, Leaving
<1>0. mpc' \notin Leaving
  BY <1>1 DEF Leaving
<1>2. KeysInPlace' /\ AllHeld'
  BY <1>1 DEF KeysInPlace, InPlace, AllHeld, Holds, Taken, Reachable
<1>3. CASE CheckArguments /\ mpc' = "load"
  <2>1. TableTypeOK'
    BY <1>1, <1>3, CitiesAssumption, RangesAssumption
    DEF TableTypeOK, CheckArguments, tableVars, loadVars, Leaving
  <2>2. ProbeInv'
    BY <1>3 DEF ProbeInv, CheckArguments
  <2>3. QED BY <1>0, <1>2, <2>1, <2>2
<1>4. CASE NextCity
  <2>1. mpc' = "probe" => /\ mslot' = hashCode[cities[mindex]] /\ mindex <= range.end
    BY <1>4 DEF NextCity
  <2>2. mpc' = "probe" => hashCode[cities[mindex]] \in Slots
    <3>1. SUFFICES ASSUME mpc' = "probe" PROVE hashCode[cities[mindex]] \in Slots
      OBVIOUS
    <3>2. mindex \in Nat \ {0} /\ mindex <= Len(cities)
      BY <1>1, <1>4, <2>1, <3>1, LoopFacts, CitiesAssumption
      DEF TableTypeOK, NextCity, Leaving
    <3>3. QED BY <3>2, CityNames, LoopFacts
  <2>3. TableTypeOK'
    BY <1>1, <1>4, <2>1, <2>2 DEF TableTypeOK, NextCity, Leaving
  <2>4. ProbeInv'
    BY <1>1, <2>1, <2>2, HashAssumption DEF ProbeInv, Reachable, Slots
  <2>5. QED BY <1>0, <1>2, <2>3, <2>4
<1>5. QED BY <1>3, <1>4

\* insertToHash: one more slot passed, or the item stored.
LEMMA ProbeKeepsTableInv ==
    ASSUME TableInv, Probe
    PROVE  TableInv'
<1> DEFINE city == cities[mindex]
<1>1. /\ mpc = "probe" /\ mslot \in Slots /\ mindex \in Nat
      /\ range.start \in Nat \ {0} /\ range.end \in Nat
      /\ hashCode \in [Names -> Slots] /\ city \in Names
      /\ hashArray \in [Slots -> Items \union {Empty}]
      /\ Reachable(city, mslot)
      /\ UNCHANGED <<range, hashCode, mindex>>
  BY LoopFacts DEF TableInv, TableTypeOK, ProbeInv, Probe
<1>2. tableSize \in Nat \ {0} /\ \A s \in Slots : s \in Nat /\ s <= tableSize - 1
  BY HashAssumption DEF Slots
<1>3. CASE Taken(mslot) /\ mslot < tableSize - 1
  <2>1. /\ mslot' = mslot + 1 /\ mpc' = mpc /\ hashArray' = hashArray
        /\ overwritten' = overwritten
    BY <1>3 DEF Probe, Taken
  <2>2. mslot' \in Slots
    BY <1>2, <1>1, <1>3, <2>1 DEF Slots
  <2>3. TableTypeOK'
    BY <1>1, <2>1, <2>2 DEF TableInv, TableTypeOK
  <2>4. KeysInPlace' /\ AllHeld'
    BY <1>1, <2>1
    DEF TableInv, KeysInPlace, InPlace, AllHeld, Holds, Taken, Reachable
  <2>5. ProbeInv'
    <3>1. hashCode[city] \in Nat
      BY <1>1, <1>2
    <3>2. \A p \in hashCode[city] .. mslot : Taken(p)
      BY <1>1, <1>2, <1>3, <3>1 DEF Reachable
    <3>3. QED
      BY <1>1, <1>2, <2>1, <3>1, <3>2 DEF ProbeInv, Reachable, Taken
  <2>6. QED BY <1>1, <2>1, <2>3, <2>4, <2>5 DEF TableInv
<1>4. CASE ~ (Taken(mslot) /\ mslot < tableSize - 1)
  <2> DEFINE item == [key |-> city, data |-> {}]
  <2>1. /\ hashArray' = [hashArray EXCEPT ![mslot] = item]
        /\ mpc' = "file" /\ mslot' = mslot
        /\ overwritten' = (overwritten \/ Taken(mslot))
    BY <1>4 DEF Probe, Taken
  <2>2. item \in Items /\ item # Empty /\ item.key = city
    BY <1>1, EmptyIsNoItem DEF Items
  <2>3. /\ hashArray'[mslot] = item
        /\ \A s \in Slots : s # mslot => hashArray'[s] = hashArray[s]
        /\ hashArray' \in [Slots -> Items \union {Empty}]
    BY <1>1, <2>1, <2>2
  <2> HIDE DEF item
  <2>4. TableTypeOK'
    BY <1>1, <2>1, <2>3 DEF TableInv, TableTypeOK
  <2>5. \A s \in Slots :
           (Taken(s) => Taken(s)') /\ (Taken(s)' => (s = mslot \/ Taken(s)))
    BY <2>2, <2>3 DEF Taken
  <2>6. \A s \in Slots : Taken(s) => hashArray[s].key # city
    <3>1. SUFFICES ASSUME NEW s \in Slots, Taken(s)
                   PROVE  hashArray[s].key # city
      OBVIOUS
    <3>2. PICK i \in range.start .. mindex :
              hashArray[s].key = cities[i] /\ (i = mindex => mpc = "file")
      BY <3>1 DEF TableInv, KeysInPlace, InPlace
    <3>3. i \in range.start .. mindex - 1
      BY <1>1, <3>2
    <3>4. QED BY <1>1, <3>2, <3>3, LoopFacts DEF TableInv
  <2>7. ASSUME NEW key \in Names, NEW s \in Slots, Reachable(key, s)
        PROVE  Reachable(key, s)'
    <3>1. \A p \in hashCode[key] .. s - 1 : p \in Slots
      BY <1>1, <1>2, <2>7 DEF Slots
    <3>2. QED BY <1>1, <2>5, <2>7, <3>1 DEF Reachable
  <2>8. KeysInPlace'
    <3>1. ASSUME NEW s \in Slots, Taken(s)'
          PROVE  InPlace(s)'
      <4>1. CASE s = mslot
        <5>1. hashArray'[s].key = city
          BY <2>2, <2>3, <4>1
        <5>2. mindex \in range.start .. mindex
          BY <1>1 DEF TableInv, TableTypeOK
        <5>3. Reachable(city, s)
          BY <1>1, <4>1
        <5>4. Reachable(city, s)'
          BY <1>1, <2>7, <5>3
        <5>5. hashCode'[city] <= s /\ \A p \in hashCode'[city] .. s - 1 : Taken(p)'
          BY <1>1, <5>4 DEF Reachable
        <5>6. \A t \in Slots : (Taken(t)' /\ hashArray'[t].key = city) => t = s
          BY <2>3, <2>5, <2>6, <4>1
        <5>7. QED
          BY <1>1, <2>1, <5>1, <5>2, <5>5, <5>6 DEF InPlace, Reachable
      <4>2. CASE s # mslot
        <5> DEFINE key == hashArray[s].key
        <5>1. Taken(s) /\ hashArray'[s] = hashArray[s] /\ key \in Names
          BY <1>1, <2>3, <2>5, <3>1, <4>2, EmptyIsNoItem DEF Taken
        <5>2. /\ \E i \in range.start .. mindex : key = cities[i]
              /\ Reachable(key, s)
              /\ \A t \in Slots : (Taken(t) /\ hashArray[t].key = key) => t = s
          BY <5>1 DEF TableInv, KeysInPlace, InPlace
        <5>3. hashCode'[key] <= s /\ \A p \in hashCode'[key] .. s - 1 : Taken(p)'
          <6>1. hashCode[key] \in Nat /\ s \in Nat /\ s <= tableSize - 1
            BY <1>1, <1>2, <5>1
          <6>2. \A p \in hashCode[key] .. s - 1 : p \in Slots
            BY <1>2, <6>1 DEF Slots
          <6>3. QED BY <1>1, <2>5, <5>2, <6>1, <6>2 DEF Reachable
        <5>4. \A t \in Slots : (Taken(t)' /\ hashArray'[t].key = key) => t = s
          BY <2>2, <2>3, <2>5, <2>6, <5>1, <5>2
        <5>5. QED
          BY <1>1, <2>1, <5>1, <5>2, <5>3, <5>4 DEF InPlace, Reachable
      <4>3. QED BY <4>1, <4>2
    <3>2. QED BY <3>1 DEF KeysInPlace
  <2>9. AllHeld'
    <3>1. SUFFICES ASSUME ~ overwritten'
                   PROVE  /\ \A i \in range.start .. mindex - 1 :
                                Holds(cities[i], Dataset[cities[i]])'
                          /\ Holds(city, {})'
      BY <1>1, <2>1 DEF AllHeld
    <3>2. ~ Taken(mslot)
      BY <2>1, <3>1
    <3>3. ~ overwritten
      BY <2>1, <3>1
    <3>4. ASSUME NEW i \in range.start .. mindex - 1
          PROVE  Holds(cities[i], Dataset[cities[i]])'
      <4>1. cities[i] \in Names
        BY <1>1, LoopFacts DEF TableInv
      <4>2. PICK s \in Slots :
                hashArray[s] = [key |-> cities[i], data |-> Dataset[cities[i]]]
        BY <3>3 DEF TableInv, AllHeld, Holds
      <4>3. Taken(s)
        BY <4>1, <4>2, CitiesAssumption DEF Taken, Empty
      <4>4. hashArray'[s] = [key |-> cities[i], data |-> Dataset[cities[i]]]
        BY <2>3, <3>2, <4>2, <4>3
      <4>5. QED BY <4>4 DEF Holds
    <3>5. Holds(city, {})'
      BY <1>1, <2>3 DEF Holds, item
    <3>6. QED BY <3>4, <3>5
  <2>10. QED BY <2>1, <2>4, <2>8, <2>9 DEF TableInv, ProbeInv, Leaving
<1>5. QED BY <1>3, <1>4

\* readFile: the entries go to the item that was just stored, if it can be
\* found; no key moves.
LEMMA ReadFileKeepsTableInv ==
    ASSUME TableInv, ReadFile
    PROVE  TableInv'
<1> DEFINE city == cities[mindex]
           found == searchSlot(city)
<1>1. /\ mpc = "file" /\ mpc' = "load" /\ mslot \in Slots /\ mindex \in Nat
      /\ mindex' = mindex + 1 /\ mindex <= range.end /\ mindex >= range.start
      /\ range.start \in Nat \ {0} /\ range.end \in Nat
      /\ range.end <= Len(cities)
      /\ hashCode \in [Names -> Slots] /\ city \in Names
      /\ hashArray \in [Slots -> Items \union {Empty}]
      /\ UNCHANGED <<range, hashCode, mslot, overwritten>>
  BY LoopFacts DEF TableInv, TableTypeOK, ReadFile, Leaving
<1>2. Dataset[city] \in SUBSET Entries
  BY <1>1, CityNames
<1>3. hashArray' = IF hashArray[found] = Empty THEN hashArray
                   ELSE [hashArray EXCEPT ![found].data = @ \union Dataset[city]]
  BY DEF ReadFile, search
<1> HIDE DEF found
<1>4. \A s \in Slots :
         \/ hashArray'[s] = hashArray[s]
         \/ /\ s = found /\ Taken(s)
            /\ hashArray'[s] = [key |-> hashArray[s].key,
                                data |-> hashArray[s].data \union Dataset[city]]
  BY <1>1, <1>3 DEF Taken, Items
<1>5. hashArray' \in [Slots -> Items \union {Empty}]
  <2>1. ASSUME NEW s \in Slots PROVE hashArray'[s] \in Items \union {Empty}
    <3>1. CASE hashArray'[s] = hashArray[s]
      BY <1>1, <3>1
    <3>2. CASE hashArray'[s] # hashArray[s]
      <4>1. hashArray[s] \in Items
        BY <1>1, <1>4, <3>2 DEF Taken
      <4>2. /\ hashArray[s].key \in Names
            /\ hashArray[s].data \union Dataset[city] \in SUBSET Entries
        BY <1>2, <4>1 DEF Items
      <4>3. hashArray'[s] = [key |-> hashArray[s].key,
                             data |-> hashArray[s].data \union Dataset[city]]
        BY <1>4, <3>2
      <4>4. \A k \in Names, d \in SUBSET Entries : [key |-> k, data |-> d] \in Items
        BY DEF Items
      <4>5. QED BY <4>2, <4>3, <4>4
    <3>3. QED BY <3>1, <3>2
  <2>2. hashArray' = [s \in Slots |-> hashArray'[s]]
    BY <1>1, <1>3
  <2>3. QED BY <2>1, <2>2
<1>6. \A s \in Slots :
         (Taken(s)' <=> Taken(s))
            /\ (Taken(s) => hashArray'[s].key = hashArray[s].key)
  BY <1>1, <1>2, <1>4, <1>5, EmptyIsNoItem DEF Taken, Items
<1>7. TableTypeOK'
  BY <1>1, <1>5 DEF TableInv, TableTypeOK
<1>8. KeysInPlace'
  <2>1. SUFFICES ASSUME NEW s \in Slots, Taken(s)' PROVE InPlace(s)'
    BY DEF KeysInPlace
  <2> DEFINE key == hashArray[s].key
  <2>2. Taken(s) /\ hashArray'[s].key = key /\ key \in Names
    BY <1>1, <1>6, <2>1, EmptyIsNoItem DEF Taken
  <2>3. /\ \E i \in range.start .. mindex : key = cities[i]
        /\ Reachable(key, s)
        /\ \A t \in Slots : (Taken(t) /\ hashArray[t].key = key) => t = s
    BY <2>2 DEF TableInv, KeysInPlace, InPlace
  <2>4. hashCode'[key] <= s /\ \A p \in hashCode'[key] .. s - 1 : Taken(p)'
    <3>1. hashCode[key] \in Nat /\ s \in Nat /\ s <= tableSize - 1
      BY <1>1, <2>2, HashAssumption DEF Slots
    <3>2. \A p \in hashCode[key] .. s - 1 : p \in Slots
      BY <3>1, HashAssumption DEF Slots
    <3>3. QED BY <1>1, <1>6, <2>3, <3>1, <3>2 DEF Reachable
  <2>5. \A t \in Slots : (Taken(t)' /\ hashArray'[t].key = key) => t = s
    BY <1>6, <2>3
  <2>6. \E i \in range'.start .. mindex' :
           hashArray'[s].key = cities[i] /\ i # mindex'
    BY <1>1, <2>2, <2>3
  <2>7. QED BY <2>2, <2>4, <2>5, <2>6 DEF InPlace, Reachable
<1>9. AllHeld'
  <2>1. SUFFICES ASSUME ~ overwritten',
                        NEW i \in range.start .. mindex
                 PROVE  Holds(cities[i], Dataset[cities[i]])'
    BY <1>1 DEF AllHeld
  <2>2. ~ overwritten
    BY <1>1, <2>1
  <2>3. PICK here \in Slots : hashArray[here] = [key |-> city, data |-> {}]
    BY <1>1, <2>2 DEF TableInv, AllHeld, Holds
  <2>4. Taken(here) /\ hashArray[here].key = city /\ hashArray[here].data = {}
    BY <1>1, <2>3, CitiesAssumption DEF Taken, Empty
  <2>5. found = here
    BY <1>1, <2>4, SearchFinds DEF TableInv, KeysInPlace, InPlace, found
  <2>6. CASE i = mindex
    <3>1. hashArray'[here] = [key |-> city, data |-> Dataset[city]]
      BY <1>1, <1>3, <2>3, <2>4, <2>5 DEF Taken
    <3>2. QED BY <2>6, <3>1 DEF Holds
  <2>7. CASE i # mindex
    <3>1. i \in range.start .. mindex - 1
      BY <1>1, <2>7
    <3>2. PICK s \in Slots :
              hashArray[s] = [key |-> cities[i], data |-> Dataset[cities[i]]]
      BY <2>2, <3>1 DEF TableInv, AllHeld, Holds
    <3>3. cities[i] # city
      BY <1>1, <3>1, LoopFacts DEF TableInv
    <3>4. s # here
      BY <2>3, <3>2, <3>3
    <3>5. hashArray'[s] = hashArray[s]
      BY <1>4, <2>5, <3>4
    <3>6. QED BY <3>2, <3>5 DEF Holds
  <2>8. QED BY <2>6, <2>7
<1>10. QED BY <1>1, <1>7, <1>8, <1>9 DEF TableInv, ProbeInv, Leaving

LEMMA InitTableInv == Init => TableInv
<1>1. SUFFICES ASSUME Init PROVE TableInv
  OBVIOUS
<1>2. /\ range \in Ranges /\ hashCode \in HashCodes /\ mindex = range.start
      /\ mslot = 0 /\ mpc = "arguments"
      /\ hashArray = [s \in Slots |-> Empty]
  BY <1>1 DEF Init
<1>3. range.start \in Nat \ {0} /\ range.end \in Nat /\ range.start <= range.end
  BY <1>2, RangesAssumption
<1>4. mslot \in Slots
  BY <1>2, HashAssumption DEF Slots
<1>5. QED
  BY <1>2, <1>3, <1>4
  DEF TableInv, TableTypeOK, KeysInPlace, Taken, AllHeld, ProbeInv, Leaving

-----------------------------------------------------------------------------
(***************************************************************************)
(* The threads and the queue: types, and what one step changes.            *)
(***************************************************************************)
Structs == [front : 0 .. Capacity - 1, rear : 0 .. Capacity - 1, size : Int,
            capacity : {Capacity}, array : [0 .. Capacity - 1 -> Conns \union Memory]]

LEMMA SuccIndexWraps ==
    ASSUME NEW i \in 0 .. Capacity - 1
    PROVE  (i + 1) % Capacity = (IF i = Capacity - 1 THEN 0 ELSE i + 1)
<1>0. Capacity \in Nat /\ Capacity > 0
  BY ConnsAssumption
<1>1. CASE i + 1 = Capacity
  BY <1>0, <1>1
<1>2. CASE i + 1 < Capacity
  BY <1>0, <1>2
<1>3. QED BY <1>0, <1>1, <1>2

LEMMA QueueFields ==
    ASSUME NEW q \in Structs
    PROVE  /\ \A i \in 0 .. Capacity - 1 :
                 /\ SuccIndex(q, i) = IF i = Capacity - 1 THEN 0 ELSE i + 1
                 /\ SuccIndex(q, i) \in 0 .. Capacity - 1
           /\ q.front \in 0 .. Capacity - 1 /\ q.rear \in 0 .. Capacity - 1
           /\ q.size \in Int /\ q.capacity = Capacity /\ Capacity \in Nat /\ Capacity > 0
           /\ q.array \in [0 .. Capacity - 1 -> Conns \union Memory]
           /\ \A i \in 0 .. Capacity - 1 : [q EXCEPT !.front = i] \in Structs
           /\ \A i \in Int : [q EXCEPT !.size = i] \in Structs
           /\ \A c \in Conns : PutRear(q, c) \in Structs
<1>1. /\ q.front \in 0 .. Capacity - 1 /\ q.rear \in 0 .. Capacity - 1
      /\ q.size \in Int /\ q.capacity = Capacity /\ Capacity \in Nat /\ Capacity > 0
      /\ q.array \in [0 .. Capacity - 1 -> Conns \union Memory]
  BY ConnsAssumption DEF Structs
<1>2. ASSUME NEW i \in 0 .. Capacity - 1
      PROVE  /\ SuccIndex(q, i) = IF i = Capacity - 1 THEN 0 ELSE i + 1
             /\ SuccIndex(q, i) \in 0 .. Capacity - 1
  <2>1. SuccIndex(q, i) = IF i = Capacity - 1 THEN 0 ELSE i + 1
    BY <1>1, SuccIndexWraps DEF SuccIndex
  <2>2. QED BY <1>1, <2>1
<1>3. \A i \in 0 .. Capacity - 1 : [q EXCEPT !.front = i] \in Structs
  BY DEF Structs
<1>4. \A i \in Int : [q EXCEPT !.size = i] \in Structs
  BY DEF Structs
<1>5. ASSUME NEW c \in Conns PROVE PutRear(q, c) \in Structs
  <2> DEFINE r == SuccIndex(q, q.rear)
  <2>1. r \in 0 .. Capacity - 1
    BY <1>1, <1>2
  <2>2. [q.array EXCEPT ![r] = c] \in [0 .. Capacity - 1 -> Conns \union Memory]
    BY <1>1, <2>1
  <2>3. PutRear(q, c) = [q EXCEPT !.rear = r, !.array = [q.array EXCEPT ![r] = c]]
    BY DEF PutRear
  <2> HIDE DEF r
  <2>4. QED BY <2>1, <2>2, <2>3 DEF Structs
<1>6. QED BY <1>1, <1>2, <1>3, <1>4, <1>5

\* A step of one thread.
LEMMA HandlerMoves ==
    ASSUME ThreadsInv, NEW h \in Conns, Serve(h)
    PROVE  /\ UNCHANGED <<tableVars, mpc, mfd, msize, declared>>
           /\ pc' \in [Conns -> HandlerLabels]
           /\ pc[h] \notin {"none", "ended"} \union Leaving
           /\ pc'[h] \notin {"none", "test", "exit"} /\ mpc \notin Loading
           /\ \A k \in Conns \ {h} : pc'[k] = pc[k] /\ fd'[k] = fd[k]
                                     /\ temp'[k] = temp[k] /\ loaded'[k] = loaded[k]
           /\ \A c \in Conns : Accepted(c) => Accepted(c)'
<1>1. UNCHANGED <<tableVars, mpc, mfd, msize, declared>>
  BY DEF Serve, DequeueTest, DequeueItem, DequeueFront, DequeueFrontStore, DequeueSize,
     DequeueSizeStore, Read, Answer, CountLoad, CountStore
<1>2. pc \in [Conns -> HandlerLabels] /\ DOMAIN temp = Conns
      /\ conn \in [Conns -> {"idle", "open", "closed"}]
      /\ fd \in [Conns -> Conns \union Memory \union {NoItem}]
      /\ loaded \in [Conns -> Int]
  BY DEF ThreadsInv
<1>3. /\ pc[h] \notin {"none", "ended"} \union Leaving
      /\ \E label \in HandlerLabels \ {"none", "test", "exit"} :
            pc' = [pc EXCEPT ![h] = label]
  BY <1>2 DEF Serve, DequeueTest, DequeueItem, DequeueFront, DequeueFrontStore, DequeueSize,
     DequeueSizeStore, Read, Answer, CountLoad, CountStore, Goto, HandlerLabels, Taking, Leaving
<1>4. fd' = fd \/ \E x : fd' = [fd EXCEPT ![h] = x]
  BY DEF Serve, DequeueTest, DequeueItem, DequeueFront, DequeueFrontStore, DequeueSize,
     DequeueSizeStore, Read, Answer, CountLoad, CountStore
<1>5. temp' = temp \/ \E x : temp' = [temp EXCEPT ![h] = x]
  BY DEF Serve, DequeueTest, DequeueItem, DequeueFront, DequeueFrontStore, DequeueSize,
     DequeueSizeStore, Read, Answer, CountLoad, CountStore
<1>6. loaded' = loaded \/ \E x : loaded' = [loaded EXCEPT ![h] = x]
  BY DEF Serve, DequeueTest, DequeueItem, DequeueFront, DequeueFrontStore, DequeueSize,
     DequeueSizeStore, Read, Answer, CountLoad, CountStore
<1>7. conn' = conn \/ \E c : conn' = [conn EXCEPT ![c] = "closed"]
  BY DEF Serve, DequeueTest, DequeueItem, DequeueFront, DequeueFrontStore, DequeueSize,
     DequeueSizeStore, Read, Answer, CountLoad, CountStore, peerVars
<1>8. pc' \in [Conns -> HandlerLabels] /\ pc'[h] \notin {"none", "test", "exit"}
      /\ \A k \in Conns \ {h} : pc'[k] = pc[k]
  BY <1>2, <1>3
<1>9. \A k \in Conns \ {h} : fd'[k] = fd[k] /\ temp'[k] = temp[k] /\ loaded'[k] = loaded[k]
  BY <1>2, <1>4, <1>5, <1>6
<1>10. \A c \in Conns : Accepted(c) => Accepted(c)'
  BY <1>2, <1>7 DEF Accepted
<1>11. mpc \notin Loading
  BY <1>3 DEF ThreadsInv
<1>12. QED BY <1>1, <1>3, <1>8, <1>9, <1>10, <1>11

LEMMA HandlerKeepsThreads ==
    ASSUME ThreadsInv, NEW h \in Conns, Serve(h)
    PROVE  ThreadsInv'
<1>0. pc \in [Conns -> HandlerLabels]
  BY DEF ThreadsInv
<1>1. /\ UNCHANGED <<mpc, mfd, msize, declared>>
      /\ pc' \in [Conns -> HandlerLabels] /\ pc[h] # "none"
      /\ \A k \in Conns \ {h} : pc'[k] = pc[k]
      /\ \A c \in Conns : Accepted(c) => Accepted(c)'
  BY HandlerMoves
<1>2. queue \in Structs /\ loaded \in [Conns -> Int]
      /\ fd \in [Conns -> Conns \union Memory \union {NoItem}]
      /\ conn \in [Conns -> {"idle", "open", "closed"}]
      /\ DOMAIN temp = Conns /\ DOMAIN reply = Conns
  BY DEF ThreadsInv, Structs
<1>3. queue' \in Structs /\ loaded' \in [Conns -> Int]
  <2>1. CASE DequeueFrontStore(h)
    <3>1. SuccIndex(queue, loaded[h]) \in 0 .. Capacity - 1
      <4>1. SuccIndex(queue, loaded[h]) = (loaded[h] + 1) % Capacity
        BY <1>2, QueueFields DEF SuccIndex
      <4>2. loaded[h] \in Int /\ Capacity \in Nat /\ Capacity > 0
        BY <1>2, ConnsAssumption
      <4>3. QED BY <4>1, <4>2
    <3>2. QED BY <1>2, <2>1, <3>1, QueueFields DEF DequeueFrontStore
  <2>2. CASE DequeueSizeStore(h)
    <3>1. loaded[h] - 1 \in Int /\ queue' = [queue EXCEPT !.size = loaded[h] - 1]
      BY <1>2, <2>2 DEF DequeueSizeStore
    <3>2. loaded' \in [Conns -> Int]
      BY <1>2, <2>2 DEF DequeueSizeStore
    <3>3. QED BY <1>2, <3>1, <3>2, QueueFields
  <2>3. CASE DequeueFront(h) \/ DequeueSize(h)
    BY <1>2, <2>3, QueueFields DEF DequeueFront, DequeueSize
  <2>4. CASE CountLoad(h) \/ CountStore(h)
    BY <1>2, <2>4 DEF CountLoad, CountStore, ThreadsInv
  <2>5. CASE DequeueTest(h) \/ DequeueItem(h) \/ Read(h) \/ Answer(h)
    BY <1>2, <2>5 DEF DequeueTest, DequeueItem, Read, Answer
  <2>6. QED BY <2>1, <2>2, <2>3, <2>4, <2>5 DEF Serve
<1>4. fd' \in [Conns -> Conns \union Memory \union {NoItem}]
  <2>1. queue.array[queue.front] \in Conns \union Memory
    BY <1>2, QueueFields
  <2>2. fd' = fd \/ \E x \in Memory \union {queue.array[queue.front]} :
                       fd' = [fd EXCEPT ![h] = x]
    BY DEF Serve, DequeueTest, DequeueItem, DequeueFront, DequeueFrontStore, DequeueSize,
       DequeueSizeStore, Read, Answer, CountLoad, CountStore
  <2>3. QED BY <1>2, <2>1, <2>2
<1>5. conn' \in [Conns -> {"idle", "open", "closed"}]
  <2>1. conn' = conn \/ \E c : conn' = [conn EXCEPT ![c] = "closed"]
    BY DEF Serve, DequeueTest, DequeueItem, DequeueFront, DequeueFrontStore, DequeueSize,
       DequeueSizeStore, Read, Answer, CountLoad, CountStore, peerVars
  <2>2. QED BY <1>2, <2>1
<1>6. DOMAIN temp' = Conns /\ DOMAIN reply' = Conns /\ handledRequestNum' \in Int
      /\ exit' = exit /\ freed' = freed
  BY <1>2 DEF Serve, DequeueTest, DequeueItem, DequeueFront, DequeueFrontStore, DequeueSize,
     DequeueSizeStore, Read, Answer, CountLoad, CountStore, peerVars, exitVars, ThreadsInv
<1>7. mpc \in Serving \ {"accept"} => Accepted(mfd)' /\ pc'[mfd] = "none"
  <2>1. mpc \in Serving \ {"accept"} => Accepted(mfd) /\ pc[mfd] = "none" /\ mfd \in Conns
    BY DEF ThreadsInv, Accepted
  <2>2. mpc \in Serving \ {"accept"} => Accepted(mfd)'
    BY <1>1, <2>1 DEF Accepted
  <2>3. QED BY <1>1, <2>1, <2>2
<1>8. ASSUME NEW k \in Conns, pc'[k] # "none" PROVE conn'[k] # "idle" /\ mpc \notin Loading
  <2>1. pc[k] # "none"
    BY <1>1, <1>8
  <2>2. Accepted(k) /\ mpc \notin Loading
    BY <2>1 DEF ThreadsInv, Accepted
  <2>3. QED BY <1>1, <2>2 DEF Accepted
<1>9. ASSUME NEW k \in Conns, pc'[k] \in {"none", "test", "item"}
       PROVE  fd'[k] = NoItem
  <2>1. CASE k = h
    <3>1. pc[h] = "test" /\ fd' = fd
      BY <1>0, <1>1, <1>9, <2>1 DEF Serve, DequeueTest, DequeueItem, DequeueFront,
         DequeueFrontStore, DequeueSize, DequeueSizeStore, Read, Answer, CountLoad, CountStore, Goto
    <3>2. QED BY <2>1, <3>1 DEF ThreadsInv
  <2>2. CASE k # h
    BY <1>1, <1>9, <2>2, HandlerMoves DEF ThreadsInv
  <2>3. QED BY <2>1, <2>2
<1>10. ASSUME NEW k \in Conns, pc'[k] \in {"answer", "count", "countStore"}
      PROVE  fd'[k] \in Conns
  <2>1. CASE k = h
    <3>1. \/ pc[h] \in {"answer", "count"} /\ fd' = fd
          \/ Read(h) /\ pc'[h] = "answer" /\ fd' = fd
      BY <1>0, <1>1, <1>10, <2>1 DEF Serve, DequeueTest, DequeueItem, DequeueFront,
         DequeueFrontStore, DequeueSize, DequeueSizeStore, Read, Answer, CountLoad, CountStore, Goto
    <3>2. CASE pc[h] \in {"answer", "count"}
      BY <2>1, <3>1, <3>2 DEF ThreadsInv, Read
    <3>3. CASE Read(h) /\ pc'[h] = "answer"
      BY <1>0, <2>1, <3>1, <3>3 DEF Read, Goto
    <3>4. QED BY <3>1, <3>2, <3>3
  <2>2. CASE k # h
    BY <1>1, <1>10, <2>2, HandlerMoves DEF ThreadsInv
  <2>3. QED BY <2>1, <2>2
<1>11. QED
  BY <1>1, <1>3, <1>4, <1>5, <1>6, <1>7, <1>8, <1>10, <1>9 DEF ThreadsInv, Structs

\* The steps of main but freeResources.
MainServes ==
    \/ CheckArguments \/ NextCity \/ Probe \/ ReadFile \/ Declare \/ Listen
    \/ EnqueueTest \/ EnqueuePut \/ EnqueueLoad \/ EnqueueSize \/ Create

LEMMA MainKeepsThreads ==
    ASSUME ThreadsInv, TableTypeOK, MainServes \/ CallFails \/ \E c \in Conns : Accept(c)
    PROVE  ThreadsInv'
<1>1. queue \in Structs /\ pc \in [Conns -> HandlerLabels] /\ msize \in Int
      /\ conn \in [Conns -> {"idle", "open", "closed"}]
  BY DEF ThreadsInv, Structs
<1>2. CASE CheckArguments \/ NextCity \/ Probe \/ ReadFile \/ Listen
  <2>1. /\ UNCHANGED <<queue, pc, loaded, msize, handledRequestNum, fd, temp, reply, conn,
                       declared, mfd, exit, freed>>
        /\ mpc \in Loading /\ mpc' \in Loading \union {"accept", "free"}
    BY <1>2 DEF CheckArguments, NextCity, Probe, ReadFile, Listen, Loading, threadVars,
       exitVars, peerVars
  <2>2. \A h \in Conns : pc[h] = "none"
    BY <2>1 DEF ThreadsInv
  <2>3. mfd = NoItem
    BY <2>1 DEF ThreadsInv
  <2>4. QED BY <2>1, <2>2, <2>3 DEF ThreadsInv, Loading, Serving, Adding, Leaving
<1>3. CASE Declare
  <2>1. range.start \in Nat \ {0} /\ range.end \in Nat /\ range.end <= Len(cities)
    BY <1>3, LoopFacts DEF Declare, TableTypeOK, Leaving
  <2>2. \A i \in range.start .. range.end : cities[i] \in Names
    BY <2>1, CityNames
  <2>3. declared' \in SUBSET Names
    BY <1>3, <2>2 DEF Declare
  <2>4. /\ UNCHANGED <<queue, pc, loaded, msize, handledRequestNum, fd, temp, reply, conn,
                       exit, freed, mfd>>
        /\ mpc = "declare" /\ mpc' = "listen"
    BY <1>3 DEF Declare, threadVars, exitVars, peerVars
  <2>5. \A h \in Conns : pc[h] = "none"
    BY <2>4 DEF ThreadsInv, Loading
  <2>6. QED BY <2>3, <2>4, <2>5 DEF ThreadsInv, Loading, Serving, Adding
<1>4. ASSUME NEW c \in Conns, Accept(c) PROVE ThreadsInv'
  <2>1. conn' \in [Conns -> {"idle", "open", "closed"}] /\ conn'[c] = "open"
        /\ \A d \in Conns \ {c} : conn'[d] = conn[d]
    BY <1>1, <1>4 DEF Accept
  <2>2. pc[c] = "none" /\ pc' = pc /\ mfd' = c /\ mpc' = "enqueue" /\ mpc = "accept"
    BY <1>4 DEF Accept, ThreadsInv, threadVars
  <2>3. UNCHANGED <<queue, loaded, msize, handledRequestNum, fd, temp, reply, exit, freed,
                    declared>>
    BY <1>4 DEF Accept, threadVars, exitVars
  <2>4. Accepted(mfd)' /\ pc'[mfd'] = "none" /\ mpc' \in Serving \ {"accept"}
    BY <2>1, <2>2 DEF Accepted, Serving
  <2>5. \A h \in Conns : pc'[h] # "none" => conn'[h] # "idle"
    BY <2>1, <2>2 DEF ThreadsInv
  <2>6. QED BY <2>1, <2>2, <2>3, <2>4, <2>5 DEF ThreadsInv, Loading
<1>5. CASE EnqueueTest \/ EnqueuePut \/ EnqueueLoad \/ EnqueueSize
  <2>1. mpc \in Serving \ {"accept"} /\ mpc' \in Serving \ {"accept"}
    BY <1>5 DEF EnqueueTest, EnqueuePut, EnqueueLoad, EnqueueSize, Serving, Adding
  <2>2. Accepted(mfd) /\ mfd \in Conns
    BY <2>1 DEF ThreadsInv, Accepted
  <2>3. queue' \in Structs /\ msize' \in Int
    <3>1. CASE EnqueuePut
      BY <1>1, <2>2, <3>1, QueueFields DEF EnqueuePut
    <3>2. CASE EnqueueLoad
      BY <1>1, <3>2, QueueFields DEF EnqueueLoad
    <3>3. CASE EnqueueSize
      <4>1. msize + 1 \in Int /\ queue' = [queue EXCEPT !.size = msize + 1] /\ msize' = 0
        BY <1>1, <3>3 DEF EnqueueSize
      <4>2. QED BY <1>1, <4>1, QueueFields
    <3>4. CASE EnqueueTest
      BY <1>1, <3>4 DEF EnqueueTest
    <3>5. QED BY <1>5, <3>1, <3>2, <3>3, <3>4
  <2>4. UNCHANGED <<pc, loaded, handledRequestNum, fd, temp, reply, conn, exit, freed,
                    declared, mfd>>
    BY <1>5 DEF EnqueueTest, EnqueuePut, EnqueueLoad, EnqueueSize, threadVars, exitVars,
       peerVars
  <2>5. mpc' \notin Loading \union {"accept"}
    BY <2>1 DEF Loading, Serving, Adding
  <2>6. QED BY <2>1, <2>3, <2>4, <2>5 DEF ThreadsInv, Structs, Accepted
<1>6. CASE Create
  <2>1. mfd \in Conns /\ Accepted(mfd)
    BY <1>6 DEF Create, ThreadsInv, Accepted, Serving, Adding
  <2>2. /\ pc' \in [Conns -> HandlerLabels] /\ pc'[mfd] = "test"
        /\ \A h \in Conns \ {mfd} : pc'[h] = pc[h]
    BY <1>1, <1>6, <2>1 DEF Create, HandlerLabels
  <2>3. UNCHANGED <<queue, loaded, msize, handledRequestNum, fd, temp, reply, conn, exit, freed,
                    declared>>
        /\ mpc' = "accept" /\ mfd' = NoItem
    BY <1>6 DEF Create, exitVars, peerVars
  <2>4. \A h \in Conns : pc'[h] # "none" => conn'[h] # "idle"
    BY <2>1, <2>2, <2>3 DEF ThreadsInv, Accepted
  <2>5. \A h \in Conns :
            /\ pc'[h] \in {"none", "test", "item"} => fd'[h] = NoItem
            /\ pc'[h] \in {"answer", "count", "countStore"} => fd'[h] \in Conns
    BY <1>6, <2>1, <2>2, <2>3 DEF Create, ThreadsInv, Serving
  <2>6. mpc' \notin Loading
    BY <2>3 DEF Loading
  <2>7. QED BY <2>2, <2>3, <2>4, <2>5, <2>6 DEF ThreadsInv, Serving
<1>7. CASE CallFails
  <2>1. /\ UNCHANGED <<queue, pc, loaded, msize, handledRequestNum, fd, temp, reply, conn,
                       declared, mfd, exit, freed>>
        /\ mpc' = "free"
    BY <1>7 DEF CallFails, threadVars, peerVars, exitVars
  <2>2. QED BY <2>1 DEF ThreadsInv, Accepted, Leaving, Loading, Serving, Adding
<1>8. QED BY <1>2, <1>3, <1>4, <1>5, <1>6, <1>7 DEF MainServes

\* What freeResources, and a crash, leave as it is.
LEMMA FreeMoves ==
    ASSUME ThreadsInv, Crash \/ \E a \in Procs : FreeResources(a)
    PROVE  /\ UNCHANGED <<loadVars, mfd, msize, fd, temp, loaded, queue, handledRequestNum,
                          declared, conn, reply, raced>>
           /\ freed => freed'
           /\ mpc' = mpc \/ (mpc = "free" /\ mpc' = "exit")
           /\ pc' \in [Conns -> HandlerLabels]
           /\ \A h \in Conns : pc'[h] = pc[h] \/ (pc[h] = "free" /\ pc'[h] = "exit")
           /\ hashArray' = hashArray \/ InFreeResources # {}
           /\ hashArray' = hashArray \/ \E s \in Slots : hashArray' = [hashArray EXCEPT ![s] = Empty]
<1>1. pc \in [Conns -> HandlerLabels] /\ "exit" \in HandlerLabels
  BY DEF ThreadsInv, HandlerLabels, Leaving
<1>2. CASE Crash
  BY <1>1, <1>2 DEF Crash, tableVars, loadVars, threadVars, peerVars
<1>3. ASSUME NEW a \in Procs, FreeSlot(a)
      PROVE  /\ UNCHANGED <<loadVars, mpc, pc, mfd, msize, fd, temp, loaded, queue,
                            handledRequestNum, freed, declared, conn, reply, raced>>
             /\ a \in InFreeResources
             /\ \E s \in Slots : hashArray' = [hashArray EXCEPT ![s] = Empty]
  BY <1>3 DEF FreeSlot, InFreeResources, threadVars, peerVars, exitVars
<1>4. ASSUME NEW a \in Procs, FreeQueue(a)
      PROVE  /\ UNCHANGED <<tableVars, mfd, msize, fd, temp, loaded, queue,
                            handledRequestNum, declared, conn, reply, raced>>
             /\ freed' = TRUE
             /\ mpc' = mpc \/ (mpc = "free" /\ mpc' = "exit")
             /\ \/ pc' = pc
                \/ a \in Conns /\ pc[a] = "free" /\ pc' = [pc EXCEPT ![a] = "exit"]
  BY <1>4 DEF FreeQueue, Place, Procs, peerVars
<1>5. ASSUME NEW a \in Procs, Leave(a)
      PROVE  UNCHANGED <<tableVars, mpc, pc, mfd, msize, fd, temp, loaded, queue,
                         handledRequestNum, freed, declared, conn, reply, raced>>
  BY <1>5 DEF Leave, threadVars, peerVars
<1>6. QED
  BY <1>1, <1>2, <1>3, <1>4, <1>5 DEF FreeResources, tableVars, loadVars

LEMMA FreeKeepsThreads ==
    ASSUME ThreadsInv, Crash \/ \E a \in Procs : FreeResources(a)
    PROVE  ThreadsInv'
<1>1. /\ UNCHANGED <<mfd, msize, fd, temp, loaded, queue, handledRequestNum, declared, conn,
                     reply>>
      /\ mpc' = mpc \/ (mpc = "free" /\ mpc' = "exit")
      /\ pc' \in [Conns -> HandlerLabels]
      /\ \A h \in Conns : pc'[h] = pc[h] \/ (pc[h] = "free" /\ pc'[h] = "exit")
  BY FreeMoves
<1>2. freed' \in BOOLEAN /\ exit' \in {"no", "success", "killed"}
  BY DEF ThreadsInv, Crash, FreeResources, FreeSlot, FreeQueue, Leave, exitVars
<1>3. mpc' \in Loading \union Serving \union Leaving
  BY <1>1 DEF ThreadsInv, Leaving
<1>4. mpc' \in Loading \union Serving => mpc' = mpc
  BY <1>1 DEF Loading, Serving, Adding
<1>5. mpc' \in Serving \ {"accept"} => Accepted(mfd)' /\ pc'[mfd] = "none"
  BY <1>1, <1>4 DEF ThreadsInv, Accepted
<1>6. mpc' \in Loading \union {"accept"} => mfd = NoItem
  BY <1>1, <1>4 DEF ThreadsInv, Serving
<1>7. \A h \in Conns :
          /\ pc'[h] # "none" => conn[h] # "idle" /\ mpc' \notin Loading
          /\ pc'[h] \in {"none", "test", "item"} => fd[h] = NoItem
          /\ pc'[h] \in {"answer", "count", "countStore"} => fd[h] \in Conns
  BY <1>1, <1>4 DEF ThreadsInv, Loading
<1>8. QED BY <1>1, <1>2, <1>3, <1>5, <1>6, <1>7 DEF ThreadsInv

\* The kinds of steps.
LEMMA Steps ==
    ASSUME [Next]_vars
    PROVE  \/ MainServes \/ CallFails \/ (\E c \in Conns : Accept(c))
           \/ \E h \in Conns : Serve(h)
           \/ Crash \/ \E a \in Procs : FreeResources(a)
           \/ UNCHANGED vars
BY DEF Next, MainStep, MainServes, HandlerStep, Procs

LEMMA ThreadsInductive == TableTypeOK /\ ThreadsInv /\ [Next]_vars => ThreadsInv'
<1>1. ThreadsInv /\ UNCHANGED vars => ThreadsInv'
  BY DEF ThreadsInv, Accepted, vars, threadVars, peerVars, exitVars
<1>2. QED BY <1>1, Steps, HandlerKeepsThreads, MainKeepsThreads, FreeKeepsThreads

LEMMA ThreadsInitially == Init => ThreadsInv
<1> SUFFICES ASSUME Init PROVE ThreadsInv
  OBVIOUS
<1>1. PICK slots \in [0 .. Capacity - 1 -> Memory] : queue = createQueue(Capacity, slots)
  BY DEF Init
<1>2. queue \in Structs
  BY <1>1, ConnsAssumption DEF createQueue, Structs
<1>3. /\ mpc = "arguments" /\ mfd = NoItem /\ exit = "no" /\ declared = {}
      /\ DOMAIN temp = Conns /\ DOMAIN reply = Conns
      /\ msize = 0 /\ handledRequestNum = 0 /\ freed = FALSE /\ raced = FALSE
      /\ conn = [c \in Conns |-> "idle"] /\ pc = [h \in Conns |-> "none"]
      /\ fd = [h \in Conns |-> NoItem] /\ loaded = [h \in Conns |-> 0]
  BY DEF Init
<1>4. /\ pc \in [Conns -> HandlerLabels] /\ loaded \in [Conns -> Int]
      /\ fd \in [Conns -> Conns \union Memory \union {NoItem}]
      /\ conn \in [Conns -> {"idle", "open", "closed"}]
  BY <1>3 DEF HandlerLabels
<1>5. \A h \in Conns : pc[h] = "none" /\ fd[h] = NoItem
  BY <1>3
<1>6. mpc \in Loading /\ mpc \notin Serving
  BY <1>3 DEF Loading, Serving, Adding
<1>7. /\ mpc \in Loading \union Serving \union Leaving
      /\ msize \in Int /\ handledRequestNum \in Int
      /\ DOMAIN temp = Conns /\ DOMAIN reply = Conns
      /\ exit \in {"no", "success", "killed"}
      /\ declared \in SUBSET Names
  BY <1>3, <1>6
<1>8. freed \in BOOLEAN
  BY <1>3, Zenon
<1>9. /\ mpc \in Loading \union {"accept"} => mfd = NoItem
      /\ mpc \in Serving \ {"accept"} => Accepted(mfd) /\ pc[mfd] = "none"
  BY <1>3, <1>6
<1>10. \A h \in Conns :
          /\ pc[h] # "none" => conn[h] # "idle" /\ mpc \notin Loading
          /\ pc[h] \in {"none", "test", "item"} => fd[h] = NoItem
          /\ pc[h] \in {"answer", "count", "countStore"} => fd[h] \in Conns
  BY <1>5
<1>11. QED
  BY <1>2, <1>4, <1>7, <1>8, <1>9, <1>10, Zenon DEF ThreadsInv, Structs
-----------------------------------------------------------------------------
(***************************************************************************)
(* The table, until somebody empties it.                                   *)
(***************************************************************************)
\* Nobody leaves freeResources but with the whole process.
LEMMA FreeingStays ==
    ASSUME ThreadsInv, [Next]_vars
    PROVE  InFreeResources \subseteq InFreeResources'
<1>1. SUFFICES ASSUME NEW a \in InFreeResources PROVE a \in InFreeResources'
  OBVIOUS
<1>2. a \in Procs /\ Place(a) \in Leaving /\ "main" \notin Conns
  BY ConnsAssumption DEF InFreeResources, Leaving
<1>3. pc \in [Conns -> HandlerLabels]
  BY DEF ThreadsInv
<1>4. CASE a = "main"
  <2>1. mpc \in Leaving
    BY <1>2, <1>4 DEF Place
  <2>2. mpc' \in Leaving
    <3>1. CASE MainServes
      BY <2>1, <3>1 DEF MainServes, CheckArguments, NextCity, Probe, ReadFile, Declare, Listen,
         EnqueueTest, EnqueuePut, EnqueueLoad, EnqueueSize, Create, Leaving
    <3>2. CASE CallFails \/ (\E c \in Conns : Accept(c)) \/ UNCHANGED vars
      BY <2>1, <3>2 DEF CallFails, Accept, Leaving, vars
    <3>3. ASSUME NEW h \in Conns, Serve(h) PROVE mpc' \in Leaving
      BY <2>1, <3>3, HandlerMoves
    <3>4. CASE Crash \/ \E b \in Procs : FreeResources(b)
      BY <2>1, <3>4, FreeMoves DEF Leaving
    <3>5. QED BY <3>1, <3>2, <3>3, <3>4, Steps
  <2>3. QED BY <1>2, <1>4, <2>2 DEF InFreeResources, Place, Leaving
<1>5. CASE a # "main"
  <2>1. a \in Conns /\ pc[a] \in Leaving
    BY <1>2, <1>5 DEF Place, Procs
  <2>2. pc'[a] \in Leaving
    <3>1. CASE MainServes
      <4>1. CASE Create
        <5>1. pc[mfd] = "none" /\ pc' = [pc EXCEPT ![mfd] = "test"]
          BY <4>1 DEF Create, ThreadsInv, Serving
        <5>2. QED BY <1>3, <2>1, <5>1 DEF Leaving
      <4>2. CASE ~ Create
        BY <2>1, <3>1, <4>2 DEF MainServes, CheckArguments, NextCity, Probe, ReadFile, Declare,
           Listen, EnqueueTest, EnqueuePut, EnqueueLoad, EnqueueSize, threadVars
      <4>3. QED BY <4>1, <4>2
    <3>2. CASE CallFails \/ (\E c \in Conns : Accept(c)) \/ UNCHANGED vars
      BY <2>1, <3>2 DEF CallFails, Accept, threadVars, vars
    <3>3. ASSUME NEW h \in Conns, Serve(h) PROVE pc'[a] \in Leaving
      BY <2>1, <3>3, HandlerMoves
    <3>4. CASE Crash \/ \E b \in Procs : FreeResources(b)
      BY <2>1, <3>4, FreeMoves DEF Leaving
    <3>5. QED BY <3>1, <3>2, <3>3, <3>4, Steps
  <2>3. QED BY <1>2, <1>5, <2>2 DEF InFreeResources, Place, Leaving
<1>6. QED BY <1>4, <1>5

\* While main loads the table there is nobody else.
LEMMA LoadsAlone ==
    ASSUME ThreadsInv, mpc \in Loading
    PROVE  InFreeResources = {}
<1>1. \A h \in Conns : pc[h] = "none"
  BY DEF ThreadsInv
<1>2. QED BY <1>1 DEF InFreeResources, Place, Procs, Loading

\* The steps after which the table is as it was, or has an empty slot more.
LEMMA OthersKeepTypes ==
    ASSUME TableTypeOK, UNCHANGED loadVars,
           mpc' = mpc \/ (mpc' \notin {"arguments", "probe", "file"} /\ mpc # "arguments")
                      \/ mpc' \in Leaving,
           mpc \in Leaving => mpc' \in Leaving,
           \/ hashArray' = hashArray
           \/ \E s \in Slots : hashArray' = [hashArray EXCEPT ![s] = Empty]
    PROVE  TableTypeOK'
<1>1. hashArray' \in [Slots -> Items \union {Empty}]
  BY DEF TableTypeOK
<1>2. mpc' \in {"probe", "file"} => mpc' = mpc
  BY DEF Leaving
<1>3. mpc' = "arguments" => mpc = "arguments"
  BY DEF Leaving
<1>4. mpc' \notin {"arguments"} \union Leaving => mpc \notin {"arguments"} \union Leaving
  OBVIOUS
<1>5. QED BY <1>1, <1>2, <1>3, <1>4 DEF TableTypeOK, loadVars

LEMMA TableInductive ==
    TableKept /\ ThreadsInv /\ [Next]_vars => TableKept'
<1>1. SUFFICES ASSUME TableKept, ThreadsInv, [Next]_vars PROVE TableKept'
  OBVIOUS
<1>2. TableTypeOK /\ (InFreeResources = {} => TableInv)
      /\ (InFreeResources' = {} => TableInv)
  BY <1>1, FreeingStays DEF TableKept
<1>3. CASE (CheckArguments /\ mpc' = "load") \/ NextCity \/ Probe \/ ReadFile
  <2>1. mpc \in Loading
    BY <1>3 DEF CheckArguments, NextCity, Probe, ReadFile, Loading
  <2>2. TableInv
    BY <1>1, <1>2, <2>1, LoadsAlone
  <2>3. TableInv'
    BY <1>3, <2>2, BeforeProbe, ProbeKeepsTableInv, ReadFileKeepsTableInv
  <2>4. QED BY <2>3 DEF TableKept, TableInv
<1>4. CASE (CheckArguments /\ mpc' # "load") \/ CallFails
  <2>1. /\ UNCHANGED tableVars /\ mpc' = "free"
    BY <1>4 DEF CheckArguments, CallFails
  <2>2. TableTypeOK'
    BY <1>2, <2>1, OthersKeepTypes DEF tableVars, loadVars, Leaving
  <2>3. "main" \in InFreeResources'
    BY <2>1 DEF InFreeResources, Place, Procs
  <2>4. QED BY <2>2, <2>3 DEF TableKept
<1>5. CASE Declare \/ Listen \/ EnqueueTest \/ EnqueuePut \/ EnqueueLoad \/ EnqueueSize \/ Create
  <2>1. /\ UNCHANGED tableVars
        /\ mpc \notin {"arguments", "file"} \union Leaving
        /\ mpc' \notin {"arguments", "probe", "file"} \union Leaving
    BY <1>5 DEF Declare, Listen, EnqueueTest, EnqueuePut, EnqueueLoad, EnqueueSize, Create, Leaving
  <2>2. TableTypeOK'
    BY <1>2, <2>1, OthersKeepTypes DEF tableVars, loadVars
  <2>3. QED BY <1>2, <2>1, <2>2, OthersKeepTableInv DEF TableKept
<1>6. CASE UNCHANGED vars \/ \E h \in Conns : Serve(h)
  <2>1. UNCHANGED tableVars /\ mpc' = mpc
    BY <1>1, <1>6, HandlerMoves DEF vars
  <2>2. TableTypeOK'
    BY <1>2, <2>1, OthersKeepTypes DEF tableVars, loadVars
  <2>3. QED BY <1>2, <2>1, <2>2, OthersKeepTableInv DEF TableKept
<1>7. ASSUME NEW c \in Conns, Accept(c) PROVE TableKept'
  <2>1. UNCHANGED tableVars /\ mpc = "accept" /\ mpc' = "enqueue"
    BY <1>7 DEF Accept
  <2>2. TableTypeOK'
    BY <1>2, <2>1, OthersKeepTypes DEF tableVars, loadVars, Leaving
  <2>3. QED BY <1>2, <2>1, <2>2, OthersKeepTableInv DEF TableKept, Leaving
<1>8. CASE Crash \/ \E a \in Procs : FreeResources(a)
  <2>1. /\ UNCHANGED loadVars
        /\ mpc' = mpc \/ (mpc = "free" /\ mpc' = "exit")
        /\ \/ hashArray' = hashArray
           \/ \E s \in Slots : hashArray' = [hashArray EXCEPT ![s] = Empty]
        /\ hashArray' = hashArray \/ InFreeResources # {}
    BY <1>1, <1>8, FreeMoves
  <2>2. TableTypeOK'
    BY <1>2, <2>1, OthersKeepTypes DEF Leaving
  <2>3. ASSUME InFreeResources' = {} PROVE TableInv'
    <3>1. InFreeResources = {}
      BY <1>1, <2>3, FreeingStays
    <3>2. mpc \notin Leaving
      BY <3>1 DEF InFreeResources, Place, Procs, Leaving
    <3>3. UNCHANGED tableVars /\ mpc' = mpc
      BY <2>1, <3>1, <3>2 DEF tableVars, Leaving
    <3>4. QED BY <1>2, <3>1, <3>3, OthersKeepTableInv
  <2>4. QED BY <2>2, <2>3 DEF TableKept
<1>9. QED
  BY <1>1, <1>3, <1>4, <1>5, <1>6, <1>7, <1>8, Steps DEF MainServes

LEMMA TableInitially == Init => TableKept
BY InitTableInv DEF TableKept, TableInv

\* The invariant gives what search returns for a city that was loaded.
LEMMA TableInvFindsCities ==
    ASSUME TableInv, ~ overwritten
    PROVE  \A city \in Loaded : search(city) = [key |-> city, data |-> Dataset[city]]
<1>1. SUFFICES ASSUME NEW i \in range.start .. mindex - 1
               PROVE  search(cities[i]) =
                         [key |-> cities[i], data |-> Dataset[cities[i]]]
  BY DEF Loaded
<1> DEFINE city == cities[i]
<1>2. PICK s \in Slots : hashArray[s] = [key |-> city, data |-> Dataset[city]]
  BY <1>1 DEF TableInv, AllHeld, Holds
<1>3. /\ hashArray \in [Slots -> Items \union {Empty}]
      /\ hashCode \in [Names -> Slots]
  BY <1>1, LoopFacts DEF TableInv, TableTypeOK
<1>4. city \in Names
  <2>1. i \in Nat \ {0} /\ i <= Len(cities)
    BY <1>1, LoopFacts, CitiesAssumption DEF TableInv, TableTypeOK
  <2>2. QED BY <2>1, CityNames
<1>5. Taken(s) /\ hashArray[s].key = city
  BY <1>2, <1>4, CitiesAssumption DEF Taken, Empty
<1>6. searchSlot(city) = s
  BY <1>1, <1>3, <1>4, <1>5, SearchFinds DEF TableInv, KeysInPlace, InPlace
<1>7. QED BY <1>2, <1>6 DEF search

(***************************************************************************)
(* For every data set, range, table size and hash function, search finds   *)
(* every city that was loaded (insertToHash, search and addEntry of        *)
(* servant.c), with the entries of its files and no others, until          *)
(* freeResources begins to empty the table, and as long as insertToHash    *)
(* has not stored one city over another.                                   *)
(***************************************************************************)
THEOREM EveryCityFound == Spec => []CitiesFound
<1> DEFINE Inv == TableKept /\ ThreadsInv
<1>1. Init => Inv
  BY TableInitially, ThreadsInitially
<1>2. Inv /\ [Next]_vars => Inv'
  BY TableInductive, ThreadsInductive DEF TableKept
<1>3. Inv => CitiesFound
  BY TableInvFindsCities DEF TableKept, CitiesFound
<1>4. QED BY <1>1, <1>2, <1>3, PTL DEF Spec
-----------------------------------------------------------------------------
(***************************************************************************)
(* What is taken was accepted.                                             *)
(***************************************************************************)
LEMMA CountOne ==
    ASSUME NEW A \in SUBSET Conns, NEW B \in SUBSET Conns, A \subseteq B
    PROVE  /\ IsFiniteSet(A) /\ Cardinality(A) \in Nat /\ Cardinality(B) \in Nat
           /\ Cardinality(A) <= Cardinality(B)
           /\ \A h \in B \ A : Cardinality(A) + 1 <= Cardinality(B)
           /\ \A h : h \notin A /\ B = A \union {h} => Cardinality(B) = Cardinality(A) + 1
<1>1. IsFiniteSet(Conns)
  BY ConnsAssumption
<1>2. IsFiniteSet(A) /\ IsFiniteSet(B)
  BY <1>1, FS_Subset
<1>3. Cardinality(A) \in Nat /\ Cardinality(B) \in Nat /\ Cardinality(A) <= Cardinality(B)
  BY <1>2, FS_CardinalityType, FS_Subset
<1>4. ASSUME NEW h, h \notin A PROVE Cardinality(A \union {h}) = Cardinality(A) + 1
  BY <1>2, <1>4, FS_AddElement
<1>5. ASSUME NEW h \in B \ A PROVE Cardinality(A) + 1 <= Cardinality(B)
  <2>1. A \union {h} \subseteq B
    OBVIOUS
  <2>2. Cardinality(A \union {h}) <= Cardinality(B)
    BY <1>2, <2>1, FS_Subset
  <2>3. QED BY <1>4, <2>2
<1>6. QED BY <1>2, <1>3, <1>4, <1>5

PastCount == Cardinality(Past)
StartedCount == Cardinality(Started)

LEMMA Counts ==
    /\ PastCount \in Nat /\ StartedCount \in Nat /\ PastCount <= StartedCount
    /\ \A h \in Conns : pc[h] \in {"test", "item", "front", "frontStore"} =>
          PastCount + 1 <= StartedCount
    /\ Puts = StartedCount + One(HasPut)
    /\ StartedCount <= Puts /\ Puts \in Nat
<1>1. Past \in SUBSET Conns /\ Started \in SUBSET Conns /\ Past \subseteq Started
  BY DEF Past, Started, Leaving
<1>2. PastCount \in Nat /\ StartedCount \in Nat /\ PastCount <= StartedCount
  BY <1>1, CountOne DEF PastCount, StartedCount
<1>3. ASSUME NEW h \in Conns, pc[h] \in {"test", "item", "front", "frontStore"}
      PROVE  PastCount + 1 <= StartedCount
  <2>1. h \in Started \ Past
    BY <1>3 DEF Started, Past, Leaving
  <2>2. QED BY <1>1, <2>1, CountOne DEF PastCount, StartedCount
<1>4. Puts = StartedCount + One(HasPut)
  BY DEF Puts, StartedCount
<1>5. StartedCount <= Puts /\ Puts \in Nat
  BY <1>2, <1>4 DEF One
<1>6. QED BY <1>2, <1>3, <1>4, <1>5

LEMMA HandlerCounts ==
    ASSUME ThreadsInv, NEW h \in Conns, Serve(h)
    PROVE  /\ Puts' = Puts
           /\ PastCount' \in Nat /\ PastCount <= PastCount'
           /\ DequeueFrontStore(h) => PastCount' = PastCount + 1
<1>1. /\ mpc' = mpc /\ mfd' = mfd /\ pc[h] # "none" /\ pc'[h] # "none"
      /\ pc \in [Conns -> HandlerLabels] /\ pc' \in [Conns -> HandlerLabels]
      /\ \A k \in Conns \ {h} : pc'[k] = pc[k]
  BY HandlerMoves DEF ThreadsInv
<1>2. Started' = Started
  BY <1>1 DEF Started
<1>3. Past \in SUBSET Conns /\ Past' \in SUBSET Conns
  BY DEF Past
<1>4. h \in Past => h \in Past'
  BY <1>1 DEF Past, Leaving, Serve, DequeueTest, DequeueItem, DequeueFront, DequeueFrontStore,
     DequeueSize, DequeueSizeStore, Read, Answer, CountLoad, CountStore, Goto
<1>5. Past \subseteq Past'
  BY <1>1, <1>4 DEF Past
<1>6. PastCount' \in Nat /\ PastCount <= PastCount'
  BY <1>3, <1>5, CountOne DEF PastCount
<1>7. ASSUME DequeueFrontStore(h) PROVE PastCount' = PastCount + 1
  <2>1. pc[h] = "frontStore" /\ pc'[h] = "size"
    BY <1>1, <1>7 DEF DequeueFrontStore, Goto
  <2>2. h \notin Past /\ Past' = Past \union {h}
    BY <1>1, <2>1 DEF Past, Leaving
  <2>3. QED BY <1>3, <2>2, CountOne DEF PastCount
<1>8. Puts' = Puts
  BY <1>1, <1>2 DEF Puts, HasPut
<1>9. QED BY <1>6, <1>7, <1>8

\* The parts of AcceptedInv, with the counts named.
SlotsAccepted == \A s \in 0 .. Capacity - 1 : s < Puts => Accepted(queue.array[s])
Behind ==
    Puts < Capacity =>
        /\ queue.rear = IF Puts = 0 THEN Capacity - 1 ELSE Puts - 1
        /\ queue.size <= Puts - One(mpc \in Adding)
        /\ mpc = "enqueueSize" => msize < Puts
        /\ queue.front <= PastCount
        /\ \A h \in Conns :
              /\ pc[h] = "sizeStore" => loaded[h] <= Puts - One(mpc \in Adding)
              /\ pc[h] = "frontStore" => loaded[h] <= PastCount
TakenAccepted ==
    \A h \in Conns :
        /\ pc[h] = "frontStore" => loaded[h] \in 0 .. Capacity - 1
        /\ fd[h] = NoItem \/ Accepted(fd[h])
        /\ pc[h] \notin {"none", "test", "item", "ended"} => fd[h] # NoItem

LEMMA AcceptedNamed ==
    AcceptedInv <=> (~ freed => SlotsAccepted /\ Behind /\ TakenAccepted)
  BY DEF AcceptedInv, SlotsAccepted, Behind, TakenAccepted, PastCount

LEMMA HandlerKeepsAccepted ==
    ASSUME ThreadsInv, SlotsAccepted, Behind, TakenAccepted, ~ freed, NEW h \in Conns, Serve(h)
    PROVE  SlotsAccepted' /\ Behind' /\ TakenAccepted'
<1>1. /\ UNCHANGED <<mpc, mfd, msize>>
      /\ pc \in [Conns -> HandlerLabels] /\ pc' \in [Conns -> HandlerLabels]
      /\ \A k \in Conns \ {h} : pc'[k] = pc[k] /\ fd'[k] = fd[k]
                                /\ temp'[k] = temp[k] /\ loaded'[k] = loaded[k]
      /\ \A c \in Conns : Accepted(c) => Accepted(c)'
  BY HandlerMoves DEF ThreadsInv
<1>2. /\ Puts' = Puts /\ Puts \in Nat /\ PastCount \in Nat /\ PastCount' \in Nat
      /\ PastCount <= PastCount' /\ StartedCount \in Nat /\ StartedCount <= Puts
      /\ DequeueFrontStore(h) => PastCount' = PastCount + 1
      /\ pc[h] \in {"test", "item", "front", "frontStore"} => PastCount + 1 <= StartedCount
  BY HandlerCounts, Counts
<1>3. queue \in Structs /\ queue' \in Structs /\ loaded \in [Conns -> Int]
      /\ fd \in [Conns -> Conns \union Memory \union {NoItem}]
      /\ loaded' \in [Conns -> Int]
      /\ fd' \in [Conns -> Conns \union Memory \union {NoItem}]
  BY HandlerKeepsThreads DEF ThreadsInv, Structs
<1>4. Capacity \in Nat /\ Capacity > 0
  BY ConnsAssumption
<1>5. queue'.array = queue.array /\ queue'.rear = queue.rear
  BY <1>3 DEF Serve, DequeueTest, DequeueItem, DequeueFront, DequeueFrontStore, DequeueSize,
     DequeueSizeStore, Read, Answer, CountLoad, CountStore, Structs
<1>6. SlotsAccepted'
  BY <1>1, <1>2, <1>5 DEF SlotsAccepted, Accepted
<1>7. /\ queue.front \in 0 .. Capacity - 1 /\ queue.size \in Int /\ queue.rear \in 0 .. Capacity - 1
      /\ queue'.front \in 0 .. Capacity - 1 /\ queue'.size \in Int
      /\ loaded[h] \in Int /\ loaded'[h] \in Int
      /\ One(mpc \in Adding) \in {0, 1}
  BY <1>3, QueueFields DEF One
<1>8. ASSUME Puts < Capacity PROVE \/ queue'.front = queue.front
                                   \/ /\ DequeueFrontStore(h)
                                      /\ queue'.front = loaded[h] + 1
  <2>1. CASE DequeueFrontStore(h)
    <3>1. queue'.front = SuccIndex(queue, loaded[h]) /\ pc[h] = "frontStore"
      BY <1>3, <2>1 DEF DequeueFrontStore, Structs
    <3>2. loaded[h] \in 0 .. Capacity - 1 /\ loaded[h] <= PastCount
      BY <1>8, <3>1 DEF TakenAccepted, Behind
    <3>3. loaded[h] # Capacity - 1
      BY <1>2, <1>4, <1>7, <1>8, <3>1, <3>2
    <3>4. QED BY <1>3, <2>1, <3>1, <3>2, <3>3, QueueFields
  <2>2. CASE ~ DequeueFrontStore(h)
    BY <1>3, <2>2 DEF Serve, DequeueTest, DequeueItem, DequeueFront, DequeueSize,
       DequeueSizeStore, Read, Answer, CountLoad, CountStore, Structs
  <2>3. QED BY <2>1, <2>2
<1>9. Behind'
  <2> SUFFICES ASSUME Puts < Capacity
               PROVE  /\ queue'.size <= Puts - One(mpc \in Adding)
                      /\ queue'.front <= PastCount'
                      /\ \A k \in Conns :
                            /\ pc'[k] = "sizeStore" => loaded'[k] <= Puts - One(mpc \in Adding)
                            /\ pc'[k] = "frontStore" => loaded'[k] <= PastCount'
    BY <1>1, <1>2, <1>5 DEF Behind
  <2>1. /\ queue.size <= Puts - One(mpc \in Adding) /\ queue.front <= PastCount
        /\ \A k \in Conns :
              /\ pc[k] = "sizeStore" => loaded[k] <= Puts - One(mpc \in Adding)
              /\ pc[k] = "frontStore" => loaded[k] <= PastCount
    BY DEF Behind
  <2>2. queue'.size = queue.size \/ (pc[h] = "sizeStore" /\ queue'.size = loaded[h] - 1)
    BY <1>3 DEF Serve, DequeueTest, DequeueItem, DequeueFront, DequeueFrontStore,
       DequeueSize, DequeueSizeStore, Read, Answer, CountLoad, CountStore, Structs
  <2>3. queue'.size <= Puts - One(mpc \in Adding)
    BY <1>2, <1>7, <2>1, <2>2
  <2>4. queue'.front <= PastCount'
    <3>1. CASE queue'.front = queue.front
      BY <1>2, <1>7, <2>1, <3>1
    <3>2. CASE DequeueFrontStore(h) /\ queue'.front = loaded[h] + 1
      <4>1. pc[h] = "frontStore"
        BY <3>2 DEF DequeueFrontStore
      <4>2. QED BY <1>2, <1>7, <2>1, <3>2, <4>1
    <3>3. QED BY <1>8, <3>1, <3>2
  <2>5. /\ pc'[h] = "sizeStore" => loaded'[h] = queue.size
        /\ pc'[h] = "frontStore" => loaded'[h] = queue.front
    BY <1>1, <1>3 DEF Serve, DequeueTest, DequeueItem, DequeueFront, DequeueFrontStore,
       DequeueSize, DequeueSizeStore, Read, Answer, CountLoad, CountStore, Goto
  <2>6. \A k \in Conns :
            /\ pc'[k] = "sizeStore" => loaded'[k] <= Puts - One(mpc \in Adding)
            /\ pc'[k] = "frontStore" => loaded'[k] <= PastCount'
    <3>1. \A k \in Conns \ {h} : pc[k] = "frontStore" => loaded[k] <= PastCount'
      <4>1. \A k \in Conns \ {h} : loaded[k] \in Int
        BY <1>3
      <4>2. QED BY <1>2, <2>1, <4>1
    <3>2. pc'[h] = "frontStore" => loaded'[h] <= PastCount'
      BY <1>2, <1>7, <2>1, <2>5
    <3>3. pc'[h] = "sizeStore" => loaded'[h] <= Puts - One(mpc \in Adding)
      BY <2>1, <2>5
    <3>4. QED BY <1>1, <2>1, <3>1, <3>2, <3>3
  <2>7. QED BY <2>3, <2>4, <2>6
<1>10. TakenAccepted'
  <2>1. ASSUME NEW k \in Conns \ {h}
        PROVE  /\ pc'[k] = "frontStore" => loaded'[k] \in 0 .. Capacity - 1
               /\ fd'[k] = NoItem \/ Accepted(fd[k])'
               /\ pc'[k] \notin {"none", "test", "item", "ended"} => fd'[k] # NoItem
    <3>1. fd[k] \in Conns /\ Accepted(fd[k]) => Accepted(fd[k])'
      BY <1>1, <2>1 DEF Accepted
    <3>2. Accepted(fd[k]) => fd[k] \in Conns
      BY DEF Accepted
    <3>3. QED BY <1>1, <2>1, <3>1, <3>2 DEF TakenAccepted
  <2>2. pc'[h] = "frontStore" => loaded'[h] \in 0 .. Capacity - 1
    BY <1>1, <1>3, <1>7 DEF Serve, DequeueTest, DequeueItem, DequeueFront,
       DequeueFrontStore, DequeueSize, DequeueSizeStore, Read, Answer, CountLoad, CountStore, Goto
  <2>3. CASE DequeueItem(h)
    <3>1. fd'[h] = queue.array[queue.front] /\ pc[h] = "item" /\ conn' = conn
      BY <1>3, <2>3 DEF DequeueItem, peerVars
    <3>2. queue.front < Puts
      <4>1. CASE Puts < Capacity
        BY <1>2, <1>7, <3>1, <4>1 DEF Behind
      <4>2. CASE ~ (Puts < Capacity)
        BY <1>2, <1>4, <1>7, <4>2
      <4>3. QED BY <4>1, <4>2
    <3>3. Accepted(fd'[h])
      BY <1>7, <3>1, <3>2 DEF SlotsAccepted
    <3>4. Accepted(fd[h])' /\ fd'[h] # NoItem
      BY <3>1, <3>3, ConnsAssumption DEF Accepted
    <3>5. QED BY <2>1, <2>2, <3>4 DEF TakenAccepted
  <2>4. CASE ~ DequeueItem(h)
    <3>1. fd' = fd /\ (pc'[h] \notin {"none", "test", "item", "ended"} => pc[h] \notin {"none", "test", "item", "ended"})
      BY <1>1, <2>4 DEF Serve, DequeueTest, DequeueFront, DequeueFrontStore, DequeueSize,
         DequeueSizeStore, Read, Answer, CountLoad, CountStore, Goto
    <3>2. fd[h] = NoItem \/ Accepted(fd[h])'
      <4>1. fd[h] = NoItem \/ (fd[h] \in Conns /\ Accepted(fd[h]))
        BY DEF TakenAccepted, Accepted
      <4>2. QED BY <1>1, <3>1, <4>1 DEF Accepted
    <3>3. QED BY <2>1, <2>2, <3>1, <3>2 DEF TakenAccepted
  <2>5. QED BY <2>3, <2>4
<1>11. QED BY <1>6, <1>9, <1>10

\* The steps of main that leave the queue alone, and freeResources.
LEMMA QuietKeepsAccepted ==
    ASSUME ThreadsInv, SlotsAccepted, Behind, TakenAccepted,
           UNCHANGED <<fd, loaded, queue, msize>>,
           \A h \in Conns : pc'[h] = pc[h] \/ (pc[h] = "free" /\ pc'[h] = "exit"),
           \A c \in Conns : Accepted(c) => Accepted(c)',
           HasPut' <=> HasPut,
           mpc' \in Adding <=> mpc \in Adding,
           mpc' = "enqueueSize" => mpc = "enqueueSize"
    PROVE  SlotsAccepted' /\ Behind' /\ TakenAccepted'
<1>1. Started' = Started /\ Past' = Past
  BY DEF Started, Past, Leaving
<1>2. One(mpc \in Adding)' = One(mpc \in Adding) /\ Puts' = Puts /\ PastCount' = PastCount
  BY <1>1 DEF Puts, PastCount, One
<1>3. SlotsAccepted'
  BY <1>2 DEF SlotsAccepted, Accepted
<1>4. \A h \in Conns : /\ pc'[h] = "frontStore" => pc[h] = "frontStore"
                       /\ pc'[h] = "sizeStore" => pc[h] = "sizeStore"
                       /\ pc'[h] \notin {"none", "test", "item", "ended"}
                             => pc[h] \notin {"none", "test", "item", "ended"}
  OBVIOUS
<1>5. Behind'
  BY <1>2, <1>4 DEF Behind
<1>6. TakenAccepted'
  BY <1>4 DEF TakenAccepted, Accepted
<1>7. QED BY <1>3, <1>5, <1>6

\* A full queue has come round.
LEMMA EnqueueTestKeepsAccepted ==
    ASSUME ThreadsInv, SlotsAccepted, Behind, TakenAccepted, ~ freed, EnqueueTest
    PROVE  SlotsAccepted' /\ Behind' /\ TakenAccepted'
<1>1. /\ mpc = "enqueue" /\ UNCHANGED <<mfd, msize, pc, fd, loaded, conn, queue>>
      /\ mpc' = IF isFull(queue) THEN "create" ELSE "enqueuePut"
  BY DEF EnqueueTest, threadVars, Seen
<1>2. \A c \in Conns : Accepted(c) => Accepted(c)'
  BY <1>1 DEF Accepted
<1>3. CASE ~ isFull(queue)
  <2>1. /\ HasPut' <=> HasPut
        /\ mpc' \in Adding <=> mpc \in Adding
        /\ mpc' # "enqueueSize"
    BY <1>1, <1>3 DEF HasPut, Adding, Leaving
  <2>2. QED BY <1>1, <1>2, <2>1, QuietKeepsAccepted
<1>4. CASE isFull(queue)
  <2>1. mpc' = "create" /\ ~ HasPut /\ HasPut'
    BY <1>1, <1>4 DEF HasPut, Adding, Leaving
  <2>2. /\ Puts \in Nat /\ StartedCount \in Nat /\ Puts = StartedCount
    BY <2>1, Counts DEF One
  <2>3. Puts' = Puts + 1 /\ One(mpc \in Adding) = 0
    BY <1>1, <2>1, <2>2 DEF Puts, StartedCount, Started, One, Adding
  <2>4. Capacity \in Nat /\ Capacity > 0
    BY ConnsAssumption
  <2>5. queue.capacity = Capacity /\ queue.size \in Int
    BY QueueFields DEF ThreadsInv, Structs
  <2>6. ~ (Puts < Capacity)
    <3>1. queue.size = Capacity
      BY <1>4, <2>5 DEF isFull
    <3>2. SUFFICES ASSUME Puts < Capacity PROVE FALSE
      OBVIOUS
    <3>3. queue.size <= Puts
      BY <2>2, <2>3, <3>2 DEF Behind
    <3>4. QED BY <2>2, <2>4, <3>1, <3>2, <3>3
  <2>7. ~ (Puts' < Capacity)
    BY <2>2, <2>3, <2>4, <2>6
  <2>8. Behind'
    BY <2>7 DEF Behind
  <2>9. SlotsAccepted'
    <3>1. \A s \in 0 .. Capacity - 1 : s < Puts
      BY <2>2, <2>4, <2>6
    <3>2. QED BY <1>1, <3>1 DEF SlotsAccepted, Accepted
  <2>10. TakenAccepted'
    BY <1>1 DEF TakenAccepted, Accepted
  <2>11. QED BY <2>8, <2>9, <2>10
<1>5. QED BY <1>3, <1>4

\* main puts the descriptor behind the last one; as long as the ring has not
\* come round there is room for it.
LEMMA EnqueuePutKeepsAccepted ==
    ASSUME ThreadsInv, SlotsAccepted, Behind, TakenAccepted, EnqueuePut
    PROVE  SlotsAccepted' /\ Behind' /\ TakenAccepted'
<1>1. /\ mpc = "enqueuePut" /\ UNCHANGED <<mfd, msize, pc, fd, loaded, conn>>
      /\ mpc' = "enqueueLoad" /\ queue' = PutRear(queue, mfd)
      /\ ~ HasPut /\ HasPut'
  BY DEF EnqueuePut, threadVars, peerVars, HasPut, Adding, Leaving
<1>2. queue \in Structs /\ mfd \in Conns /\ Accepted(mfd) /\ loaded \in [Conns -> Int]
  BY <1>1 DEF ThreadsInv, Structs, Serving, Accepted
<1>3. /\ Puts \in Nat /\ StartedCount \in Nat /\ PastCount \in Nat /\ Puts = StartedCount
      /\ PastCount <= StartedCount
  BY <1>1, Counts DEF One
<1>4. Puts' = Puts + 1 /\ PastCount' = PastCount /\ One(mpc \in Adding) = 0
  BY <1>1, <1>3 DEF Puts, StartedCount, PastCount, Started, Past, One, Adding
<1>5. Capacity \in Nat /\ Capacity > 0
  BY ConnsAssumption
<1>6. queue.capacity = Capacity /\ queue.size \in Int
      /\ queue.rear \in 0 .. Capacity - 1 /\ queue.front \in 0 .. Capacity - 1
      /\ queue.array \in [0 .. Capacity - 1 -> Conns \union Memory]
  BY <1>2, QueueFields
<1>7. TakenAccepted'
  BY <1>1 DEF TakenAccepted, Accepted
<1> DEFINE r == SuccIndex(queue, queue.rear)
<1>8. r = (IF queue.rear = Capacity - 1 THEN 0 ELSE queue.rear + 1) /\ r \in 0 .. Capacity - 1
  BY <1>2, <1>6, QueueFields
<1>9. queue'.rear = r /\ queue'.size = queue.size /\ queue'.front = queue.front
      /\ queue'.array = [queue.array EXCEPT ![r] = mfd]
  BY <1>1, <1>2 DEF PutRear, Structs
<1> HIDE DEF r
<1>10. Puts < Capacity => r = Puts
  BY <1>3, <1>5, <1>6, <1>8 DEF Behind
<1>11. SlotsAccepted'
  <2>1. SUFFICES ASSUME NEW s \in 0 .. Capacity - 1, s < Puts'
                 PROVE  /\ queue'.array[s] \in Conns
                        /\ conn[queue'.array[s]] # "idle"
    BY <1>1 DEF SlotsAccepted, Accepted
  <2>2. CASE s = r
    BY <1>1, <1>2, <1>6, <1>9, <2>2 DEF Accepted
  <2>3. CASE s # r
    <3>1. s < Puts
      BY <1>3, <1>4, <1>5, <1>10, <2>1, <2>3
    <3>2. queue'.array[s] = queue.array[s]
      BY <1>6, <1>9, <2>3
    <3>3. QED BY <1>1, <3>1, <3>2 DEF SlotsAccepted, Accepted
  <2>4. QED BY <2>2, <2>3
<1>12. Behind'
  <2>1. SUFFICES ASSUME Puts' < Capacity
                 PROVE  /\ queue'.rear = Puts' - 1
                        /\ Puts' # 0
                        /\ queue'.size <= Puts' - 1
                        /\ queue'.front <= PastCount
                        /\ \A h \in Conns :
                              /\ pc[h] = "sizeStore" => loaded[h] <= Puts' - 1
                              /\ pc[h] = "frontStore" => loaded[h] <= PastCount
    BY <1>1, <1>4 DEF Behind, One, Adding
  <2>2. Puts < Capacity
    BY <1>3, <1>4, <1>5, <2>1
  <2>3. /\ queue.size <= Puts - 0 /\ queue.front <= PastCount
        /\ \A h \in Conns :
              /\ pc[h] = "sizeStore" => loaded[h] <= Puts - 0
              /\ pc[h] = "frontStore" => loaded[h] <= PastCount
    BY <1>4, <2>2 DEF Behind
  <2>4. Puts' - 1 = Puts /\ Puts - 0 = Puts /\ Puts' # 0
    BY <1>3, <1>4
  <2>5. QED BY <1>9, <1>10, <2>2, <2>3, <2>4
<1>13. QED BY <1>7, <1>11, <1>12

\* main's load and store of the size.
LEMMA EnqueueSizeKeepsAccepted ==
    ASSUME ThreadsInv, SlotsAccepted, Behind, TakenAccepted, EnqueueLoad \/ EnqueueSize
    PROVE  SlotsAccepted' /\ Behind' /\ TakenAccepted'
<1>1. /\ UNCHANGED <<mfd, pc, fd, loaded, conn>> /\ mpc \in Adding
      /\ mpc' \in {"enqueueSize", "create"}
  BY DEF EnqueueLoad, EnqueueSize, threadVars, peerVars, Adding
<1>2. queue \in Structs /\ msize \in Int /\ loaded \in [Conns -> Int]
  BY DEF ThreadsInv, Structs
<1>3. HasPut /\ HasPut'
  BY <1>1 DEF HasPut, Adding
<1>4. Puts \in Nat /\ Puts = StartedCount + 1 /\ StartedCount \in Nat
  BY <1>3, Counts DEF One
<1>5. Puts' = Puts /\ PastCount' = PastCount /\ One(mpc \in Adding) = 1
  BY <1>3, <1>1 DEF Puts, PastCount, Started, Past, One
<1>6. /\ queue'.array = queue.array /\ queue'.rear = queue.rear /\ queue'.front = queue.front
      /\ queue.size \in Int
  BY <1>2, QueueFields DEF EnqueueLoad, EnqueueSize, Structs
<1>7. SlotsAccepted' /\ TakenAccepted'
  BY <1>1, <1>5, <1>6 DEF SlotsAccepted, TakenAccepted, Accepted
<1>8. CASE EnqueueLoad
  <2>1. mpc' = "enqueueSize" /\ queue' = queue /\ msize' = queue.size
        /\ mpc = "enqueueLoad"
    BY <1>8 DEF EnqueueLoad
  <2>2. One(mpc \in Adding)' = 1
    BY <2>1 DEF One, Adding
  <2>3. Puts < Capacity => queue.size < Puts
    BY <1>4, <1>5, <1>6 DEF Behind
  <2>4. Behind'
    BY <1>1, <1>5, <2>1, <2>2, <2>3 DEF Behind
  <2>5. QED BY <1>7, <2>4
<1>9. CASE EnqueueSize
  <2>1. mpc' = "create" /\ queue'.size = msize + 1 /\ mpc = "enqueueSize"
    BY <1>2, <1>9 DEF EnqueueSize, Structs
  <2>2. One(mpc \in Adding)' = 0
    BY <2>1 DEF One, Adding
  <2>3. Behind'
    <3>1. SUFFICES ASSUME Puts < Capacity
                   PROVE  /\ queue'.size <= Puts - 0
                          /\ \A h \in Conns : pc[h] = "sizeStore" => loaded[h] <= Puts - 0
      BY <1>1, <1>5, <1>6, <2>1, <2>2 DEF Behind
    <3>2. msize < Puts /\ \A h \in Conns : pc[h] = "sizeStore" => loaded[h] <= Puts - 1
      BY <1>5, <2>1, <3>1 DEF Behind
    <3>3. Puts - 0 = Puts
      BY <1>4
    <3>4. \A h \in Conns : loaded[h] \in Int
      BY <1>2
    <3>5. QED BY <1>2, <1>4, <2>1, <3>2, <3>3, <3>4
  <2>4. QED BY <1>7, <2>3
<1>10. QED BY <1>8, <1>9

\* The thread is created: it was one more put, it is one more thread.
LEMMA CreateKeepsAccepted ==
    ASSUME ThreadsInv, SlotsAccepted, Behind, TakenAccepted, Create
    PROVE  SlotsAccepted' /\ Behind' /\ TakenAccepted'
<1>1. /\ mpc = "create" /\ mpc' = "accept" /\ UNCHANGED <<fd, loaded, queue, msize, conn>>
      /\ pc' = [pc EXCEPT ![mfd] = "test"]
  BY DEF Create, peerVars
<1>2. mfd \in Conns /\ pc[mfd] = "none" /\ pc \in [Conns -> HandlerLabels]
  BY <1>1 DEF ThreadsInv, Accepted, Serving
<1>3. /\ pc'[mfd] = "test" /\ pc'[mfd] # "none"
      /\ \A h \in Conns \ {mfd} : pc'[h] = pc[h]
  BY <1>1, <1>2
<1>4. Started' = Started \union {mfd} /\ mfd \notin Started
  BY <1>2, <1>3 DEF Started
<1>5. Past' = Past
  BY <1>2, <1>3 DEF Past, Leaving
<1>6. StartedCount' = StartedCount + 1 /\ StartedCount \in Nat
  <2>1. Started \in SUBSET Conns /\ Started' \in SUBSET Conns
    BY DEF Started
  <2>2. QED BY <1>4, <2>1, CountOne DEF StartedCount
<1>7. Puts = StartedCount + 1 /\ Puts' = StartedCount' + 0
  <2>1. HasPut /\ ~ HasPut'
    BY <1>1 DEF HasPut, Adding, Leaving
  <2>2. QED BY <2>1 DEF Puts, StartedCount, One
<1>8. Puts' = Puts /\ PastCount' = PastCount /\ One(mpc \in Adding)' = One(mpc \in Adding)
  BY <1>1, <1>5, <1>6, <1>7 DEF PastCount, One, Adding
<1>9. SlotsAccepted'
  BY <1>1, <1>8 DEF SlotsAccepted, Accepted
<1>10. \A h \in Conns : pc'[h] \notin {"none", "test"} => h # mfd /\ pc'[h] = pc[h]
  BY <1>3
<1>11. Behind'
  <2>1. /\ \A h \in Conns : pc'[h] = "sizeStore" => pc[h] = "sizeStore"
        /\ \A h \in Conns : pc'[h] = "frontStore" => pc[h] = "frontStore"
        /\ mpc' # "enqueueSize"
    BY <1>1, <1>10
  <2>2. QED BY <1>1, <1>8, <2>1 DEF Behind
<1>12. TakenAccepted'
  <2>1. ASSUME NEW h \in Conns
        PROVE  /\ pc'[h] = "frontStore" => loaded[h] \in 0 .. Capacity - 1
               /\ fd[h] = NoItem \/ Accepted(fd[h])
               /\ pc'[h] \notin {"none", "test", "item", "ended"} => fd[h] # NoItem
    BY <1>10 DEF TakenAccepted
  <2>2. QED BY <1>1, <2>1 DEF TakenAccepted, Accepted
<1>13. QED BY <1>9, <1>11, <1>12

LEMMA FreedStays == ThreadsInv /\ [Next]_vars /\ freed => freed'
<1> SUFFICES ASSUME ThreadsInv, [Next]_vars, freed PROVE freed'
  OBVIOUS
<1>1. CASE MainServes \/ CallFails \/ (\E c \in Conns : Accept(c)) \/ UNCHANGED vars
           \/ \E h \in Conns : Serve(h)
  BY <1>1 DEF MainServes, CheckArguments, NextCity, Probe, ReadFile, Declare, Listen, EnqueueTest,
     EnqueuePut, EnqueueLoad, EnqueueSize, Create, CallFails, Accept, Serve, DequeueTest,
     DequeueItem, DequeueFront, DequeueFrontStore, DequeueSize, DequeueSizeStore, Read, Answer,
     CountLoad, CountStore, vars, exitVars
<1>2. QED BY <1>1, FreeMoves, Steps

LEMMA AcceptedInductive == ThreadsInv /\ AcceptedInv /\ [Next]_vars => AcceptedInv'
<1> SUFFICES ASSUME ThreadsInv, AcceptedInv, [Next]_vars, ~ freed'
             PROVE  SlotsAccepted' /\ Behind' /\ TakenAccepted'
  BY DEF AcceptedInv, SlotsAccepted, Behind, TakenAccepted, PastCount
<1>1. SlotsAccepted /\ Behind /\ TakenAccepted /\ ~ freed
  BY AcceptedNamed, FreedStays
<1>2. CASE CheckArguments \/ NextCity \/ Probe \/ ReadFile \/ Declare \/ Listen \/ CallFails
           \/ UNCHANGED vars
  <2>1. /\ UNCHANGED <<pc, fd, loaded, queue, msize, mfd, conn>>
        /\ \/ mpc' = mpc
           \/ mpc \in Loading /\ mpc' \in Loading \union {"accept", "free"}
           \/ mpc \in Failing /\ mpc' = "free"
    BY <1>2 DEF CheckArguments, NextCity, Probe, ReadFile, Declare, Listen, CallFails, vars,
       Loading, threadVars, peerVars
  <2>2. \A c \in Conns : Accepted(c) => Accepted(c)'
    BY <2>1 DEF Accepted
  <2>3. Failing \subseteq {"declare", "listen", "accept", "create"}
    BY FailingAssumption
  <2>4. /\ HasPut' <=> HasPut
        /\ mpc' \in Adding <=> mpc \in Adding
        /\ mpc' = "enqueueSize" => mpc = "enqueueSize"
    <3>1. CASE mpc' = mpc
      BY <2>1, <3>1 DEF HasPut
    <3>2. CASE mpc \in Loading \union {"accept"}
      <4>1. mfd = NoItem
        BY <3>2 DEF ThreadsInv
      <4>2. mpc' = mpc \/ mpc' \in Loading \union {"accept", "free"}
        BY <2>1
      <4>3. QED BY <2>1, <3>2, <4>1, <4>2 DEF HasPut, Adding, Loading, Leaving
    <3>3. CASE mpc = "create" /\ mpc' = "free"
      <4>1. mfd # NoItem
        BY <3>3, ConnsAssumption DEF ThreadsInv, Serving, Accepted
      <4>2. QED BY <2>1, <3>3, <4>1 DEF HasPut, Adding, Leaving
    <3>4. QED BY <2>1, <2>3, <3>1, <3>2, <3>3 DEF Loading
  <2>5. QED BY <1>1, <2>1, <2>2, <2>4, QuietKeepsAccepted
<1>3. ASSUME NEW c \in Conns, Accept(c) PROVE SlotsAccepted' /\ Behind' /\ TakenAccepted'
  <2>1. /\ UNCHANGED <<pc, fd, loaded, queue, msize>> /\ mpc = "accept" /\ mpc' = "enqueue"
        /\ conn' = [conn EXCEPT ![c] = "open"]
    BY <1>3 DEF Accept, threadVars
  <2>2. \A d \in Conns : Accepted(d) => Accepted(d)'
    BY <2>1 DEF Accepted, ThreadsInv
  <2>3. /\ HasPut' <=> HasPut
        /\ mpc' \in Adding <=> mpc \in Adding
        /\ mpc' # "enqueueSize"
    BY <2>1 DEF HasPut, Adding, Leaving
  <2>4. QED BY <1>1, <2>1, <2>2, <2>3, QuietKeepsAccepted
<1>4. CASE Crash \/ \E a \in Procs : FreeResources(a)
  <2>1. /\ UNCHANGED <<mfd, msize, fd, loaded, queue, conn>>
        /\ mpc' = mpc \/ (mpc = "free" /\ mpc' = "exit")
        /\ \A h \in Conns : pc'[h] = pc[h] \/ (pc[h] = "free" /\ pc'[h] = "exit")
    BY <1>4, FreeMoves
  <2>2. /\ \A c \in Conns : Accepted(c) => Accepted(c)'
        /\ HasPut' <=> HasPut
        /\ mpc' \in Adding <=> mpc \in Adding
        /\ mpc' = "enqueueSize" => mpc = "enqueueSize"
    BY <2>1 DEF Accepted, HasPut, Adding, Leaving
  <2>3. QED BY <1>1, <2>1, <2>2, QuietKeepsAccepted
<1>5. QED
  BY <1>1, <1>2, <1>3, <1>4, Steps, HandlerKeepsAccepted, EnqueueTestKeepsAccepted,
     EnqueuePutKeepsAccepted, EnqueueSizeKeepsAccepted, CreateKeepsAccepted DEF MainServes

LEMMA AcceptedInitially == Init => AcceptedInv
<1> SUFFICES ASSUME Init PROVE AcceptedInv
  OBVIOUS
<1>1. PICK slots \in [0 .. Capacity - 1 -> Memory] : queue = createQueue(Capacity, slots)
  BY DEF Init
<1>2. /\ queue.rear = Capacity - 1 /\ queue.size = 0 /\ queue.front = 0
      /\ mpc = "arguments" /\ Capacity \in Nat /\ Capacity > 0
      /\ \A h \in Conns : pc[h] = "none" /\ fd[h] = NoItem
  BY <1>1, ConnsAssumption DEF createQueue, Init
<1>3. Started = {} /\ Past = {}
  BY <1>2 DEF Started, Past, Leaving
<1>4. Cardinality(Started) = 0 /\ Cardinality(Past) = 0
  BY <1>3, FS_EmptySet
<1>5. One(mpc \in Adding) = 0 /\ Puts = 0
  BY <1>2, <1>4 DEF Puts, HasPut, One, Adding, Leaving
<1>6. QED BY <1>2, <1>4, <1>5 DEF AcceptedInv
-----------------------------------------------------------------------------
(***************************************************************************)
(* handledRequestNum is never ahead of the threads that ended.             *)
(***************************************************************************)
CountedCount == Cardinality(Counted)

LEMMA NatInterval ==
    ASSUME NEW m \in Nat, NEW n \in Nat, m <= n
    PROVE  /\ \A i \in 0 .. m : i \in 0 .. n
           /\ m + 1 <= n => \A i \in 0 .. m : i + 1 \in 0 .. n
OBVIOUS

LEMMA HandlerKeepsCount ==
    ASSUME ThreadsInv, CountInv, NEW h \in Conns, Serve(h)
    PROVE  CountInv'
<1>1. /\ pc \in [Conns -> HandlerLabels] /\ pc' \in [Conns -> HandlerLabels]
      /\ pc[h] \notin {"none", "ended"}
      /\ \A k \in Conns \ {h} : pc'[k] = pc[k] /\ fd'[k] = fd[k]
                                /\ temp'[k] = temp[k] /\ loaded'[k] = loaded[k]
  BY HandlerMoves DEF ThreadsInv
<1>2. Counted \in SUBSET Conns /\ Counted' \in SUBSET Conns /\ Counted \subseteq Counted' /\ h \notin Counted
  BY <1>1 DEF Counted
<1>3. CountedCount \in Nat /\ CountedCount' \in Nat /\ CountedCount <= CountedCount'
      /\ (h \in Counted' => CountedCount + 1 <= CountedCount')
  BY <1>2, CountOne DEF CountedCount
<1>4. /\ handledRequestNum \in 0 .. CountedCount
      /\ \A k \in Conns :
            /\ pc[k] = "countStore" => loaded[k] \in 0 .. CountedCount
            /\ pc[k] \in {"count", "countStore"} => temp[k].type = "CLIENT_REQUEST"
  BY DEF CountInv, CountedCount
<1>5. loaded \in [Conns -> Int] /\ DOMAIN temp = Conns
  BY DEF ThreadsInv
<1>6. handledRequestNum' \in 0 .. CountedCount'
  <2>1. CASE CountStore(h)
    <3>1. /\ handledRequestNum' = loaded[h] + 1 /\ pc[h] = "countStore" /\ pc'[h] = "ended"
          /\ fd' = fd /\ temp' = temp
      BY <1>1, <2>1 DEF CountStore, Goto
    <3>2. fd[h] # NoItem /\ temp[h].type = "CLIENT_REQUEST"
      BY <1>4, <3>1, ConnsAssumption DEF ThreadsInv
    <3>3. h \in Counted'
      BY <3>1, <3>2 DEF Counted
    <3>4. QED BY <1>3, <1>4, <3>1, <3>3, NatInterval
  <2>2. CASE ~ CountStore(h)
    <3>1. handledRequestNum' = handledRequestNum
      BY <2>2 DEF Serve, DequeueTest, DequeueItem, DequeueFront, DequeueFrontStore,
         DequeueSize, DequeueSizeStore, Read, Answer, CountLoad
    <3>2. QED BY <1>3, <1>4, <3>1, NatInterval
  <2>3. QED BY <2>1, <2>2
<1>7. /\ pc'[h] = "countStore" => loaded'[h] \in 0 .. CountedCount'
      /\ pc'[h] \in {"count", "countStore"} => temp'[h].type = "CLIENT_REQUEST"
  <2>1. CASE CountLoad(h)
    <3>1. pc[h] = "count" /\ loaded'[h] = handledRequestNum /\ temp' = temp
      BY <1>5, <2>1 DEF CountLoad
    <3>2. QED BY <1>3, <1>4, <3>1, NatInterval
  <2>2. CASE Answer(h)
    <3>1. temp' = temp /\ pc'[h] # "countStore"
          /\ (pc'[h] = "count" => temp[h].type = "CLIENT_REQUEST")
      BY <1>1, <2>2 DEF Answer, Goto, exitVars
    <3>2. QED BY <3>1
  <2>3. CASE ~ CountLoad(h) /\ ~ Answer(h)
    <3>1. pc'[h] \notin {"count", "countStore"}
      BY <1>1, <2>3 DEF Serve, DequeueTest, DequeueItem, DequeueFront, DequeueFrontStore,
         DequeueSize, DequeueSizeStore, Read, CountStore, Goto
    <3>2. QED BY <3>1
  <2>4. QED BY <2>1, <2>2, <2>3
<1>8. \A k \in Conns \ {h} :
          /\ pc'[k] = "countStore" => loaded'[k] \in 0 .. CountedCount'
          /\ pc'[k] \in {"count", "countStore"} => temp'[k].type = "CLIENT_REQUEST"
  BY <1>1, <1>3, <1>4, NatInterval
<1>9. ASSUME NEW k \in Counted' PROVE fd'[k] \in Answered'
  <2>1. conn \in [Conns -> {"idle", "open", "closed"}] /\ Counted' \subseteq Conns
    BY DEF ThreadsInv, Counted
  <2>2. conn' = conn \/ \E c \in Conns : conn' = [conn EXCEPT ![c] = "closed"]
    <3>1. CountStore(h) => fd[h] \in Conns
      BY DEF CountStore, ThreadsInv
    <3>2. QED
      BY <3>1 DEF Serve, DequeueTest, DequeueItem, DequeueFront, DequeueFrontStore, DequeueSize,
         DequeueSizeStore, Read, Answer, CountLoad, CountStore, peerVars
  <2>3. Answered \subseteq Answered'
    BY <2>1, <2>2 DEF Answered
  <2>4. CASE k # h
    BY <1>1, <1>9, <2>1, <2>3, <2>4 DEF CountInv, Counted
  <2>5. CASE k = h
    <3>1. pc'[h] = "ended" /\ fd'[h] # NoItem
      BY <1>9, <2>5 DEF Counted
    <3>2. CASE CountStore(h)
      <4>1. fd' = fd /\ fd[h] \in Conns /\ conn' = [conn EXCEPT ![fd[h]] = "closed"]
        BY <3>2 DEF CountStore, ThreadsInv
      <4>2. QED BY <2>1, <2>5, <4>1 DEF Answered
    <3>3. CASE DequeueTest(h) \/ DequeueSizeStore(h)
      BY <1>1, <3>1, <3>3 DEF DequeueTest, DequeueSizeStore, Goto, ThreadsInv
    <3>4. QED
      BY <1>1, <3>1, <3>2, <3>3 DEF Serve, DequeueItem, DequeueFront, DequeueFrontStore,
         DequeueSize, Read, Answer, CountLoad, Goto
  <2>6. QED BY <2>4, <2>5
<1>10. QED BY <1>6, <1>7, <1>8, <1>9 DEF CountInv, CountedCount

LEMMA MainKeepsCount ==
    ASSUME ThreadsInv, CountInv,
           MainServes \/ CallFails \/ (\E c \in Conns : Accept(c)) \/ UNCHANGED vars
           \/ Crash \/ \E a \in Procs : FreeResources(a)
    PROVE  CountInv'
<1>1. pc \in [Conns -> HandlerLabels] /\ conn \in [Conns -> {"idle", "open", "closed"}]
  BY DEF ThreadsInv
<1>2. /\ UNCHANGED <<fd, temp, loaded, handledRequestNum>> /\ Answered \subseteq Answered'
      /\ \A h \in Conns : \/ pc'[h] = pc[h]
                          \/ pc[h] = "none" /\ pc'[h] = "test"
                          \/ pc[h] = "free" /\ pc'[h] = "exit"
  <2>1. CASE Create
    <3>1. /\ UNCHANGED <<fd, temp, loaded, handledRequestNum, conn>>
          /\ pc[mfd] = "none" /\ pc' = [pc EXCEPT ![mfd] = "test"]
      BY <2>1 DEF Create, ThreadsInv, Serving, peerVars
    <3>2. QED BY <1>1, <3>1 DEF Answered
  <2>2. ASSUME NEW c \in Conns, Accept(c)
        PROVE  /\ UNCHANGED <<fd, temp, loaded, handledRequestNum, pc>>
               /\ Answered \subseteq Answered'
    BY <1>1, <2>2 DEF Accept, threadVars, Answered
  <2>3. CASE CallFails \/ UNCHANGED vars \/ (MainServes /\ ~ Create)
    BY <2>3 DEF MainServes, CheckArguments, NextCity, Probe, ReadFile, Declare, Listen,
       EnqueueTest, EnqueuePut, EnqueueLoad, EnqueueSize, CallFails, vars, threadVars, peerVars,
       Answered
  <2>4. CASE Crash \/ \E a \in Procs : FreeResources(a)
    BY <2>4, FreeMoves DEF Answered
  <2>5. QED BY <2>1, <2>2, <2>3, <2>4
<1>3. Counted' = Counted
  BY <1>2 DEF Counted
<1>4. QED BY <1>2, <1>3 DEF CountInv

LEMMA CountInductive == ThreadsInv /\ CountInv /\ [Next]_vars => CountInv'
BY HandlerKeepsCount, MainKeepsCount, Steps

LEMMA CountInitially == Init => CountInv
<1> SUFFICES ASSUME Init PROVE CountInv
  OBVIOUS
<1>1. /\ handledRequestNum = 0 /\ \A h \in Conns : pc[h] = "none"
  BY DEF Init
<1>2. Counted = {}
  BY <1>1 DEF Counted
<1>3. CountedCount = 0
  BY <1>2, FS_EmptySet DEF CountedCount
<1>4. QED BY <1>1, <1>2, <1>3 DEF CountInv, CountedCount
-----------------------------------------------------------------------------
(***************************************************************************)
(* Who shares a connection, if nothing overlapped.                         *)
(***************************************************************************)
\* How far slot s is behind slot f in the ring, and the slot after s.
Dist(f, s) == IF s >= f THEN s - f ELSE s - f + Capacity
After(s) == IF s = Capacity - 1 THEN 0 ELSE s + 1

LEMMA Dists ==
    ASSUME NEW f \in 0 .. Capacity - 1, NEW s \in 0 .. Capacity - 1, NEW t \in 0 .. Capacity - 1
    PROVE  /\ Dist(f, s) \in 0 .. Capacity - 1 /\ Dist(f, f) = 0
           /\ Dist(f, s) = Dist(f, t) => s = t
           /\ After(s) \in 0 .. Capacity - 1
           /\ Dist(After(f), s) = IF s = f THEN Capacity - 1 ELSE Dist(f, s) - 1
           /\ Dist(f, After(s)) = IF Dist(f, s) = Capacity - 1 THEN 0 ELSE Dist(f, s) + 1
           /\ Dist(f, s) = 0 => s = f
<1>1. Capacity \in Nat /\ Capacity > 0
  BY ConnsAssumption
<1>2. /\ Dist(f, s) \in 0 .. Capacity - 1 /\ Dist(f, f) = 0
      /\ Dist(f, s) = Dist(f, t) => s = t
      /\ After(s) \in 0 .. Capacity - 1
      /\ Dist(f, s) = 0 => s = f
  BY <1>1 DEF Dist, After
<1>3. Dist(After(f), s) = IF s = f THEN Capacity - 1 ELSE Dist(f, s) - 1
  BY <1>1 DEF Dist, After
<1>4. Dist(f, After(s)) = IF Dist(f, s) = Capacity - 1 THEN 0 ELSE Dist(f, s) + 1
  BY <1>1 DEF Dist, After
<1>5. QED BY <1>2, <1>3, <1>4

LEMMA DistInjective ==
    \A f, s, t \in 0 .. Capacity - 1 : Dist(f, s) = Dist(f, t) => s = t
BY Dists

\* The parts of RingInv.
Alone == \A a, b \in InQueue : a = b
Filled ==
    /\ Content \in 0 .. Capacity
    /\ Ahead(queue.rear) = IF Content = 0 THEN Capacity - 1 ELSE Content - 1
InStep ==
    /\ mpc = "enqueueSize" => msize = queue.size
    /\ mpc = "enqueuePut" => queue.size # Capacity
    /\ \A h \in Conns :
          /\ pc[h] = "frontStore" => loaded[h] = queue.front
          /\ pc[h] = "sizeStore" => loaded[h] = queue.size
          /\ pc[h] \in {"item", "front", "frontStore"} => queue.size > 0
          /\ pc[h] \in {"front", "frontStore"} => fd[h] = queue.array[queue.front]
          /\ pc[h] \in {"none", "test", "item"} => fd[h] = NoItem
Fresh ==
    mpc \in {"enqueue", "enqueuePut"} =>
        /\ \A h \in Conns : fd[h] # mfd
        /\ \A s \in 0 .. Capacity - 1 : Live(s) => queue.array[s] # mfd
Held ==
    \A s \in 0 .. Capacity - 1 : Live(s) =>
        /\ Accepted(queue.array[s])
        /\ \A t \in 0 .. Capacity - 1 :
              Live(t) /\ queue.array[s] = queue.array[t] => s = t
        /\ \A h \in Conns : fd[h] = queue.array[s] =>
              s = queue.front /\ pc[h] \in {"front", "frontStore"}
OneEach == \A h, k \in Conns : (fd[h] = fd[k] /\ fd[h] # NoItem) => h = k
Ring == Alone /\ Filled /\ InStep /\ Fresh /\ Held /\ OneEach

LEMMA RingNamed == RingInv <=> (~ raced /\ ~ freed => Ring)
<1>1. ASSUME ~ raced, ~ freed, RingInv PROVE Ring
  BY <1>1 DEF RingInv, Ring, Alone, Filled, InStep, Fresh, Held, OneEach, NobodyShares
<1>2. ASSUME ~ raced /\ ~ freed => Ring PROVE RingInv
  BY <1>2 DEF RingInv, Ring, Alone, Filled, InStep, Fresh, Held, OneEach, NobodyShares
<1>3. QED BY <1>1, <1>2

\* A step that leaves the queue and what was taken from it alone.
LEMMA RingFrame ==
    ASSUME Ring, Alone', UNCHANGED <<queue, fd>>,
           mpc' \in Adding <=> mpc \in Adding,
           mpc' \in {"enqueue", "enqueuePut"}
              => mpc \in {"enqueue", "enqueuePut"} /\ mfd' = mfd,
           mpc' = "enqueueSize" => msize' = queue.size,
           mpc' = "enqueuePut" => queue.size # Capacity,
           \A c \in Conns : Accepted(c) => Accepted(c)',
           \A h \in Conns :
              /\ pc'[h] \in {"size", "sizeStore"} <=> pc[h] \in {"size", "sizeStore"}
              /\ pc'[h] \in {"item", "front", "frontStore"}
                    <=> pc[h] \in {"item", "front", "frontStore"}
              /\ pc'[h] \in {"front", "frontStore"} <=> pc[h] \in {"front", "frontStore"}
              /\ pc'[h] \in {"none", "test", "item"} => pc[h] \in {"none", "test", "item"}
              /\ pc'[h] = "frontStore" => loaded'[h] = queue.front
              /\ pc'[h] = "sizeStore" => loaded'[h] = queue.size
    PROVE  Ring'
<1>1. One(mpc \in Adding)' = One(mpc \in Adding)
      /\ One(\E h \in Conns : pc[h] \in {"size", "sizeStore"})'
            = One(\E h \in Conns : pc[h] \in {"size", "sizeStore"})
  BY DEF One
<1>2. Content' = Content
  BY <1>1 DEF Content
<1>3. \A s : Ahead(s)' = Ahead(s) /\ (Live(s)' <=> Live(s))
  BY <1>2 DEF Ahead, Live
<1>4. Filled'
  BY <1>2, <1>3 DEF Ring, Filled
<1>5. InStep'
  BY DEF Ring, InStep
<1>6. Fresh'
  BY <1>3 DEF Ring, Fresh
<1>7. Held'
  <2>1. \A s \in 0 .. Capacity - 1 : Live(s) => Accepted(queue.array[s])'
    BY DEF Ring, Held, Accepted
  <2>2. QED BY <1>3, <2>1 DEF Ring, Held
<1>8. OneEach'
  BY DEF Ring, OneEach
<1>9. QED BY <1>4, <1>5, <1>6, <1>7, <1>8 DEF Ring

\* A thread in the queue is alone there, as long as nothing overlaps.
LEMMA HandlerAlone ==
    ASSUME ThreadsInv, NEW h \in Conns, Serve(h), Touch(h), ~ raced'
    PROVE  /\ ~ raced /\ mpc \notin Adding \union {"enqueuePut"} /\ Alone'
           /\ \A k \in Conns \ {h} : pc[k] \notin Taking /\ pc'[k] = pc[k]
           /\ Content = queue.size - One(pc[h] \in {"size", "sizeStore"})
           /\ Content' = queue'.size - One(pc'[h] \in {"size", "sizeStore"})
<1>1. ~ raced /\ InQueue \ {h} = {}
  BY DEF Touch
<1>2. /\ mpc' = mpc /\ pc' \in [Conns -> HandlerLabels]
      /\ \A k \in Conns \ {h} : pc'[k] = pc[k]
  BY HandlerMoves
<1>3. "main" # h
  BY ConnsAssumption
<1>4. mpc \notin Adding \union {"enqueuePut"}
  <2>1. mpc \in Adding \union {"enqueuePut"} => "main" \in InQueue
    BY DEF InQueue, Adding
  <2>2. QED BY <1>1, <1>3, <2>1
<1>5. \A k \in Conns \ {h} : pc[k] \notin Taking
  <2>1. \A k \in Conns : pc[k] \in Taking => k \in InQueue
    BY DEF InQueue, Taking
  <2>2. QED BY <1>1, <2>1
<1>6. \A a \in InQueue' : a = h
  BY <1>2, <1>4, <1>5 DEF InQueue, Adding, Taking
<1>7. Alone'
  BY <1>6 DEF Alone
<1>8. (\E k \in Conns : pc[k] \in {"size", "sizeStore"}) <=> pc[h] \in {"size", "sizeStore"}
  BY <1>5 DEF Taking
<1>9. (\E k \in Conns : pc'[k] \in {"size", "sizeStore"}) <=> pc'[h] \in {"size", "sizeStore"}
  BY <1>2, <1>5 DEF Taking
<1>10. ThreadsInv' /\ queue.size \in Int /\ queue'.size \in Int
  BY HandlerKeepsThreads, QueueFields DEF ThreadsInv, Structs
<1>11. Content = queue.size - One(pc[h] \in {"size", "sizeStore"})
  BY <1>4, <1>8, <1>10 DEF Content, One
<1>12. Content' = queue'.size - One(pc'[h] \in {"size", "sizeStore"})
  BY <1>2, <1>4, <1>9, <1>10 DEF Content, One
<1>13. QED BY <1>1, <1>2, <1>4, <1>5, <1>7, <1>11, <1>12

\* dequeue, step by step: the thread is alone with the queue.
LEMMA DequeueKeepsRing ==
    ASSUME ThreadsInv, Ring, NEW h \in Conns, Serve(h), ~ raced', ~ freed,
           \/ DequeueTest(h) \/ DequeueItem(h) \/ DequeueFront(h)
           \/ DequeueFrontStore(h) \/ DequeueSize(h) \/ DequeueSizeStore(h)
    PROVE  Ring'
<1>1. /\ mpc \notin Adding \union {"enqueuePut"} /\ Alone'
      /\ \A k \in Conns \ {h} : pc[k] \notin Taking /\ pc'[k] = pc[k]
      /\ Content = queue.size - One(pc[h] \in {"size", "sizeStore"})
      /\ Content' = queue'.size - One(pc'[h] \in {"size", "sizeStore"})
  BY HandlerAlone DEF DequeueTest, DequeueItem, DequeueFront, DequeueFrontStore, DequeueSize,
     DequeueSizeStore
<1>2. /\ UNCHANGED <<mpc, mfd, msize, conn>>
      /\ pc' \in [Conns -> HandlerLabels] /\ pc \in [Conns -> HandlerLabels]
      /\ \A k \in Conns \ {h} : fd'[k] = fd[k] /\ loaded'[k] = loaded[k]
  BY HandlerMoves DEF DequeueTest, DequeueItem, DequeueFront, DequeueFrontStore, DequeueSize,
     DequeueSizeStore, peerVars, ThreadsInv
<1>3. queue \in Structs /\ queue' \in Structs /\ loaded \in [Conns -> Int]
      /\ fd \in [Conns -> Conns \union Memory \union {NoItem}]
  BY HandlerKeepsThreads DEF ThreadsInv, Structs
<1>4. /\ queue.front \in 0 .. Capacity - 1 /\ queue.rear \in 0 .. Capacity - 1
      /\ queue.size \in Int /\ Capacity \in Nat /\ Capacity > 0
      /\ queue'.front \in 0 .. Capacity - 1
  BY <1>3, QueueFields
<1>5. \A c \in Conns : Accepted(c) => Accepted(c)'
  BY <1>2 DEF Accepted
<1>6. \A k \in Conns \ {h} : pc'[k] \notin Taking
  BY <1>1
<1>7. \A s : Ahead(s) = Dist(queue.front, s)
  BY DEF Ahead, Dist
<1>8. CASE DequeueTest(h)
  <2>1. /\ pc[h] = "test" /\ pc'[h] = (IF queue.size = 0 THEN "ended" ELSE "item")
        /\ UNCHANGED <<queue, fd, loaded>>
    BY <1>2, <1>8 DEF DequeueTest, Seen, Goto, isEmpty
  <2>2. CASE queue.size = 0
    BY <1>1, <1>2, <1>5, <2>1, <2>2, RingFrame DEF Taking, Ring, InStep
  <2>3. CASE queue.size # 0
    <3>1. Content = queue.size /\ Content' = queue.size /\ queue.size > 0
      <4>1. One(pc[h] \in {"size", "sizeStore"}) = 0 /\ One(pc'[h] \in {"size", "sizeStore"}) = 0
        BY <2>1, <2>3 DEF One
      <4>2. Content = queue.size /\ Content' = queue.size
        BY <1>1, <1>4, <2>1, <4>1
      <4>3. Content \in 0 .. Capacity
        BY DEF Ring, Filled
      <4>4. QED BY <1>4, <2>3, <4>2, <4>3
    <3>2. \A s : Ahead(s)' = Ahead(s) /\ (Live(s)' <=> Live(s))
      BY <2>1, <3>1 DEF Ahead, Live
    <3>3. Filled' /\ Fresh' /\ OneEach'
      BY <1>2, <2>1, <3>1, <3>2 DEF Ring, Filled, Fresh, OneEach
    <3>4. InStep'
      <4>1. fd[h] = NoItem
        BY <2>1 DEF Ring, InStep
      <4>2. QED BY <1>1, <1>2, <2>1, <2>3, <3>1, <4>1 DEF Ring, InStep
    <3>5. Held'
      <4>1. pc[h] \notin {"front", "frontStore"}
        BY <2>1
      <4>2. QED BY <1>1, <1>2, <2>1, <3>2, <4>1 DEF Ring, Held, Accepted
    <3>6. QED BY <1>1, <3>3, <3>4, <3>5 DEF Ring
  <2>4. QED BY <2>2, <2>3
<1>9. CASE DequeueItem(h)
  <2> DEFINE item == queue.array[queue.front]
  <2>1. /\ pc[h] = "item" /\ pc'[h] = "front" /\ fd'[h] = item
        /\ UNCHANGED <<queue, loaded>>
    BY <1>2, <1>3, <1>9 DEF DequeueItem, Goto
  <2>2. One(pc[h] \in {"size", "sizeStore"}) = 0 /\ One(pc'[h] \in {"size", "sizeStore"}) = 0
    BY <2>1 DEF One
  <2>3. Content = queue.size /\ Content' = queue.size /\ queue.size > 0
    <3>1. queue.size > 0
      BY <2>1 DEF Ring, InStep
    <3>2. QED BY <1>1, <1>4, <2>1, <2>2, <3>1
  <2>4. \A s : Ahead(s)' = Ahead(s) /\ (Live(s)' <=> Live(s))
    BY <2>1, <2>3 DEF Ahead, Live
  <2>5. Live(queue.front)
    <3>1. Ahead(queue.front) = 0
      BY <1>4, <1>7, Dists
    <3>2. QED BY <1>4, <2>3, <3>1 DEF Live
  <2>6. \A k \in Conns \ {h} : fd[k] # item
    BY <1>1, <1>4, <2>5 DEF Ring, Held, Taking
  <2>7. Filled' /\ Fresh'
    BY <1>2, <1>4, <2>1, <2>3, <2>4, <2>5 DEF Ring, Filled, Fresh
  <2>8. OneEach'
    BY <1>2, <2>1, <2>6 DEF Ring, OneEach
  <2>9. InStep'
    BY <1>1, <1>2, <2>1, <2>3 DEF Ring, InStep
  <2>10. Held'
    <3>1. SUFFICES ASSUME NEW s \in 0 .. Capacity - 1, Live(s)
                   PROVE  /\ Accepted(queue.array[s])'
                          /\ \A t \in 0 .. Capacity - 1 :
                                Live(t) /\ queue.array[s] = queue.array[t] => s = t
                          /\ \A k \in Conns : fd'[k] = queue.array[s] =>
                                s = queue.front /\ pc'[k] \in {"front", "frontStore"}
      BY <2>1, <2>4 DEF Held
    <3>2. /\ Accepted(queue.array[s])
          /\ \A t \in 0 .. Capacity - 1 :
                Live(t) /\ queue.array[s] = queue.array[t] => s = t
          /\ \A k \in Conns : fd[k] = queue.array[s] =>
                s = queue.front /\ pc[k] \in {"front", "frontStore"}
      BY <3>1 DEF Ring, Held
    <3>3. item = queue.array[s] => s = queue.front
      BY <1>4, <2>5, <3>2
    <3>4. \A k \in Conns : fd'[k] = queue.array[s] =>
              s = queue.front /\ pc'[k] \in {"front", "frontStore"}
      BY <1>1, <1>2, <2>1, <3>2, <3>3
    <3>5. QED BY <1>2, <2>1, <3>2, <3>4 DEF Accepted
  <2>11. QED BY <1>1, <2>7, <2>8, <2>9, <2>10 DEF Ring
<1>10. CASE DequeueFront(h)
  <2>1. /\ pc[h] = "front" /\ pc'[h] = "frontStore" /\ loaded'[h] = queue.front
        /\ UNCHANGED <<queue, fd>>
    BY <1>2, <1>3, <1>10 DEF DequeueFront, Goto
  <2>2. QED BY <1>1, <1>2, <1>5, <2>1, RingFrame DEF Taking, Ring, InStep
<1>11. CASE DequeueFrontStore(h)
  <2>1. /\ pc[h] = "frontStore" /\ pc'[h] = "size" /\ fd' = fd
        /\ queue' = [queue EXCEPT !.front = SuccIndex(queue, loaded[h])]
    BY <1>2, <1>11 DEF DequeueFrontStore, Goto
  <2>2. loaded[h] = queue.front /\ queue.size > 0
    BY <2>1 DEF Ring, InStep
  <2>3. /\ queue'.front = After(queue.front) /\ queue'.rear = queue.rear
        /\ queue'.size = queue.size /\ queue'.array = queue.array
    BY <1>3, <1>4, <2>1, <2>2, QueueFields DEF After, Structs
  <2>4. Content = queue.size /\ Content' = queue.size - 1
    <3>1. One(pc[h] \in {"size", "sizeStore"}) = 0 /\ One(pc'[h] \in {"size", "sizeStore"}) = 1
      BY <2>1 DEF One
    <3>2. QED BY <1>1, <1>4, <2>3, <3>1
  <2>5. \A s : Ahead(s)' = Dist(After(queue.front), s)
    BY <2>3 DEF Ahead, Dist
  <2>6. /\ queue.size \in 0 .. Capacity
        /\ Ahead(queue.rear) = queue.size - 1
    BY <2>2, <2>4 DEF Ring, Filled
  <2>7. \A s \in 0 .. Capacity - 1 :
            /\ Dist(After(queue.front), s) =
                  IF s = queue.front THEN Capacity - 1 ELSE Dist(queue.front, s) - 1
            /\ Dist(queue.front, s) \in 0 .. Capacity - 1
            /\ Dist(queue.front, queue.front) = 0
            /\ Dist(queue.front, s) = 0 => s = queue.front
    BY <1>4, Dists
  <2>8. Filled'
    <3>1. Content' \in 0 .. Capacity
      BY <1>4, <2>2, <2>4, <2>6
    <3>2. Ahead(queue.rear)' = Dist(After(queue.front), queue.rear)
      BY <2>3, <2>5
    <3>3. Dist(queue.front, queue.rear) = queue.size - 1
      BY <1>7, <2>6
    <3>4. Dist(After(queue.front), queue.rear)
             = IF queue.size - 1 = 0 THEN Capacity - 1 ELSE queue.size - 2
      BY <1>4, <2>7, <3>3
    <3>5. QED BY <1>4, <2>4, <3>1, <3>2, <3>4 DEF Filled
  <2>9. \A s \in 0 .. Capacity - 1 : Live(s)' => Live(s) /\ s # queue.front
    <3>1. SUFFICES ASSUME NEW s \in 0 .. Capacity - 1, Live(s)'
                   PROVE  Live(s) /\ s # queue.front
      OBVIOUS
    <3>2. Dist(After(queue.front), s) < queue.size - 1
      BY <2>4, <2>5, <3>1 DEF Live
    <3>3. s # queue.front
      BY <1>4, <2>6, <2>7, <3>2
    <3>4. Dist(queue.front, s) < queue.size
      BY <1>4, <2>7, <3>2, <3>3
    <3>5. QED BY <1>7, <2>4, <3>3, <3>4 DEF Live
  <2>10. Held'
    BY <1>2, <2>1, <2>3, <2>9 DEF Ring, Held, Accepted
  <2>11. InStep'
    BY <1>1, <1>2, <2>1, <2>3 DEF Ring, InStep, Taking
  <2>12. Fresh' /\ OneEach'
    BY <1>2, <2>1, <2>3, <2>9 DEF Ring, Fresh, OneEach
  <2>13. QED BY <1>1, <2>8, <2>10, <2>11, <2>12 DEF Ring
<1>12. CASE DequeueSize(h)
  <2>1. /\ pc[h] = "size" /\ pc'[h] = "sizeStore" /\ loaded'[h] = queue.size
        /\ UNCHANGED <<queue, fd>>
    BY <1>2, <1>3, <1>12 DEF DequeueSize, Goto
  <2>2. QED BY <1>1, <1>2, <1>5, <2>1, RingFrame DEF Taking, Ring, InStep
<1>13. CASE DequeueSizeStore(h)
  <2>1. /\ pc[h] = "sizeStore" /\ pc'[h] \in {"ended", "read"} /\ fd' = fd
        /\ queue' = [queue EXCEPT !.size = loaded[h] - 1]
    BY <1>2, <1>13 DEF DequeueSizeStore, Goto
  <2>2. loaded[h] = queue.size
    BY <2>1 DEF Ring, InStep
  <2>3. /\ queue'.front = queue.front /\ queue'.rear = queue.rear
        /\ queue'.size = queue.size - 1 /\ queue'.array = queue.array
    BY <1>3, <2>1, <2>2 DEF Structs
  <2>4. Content' = Content
    <3>1. One(pc[h] \in {"size", "sizeStore"}) = 1 /\ One(pc'[h] \in {"size", "sizeStore"}) = 0
      BY <2>1 DEF One
    <3>2. QED BY <1>1, <1>4, <2>3, <3>1
  <2>5. \A s : Ahead(s)' = Ahead(s) /\ (Live(s)' <=> Live(s))
    BY <2>3, <2>4 DEF Ahead, Live
  <2>6. Filled' /\ Fresh' /\ OneEach'
    BY <1>2, <2>1, <2>3, <2>4, <2>5 DEF Ring, Filled, Fresh, OneEach
  <2>7. Held'
    <3>1. pc[h] \notin {"front", "frontStore"}
      BY <2>1
    <3>2. QED BY <1>1, <1>2, <2>1, <2>3, <2>5, <3>1 DEF Ring, Held, Accepted
  <2>8. InStep'
    <3>1. mpc' # "enqueueSize" /\ mpc' # "enqueuePut"
      BY <1>1, <1>2 DEF Adding
    <3>2. QED BY <1>1, <1>2, <2>1, <2>3, <3>1 DEF Ring, InStep, Taking
  <2>9. QED BY <1>1, <2>6, <2>7, <2>8 DEF Ring
<1>14. QED BY <1>8, <1>9, <1>10, <1>11, <1>12, <1>13

\* The rest of a thread's work.
LEMMA ServeKeepsRing ==
    ASSUME ThreadsInv, Ring, NEW h \in Conns, Serve(h),
           Read(h) \/ Answer(h) \/ CountLoad(h) \/ CountStore(h)
    PROVE  Ring' /\ raced' = raced
<1>1. /\ UNCHANGED <<mpc, mfd, msize, queue, fd, raced>>
      /\ pc[h] \in {"read", "answer", "count", "countStore"}
      /\ pc' \in [Conns -> HandlerLabels]
      /\ \A k \in Conns \ {h} : pc'[k] = pc[k] /\ loaded'[k] = loaded[k]
      /\ \A c \in Conns : Accepted(c) => Accepted(c)'
  BY HandlerMoves DEF Read, Answer, CountLoad, CountStore
<1>2. pc'[h] \in {"read", "answer", "count", "countStore", "ended", "free"}
  <2>1. pc \in [Conns -> HandlerLabels]
    BY DEF ThreadsInv
  <2>2. QED BY <1>1, <2>1 DEF Read, Answer, CountLoad, CountStore, Goto, exitVars
<1>3. InQueue' = InQueue
  BY <1>1, <1>2 DEF InQueue
<1>4. Alone'
  BY <1>3 DEF Ring, Alone
<1>5. QED
  BY <1>1, <1>2, <1>4, RingFrame DEF Ring, InStep

\* main in the queue is alone there, too.
LEMMA MainAlone ==
    ASSUME ThreadsInv, ThreadsInv', Touch("main"), UNCHANGED pc, ~ raced'
    PROVE  /\ ~ raced /\ \A h \in Conns : pc[h] \notin Taking
           /\ Alone'
           /\ Content = queue.size + One(mpc \in Adding)
           /\ Content' = queue'.size + One(mpc' \in Adding)
<1>1. ~ raced /\ InQueue \ {"main"} = {}
  BY DEF Touch
<1>2. "main" \notin Conns
  BY ConnsAssumption
<1>3. \A h \in Conns : pc[h] \notin Taking
  <2>1. \A h \in Conns : pc[h] \in Taking => h \in InQueue
    BY DEF InQueue, Taking
  <2>2. QED BY <1>1, <1>2, <2>1
<1>4. \A a \in InQueue' : a = "main"
  BY <1>3 DEF InQueue, Taking
<1>5. Alone'
  BY <1>4 DEF Alone
<1>6. /\ ~ \E h \in Conns : pc[h] \in {"size", "sizeStore"}
      /\ ~ \E h \in Conns : pc'[h] \in {"size", "sizeStore"}
  BY <1>3 DEF Taking
<1>7. /\ One(\E h \in Conns : pc[h] \in {"size", "sizeStore"}) = 0
      /\ One(\E h \in Conns : pc'[h] \in {"size", "sizeStore"}) = 0
  BY <1>6 DEF One
<1>8. queue.size \in Int /\ queue'.size \in Int
  BY QueueFields DEF ThreadsInv, Structs
<1>9. Content = queue.size + One(mpc \in Adding)
  BY <1>6, <1>8 DEF Content, One
<1>10. Content' = queue'.size + One(mpc' \in Adding)
  BY <1>6, <1>8 DEF Content, One
<1>11. QED BY <1>1, <1>3, <1>5, <1>9, <1>10

LEMMA EnqueueTestKeepsRing ==
    ASSUME ThreadsInv, ThreadsInv', Ring, EnqueueTest, ~ raced', ~ freed
    PROVE  Ring'
<1>1. /\ mpc = "enqueue" /\ UNCHANGED <<mfd, msize, pc, fd, loaded, conn, queue>>
      /\ mpc' = IF isFull(queue) THEN "create" ELSE "enqueuePut"
  BY DEF EnqueueTest, threadVars, Seen
<1>2. Alone'
  BY <1>1, MainAlone DEF EnqueueTest
<1>3. queue.capacity = Capacity
  BY QueueFields DEF ThreadsInv, Structs
<1>4. /\ mpc' = "enqueuePut" => queue.size # Capacity
      /\ mpc' \in Adding <=> mpc \in Adding
      /\ mpc' # "enqueueSize"
  BY <1>1, <1>3 DEF isFull, Adding
<1>5. QED BY <1>1, <1>2, <1>4, RingFrame DEF Ring, InStep, Accepted

LEMMA EnqueuePutKeepsRing ==
    ASSUME ThreadsInv, ThreadsInv', Ring, EnqueuePut, ~ raced'
    PROVE  Ring'
<1>1. /\ mpc = "enqueuePut" /\ UNCHANGED <<mfd, msize, pc, fd, loaded, conn>>
      /\ mpc' = "enqueueLoad" /\ queue' = PutRear(queue, mfd)
  BY DEF EnqueuePut, threadVars, peerVars
<1>2. /\ \A h \in Conns : pc[h] \notin Taking
      /\ Alone'
      /\ Content = queue.size + One(mpc \in Adding)
      /\ Content' = queue'.size + One(mpc' \in Adding)
  BY <1>1, MainAlone DEF EnqueuePut
<1>3. queue \in Structs /\ queue' \in Structs /\ mfd \in Conns /\ Accepted(mfd)
  BY <1>1 DEF ThreadsInv, Structs, Serving, Accepted
<1>4. /\ queue.front \in 0 .. Capacity - 1 /\ queue.rear \in 0 .. Capacity - 1
      /\ queue.size \in Int /\ queue'.size \in Int /\ queue.capacity = Capacity
      /\ Capacity \in Nat /\ Capacity > 0
      /\ queue.array \in [0 .. Capacity - 1 -> Conns \union Memory]
  BY <1>3, QueueFields
<1>5. Content = queue.size
  BY <1>1, <1>2, <1>4 DEF One, Adding
<1> DEFINE r == After(queue.rear)
<1>6. SuccIndex(queue, queue.rear) = r /\ r \in 0 .. Capacity - 1
  BY SMTT(30), <1>3, <1>4, QueueFields, Dists DEF After
<1>7. queue'.rear = r /\ queue'.size = queue.size /\ queue'.front = queue.front
      /\ queue'.array = [queue.array EXCEPT ![r] = mfd]
  BY <1>3, <1>1, <1>6 DEF PutRear, Structs
<1> HIDE DEF r
<1>8. Content' = queue.size + 1
  BY <1>2, <1>4, <1>1, <1>7 DEF One, Adding
<1>9. queue.size \in 0 .. Capacity /\ queue.size # Capacity
  BY <1>1, <1>4, <1>5 DEF Ring, Filled, InStep
<1>10. \A s : Ahead(s) = Dist(queue.front, s) /\ Ahead(s)' = Dist(queue.front, s)
  BY <1>7 DEF Ahead, Dist
<1>11. Dist(queue.front, r) = queue.size
  <2>1. Dist(queue.front, queue.rear)
           = IF queue.size = 0 THEN Capacity - 1 ELSE queue.size - 1
    BY <1>5, <1>10 DEF Ring, Filled
  <2>2. Dist(queue.front, r) = IF Dist(queue.front, queue.rear) = Capacity - 1 THEN 0
                               ELSE Dist(queue.front, queue.rear) + 1
    <3>1. Dist(queue.front, After(queue.rear))
             = IF Dist(queue.front, queue.rear) = Capacity - 1 THEN 0
               ELSE Dist(queue.front, queue.rear) + 1
      <4>1. queue.front \in 0 .. Capacity - 1 /\ queue.rear \in 0 .. Capacity - 1
        BY <1>4
      <4>2. QED BY ONLY <4>1, Dists
    <3>2. QED BY <3>1 DEF r
  <2>3. QED BY <1>4, <1>9, <2>1, <2>2
<1>12. Filled'
  <2>1. Ahead(queue.rear)' = queue.size
    BY <1>7, <1>10, <1>11
  <2>2. QED BY <1>4, <1>8, <1>9, <2>1 DEF Filled
<1>13. \A s \in 0 .. Capacity - 1 : Live(s)' => s = r \/ (Live(s) /\ s # r)
  <2>1. SUFFICES ASSUME NEW s \in 0 .. Capacity - 1, Live(s)', s # r PROVE Live(s)
    OBVIOUS
  <2>2. Dist(queue.front, s) \in 0 .. Capacity - 1 /\ Dist(queue.front, s) # Dist(queue.front, r)
    <3>1. Dist(queue.front, s) \in 0 .. Capacity - 1
      BY <1>4, Dists
    <3>2. Dist(queue.front, s) = Dist(queue.front, r) => s = r
      BY <1>4, <1>6, DistInjective
    <3>3. QED BY <2>1, <3>1, <3>2
  <2>3. Dist(queue.front, s) < queue.size + 1
    BY <1>8, <1>10, <2>1 DEF Live
  <2>4. Dist(queue.front, s) < queue.size
    BY <1>4, <1>11, <2>2, <2>3
  <2>5. QED BY <1>5, <1>10, <2>4 DEF Live
<1>14. /\ queue'.array[r] = mfd
       /\ \A s \in 0 .. Capacity - 1 : s # r => queue'.array[s] = queue.array[s]
  BY <1>4, <1>6, <1>7
<1>15. /\ \A h \in Conns : fd[h] # mfd
       /\ \A s \in 0 .. Capacity - 1 : Live(s) => queue.array[s] # mfd
  BY <1>1 DEF Ring, Fresh
<1>16. Held'
  <2>1. SUFFICES ASSUME NEW s \in 0 .. Capacity - 1, Live(s)'
                 PROVE  /\ queue'.array[s] \in Conns /\ conn[queue'.array[s]] # "idle"
                        /\ \A t \in 0 .. Capacity - 1 :
                              Live(t)' /\ queue'.array[s] = queue'.array[t] => s = t
                        /\ \A h \in Conns : fd[h] # queue'.array[s]
    BY <1>1 DEF Held, Accepted
  <2>2. CASE s = r
    <3>1. \A t \in 0 .. Capacity - 1 : Live(t)' /\ t # r => queue'.array[t] # mfd
      BY <1>13, <1>14, <1>15
    <3>2. QED BY <1>3, <1>14, <1>15, <2>2, <3>1 DEF Accepted
  <2>3. CASE s # r
    <3>1. Live(s) /\ queue'.array[s] = queue.array[s]
      BY <1>13, <1>14, <2>1, <2>3
    <3>2. Accepted(queue.array[s]) /\ \A h \in Conns : fd[h] # queue.array[s]
      BY <1>2, <3>1 DEF Ring, Held, Taking
    <3>3. \A t \in 0 .. Capacity - 1 : Live(t)' /\ queue'.array[s] = queue'.array[t] => s = t
      <4>1. SUFFICES ASSUME NEW t \in 0 .. Capacity - 1, Live(t)',
                            queue'.array[s] = queue'.array[t]
                     PROVE  s = t
        OBVIOUS
      <4>2. t # r
        BY <1>14, <1>15, <3>1, <4>1
      <4>3. Live(t) /\ queue'.array[t] = queue.array[t]
        BY <1>13, <1>14, <4>1, <4>2
      <4>4. QED BY <3>1, <4>1, <4>3 DEF Ring, Held
    <3>4. QED BY <3>1, <3>2, <3>3 DEF Accepted
  <2>4. QED BY <2>2, <2>3
<1>17. InStep' /\ Fresh' /\ OneEach'
  BY <1>1, <1>2, <1>1 DEF Ring, InStep, Fresh, OneEach, Taking
<1>18. QED BY <1>2, <1>12, <1>16, <1>17 DEF Ring

LEMMA EnqueueSizeKeepsRing ==
    ASSUME ThreadsInv, ThreadsInv', Ring, EnqueueLoad \/ EnqueueSize, ~ raced'
    PROVE  Ring'
<1>1. UNCHANGED <<mfd, pc, fd, loaded, conn>>
  BY DEF EnqueueLoad, EnqueueSize, threadVars, peerVars
<1>2. /\ \A h \in Conns : pc[h] \notin Taking
      /\ Alone'
      /\ Content = queue.size + One(mpc \in Adding)
      /\ Content' = queue'.size + One(mpc' \in Adding)
  BY <1>1, MainAlone DEF EnqueueLoad, EnqueueSize
<1>3. queue \in Structs /\ queue' \in Structs
  BY DEF ThreadsInv, Structs
<1>4. queue.size \in Int /\ queue'.size \in Int
  BY <1>3, QueueFields
<1>5. CASE EnqueueLoad
  <2>1. mpc = "enqueueLoad" /\ mpc' = "enqueueSize" /\ msize' = queue.size /\ queue' = queue
    BY <1>5 DEF EnqueueLoad
  <2>2. QED BY <1>1, <1>2, <2>1, RingFrame DEF Ring, InStep, Accepted, Adding
<1>6. CASE EnqueueSize
  <2>1. mpc = "enqueueSize" /\ mpc' = "create" /\ queue' = [queue EXCEPT !.size = msize + 1]
    BY <1>6 DEF EnqueueSize
  <2>2. /\ queue'.front = queue.front /\ queue'.rear = queue.rear
        /\ queue'.array = queue.array /\ queue'.size = queue.size + 1
    BY <1>3, <2>1 DEF Ring, InStep, Structs
  <2>3. Content' = Content
    <3>1. One(mpc \in Adding) = 1 /\ One(mpc' \in Adding) = 0
      BY <2>1 DEF One, Adding
    <3>2. QED BY <1>2, <1>4, <2>2, <3>1
  <2>4. \A s : Ahead(s)' = Ahead(s) /\ (Live(s)' <=> Live(s))
    BY <2>2, <2>3 DEF Ahead, Live
  <2>5. Filled' /\ Fresh' /\ OneEach'
    BY <1>1, <2>1, <2>2, <2>3, <2>4 DEF Ring, Filled, Fresh, OneEach
  <2>6. InStep'
    BY <1>1, <1>2, <2>1 DEF Ring, InStep, Taking
  <2>7. Held'
    BY <1>1, <2>2, <2>4 DEF Ring, Held, Accepted
  <2>8. QED BY <1>2, <2>5, <2>6, <2>7 DEF Ring
<1>7. QED BY <1>5, <1>6

LEMMA AcceptKeepsRing ==
    ASSUME ThreadsInv, TakenAccepted, Ring, NEW c \in Conns, Accept(c)
    PROVE  Ring' /\ raced' = raced
<1>1. /\ mpc = "accept" /\ mpc' = "enqueue" /\ mfd' = c /\ conn[c] = "idle"
      /\ conn' = [conn EXCEPT ![c] = "open"]
      /\ UNCHANGED <<pc, fd, loaded, msize, queue, raced>>
  BY DEF Accept, threadVars
<1>2. /\ \A d \in Conns : Accepted(d) => Accepted(d)'
      /\ ~ Accepted(c)
  BY <1>1 DEF Accepted, ThreadsInv
<1>3. InQueue' = InQueue
  BY <1>1 DEF InQueue
<1>4. Content' = Content
  BY <1>1 DEF Content, One, Adding
<1>5. \A s : Ahead(s)' = Ahead(s) /\ (Live(s)' <=> Live(s))
  BY <1>1, <1>4 DEF Ahead, Live
<1>6. Alone' /\ Filled' /\ InStep' /\ OneEach'
  BY <1>1, <1>3, <1>4, <1>5 DEF Ring, Alone, Filled, InStep, OneEach
<1>7. Held'
  <2>1. \A s \in 0 .. Capacity - 1 : Live(s) => Accepted(queue.array[s])'
    BY <1>1, <1>2 DEF Ring, Held, Accepted
  <2>2. QED BY <1>1, <1>5, <2>1 DEF Ring, Held
<1>8. Fresh'
  <2>1. \A h \in Conns : fd[h] # c
    BY <1>2, ConnsAssumption DEF TakenAccepted
  <2>2. \A s \in 0 .. Capacity - 1 : Live(s) => queue.array[s] # c
    BY <1>2 DEF Ring, Held
  <2>3. QED BY <1>1, <1>5, <2>1, <2>2 DEF Fresh
<1>9. QED BY <1>1, <1>6, <1>7, <1>8 DEF Ring

LEMMA CreateKeepsRing ==
    ASSUME ThreadsInv, Ring, Create
    PROVE  Ring' /\ raced' = raced
<1>1. /\ mpc = "create" /\ mpc' = "accept" /\ UNCHANGED <<fd, loaded, queue, msize, conn, raced>>
      /\ pc' = [pc EXCEPT ![mfd] = "test"]
  BY DEF Create, peerVars
<1>2. mfd \in Conns /\ pc[mfd] = "none" /\ pc \in [Conns -> HandlerLabels]
  BY <1>1 DEF ThreadsInv, Accepted, Serving
<1>3. \A h \in Conns : pc'[h] = pc[h] \/ (pc[h] = "none" /\ pc'[h] = "test")
  BY <1>1, <1>2
<1>4. InQueue' = InQueue
  BY <1>1, <1>3 DEF InQueue
<1>5. Alone'
  BY <1>4 DEF Ring, Alone
<1>6. QED
  BY <1>1, <1>3, <1>5, RingFrame DEF Ring, InStep, Accepted, Adding

\* main before it listens, and freeResources.
LEMMA QuietKeepsRing ==
    ASSUME ThreadsInv, Ring,
           CheckArguments \/ NextCity \/ Probe \/ ReadFile \/ Declare \/ Listen \/ CallFails
           \/ UNCHANGED vars \/ Crash \/ \E a \in Procs : FreeResources(a)
    PROVE  Ring' /\ raced' = raced
<1>1. /\ UNCHANGED <<fd, loaded, queue, msize, mfd, conn, raced>>
      /\ \/ mpc' = mpc
         \/ mpc \in Loading \union Failing \union {"free"}
            /\ mpc' \in Loading \union {"accept", "free", "exit"}
      /\ \A h \in Conns : pc'[h] = pc[h] \/ (pc[h] = "free" /\ pc'[h] = "exit")
  <2>1. CASE Crash \/ \E a \in Procs : FreeResources(a)
    BY <2>1, FreeMoves
  <2>2. CASE ~ (Crash \/ \E a \in Procs : FreeResources(a))
    BY <2>2 DEF CheckArguments, NextCity, Probe, ReadFile, Declare, Listen, CallFails, vars,
       Loading, threadVars, peerVars
  <2>3. QED BY <2>1, <2>2
<1>2. Failing \subseteq {"declare", "listen", "accept", "create"}
  BY FailingAssumption
<1>3. /\ mpc' \in Adding <=> mpc \in Adding
      /\ mpc' \in {"enqueue", "enqueuePut"} => mpc' = mpc
      /\ mpc' = "enqueueSize" => mpc = "enqueueSize"
      /\ mpc' \in {"enqueuePut", "enqueueLoad", "enqueueSize"}
            <=> mpc \in {"enqueuePut", "enqueueLoad", "enqueueSize"}
  BY <1>1, <1>2 DEF Adding, Loading
<1>4. InQueue' = InQueue
  BY <1>1, <1>3 DEF InQueue
<1>5. Alone'
  BY <1>4 DEF Ring, Alone
<1>6. QED BY <1>1, <1>3, <1>5, RingFrame DEF Ring, InStep, Accepted

LEMMA RingInductive ==
    TableTypeOK /\ ThreadsInv /\ AcceptedInv /\ RingInv /\ [Next]_vars => RingInv'
<1> SUFFICES ASSUME TableTypeOK, ThreadsInv, AcceptedInv, RingInv, [Next]_vars,
                    ~ raced', ~ freed'
             PROVE  Ring'
  BY DEF RingInv, Ring, Alone, Filled, InStep, Fresh, Held, OneEach, NobodyShares
<1>1. ThreadsInv' /\ ~ freed
  BY ThreadsInductive, FreedStays
<1>2. TakenAccepted
  BY <1>1, AcceptedNamed
<1>3. ~ raced
  <2>1. CASE Crash \/ \E a \in Procs : FreeResources(a)
    BY <2>1, FreeMoves
  <2>2. CASE ~ (Crash \/ \E a \in Procs : FreeResources(a))
    BY <2>2, Steps DEF MainServes, CheckArguments, NextCity, Probe, ReadFile, Declare, Listen,
       EnqueueTest, EnqueuePut, EnqueueLoad, EnqueueSize, Create, CallFails, Accept, vars, Serve,
       DequeueTest, DequeueItem, DequeueFront, DequeueFrontStore, DequeueSize, DequeueSizeStore,
       Read, Answer, CountLoad, CountStore, Touch
  <2>3. QED BY <2>1, <2>2
<1>4. Ring
  BY <1>1, <1>3, RingNamed
<1>5. ASSUME NEW h \in Conns, Serve(h) PROVE Ring'
  BY <1>1, <1>4, <1>5, DequeueKeepsRing, ServeKeepsRing DEF Serve
<1>6. QED
  BY <1>1, <1>2, <1>4, <1>5, Steps, QuietKeepsRing, AcceptKeepsRing, CreateKeepsRing,
     EnqueueTestKeepsRing, EnqueuePutKeepsRing, EnqueueSizeKeepsRing DEF MainServes

LEMMA RingInitially == Init => RingInv
<1> SUFFICES ASSUME Init PROVE Ring
  BY RingNamed
<1>1. PICK slots \in [0 .. Capacity - 1 -> Memory] : queue = createQueue(Capacity, slots)
  BY DEF Init
<1>2. /\ queue.rear = Capacity - 1 /\ queue.size = 0 /\ queue.front = 0
      /\ mpc = "arguments" /\ Capacity \in Nat /\ Capacity > 0
      /\ \A h \in Conns : pc[h] = "none" /\ fd[h] = NoItem
  BY <1>1, ConnsAssumption DEF createQueue, Init
<1>3. Content = 0
  BY <1>2 DEF Content, One, Adding
<1>4. \A s \in 0 .. Capacity - 1 : Ahead(s) = s
  BY <1>2 DEF Ahead
<1>5. Filled /\ \A s \in 0 .. Capacity - 1 : ~ Live(s)
  BY <1>2, <1>3, <1>4 DEF Filled, Live
<1>6. InQueue = {}
  BY <1>2 DEF InQueue
<1>7. QED BY <1>2, <1>5, <1>6 DEF Ring, Alone, InStep, Fresh, Held, OneEach

ServantInv == TableKept /\ ThreadsInv /\ AcceptedInv /\ CountInv /\ RingInv

LEMMA InjectionCount ==
    ASSUME NEW S, NEW T, IsFiniteSet(T), NEW f \in [S -> T],
           \A a, b \in S : f[a] = f[b] => a = b
    PROVE  Cardinality(S) <= Cardinality(T)
<1>1. f \in Injection(S, T)
  BY DEF Injection, IsInjective
<1>2. QED BY <1>1, FS_Injection

LEMMA ServantInvGives == ServantInv => ConnectionsAccounted
<1> SUFFICES ASSUME ServantInv PROVE ConnectionsAccounted
  OBVIOUS
<1> USE DEF ServantInv
<1>1. /\ CountedCount \in Nat /\ Cardinality(Conns) \in Nat
      /\ CountedCount <= Cardinality(Conns) /\ Cardinality(Answered) \in Nat
  <2>1. Counted \in SUBSET Conns /\ Conns \in SUBSET Conns /\ Counted \subseteq Conns
        /\ Answered \in SUBSET Conns
    BY DEF Counted, Answered
  <2>2. QED BY <2>1, CountOne DEF CountedCount
<1>2. handledRequestNum \in 0 .. CountedCount
  BY DEF CountInv, CountedCount
<1>3. NobodyShares
  BY DEF RingInv, NobodyShares
<1>4. CountNeverAhead
  <2>1. handledRequestNum <= CountedCount
    BY <1>1, <1>2
  <2>2. ASSUME ~ raced, ~ freed PROVE CountedCount <= Cardinality(Answered)
    <3> DEFINE f == [h \in Counted |-> fd[h]]
    <3>1. f \in [Counted -> Answered]
      BY DEF CountInv
    <3>2. \A h, k \in Counted : f[h] = f[k] => h = k
      BY <1>3, <2>2 DEF NobodyShares, Counted
    <3>3. IsFiniteSet(Answered)
      <4>1. Answered \in SUBSET Conns
        BY DEF Answered
      <4>2. QED BY <4>1, FS_Subset, ConnsAssumption
    <3> HIDE DEF f
    <3>4. QED BY <3>1, <3>2, <3>3, InjectionCount DEF CountedCount
  <2>3. QED BY <1>1, <1>2, <2>1, <2>2 DEF CountNeverAhead, CountedCount
<1>5. TypeOK
  <2>1. handledRequestNum \in 0 .. Cardinality(Conns)
    BY <1>1, <1>2, NatInterval
  <2>2. /\ range \in Ranges /\ hashCode \in HashCodes /\ mslot \in Slots
        /\ hashArray \in [Slots -> [key : Names, data : SUBSET Entries] \union {Empty}]
    BY DEF TableKept, TableTypeOK, Items
  <2>3. mindex \in range.start .. range.end + 1
    <3>1. range.start \in Nat /\ range.end \in Nat
      BY <2>2, RangesAssumption
    <3>2. QED BY <3>1 DEF TableKept, TableTypeOK
  <2>4. queue.front \in 0 .. Capacity - 1 /\ queue.size \in Int
    BY QueueFields DEF ThreadsInv, Structs
  <2>5. /\ mpc \in Loading \union Serving \union Leaving
        /\ exit \in {"no", "success", "killed"}
        /\ fd \in [Conns -> Conns \union Memory \union {NoItem}] /\ declared \in SUBSET Names
    BY DEF ThreadsInv
  <2>6. QED
    BY <2>1, <2>2, <2>3, <2>4, <2>5 DEF TypeOK, Loading, Serving, Adding, Leaving
<1>6. TakesAccepted
  BY AcceptedNamed DEF TakesAccepted, TakenAccepted, Accepted
<1>7. QED BY <1>3, <1>4, <1>5, <1>6 DEF ConnectionsAccounted

LEMMA ServantInductive == ServantInv /\ [Next]_vars => ServantInv'
<1> SUFFICES ASSUME ServantInv, [Next]_vars PROVE ServantInv'
  OBVIOUS
<1>1. TableTypeOK
  BY DEF ServantInv, TableKept
<1>2. QED
  BY <1>1, TableInductive, ThreadsInductive, AcceptedInductive, CountInductive, RingInductive
  DEF ServantInv

LEMMA ServantInitially == Init => ServantInv
BY TableInitially, ThreadsInitially, AcceptedInitially, CountInitially, RingInitially
DEF ServantInv

(***************************************************************************)
(* For any number of peers and any capacity of the queue, whatever their   *)
(* messages and however the steps of enqueue, dequeue, handledRequestNum++ *)
(* and freeResources interleave (servantHandler and main of servant.c):    *)
(* until the queue is freed a thread serves only a descriptor that accept  *)
(* returned, and nobody shares one before two were in the queue at a time; *)
(* the number printed is never above the number of threads that answered   *)
(* and counted, nor - before a race, and before the queue is freed - above *)
(* the number of connections that were answered.                           *)
(***************************************************************************)
THEOREM EveryConnectionAccounted == Spec => []ConnectionsAccounted
<1>1. ServantInv => ConnectionsAccounted
  BY ServantInvGives
<1>2. QED BY <1>1, ServantInitially, ServantInductive, PTL DEF Spec
-----------------------------------------------------------------------------
(***************************************************************************)
(* What a peer is answered: what the two functions that count give once    *)
(* the table is loaded.                                                    *)
(***************************************************************************)
LEMMA LeastElement ==
    ASSUME NEW T \in SUBSET Nat, T # {}
    PROVE  \E m \in T : \A k \in T : m <= k
<1> DEFINE R == OpToRel(<, Nat)
<1>1. IsWellFoundedOn(R, Nat)
  BY NatLessThanWellFounded
<1>2. \A i, j \in Nat : i < j => <<i, j>> \in R
  BY DEF OpToRel
<1> HIDE DEF R
<1>3. PICK m \in T : \A k \in T : ~ (<<k, m>> \in R)
  BY <1>1, WFMin
<1>4. ASSUME NEW k \in T PROVE m <= k
  <2>1. m \in Nat /\ k \in Nat
    OBVIOUS
  <2>2. ~ (k < m)
    BY <1>2, <1>3, <2>1
  <2>3. QED BY <2>1, <2>2
<1>5. QED BY <1>4

\* The table is never full: every key in it is of another city of the range.
LEMMA RoomLeft ==
    ASSUME TableInv, mpc # "file"
    PROVE  \E s \in Slots : ~ Taken(s)
<1> DEFINE last == mindex - 1
           I == range.start .. last
           f == [s \in Slots |-> CHOOSE i \in I : hashArray[s].key = cities[i]]
<1>1. /\ range.start \in Nat \ {0} /\ range.end \in Nat /\ mindex \in Nat
      /\ mindex <= range.end + 1 /\ mindex >= range.start
      /\ range.end - range.start + 1 < tableSize /\ tableSize \in Nat \ {0}
  BY LoopFacts, RangesAssumption, HashAssumption DEF TableInv, TableTypeOK
<1>2. IsFiniteSet(I) /\ Cardinality(I) < tableSize
  <2>1. range.start \in Int /\ last \in Int
    BY <1>1
  <2> HIDE DEF last
  <2>2. /\ IsFiniteSet(I)
        /\ Cardinality(I) = IF range.start > last THEN 0 ELSE last - range.start + 1
    BY <2>1, FS_Interval
  <2>3. QED BY <1>1, <2>2 DEF last
<1>3. Cardinality(Slots) = tableSize
  <2>1. Cardinality(0 .. tableSize - 1) = IF 0 > tableSize - 1 THEN 0
                                          ELSE (tableSize - 1) - 0 + 1
    BY <1>1, FS_Interval
  <2>2. QED BY <1>1, <2>1 DEF Slots
<1>4. SUFFICES ASSUME \A s \in Slots : Taken(s) PROVE FALSE
  OBVIOUS
<1>5. \A s \in Slots : \E i \in I : hashArray[s].key = cities[i]
  <2>1. ASSUME NEW s \in Slots PROVE \E i \in I : hashArray[s].key = cities[i]
    <3>1. PICK i \in range.start .. mindex : hashArray[s].key = cities[i] /\ i # mindex
      BY <1>4 DEF TableInv, KeysInPlace, InPlace
    <3>2. QED BY <1>1, <3>1
  <2>2. QED BY <2>1
<1>6. \A s \in Slots : f[s] \in I /\ hashArray[s].key = cities[f[s]]
  BY <1>5
<1>7. \A s, t \in Slots : f[s] = f[t] => s = t
  <2>1. \A s, t \in Slots : hashArray[t].key = hashArray[s].key => t = s
    BY <1>4 DEF TableInv, KeysInPlace, InPlace
  <2>2. QED BY <1>6, <2>1
<1>8. f \in [Slots -> I]
  BY <1>6
<1> HIDE DEF f, I
<1>9. Cardinality(Slots) <= Cardinality(I)
  BY <1>2, <1>7, <1>8, InjectionCount
<1>10. Cardinality(I) \in Nat
  BY <1>2, FS_CardinalityType
<1>11. QED BY <1>1, <1>2, <1>3, <1>9, <1>10

\* The slot a search that begins at h comes to after d steps.
At(h, d) == IF h + d < tableSize THEN h + d ELSE h + d - tableSize

LEMMA Steppings ==
    ASSUME NEW h \in Slots
    PROVE  /\ \A d \in Slots : At(h, d) \in Slots
           /\ \A s \in Slots : \E d \in Slots : At(h, d) = s
           /\ \A d \in Slots : \A p \in Before(h, At(h, d)) :
                 p \in Slots /\ \E e \in 0 .. d - 1 : At(h, e) = p
<1>1. tableSize \in Nat /\ tableSize > 0 /\ h \in Nat /\ h < tableSize
      /\ \A s : s \in Slots <=> s \in Nat /\ s < tableSize
  BY HashAssumption DEF Slots
<1>2. \A d \in Slots : At(h, d) \in Slots
  BY <1>1 DEF At
<1>3. ASSUME NEW s \in Slots PROVE \E d \in Slots : At(h, d) = s
  <2>1. CASE h <= s
    <3>1. s - h \in Slots /\ At(h, s - h) = s
      BY <1>1, <2>1 DEF At
    <3>2. QED BY <3>1
  <2>2. CASE ~ (h <= s)
    <3>1. s - h + tableSize \in Slots /\ At(h, s - h + tableSize) = s
      BY <1>1, <2>2 DEF At
    <3>2. QED BY <3>1
  <2>3. QED BY <2>1, <2>2
<1>4. ASSUME NEW d \in Slots, NEW p \in Before(h, At(h, d))
      PROVE  p \in Slots /\ \E e \in 0 .. d - 1 : At(h, e) = p
  <2>1. d \in Nat /\ d < tableSize
    BY <1>1
  <2>2. CASE h + d < tableSize
    <3>1. p \in h .. h + d - 1
      BY <1>1, <2>1, <2>2 DEF At, Before
    <3>2. p - h \in 0 .. d - 1 /\ At(h, p - h) = p /\ p \in Slots
      BY <1>1, <2>1, <2>2, <3>1 DEF At
    <3>3. QED BY <3>2
  <2>3. CASE ~ (h + d < tableSize)
    <3>1. At(h, d) = h + d - tableSize /\ ~ (h <= At(h, d))
      BY <1>1, <2>1, <2>3 DEF At
    <3>2. p \in h .. tableSize - 1 \/ p \in 0 .. h + d - tableSize - 1
      <4> DEFINE t == At(h, d)
      <4>1. t = h + d - tableSize /\ ~ (h <= t)
        BY <3>1
      <4>2. p \in Before(h, t)
        BY <1>4
      <4> HIDE DEF t
      <4>3. p \in (h .. tableSize - 1) \union (0 .. t - 1)
        BY <4>1, <4>2 DEF Before
      <4>4. QED BY <1>1, <2>1, <4>1, <4>3
    <3>3. CASE p \in h .. tableSize - 1
      <4>1. p - h \in 0 .. d - 1 /\ At(h, p - h) = p /\ p \in Slots
        BY <1>1, <2>1, <2>3, <3>3 DEF At
      <4>2. QED BY <4>1
    <3>4. CASE p \in 0 .. h + d - tableSize - 1
      <4>1. /\ p - h + tableSize \in 0 .. d - 1 /\ At(h, p - h + tableSize) = p
            /\ p \in Slots
        BY <1>1, <2>1, <2>3, <3>4 DEF At
      <4>2. QED BY <4>1
    <3>5. QED BY <3>2, <3>3, <3>4
  <2>4. QED BY <2>2, <2>3
<1>5. QED BY <1>2, <1>3, <1>4

\* A search for a key that is nowhere ends in an empty slot, the first from
\* its hash code on.
LEMMA SearchMisses ==
    ASSUME hashArray \in [Slots -> Items \union {Empty}],
           NEW key \in Names, hashCode[key] \in Slots,
           \A t \in Slots : Taken(t) => hashArray[t].key # key,
           \E s \in Slots : ~ Taken(s)
    PROVE  search(key) = Empty
<1> DEFINE h == hashCode[key]
           Ends(x) == /\ StopsAt(key, x)
                      /\ \A p \in Before(h, x) : ~ StopsAt(key, p)
           Free == {d \in Slots : ~ Taken(At(h, d))}
<1>1. \A t \in Slots : StopsAt(key, t) <=> ~ Taken(t)
  BY CitiesAssumption DEF StopsAt, Taken, Empty
<1>2. Free \in SUBSET Nat /\ Free # {}
  <2>1. Slots \subseteq Nat
    BY HashAssumption DEF Slots
  <2>2. QED BY <2>1, Steppings
<1>3. PICK m \in Free : \A k \in Free : m <= k
  BY <1>2, LeastElement
<1>4. m \in Slots /\ At(h, m) \in Slots /\ ~ Taken(At(h, m))
  BY <1>3, Steppings
<1>5. Ends(At(h, m))
  <2>1. ASSUME NEW p \in Before(h, At(h, m)) PROVE ~ StopsAt(key, p)
    <3>1. p \in Slots /\ \E e \in 0 .. m - 1 : At(h, e) = p
      <4>1. \A d \in Slots : \A q \in Before(h, At(h, d)) :
                q \in Slots /\ \E e \in 0 .. d - 1 : At(h, e) = q
        BY Steppings
      <4>2. QED BY <1>4, <2>1, <4>1
    <3>2. PICK e \in 0 .. m - 1 : At(h, e) = p
      BY <3>1
    <3>3. e \in Slots /\ ~ (m <= e)
      BY <1>4, <3>2, HashAssumption DEF Slots
    <3>4. Taken(p)
      BY <1>3, <3>2, <3>3
    <3>5. QED BY <1>1, <3>1, <3>4
  <2>2. QED BY <1>1, <1>4, <2>1
<1> HIDE DEF Free
<1>6. searchSlot(key) \in Slots /\ StopsAt(key, searchSlot(key))
  BY <1>4, <1>5 DEF searchSlot
<1>7. QED BY <1>1, <1>6 DEF search, Taken

\* compareDate is the order of the calendar.
LEMMA CompareIsOrder ==
    ASSUME NEW a \in Dates, NEW b \in Dates
    PROVE  /\ compareDate(a, b) < 0 <=> Day(a) < Day(b)
           /\ compareDate(a, b) >= 0 <=> Day(b) <= Day(a)
           /\ Day(a) \in Nat
<1>1. /\ a.year \in Nat /\ a.month \in 1 .. 12 /\ a.day \in 1 .. 31
      /\ b.year \in Nat /\ b.month \in 1 .. 12 /\ b.day \in 1 .. 31
  BY DEF Dates
<1>2. Day(a) \in Nat /\ Day(b) \in Nat
  <2>1. \A y, m, d \in Nat : (y * 12 + m) * 31 + d \in Nat
    OBVIOUS
  <2>2. /\ a.month \in Nat /\ a.day \in Nat
        /\ b.month \in Nat /\ b.day \in Nat
    BY <1>1
  <2>3. QED BY <1>1, <2>1, <2>2 DEF Day
<1>3. Day(a) < Day(b) <=> \/ a.year < b.year
                          \/ a.year = b.year /\ a.month < b.month
                          \/ a.year = b.year /\ a.month = b.month /\ a.day < b.day
  <2>1. PICK y1 \in Nat, m1 \in 1 .. 12, d1 \in 1 .. 31 :
            y1 = a.year /\ m1 = a.month /\ d1 = a.day
    BY <1>1
  <2>2. PICK y2 \in Nat, m2 \in 1 .. 12, d2 \in 1 .. 31 :
            y2 = b.year /\ m2 = b.month /\ d2 = b.day
    BY <1>1
  <2>3. (y1 * 12 + m1) * 31 + d1 < (y2 * 12 + m2) * 31 + d2
            <=> \/ y1 < y2
                \/ y1 = y2 /\ m1 < m2
                \/ y1 = y2 /\ m1 = m2 /\ d1 < d2
    OBVIOUS
  <2>4. Day(a) = (y1 * 12 + m1) * 31 + d1 /\ Day(b) = (y2 * 12 + m2) * 31 + d2
    BY <2>1, <2>2 DEF Day
  <2>5. QED BY <2>1, <2>2, <2>3, <2>4
<1>4. compareDate(a, b) \in {-1, 0, 1}
      /\ (compareDate(a, b) = -1 <=> \/ a.year < b.year
                                     \/ a.year = b.year /\ a.month < b.month
                                     \/ /\ a.year = b.year /\ a.month = b.month
                                        /\ a.day < b.day)
  BY <1>1 DEF compareDate
<1>5. QED BY <1>2, <1>3, <1>4

Wanted(e, req) ==
    /\ e.real_estate = req.field
    /\ Day(e.date) \in Day(req.start) .. Day(req.end) - 1

LEMMA MatchingWanted ==
    ASSUME NEW data \in SUBSET Entries, NEW req, req.start \in Dates, req.end \in Dates
    PROVE  Matching(data, req) = {e \in data : Wanted(e, req)}
<1>1. ASSUME NEW e \in data
      PROVE  (/\ compareDate(e.date, req.start) >= 0
              /\ e.real_estate = req.field
              /\ compareDate(e.date, req.end) < 0) <=> Wanted(e, req)
  <2>1. e.date \in Dates
    BY DatesAssumption
  <2>2. /\ compareDate(e.date, req.start) >= 0 <=> Day(req.start) <= Day(e.date)
        /\ compareDate(e.date, req.end) < 0 <=> Day(e.date) < Day(req.end)
        /\ Day(e.date) \in Nat /\ Day(req.start) \in Nat /\ Day(req.end) \in Nat
    BY <2>1, CompareIsOrder
  <2>3. QED BY <2>2 DEF Wanted
<1>2. QED BY <1>1 DEF Matching

LEMMA SameSize ==
    ASSUME NEW S, NEW T, IsFiniteSet(S), NEW f \in [S -> T],
           \A a, b \in S : f[a] = f[b] => a = b,
           \A t \in T : \E s \in S : f[s] = t
    PROVE  Cardinality(S) = Cardinality(T)
<1>1. f \in Surjection(S, T) /\ f \in Injection(S, T)
  BY DEF Surjection, Injection, IsInjective
<1>2. QED BY <1>1, FS_Surjection

\* What the table holds once every city of the range is loaded.
LEMMA TableLoaded ==
    ASSUME TableInv, ~ overwritten, mpc # "file"
    PROVE  /\ hashArray \in [Slots -> Items \union {Empty}] /\ hashCode \in [Names -> Slots]
           /\ Loaded \subseteq Names
           /\ \A s \in Slots : Taken(s) =>
                 /\ hashArray[s].key \in Loaded
                 /\ hashArray[s].data = Dataset[hashArray[s].key]
                 /\ \A t \in Slots :
                       (Taken(t) /\ hashArray[t].key = hashArray[s].key) => t = s
           /\ \A n \in Loaded : \E s \in Slots :
                 Taken(s) /\ hashArray[s].key = n /\ hashArray[s].data = Dataset[n]
<1>1. hashArray \in [Slots -> Items \union {Empty}] /\ hashCode \in [Names -> Slots]
      /\ range.start \in Nat \ {0} /\ range.end \in Nat /\ mindex \in Nat
      /\ mindex <= range.end + 1 /\ mindex >= range.start
  BY LoopFacts DEF TableInv, TableTypeOK
<1>2. ASSUME NEW i \in range.start .. mindex - 1 PROVE cities[i] \in Names
  <2>1. i \in Nat \ {0} /\ i <= Len(cities)
    BY <1>1, <1>2, CitiesAssumption DEF TableInv, TableTypeOK
  <2>2. QED BY <2>1, CityNames
<1>3. Loaded \subseteq Names
  BY <1>2 DEF Loaded
<1>4. ASSUME NEW n \in Loaded
      PROVE  \E s \in Slots :
                Taken(s) /\ hashArray[s].key = n /\ hashArray[s].data = Dataset[n]
  <2>1. PICK i \in range.start .. mindex - 1 : n = cities[i]
    BY DEF Loaded
  <2>2. PICK s \in Slots : hashArray[s] = [key |-> n, data |-> Dataset[n]]
    BY <2>1 DEF TableInv, AllHeld, Holds
  <2>3. Taken(s)
    BY <1>3, <2>2, CitiesAssumption DEF Taken, Empty
  <2>4. QED BY <2>2, <2>3
<1>5. ASSUME NEW s \in Slots, Taken(s)
      PROVE  /\ hashArray[s].key \in Loaded
             /\ \A t \in Slots :
                   (Taken(t) /\ hashArray[t].key = hashArray[s].key) => t = s
  <2>1. /\ \E i \in range.start .. mindex :
              hashArray[s].key = cities[i] /\ i # mindex
        /\ \A t \in Slots :
              (Taken(t) /\ hashArray[t].key = hashArray[s].key) => t = s
    BY <1>5 DEF TableInv, KeysInPlace, InPlace
  <2>2. \E i \in range.start .. mindex - 1 : hashArray[s].key = cities[i]
    BY <1>1, <2>1
  <2>3. QED BY <2>1, <2>2 DEF Loaded
<1>6. ASSUME NEW s \in Slots, Taken(s)
      PROVE  hashArray[s].data = Dataset[hashArray[s].key]
  <2>1. hashArray[s].key \in Loaded
    BY <1>5, <1>6
  <2>2. PICK t \in Slots : /\ Taken(t) /\ hashArray[t].key = hashArray[s].key
                           /\ hashArray[t].data = Dataset[hashArray[s].key]
    BY <1>4, <2>1
  <2>3. t = s
    BY <1>5, <1>6, <2>2
  <2>4. QED BY <2>2, <2>3
<1>7. QED BY <1>1, <1>3, <1>4, <1>5, <1>6

ExpectedSet(req) ==
    {x \in Loaded \X Entries :
        /\ req.city \in {x[1], "ALL"} /\ x[2] \in Dataset[x[1]] /\ Wanted(x[2], req)}

LEMMA ExpectedNamed == \A req : Expected(req) = Cardinality(ExpectedSet(req))
BY DEF Expected, ExpectedSet, Wanted

\* findCities, and findAllCities: a city's entries are counted in its slot.
LEMMA CountsOneCity ==
    ASSUME TableInv, ~ overwritten, mpc # "file", NEW req, req.city \in Names,
           req.city # "ALL", req.start \in Dates, req.end \in Dates
    PROVE  findCities(req) = Expected(req)
<1> DEFINE city == req.city
<1>1. CASE city \in Loaded
  <2>1. search(city) = [key |-> city, data |-> Dataset[city]]
    BY <1>1, TableInvFindsCities
  <2>2. search(city) # Empty /\ search(city).data = Dataset[city]
    BY <2>1, CitiesAssumption DEF Empty
  <2>3. Dataset[city] \in SUBSET Entries
    BY DEF Entries
  <2> DEFINE M == Matching(Dataset[city], req)
             f == [e \in M |-> <<city, e>>]
  <2>4. findCities(req) = Cardinality(M)
    BY <2>2 DEF findCities
  <2>5. M = {e \in Dataset[city] : Wanted(e, req)}
    BY <2>3, MatchingWanted
  <2>6. IsFiniteSet(M)
    <3>1. M \in SUBSET Entries
      BY <2>3, <2>5
    <3>2. QED BY <3>1, FS_Subset, DatesAssumption
  <2>7. \A e \in M : <<city, e>> \in ExpectedSet(req)
    BY <1>1, <2>3, <2>5 DEF ExpectedSet
  <2>8. \A x \in ExpectedSet(req) : x[2] \in M /\ x = <<city, x[2]>>
    BY <2>5 DEF ExpectedSet
  <2> HIDE DEF M
  <2>9. Cardinality(M) = Cardinality(ExpectedSet(req))
    <3>1. f \in [M -> ExpectedSet(req)]
      BY <2>7
    <3>2. \A a, b \in M : f[a] = f[b] => a = b
      OBVIOUS
    <3>3. \A x \in ExpectedSet(req) : \E e \in M : f[e] = x
      BY <2>8
    <3> HIDE DEF f
    <3>4. QED BY <2>6, <3>1, <3>2, <3>3, SameSize
  <2>10. QED BY <2>4, <2>9, ExpectedNamed
<1>2. CASE city \notin Loaded
  <2>1. search(city) = Empty
    <3>1. /\ hashArray \in [Slots -> Items \union {Empty}] /\ hashCode[city] \in Slots
          /\ \A t \in Slots : Taken(t) => hashArray[t].key # city
      BY <1>2, TableLoaded
    <3>2. QED BY <3>1, SearchMisses, RoomLeft
  <2>2. ExpectedSet(req) = {}
    BY <1>2 DEF ExpectedSet
  <2>3. QED BY <2>1, <2>2, ExpectedNamed, FS_EmptySet DEF findCities
<1>3. QED BY <1>1, <1>2

LEMMA CountsAllCities ==
    ASSUME TableInv, ~ overwritten, mpc # "file", NEW req, req.city = "ALL",
           req.start \in Dates, req.end \in Dates
    PROVE  findAllCities(req) = Expected(req)
<1> DEFINE Found == {x \in Slots \X Entries :
                        /\ hashArray[x[1]] # Empty
                        /\ x[2] \in Matching(hashArray[x[1]].data, req)}
           f == [x \in Found |-> <<hashArray[x[1]].key, x[2]>>]
<1>1. findAllCities(req) = Cardinality(Found)
  BY DEF findAllCities
<1>2. /\ \A s \in Slots : Taken(s) =>
            /\ hashArray[s].key \in Loaded
            /\ hashArray[s].data = Dataset[hashArray[s].key]
            /\ \A t \in Slots :
                  (Taken(t) /\ hashArray[t].key = hashArray[s].key) => t = s
      /\ \A n \in Loaded : \E s \in Slots :
            Taken(s) /\ hashArray[s].key = n /\ hashArray[s].data = Dataset[n]
      /\ Loaded \subseteq Names
  BY TableLoaded
<1>3. \A n \in Names : /\ Dataset[n] \in SUBSET Entries
                       /\ Matching(Dataset[n], req) = {e \in Dataset[n] : Wanted(e, req)}
  <2>1. \A n \in Names : Dataset[n] \in SUBSET Entries
    BY DEF Entries
  <2>2. QED BY <2>1, MatchingWanted
<1>4. \A s \in Slots, e \in Entries :
          <<s, e>> \in Found <=> /\ Taken(s)
                                 /\ e \in Dataset[hashArray[s].key] /\ Wanted(e, req)
  BY <1>2, <1>3 DEF Taken
<1>5. \A x \in Found : x[1] \in Slots /\ x[2] \in Entries /\ x = <<x[1], x[2]>>
  OBVIOUS
<1>6. IsFiniteSet(Found)
  <2>1. IsFiniteSet(Slots)
    BY FS_Interval, HashAssumption DEF Slots
  <2>2. IsFiniteSet(Slots \X Entries)
    BY <2>1, FS_Product, DatesAssumption
  <2>3. Found \in SUBSET (Slots \X Entries)
    OBVIOUS
  <2> HIDE DEF Found
  <2>4. QED BY <2>2, <2>3, FS_Subset
<1> HIDE DEF Found
<1>7. \A x \in Found : <<hashArray[x[1]].key, x[2]>> \in ExpectedSet(req)
  BY <1>2, <1>4, <1>5 DEF ExpectedSet
<1>8. \A a, b \in Found :
          hashArray[a[1]].key = hashArray[b[1]].key /\ a[2] = b[2] => a = b
  BY <1>2, <1>4, <1>5
<1>9. \A y \in ExpectedSet(req) : \E x \in Found : <<hashArray[x[1]].key, x[2]>> = y
  <2>1. SUFFICES ASSUME NEW y \in ExpectedSet(req)
                 PROVE  \E x \in Found : <<hashArray[x[1]].key, x[2]>> = y
    OBVIOUS
  <2>2. /\ y[1] \in Loaded /\ y[2] \in Entries /\ y = <<y[1], y[2]>>
        /\ y[2] \in Dataset[y[1]] /\ Wanted(y[2], req)
    BY DEF ExpectedSet
  <2>3. PICK s \in Slots :
            Taken(s) /\ hashArray[s].key = y[1] /\ hashArray[s].data = Dataset[y[1]]
    BY <1>2, <2>2
  <2>4. <<s, y[2]>> \in Found
    BY <1>4, <2>2, <2>3
  <2>5. QED BY <2>2, <2>3, <2>4
<1>10. Cardinality(Found) = Cardinality(ExpectedSet(req))
  <2>1. f \in [Found -> ExpectedSet(req)]
    BY <1>7
  <2>2. \A a, b \in Found : f[a] = f[b] => a = b
    BY <1>8
  <2>3. \A y \in ExpectedSet(req) : \E x \in Found : f[x] = y
    BY <1>9
  <2> HIDE DEF f
  <2>4. QED BY <1>6, <2>1, <2>2, <2>3, SameSize
<1>11. QED BY <1>1, <1>10, ExpectedNamed

\* A step that leaves the answers and the loading alone, in any thread.
LEMMA AnswersStay ==
    ASSUME AnswerInv, UNCHANGED <<loadVars, reply>>,
           InFreeResources \subseteq InFreeResources',
           mpc' \in Loading => mpc \in Loading,
           \A h \in Conns :
              (pc'[h] = "answer" /\ Sends[fd'[h]].type = "CLIENT_REQUEST")
                 => temp'[h] = Sends[fd'[h]] \/ reply[fd'[h]] # NoReply
    PROVE  AnswerInv'
<1>1. \A req : Expected(req)' = Expected(req)
  BY DEF Expected, Loaded, loadVars
<1>2. InFreeResources # {} => InFreeResources' # {}
  OBVIOUS
<1>3. AnswersRight'
  BY <1>1, <1>2 DEF AnswerInv, AnswersRight, loadVars
<1>4. mpc' \in Loading => \A c \in Conns : reply'[c] = NoReply
  BY DEF AnswerInv
<1>5. QED BY <1>3, <1>4 DEF AnswerInv

\* A request is counted in the table, or while it is emptied; whatever else
\* a thread does leaves the answers alone.
LEMMA HandlerKeepsAnswers ==
    ASSUME TableKept, ThreadsInv, AnswerInv, NEW h \in Conns, Serve(h), [Next]_vars
    PROVE  AnswerInv'
<1>1. /\ UNCHANGED <<tableVars, mpc>> /\ mpc \notin Loading
      /\ pc \in [Conns -> HandlerLabels] /\ pc' \in [Conns -> HandlerLabels]
      /\ \A k \in Conns \ {h} : pc'[k] = pc[k] /\ fd'[k] = fd[k] /\ temp'[k] = temp[k]
      /\ DOMAIN temp = Conns /\ DOMAIN reply = Conns
  BY HandlerMoves DEF ThreadsInv
<1>2. \A k \in Conns : (pc[k] = "answer" /\ Sends[fd[k]].type = "CLIENT_REQUEST")
                          => temp[k] = Sends[fd[k]] \/ reply[fd[k]] # NoReply
  BY DEF AnswerInv
<1>3. InFreeResources \subseteq InFreeResources'
  BY FreeingStays
<1>4. CASE Read(h)
  <2>1. fd' = fd /\ reply' = reply
    BY <1>4 DEF Read
  <2>2. ASSUME pc'[h] = "answer", Sends[fd[h]].type = "CLIENT_REQUEST"
        PROVE  temp'[h] = Sends[fd[h]] \/ reply[fd[h]] # NoReply
    <3>1. /\ fd[h] \in unread \/ PeerClosed(fd[h])
          /\ temp' = IF fd[h] \in unread /\ Sends[fd[h]] # NoMessage
                     THEN [temp EXCEPT ![h] = Sends[fd[h]]] ELSE temp
      BY <1>1, <1>4, <2>2 DEF Read, Goto
    <3>2. Sends[fd[h]] # NoMessage
      BY <2>2 DEF NoMessage
    <3>3. QED BY <1>1, <2>2, <3>1, <3>2 DEF PeerClosed
  <2>3. QED BY <1>1, <1>2, <1>3, <2>1, <2>2, AnswersStay DEF tableVars
<1>5. CASE Answer(h) /\ reply' # reply
  <2> DEFINE c == fd[h]
             n == Total(temp[h])
  <2>1. /\ pc[h] = "answer" /\ pc'[h] = "count" /\ fd' = fd /\ temp' = temp
        /\ reply' = [reply EXCEPT ![c] = n] /\ reply[c] = NoReply
    BY <1>1, <1>5 DEF Answer, Goto
  <2>2. c \in Conns
    BY <2>1 DEF ThreadsInv
  <2>3. ASSUME ~ overwritten, Sends[c].type = "CLIENT_REQUEST"
        PROVE  n = Expected(Sends[c]) \/ (n = Anything /\ InFreeResources # {})
    <3>1. temp[h] = Sends[c]
      BY <1>2, <2>1, <2>3
    <3>2. /\ temp[h].city \in Names \union {"ALL"}
          /\ temp[h].start \in Dates /\ temp[h].end \in Dates
      BY <2>2, <2>3, <3>1, DatesAssumption
    <3>3. mpc # "file"
      BY <1>1 DEF Loading
    <3>4. CASE InFreeResources # {}
      BY <3>4 DEF Total
    <3>5. CASE InFreeResources = {}
      <4>1. TableInv
        BY <3>5 DEF TableKept
      <4>2. CASE temp[h].city = "ALL"
        <5>1. n = findAllCities(temp[h])
          BY <3>5, <4>2 DEF Total
        <5>2. QED BY <2>3, <3>1, <3>2, <3>3, <4>1, <4>2, <5>1, CountsAllCities
      <4>3. CASE temp[h].city # "ALL"
        <5>1. n = findCities(temp[h])
          BY <3>5, <4>3 DEF Total
        <5>2. QED BY <2>3, <3>1, <3>2, <3>3, <4>1, <4>3, <5>1, CountsOneCity
      <4>4. QED BY <4>2, <4>3
    <3>6. QED BY <3>4, <3>5
  <2> HIDE DEF n
  <2>4. reply'[c] = n /\ \A d \in Conns \ {c} : reply'[d] = reply[d]
    BY <1>1, <2>1, <2>2
  <2>5. AnswersRight'
    <3>1. overwritten' = overwritten /\ \A req : Expected(req)' = Expected(req)
      BY <1>1 DEF Expected, Loaded, tableVars, loadVars
    <3>2. InFreeResources # {} => InFreeResources' # {}
      BY <1>3
    <3>3. ASSUME ~ overwritten, NEW d \in Conns, reply'[d] # NoReply,
                 Sends[d].type = "CLIENT_REQUEST"
          PROVE  \/ reply'[d] = Expected(Sends[d])
                 \/ reply'[d] = Anything /\ InFreeResources # {}
      <4>1. CASE d = c
        BY <2>3, <2>4, <3>3, <4>1
      <4>2. CASE d # c
        BY <2>4, <3>3, <4>2 DEF AnswerInv, AnswersRight
      <4>3. QED BY <4>1, <4>2
    <3>4. QED BY <3>1, <3>2, <3>3 DEF AnswersRight
  <2>6. \A k \in Conns : (pc'[k] = "answer" /\ Sends[fd'[k]].type = "CLIENT_REQUEST")
                            => temp'[k] = Sends[fd'[k]] \/ reply'[fd'[k]] # NoReply
    <3>1. SUFFICES ASSUME NEW k \in Conns, pc'[k] = "answer",
                          Sends[fd[k]].type = "CLIENT_REQUEST", temp[k] # Sends[fd[k]]
                   PROVE  reply'[fd[k]] # NoReply
      BY <2>1
    <3>2. pc[k] = "answer" /\ reply[fd[k]] # NoReply
      BY <1>1, <1>2, <2>1, <3>1
    <3>3. fd[k] \in Conns /\ fd[k] # c
      BY <2>1, <3>2 DEF ThreadsInv
    <3>4. QED BY <2>4, <3>2, <3>3
  <2>7. QED BY <1>1, <2>5, <2>6 DEF AnswerInv
<1>6. CASE ~ Read(h) /\ ~ (Answer(h) /\ reply' # reply)
  <2>1. temp' = temp /\ reply' = reply
    BY <1>6 DEF Serve, DequeueTest, DequeueItem, DequeueFront, DequeueFrontStore,
       DequeueSize, DequeueSizeStore, Answer, CountLoad, CountStore, peerVars
  <2>2. pc'[h] = "answer" => pc[h] = "answer" /\ fd' = fd
    BY <1>1, <1>6 DEF Serve, DequeueTest, DequeueItem, DequeueFront, DequeueFrontStore,
       DequeueSize, DequeueSizeStore, Answer, CountLoad, CountStore, Goto
  <2>3. QED BY <1>1, <1>2, <1>3, <2>1, <2>2, AnswersStay DEF tableVars
<1>7. QED BY <1>4, <1>5, <1>6

\* Before main listens nobody is answered.
LEMMA MainKeepsAnswers ==
    ASSUME ThreadsInv, AnswerInv, [Next]_vars,
           MainServes \/ CallFails \/ (\E c \in Conns : Accept(c)) \/ UNCHANGED vars
           \/ Crash \/ \E a \in Procs : FreeResources(a)
    PROVE  AnswerInv'
<1>1. pc \in [Conns -> HandlerLabels]
  BY DEF ThreadsInv
<1>2. UNCHANGED <<fd, temp, reply>> /\ \A h \in Conns : pc'[h] = "answer" => pc[h] = "answer"
  <2>1. CASE Create
    <3>1. pc[mfd] = "none" /\ pc' = [pc EXCEPT ![mfd] = "test"]
      BY <2>1 DEF Create, ThreadsInv, Serving
    <3>2. QED BY <1>1, <2>1, <3>1 DEF Create, peerVars
  <2>2. CASE Crash \/ \E a \in Procs : FreeResources(a)
    BY <2>2, FreeMoves
  <2>3. CASE ~ Create /\ ~ (Crash \/ \E a \in Procs : FreeResources(a))
    BY <2>3 DEF MainServes, CheckArguments, NextCity, Probe, ReadFile, Declare, Listen,
       EnqueueTest, EnqueuePut, EnqueueLoad, EnqueueSize, CallFails, Accept, vars, threadVars,
       peerVars
  <2>4. QED BY <2>1, <2>2, <2>3
<1>3. \A h \in Conns :
          (pc'[h] = "answer" /\ Sends[fd'[h]].type = "CLIENT_REQUEST")
             => temp'[h] = Sends[fd'[h]] \/ reply'[fd'[h]] # NoReply
  BY <1>2 DEF AnswerInv
<1>4. CASE CheckArguments \/ NextCity \/ Probe \/ ReadFile
  <2>1. mpc \in Loading
    BY <1>4 DEF CheckArguments, NextCity, Probe, ReadFile, Loading
  <2>2. \A c \in Conns : reply'[c] = NoReply
    BY <1>2, <2>1 DEF AnswerInv
  <2>3. QED BY <1>2, <1>3, <2>2 DEF AnswerInv, AnswersRight
<1>5. CASE ~ (CheckArguments \/ NextCity \/ Probe \/ ReadFile)
  <2>1. UNCHANGED loadVars /\ (mpc' \in Loading => mpc \in Loading)
    <3>1. CASE Crash \/ \E a \in Procs : FreeResources(a)
      BY <3>1, FreeMoves DEF Loading
    <3>2. CASE ~ (Crash \/ \E a \in Procs : FreeResources(a))
      BY <1>5, <3>2 DEF MainServes, Declare, Listen, EnqueueTest, EnqueuePut, EnqueueLoad,
         EnqueueSize, Create, CallFails, Accept, vars, tableVars, Loading
    <3>3. QED BY <3>1, <3>2
  <2>2. InFreeResources \subseteq InFreeResources'
    BY FreeingStays
  <2>3. QED BY <1>2, <1>3, <2>1, <2>2, AnswersStay
<1>6. QED BY <1>4, <1>5

LEMMA AnswerInitially == Init => AnswerInv
BY DEF Init, AnswerInv, AnswersRight

(***************************************************************************)
(* For every data set, range, hash function, capacity of the queue and     *)
(* number of peers, and however the threads interleave in the queue and in *)
(* freeResources: the first number a peer gets is what the files of the    *)
(* servant's cities say of its own request (countCities and findAllCities  *)
(* of servant.c), unless it was counted after some thread or main had      *)
(* begun to empty the table, and as long as insertToHash stored no city    *)
(* over another.                                                           *)
(***************************************************************************)
THEOREM EveryAnswerRight == Spec => []AnswersRight
<1> DEFINE Inv == ServantInv /\ AnswerInv
<1>1. Init => Inv
  BY ServantInitially, AnswerInitially
<1>2. Inv /\ [Next]_vars => Inv'
  <2>1. SUFFICES ASSUME ServantInv, AnswerInv, [Next]_vars PROVE AnswerInv'
    BY ServantInductive
  <2>2. TableKept /\ ThreadsInv
    BY <2>1 DEF ServantInv
  <2>3. QED BY <2>1, <2>2, Steps, HandlerKeepsAnswers, MainKeepsAnswers
<1>3. Inv => AnswersRight
  BY DEF AnswerInv
<1>4. QED BY <1>1, <1>2, <1>3, PTL DEF Spec
=============================================================================
