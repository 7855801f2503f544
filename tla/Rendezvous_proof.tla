-------------------------- MODULE Rendezvous_proof --------------------------
(***************************************************************************)
(* Proofs about the rendezvous of Homework 5, for any number of threads    *)
(* and any size of the matrices.                                           *)
(***************************************************************************)
EXTENDS Rendezvous, FiniteSetTheorems, TLAPS
-----------------------------------------------------------------------------
(***************************************************************************)
(* The inductive invariant.  The counter never runs ahead of the threads   *)
(* that have computed their columns, those inside a finished rendezvous    *)
(* have seen it full, and as long as nobody was interrupted a thread that  *)
(* left has transformed its columns.                                       *)
(***************************************************************************)
BeforeLock == {"absent", "multiply", "multiplied", "lock"}

Arrived == {k \in Threads : pc[k] \notin BeforeLock}

RInv ==
    /\ mpc \in {"read", "start", "create", "created", "join", "joining"}
                  \union Ended
    /\ index \in 0 .. m
    /\ mpc \in {"read", "start", "create", "joining"} => index < m
    /\ pc \in [Threads -> Labels]
    /\ total \in Nat /\ total <= Cardinality(Arrived)
    /\ product \subseteq AllColumns /\ transformed \subseteq AllColumns
    /\ \A k \in Threads :
          /\ pc[k] \notin {"absent", "multiply"} => Columns(k) \subseteq product
          /\ pc[k] \in {"through", "unlock", "advance", "transform"} => total >= m
          /\ ~sig /\ pc[k] = "left" => Columns(k) \subseteq transformed
    /\ mpc \in {"read", "start", "create", "created"} =>
          \A k \in Threads : k >= index => pc[k] = "absent"
    /\ mpc \in {"join", "joining"} =>
          \A k \in Threads : k < index => pc[k] = "left"
    /\ OutputComplete
-----------------------------------------------------------------------------
\* Facts about products that the solver does not find by itself.
LEMMA Monotone ==
    ASSUME NEW a \in Nat, NEW b \in Nat, NEW q \in Nat, a <= b
    PROVE  a * q \in Nat /\ b * q \in Nat /\ a * q <= b * q
<1>1. PICK d \in Nat : b = a + d
  <2>1. b - a \in Nat /\ b = a + (b - a)
    OBVIOUS
  <2>2. QED BY <2>1
<1>2. b * q = a * q + d * q /\ d * q \in Nat /\ a * q \in Nat
  BY <1>1
<1>3. QED BY <1>2

LEMMA DivMod ==
    ASSUME NEW a \in Nat, NEW b \in Nat \ {0}
    PROVE  \E q \in Nat : \E r \in 0 .. b - 1 :
              /\ q = a \div b /\ r = a % b
              /\ a = q * b + r
<1>1. b \in Nat /\ b > 0
  OBVIOUS
<1>2. a \div b \in Int
  BY <1>1
<1>3. a % b \in 0 .. b - 1
  BY <1>1
<1>4. a = b * (a \div b) + (a % b)
  BY <1>1
<1>5. ASSUME NEW q, NEW r, q = a \div b, r = a % b
      PROVE  q \in Nat /\ r \in 0 .. b - 1 /\ a = q * b + r
  <2>1. q \in Int /\ r \in 0 .. b - 1 /\ a = b * q + r
    BY <1>2, <1>3, <1>4, <1>5, Zenon
  <2>2. b * q = q * b
    BY <2>1
  <2>3. a = q * b + r
    BY <2>1, <2>2, Zenon
  <2>4. q >= 0
    BY <1>1, <2>1
  <2>5. QED BY <2>1, <2>3, <2>4
<1>6. QED BY <1>5, Zenon

LEMMA Commute ==
    ASSUME NEW a \in Nat, NEW b \in Nat
    PROVE  a * b = b * a
OBVIOUS

LEMMA Share ==
    ASSUME m <= matrixSize
    PROVE  /\ share \in Nat \ {0}
           /\ m * share <= matrixSize
           /\ matrixSize % m = 0 => matrixSize = m * share
<1>1. /\ share \in Nat /\ matrixSize % m \in 0 .. m - 1
      /\ matrixSize = share * m + (matrixSize % m)
  <2>1. m \in Nat \ {0} /\ matrixSize \in Nat
    BY RendezvousAssumption
  <2>2. \E q \in Nat : \E r \in 0 .. m - 1 :
           /\ q = matrixSize \div m /\ r = matrixSize % m
           /\ matrixSize = q * m + r
    BY <2>1, DivMod, Zenon
  <2>3. QED BY <2>2, Zenon DEF share
<1>2. share * m = m * share
  <2>1. share \in Nat /\ m \in Nat
    BY <1>1, RendezvousAssumption
  <2>2. QED BY <2>1, Commute
<1>3. share # 0
  BY <1>1, RendezvousAssumption
<1>4. QED BY <1>1, <1>2, <1>3, RendezvousAssumption

\* Every column has an owner.
LEMMA ColumnsCover ==
    ASSUME NEW j \in AllColumns
    PROVE  \E k \in Threads : j \in Columns(k)
<1> USE RendezvousAssumption DEF AllColumns, Threads
<1>1. CASE m > matrixSize
  <2>1. j \in Threads /\ j \in Columns(j)
    BY <1>1 DEF Columns, start, end
  <2>2. QED BY <2>1
<1>2. CASE m <= matrixSize
  <2>1. /\ share \in Nat \ {0} /\ m * share <= matrixSize
        /\ matrixSize % m = 0 => matrixSize = m * share
    BY <1>2, Share
  <2>2. CASE j >= (m - 1) * share
    <3>1. m - 1 \in Threads /\ m - 1 < matrixSize /\ (m - 1) + 1 = m
      BY <1>2
    <3>2. end(m - 1) = matrixSize /\ start(m - 1) = (m - 1) * share
      BY <1>2, <2>1, <3>1 DEF end, start
    <3>3. j \in Columns(m - 1)
      BY <2>1, <2>2, <3>1, <3>2 DEF Columns
    <3>4. QED BY <3>1, <3>3
  <2>3. CASE j < (m - 1) * share
    <3>1. PICK k \in Nat, r \in 0 .. share - 1 : j = k * share + r
      <4>1. j \in Nat
        OBVIOUS
      <4>2. \E k \in Nat : \E r \in 0 .. share - 1 :
               k = j \div share /\ r = j % share /\ j = k * share + r
        BY <2>1, <4>1, DivMod
      <4>3. QED BY <4>2
    <3>2. k < m - 1
      <4>1. m - 1 <= k => (m - 1) * share <= k * share
        BY <2>1, <3>1, Monotone
      <4>2. (m - 1) * share \in Int /\ k * share \in Int
        BY <2>1, <3>1
      <4>3. k * share <= j
        BY <2>1, <3>1, <4>2
      <4>4. ASSUME m - 1 <= k PROVE FALSE
        <5>1. (m - 1) * share <= j
          BY <4>1, <4>2, <4>3, <4>4
        <5>2. QED BY <2>3, <4>2, <5>1
      <4>5. QED BY <3>1, <4>4
    <3>3. (k + 1) * share = k * share + share
      BY <2>1, <3>1
    <3>4. start(k) = k * share /\ end(k) = (k + 1) * share
      BY <1>2, <3>1, <3>2 DEF start, end
    <3>5. k * share \in Nat
      BY <2>1, <3>1
    <3>6. k < matrixSize /\ k \in Threads
      BY <1>2, <3>1, <3>2
    <3>7. j \in start(k) .. end(k) - 1
      BY <2>1, <3>1, <3>3, <3>4, <3>5
    <3>8. QED BY <3>6, <3>7 DEF Columns
  <2>4. (m - 1) * share \in Int
    BY <2>1
  <2>5. QED BY <2>2, <2>3, <2>4
<1>3. QED BY <1>1, <1>2

\* A thread stays within the matrix.
LEMMA ColumnsWithin ==
    ASSUME NEW k \in Threads
    PROVE  Columns(k) \subseteq AllColumns
<1> USE RendezvousAssumption DEF AllColumns, Threads
<1>1. CASE m > matrixSize
  BY <1>1 DEF Columns, start, end
<1>2. CASE m <= matrixSize
  <2>1. share \in Nat \ {0} /\ m * share <= matrixSize
    BY <1>2, Share
  <2>2. k * share \in Nat /\ (k + 1) * share <= m * share
    BY <2>1, Monotone
  <2>3. (k + 1) * share \in Nat /\ m * share \in Nat
    BY <2>1
  <2>4. start(k) \in Nat /\ end(k) \in Nat /\ end(k) <= matrixSize
    BY <1>2, <2>1, <2>2, <2>3 DEF start, end
  <2>5. QED BY <2>4 DEF Columns
<1>3. QED BY <1>1, <1>2

(***************************************************************************)
(* The partition: every column is some thread's, and no two threads write  *)
(* the same one, whether or not the threads divide the columns evenly and  *)
(* even when there are more threads than columns (hw5.c:396-410).          *)
(***************************************************************************)
THEOREM ColumnsPartition ==
    /\ \A j \in AllColumns : \E k \in Threads : j \in Columns(k)
    /\ \A k, l \in Threads : k # l => Columns(k) \intersect Columns(l) = {}
<1>1. ASSUME NEW k \in Threads, NEW l \in Threads, k < l
      PROVE  Columns(k) \intersect Columns(l) = {}
  <2> USE RendezvousAssumption DEF Threads
  <2>1. CASE m > matrixSize
    BY <1>1, <2>1 DEF Columns, start, end
  <2>2. CASE m <= matrixSize
    <3>1. share \in Nat \ {0}
      BY <2>2, Share
    <3>2. (k + 1) * share <= l * share
      BY <1>1, <3>1, Monotone
    <3>3. (k + 1) * share \in Nat /\ l * share \in Nat /\ k * share \in Nat
      BY <3>1
    <3>4. k # m - 1
      BY <1>1
    <3>5. start(l) = l * share /\ end(k) = (k + 1) * share
      BY <2>2, <3>4 DEF start, end
    <3>6. end(l) \in Int /\ start(k) \in Int
      BY <2>2, <3>1, <3>3 DEF start, end
    <3>7. QED BY <3>2, <3>3, <3>5, <3>6 DEF Columns
  <2>3. QED BY <2>1, <2>2
<1>2. ASSUME NEW k \in Threads, NEW l \in Threads, k # l
      PROVE  Columns(k) \intersect Columns(l) = {}
  <2>1. k < l \/ l < k
    BY <1>2, RendezvousAssumption DEF Threads
  <2>2. QED BY <1>1, <2>1
<1>3. QED BY <1>2, ColumnsCover

\* If all have arrived, all of the product is there.
LEMMA ArrivedFinite ==
    /\ IsFiniteSet(Arrived) /\ IsFiniteSet(Threads)
    /\ Cardinality(Threads) = m
    /\ Cardinality(Arrived) \in Nat
    /\ Cardinality(Arrived) <= m
    /\ Cardinality(Arrived) = m => Arrived = Threads
<1>1. IsFiniteSet(Threads) /\ Cardinality(Threads) = m
  BY FS_Interval, RendezvousAssumption DEF Threads
<1>2. Arrived \subseteq Threads
  BY DEF Arrived
<1>3. QED BY <1>1, <1>2, FS_Subset, FS_CardinalityType

LEMMA AllOfIt ==
    ASSUME RInv, total >= m
    PROVE  product = AllColumns
<1>1. Arrived = Threads
  BY ArrivedFinite, RendezvousAssumption DEF RInv
<1>2. \A k \in Threads : Columns(k) \subseteq product
  BY <1>1 DEF RInv, Arrived, BeforeLock
<1>3. AllColumns \subseteq product
  BY <1>2, ColumnsCover
<1>4. QED BY <1>3 DEF RInv

LEMMA MainKeepsInv ==
    ASSUME RInv, MainStep
    PROVE  RInv'
<1> USE RendezvousAssumption DEF RInv
<1>1. CASE Read \/ Start \/ BeforeJoin
  <2>1. /\ UNCHANGED <<index, pc, sig, total, product, transformed>>
        /\ \/ /\ mpc \in {"read", "start"}
              /\ mpc' \in {"start", "create", "failed", "exited"}
           \/ mpc = "join" /\ index < m /\ mpc' \in {"joining", "exited"}
    BY <1>1 DEF Read, Start, BeforeJoin, Tested, lockVars, columnVars
  <2>2. Arrived' = Arrived
    BY <2>1 DEF Arrived
  <2>3. QED BY <2>1, <2>2 DEF Ended, OutputComplete
<1>2. CASE Create
  <2>1. /\ index \in Threads /\ pc' = [pc EXCEPT ![index] = "multiply"]
        /\ mpc' = "created" /\ index' \in 0 .. m
        /\ UNCHANGED <<sig, total, product, transformed>>
    BY <1>2 DEF Create, lockVars, columnVars, Threads
  <2>2. pc[index] = "absent" /\ mpc = "create"
    BY <1>2 DEF Create, Threads
  <2>3. Arrived' = Arrived
    BY <2>1, <2>2 DEF Arrived, BeforeLock
  <2>4. /\ pc' \in [Threads -> Labels]
        /\ \A k \in Threads : k # index => pc'[k] = pc[k]
        /\ pc'[index] = "multiply"
    BY <2>1 DEF Labels
  <2>5. \A k \in Threads :
          /\ pc'[k] \notin {"absent", "multiply"} => Columns(k) \subseteq product'
          /\ pc'[k] \in {"through", "unlock", "advance", "transform"} => total' >= m
          /\ ~sig' /\ pc'[k] = "left" => Columns(k) \subseteq transformed'
    BY <2>1, <2>4
  <2>6. \A k \in Threads : k >= index' => pc'[k] = "absent"
    BY <1>2, <2>2, <2>4 DEF Create, Threads
  <2>7. QED
    BY <2>1, <2>3, <2>4, <2>5, <2>6 DEF OutputComplete
<1>3. CASE Created
  BY <1>3 DEF Created, Tested, lockVars, columnVars, Ended, Arrived,
              OutputComplete, Threads
<1>4. CASE Join
  BY <1>4 DEF Join, lockVars, columnVars, Ended, Arrived, OutputComplete, Threads
<1>5. CASE Output
  <2>1. ASSUME ~sig PROVE transformed = AllColumns
    <3>1. \A k \in Threads : Columns(k) \subseteq transformed
      BY <1>5, <2>1 DEF Output, Threads
    <3>2. QED BY <3>1, ColumnsCover
  <2>2. QED
    BY <1>5, <2>1 DEF Output, Tested, lockVars, columnVars, Ended, Arrived,
                      OutputComplete
<1>6. QED BY <1>1, <1>2, <1>3, <1>4, <1>5 DEF MainStep

LEMMA SigintKeepsInv ==
    ASSUME RInv, Sigint
    PROVE  RInv'
<1>1. Arrived' = Arrived
  BY DEF Sigint, Arrived
<1>2. QED
  BY <1>1 DEF RInv, Sigint, mainVars, lockVars, columnVars, OutputComplete

(***************************************************************************)
(* What a step of a thread does, as far as the invariant sees it.          *)
(***************************************************************************)
LEMMA ThreadMoves ==
    ASSUME RInv, NEW k \in Threads, ThreadStep(k) \/ Spurious(k)
    PROVE  /\ UNCHANGED <<mpc, index, sig>> /\ mpc \notin Ended
           /\ pc' \in [Threads -> Labels]
           /\ pc[k] \notin {"absent", "left"}
           /\ pc'[k] \notin {"absent", "multiply"}
           /\ pc[k] \notin BeforeLock => pc'[k] \notin BeforeLock
           /\ \A l \in Threads \ {k} :
                 \/ pc'[l] = pc[l]
                 \/ pc[l] = "waiting" /\ pc'[l] = "woken"
           /\ product' = product \/ product' = product \union Columns(k)
           /\ transformed' = transformed \/ transformed' = transformed \union Columns(k)
           /\ pc[k] = "multiply" => Columns(k) \subseteq product'
           /\ ~sig /\ pc'[k] = "left" => Columns(k) \subseteq transformed'
           /\ \/ total' = total
              \/ pc[k] = "lock" /\ pc'[k] = "loop" /\ total' = total + 1
           /\ pc'[k] \in {"through", "unlock", "advance", "transform"} =>
                 \/ pc[k] = "loop" /\ total' >= m
                 \/ pc[k] \in {"through", "unlock", "advance"}
<1>1. pc \in [Threads -> Labels] /\ total \in Nat
  BY DEF RInv
<1> USE <1>1 DEF Labels, BeforeLock, Goto, TestedBy, mainVars, lockVars, columnVars
<1>2. CASE Spurious(k)
  BY <1>2 DEF Spurious, WakeUp
<1>3. CASE ThreadStep(k)
  <2> mpc \notin Ended
    BY <1>3 DEF ThreadStep
  <2>1. CASE Multiply(k)
    BY <2>1 DEF Multiply
  <2>2. CASE Reached(k) \/ Advance(k)
    BY <2>2 DEF Reached, Advance
  <2>3. CASE Lock(k) \/ Relock(k)
    BY <2>3 DEF Lock, Relock
  <2>4. CASE Loop(k)
    BY <2>4, RendezvousAssumption DEF Loop
  <2>5. CASE Broadcast(k)
    BY <2>5 DEF Broadcast
  <2>6. CASE Unlock(k)
    BY <2>6 DEF Unlock
  <2>7. CASE Transform(k)
    BY <2>7 DEF Transform
  <2>8. QED
    BY <1>3, <2>1, <2>2, <2>3, <2>4, <2>5, <2>6, <2>7 DEF ThreadStep
<1>4. QED BY <1>2, <1>3

LEMMA ThreadKeepsInv ==
    ASSUME RInv, NEW k \in Threads, ThreadStep(k) \/ Spurious(k)
    PROVE  RInv'
<1> USE RendezvousAssumption
<1>1. /\ UNCHANGED <<mpc, index, sig>> /\ mpc \notin Ended
      /\ pc' \in [Threads -> Labels]
      /\ pc[k] \notin {"absent", "left"}
      /\ \A l \in Threads \ {k} :
            \/ pc'[l] = pc[l]
            \/ pc[l] = "waiting" /\ pc'[l] = "woken"
      /\ product \subseteq product' /\ transformed \subseteq transformed'
  BY ThreadMoves
<1>2. product' \subseteq AllColumns /\ transformed' \subseteq AllColumns
  BY ThreadMoves, ColumnsWithin DEF RInv
<1>3. total' \in Nat /\ total' <= Cardinality(Arrived')
  <2>1. Arrived \subseteq Arrived'
    <3>1. pc[k] \notin BeforeLock => pc'[k] \notin BeforeLock
      BY ThreadMoves
    <3>2. \A l \in Threads \ {k} : pc[l] \notin BeforeLock => pc'[l] \notin BeforeLock
      BY <1>1 DEF BeforeLock
    <3>3. QED BY <3>1, <3>2 DEF Arrived
  <2>2. IsFiniteSet(Arrived) /\ IsFiniteSet(Threads) /\ Arrived' \subseteq Threads
    BY ArrivedFinite DEF Arrived
  <2>3. /\ IsFiniteSet(Arrived')
        /\ Cardinality(Arrived) \in Nat /\ Cardinality(Arrived') \in Nat
        /\ Cardinality(Arrived) <= Cardinality(Arrived')
    BY <2>1, <2>2, FS_Subset, FS_CardinalityType
  <2>4. CASE total' = total
    BY <2>3, <2>4 DEF RInv
  <2>5. CASE pc[k] = "lock" /\ pc'[k] = "loop" /\ total' = total + 1
    <3>1. k \notin Arrived /\ k \in Arrived'
      BY <2>5 DEF Arrived, BeforeLock
    <3>2. Arrived \union {k} \subseteq Arrived'
      BY <2>1, <3>1
    <3>3. Cardinality(Arrived \union {k}) = Cardinality(Arrived) + 1
      BY <2>2, <3>1, FS_AddElement
    <3>4. Cardinality(Arrived \union {k}) <= Cardinality(Arrived')
      BY <2>3, <3>2, FS_Subset
    <3>5. QED BY <2>3, <2>5, <3>3, <3>4 DEF RInv
  <2>6. QED BY <2>4, <2>5, ThreadMoves
<1>4. total' >= total
  BY ThreadMoves DEF RInv
<1>5. ASSUME NEW l \in Threads
      PROVE  /\ pc'[l] \notin {"absent", "multiply"} => Columns(l) \subseteq product'
             /\ pc'[l] \in {"through", "unlock", "advance", "transform"} => total' >= m
             /\ ~sig' /\ pc'[l] = "left" => Columns(l) \subseteq transformed'
  <2>1. CASE l # k
    <3>1. \/ pc'[l] = pc[l]
          \/ pc[l] = "waiting" /\ pc'[l] = "woken"
      BY <1>1, <2>1
    <3>2. /\ pc[l] \notin {"absent", "multiply"} => Columns(l) \subseteq product
          /\ pc[l] \in {"through", "unlock", "advance", "transform"} => total >= m
          /\ ~sig /\ pc[l] = "left" => Columns(l) \subseteq transformed
          /\ total \in Nat
      BY DEF RInv
    <3>3. QED BY <1>1, <1>3, <1>4, <3>1, <3>2
  <2>2. CASE l = k
    <3>1. Columns(k) \subseteq product'
      <4>1. CASE pc[k] = "multiply"
        BY <4>1, ThreadMoves
      <4>2. CASE pc[k] # "multiply"
        <5>1. Columns(k) \subseteq product
          BY <1>1, <4>2 DEF RInv
        <5>2. QED BY <1>1, <5>1
      <4>3. QED BY <4>1, <4>2
    <3>2. pc'[k] \in {"through", "unlock", "advance", "transform"} => total' >= m
      <4>1. pc[k] \in {"through", "unlock", "advance"} => total >= m
        BY DEF RInv
      <4>2. total \in Nat
        BY DEF RInv
      <4>3. QED BY <1>3, <1>4, <4>1, <4>2, ThreadMoves
    <3>3. ~sig' /\ pc'[k] = "left" => Columns(k) \subseteq transformed'
      BY <1>1, ThreadMoves
    <3>4. QED BY <2>2, <3>1, <3>2, <3>3
  <2>3. QED BY <2>1, <2>2
<1>6. mpc' \in {"read", "start", "create", "created"} =>
          \A l \in Threads : l >= index' => pc'[l] = "absent"
  BY <1>1 DEF RInv
<1>7. mpc' \in {"join", "joining"} =>
          \A l \in Threads : l < index' => pc'[l] = "left"
  BY <1>1 DEF RInv
<1>8. OutputComplete'
  BY <1>1 DEF OutputComplete, Ended
<1>9. QED
  BY <1>1, <1>2, <1>3, <1>5, <1>6, <1>7, <1>8 DEF RInv

LEMMA RInvHolds == Spec => []RInv
<1>1. Init => RInv
  <2> SUFFICES ASSUME Init PROVE RInv
    OBVIOUS
  <2>1. Arrived = {}
    BY DEF Init, Arrived, BeforeLock
  <2>2. QED
    BY <2>1, FS_EmptySet, RendezvousAssumption
    DEF Init, RInv, Labels, Threads, OutputComplete
<1>2. RInv /\ [Next]_vars => RInv'
  <2>1. CASE UNCHANGED vars
    <3>1. Arrived' = Arrived
      BY <2>1 DEF vars, Arrived
    <3>2. QED
      BY <2>1, <3>1 DEF vars, mainVars, lockVars, columnVars, RInv, OutputComplete
  <2>2. QED
    BY <2>1, MainKeepsInv, SigintKeepsInv, ThreadKeepsInv DEF Next
<1>3. QED BY <1>1, <1>2, PTL DEF Spec

(***************************************************************************)
(* Whatever the numbers of threads and columns, a thread begins the second *)
(* part only when the whole product is there.                              *)
(***************************************************************************)
THEOREM RendezvousIsComplete == Spec => []SecondPartSeesAll
<1>1. RInv => SecondPartSeesAll
  BY AllOfIt DEF RInv, SecondPartSeesAll
<1>2. QED BY <1>1, RInvHolds, PTL

(***************************************************************************)
(* The output is never written of an incomplete transform, SIGINT or not.  *)
(***************************************************************************)
THEOREM OutputIsComplete == Spec => []OutputComplete
<1>1. RInv => OutputComplete
  BY DEF RInv
<1>2. QED BY <1>1, RInvHolds, PTL
=============================================================================
