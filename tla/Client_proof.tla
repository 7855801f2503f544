---------------------------- MODULE Client_proof ----------------------------
(***************************************************************************)
(* The client's barrier and its goodbye, for every number of requests.     *)
(***************************************************************************)
EXTENDS Client, FiniteSetTheorems, TLAPS
-----------------------------------------------------------------------------
(***************************************************************************)
(* The inductive invariant behind NobodyEarly and GoodbyeIsLast: the       *)
(* counter counts the threads that have arrived, and main has joined the   *)
(* threads below its index.                                                *)
(***************************************************************************)
Arrived == {t \in Threads : pc[t] \notin BeforeBarrier}

BarrierInv ==
    /\ TypeOK
    /\ num_threads = Cardinality(Arrived)
    /\ \A t \in Threads : pc[t] \in PastBarrier => num_threads = requestSize
    /\ \A t \in Threads : pc[t] = "terminated" => answer[t] # "none"
    /\ mpc \in {"join", "joining", "goodbye"} =>
          \A t \in 0 .. mindex - 1 : pc[t] = "terminated"
    /\ mpc \in {"create", "joining"} => mindex < requestSize
    /\ mpc = "create" => \A t \in mindex .. requestSize - 1 : pc[t] = "absent"
    /\ mpc = "goodbye" => mindex = requestSize
-----------------------------------------------------------------------------
\* There are requestSize threads; the counter reaches requestSize only when
\* all of them have arrived.
LEMMA AllArrived ==
    ASSUME TypeOK, num_threads = Cardinality(Arrived)
    PROVE  /\ IsFiniteSet(Arrived)
           /\ num_threads = requestSize => Arrived = Threads
<1>1. IsFiniteSet(Threads) /\ Cardinality(Threads) = requestSize
  BY RequestSizeAssumption, FS_Interval DEF Threads
<1>2. Arrived \subseteq Threads
  BY DEF Arrived
<1>3. QED BY <1>1, <1>2, FS_Subset

\* The counter after an arrival counts one thread more.
LEMMA ArrivalCounts ==
    ASSUME BarrierInv, NEW t \in Threads, Arrive(t)
    PROVE  /\ num_threads' = Cardinality(Arrived \union {t})
           /\ num_threads' \in 0 .. requestSize
<1>1. t \notin Arrived
  BY DEF Arrive, Arrived, BeforeBarrier
<1>2. Cardinality(Arrived \union {t}) = num_threads + 1
  BY <1>1, AllArrived, FS_AddElement DEF BarrierInv, TypeOK
<1>3. Arrived \union {t} \subseteq Threads
  BY DEF Arrived
<1>4. IsFiniteSet(Threads) /\ Cardinality(Threads) = requestSize
  BY RequestSizeAssumption, FS_Interval DEF Threads
<1>5. Cardinality(Arrived \union {t}) <= requestSize
  BY <1>3, <1>4, FS_Subset
<1>6. QED
  BY <1>2, <1>5, RequestSizeAssumption DEF Arrive, BarrierInv, TypeOK

\* A thread that passes or waits keeps BarrierInv, once the counter is right.
LEMMA ProceedKeeps ==
    ASSUME BarrierInv, NEW t \in Threads, Proceed(t),
           pc[t] \in {"arrive", "woken"},
           num_threads' \in 0 .. requestSize, num_threads' >= num_threads,
           num_threads' = Cardinality(Arrived \union {t}),
           UNCHANGED <<mainVars, sig, answer>>
    PROVE  BarrierInv'
<1> USE RequestSizeAssumption DEF mainVars
<1>1. /\ pc \in [Threads -> Stages] /\ flag \in {0, 1}
      /\ num_threads \in 0 .. requestSize
  BY DEF BarrierInv, TypeOK
<1>2. \A u \in Threads : u # t =>
          \/ pc'[u] = pc[u]
          \/ pc[u] = "waiting" /\ pc'[u] = "woken"
  BY <1>1 DEF Proceed
<1>3. /\ pc' \in [Threads -> Stages] /\ flag' \in {0, 1}
      /\ pc'[t] \in {"waiting", "connect"}
      /\ pc'[t] = "connect" => num_threads' = requestSize
  BY <1>1 DEF Proceed, Stages
<1>4. TypeOK'
  BY <1>3 DEF BarrierInv, TypeOK
<1>5. Arrived' = Arrived \union {t}
  BY <1>2, <1>3 DEF Arrived, BeforeBarrier
<1>6. \A u \in Threads : pc'[u] \in PastBarrier => num_threads' = requestSize
  BY <1>1, <1>2, <1>3 DEF BarrierInv, PastBarrier
<1>7. \A u \in Threads : pc'[u] = "terminated" <=> pc[u] = "terminated"
  BY <1>2, <1>3
<1>8. \A u \in Threads : pc[u] = "absent" => pc'[u] = "absent"
  BY <1>2
<1>9. \A u \in 0 .. mindex - 1 : mindex \in 0 .. requestSize => u \in Threads
  BY DEF Threads
<1>10. \A u \in mindex .. requestSize - 1 :
          mindex \in 0 .. requestSize => u \in Threads
  BY DEF Threads
<1>11. mindex \in 0 .. requestSize
  BY DEF BarrierInv, TypeOK
<1>12. QED
  BY <1>4, <1>5, <1>6, <1>7, <1>8, <1>9, <1>10, <1>11 DEF BarrierInv

\* A step of a thread on one side of the barrier keeps BarrierInv.
LEMMA StageKeeps ==
    ASSUME BarrierInv, NEW t \in Threads, NEW s \in Stages,
           pc' = [pc EXCEPT ![t] = s],
           pc[t] \notin BeforeBarrier, s \notin BeforeBarrier,
           s \in PastBarrier => pc[t] \in PastBarrier,
           pc[t] # "terminated",
           UNCHANGED <<mainVars, barrierVars>>,
           sig' \in BOOLEAN,
           answer' \in [Threads -> {"none", "RESPONSE", "NO_CITY_RESPONSE",
                                    "uninitialised"}],
           s = "terminated" => answer'[t] # "none",
           \A u \in Threads \ {t} : answer'[u] = answer[u]
    PROVE  BarrierInv'
<1> USE RequestSizeAssumption DEF mainVars, barrierVars
<1>1. /\ pc \in [Threads -> Stages] /\ mindex \in 0 .. requestSize
      /\ pc[t] # "absent"
  BY DEF BarrierInv, TypeOK, BeforeBarrier
<1>2. TypeOK'
  BY <1>1 DEF BarrierInv, TypeOK
<1>3. Arrived' = Arrived
  BY <1>1 DEF Arrived
<1>4. \A u \in Threads : pc'[u] \in PastBarrier => pc[u] \in PastBarrier
  BY <1>1
<1>5. \A u \in Threads : pc[u] = "terminated" => pc'[u] = "terminated"
  BY <1>1
<1>6. \A u \in Threads : pc[u] = "absent" => pc'[u] = "absent"
  BY <1>1
<1>7. \A u \in Threads : pc'[u] = "terminated" => answer'[u] # "none"
  BY <1>1 DEF BarrierInv
<1>8. \A u \in 0 .. mindex - 1 : u \in Threads
  BY <1>1 DEF Threads
<1>9. \A u \in mindex .. requestSize - 1 : u \in Threads
  BY <1>1 DEF Threads
<1>10. QED
  BY <1>2, <1>3, <1>4, <1>5, <1>6, <1>7, <1>8, <1>9 DEF BarrierInv

\* BarrierInv is inductive.
LEMMA BarrierInductive == BarrierInv /\ [Next]_vars => BarrierInv'
<1> SUFFICES ASSUME BarrierInv, [Next]_vars PROVE BarrierInv'
  OBVIOUS
<1> USE RequestSizeAssumption DEF mainVars, barrierVars
<1>1. CASE Create
  <2>1. /\ pc' = [pc EXCEPT ![mindex] = "arrive"]
        /\ UNCHANGED <<num_threads, flag, sig, answer>>
        /\ mpc = "create" /\ mindex \in Threads /\ pc[mindex] = "absent"
        /\ pc \in [Threads -> Stages]
    BY <1>1 DEF Create, BarrierInv, TypeOK, Threads
  <2>2. Arrived' = Arrived
    BY <2>1 DEF Arrived, BeforeBarrier
  <2>3. \/ mindex + 1 = requestSize /\ mpc' = "join" /\ mindex' = 0
        \/ mindex + 1 < requestSize /\ mpc' = "create" /\ mindex' = mindex + 1
    BY <1>1, <2>1 DEF Create, Threads
  <2>4. TypeOK'
    BY <2>1, <2>3 DEF BarrierInv, TypeOK, Stages, Threads
  <2>5. \A t \in Threads : pc'[t] \in PastBarrier => pc[t] \in PastBarrier
    BY <2>1 DEF PastBarrier
  <2>6. \A t \in Threads : pc'[t] = "terminated" => pc[t] = "terminated"
    BY <2>1
  <2>7. \A t \in Threads : t # mindex => pc'[t] = pc[t]
    BY <2>1
  <2>8. \A t \in mindex + 1 .. requestSize - 1 : t \in Threads /\ t # mindex
    BY <2>1 DEF Threads
  <2>9. mpc' = "create" => \A t \in mindex' .. requestSize - 1 : pc'[t] = "absent"
    BY <2>1, <2>3, <2>7, <2>8 DEF BarrierInv, Threads
  <2>10. mpc' # "goodbye" /\ (mpc' \in {"join", "joining"} => mindex' = 0)
    BY <2>3
  <2>11. mpc' \in {"create", "joining"} => mindex' < requestSize
    BY <2>3
  <2>12. \A t \in Threads : pc'[t] \in PastBarrier => num_threads' = requestSize
    BY <2>1, <2>5 DEF BarrierInv
  <2>13. QED
    BY <2>1, <2>2, <2>4, <2>6, <2>9, <2>10, <2>11, <2>12 DEF BarrierInv
<1>2. CASE TestSig \/ Goodbye
  <2>1. /\ UNCHANGED <<mindex, pc, num_threads, flag, sig, answer>>
        /\ mpc = "join"
        /\ \/ mindex < requestSize /\ mpc' \in {"joining", "failure"}
           \/ mindex = requestSize /\ mpc' = "goodbye"
    BY <1>2 DEF TestSig, Goodbye
  <2>2. QED BY <2>1 DEF BarrierInv, TypeOK, Arrived, Ended
<1>3. CASE Join
  <2>1. /\ UNCHANGED <<pc, num_threads, flag, sig, answer>>
        /\ mpc = "joining" /\ mpc' = "join" /\ mindex' = mindex + 1
        /\ pc[mindex] = "terminated"
        /\ mindex \in 0 .. requestSize - 1
    BY <1>3 DEF Join, BarrierInv, TypeOK
  <2>2. TypeOK' /\ Arrived' = Arrived
    BY <2>1 DEF BarrierInv, TypeOK, Arrived
  <2>3. \A t \in 0 .. mindex' - 1 : pc'[t] = "terminated"
    BY <2>1 DEF BarrierInv
  <2>4. QED BY <2>1, <2>2, <2>3 DEF BarrierInv
<1>4. ASSUME NEW t \in Threads, ThreadStep(t) PROVE BarrierInv'
  <2>1. CASE Arrive(t)
    <3>1. /\ num_threads' \in 0 .. requestSize
          /\ num_threads' = Cardinality(Arrived \union {t})
      BY <2>1, ArrivalCounts
    <3>2. /\ pc[t] = "arrive" /\ num_threads' = num_threads + 1 /\ Proceed(t)
          /\ UNCHANGED <<mainVars, sig, answer>>
      BY <2>1 DEF Arrive
    <3>3. num_threads' >= num_threads
      BY <3>2 DEF BarrierInv, TypeOK
    <3>4. QED BY <3>1, <3>2, <3>3, ProceedKeeps
  <2>2. CASE Wake(t)
    <3>1. Arrived \union {t} = Arrived
      BY <2>2 DEF Wake, Arrived, BeforeBarrier
    <3>2. QED
      BY <2>2, <3>1, ProceedKeeps DEF Wake, BarrierInv, TypeOK
  <2>3. CASE Connect(t)
    BY <2>3, StageKeeps DEF Connect, BarrierInv, TypeOK, Stages,
       BeforeBarrier, PastBarrier
  <2>4. QED BY <1>4, <2>1, <2>2, <2>3 DEF ThreadStep
<1>5. CASE Outside
  <2>1. CASE Sigint
    BY <2>1 DEF Sigint, BarrierInv, TypeOK, Arrived
  <2>2. ASSUME NEW t \in Threads, SpuriousWakeup(t) PROVE BarrierInv'
    BY <2>2, StageKeeps DEF SpuriousWakeup, BarrierInv, TypeOK, Stages,
       BeforeBarrier, PastBarrier
  <2>3. ASSUME NEW t \in Threads, Read(t) PROVE BarrierInv'
    <3>1. PICK a \in {"RESPONSE", "NO_CITY_RESPONSE", "uninitialised"} :
              answer' = [answer EXCEPT ![t] = a]
      BY <2>3 DEF Read
    <3>2. QED
      BY <2>3, <3>1, StageKeeps DEF Read, BarrierInv, TypeOK, Stages,
         BeforeBarrier, PastBarrier
  <2>4. ASSUME NEW t \in Threads, Refused(t) \/ ReadFails(t) PROVE BarrierInv'
    BY <2>4 DEF Refused, ReadFails, BarrierInv, TypeOK, Arrived, Ended
  <2>5. CASE CreateFails
    BY <2>5 DEF CreateFails, BarrierInv, TypeOK, Arrived, Ended
  <2>6. QED BY <1>5, <2>1, <2>2, <2>3, <2>4, <2>5 DEF Outside
<1>6. CASE UNCHANGED vars
  BY <1>6 DEF vars, BarrierInv, TypeOK, Arrived
<1>7. QED BY <1>1, <1>2, <1>3, <1>4, <1>5, <1>6 DEF Next, MainStep

\* Types, the counter and main's progress.
LEMMA BarrierInvariant == Spec => []BarrierInv
<1>1. Init => BarrierInv
  <2> SUFFICES ASSUME Init PROVE BarrierInv
    OBVIOUS
  <2>1. Arrived = {}
    BY DEF Init, Arrived, BeforeBarrier
  <2>2. TypeOK
    <3>1. sig \in BOOLEAN
      BY Zenon DEF Init
    <3>2. pc \in [Threads -> Stages]
      BY DEF Init, Stages
    <3>3. answer \in [Threads -> {"none", "RESPONSE", "NO_CITY_RESPONSE",
                                  "uninitialised"}]
      BY DEF Init
    <3>4. QED BY <3>1, <3>2, <3>3, RequestSizeAssumption DEF Init, TypeOK
  <2>3. QED
    BY <2>1, <2>2, FS_EmptySet, RequestSizeAssumption
    DEF Init, BarrierInv, PastBarrier, Ended, Threads
<1>2. QED BY <1>1, BarrierInductive, PTL DEF Spec

(***************************************************************************)
(* For every number of requests, no thread connects to the server before   *)
(* all threads have arrived at the barrier.                                *)
(***************************************************************************)
THEOREM BarrierHolds == Spec => []NobodyEarly
<1>1. BarrierInv => NobodyEarly
  <2> SUFFICES ASSUME BarrierInv, NEW t \in Threads, NEW u \in Threads,
                      pc[t] \in PastBarrier
               PROVE  pc[u] \notin BeforeBarrier
    BY DEF NobodyEarly
  <2>1. Arrived = Threads
    BY AllArrived DEF BarrierInv
  <2>2. QED BY <2>1 DEF Arrived
<1>2. QED BY <1>1, BarrierInvariant, PTL

(***************************************************************************)
(* The goodbye message is printed only after every thread has printed its  *)
(* answer and terminated.                                                  *)
(***************************************************************************)
THEOREM GoodbyeIsTrue == Spec => []GoodbyeIsLast
<1>1. BarrierInv => GoodbyeIsLast
  BY RequestSizeAssumption DEF BarrierInv, GoodbyeIsLast, Threads
<1>2. QED BY <1>1, BarrierInvariant, PTL
=============================================================================
