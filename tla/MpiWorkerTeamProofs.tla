------------------------- MODULE MpiWorkerTeamProofs -------------------------
(***************************************************************************)
(* The OpenMP team of one MPI worker (module MpiWorkerTeam), for any       *)
(* number of threads, length of a range and set of coins.                  *)
(***************************************************************************)
EXTENDS MpiWorkerTeam, SumTheorems

LEMMA Sizes ==
    /\ NumThreads \in Nat /\ NumThreads > 0 /\ 0 \in Threads
    /\ WORK_CHUNK_SIZE \in Nat /\ WORK_CHUNK_SIZE > 0
    /\ Stride \in Nat /\ Stride > 0
    /\ StatsBatch \in Nat /\ StatsBatch > 0
  BY NumThreadsAssumption, ChunkAssumption, StrideAssumption, StatsBatchAssumption DEF Threads

LEMMA FiniteThreads ==
    IsFiniteSet(Threads) /\ Cardinality(Threads) = NumThreads
<1>1. 0 \in Int /\ NumThreads - 1 \in Int /\ ~(0 > NumThreads - 1)
      /\ (NumThreads - 1) - 0 + 1 = NumThreads
  BY Sizes
<1> QED
  BY <1>1, FS_Interval DEF Threads

Places == {"start", "loop", "mine", "tick", "b1", "single", "check", "request",
           "b2", "b3", "resplit", "join", "joined"}

-----------------------------------------------------------------------------
(* Where the threads are *)

(* What a step of one thread does to its place, to the single and to the   *)
(* stop flag.                                                              *)
SameFlags == UNCHANGED <<singleTaken, worker_stop_signal>>

Control(t) ==
    /\ \A u \in Threads \ {t} : pc'[u] = pc[u]
    /\ \/ pc[t] \in {"start", "loop", "mine"} /\ pc'[t] \in {"loop", "tick"} /\ SameFlags
       \/ /\ pc[t] = "tick" /\ pc'[t] = "loop" /\ UNCHANGED singleTaken
          /\ worker_stop_signal' = worker_stop_signal \/ worker_stop_signal'
       \/ pc[t] = "loop" /\ pc'[t] = "b1" /\ ~worker_stop_signal /\ SameFlags
       \/ /\ pc[t] = "single" /\ pc'[t] = "check" /\ ~singleTaken /\ singleTaken'
          /\ UNCHANGED worker_stop_signal
       \/ pc[t] = "single" /\ pc'[t] = "b2" /\ singleTaken /\ SameFlags
       \/ /\ pc[t] = "check" /\ pc'[t] = "b2" /\ worker_stop_signal'
          /\ UNCHANGED singleTaken
       \/ pc[t] = "check" /\ pc'[t] = "request" /\ SameFlags
       \/ /\ pc[t] = "request" /\ pc'[t] = "b2" /\ UNCHANGED singleTaken
          /\ worker_stop_signal' = worker_stop_signal \/ worker_stop_signal'
       \/ pc[t] = "resplit" /\ pc'[t] = "mine" /\ ~worker_stop_signal /\ SameFlags
       \/ pc[t] \in {"loop", "resplit"} /\ pc'[t] = "join" /\ worker_stop_signal /\ SameFlags

LEMMA ThreadControl ==
    ASSUME pc \in [Threads -> Places], NEW t \in Threads, Thread(t)
    PROVE  Control(t) /\ pc' \in [Threads -> Places]
<1> USE DEF Goto, shared, locals, master, history, SameFlags
<1>0. ASSUME NEW place \in Places, pc' = [pc EXCEPT ![t] = place]
      PROVE  /\ pc' \in [Threads -> Places] /\ pc'[t] = place
             /\ \A u \in Threads \ {t} : pc'[u] = pc[u]
  BY <1>0
<1> USE DEF Places
<1>1. CASE EnterRegion(t)
  BY <1>0, <1>1 DEF EnterRegion, Control
<1>2. CASE MineStep(t)
  <2>1. /\ pc[t] \in {"mine", "loop"} /\ UNCHANGED <<singleTaken, worker_stop_signal>>
        /\ \E place \in {"loop", "tick"} : pc' = [pc EXCEPT ![t] = place]
    BY <1>2 DEF MineStep
  <2> QED
    BY <1>0, <2>1 DEF Control
<1>3. CASE Tick(t)
  <2>1. /\ pc[t] = "tick" /\ pc' = [pc EXCEPT ![t] = "loop"] /\ UNCHANGED singleTaken
        /\ worker_stop_signal' = worker_stop_signal \/ worker_stop_signal'
    BY <1>3 DEF Tick, CheckStop
  <2> QED
    BY <1>0, <2>1 DEF Control
<1>4. CASE ReachEndOfSlice(t)
  BY <1>0, <1>4 DEF ReachEndOfSlice, Control
<1>5. CASE EnterSingle(t)
  <2>1. /\ pc[t] = "single" /\ pc' = [pc EXCEPT ![t] = "check"] /\ ~singleTaken /\ singleTaken'
        /\ UNCHANGED worker_stop_signal
    BY <1>5 DEF EnterSingle, FirstToArrive
  <2> QED
    BY <1>0, <2>1 DEF Control
<1>6. CASE SkipSingle(t)
  BY <1>0, <1>6 DEF SkipSingle, WaitsForSingle, Control
<1>7. CASE CheckStopAtEnd(t)
  <2>1. /\ pc[t] = "check" /\ UNCHANGED singleTaken
        /\ \/ pc' = [pc EXCEPT ![t] = "b2"] /\ worker_stop_signal'
           \/ pc' = [pc EXCEPT ![t] = "request"] /\ UNCHANGED worker_stop_signal
    BY <1>7 DEF CheckStopAtEnd, CheckStop
  <2> QED
    BY <1>0, <2>1 DEF Control
<1>8. CASE ReceiveAnswer(t)
  <2>1. /\ pc[t] = "request" /\ pc' = [pc EXCEPT ![t] = "b2"] /\ UNCHANGED singleTaken
        /\ worker_stop_signal' = worker_stop_signal \/ worker_stop_signal'
    BY <1>8 DEF ReceiveAnswer
  <2> QED
    BY <1>0, <2>1 DEF Control
<1>9. CASE SplitAgain(t)
  BY <1>0, <1>9 DEF SplitAgain, Control
<1>10. CASE LeaveLoop(t)
  BY <1>0, <1>10 DEF LeaveLoop, Control
<1> QED
  BY <1>1, <1>2, <1>3, <1>4, <1>5, <1>6, <1>7, <1>8, <1>9, <1>10 DEF Thread

(* And what the opening of a barrier does. *)
BarrierOpens(b, next) ==
    \A t \in Threads : pc[t] = b /\ pc'[t] = next

Barrier ==
    /\ UNCHANGED worker_stop_signal
    /\ \/ BarrierOpens("b1", "single") /\ UNCHANGED singleTaken
       \/ BarrierOpens("b2", "b3") /\ ~singleTaken'
       \/ BarrierOpens("b3", "resplit") /\ UNCHANGED singleTaken
       \/ BarrierOpens("join", "joined") /\ UNCHANGED singleTaken

LEMMA BarrierControl ==
    ASSUME Barriers
    PROVE  Barrier /\ pc' \in [Threads -> Places]
  BY DEF Barriers, OpenBarrier1, OpenBarrier2, OpenBarrier3, OpenFinalBarrier,
     LeaveBarrier, AllArrived, Barrier, BarrierOpens, Places

(* The threads move from barrier to barrier together: they hash, or are    *)
(* about the single, or at the barrier behind it.                          *)
Hashing == {"start", "loop", "mine", "tick", "b1", "resplit", "join", "joined"}
AboutSingle == {"single", "check", "request", "b2"}
Asking == {"check", "request"}

Together ==
    \/ \A t \in Threads : pc[t] \in Hashing
    \/ \A t \in Threads : pc[t] \in AboutSingle
    \/ \A t \in Threads : pc[t] = "b3"

(* One thread is in the single. *)
OneAsks ==
    /\ \A t, u \in Threads : pc[t] \in Asking /\ pc[u] \in Asking => t = u
    /\ \A t \in Threads : pc[t] \in Asking \cup {"b2"} => singleTaken

(* The threads leave on the stop flag, and the region ends for all.        *)
LeaveOnStop ==
    /\ \A t \in Threads : pc[t] \in {"join", "joined"} => worker_stop_signal
    /\ \A t, u \in Threads : pc[t] = "joined" => pc[u] = "joined"

(* With the flag up nobody asks, since some thread never gets to the       *)
(* barrier before the single.                                              *)
NobodyAsks ==
    worker_stop_signal =>
        /\ \A t \in Threads : pc[t] \notin Asking
        /\ \A t \in Threads : pc[t] = "single" => singleTaken
        /\ \E t \in Threads : pc[t] \notin {"start", "b1", "single"}

ControlInv ==
    /\ pc \in [Threads -> Places]
    /\ Together /\ OneAsks /\ LeaveOnStop /\ NobodyAsks

THEOREM ControlCorrect == Spec => []ControlInv
<1> USE DEF Places, Hashing, AboutSingle, Asking
<1>1. Init => ControlInv
  BY DEF Init, ControlInv, Together, OneAsks, LeaveOnStop, NobodyAsks
<1>2. ControlInv /\ [Next]_vars => ControlInv'
  <2> SUFFICES ASSUME ControlInv, [Next]_vars PROVE ControlInv'
    OBVIOUS
  <2> USE DEF SameFlags
  <2>1. CASE UNCHANGED <<pc, singleTaken, worker_stop_signal>>
    BY <2>1 DEF ControlInv, Together, OneAsks, LeaveOnStop, NobodyAsks
  <2>2. CASE MasterDecidesToStop \/ MasterSendsStop \/ SendDone \/ UNCHANGED vars
    BY <2>1, <2>2 DEF MasterDecidesToStop, MasterSendsStop, SendDone, vars, shared, locals
  <2>3. CASE Barriers
    <3>1. Barrier /\ pc' \in [Threads -> Places]
      BY <2>3, BarrierControl
    <3>2. Together' /\ OneAsks'
      BY <3>1 DEF Barrier, BarrierOpens, Together, OneAsks, ControlInv
    <3>3. LeaveOnStop'
      BY <3>1 DEF Barrier, BarrierOpens, LeaveOnStop, ControlInv
    <3>4. NobodyAsks'
      BY <3>1, Sizes DEF Barrier, BarrierOpens, NobodyAsks, ControlInv
    <3> QED
      BY <3>1, <3>2, <3>3, <3>4 DEF ControlInv
  <2>4. ASSUME NEW t \in Threads, Thread(t) PROVE ControlInv'
    <3>1. Control(t) /\ pc' \in [Threads -> Places]
      BY <2>4, ThreadControl DEF ControlInv
    <3>2. Together'
      BY <3>1 DEF Control, Together, ControlInv
    <3>3. OneAsks'
      BY <3>1 DEF Control, OneAsks, ControlInv, Together
    <3>4. LeaveOnStop'
      BY <3>1 DEF Control, LeaveOnStop, ControlInv
    <3>5. NobodyAsks'
      <4>1. SUFFICES ASSUME worker_stop_signal'
                     PROVE  /\ \A u \in Threads : pc'[u] \notin Asking
                            /\ \A u \in Threads : pc'[u] = "single" => singleTaken'
                            /\ pc'[t] \notin {"start", "b1", "single"}
        BY DEF NobodyAsks
      <4>2. CASE worker_stop_signal
        <5>1. /\ \A u \in Threads : pc[u] \notin Asking
              /\ \A u \in Threads : pc[u] = "single" => singleTaken
          BY <4>2 DEF NobodyAsks, ControlInv
        <5>4. pc[t] \notin Asking /\ (pc[t] = "single" => singleTaken)
          BY <5>1
        <5>5. pc'[t] \notin Asking /\ pc'[t] \notin {"start", "b1", "single"}
          BY <3>1, <4>2, <5>4 DEF Control
        <5>6. singleTaken' = singleTaken \/ singleTaken'
          BY <3>1, <5>4 DEF Control
        <5>2. /\ pc'[t] \notin Asking /\ pc'[t] \notin {"start", "b1", "single"}
              /\ singleTaken => singleTaken'
          BY <5>5, <5>6
        <5>3. \A u \in Threads \ {t} : pc'[u] = pc[u]
          BY <3>1 DEF Control
        <5> QED
          BY <5>1, <5>2, <5>3
      <4>3. CASE ~worker_stop_signal
        <5>1. \/ pc[t] = "tick" /\ pc'[t] = "loop" /\ UNCHANGED singleTaken
              \/ pc[t] \in Asking /\ pc'[t] = "b2" /\ UNCHANGED singleTaken
          BY <3>1, <4>1, <4>3 DEF Control
        <5>2. CASE pc[t] = "tick"
          <6>1. \A u \in Threads : pc[u] \in Hashing
            BY <5>2 DEF ControlInv, Together
          <6> QED
            BY <3>1, <5>1, <5>2, <6>1 DEF Control
        <5>3. CASE pc[t] \in Asking
          <6>1. singleTaken /\ \A u \in Threads \ {t} : pc[u] \notin Asking
            BY <5>3 DEF ControlInv, OneAsks
          <6> QED
            BY <3>1, <5>1, <5>3, <6>1 DEF Control
        <5> QED
          BY <5>1, <5>2, <5>3
      <4> QED
        BY <4>2, <4>3
    <3> QED
      BY <3>1, <3>2, <3>3, <3>4, <3>5 DEF ControlInv
  <2> QED
    BY <2>2, <2>3, <2>4 DEF Next
<1> QED
  BY <1>1, <1>2, PTL DEF Spec

(* The blocking request for the next range is made by one thread, while    *)
(* the others wait for it (run_worker, #pragma omp single).                *)
THEOREM RequestIsAlone == Spec => []RequestAlone
<1>1. ControlInv => RequestAlone
  BY DEF ControlInv, Together, OneAsks, RequestAlone, Hashing, AboutSingle, Asking
<1> QED
  BY <1>1, ControlCorrect, PTL

-----------------------------------------------------------------------------
(* The ranges and their slices *)

LEMMA Quotient ==
    ASSUME NEW d \in Nat, NEW n \in Nat \ {0}
    PROVE  /\ d \div n \in Nat /\ (d \div n) * n \in Nat
           /\ (d \div n) * n <= d /\ d < (d \div n) * n + n
<1>1. /\ d \div n \in Int /\ d = (d \div n) * n + (d % n) /\ d % n \in 0..(n - 1)
  OBVIOUS
<1>2. PICK q \in Int, r \in 0..(n - 1) : q = d \div n /\ r = d % n /\ d = q * n + r
  BY <1>1
<1>3. q * n \in Int
  OBVIOUS
<1>4. ~(q < 0)
  <2>1. CASE q < 0
    <3>1. q * n + n <= 0 * n
      BY <2>1, ProductGrows
    <3> QED
      BY <1>2, <1>3, <3>1
  <2> QED
    BY <2>1
<1>5. q \in Nat /\ q * n \in Nat
  BY <1>2, <1>4
<1> QED
  BY <1>2, <1>3, <1>5

(* The range a worker holds is one of the master's, or the empty one that  *)
(* tells it to stop; no later range begins before its end.                 *)
RangeInv ==
    /\ work.start <= work.end
    /\ work.end <= next_counter
    /\ work.end - work.start \in {0, WORK_CHUNK_SIZE}
    /\ work.end = work.start => worker_stop_signal /\ work.end = 0

TypeInv == TypeOK /\ RangeInv

LEMMA WorkParts ==
    ASSUME TypeInv
    PROVE  /\ work.start \in Nat /\ work.end \in Nat /\ work.start <= work.end
           /\ next_counter \in Nat /\ work.end <= next_counter
           /\ work.end - work.start \in {0, WORK_CHUNK_SIZE}
           /\ counter \in [Threads -> Nat] /\ my_end \in [Threads -> Nat]
           /\ local_hashes \in [Threads -> Nat]
           /\ covered \subseteq Nat /\ coinsSent \in [Golden -> Nat]
           /\ total_hashes \in Nat /\ total_coins \in Nat /\ reported \in Nat
  BY DEF TypeInv, TypeOK, RangeInv, WorkRange

(* The slices lie in the range, one behind the other. *)
LEMMA SliceTypes ==
    ASSUME TypeInv, NEW t \in Threads
    PROVE  /\ SliceSize(work) \in Nat
           /\ SliceStart(work, t) \in Nat /\ SliceEnd(work, t) \in Nat
           /\ work.start <= SliceStart(work, t)
           /\ SliceStart(work, t) + SliceSize(work) <= SliceEnd(work, t)
           /\ SliceEnd(work, t) <= work.end
<1>1. PICK a \in Nat, b \in Nat, d \in Nat, s \in Nat :
         /\ a = work.start /\ b = work.end /\ b = a + d /\ s = SliceSize(work)
         /\ s * NumThreads <= d
  <2>1. PICK a \in Nat, b \in Nat, d \in Nat :
           a = work.start /\ b = work.end /\ b = a + d /\ d = b - a
    <3>1. work.end - work.start \in Nat
      BY WorkParts
    <3> QED
      BY <3>1, WorkParts
  <2>2. SliceSize(work) = d \div NumThreads
    BY <2>1 DEF SliceSize
  <2>3. NumThreads \in Nat \ {0}
    BY Sizes
  <2>4. d \div NumThreads \in Nat /\ (d \div NumThreads) * NumThreads <= d
    BY <2>1, <2>3, Quotient
  <2>5. PICK s \in Nat : s = d \div NumThreads
    BY <2>4
  <2>6. s * NumThreads <= d /\ s = SliceSize(work)
    BY <2>2, <2>4, <2>5
  <2> QED
    BY <2>1, <2>6
<1>2. t \in Nat /\ t < NumThreads /\ NumThreads \in Nat
  BY Sizes DEF Threads
<1>3. t * s + s <= NumThreads * s /\ t * s \in Nat /\ NumThreads * s \in Nat
  BY <1>2, ProductGrows
<1>4. NumThreads * s = s * NumThreads
  BY <1>2
<1>5. SliceStart(work, t) = a + t * s
  BY <1>1 DEF SliceStart
<1>6. SliceEnd(work, t) = IF t = NumThreads - 1 THEN b ELSE a + t * s + s
  BY <1>1, <1>5 DEF SliceEnd
<1>7. PICK p \in Nat, q \in Nat : p = t * s /\ q = NumThreads * s
  BY <1>3
<1>8. p + s <= q /\ q <= d
  BY <1>1, <1>3, <1>4, <1>7
<1> QED
  BY <1>1, <1>5, <1>6, <1>7, <1>8

LEMMA SlicesApart ==
    ASSUME TypeInv, NEW t \in Threads, NEW u \in Threads, t < u
    PROVE  SliceEnd(work, t) <= SliceStart(work, u)
<1>1. t \in Int /\ u \in Int /\ t # NumThreads - 1
  BY Sizes DEF Threads
<1>2. PICK s \in Nat, a \in Nat : s = SliceSize(work) /\ a = work.start
  BY SliceTypes, WorkParts
<1>3. t * s + s <= u * s /\ t * s \in Int /\ u * s \in Int
  BY <1>1, ProductGrows
<1>4. SliceEnd(work, t) = a + t * s + s /\ SliceStart(work, u) = a + u * s
  BY <1>1, <1>2 DEF SliceEnd, SliceStart
<1>5. PICK p \in Int, q \in Int : p = t * s /\ q = u * s
  BY <1>3
<1> QED
  BY <1>2, <1>3, <1>4, <1>5

(* And they leave no counter of it out. *)
LEMMA SlicesCover ==
    ASSUME TypeInv, NEW c \in work.start..(work.end - 1)
    PROVE  \E t \in Threads : c \in SliceStart(work, t)..(SliceEnd(work, t) - 1)
<1>1. PICK a \in Nat, b \in Nat, s \in Nat :
         a = work.start /\ b = work.end /\ s = SliceSize(work) /\ c \in a..(b - 1)
  BY SliceTypes, WorkParts, Sizes
<1> DEFINE last == NumThreads - 1
<1>2. last \in Threads /\ last \in Nat
  BY Sizes DEF Threads
<1>3. CASE a + last * s <= c
  <2>1. SliceStart(work, last) = a + last * s /\ SliceEnd(work, last) = b
    BY <1>1 DEF SliceStart, SliceEnd
  <2> QED
    BY <1>1, <1>2, <1>3, <2>1
<1>4. CASE c < a + last * s
  <2>1. PICK x \in Nat, m \in Nat : x = c - a /\ c = a + x /\ m = last * s /\ x < m
    <3>1. c - a \in Nat /\ c = a + (c - a) /\ last * s \in Nat
      BY <1>1, <1>2
    <3> QED
      BY <1>1, <1>4, <3>1
  <2>2. s # 0
    <3>1. CASE s = 0
      <4>1. last * s = 0
        BY <1>2, <3>1
      <4> QED
        BY <2>1, <4>1
    <3> QED
      BY <3>1
  <2>3. PICK t \in Nat : t * s \in Nat /\ t * s <= x /\ x < t * s + s
    BY <2>2, Quotient
  <2>4. t < last
    <3>1. CASE last < t
      <4>1. last * s + s <= t * s
        BY <1>2, <3>1, ProductGrows
      <4> QED
        BY <2>1, <2>3, <4>1
    <3>2. CASE last = t
      BY <2>1, <2>3, <3>2
    <3> QED
      BY <1>2, <3>1, <3>2
  <2>5. t \in Threads /\ t # NumThreads - 1
    BY <1>2, <2>4, Sizes DEF Threads
  <2>6. SliceStart(work, t) = a + t * s /\ SliceEnd(work, t) = a + t * s + s
    BY <1>1, <2>5 DEF SliceStart, SliceEnd
  <2>7. PICK p \in Nat : p = t * s
    BY <2>3
  <2> QED
    BY <1>1, <2>1, <2>3, <2>5, <2>6, <2>7
<1> QED
  BY <1>1, <1>2, <1>3, <1>4

LEMMA RangeFields ==
    /\ \A c \in Nat : /\ RangeAt(c) \in WorkRange /\ RangeAt(c).start = c
                      /\ RangeAt(c).end = c + WORK_CHUNK_SIZE
    /\ StopReply \in WorkRange /\ StopReply.start = 0 /\ StopReply.end = 0
  BY Sizes DEF RangeAt, StopReply, WorkRange

(* What the stride of one step holds. *)
LEMMA StrideTypes ==
    ASSUME NEW c \in Nat
    PROVE  /\ Lanes(c) \subseteq Nat /\ IsFiniteSet(Lanes(c))
           /\ Cardinality(Lanes(c)) = Stride
           /\ IsFiniteSet(CoinsIn(c)) /\ Cardinality(CoinsIn(c)) \in Nat
<1>1. c \in Int /\ c + Stride - 1 \in Int /\ ~(c > c + Stride - 1)
      /\ (c + Stride - 1) - c + 1 = Stride
  BY Sizes
<1>2. Lanes(c) \subseteq Nat
  BY <1>1 DEF Lanes
<1>3. IsFiniteSet(Lanes(c)) /\ Cardinality(Lanes(c)) = Stride
  BY <1>1, FS_Interval DEF Lanes
<1>4. IsFiniteSet(CoinsIn(c))
  BY <1>3, FS_Subset DEF CoinsIn
<1> QED
  BY <1>2, <1>3, <1>4, FS_CardinalityType

Flags == {worker_stop_signal, singleTaken, masterStops, doneSent} \subseteq BOOLEAN

(* The parts of a step that hashes. *)
LEMMA MineParts ==
    ASSUME TypeInv, NEW t \in Threads, MineStep(t)
    PROVE  /\ counter[t] \in Nat
           /\ covered' = covered \cup Lanes(counter[t])
           /\ counter' = [counter EXCEPT ![t] = counter[t] + Stride]
           /\ local_hashes' = [local_hashes EXCEPT ![t] = local_hashes[t] + Stride]
           /\ total_hashes' = total_hashes + Counted(local_hashes[t] + Stride)
           /\ total_coins' = total_coins + Cardinality(CoinsIn(counter[t]))
           /\ coinsSent' \in [Golden -> Nat]
           /\ \A c \in Golden : coinsSent'[c] = coinsSent[c] + IF c \in Lanes(counter[t]) THEN 1 ELSE 0
           /\ pc[t] \in {"loop", "mine"}
           /\ pc[t] = "loop" => counter[t] < my_end[t]
           /\ \E place \in {"loop", "tick"} : pc' = [pc EXCEPT ![t] = place]
           /\ UNCHANGED <<work, worker_stop_signal, singleTaken, my_end, master>>
<1>1. /\ coinsSent' = [c \in Golden |-> coinsSent[c] + IF c \in Lanes(counter[t]) THEN 1 ELSE 0]
      /\ \E place \in {"loop", "tick"} : pc' = [pc EXCEPT ![t] = place]
  BY DEF MineStep, Goto
<1>2. /\ coinsSent' \in [Golden -> Nat]
      /\ \A c \in Golden : coinsSent'[c] = coinsSent[c] + IF c \in Lanes(counter[t]) THEN 1 ELSE 0
  BY <1>1, WorkParts
<1> QED
  BY <1>1, <1>2, WorkParts DEF MineStep

(* Every counter, flag and message has the type the code declares for it,  *)
(* and the ranges come in order.                                           *)
THEOREM TypeCorrect == Spec => []TypeInv
<1> USE DEF shared, locals, master, history
<1>1. Init => TypeInv
  <2> SUFFICES ASSUME Init PROVE TypeInv
    OBVIOUS
  <2>1. Flags
    BY Zenon DEF Init, Flags
  <2>2. /\ work \in WorkRange /\ work.start = 0 /\ work.end = WORK_CHUNK_SIZE
        /\ next_counter = WORK_CHUNK_SIZE
    <3>1. work = RangeAt(0) /\ 0 \in Nat /\ 0 + WORK_CHUNK_SIZE = WORK_CHUNK_SIZE
          /\ next_counter = WORK_CHUNK_SIZE
      BY Sizes DEF Init
    <3> QED
      BY <3>1, RangeFields
  <2>3. RangeInv
    BY <2>2, Sizes DEF RangeInv
  <2>4. /\ total_hashes \in Nat /\ total_coins \in Nat /\ reported \in Nat
        /\ pc \in [Threads -> Places] /\ my_end \in [Threads -> Nat]
        /\ counter \in [Threads -> Nat] /\ local_hashes \in [Threads -> Nat]
        /\ stopMsg \in {"none", "pending", "taken"} /\ next_counter \in Nat
        /\ covered \subseteq Nat /\ coinsSent \in [Golden -> Nat]
    BY Sizes DEF Init, Places
  <2> QED
    BY <2>1, <2>2, <2>3, <2>4, Zenon DEF TypeInv, TypeOK, Flags, Places
<1>2. TypeInv /\ ControlInv /\ [Next]_vars => TypeInv'
  <2> SUFFICES ASSUME TypeInv, ControlInv, [Next]_vars PROVE TypeInv'
    OBVIOUS
  <2>a. Flags /\ stopMsg \in {"none", "pending", "taken"} /\ pc \in [Threads -> Places]
    BY DEF TypeInv, TypeOK, Flags, Places
  <2>b. Flags'
    <3>1. CASE Barriers
      <4>1. UNCHANGED <<worker_stop_signal, masterStops, doneSent>>
        BY <3>1 DEF Barriers, OpenBarrier1, OpenBarrier2, OpenBarrier3, OpenFinalBarrier, LeaveBarrier
      <4>2. singleTaken' = singleTaken \/ singleTaken' = FALSE
        BY <3>1 DEF Barriers, OpenBarrier1, OpenBarrier2, OpenBarrier3, OpenFinalBarrier
      <4> QED
        BY <2>a, <4>1, <4>2, Zenon DEF Flags
    <3>2. CASE MasterDecidesToStop \/ MasterSendsStop \/ SendDone \/ UNCHANGED vars
      <4>1. UNCHANGED <<worker_stop_signal, singleTaken>>
        BY <3>2 DEF MasterDecidesToStop, MasterSendsStop, SendDone, vars
      <4>2. masterStops' = masterStops \/ masterStops' = TRUE
        BY <3>2 DEF MasterDecidesToStop, MasterSendsStop, SendDone, vars
      <4>3. doneSent' = doneSent \/ doneSent' = TRUE
        BY <3>2 DEF MasterDecidesToStop, MasterSendsStop, SendDone, vars
      <4> QED
        BY <2>a, <4>1, <4>2, <4>3, Zenon DEF Flags
    <3>3. ASSUME NEW t \in Threads, Thread(t) PROVE Flags'
      <4> USE DEF Thread, EnterRegion, MineStep, Tick, CheckStop, ReachEndOfSlice, EnterSingle,
              SkipSingle, CheckStopAtEnd, ReceiveAnswer, SplitAgain, LeaveLoop
      <4>1. UNCHANGED <<masterStops, doneSent>>
        BY <3>3
      <4>2. singleTaken' = singleTaken \/ singleTaken' = TRUE
        BY <3>3
      <4>3. worker_stop_signal' = worker_stop_signal \/ worker_stop_signal' = TRUE
        BY <3>3
      <4> QED
        BY <2>a, <4>1, <4>2, <4>3, Zenon DEF Flags
    <3> QED
      BY <3>1, <3>2, <3>3 DEF Next
  <2>c. pc' \in [Threads -> Places]
    <3>1. CASE pc' = pc
      BY <2>a, <3>1
    <3>2. ASSUME NEW t \in Threads, Thread(t) PROVE pc' \in [Threads -> Places]
      BY <2>a, <3>2, ThreadControl
    <3>3. CASE Barriers
      BY <3>3, BarrierControl
    <3>4. CASE MasterDecidesToStop \/ MasterSendsStop \/ SendDone \/ UNCHANGED vars
      BY <3>1, <3>4 DEF MasterDecidesToStop, MasterSendsStop, SendDone, vars
    <3> QED
      BY <3>2, <3>3, <3>4 DEF Next
  <2>d. stopMsg' \in {"none", "pending", "taken"}
    BY <2>a DEF Next, MasterDecidesToStop, MasterSendsStop, SendDone, vars, Barriers,
       OpenBarrier1, OpenBarrier2, OpenBarrier3, OpenFinalBarrier, LeaveBarrier,
       Thread, EnterRegion, MineStep, Tick, CheckStop, ReachEndOfSlice, EnterSingle,
       SkipSingle, CheckStopAtEnd, ReceiveAnswer, SplitAgain, LeaveLoop
  <2>s. worker_stop_signal => worker_stop_signal'
    BY DEF Next, MasterDecidesToStop, MasterSendsStop, SendDone, vars, Barriers,
       OpenBarrier1, OpenBarrier2, OpenBarrier3, OpenFinalBarrier, LeaveBarrier,
       Thread, EnterRegion, MineStep, Tick, CheckStop, ReachEndOfSlice, EnterSingle,
       SkipSingle, CheckStopAtEnd, ReceiveAnswer, SplitAgain, LeaveLoop
  <2>w. ASSUME work' = work, next_counter' = next_counter
        PROVE  work' \in WorkRange /\ next_counter' \in Nat /\ RangeInv'
    BY <2>w, <2>s DEF TypeInv, TypeOK, RangeInv
  <2>q. ASSUME work' \in WorkRange /\ next_counter' \in Nat /\ RangeInv',
               total_hashes' \in Nat /\ total_coins' \in Nat /\ reported' \in Nat,
               my_end' \in [Threads -> Nat], counter' \in [Threads -> Nat],
               local_hashes' \in [Threads -> Nat],
               covered' \subseteq Nat, coinsSent' \in [Golden -> Nat]
        PROVE  TypeInv'
    BY <2>b, <2>c, <2>d, <2>q, Zenon DEF TypeInv, TypeOK, Flags, Places
  <2>1. CASE MasterDecidesToStop \/ MasterSendsStop \/ SendDone \/ Barriers \/ UNCHANGED vars
    <3>1. /\ UNCHANGED <<work, next_counter, total_hashes, total_coins, my_end, counter,
                         local_hashes, covered, coinsSent>>
          /\ reported' = reported \/ reported' = total_hashes
      BY <2>1 DEF MasterDecidesToStop, MasterSendsStop, SendDone, vars, Barriers,
         OpenBarrier1, OpenBarrier2, OpenBarrier3, OpenFinalBarrier, LeaveBarrier
    <3> QED
      BY <2>q, <2>w, <3>1, WorkParts
  <2>2. ASSUME NEW t \in Threads, Thread(t) PROVE TypeInv'
    <3>1. CASE EnterRegion(t) \/ SplitAgain(t)
      <4>1. /\ UNCHANGED <<work, next_counter, total_hashes, total_coins, reported,
                           local_hashes, covered, coinsSent>>
            /\ my_end' = [my_end EXCEPT ![t] = SliceEnd(work, t)]
            /\ counter' = [counter EXCEPT ![t] = SliceStart(work, t)]
        BY <3>1 DEF EnterRegion, SplitAgain, TakeSlice
      <4>2. my_end' \in [Threads -> Nat] /\ counter' \in [Threads -> Nat]
        BY <4>1, WorkParts, SliceTypes
      <4> QED
        BY <2>q, <2>w, <4>1, <4>2, WorkParts
    <3>2. CASE MineStep(t)
      <4>1. \A n \in Nat : Counted(n) \in Nat
        BY Sizes DEF Counted
      <4>2. /\ total_hashes' \in Nat /\ counter' \in [Threads -> Nat]
            /\ local_hashes' \in [Threads -> Nat]
        BY <3>2, <4>1, MineParts, WorkParts, Sizes
      <4>3. total_coins' \in Nat /\ covered' \subseteq Nat
        BY <3>2, MineParts, WorkParts, StrideTypes
      <4>4. UNCHANGED <<work, next_counter, my_end, reported>>
        BY <3>2, MineParts
      <4>5. coinsSent' \in [Golden -> Nat]
        BY <3>2, MineParts
      <4> QED
        BY <2>q, <2>w, <4>2, <4>3, <4>4, <4>5, WorkParts
    <3>3. CASE Tick(t) \/ ReachEndOfSlice(t) \/ EnterSingle(t) \/ SkipSingle(t) \/ CheckStopAtEnd(t)
      <4>1. /\ UNCHANGED <<work, next_counter, total_hashes, total_coins, my_end, counter,
                           local_hashes, covered, coinsSent>>
            /\ reported' = reported \/ reported' = total_hashes
        BY <3>3 DEF Tick, ReachEndOfSlice, EnterSingle, SkipSingle, CheckStopAtEnd
      <4> QED
        BY <2>q, <2>w, <4>1, WorkParts
    <3>4. CASE ReceiveAnswer(t)
      <4>1. UNCHANGED <<total_hashes, total_coins, my_end, counter, local_hashes, reported,
                        covered, coinsSent>>
        BY <3>4 DEF ReceiveAnswer
      <4>2. \/ work' = StopReply /\ worker_stop_signal' /\ next_counter' = next_counter
            \/ work' = RangeAt(next_counter) /\ next_counter' = next_counter + WORK_CHUNK_SIZE
        BY <3>4 DEF ReceiveAnswer
      <4>3. next_counter \in Nat
        BY WorkParts
      <4>4. /\ work' \in WorkRange /\ next_counter' \in Nat
            /\ \/ work'.start = 0 /\ work'.end = 0 /\ worker_stop_signal'
               \/ work'.start = next_counter /\ work'.end = next_counter + WORK_CHUNK_SIZE
                  /\ next_counter' = next_counter + WORK_CHUNK_SIZE
        BY <4>2, <4>3, RangeFields, Sizes
      <4>5. RangeInv'
        BY <4>3, <4>4, Sizes DEF RangeInv
      <4> QED
        BY <2>q, <4>1, <4>4, <4>5, WorkParts
    <3>5. CASE LeaveLoop(t)
      <4>1. UNCHANGED <<work, next_counter, total_coins, my_end, counter, local_hashes, reported,
                        covered, coinsSent>>
        BY <3>5 DEF LeaveLoop
      <4>2. total_hashes' \in Nat
        <5>1. \A n \in Nat : n % StatsBatch \in Nat
          BY Sizes
        <5> QED
          BY <3>5, <5>1, WorkParts DEF LeaveLoop, Remainder
      <4> QED
        BY <2>q, <2>w, <4>1, <4>2, WorkParts
    <3> QED
      BY <2>2, <3>1, <3>2, <3>3, <3>4, <3>5 DEF Thread
  <2> QED
    BY <2>1, <2>2 DEF Next
<1> QED
  BY <1>1, <1>2, ControlCorrect, PTL DEF Spec

-----------------------------------------------------------------------------
(* What is hashed of a range *)

SliceOf(t) == SliceStart(work, t)..(SliceEnd(work, t) - 1)
BeforeCounter(t) == SliceStart(work, t)..(counter[t] - 1)

(* A thread in its slice has hashed it up to its counter; one at the       *)
(* barrier behind has hashed all of it, and whoever is in the single does  *)
(* so when everybody's slice is done.                                      *)
SliceInv(t) ==
    /\ pc[t] \in InSlice => /\ my_end[t] = SliceEnd(work, t)
                            /\ SliceStart(work, t) <= counter[t]
                            /\ BeforeCounter(t) \subseteq covered
    /\ pc[t] = "b1" => SliceOf(t) \subseteq covered
    /\ pc[t] = "single" => singleTaken \/ SliceOf(t) \subseteq covered

AllDone == \A t \in Threads : SliceOf(t) \subseteq covered

HashedInv ==
    /\ \A t \in Threads : SliceInv(t)
    /\ \A u \in Threads : pc[u] \in Asking => AllDone

(* Steps that leave a thread's slice alone. *)
KeepsSlice(t) ==
    /\ work' = work /\ covered \subseteq covered'
    /\ my_end'[t] = my_end[t] /\ counter'[t] = counter[t]

LEMMA SliceKept ==
    ASSUME NEW t \in Threads, SliceInv(t), KeepsSlice(t),
           \/ pc'[t] = pc[t] /\ (singleTaken => singleTaken')
           \/ pc'[t] \in {"start", "check", "request", "b2", "b3", "resplit", "join", "joined"}
           \/ pc[t] \in InSlice /\ pc'[t] \in InSlice
    PROVE  SliceInv(t)'
<1>1. /\ (pc[t] \in InSlice)' => pc[t] \in InSlice
      /\ (pc[t] = "b1")' => pc[t] = "b1"
      /\ (pc[t] = "single")' => pc[t] = "single" /\ (singleTaken => singleTaken')
  BY DEF InSlice
<1>2. /\ (pc[t] \in InSlice)' => /\ (my_end[t] = SliceEnd(work, t))'
                                 /\ (SliceStart(work, t) <= counter[t])'
                                 /\ (BeforeCounter(t) \subseteq covered)'
  BY <1>1 DEF SliceInv, KeepsSlice, BeforeCounter
<1>3. SliceOf(t)' = SliceOf(t) /\ covered \subseteq covered'
  BY DEF KeepsSlice, SliceOf
<1>4. (pc[t] = "b1")' => (SliceOf(t) \subseteq covered)'
  BY <1>1, <1>3 DEF SliceInv
<1>5. (pc[t] = "single")' => (singleTaken \/ SliceOf(t) \subseteq covered)'
  BY <1>1, <1>3 DEF SliceInv
<1> QED
  BY <1>2, <1>4, <1>5 DEF SliceInv

LEMMA DoneKept ==
    ASSUME AllDone, work' = work, covered \subseteq covered'
    PROVE  AllDone'
<1>1. ASSUME NEW t \in Threads PROVE SliceOf(t)' = SliceOf(t)
  BY DEF SliceOf
<1> QED
  BY <1>1 DEF AllDone

THEOREM HashedCorrect == Spec => []HashedInv
<1> USE DEF shared, locals, master, history
<1>1. Init => HashedInv
  BY DEF Init, HashedInv, SliceInv, InSlice, Asking
<1>2. HashedInv /\ TypeInv /\ ControlInv /\ [Next]_vars => HashedInv'
  <2> SUFFICES ASSUME HashedInv, TypeInv, ControlInv, [Next]_vars PROVE HashedInv'
    OBVIOUS
  <2>p. pc \in [Threads -> Places]
    BY DEF ControlInv
  <2>1. CASE MasterDecidesToStop \/ MasterSendsStop \/ SendDone \/ UNCHANGED vars
    <3>1. UNCHANGED <<pc, work, covered, my_end, counter, singleTaken>>
      BY <2>1 DEF MasterDecidesToStop, MasterSendsStop, SendDone, vars
    <3>2. \A t \in Threads : SliceInv(t)'
      BY <3>1, SliceKept DEF HashedInv, KeepsSlice
    <3>3. \A u \in Threads : pc'[u] \in Asking => AllDone'
      BY <3>1, DoneKept DEF HashedInv
    <3> QED
      BY <3>2, <3>3 DEF HashedInv
  <2>2. CASE Barriers
    <3>1. UNCHANGED <<work, covered, my_end, counter>> /\ Barrier
      BY <2>2, BarrierControl DEF Barriers, OpenBarrier1, OpenBarrier2, OpenBarrier3,
         OpenFinalBarrier, LeaveBarrier
    <3>2. \A u \in Threads : pc'[u] \notin Asking
      BY <3>1 DEF Barrier, BarrierOpens, Asking
    <3>3. ASSUME NEW t \in Threads PROVE SliceInv(t)'
      <4>1. SliceInv(t) /\ KeepsSlice(t)
        BY <3>1 DEF HashedInv, KeepsSlice
      <4>2. CASE pc[t] = "b1" /\ pc'[t] = "single"
        <5>1. SliceOf(t)' \subseteq covered'
          BY <3>1, <4>1, <4>2 DEF SliceInv, SliceOf
        <5> QED
          BY <4>2, <5>1 DEF SliceInv, InSlice
      <4>3. CASE pc'[t] \in {"b3", "resplit", "joined"}
        BY <4>1, <4>3, SliceKept
      <4> QED
        BY <3>1, <4>2, <4>3 DEF Barrier, BarrierOpens
    <3> QED
      BY <3>2, <3>3 DEF HashedInv
  <2>3. ASSUME NEW t \in Threads, Thread(t) PROVE HashedInv'
    <3>c. Control(t)
      BY <2>3, <2>p, ThreadControl
    <3>o. \A u \in Threads \ {t} : pc'[u] = pc[u]
      BY <3>c DEF Control
    <3>s. singleTaken => singleTaken'
      BY <3>c DEF Control, SameFlags
    <3>q. ASSUME work' = work, covered \subseteq covered',
                 \A u \in Threads \ {t} : my_end'[u] = my_end[u] /\ counter'[u] = counter[u],
                 SliceInv(t)', pc'[t] \in Asking => AllDone
          PROVE  HashedInv'
      <4>1. ASSUME NEW u \in Threads PROVE SliceInv(u)'
        <5>1. CASE u = t
          BY <3>q, <5>1
        <5>2. CASE u # t
          <6>1. KeepsSlice(u) /\ pc'[u] = pc[u] /\ SliceInv(u)
            BY <3>q, <3>o, <5>2 DEF KeepsSlice, HashedInv
          <6> QED
            BY <3>s, <6>1, SliceKept
        <5> QED
          BY <5>1, <5>2
      <4>2. ASSUME NEW u \in Threads, pc'[u] \in Asking PROVE AllDone'
        <5>1. AllDone
          BY <3>q, <3>o, <4>2 DEF HashedInv
        <5> QED
          BY <3>q, <5>1, DoneKept
      <4> QED
        BY <4>1, <4>2 DEF HashedInv
    <3>1. CASE EnterRegion(t) \/ SplitAgain(t)
      <4>1. /\ UNCHANGED <<work, covered>> /\ pc' = [pc EXCEPT ![t] = pc'[t]]
            /\ pc'[t] \in {"loop", "mine"}
            /\ my_end' = [my_end EXCEPT ![t] = SliceEnd(work, t)]
            /\ counter' = [counter EXCEPT ![t] = SliceStart(work, t)]
        BY <3>1, <2>p DEF EnterRegion, SplitAgain, TakeSlice, Goto
      <4>2. my_end'[t] = SliceEnd(work, t) /\ counter'[t] = SliceStart(work, t)
        BY <4>1, WorkParts
      <4>3. SliceStart(work, t) \in Nat
        BY SliceTypes
      <4>4. BeforeCounter(t)' = {}
        BY <4>1, <4>2, <4>3 DEF BeforeCounter
      <4>5. SliceInv(t)'
        BY <4>1, <4>2, <4>3, <4>4 DEF SliceInv
      <4>6. \A u \in Threads \ {t} : my_end'[u] = my_end[u] /\ counter'[u] = counter[u]
        BY <4>1, WorkParts
      <4> QED
        BY <3>q, <4>1, <4>5, <4>6 DEF Asking
    <3>2. CASE MineStep(t)
      <4>1. /\ pc[t] \in InSlice /\ pc'[t] \in InSlice /\ pc'[t] \notin Asking
            /\ pc'[t] \in {"loop", "tick"}
        BY <3>2, <2>p, MineParts DEF InSlice, Asking
      <4>2. counter'[t] = counter[t] + Stride /\ my_end'[t] = my_end[t] /\ work' = work
            /\ covered' = covered \cup Lanes(counter[t])
            /\ \A u \in Threads \ {t} : my_end'[u] = my_end[u] /\ counter'[u] = counter[u]
        BY <3>2, MineParts, WorkParts
      <4>3. PICK a \in Nat, c \in Nat : a = SliceStart(work, t) /\ c = counter[t] /\ a <= c
                                       /\ a..(c - 1) \subseteq covered
        <5>1. SliceStart(work, t) \in Nat /\ counter[t] \in Nat
          BY SliceTypes, WorkParts
        <5> QED
          BY <4>1, <5>1 DEF HashedInv, SliceInv, BeforeCounter
      <4>4. a..(c + Stride - 1) \subseteq a..(c - 1) \cup Lanes(c)
        BY <4>3, Sizes DEF Lanes
      <4>5. (BeforeCounter(t) \subseteq covered)'
        <5>1. SliceStart(work, t)' = a
          BY <4>2, <4>3
        <5>2. counter'[t] - 1 = c + Stride - 1
          BY <4>2, <4>3, Sizes
        <5>3. BeforeCounter(t)' = a..(c + Stride - 1)
          BY <5>1, <5>2 DEF BeforeCounter
        <5> QED
          BY <4>2, <4>3, <4>4, <5>3
      <4>6. (SliceStart(work, t) <= counter[t])'
        BY <4>2, <4>3, Sizes
      <4>7. (my_end[t] = SliceEnd(work, t))'
        BY <4>1, <4>2 DEF HashedInv, SliceInv
      <4>8. SliceInv(t)'
        BY <4>1, <4>5, <4>6, <4>7 DEF SliceInv, InSlice
      <4> QED
        BY <3>q, <4>1, <4>2, <4>8
    <3>3. CASE ReachEndOfSlice(t)
      <4>1. /\ UNCHANGED <<work, covered, my_end, counter>>
            /\ pc[t] = "loop" /\ pc'[t] = "b1" /\ counter[t] >= my_end[t]
        BY <3>3, <2>p DEF ReachEndOfSlice, Goto
      <4>2. PICK a \in Nat, c \in Nat, e \in Nat :
              /\ a = SliceStart(work, t) /\ c = counter[t] /\ e = SliceEnd(work, t)
              /\ e <= c /\ a..(c - 1) \subseteq covered
        <5>1. /\ SliceStart(work, t) \in Nat /\ counter[t] \in Nat /\ SliceEnd(work, t) \in Nat
          BY SliceTypes, WorkParts
        <5>2. SliceInv(t) /\ pc[t] \in InSlice
          BY <4>1 DEF HashedInv, InSlice
        <5> QED
          BY <4>1, <5>1, <5>2 DEF SliceInv, BeforeCounter
      <4>3. a..(e - 1) \subseteq a..(c - 1)
        BY <4>2
      <4>4. (SliceOf(t) \subseteq covered)'
        BY <4>1, <4>2, <4>3 DEF SliceOf
      <4>5. SliceInv(t)'
        BY <4>1, <4>4 DEF SliceInv, InSlice
      <4> QED
        BY <3>q, <4>1, <4>5 DEF Asking
    <3>4. CASE Tick(t) \/ SkipSingle(t) \/ CheckStopAtEnd(t) \/ LeaveLoop(t)
      <4>1. UNCHANGED <<work, covered, my_end, counter>>
        BY <3>4 DEF Tick, SkipSingle, CheckStopAtEnd, LeaveLoop
      <4>2. \/ pc[t] = "tick" /\ pc'[t] = "loop"
            \/ pc'[t] \in {"b2", "join"}
            \/ pc[t] = "check" /\ pc'[t] = "request"
        BY <3>4, <2>p DEF Tick, SkipSingle, CheckStopAtEnd, LeaveLoop, Goto, WaitsForSingle
      <4>3. SliceInv(t)'
        BY <4>1, <4>2, SliceKept DEF HashedInv, KeepsSlice, InSlice
      <4>4. pc'[t] \in Asking => AllDone
        BY <4>2 DEF HashedInv, Asking
      <4> QED
        BY <3>q, <4>1, <4>3, <4>4
    <3>5. CASE EnterSingle(t)
      <4>1. UNCHANGED <<work, covered, my_end, counter>> /\ pc[t] = "single" /\ ~singleTaken
            /\ pc'[t] = "check"
        BY <3>5, <2>p DEF EnterSingle, FirstToArrive, Goto
      <4>2. ASSUME NEW u \in Threads PROVE SliceOf(u) \subseteq covered
        <5>1. pc[u] \in AboutSingle
          BY <4>1 DEF ControlInv, Together, AboutSingle, Hashing
        <5>2. pc[u] \notin Asking \cup {"b2"}
          BY <4>1 DEF ControlInv, OneAsks
        <5> QED
          BY <4>1, <5>1, <5>2 DEF HashedInv, SliceInv, AboutSingle, Asking
      <4>3. SliceInv(t)'
        BY <4>1, SliceKept DEF HashedInv, KeepsSlice
      <4> QED
        BY <3>q, <4>1, <4>2, <4>3 DEF AllDone
    <3>6. CASE ReceiveAnswer(t)
      <4>1. pc[t] = "request" /\ pc'[t] = "b2" /\ singleTaken' = singleTaken
        BY <3>6, <2>p DEF ReceiveAnswer, Goto
      <4>2. singleTaken /\ \A u \in Threads \ {t} : pc[u] \in {"single", "b2"}
        BY <4>1 DEF ControlInv, Together, OneAsks, AboutSingle, Asking, Hashing
      <4>3. ASSUME NEW u \in Threads PROVE SliceInv(u)' /\ pc'[u] \notin Asking
        BY <3>o, <4>1, <4>2 DEF SliceInv, InSlice, Asking
      <4> QED
        BY <4>3 DEF HashedInv
    <3> QED
      BY <2>3, <3>1, <3>2, <3>3, <3>4, <3>5, <3>6 DEF Thread
  <2> QED
    BY <2>1, <2>2, <2>3 DEF Next
<1> QED
  BY <1>1, <1>2, TypeCorrect, ControlCorrect, PTL DEF Spec

(* No thread keeps the slice of an old range, nor reads `work` before the  *)
(* single has stored the answer (run_worker, my_start and my_end).         *)
THEOREM RangesAreTheSame == Spec => []SameRange
<1>1. HashedInv => SameRange
  BY DEF HashedInv, SliceInv, SameRange
<1> QED
  BY <1>1, HashedCorrect, PTL

(* Before the next range is asked for, every counter of the last one has   *)
(* been hashed, the rest of its division by the threads included.          *)
THEOREM RangesAreExhausted == Spec => []RangeExhausted
<1>1. HashedInv /\ TypeInv => RangeExhausted
  <2> SUFFICES ASSUME HashedInv, TypeInv, NEW u \in Threads, pc[u] \in Asking,
                      NEW c \in work.start..(work.end - 1)
               PROVE  c \in covered
    BY DEF RangeExhausted, Asking
  <2>1. PICK t \in Threads : c \in SliceStart(work, t)..(SliceEnd(work, t) - 1)
    BY SlicesCover
  <2> QED
    BY <2>1 DEF HashedInv, AllDone, SliceOf
<1> QED
  BY <1>1, HashedCorrect, TypeCorrect, PTL

-----------------------------------------------------------------------------
(* total_hashes *)

(* What thread t has added to total_hashes: the full batches of its hashes *)
(* while it runs, all of them once it has left.                            *)
AddedBy(t) ==
    IF pc[t] \in {"join", "joined"} THEN local_hashes[t]
    ELSE local_hashes[t] - (local_hashes[t] % StatsBatch)

AddedInv ==
    /\ \A t \in Threads : \E k \in Nat : local_hashes[t] = k * Stride
    /\ total_hashes = SumFunction([t \in Threads |-> AddedBy(t)])

ReportInv ==
    /\ reported <= total_hashes
    /\ doneSent => pc[0] = "joined"
    /\ doneSent => reported = total_hashes

OnlyAdds(t) ==
    \A u \in Threads \ {t} : pc'[u] = pc[u] /\ local_hashes'[u] = local_hashes[u]

LEMMA AddedType ==
    ASSUME TypeInv, NEW t \in Threads
    PROVE  /\ local_hashes[t] \in Nat /\ AddedBy(t) \in Int
           /\ AddedBy(t) <= local_hashes[t]
           /\ (local_hashes[t] % StatsBatch) \in Nat
<1>1. local_hashes[t] \in Nat
  BY WorkParts
<1>2. \A n \in Nat : n % StatsBatch \in 0..(StatsBatch - 1)
  BY Sizes
<1>3. PICK n \in Nat, r \in Nat : n = local_hashes[t] /\ r = local_hashes[t] % StatsBatch
  <2>1. (local_hashes[t] % StatsBatch) \in 0..(StatsBatch - 1)
    BY <1>1, <1>2
  <2>2. (local_hashes[t] % StatsBatch) \in Nat
    BY <2>1, Sizes
  <2> QED
    BY <1>1, <2>2
<1>4. AddedBy(t) = n \/ AddedBy(t) = n - r
  BY <1>3 DEF AddedBy
<1> QED
  BY <1>1, <1>3, <1>4

(* What one thread adds is what total_hashes grows by. *)
LEMMA AddedMoves ==
    ASSUME TypeInv, TypeInv', AddedInv, NEW t \in Threads, OnlyAdds(t),
           total_hashes' - total_hashes = AddedBy(t)' - AddedBy(t)
    PROVE  total_hashes' = SumFunction([u \in Threads |-> AddedBy(u)])'
<1> DEFINE f == [u \in Threads |-> AddedBy(u)]
<1>1. f \in [Threads -> Int] /\ f[t] \in Int
  BY AddedType
<1>2. f' \in [Threads -> Int] /\ f'[t] \in Int
  <2>1. \A n \in Nat : (n % StatsBatch) \in Nat /\ n - (n % StatsBatch) \in Int
    BY Sizes
  <2>2. local_hashes' \in [Threads -> Nat]
    BY DEF TypeInv, TypeOK
  <2>3. \A u \in Threads : AddedBy(u)' \in Int
    BY <2>1, <2>2 DEF AddedBy
  <2> QED
    BY <2>3
<1>3. \A u \in Threads \ {t} : f'[u] = f[u]
  BY DEF OnlyAdds, AddedBy
<1>4. f[t] = AddedBy(t) /\ f'[t] = AddedBy(t)'
  OBVIOUS
<1>5. total_hashes = SumFunction(f)
  BY DEF AddedInv
<1>6. total_hashes \in Int /\ total_hashes' \in Int
  BY DEF TypeInv, TypeOK
<1>s. SUFFICES total_hashes' = SumFunction(f')
  OBVIOUS
<1> HIDE DEF f
<1>7. SumFunction(f') = SumFunction(f) - f[t] + f'[t]
  BY <1>1, <1>2, <1>3, FiniteThreads, SumOfUpdate
<1>8. PICK a \in Int, b \in Int, x \in Int, y \in Int :
         /\ a = total_hashes /\ b = total_hashes' /\ x = f[t] /\ y = f'[t]
  BY <1>1, <1>2, <1>6
<1>9. b - a = y - x /\ SumFunction(f') = a - x + y
  BY <1>4, <1>5, <1>7, <1>8
<1>10. b = a - x + y
  BY <1>9
<1> QED
  BY <1>8, <1>9, <1>10

(* A step that hashes adds a batch when it completes one. *)
LEMMA MineAdds ==
    ASSUME TypeInv, ControlInv, AddedInv, NEW t \in Threads, MineStep(t)
    PROVE  /\ total_hashes' - total_hashes = AddedBy(t)' - AddedBy(t)
           /\ \E k \in Nat : local_hashes'[t] = k * Stride
<1>1. /\ pc[t] \notin {"join", "joined"} /\ pc'[t] \notin {"join", "joined"}
      /\ local_hashes'[t] = local_hashes[t] + Stride
      /\ total_hashes' = total_hashes + Counted(local_hashes[t] + Stride)
  BY MineParts, WorkParts DEF ControlInv
<1>2. PICK n \in Nat, k \in Nat : n = local_hashes[t] /\ n = k * Stride
  BY WorkParts DEF AddedInv
<1>3. n + Stride = (k + 1) * Stride /\ k + 1 \in Nat
  BY <1>2, Sizes
<1>4. /\ AddedBy(t) = n - (n % StatsBatch)
      /\ AddedBy(t)' = (n + Stride) - ((n + Stride) % StatsBatch)
  BY <1>1, <1>2 DEF AddedBy
<1>5. PICK m \in Nat : StatsBatch = m * Stride
  <2>1. PICK q \in Int, r \in 0..(Stride - 1) : StatsBatch = q * Stride + r /\ r = StatsBatch % Stride
    <3>1. StatsBatch \in Nat /\ Stride \in Nat \ {0}
      BY Sizes
    <3> QED
      BY <3>1, QuotientAndRemainder, Zenon
  <2>2. q * Stride \in Int /\ StatsBatch = q * Stride
    BY <2>1, StatsBatchAssumption, Sizes
  <2>3. CASE q < 0
    <3>1. q * Stride + Stride <= 0 * Stride
      BY <2>3, Sizes, ProductGrows
    <3> QED
      BY <2>2, <3>1, Sizes
  <2> QED
    BY <2>2, <2>3
<1>6. (n + Stride) - ((n + Stride) % StatsBatch)
        = (n - (n % StatsBatch)) + IF (n + Stride) % StatsBatch = 0 THEN StatsBatch ELSE 0
  <2>1. Stride \in Nat \ {0} /\ StatsBatch \in Nat \ {0}
    BY Sizes
  <2> QED
    BY <1>2, <1>5, <2>1, FullMultiples
<1>7. AddedBy(t)' = AddedBy(t) + Counted(n + Stride)
  BY <1>4, <1>6 DEF Counted
<1>8. AddedBy(t) \in Int /\ Counted(n + Stride) \in Int /\ total_hashes \in Int
  BY AddedType, Sizes, WorkParts DEF Counted
<1>9. PICK a \in Int, x \in Int, y \in Int :
         a = total_hashes /\ x = AddedBy(t) /\ y = Counted(n + Stride)
  BY <1>8
<1>10. total_hashes' = a + y /\ AddedBy(t)' = x + y
  BY <1>1, <1>2, <1>7, <1>9
<1>11. (a + y) - a = (x + y) - x
  OBVIOUS
<1> QED
  BY <1>1, <1>2, <1>3, <1>9, <1>10, <1>11

(* total_hashes is the sum of what the threads have added to it, batch by  *)
(* batch and the rest when they leave.                                     *)
THEOREM AddedCorrect == Spec => []AddedInv
<1>1. Init => AddedInv
  <2> SUFFICES ASSUME Init PROVE AddedInv
    OBVIOUS
  <2>1. 0 % StatsBatch = 0
    <3>1. 0 = 0 * StatsBatch + 0 /\ 0 \in 0..(StatsBatch - 1) /\ StatsBatch \in Nat \ {0}
      BY Sizes
    <3> QED
      BY <3>1, RemainderOf
  <2>2. [t \in Threads |-> AddedBy(t)] = [t \in Threads |-> 0]
    BY <2>1 DEF Init, AddedBy
  <2>3. \A t \in Threads : local_hashes[t] = 0 * Stride
    BY Sizes DEF Init
  <2> QED
    BY <2>2, <2>3, FiniteThreads, SumOfZeros DEF Init, AddedInv
<1>2. TypeInv /\ TypeInv' /\ ControlInv /\ AddedInv /\ [Next]_vars => AddedInv'
  <2> SUFFICES ASSUME TypeInv, TypeInv', ControlInv, AddedInv, [Next]_vars PROVE AddedInv'
    OBVIOUS
  <2> USE DEF shared, locals, master, history
  <2>p. pc \in [Threads -> Places]
    BY DEF ControlInv
  <2>s. ASSUME local_hashes' = local_hashes, total_hashes' = total_hashes,
               \A t \in Threads : pc'[t] \in {"join", "joined"} <=> pc[t] \in {"join", "joined"}
        PROVE  AddedInv'
    <3>1. [t \in Threads |-> AddedBy(t)]' = [t \in Threads |-> AddedBy(t)]
      BY <2>s DEF AddedBy
    <3> QED
      BY <2>s, <3>1 DEF AddedInv
  <2>1. CASE MasterDecidesToStop \/ MasterSendsStop \/ SendDone \/ UNCHANGED vars
    <3>1. UNCHANGED <<pc, local_hashes, total_hashes>>
      BY <2>1 DEF MasterDecidesToStop, MasterSendsStop, SendDone, vars
    <3> QED
      BY <2>s, <3>1
  <2>2. CASE Barriers
    <3>1. UNCHANGED <<local_hashes, total_hashes>> /\ Barrier
      BY <2>2, BarrierControl DEF Barriers, OpenBarrier1, OpenBarrier2, OpenBarrier3,
         OpenFinalBarrier, LeaveBarrier
    <3> QED
      BY <2>s, <3>1 DEF Barrier, BarrierOpens
  <2>3. ASSUME NEW t \in Threads, Thread(t) PROVE AddedInv'
    <3>c. Control(t) /\ \A u \in Threads \ {t} : pc'[u] = pc[u]
      BY <2>3, <2>p, ThreadControl DEF Control
    <3>1. CASE MineStep(t)
      <4>1. OnlyAdds(t)
        BY <3>1, <3>c, MineParts, WorkParts DEF OnlyAdds
      <4>2. total_hashes' = SumFunction([u \in Threads |-> AddedBy(u)])'
        BY <3>1, <4>1, MineAdds, AddedMoves
      <4>3. \A u \in Threads : \E k \in Nat : local_hashes'[u] = k * Stride
        BY <3>1, <4>1, MineAdds DEF OnlyAdds, AddedInv
      <4> QED
        BY <4>2, <4>3 DEF AddedInv
    <3>2. CASE LeaveLoop(t)
      <4>1. /\ local_hashes' = local_hashes /\ pc[t] \notin {"join", "joined"}
            /\ pc'[t] = "join" /\ total_hashes' = total_hashes + Remainder(t)
        BY <3>2, <2>p DEF LeaveLoop, Goto
      <4>2. OnlyAdds(t)
        BY <3>c, <4>1 DEF OnlyAdds
      <4>3. PICK n \in Nat, r \in Nat, a \in Int :
               n = local_hashes[t] /\ r = local_hashes[t] % StatsBatch /\ a = total_hashes
        BY AddedType, WorkParts
      <4>4. AddedBy(t) = n - r /\ AddedBy(t)' = n /\ total_hashes' = a + r
        BY <4>1, <4>3 DEF AddedBy, Remainder
      <4>5. total_hashes' - total_hashes = AddedBy(t)' - AddedBy(t)
        BY <4>3, <4>4
      <4>6. total_hashes' = SumFunction([u \in Threads |-> AddedBy(u)])'
        BY <4>2, <4>5, AddedMoves
      <4> QED
        BY <4>1, <4>6 DEF AddedInv
    <3>3. CASE EnterRegion(t) \/ Tick(t) \/ ReachEndOfSlice(t) \/ EnterSingle(t) \/ SkipSingle(t)
               \/ CheckStopAtEnd(t) \/ ReceiveAnswer(t) \/ SplitAgain(t)
      <4>1. /\ UNCHANGED <<local_hashes, total_hashes>>
            /\ pc[t] \notin {"join", "joined"} /\ pc'[t] \notin {"join", "joined"}
        BY <3>3, <2>p DEF EnterRegion, Tick, ReachEndOfSlice, EnterSingle, SkipSingle,
           CheckStopAtEnd, ReceiveAnswer, SplitAgain, Goto, WaitsForSingle
      <4> QED
        BY <2>s, <3>c, <4>1
    <3> QED
      BY <2>3, <3>1, <3>2, <3>3 DEF Thread
  <2> QED
    BY <2>1, <2>2, <2>3 DEF Next
<1> QED
  BY <1>1, <1>2, TypeCorrect, ControlCorrect, PTL DEF Spec

(* The statistics messages: what was sent last is never more than          *)
(* total_hashes, and after WORKER_DONE the two are equal.                  *)
THEOREM ReportCorrect == Spec => []ReportInv
<1>1. Init => ReportInv
  BY DEF Init, ReportInv
<1>2. TypeInv /\ TypeInv' /\ ControlInv /\ ReportInv /\ [Next]_vars => ReportInv'
  <2> SUFFICES ASSUME TypeInv, TypeInv', ControlInv, ReportInv, [Next]_vars PROVE ReportInv'
    OBVIOUS
  <2> USE DEF shared, locals, master, history
  <2>p. /\ pc \in [Threads -> Places] /\ 0 \in Threads /\ reported \in Int /\ reported' \in Int
        /\ total_hashes \in Int /\ total_hashes' \in Int
    BY Sizes DEF ControlInv, TypeInv, TypeOK
  <2>a. doneSent => \A t \in Threads : pc[t] = "joined"
    BY <2>p DEF ReportInv, ControlInv, LeaveOnStop
  <2>1. CASE MasterDecidesToStop \/ MasterSendsStop \/ UNCHANGED vars
    BY <2>1 DEF MasterDecidesToStop, MasterSendsStop, vars, ReportInv
  <2>2. CASE SendDone
    BY <2>2, <2>p DEF SendDone, ReportInv
  <2>3. CASE Barriers
    <3>1. UNCHANGED <<reported, total_hashes, doneSent>> /\ Barrier
      BY <2>3, BarrierControl DEF Barriers, OpenBarrier1, OpenBarrier2, OpenBarrier3,
         OpenFinalBarrier, LeaveBarrier
    <3>2. ~doneSent
      BY <2>a, <2>p, <3>1 DEF Barrier, BarrierOpens
    <3> QED
      BY <3>1, <3>2 DEF ReportInv
  <2>4. ASSUME NEW t \in Threads, Thread(t) PROVE ReportInv'
    <3>1. ~doneSent
      BY <2>4, <2>a, <2>p, ThreadControl DEF Control
    <3>2. doneSent' = doneSent
      BY <2>4 DEF Thread, EnterRegion, MineStep, Tick, ReachEndOfSlice, EnterSingle, SkipSingle,
         CheckStopAtEnd, ReceiveAnswer, SplitAgain, LeaveLoop
    <3>3. reported' = reported \/ (reported' = total_hashes /\ total_hashes' = total_hashes)
      BY <2>4 DEF Thread, EnterRegion, MineStep, Tick, ReachEndOfSlice, EnterSingle, SkipSingle,
         CheckStopAtEnd, ReceiveAnswer, SplitAgain, LeaveLoop
    <3>4. total_hashes <= total_hashes'
      <4>1. CASE MineStep(t)
        <5>1. total_hashes' = total_hashes + Counted(local_hashes[t] + Stride)
              /\ Counted(local_hashes[t] + Stride) \in Nat
          BY <4>1, MineParts, Sizes DEF Counted
        <5> QED
          BY <2>p, <5>1
      <4>2. CASE LeaveLoop(t)
        <5>1. total_hashes' = total_hashes + Remainder(t) /\ Remainder(t) \in Nat
          BY <4>2, AddedType DEF LeaveLoop, Remainder
        <5> QED
          BY <2>p, <5>1
      <4>3. CASE total_hashes' = total_hashes
        BY <2>p, <4>3
      <4> QED
        BY <2>4, <4>1, <4>2, <4>3 DEF Thread, EnterRegion, Tick, ReachEndOfSlice, EnterSingle,
           SkipSingle, CheckStopAtEnd, ReceiveAnswer, SplitAgain
    <3>5. PICK r \in Int, s \in Int, h \in Int, g \in Int :
             r = reported /\ s = reported' /\ h = total_hashes /\ g = total_hashes'
      BY <2>p
    <3>6. s <= g
      BY <3>3, <3>4, <3>5 DEF ReportInv
    <3> QED
      BY <3>1, <3>2, <3>5, <3>6 DEF ReportInv
  <2> QED
    BY <2>1, <2>2, <2>3, <2>4 DEF Next
<1> QED
  BY <1>1, <1>2, TypeCorrect, ControlCorrect, PTL DEF Spec

(* A report of the worker never counts more than its threads have hashed,  *)
(* and the last one counts every hash once (total_hashes, TAG_STATISTICS   *)
(* and the final statistics of run_worker).                                *)
THEOREM ReportsAreExact == Spec => []ReportsExact
<1>1. TypeInv /\ ControlInv /\ AddedInv /\ ReportInv => ReportsExact
  <2> SUFFICES ASSUME TypeInv, ControlInv, AddedInv, ReportInv PROVE ReportsExact
    OBVIOUS
  <2> DEFINE f == [t \in Threads |-> AddedBy(t)]
  <2>1. /\ f \in [Threads -> Int] /\ local_hashes \in [Threads -> Int]
        /\ \A t \in Threads : f[t] <= local_hashes[t]
    <3>1. local_hashes \in [Threads -> Nat]
      BY WorkParts
    <3>2. \A n \in Nat : n \in Int
      OBVIOUS
    <3> QED
      BY <3>1, <3>2, AddedType
  <2>2. total_hashes = SumFunction(f)
    BY DEF AddedInv
  <2>3. ASSUME doneSent PROVE total_hashes = Hashed
    <3>1. \A t \in Threads : pc[t] = "joined"
      BY <2>3, Sizes DEF ReportInv, ControlInv, LeaveOnStop
    <3>2. f = local_hashes
      BY <2>1, <3>1 DEF AddedBy
    <3> QED
      BY <2>2, <3>2 DEF Hashed
  <2> HIDE DEF f
  <2>4. total_hashes <= Hashed /\ Hashed \in Int
    BY <2>1, <2>2, FiniteThreads, SumMonotone, SumType DEF Hashed
  <2>5. PICK r \in Int, g \in Int, h \in Int : r = reported /\ g = total_hashes /\ h = Hashed
    BY <2>4, WorkParts
  <2>6. r <= g /\ g <= h
    BY <2>4, <2>5 DEF ReportInv
  <2>7. reported <= Hashed
    BY <2>5, <2>6
  <2> QED
    BY <2>3, <2>7 DEF ReportsExact, ReportInv
<1> QED
  BY <1>1, TypeCorrect, ControlCorrect, AddedCorrect, ReportCorrect, PTL

-----------------------------------------------------------------------------
(* What is sent *)

SentInv ==
    /\ IsFiniteSet(covered)
    /\ \A c \in Golden : coinsSent[c] > 0 <=> c \in covered
    /\ total_coins = SumFunction(coinsSent)

(* The coins of one stride, one for each counter that makes one. *)
OneForEach(c) == [g \in Golden |-> IF g \in Lanes(c) THEN 1 ELSE 0]

LEMMA CoinsAdded ==
    ASSUME TypeInv, SentInv, NEW t \in Threads, MineStep(t)
    PROVE  total_coins' = SumFunction(coinsSent')
<1> DEFINE d == OneForEach(counter[t])
           n == Cardinality(CoinsIn(counter[t]))
<1>1. /\ d \in [Golden -> Int] /\ IsFiniteSet(Golden) /\ DOMAIN d = Golden
      /\ \A g \in Golden : d[g] = IF g \in Lanes(counter[t]) THEN 1 ELSE 0
  BY GoldenAssumption DEF OneForEach
<1>2. n = Cardinality(Golden \cap Lanes(counter[t]))
  BY DEF CoinsIn
<1>3. SumFunction(d) = n
  <2> HIDE DEF d, n
  <2> QED
    BY <1>1, <1>2, SumOfMembers DEF SumFunction
<1>4. /\ coinsSent \in [Golden -> Nat] /\ coinsSent' \in [Golden -> Nat]
      /\ \A g \in Golden : coinsSent'[g] = coinsSent[g] + d[g]
  BY <1>1, MineParts, WorkParts
<1>5. coinsSent \in [Golden -> Int] /\ coinsSent' \in [Golden -> Int]
  <2>1. \A m \in Nat : m \in Int
    OBVIOUS
  <2> HIDE DEF d
  <2> QED
    BY <1>4, <2>1
<1>6. SumFunction(coinsSent') = SumFunction(coinsSent) + SumFunction(d)
  <2> HIDE DEF d, n
  <2> QED
    BY <1>1, <1>4, <1>5, SumAdds
<1>7. total_coins' = total_coins + n /\ total_coins = SumFunction(coinsSent)
  BY MineParts DEF SentInv
<1> HIDE DEF d, n
<1> QED
  BY <1>3, <1>6, <1>7

(* A coin is sent when its counter is hashed (run_worker, MPI_Send with    *)
(* TAG_COIN_FOUND), and total_coins is the number of those messages.       *)
THEOREM SentCorrect == Spec => []SentInv
<1>1. Init => SentInv
  <2> SUFFICES ASSUME Init PROVE SentInv
    OBVIOUS
  <2>1. coinsSent = [c \in Golden |-> 0] /\ covered = {} /\ total_coins = 0
    BY DEF Init
  <2>2. IsFiniteSet(covered) /\ \A c \in Golden : ~(coinsSent[c] > 0) /\ c \notin covered
    BY <2>1, FS_EmptySet
  <2>3. total_coins = SumFunction(coinsSent)
    BY <2>1, GoldenAssumption, SumOfZeros
  <2> QED
    BY <2>2, <2>3 DEF SentInv
<1>2. TypeInv /\ SentInv /\ [Next]_vars => SentInv'
  <2> SUFFICES ASSUME TypeInv, SentInv, [Next]_vars PROVE SentInv'
    OBVIOUS
  <2>1. CASE UNCHANGED <<covered, coinsSent, total_coins>>
    BY <2>1 DEF SentInv
  <2>2. ASSUME NEW t \in Threads, MineStep(t) PROVE SentInv'
    <3>1. total_coins' = SumFunction(coinsSent')
      BY <2>2, CoinsAdded
    <3>2. covered' = covered \cup Lanes(counter[t]) /\ IsFiniteSet(Lanes(counter[t]))
      BY <2>2, MineParts, StrideTypes
    <3>3. IsFiniteSet(covered')
      BY <3>2, FS_Union DEF SentInv
    <3>4. ASSUME NEW c \in Golden PROVE coinsSent'[c] > 0 <=> c \in covered'
      <4>1. /\ coinsSent[c] \in Nat /\ (coinsSent[c] > 0 <=> c \in covered)
            /\ coinsSent'[c] = coinsSent[c] + IF c \in Lanes(counter[t]) THEN 1 ELSE 0
        BY <2>2, MineParts, WorkParts DEF SentInv
      <4> QED
        BY <3>2, <4>1
    <3> QED
      BY <3>1, <3>3, <3>4 DEF SentInv
  <2> QED
    BY <2>1, <2>2 DEF Next, MasterDecidesToStop, MasterSendsStop, SendDone, vars, Barriers,
       OpenBarrier1, OpenBarrier2, OpenBarrier3, OpenFinalBarrier, LeaveBarrier,
       Thread, EnterRegion, Tick, ReachEndOfSlice, EnterSingle, SkipSingle, CheckStopAtEnd,
       ReceiveAnswer, SplitAgain, LeaveLoop, shared, history
<1> QED
  BY <1>1, <1>2, TypeCorrect, PTL DEF Spec

-----------------------------------------------------------------------------
(* No counter twice *)

(* The slices are whole strides, as the 100000000 counters of a range are  *)
(* for 1, 2, 4, 8, 16 or 20 threads of 8 lanes.  With 6, 12 or 24 threads  *)
(* a thread hashes past the end of its slice.                              *)
Aligned ==
    /\ WORK_CHUNK_SIZE \div NumThreads > 0
    /\ (WORK_CHUNK_SIZE \div NumThreads) % Stride = 0
    /\ WORK_CHUNK_SIZE % Stride = 0

(* The program's ranges (WORK_CHUNK_SIZE of aad_mpi_common.h) and strides  *)
(* of eight lanes are aligned for these teams.                             *)
THEOREM ProgramIsAligned ==
    ASSUME WORK_CHUNK_SIZE = 100000000, Stride = 8,
           NumThreads \in {1, 2, 4, 5, 8, 10, 16, 20, 25, 32, 40}
    PROVE  Aligned
BY DEF Aligned

(* A multiple of the stride. *)
LEMMA Strides ==
    ASSUME NEW n \in Nat, n % Stride = 0
    PROVE  \E k \in Nat : n = k * Stride
<1>1. Stride \in Nat \ {0}
  BY Sizes
<1>2. PICK q \in Int, r \in 0..(Stride - 1) : n = q * Stride + r /\ r = n % Stride
  BY <1>1, QuotientAndRemainder
<1>3. q * Stride \in Int /\ n = q * Stride
  BY <1>2, Sizes
<1>4. CASE q < 0
  <2>1. q * Stride + Stride <= 0 * Stride
    BY <1>4, Sizes, ProductGrows
  <2> QED
    BY <1>3, <2>1, Sizes
<1> QED
  BY <1>3, <1>4

LEMMA AlignedSlice ==
    ASSUME Aligned, TypeInv, work.end # work.start, NEW t \in Threads
    PROVE  \E k \in Nat : k # 0 /\ SliceEnd(work, t) = SliceStart(work, t) + k * Stride
<1>1. PICK a \in Nat, s \in Nat : /\ a = work.start /\ s = SliceSize(work)
                                  /\ work.end = a + WORK_CHUNK_SIZE
                                  /\ s = WORK_CHUNK_SIZE \div NumThreads
  <2>1. PICK a \in Nat, b \in Nat : a = work.start /\ b = work.end
    BY WorkParts
  <2>2. b - a = WORK_CHUNK_SIZE
    BY <2>1, WorkParts
  <2>3. b = a + WORK_CHUNK_SIZE
    BY <2>1, <2>2, Sizes
  <2> QED
    BY <2>1, <2>2, <2>3, SliceTypes DEF SliceSize
<1>2. PICK j \in Nat : s = j * Stride
  BY <1>1, Strides DEF Aligned
<1>3. PICK m \in Nat : WORK_CHUNK_SIZE = m * Stride
  BY Sizes, Strides DEF Aligned
<1>4. s > 0
  BY <1>1 DEF Aligned
<1>5. SliceStart(work, t) = a + t * s
  BY <1>1 DEF SliceStart
<1>6. CASE t # NumThreads - 1
  <2>1. SliceEnd(work, t) = SliceStart(work, t) + j * Stride
    BY <1>1, <1>2, <1>6 DEF SliceEnd
  <2>2. j # 0
    BY <1>2, <1>4, Sizes
  <2> QED
    BY <2>1, <2>2
<1>7. CASE t = NumThreads - 1
  <2>1. SliceEnd(work, t) = a + m * Stride
    BY <1>1, <1>3, <1>7 DEF SliceEnd
  <2>2. t \in Nat /\ t * j \in Nat /\ t * s = (t * j) * Stride
    BY <1>2, <1>7, Sizes
  <2>3. PICK z \in Nat : z = t * j /\ t * s = z * Stride
    BY <2>2
  <2>4. SliceStart(work, t) = a + z * Stride
    BY <1>5, <2>3
  <2>5. SliceStart(work, t) + s <= SliceEnd(work, t)
    BY <1>1, SliceTypes
  <2>6. z < m
    <3>1. CASE m < z
      <4>1. m * Stride + Stride <= z * Stride
        BY <3>1, Sizes, ProductGrows
      <4>2. PICK x \in Nat, y \in Nat : x = m * Stride /\ y = z * Stride
        BY Sizes
      <4>3. x + Stride <= y /\ a + y + s <= a + x
        BY <2>1, <2>4, <2>5, <4>1, <4>2
      <4> QED
        BY <1>4, <4>3, Sizes
    <3>2. CASE m = z
      <4>1. PICK y \in Nat : y = z * Stride
        BY Sizes
      <4>2. a + y + s <= a + y
        BY <2>1, <2>4, <2>5, <3>2, <4>1
      <4> QED
        BY <1>4, <4>2
    <3> QED
      BY <3>1, <3>2
  <2>7. m - z \in Nat /\ m - z # 0
    BY <2>6
  <2>8. m * Stride = z * Stride + (m - z) * Stride
    BY Sizes
  <2>9. PICK x \in Nat, y \in Int, w \in Nat :
           x = m * Stride /\ w = z * Stride /\ y = (m - z) * Stride
    BY <2>7, Sizes
  <2>10. SliceEnd(work, t) = SliceStart(work, t) + (m - z) * Stride
    BY <2>1, <2>4, <2>8, <2>9
  <2> QED
    BY <2>7, <2>10
<1> QED
  BY <1>6, <1>7

LEMMA SlicesDisjoint ==
    ASSUME TypeInv, NEW t \in Threads, NEW u \in Threads, t # u
    PROVE  SliceOf(t) \cap SliceOf(u) = {}
<1>1. t \in Int /\ u \in Int
  BY DEF Threads
<1>2. /\ SliceStart(work, t) \in Nat /\ SliceEnd(work, t) \in Nat
      /\ SliceStart(work, u) \in Nat /\ SliceEnd(work, u) \in Nat
  BY SliceTypes
<1>3. CASE t < u
  BY <1>2, <1>3, SlicesApart DEF SliceOf
<1>4. CASE u < t
  BY <1>2, <1>4, SlicesApart DEF SliceOf
<1> QED
  BY <1>1, <1>3, <1>4

LEMMA SliceInRange ==
    ASSUME TypeInv, NEW t \in Threads, NEW c \in SliceOf(t)
    PROVE  c \in Nat /\ work.start <= c /\ c < work.end /\ c < next_counter
<1>1. PICK x \in Nat, y \in Nat, a \in Nat, b \in Nat, n \in Nat :
         /\ x = SliceStart(work, t) /\ y = SliceEnd(work, t)
         /\ a = work.start /\ b = work.end /\ n = next_counter
         /\ a <= x /\ y <= b /\ b <= n
  BY SliceTypes, WorkParts
<1> QED
  BY <1>1 DEF SliceOf

Fresh(t) == SliceOf(t) \cap covered = {}
LeftOf(t) == counter[t]..(my_end[t] - 1)

(* Nothing of a slice is hashed before its thread begins with it, and a    *)
(* thread in its slice has whole strides left, none of them hashed.        *)
ThreadFresh(t) ==
    /\ pc[t] \in InSlice => /\ \E k \in Nat : /\ my_end[t] = counter[t] + k * Stride
                                              /\ pc[t] = "mine" => k # 0
                            /\ LeftOf(t) \cap covered = {}
    /\ pc[t] = "start" => work.end # work.start /\ Fresh(t)
    /\ pc[t] \in {"b3", "resplit"} => worker_stop_signal \/ Fresh(t)

BehindSingle == singleTaken /\ \A t \in Threads : pc[t] \in {"single", "b2"}

FreshInv ==
    /\ \A c \in covered : c < next_counter
    /\ \A t \in Threads : ThreadFresh(t)
    /\ singleTaken => \A t \in Threads : pc[t] \in AboutSingle
    /\ BehindSingle => worker_stop_signal \/ \A t \in Threads : Fresh(t)

LEMMA FreshKept ==
    ASSUME NEW t \in Threads, ThreadFresh(t), work' = work,
           my_end'[t] = my_end[t], counter'[t] = counter[t],
           worker_stop_signal => worker_stop_signal',
           \/ pc'[t] = pc[t]
           \/ pc'[t] \in {"b1", "single", "check", "request", "b2", "join", "joined"}
           \/ pc[t] = "tick" /\ pc'[t] = "loop",
           \/ covered' = covered
           \/ /\ (covered' \ covered) \cap SliceOf(t) = {}
              /\ pc[t] \in InSlice => LeftOf(t) \subseteq SliceOf(t)
    PROVE  ThreadFresh(t)'
<1>1. /\ (pc[t] \in InSlice)' => pc[t] \in InSlice
      /\ (pc[t] = "mine")' => pc[t] = "mine"
      /\ (pc[t] = "start")' => pc[t] = "start"
      /\ (pc[t] \in {"b3", "resplit"})' => pc[t] \in {"b3", "resplit"}
  BY DEF InSlice
<1>2. SliceOf(t)' = SliceOf(t) /\ LeftOf(t)' = LeftOf(t)
  BY DEF SliceOf, LeftOf
<1>3. Fresh(t) => Fresh(t)'
  BY <1>2 DEF Fresh
<1>4. pc[t] \in InSlice /\ LeftOf(t) \cap covered = {} => (LeftOf(t) \cap covered = {})'
  BY <1>2
<1>5. (pc[t] \in InSlice)' =>
         /\ (\E k \in Nat : my_end[t] = counter[t] + k * Stride /\ (pc[t] = "mine" => k # 0))'
         /\ (LeftOf(t) \cap covered = {})'
  BY <1>1, <1>4 DEF ThreadFresh
<1>6. (pc[t] = "start")' => (work.end # work.start /\ Fresh(t))'
  BY <1>1, <1>3 DEF ThreadFresh
<1>7. (pc[t] \in {"b3", "resplit"})' => (worker_stop_signal \/ Fresh(t))'
  BY <1>1, <1>3 DEF ThreadFresh
<1> QED
  BY <1>5, <1>6, <1>7 DEF ThreadFresh

LEMMA AllFreshKept ==
    ASSUME work' = work, covered' = covered, \A t \in Threads : Fresh(t)
    PROVE  \A t \in Threads : Fresh(t)'
<1>1. ASSUME NEW t \in Threads PROVE SliceOf(t)' = SliceOf(t)
  BY DEF SliceOf
<1> QED
  BY <1>1 DEF Fresh

(* A thread begins with a slice of which nothing is hashed. *)
LEMMA SliceBegins ==
    ASSUME Aligned, TypeInv, NEW t \in Threads, Fresh(t), work.end # work.start,
           work' = work, covered' = covered,
           my_end'[t] = SliceEnd(work, t), counter'[t] = SliceStart(work, t),
           pc'[t] \in {"loop", "mine"}
    PROVE  ThreadFresh(t)'
<1>1. PICK k \in Nat : k # 0 /\ SliceEnd(work, t) = SliceStart(work, t) + k * Stride
  BY AlignedSlice
<1>2. LeftOf(t)' \cap covered' = {}
  BY DEF LeftOf, Fresh, SliceOf
<1> QED
  BY <1>1, <1>2 DEF ThreadFresh

(* It hashes one stride of what is left, all of it in its slice. *)
LEMMA StrideHashed ==
    ASSUME TypeInv, NEW t \in Threads, SliceInv(t), ThreadFresh(t), MineStep(t)
    PROVE  /\ Lanes(counter[t]) \subseteq SliceOf(t)
           /\ Lanes(counter[t]) \cap covered = {}
           /\ \E k \in Nat : my_end'[t] = counter'[t] + k * Stride
           /\ (LeftOf(t) \cap covered = {})'
<1>1. /\ pc[t] \in {"loop", "mine"} /\ (pc[t] = "loop" => counter[t] < my_end[t])
      /\ counter'[t] = counter[t] + Stride /\ my_end'[t] = my_end[t]
      /\ covered' = covered \cup Lanes(counter[t])
  BY MineParts, WorkParts
<1>2. PICK c \in Nat, e \in Nat, k \in Nat, a \in Nat :
         /\ c = counter[t] /\ e = my_end[t] /\ e = c + k * Stride
         /\ pc[t] = "mine" => k # 0
         /\ a = SliceStart(work, t) /\ e = SliceEnd(work, t) /\ a <= c
  BY <1>1, SliceTypes, WorkParts DEF ThreadFresh, SliceInv, InSlice
<1>3. k # 0
  BY <1>1, <1>2, Sizes
<1>4. PICK j \in Nat : k = j + 1
  <2>1. k - 1 \in Nat /\ k = (k - 1) + 1
    BY <1>3
  <2> QED
    BY <2>1
<1>5. k * Stride = j * Stride + Stride /\ j * Stride \in Nat
  BY <1>4, Sizes
<1>6. PICK m \in Nat : m = j * Stride
  BY <1>5
<1>7. e = c + Stride + m /\ Stride \in Nat
  BY <1>2, <1>5, <1>6, Sizes
<1>8. Lanes(counter[t]) = c..(c + Stride - 1)
  BY <1>2 DEF Lanes
<1>9. LeftOf(t) = c..(e - 1) /\ LeftOf(t) \cap covered = {} /\ SliceOf(t) = a..(e - 1)
  BY <1>1, <1>2 DEF LeftOf, ThreadFresh, InSlice, SliceOf
<1>10. c..(c + Stride - 1) \subseteq c..(e - 1) /\ c..(e - 1) \subseteq a..(e - 1)
  BY <1>2, <1>7
<1>11. my_end'[t] = counter'[t] + j * Stride
  BY <1>1, <1>2, <1>6, <1>7
<1>12. (LeftOf(t) \cap covered = {})'
  <2>1. LeftOf(t)' = (c + Stride)..(e - 1)
    BY <1>1, <1>2 DEF LeftOf
  <2>2. (c + Stride)..(e - 1) \subseteq c..(e - 1)
    BY <1>7
  <2>3. (c + Stride)..(e - 1) \cap c..(c + Stride - 1) = {}
    BY <1>7
  <2> QED
    BY <1>1, <1>8, <1>9, <2>1, <2>2, <2>3
<1> QED
  BY <1>8, <1>9, <1>10, <1>11, <1>12

THEOREM FreshCorrect == ASSUME Aligned PROVE Spec => []FreshInv
<1> USE DEF shared, locals, master, history
<1>1. Init => FreshInv
  <2> SUFFICES ASSUME Init PROVE FreshInv
    OBVIOUS
  <2>1. work.start = 0 /\ work.end = WORK_CHUNK_SIZE /\ covered = {} /\ singleTaken = FALSE
        /\ \A t \in Threads : pc[t] = "start"
    <3>1. work = RangeAt(0) /\ 0 \in Nat /\ 0 + WORK_CHUNK_SIZE = WORK_CHUNK_SIZE
      BY Sizes DEF Init
    <3> QED
      BY <3>1, RangeFields DEF Init
  <2>2. work.end # work.start
    BY <2>1, Sizes
  <2> QED
    BY <2>1, <2>2 DEF FreshInv, ThreadFresh, Fresh, BehindSingle, InSlice
<1>2. TypeInv /\ TypeInv' /\ ControlInv /\ HashedInv /\ FreshInv /\ [Next]_vars => FreshInv'
  <2> SUFFICES ASSUME TypeInv, TypeInv', ControlInv, HashedInv, FreshInv, [Next]_vars
               PROVE  FreshInv'
    OBVIOUS
  <2>p. pc \in [Threads -> Places]
    BY DEF ControlInv
  <2>1. CASE MasterDecidesToStop \/ MasterSendsStop \/ SendDone \/ UNCHANGED vars
    <3>1. UNCHANGED <<pc, work, covered, my_end, counter, singleTaken, worker_stop_signal, next_counter>>
      BY <2>1 DEF MasterDecidesToStop, MasterSendsStop, SendDone, vars
    <3>2. \A t \in Threads : ThreadFresh(t)'
      BY <3>1, FreshKept DEF FreshInv
    <3>3. (BehindSingle => worker_stop_signal \/ \A t \in Threads : Fresh(t))'
      BY <3>1, AllFreshKept DEF FreshInv, BehindSingle
    <3> QED
      BY <3>1, <3>2, <3>3 DEF FreshInv
  <2>2. CASE Barriers
    <3>1. /\ UNCHANGED <<work, covered, my_end, counter, worker_stop_signal, next_counter>>
          /\ Barrier
      BY <2>2, BarrierControl DEF Barriers, OpenBarrier1, OpenBarrier2, OpenBarrier3,
         OpenFinalBarrier, LeaveBarrier
    <3>2. ~singleTaken'
      <4>1. ASSUME singleTaken' PROVE FALSE
        <5>1. singleTaken /\ \A t \in Threads : pc[t] \notin AboutSingle
          BY <3>1, <4>1 DEF Barrier, BarrierOpens, AboutSingle
        <5> QED
          BY <5>1, Sizes DEF FreshInv
      <4> QED
        BY <4>1
    <3>3. ASSUME NEW t \in Threads PROVE ThreadFresh(t)'
      <4>1. CASE pc'[t] \in {"single", "joined"}
        BY <3>1, <4>1, FreshKept DEF FreshInv
      <4>2. CASE pc'[t] \in {"b3", "resplit"}
        <5>1. worker_stop_signal \/ Fresh(t)
          <6>1. CASE \A u \in Threads : pc[u] = "b2"
            <7>1. singleTaken
              BY <6>1, Sizes DEF ControlInv, OneAsks
            <7> QED
              BY <6>1, <7>1 DEF FreshInv, BehindSingle
          <6>2. CASE \A u \in Threads : pc[u] = "b3"
            BY <6>2 DEF FreshInv, ThreadFresh
          <6> QED
            BY <3>1, <4>2, <6>1, <6>2 DEF Barrier, BarrierOpens
        <5>2. SliceOf(t)' = SliceOf(t)
          BY <3>1 DEF SliceOf
        <5>3. (worker_stop_signal \/ Fresh(t))'
          BY <3>1, <5>1, <5>2 DEF Fresh
        <5> QED
          BY <4>2, <5>3 DEF ThreadFresh, InSlice
      <4> QED
        BY <3>1, <4>1, <4>2 DEF Barrier, BarrierOpens
    <3> QED
      BY <3>1, <3>2, <3>3 DEF FreshInv, BehindSingle
  <2>3. ASSUME NEW t \in Threads, Thread(t) PROVE FreshInv'
    <3>c. Control(t)
      BY <2>3, <2>p, ThreadControl
    <3>o. \A u \in Threads \ {t} : pc'[u] = pc[u]
      BY <3>c DEF Control
    <3>w. worker_stop_signal => worker_stop_signal'
      BY <3>c DEF Control, SameFlags
    <3>f. (singleTaken => \A u \in Threads : pc[u] \in AboutSingle)'
      <4>1. CASE singleTaken
        <5>1. \A u \in Threads : pc[u] \in AboutSingle
          BY <4>1 DEF FreshInv
        <5> QED
          BY <3>c, <3>o, <5>1 DEF Control, AboutSingle
      <4>2. CASE singleTaken' /\ ~singleTaken
        <5>1. pc[t] = "single" /\ pc'[t] = "check"
          BY <3>c, <4>2 DEF Control, SameFlags
        <5>2. \A u \in Threads : pc[u] \in AboutSingle
          BY <5>1 DEF ControlInv, Together, AboutSingle, Hashing
        <5> QED
          BY <3>o, <5>1, <5>2 DEF AboutSingle
      <4> QED
        BY <4>1, <4>2
    <3>q. ASSUME work' = work, covered' = covered, next_counter' = next_counter,
                 \A u \in Threads \ {t} : my_end'[u] = my_end[u] /\ counter'[u] = counter[u],
                 ThreadFresh(t)', BehindSingle' => worker_stop_signal' \/ BehindSingle
          PROVE  FreshInv'
      <4>1. ASSUME NEW u \in Threads PROVE ThreadFresh(u)'
        <5>1. CASE u = t
          BY <3>q, <5>1
        <5>2. CASE u # t
          <6>1. /\ pc'[u] = pc[u] /\ ThreadFresh(u)
                /\ my_end'[u] = my_end[u] /\ counter'[u] = counter[u]
            BY <3>q, <3>o, <5>2 DEF FreshInv
          <6> QED
            BY <3>q, <3>w, <6>1, FreshKept
        <5> QED
          BY <5>1, <5>2
      <4>2. (BehindSingle => worker_stop_signal \/ \A u \in Threads : Fresh(u))'
        <5>1. ASSUME BehindSingle, ~worker_stop_signal PROVE \A u \in Threads : Fresh(u)'
          BY <3>q, <5>1, AllFreshKept DEF FreshInv
        <5> QED
          BY <3>q, <3>w, <5>1
      <4> QED
        BY <3>q, <3>f, <4>1, <4>2 DEF FreshInv
    <3>1. CASE EnterRegion(t) \/ SplitAgain(t)
      <4>1. /\ UNCHANGED <<work, covered, next_counter>>
            /\ pc'[t] \in {"loop", "mine"} /\ (pc[t] = "start" \/ (pc[t] = "resplit" /\ ~worker_stop_signal))
            /\ my_end' = [my_end EXCEPT ![t] = SliceEnd(work, t)]
            /\ counter' = [counter EXCEPT ![t] = SliceStart(work, t)]
        BY <3>1, <2>p DEF EnterRegion, SplitAgain, TakeSlice, Goto
      <4>2. my_end'[t] = SliceEnd(work, t) /\ counter'[t] = SliceStart(work, t)
            /\ \A u \in Threads \ {t} : my_end'[u] = my_end[u] /\ counter'[u] = counter[u]
        BY <4>1, WorkParts
      <4>3. Fresh(t) /\ work.end # work.start
        BY <4>1 DEF FreshInv, ThreadFresh, TypeInv, RangeInv
      <4>4. ThreadFresh(t)'
        BY <4>1, <4>2, <4>3, SliceBegins
      <4>5. ~BehindSingle'
        BY <4>1 DEF BehindSingle
      <4> QED
        BY <3>q, <4>1, <4>2, <4>4, <4>5
    <3>2. CASE MineStep(t)
      <4>1. SliceInv(t) /\ ThreadFresh(t) /\ pc[t] \in InSlice
        BY <3>2, MineParts DEF HashedInv, FreshInv, InSlice
      <4>2. /\ Lanes(counter[t]) \subseteq SliceOf(t)
            /\ Lanes(counter[t]) \cap covered = {}
            /\ \E k \in Nat : my_end'[t] = counter'[t] + k * Stride
            /\ (LeftOf(t) \cap covered = {})'
        BY <3>2, <4>1, StrideHashed
      <4>3. /\ covered' = covered \cup Lanes(counter[t]) /\ work' = work /\ next_counter' = next_counter
            /\ \A u \in Threads \ {t} : my_end'[u] = my_end[u] /\ counter'[u] = counter[u]
            /\ pc'[t] \in {"loop", "tick"}
        BY <3>2, <2>p, MineParts, WorkParts
      <4>4. \A c \in covered' : c < next_counter'
        BY <4>2, <4>3, SliceInRange DEF FreshInv
      <4>5. ThreadFresh(t)'
        BY <4>2, <4>3 DEF ThreadFresh
      <4>6. ASSUME NEW u \in Threads, u # t PROVE ThreadFresh(u)'
        <5>1. SliceOf(t) \cap SliceOf(u) = {}
          BY <4>6, SlicesDisjoint
        <5>2. (covered' \ covered) \cap SliceOf(u) = {}
          BY <4>2, <4>3, <5>1
        <5>3. ASSUME pc[u] \in InSlice PROVE LeftOf(u) \subseteq SliceOf(u)
          <6>1. /\ my_end[u] = SliceEnd(work, u) /\ SliceStart(work, u) <= counter[u]
            BY <5>3 DEF HashedInv, SliceInv
          <6>2. SliceStart(work, u) \in Nat /\ counter[u] \in Nat /\ SliceEnd(work, u) \in Nat
            BY SliceTypes, WorkParts
          <6> QED
            BY <6>1, <6>2 DEF LeftOf, SliceOf
        <5>4. ThreadFresh(u) /\ pc'[u] = pc[u] /\ my_end'[u] = my_end[u] /\ counter'[u] = counter[u]
          BY <3>o, <4>3, <4>6 DEF FreshInv
        <5> QED
          BY <3>w, <4>3, <5>2, <5>3, <5>4, FreshKept
      <4>7. ~BehindSingle'
        BY <4>3 DEF BehindSingle
      <4> QED
        BY <3>f, <4>4, <4>5, <4>6, <4>7 DEF FreshInv
    <3>3. CASE Tick(t) \/ ReachEndOfSlice(t) \/ LeaveLoop(t) \/ EnterSingle(t) \/ SkipSingle(t)
               \/ CheckStopAtEnd(t)
      <4>1. UNCHANGED <<work, covered, next_counter, my_end, counter>>
        BY <3>3 DEF Tick, ReachEndOfSlice, LeaveLoop, EnterSingle, SkipSingle, CheckStopAtEnd
      <4>2. \/ pc[t] = "tick" /\ pc'[t] = "loop"
            \/ pc'[t] \in {"b1", "join", "check", "request"}
            \/ pc[t] = "single" /\ pc'[t] = "b2" /\ singleTaken' = singleTaken
            \/ pc'[t] = "b2" /\ worker_stop_signal'
        BY <3>3, <2>p DEF Tick, ReachEndOfSlice, LeaveLoop, EnterSingle, SkipSingle,
           CheckStopAtEnd, CheckStop, Goto, WaitsForSingle
      <4>3. ThreadFresh(t)'
        BY <3>w, <4>1, <4>2, FreshKept DEF FreshInv
      <4>4. BehindSingle' => worker_stop_signal' \/ BehindSingle
        BY <3>o, <4>2 DEF BehindSingle
      <4> QED
        BY <3>q, <4>1, <4>3, <4>4
    <3>4. CASE ReceiveAnswer(t)
      <4>1. pc[t] = "request" /\ pc'[t] = "b2" /\ singleTaken' = singleTaken /\ covered' = covered
        BY <3>4, <2>p DEF ReceiveAnswer, Goto
      <4>2. \A u \in Threads \ {t} : pc[u] \in {"single", "b2"}
        BY <4>1 DEF ControlInv, Together, OneAsks, AboutSingle, Asking, Hashing
      <4>3. ASSUME NEW u \in Threads PROVE ThreadFresh(u)'
        BY <3>o, <4>1, <4>2 DEF ThreadFresh, InSlice
      <4>4. \A c \in covered' : c < next_counter'
        <5>1. /\ next_counter' = next_counter \/ next_counter' = next_counter + WORK_CHUNK_SIZE
              /\ covered \subseteq Nat /\ next_counter \in Nat
          BY <3>4, WorkParts DEF ReceiveAnswer
        <5>2. \A c \in covered : c \in Nat /\ c < next_counter
          BY <5>1 DEF FreshInv
        <5> QED
          BY <4>1, <5>1, <5>2, Sizes
      <4>5. ASSUME ~worker_stop_signal', NEW u \in Threads PROVE Fresh(u)'
        <5>1. work' = RangeAt(next_counter) /\ next_counter \in Nat
          BY <3>4, <4>5, WorkParts DEF ReceiveAnswer
        <5>2. work'.start = next_counter
          BY <5>1, RangeFields
        <5>3. ASSUME NEW c \in SliceOf(u)' PROVE c \notin covered'
          <6>1. c \in Nat /\ work'.start <= c
            <7>1. PICK n \in Nat, s \in Nat :
                     n = next_counter /\ s = WORK_CHUNK_SIZE \div NumThreads
              BY <5>1, Sizes, Quotient
            <7>2. u * s \in Nat
              <8>1. u \in Nat
                BY Sizes DEF Threads
              <8> QED
                BY <7>1, <8>1
            <7>3. SliceStart(work', u) = n + u * s
              <8>1. work'.start = n /\ work'.end - work'.start = WORK_CHUNK_SIZE
                BY <5>1, <7>1, RangeFields, Sizes
              <8> QED
                BY <7>1, <8>1 DEF SliceStart, SliceSize
            <7>4. PICK y \in Nat : y = u * s
              BY <7>2
            <7>5. c \in Int /\ SliceStart(work', u) <= c
              <8>1. SliceStart(work', u) = n + y /\ n + y \in Int
                BY <7>1, <7>3, <7>4
              <8>2. c \in SliceStart(work', u)..(SliceEnd(work', u) - 1)
                BY <5>3 DEF SliceOf
              <8> QED
                BY <8>1, <8>2
            <7> QED
              BY <5>2, <7>1, <7>3, <7>4, <7>5
          <6>2. c \in covered => c < next_counter
            BY DEF FreshInv
          <6> QED
            BY <4>1, <5>1, <5>2, <6>1, <6>2
        <5> QED
          BY <5>3 DEF Fresh
      <4> QED
        BY <3>f, <4>3, <4>4, <4>5 DEF FreshInv
    <3> QED
      BY <2>3, <3>1, <3>2, <3>3, <3>4 DEF Thread
  <2> QED
    BY <2>1, <2>2, <2>3 DEF Next
<1> QED
  BY <1>1, <1>2, TypeCorrect, ControlCorrect, HashedCorrect, PTL DEF Spec

OnceInv ==
    /\ Cardinality(covered) = Hashed
    /\ \A c \in Golden : coinsSent[c] = IF c \in covered THEN 1 ELSE 0

THEOREM OnceCorrect == ASSUME Aligned PROVE Spec => []OnceInv
<1>1. Init => OnceInv
  <2> SUFFICES ASSUME Init PROVE OnceInv
    OBVIOUS
  <2>1. local_hashes = [t \in Threads |-> 0] /\ covered = {} /\ coinsSent = [c \in Golden |-> 0]
    BY DEF Init
  <2>2. Hashed = 0
    BY <2>1, FiniteThreads, SumOfZeros DEF Hashed
  <2> QED
    BY <2>1, <2>2, FS_EmptySet DEF OnceInv
<1>2. TypeInv /\ HashedInv /\ SentInv /\ FreshInv /\ OnceInv /\ [Next]_vars => OnceInv'
  <2> SUFFICES ASSUME TypeInv, HashedInv, SentInv, FreshInv, OnceInv, [Next]_vars PROVE OnceInv'
    OBVIOUS
  <2>1. CASE UNCHANGED <<covered, coinsSent, local_hashes>>
    BY <2>1 DEF OnceInv, Hashed
  <2>2. ASSUME NEW t \in Threads, MineStep(t) PROVE OnceInv'
    <3>1. /\ covered' = covered \cup Lanes(counter[t]) /\ counter[t] \in Nat
          /\ local_hashes' = [local_hashes EXCEPT ![t] = local_hashes[t] + Stride]
          /\ local_hashes \in [Threads -> Nat]
      BY <2>2, MineParts, WorkParts
    <3>2. Lanes(counter[t]) \cap covered = {}
      BY <2>2, MineParts, StrideHashed DEF HashedInv, FreshInv
    <3>3. /\ IsFiniteSet(covered) /\ IsFiniteSet(Lanes(counter[t]))
          /\ Cardinality(Lanes(counter[t])) = Stride
      BY <3>1, StrideTypes DEF SentInv
    <3>4. Cardinality(covered') = Cardinality(covered) + Stride
      <4>1. covered \cap Lanes(counter[t]) = {}
        BY <3>2
      <4>2. PICK n \in Nat : n = Cardinality(covered)
        BY <3>3, FS_CardinalityType
      <4>3. Cardinality(covered \cup Lanes(counter[t])) = n + Stride - 0
        BY <3>3, <4>1, <4>2, FS_Union, FS_EmptySet
      <4> QED
        BY <3>1, <4>2, <4>3, Sizes
    <3>5. SumFunction(local_hashes') = SumFunction(local_hashes) + Stride
      <4>1. PICK n \in Nat, m \in Nat : n = local_hashes[t] /\ m = n + Stride
        BY <3>1, Sizes
      <4>2. /\ local_hashes'[t] = m /\ local_hashes' \in [Threads -> Nat]
            /\ \A u \in Threads \ {t} : local_hashes'[u] = local_hashes[u]
        BY <3>1, <4>1
      <4>3. local_hashes \in [Threads -> Int] /\ local_hashes' \in [Threads -> Int]
        <5>1. \A x \in Nat : x \in Int
          OBVIOUS
        <5> QED
          BY <3>1, <4>2, <5>1
      <4>4. SumFunction(local_hashes') = SumFunction(local_hashes) - local_hashes[t] + local_hashes'[t]
        BY <4>2, <4>3, FiniteThreads, SumOfUpdate
      <4>5. PICK h \in Int : h = SumFunction(local_hashes)
        BY <4>3, FiniteThreads, SumType
      <4>6. SumFunction(local_hashes') = h - n + m
        BY <4>1, <4>2, <4>4, <4>5
      <4>7. h - n + m = h + Stride
        BY <4>1, Sizes
      <4> QED
        BY <4>5, <4>6, <4>7
    <3>6. ASSUME NEW c \in Golden PROVE coinsSent'[c] = IF c \in covered' THEN 1 ELSE 0
      <4>1. /\ coinsSent[c] = IF c \in covered THEN 1 ELSE 0
            /\ coinsSent'[c] = coinsSent[c] + IF c \in Lanes(counter[t]) THEN 1 ELSE 0
        BY <2>2, MineParts DEF OnceInv
      <4> QED
        BY <3>1, <3>2, <4>1
    <3> QED
      BY <3>4, <3>5, <3>6 DEF OnceInv, Hashed
  <2> QED
    BY <2>1, <2>2 DEF Next, MasterDecidesToStop, MasterSendsStop, SendDone, vars, Barriers,
       OpenBarrier1, OpenBarrier2, OpenBarrier3, OpenFinalBarrier, LeaveBarrier,
       Thread, EnterRegion, Tick, ReachEndOfSlice, EnterSingle, SkipSingle, CheckStopAtEnd,
       ReceiveAnswer, SplitAgain, LeaveLoop, locals, history
<1> QED
  BY <1>1, <1>2, TypeCorrect, HashedCorrect, SentCorrect, FreshCorrect, PTL DEF Spec

(* When the slices are whole strides no counter is hashed by two threads,  *)
(* nor again in a later range; each coin is sent once and total_coins is   *)
(* their number (run_worker, the loop over the lanes).                     *)
THEOREM CountersOnce == ASSUME Aligned PROVE Spec => []EachCounterOnce
<1>1. SentInv /\ OnceInv => EachCounterOnce
  BY DEF SentInv, OnceInv, EachCounterOnce
<1> QED
  BY <1>1, SentCorrect, OnceCorrect, PTL

-----------------------------------------------------------------------------
(* The port *)

(* Once WORKER_DONE is sent every thread has left the region, and in the   *)
(* region the worker asks when one of its threads does.                    *)
LEMMA TeamStates ==
    ASSUME ControlInv, ReportInv
    PROVE  /\ doneSent => TeamState = "gone" /\ \A t \in Threads : pc[t] = "joined"
           /\ ~doneSent /\ (\E t \in Threads : pc[t] = "request") => TeamState = "asking"
           /\ ~doneSent /\ (\A t \in Threads : pc[t] # "request") => TeamState = "mining"
  BY Sizes DEF TeamState, ControlInv, ReportInv, LeaveOnStop

LEMMA PortStutters ==
    ASSUME TeamState' = TeamState, work' = work, coinsSent' = coinsSent,
           worker_stop_signal' = worker_stop_signal
    PROVE  [Port!Next]_(Port!vars)
<1>1. SentOfRange' = SentOfRange
  BY DEF SentOfRange
<1> QED
  BY <1>1 DEF Port!vars

LEMMA PortTakesStop ==
    ASSUME TeamState = "mining", TeamState' = "mining", work' = work, coinsSent' = coinsSent,
           worker_stop_signal' = TRUE
    PROVE  Port!Next
<1>1. SentOfRange' = SentOfRange
  BY DEF SentOfRange
<1> QED
  BY <1>1 DEF Port!Next, Port!TakeStop

LEMMA CoinsOfWork ==
    ASSUME TypeInv
    PROVE  Port!CoinsOf(work) = {c \in Golden : work.start <= c /\ c < work.end}
<1>1. PICK a \in Nat, b \in Nat : a = work.start /\ b = work.end
  BY WorkParts
<1>2. ASSUME NEW c \in Golden PROVE c \in a..(b - 1) <=> a <= c /\ c < b
  <2>1. c \in Nat
    BY GoldenAssumption
  <2> QED
    BY <1>1, <2>1
<1>3. Port!CoinsOf(work) = Golden \cap a..(b - 1)
  BY <1>1 DEF Port!CoinsOf
<1> QED
  BY <1>1, <1>2, <1>3

(* The coins of the range that were sent are those whose counters were     *)
(* hashed.                                                                 *)
LEMMA SentAreHashed ==
    ASSUME TypeInv, SentInv
    PROVE  /\ SentOfRange = {c \in Port!CoinsOf(work) : c \in covered}
           /\ SentOfRange \subseteq Port!CoinsOf(work)
  BY CoinsOfWork DEF SentOfRange, SentInv

(* To the rest of the job the team is a worker that keeps the port: the    *)
(* threads' steps are those of module MpiWorkerPort, or change nothing     *)
(* that is seen outside.                                                   *)
THEOREM TeamKeepsPort == ASSUME Aligned PROVE Spec => PortSpec
<1> USE DEF shared, locals, master, history
<1>1. Init => Port!Init
  <2> SUFFICES ASSUME Init PROVE Port!Init
    OBVIOUS
  <2>1. work.start = 0
    <3>1. work = RangeAt(0) /\ 0 \in Nat
      BY DEF Init
    <3> QED
      BY <3>1, RangeFields
  <2>2. SentOfRange = {}
    BY DEF Init, SentOfRange
  <2>3. TeamState = "mining"
    BY DEF Init, TeamState
  <2>4. worker_stop_signal = FALSE
    BY DEF Init
  <2> QED
    BY <2>1, <2>2, <2>3, <2>4 DEF Port!Init
<1>2. TypeInv /\ TypeInv' /\ ControlInv /\ ControlInv' /\ ReportInv /\ ReportInv' /\ SentInv /\ SentInv'
      /\ FreshInv /\ RangeExhausted /\ [Next]_vars => [Port!Next]_(Port!vars)
  <2> SUFFICES ASSUME TypeInv, TypeInv', ControlInv, ControlInv', ReportInv, ReportInv', SentInv,
                      SentInv', FreshInv, RangeExhausted, [Next]_vars
               PROVE  [Port!Next]_(Port!vars)
    OBVIOUS
  <2>p. pc \in [Threads -> Places] /\ 0 \in Threads
    BY Sizes DEF ControlInv
  <2>1. CASE MasterDecidesToStop \/ MasterSendsStop \/ UNCHANGED vars
    <3>1. UNCHANGED <<pc, doneSent, work, coinsSent, worker_stop_signal>>
      BY <2>1 DEF MasterDecidesToStop, MasterSendsStop, vars
    <3>2. TeamState' = TeamState
      BY <3>1 DEF TeamState
    <3> QED
      BY <3>1, <3>2, PortStutters
  <2>2. CASE SendDone
    <3>1. /\ UNCHANGED <<pc, work, coinsSent, worker_stop_signal>> /\ ~doneSent /\ doneSent'
          /\ pc[0] = "joined"
      BY <2>2 DEF SendDone
    <3>2. \A t \in Threads : pc[t] = "joined"
      BY <2>p, <3>1 DEF ControlInv, LeaveOnStop
    <3>3. TeamState = "mining" /\ TeamState' = "gone" /\ worker_stop_signal
      BY <2>p, <3>1, <3>2 DEF TeamState, ControlInv, LeaveOnStop
    <3>4. SentOfRange' = SentOfRange
      BY <3>1 DEF SentOfRange
    <3> QED
      BY <3>1, <3>3, <3>4 DEF Port!Next, Port!Leave
  <2>3. CASE Barriers
    <3>1. UNCHANGED <<doneSent, work, coinsSent, worker_stop_signal>> /\ Barrier
      BY <2>3, BarrierControl DEF Barriers, OpenBarrier1, OpenBarrier2, OpenBarrier3,
         OpenFinalBarrier, LeaveBarrier
    <3>2. \A t \in Threads : pc[t] # "request" /\ pc'[t] # "request"
      BY <3>1 DEF Barrier, BarrierOpens
    <3>3. TeamState' = TeamState
      BY <3>1, <3>2 DEF TeamState
    <3> QED
      BY <3>1, <3>3, PortStutters
  <2>4. ASSUME NEW t \in Threads, Thread(t) PROVE [Port!Next]_(Port!vars)
    <3>c. Control(t) /\ \A u \in Threads \ {t} : pc'[u] = pc[u]
      BY <2>4, <2>p, ThreadControl DEF Control
    <3>d. ~doneSent /\ doneSent' = doneSent
      <4>1. pc[t] # "joined"
        BY <3>c DEF Control
      <4>2. ~doneSent
        BY <2>p, <4>1 DEF ReportInv, ControlInv, LeaveOnStop
      <4> QED
        BY <2>4, <4>2 DEF Thread, EnterRegion, MineStep, Tick, ReachEndOfSlice, EnterSingle,
           SkipSingle, CheckStopAtEnd, ReceiveAnswer, SplitAgain, LeaveLoop
    <3>m. ASSUME \A u \in Threads : pc[u] # "request" PROVE TeamState = "mining"
      BY <3>d, <3>m DEF TeamState
    <3>n. ASSUME \A u \in Threads : pc'[u] # "request" PROVE TeamState' = "mining"
      BY <3>d, <3>n DEF TeamState
    <3>s. ASSUME pc[t] # "request", pc'[t] # "request" PROVE TeamState' = TeamState
      <4>1. (\E u \in Threads : pc'[u] = "request") <=> \E u \in Threads : pc[u] = "request"
        BY <3>c, <3>s
      <4> QED
        BY <3>d, <4>1 DEF TeamState
    <3>h. ASSUME pc[t] \in {"loop", "mine", "tick"} PROVE \A u \in Threads : pc[u] # "request"
      BY <3>h DEF ControlInv, Together, Hashing, AboutSingle
    <3>1. CASE EnterRegion(t) \/ ReachEndOfSlice(t) \/ EnterSingle(t) \/ SkipSingle(t)
               \/ SplitAgain(t) \/ LeaveLoop(t)
      <4>1. /\ UNCHANGED <<work, coinsSent, worker_stop_signal>>
            /\ pc[t] # "request" /\ pc'[t] # "request"
        BY <3>1, <2>p DEF EnterRegion, ReachEndOfSlice, EnterSingle, SkipSingle, SplitAgain,
           LeaveLoop, Goto, WaitsForSingle
      <4> QED
        BY <3>s, <4>1, PortStutters
    <3>2. CASE MineStep(t)
      <4>1. /\ pc[t] \in {"loop", "mine"} /\ pc'[t] \in {"loop", "tick"}
            /\ UNCHANGED <<work, worker_stop_signal>> /\ covered \subseteq covered'
        BY <3>2, <2>p, MineParts
      <4>2. TeamState = "mining" /\ TeamState' = "mining"
        BY <3>h, <3>m, <3>s, <4>1
      <4>3. /\ SentOfRange = {c \in Port!CoinsOf(work) : c \in covered}
            /\ SentOfRange' = {c \in Port!CoinsOf(work) : c \in covered'}
        <5>1. SentOfRange = {c \in Port!CoinsOf(work) : c \in covered}
          BY SentAreHashed
        <5>2. ASSUME NEW c \in Golden PROVE coinsSent'[c] > 0 <=> c \in covered'
          BY DEF SentInv
        <5>3. Port!CoinsOf(work) = {c \in Golden : work.start <= c /\ c < work.end}
          BY CoinsOfWork
        <5>4. SentOfRange' = {c \in Golden : work.start <= c /\ c < work.end /\ coinsSent'[c] > 0}
          BY <4>1 DEF SentOfRange
        <5> QED
          BY <5>1, <5>2, <5>3, <5>4
      <4>4. SentOfRange \subseteq SentOfRange' /\ SentOfRange' \subseteq Port!CoinsOf(work)
        BY <4>1, <4>3
      <4> QED
        BY <4>1, <4>2, <4>4 DEF Port!Next, Port!Send
    <3>3. CASE Tick(t)
      <4>1. /\ pc[t] = "tick" /\ pc'[t] = "loop" /\ UNCHANGED <<work, coinsSent>>
            /\ worker_stop_signal' = worker_stop_signal \/ worker_stop_signal' = TRUE
        BY <3>3, <2>p DEF Tick, CheckStop, Goto
      <4>2. TeamState = "mining" /\ TeamState' = TeamState
        BY <3>h, <3>m, <3>s, <4>1
      <4> QED
        BY <4>1, <4>2, PortStutters, PortTakesStop
    <3>4. CASE CheckStopAtEnd(t)
      <4>1. pc[t] = "check" /\ UNCHANGED <<work, coinsSent>>
        BY <3>4 DEF CheckStopAtEnd
      <4>2. \A u \in Threads : pc[u] # "request"
        BY <4>1 DEF ControlInv, OneAsks, Asking
      <4>3. TeamState = "mining"
        BY <3>m, <4>2
      <4>4. CASE stopMsg = "pending"
        <5>1. pc'[t] = "b2" /\ worker_stop_signal' = TRUE
          BY <3>4, <2>p, <4>4 DEF CheckStopAtEnd, CheckStop, Goto
        <5>2. TeamState' = "mining"
          BY <3>s, <4>1, <4>3, <5>1
        <5> QED
          BY <4>1, <4>3, <5>1, <5>2, PortTakesStop
      <4>5. CASE stopMsg # "pending"
        <5>1. pc'[t] = "request" /\ worker_stop_signal' = worker_stop_signal
          BY <3>4, <2>p, <4>5 DEF CheckStopAtEnd, CheckStop, Goto
        <5>2. TeamState' = "asking"
          BY <3>d, <5>1 DEF TeamState
        <5>3. ~worker_stop_signal
          BY <4>1 DEF ControlInv, NobodyAsks, Asking
        <5>4. work.start..(work.end - 1) \subseteq covered
          BY <4>1 DEF RangeExhausted
        <5>5. SentOfRange = Port!CoinsOf(work)
          BY <5>4, SentAreHashed DEF Port!CoinsOf
        <5>6. SentOfRange' = SentOfRange
          BY <4>1 DEF SentOfRange
        <5> QED
          BY <4>1, <4>3, <5>1, <5>2, <5>3, <5>5, <5>6 DEF Port!Next, Port!Ask
      <4> QED
        BY <4>4, <4>5
    <3>5. CASE ReceiveAnswer(t)
      <4>1. pc[t] = "request" /\ pc'[t] = "b2" /\ UNCHANGED coinsSent
        BY <3>5, <2>p DEF ReceiveAnswer, Goto
      <4>2. TeamState = "asking"
        BY <3>d, <4>1 DEF TeamState
      <4>3. \A u \in Threads : pc'[u] # "request"
        BY <3>c, <4>1 DEF ControlInv, OneAsks, Asking
      <4>4. TeamState' = "mining"
        BY <3>n, <4>3
      <4>5. ASSUME NEW c \in Golden, coinsSent'[c] > 0
            PROVE  c \in Nat /\ c < next_counter
        BY <4>1, <4>5, GoldenAssumption DEF SentInv, FreshInv
      <4>6. CASE work' = StopReply /\ worker_stop_signal' = TRUE
        <5>1. work'.start = 0 /\ work'.end = 0
          BY <4>6, RangeFields
        <5>2. SentOfRange' = {}
          BY <5>1, <4>5 DEF SentOfRange
        <5>3. work' = Port!StopReply
          BY <4>6 DEF StopReply, Port!StopReply
        <5> QED
          BY <4>2, <4>4, <4>6, <5>2, <5>3 DEF Port!Next, Port!TakeStopReply
      <4>7. CASE work' = RangeAt(next_counter) /\ worker_stop_signal' = worker_stop_signal
        <5>1. next_counter \in Nat /\ work.end \in Nat /\ work.end <= next_counter
          BY WorkParts
        <5>2. work'.start = next_counter /\ work'.end = next_counter + WORK_CHUNK_SIZE
          BY <4>7, <5>1, RangeFields
        <5>3. SentOfRange' = {}
          BY <4>5, <5>1, <5>2 DEF SentOfRange
        <5>4. work'.start >= work.end /\ work'.end > work'.start
          BY <5>1, <5>2, Sizes
        <5> QED
          BY <4>2, <4>4, <4>7, <5>3, <5>4 DEF Port!Next, Port!TakeRange
      <4> QED
        BY <3>5, <4>6, <4>7 DEF ReceiveAnswer
    <3> QED
      BY <2>4, <3>1, <3>2, <3>3, <3>4, <3>5 DEF Thread
  <2> QED
    BY <2>1, <2>2, <2>3, <2>4 DEF Next
<1> QED
  BY <1>1, <1>2, TypeCorrect, ControlCorrect, ReportCorrect, SentCorrect, FreshCorrect,
     RangesAreExhausted, PTL DEF Spec, PortSpec, Port!Spec
=============================================================================
