---------------------------- MODULE MpiWorkerTeam ----------------------------
(***************************************************************************)
(* The OpenMP team of one MPI worker (aad_mpi_worker.h, run_worker): the   *)
(* threads split a range, hash their slices, meet at a barrier, let one of *)
(* them ask the master for the next range, and leave when the stop flag is *)
(* up.  Module MpiMiner has the protocol between the ranks; here the       *)
(* master is the environment: at some time it decides to stop, then sends  *)
(* STOP, and it answers every request.                                     *)
(*                                                                         *)
(* A barrier lets its threads go when all of them have reached the same    *)
(* barrier; the end of the parallel region is a barrier of its own, as in  *)
(* GCC's libgomp (mpicc -fopenmp), which counts the arrivals at it apart.  *)
(***************************************************************************)
EXTENDS Integers, FiniteSets, Functions

CONSTANTS
    NumThreads,       \* omp_get_num_threads()
    WORK_CHUNK_SIZE,  \* length of a range, in counters
    Stride,           \* counters hashed by one step: the 8 lanes of AVX2
    StatsBatch,       \* 0x100000: hashes between two updates of total_hashes
    Golden,           \* the counters that make a DETI coin
    MaxCounter        \* bound: the master hands out no range beyond it

ASSUME NumThreadsAssumption == NumThreads \in Nat \ {0}
ASSUME ChunkAssumption == WORK_CHUNK_SIZE \in Nat \ {0}
ASSUME StrideAssumption == Stride \in Nat \ {0}
ASSUME StatsBatchAssumption == StatsBatch \in Nat \ {0} /\ StatsBatch % Stride = 0
ASSUME GoldenAssumption == Golden \subseteq Nat /\ IsFiniteSet(Golden)
ASSUME BoundAssumption == MaxCounter \in Nat

VARIABLES
    \* --- shared by the team ---
    work,
    worker_stop_signal,
    total_hashes,
    total_coins,
    singleTaken,      \* some thread has entered the current omp single
    \* --- one per thread ---
    pc,
    my_end,
    counter,
    local_hashes,
    \* --- the messages to and from the master ---
    masterStops,      \* master_stop_signal, at the master
    stopMsg,          \* TAG_STOP: "none", "pending" or "taken"
    next_counter,     \* at the master
    reported,         \* total_hashes in the last statistics message
    doneSent,         \* TAG_WORKER_DONE has been sent
    \* --- history ---
    covered,          \* the counters hashed
    coinsSent         \* how often each coin was sent

shared == <<work, worker_stop_signal, total_hashes, total_coins, singleTaken>>
locals == <<pc, my_end, counter, local_hashes>>
master == <<masterStops, stopMsg, next_counter, reported, doneSent>>
history == <<covered, coinsSent>>
vars == <<shared, locals, master, history>>

Threads == 0..(NumThreads - 1)
WorkRange == [start : Nat, end : Nat]

TypeOK ==
    /\ work \in WorkRange
    /\ worker_stop_signal \in BOOLEAN
    /\ total_hashes \in Nat
    /\ total_coins \in Nat
    /\ singleTaken \in BOOLEAN
    /\ pc \in [Threads -> {"start", "loop", "mine", "tick", "b1", "single",
                           "check", "request", "b2", "b3", "resplit",
                           "join", "joined"}]
    /\ my_end \in [Threads -> Nat]
    /\ counter \in [Threads -> Nat]
    /\ local_hashes \in [Threads -> Nat]
    /\ masterStops \in BOOLEAN
    /\ stopMsg \in {"none", "pending", "taken"}
    /\ next_counter \in Nat
    /\ reported \in Nat
    /\ doneSent \in BOOLEAN
    /\ covered \subseteq Nat
    /\ coinsSent \in [Golden -> Nat]

-----------------------------------------------------------------------------
(* The slice of thread t: range_size / num_threads counters, and the rest  *)
(* of the division for the last thread.                                    *)

SliceSize(r) == (r.end - r.start) \div NumThreads
SliceStart(r, t) == r.start + t * SliceSize(r)
RestForgotten(r, t) == SliceStart(r, t) + SliceSize(r)
SliceEnd(r, t) == IF t = NumThreads - 1 THEN r.end
                  ELSE SliceStart(r, t) + SliceSize(r)

RangeAt(c) == [start |-> c, end |-> c + WORK_CHUNK_SIZE]
StopReply == [start |-> 0, end |-> 0]

Init ==
    /\ work = RangeAt(0)
    /\ worker_stop_signal = FALSE
    /\ total_hashes = 0
    /\ total_coins = 0
    /\ singleTaken = FALSE
    /\ pc = [t \in Threads |-> "start"]
    /\ my_end = [t \in Threads |-> 0]
    /\ counter = [t \in Threads |-> 0]
    /\ local_hashes = [t \in Threads |-> 0]
    /\ masterStops = FALSE
    /\ stopMsg = "none"
    /\ next_counter = WORK_CHUNK_SIZE
    /\ reported = 0
    /\ doneSent = FALSE
    /\ covered = {}
    /\ coinsSent = [c \in Golden |-> 0]

-----------------------------------------------------------------------------
(* The master, as the team sees it *)

MasterDecidesToStop ==
    /\ ~masterStops
    /\ masterStops' = TRUE
    /\ UNCHANGED <<stopMsg, next_counter, reported, doneSent, shared, locals,
                   history>>

MasterSendsStop ==
    /\ masterStops
    /\ stopMsg = "none"
    /\ stopMsg' = "pending"
    /\ UNCHANGED <<masterStops, next_counter, reported, doneSent, shared, locals,
                   history>>

-----------------------------------------------------------------------------
(* The threads *)

Goto(t, place) == pc' = [pc EXCEPT ![t] = place]

TakeSlice(t) ==
    /\ my_end' = [my_end EXCEPT ![t] = SliceEnd(work, t)]
    /\ counter' = [counter EXCEPT ![t] = SliceStart(work, t)]

EnterRegion(t) ==
    /\ pc[t] = "start"
    /\ TakeSlice(t)
    /\ Goto(t, "loop")
    /\ UNCHANGED <<local_hashes, shared, master, history>>

NineLanes(c) == c..(c + Stride)
Lanes(c) == c..(c + Stride - 1)
CoinsIn(c) == Golden \cap Lanes(c)

(* total_hashes grows by a whole batch when the batch is complete. *)
Counted(hashes) == IF hashes % StatsBatch = 0 THEN StatsBatch ELSE 0

(* One pass through the hashing half of the loop.  It follows the test of  *)
(* the while with counter < my_end, or a new split without that test.      *)
MineStep(t) ==
    LET hashes == local_hashes[t] + Stride
    IN  /\ \/ pc[t] = "mine"
           \/ pc[t] = "loop" /\ ~worker_stop_signal /\ counter[t] < my_end[t]
        /\ covered' = covered \cup Lanes(counter[t])
        /\ coinsSent' = [c \in Golden |->
                           coinsSent[c] + IF c \in Lanes(counter[t]) THEN 1 ELSE 0]
        /\ total_coins' = total_coins + Cardinality(CoinsIn(counter[t]))
        /\ counter' = [counter EXCEPT ![t] = @ + Stride]
        /\ local_hashes' = [local_hashes EXCEPT ![t] = hashes]
        /\ total_hashes' = total_hashes + Counted(hashes)
        /\ \/ Goto(t, "loop")
           \/ hashes % StatsBatch = 0 /\ t = 0 /\ Goto(t, "tick")
        /\ UNCHANGED <<work, worker_stop_signal, singleTaken, my_end, master>>

(* Thread 0 looks at the clock: at least a second after its last check it  *)
(* looks for STOP, at least two after its last report it sends another.    *)
CheckStop ==
    \/ /\ stopMsg = "pending"
       /\ stopMsg' = "taken"
       /\ worker_stop_signal' = TRUE
    \/ /\ stopMsg # "pending"
       /\ UNCHANGED <<stopMsg, worker_stop_signal>>

Tick(t) ==
    /\ pc[t] = "tick"
    /\ CheckStop \/ UNCHANGED <<stopMsg, worker_stop_signal>>
    /\ reported' \in {reported, total_hashes}
    /\ Goto(t, "loop")
    /\ UNCHANGED <<work, total_hashes, total_coins, singleTaken, my_end,
                   counter, local_hashes, masterStops, next_counter, doneSent,
                   history>>

ReachEndOfSlice(t) ==
    /\ pc[t] = "loop"
    /\ ~worker_stop_signal
    /\ counter[t] >= my_end[t]
    /\ Goto(t, "b1")
    /\ UNCHANGED <<my_end, counter, local_hashes, shared, master, history>>

(* A barrier: all the threads of the team have arrived at it. *)
AllArrived(b) == \A t \in Threads : pc[t] = b

LeaveBarrier(b, next) ==
    /\ AllArrived(b)
    /\ pc' = [t \in Threads |-> next]
    /\ UNCHANGED <<my_end, counter, local_hashes, work, worker_stop_signal,
                   total_hashes, total_coins, master, history>>

OpenBarrier1 == LeaveBarrier("b1", "single") /\ UNCHANGED singleTaken
(* The implicit barrier of the single, then the explicit one. *)
OpenBarrier2 == LeaveBarrier("b2", "b3") /\ singleTaken' = FALSE
OpenBarrier3 == LeaveBarrier("b3", "resplit") /\ UNCHANGED singleTaken

EveryoneIsFirst == TRUE
FirstToArrive == ~singleTaken

EnterSingle(t) ==
    /\ pc[t] = "single"
    /\ FirstToArrive
    /\ singleTaken' = TRUE
    /\ Goto(t, "check")
    /\ UNCHANGED <<work, worker_stop_signal, total_hashes, total_coins, my_end,
                   counter, local_hashes, master, history>>

GoesOn == "resplit"
WaitsForSingle == "b2"
SkipSingle(t) ==
    /\ pc[t] = "single"
    /\ singleTaken
    /\ Goto(t, WaitsForSingle)
    /\ UNCHANGED <<my_end, counter, local_hashes, shared, master, history>>

(* In the single: the check for STOP, or the request and its answer. *)
CheckStopAtEnd(t) ==
    /\ pc[t] = "check"
    /\ CheckStop
    /\ Goto(t, IF stopMsg = "pending" THEN "b2" ELSE "request")
    /\ UNCHANGED <<work, total_hashes, total_coins, singleTaken, my_end,
                   counter, local_hashes, masterStops, next_counter, reported,
                   doneSent, history>>

ReceiveAnswer(t) ==
    /\ pc[t] = "request"
    /\ \/ /\ masterStops
          /\ work' = StopReply
          /\ worker_stop_signal' = TRUE
          /\ UNCHANGED next_counter
       \/ /\ ~masterStops
          /\ next_counter < MaxCounter
          /\ work' = RangeAt(next_counter)
          /\ next_counter' = next_counter + WORK_CHUNK_SIZE
          /\ UNCHANGED worker_stop_signal
    /\ Goto(t, "b2")
    /\ UNCHANGED <<total_hashes, total_coins, singleTaken, my_end, counter,
                   local_hashes, masterStops, stopMsg, reported, doneSent,
                   history>>

SplitAgain(t) ==
    /\ pc[t] = "resplit"
    /\ ~worker_stop_signal
    /\ TakeSlice(t)
    /\ Goto(t, "mine")
    /\ UNCHANGED <<local_hashes, shared, master, history>>

(* The while ends, or the break behind the barrier: the hashes not yet     *)
(* counted are added and the thread waits for the end of the region.       *)
RestNotAdded(t) == 0
Remainder(t) == local_hashes[t] % StatsBatch

LeaveLoop(t) ==
    /\ pc[t] \in {"loop", "resplit"}
    /\ worker_stop_signal
    /\ total_hashes' = total_hashes + Remainder(t)
    /\ Goto(t, "join")
    /\ UNCHANGED <<work, worker_stop_signal, total_coins, singleTaken, my_end,
                   counter, local_hashes, master, history>>

OpenFinalBarrier == LeaveBarrier("join", "joined") /\ UNCHANGED singleTaken

(* The final statistics and WORKER_DONE. *)
SendDone ==
    /\ pc[0] = "joined"
    /\ ~doneSent
    /\ reported' = total_hashes
    /\ doneSent' = TRUE
    /\ UNCHANGED <<masterStops, stopMsg, next_counter, shared, locals, history>>

Thread(t) ==
    \/ EnterRegion(t)
    \/ MineStep(t)
    \/ Tick(t)
    \/ ReachEndOfSlice(t)
    \/ EnterSingle(t)
    \/ SkipSingle(t)
    \/ CheckStopAtEnd(t)
    \/ ReceiveAnswer(t)
    \/ SplitAgain(t)
    \/ LeaveLoop(t)

Barriers ==
    \/ OpenBarrier1 \/ OpenBarrier2 \/ OpenBarrier3
    \/ OpenFinalBarrier

Next ==
    \/ MasterDecidesToStop
    \/ MasterSendsStop
    \/ Barriers
    \/ \E t \in Threads : Thread(t)
    \/ SendDone

Spec == Init /\ [][Next]_vars

(* Every thread and the barriers make progress, and a master that has      *)
(* decided to stop sends STOP.                                             *)
FairSpec ==
    /\ Spec
    /\ WF_vars(MasterSendsStop)
    /\ WF_vars(Barriers)
    /\ WF_vars(SendDone)
    /\ \A t \in Threads : WF_vars(Thread(t))

-----------------------------------------------------------------------------
(* Properties *)

InSlice == {"loop", "mine", "tick"}
Hashed == SumFunction(local_hashes)

(* No counter is hashed twice, since the slices do not overlap and no      *)
(* thread runs past the end of its own, so each coin is sent once, and     *)
(* total_coins is their number.  (This needs slices that are a multiple   *)
(* of Stride, which the 100000000 counters of a range give for 1, 2, 4, 8, *)
(* 16 or 20 threads, and not for 6, 12 or 24.)                             *)
EachCounterOnce ==
    /\ Cardinality(covered) = Hashed
    /\ \A c \in Golden : coinsSent[c] = (IF c \in covered THEN 1 ELSE 0)
    /\ total_coins = SumFunction(coinsSent)

(* No counter is left out: when a range is given back for the next one,    *)
(* all of it has been hashed, the rest of the division included.           *)
RangeExhausted ==
    (\E t \in Threads : pc[t] \in {"check", "request"}) =>
        work.start..(work.end - 1) \subseteq covered

(* All threads work on slices of the one range in `work`: nobody reads it  *)
(* before the single has stored the answer, nor keeps an old slice after.  *)
SameRange ==
    \A t \in Threads : pc[t] \in InSlice => my_end[t] = SliceEnd(work, t)

(* The blocking request is made by one thread while the others hash        *)
(* nothing and wait for it.                                                *)
RequestAlone ==
    \A t \in Threads : pc[t] \in {"check", "request"} =>
        \A u \in Threads \ {t} : pc[u] \in {"single", "b2"}

(* A report never counts more than has been hashed, and the final one      *)
(* counts every hash of every thread once, although each thread adds to    *)
(* total_hashes in batches and the rest only when it leaves.               *)
ReportsExact ==
    /\ reported <= Hashed
    /\ doneSent => reported = Hashed

(* To the rest of the job the team is one worker that keeps the port of    *)
(* module MpiWorkerPort, as the single process of MpiMiner does: all coins *)
(* of a range are sent before the next is asked for, none while a thread   *)
(* waits for the answer, and none behind WORKER_DONE.                      *)
TeamState ==
    IF doneSent THEN "gone"
    ELSE IF \E t \in Threads : pc[t] = "request" THEN "asking" ELSE "mining"
SentOfRange == {c \in Golden : work.start <= c /\ c < work.end /\ coinsSent[c] > 0}

Port == INSTANCE MpiWorkerPort
          WITH state <- TeamState, range <- work, sent <- SentOfRange,
               stopped <- worker_stop_signal
PortSpec == Port!Spec

(* A thread that waits for the next range while another has left its loop  *)
(* on STOP: neither barrier can open any more.                             *)
SplitTeam ==
    \E t, u \in Threads : pc[t] = "join" /\ pc[u] = "b1"

(* A worker whose master stops gets to WORKER_DONE, unless thread 0 takes  *)
(* STOP in the middle of a range and splits the team: nothing else in the  *)
(* barriers, the single and the flag can keep it from ending.              *)
TeamEndsOrSplits == masterStops ~> (doneSent \/ SplitTeam)

(* makefile:97 and README.md:186, "Run with 4 workers for 60 seconds": a   *)
(* worker whose master stops gets to WORKER_DONE.  It fails: see SplitTeam.*)
TeamTerminates == masterStops ~> doneSent
=============================================================================
