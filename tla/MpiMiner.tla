------------------------------ MODULE MpiMiner ------------------------------
(***************************************************************************)
(* The client/server DETI coin miner (includes/MPI_ClientServer): rank 0   *)
(* runs run_master, ranks 1..NumWorkers run run_worker.  The master hands  *)
(* out counter ranges, collects coins and statistics, and shuts the        *)
(* workers down on a signal or when the time limit has passed.             *)
(*                                                                         *)
(* A worker's OpenMP team is a team of one here (OMP_NUM_THREADS=1); the   *)
(* barriers of larger teams are the subject of module MpiWorkerTeam.  The  *)
(* unit of a counter is one batch, the 8 counters an AVX2 step hashes.     *)
(*                                                                         *)
(* MPI is external: a channel per sender, receiver and tag, FIFO, without  *)
(* loss, in which a small message is available to the receiver's probe as  *)
(* soon as MPI_Send returns (the eager protocol).                          *)
(***************************************************************************)
EXTENDS Integers, Sequences, FiniteSets, Functions

CONSTANTS
    NumWorkers,       \* MPI ranks 1..NumWorkers are workers
    WORK_CHUNK_SIZE,  \* length of a range, in batches
    Golden,           \* the batches that contain a DETI coin
    TimeLimited,      \* whether time_limit > 0
    MaxCounter,       \* bound: no range is asked for once next_counter is here
    MaxStats          \* bound: statistics messages in flight from one worker

ASSUME NumWorkersAssumption == NumWorkers \in Nat \ {0}
ASSUME ChunkAssumption == WORK_CHUNK_SIZE \in Nat \ {0}
ASSUME GoldenAssumption == Golden \subseteq Nat
ASSUME TimeLimitedAssumption == TimeLimited \in BOOLEAN
ASSUME BoundsAssumption == MaxCounter \in Nat /\ MaxStats \in Nat

VARIABLES
    \* --- rank 0 ---
    mpc,                 \* where run_master is
    next_counter,
    active_workers,
    master_stop_signal,
    shutdown_sent,
    timeUp,              \* elapsed >= time_limit
    worker_hashes,
    vault,               \* the vault file, in the order of the appends
    \* --- ranks 1..NumWorkers ---
    wpc,                 \* where run_worker is
    work,
    counter,
    worker_stop_signal,
    hashed,              \* total_hashes of each worker
    \* --- the messages sent and not yet received, per worker and tag ---
    assignCh, coinCh, requestCh, statsCh, stopCh, doneCh,
    \* --- history ---
    found                \* every coin a worker has sent

mvars == <<mpc, next_counter, active_workers, master_stop_signal,
           shutdown_sent, timeUp, worker_hashes, vault>>
wvars == <<wpc, work, counter, worker_stop_signal, hashed>>
chans == <<assignCh, coinCh, requestCh, statsCh, stopCh, doneCh>>
vars == <<mvars, wvars, chans, found>>

Workers == 1..NumWorkers
WorkRange == [start : Nat, end : Nat]

MasterTypeOK ==
    /\ mpc \in {"distribute", "coins", "requests", "stats", "done", "clock",
                "finished", "aborted"}
    /\ next_counter \in Nat
    /\ active_workers \in Int
    /\ master_stop_signal \in BOOLEAN
    /\ shutdown_sent \in BOOLEAN
    /\ timeUp \in BOOLEAN
    /\ worker_hashes \in [Workers -> Nat]
    /\ vault \in Seq(Nat)

WorkerTypeOK ==
    /\ wpc \in [Workers -> {"recv", "loop", "tick", "report", "wait",
                            "final", "done", "exited"}]
    /\ work \in [Workers -> WorkRange]
    /\ counter \in [Workers -> Nat]
    /\ worker_stop_signal \in [Workers -> BOOLEAN]
    /\ hashed \in [Workers -> Nat]

ChannelTypeOK ==
    /\ assignCh \in [Workers -> Seq(WorkRange)]
    /\ coinCh \in [Workers -> Seq(Nat)]
    /\ requestCh \in [Workers -> Nat]
    /\ statsCh \in [Workers -> Seq(Nat)]
    /\ stopCh \in [Workers -> Nat]
    /\ doneCh \in [Workers -> Nat]
    /\ found \subseteq Nat

TypeOK == MasterTypeOK /\ WorkerTypeOK /\ ChannelTypeOK

-----------------------------------------------------------------------------
(* Ranges *)

EndIncluded(c) == [start |-> c, end |-> c + WORK_CHUNK_SIZE + 1]
RangeAt(c) == [start |-> c, end |-> c + WORK_CHUNK_SIZE]
StopReply == [start |-> 0, end |-> 0]

OneBatchShort(c) == c + WORK_CHUNK_SIZE - 1
Advance(c) == c + WORK_CHUNK_SIZE

(* active_workers starts with the number of workers, and each handler that *)
(* sees a worker leave takes one off.                                      *)
CountsTheMaster == NumWorkers + 1
InitialActive == NumWorkers

Init ==
    /\ mpc = "distribute"
    /\ next_counter = 0
    /\ active_workers = InitialActive
    /\ master_stop_signal = FALSE
    /\ shutdown_sent = FALSE
    /\ timeUp = FALSE
    /\ worker_hashes = [w \in Workers |-> 0]
    /\ vault = <<>>
    /\ wpc = [w \in Workers |-> "recv"]
    /\ work = [w \in Workers |-> StopReply]
    /\ counter = [w \in Workers |-> 0]
    /\ worker_stop_signal = [w \in Workers |-> FALSE]
    /\ hashed = [w \in Workers |-> 0]
    /\ assignCh = [w \in Workers |-> <<>>]
    /\ coinCh = [w \in Workers |-> <<>>]
    /\ requestCh = [w \in Workers |-> 0]
    /\ statsCh = [w \in Workers |-> <<>>]
    /\ stopCh = [w \in Workers |-> 0]
    /\ doneCh = [w \in Workers |-> 0]
    /\ found = {}

-----------------------------------------------------------------------------
(* The environment of rank 0 *)

(* SIGINT or SIGTERM reaches rank 0 at any point of run_master. *)
Interrupt ==
    /\ mpc \notin {"finished", "aborted"}
    /\ ~master_stop_signal
    /\ master_stop_signal' = TRUE
    /\ UNCHANGED <<mpc, next_counter, active_workers, shutdown_sent, timeUp,
                   worker_hashes, vault, wvars, chans, found>>

(* The clock passes start_time + time_limit. *)
TimePasses ==
    /\ TimeLimited
    /\ mpc \notin {"finished", "aborted"}
    /\ ~timeUp
    /\ timeUp' = TRUE
    /\ UNCHANGED <<mpc, next_counter, active_workers, master_stop_signal,
                   shutdown_sent, worker_hashes, vault, wvars, chans, found>>

-----------------------------------------------------------------------------
(* run_master *)

(* The first range of every worker.  The sends to the workers commute with *)
(* all the workers do before the master's loop, so they are one step.      *)
DistributeInitialWork ==
    /\ mpc = "distribute"
    /\ assignCh' = [w \in Workers |->
                      Append(assignCh[w], RangeAt((w - 1) * WORK_CHUNK_SIZE))]
    /\ next_counter' = NumWorkers * WORK_CHUNK_SIZE
    /\ mpc' = "coins"
    /\ UNCHANGED <<active_workers, master_stop_signal, shutdown_sent, timeUp,
                   worker_hashes, vault, wvars, coinCh, requestCh, statsCh,
                   stopCh, doneCh, found>>

(* Each of the four polling loops runs until its probe finds nothing. *)
PollEnds(here, next, nothing) ==
    /\ mpc = here
    /\ nothing
    /\ mpc' = next
    /\ UNCHANGED <<next_counter, active_workers, master_stop_signal,
                   shutdown_sent, timeUp, worker_hashes, vault, wvars, chans,
                   found>>

(* MPI_ANY_SOURCE *)
RankOneOnly == {1}
AnySource == Workers

NoCoinsOfRankOne == coinCh[1] = <<>>
NoCoins == \A w \in AnySource : coinCh[w] = <<>>
NoRequests == \A w \in AnySource : requestCh[w] = 0
NoStats == \A w \in AnySource : statsCh[w] = <<>>
NoDones == \A w \in AnySource : doneCh[w] = 0

CoinsDrained == PollEnds("coins", "requests", NoCoins)
RequestsDrained == PollEnds("requests", "stats", NoRequests)
StatsDrained == PollEnds("stats", "done", NoStats)
DonesDrained == PollEnds("done", "clock", NoDones)

(* save_coin(coin) and save_coin(NULL): the coin is appended to the file.  *)
WithoutTheFlush(v, c) == v
Saved(v, c) == Append(v, c)

HandleCoinFound(w) ==
    /\ mpc = "coins"
    /\ coinCh[w] # <<>>
    /\ coinCh' = [coinCh EXCEPT ![w] = Tail(@)]
    /\ vault' = Saved(vault, Head(coinCh[w]))
    /\ UNCHANGED <<mpc, next_counter, active_workers, master_stop_signal,
                   shutdown_sent, timeUp, worker_hashes, wvars, assignCh,
                   requestCh, statsCh, stopCh, doneCh, found>>

(* The vault file cannot be written: save_coin calls exit(1), and mpirun   *)
(* ends the other ranks.                                                   *)
VaultFails(w) ==
    /\ mpc = "coins"
    /\ coinCh[w] # <<>>
    /\ coinCh' = [coinCh EXCEPT ![w] = Tail(@)]
    /\ mpc' = "aborted"
    /\ UNCHANGED <<next_counter, active_workers, master_stop_signal,
                   shutdown_sent, timeUp, worker_hashes, vault, wvars,
                   assignCh, requestCh, statsCh, stopCh, doneCh, found>>

(* The answer to one request: a fresh range, or (0,0) once the master is   *)
(* stopping, which also takes the worker off active_workers.               *)
SilentWhenStopping(w, r) ==
    assignCh' = IF r = StopReply THEN assignCh
                ELSE [assignCh EXCEPT ![w] = Append(@, r)]
Reply(w, r) == assignCh' = [assignCh EXCEPT ![w] = Append(@, r)]

HandleWorkRequest(w) ==
    /\ mpc = "requests"
    /\ requestCh[w] > 0
    /\ requestCh' = [requestCh EXCEPT ![w] = @ - 1]
    /\ \/ /\ master_stop_signal
          /\ active_workers' = active_workers - 1
          /\ Reply(w, StopReply)
          /\ UNCHANGED next_counter
       \/ /\ ~master_stop_signal
          /\ Reply(w, RangeAt(next_counter))
          /\ next_counter' = Advance(next_counter)
          /\ UNCHANGED active_workers
    /\ UNCHANGED <<mpc, master_stop_signal, shutdown_sent, timeUp,
                   worker_hashes, vault, wvars, coinCh, statsCh, stopCh,
                   doneCh, found>>

(* total_hashes is recomputed from worker_hashes at every update, so it is *)
(* a function of worker_hashes and has no variable of its own.             *)
HandleStatsUpdate(w) ==
    /\ mpc = "stats"
    /\ statsCh[w] # <<>>
    /\ statsCh' = [statsCh EXCEPT ![w] = Tail(@)]
    /\ worker_hashes' = [worker_hashes EXCEPT ![w] = Head(statsCh[w])]
    /\ UNCHANGED <<mpc, next_counter, active_workers, master_stop_signal,
                   shutdown_sent, timeUp, vault, wvars, assignCh, coinCh,
                   requestCh, stopCh, doneCh, found>>

DoneNotCounted(n) == n
AfterDone(n) == n - 1

HandleWorkerDone(w) ==
    /\ mpc = "done"
    /\ doneCh[w] > 0
    /\ doneCh' = [doneCh EXCEPT ![w] = @ - 1]
    /\ active_workers' = AfterDone(active_workers)
    /\ UNCHANGED <<mpc, next_counter, master_stop_signal, shutdown_sent,
                   timeUp, worker_hashes, vault, wvars, assignCh, coinCh,
                   requestCh, statsCh, stopCh, found>>

(* The end of an iteration: the time limit, the broadcast of STOP (sent    *)
(* once, and one step for the reason DistributeInitialWork is one), the    *)
(* sleep, and the test of the while.  Behind the loop save_coin(NULL)      *)
(* finds an empty buffer, since HandleCoinFound flushes every coin.        *)
EndOfIteration ==
    LET stop == master_stop_signal \/ timeUp
    IN  /\ mpc = "clock"
        /\ master_stop_signal' = stop
        /\ \/ /\ stop /\ ~shutdown_sent
              /\ stopCh' = [w \in Workers |-> stopCh[w] + 1]
              /\ shutdown_sent' = TRUE
           \/ /\ ~(stop /\ ~shutdown_sent)
              /\ UNCHANGED <<stopCh, shutdown_sent>>
        /\ mpc' = IF active_workers > 0 THEN "coins" ELSE "finished"
        /\ UNCHANGED <<next_counter, active_workers, timeUp, worker_hashes,
                       vault, wvars, assignCh, coinCh, requestCh, statsCh,
                       doneCh, found>>

Master ==
    \/ DistributeInitialWork
    \/ CoinsDrained \/ RequestsDrained \/ StatsDrained \/ DonesDrained
    \/ \E w \in AnySource :
          \/ HandleCoinFound(w) \/ VaultFails(w)
          \/ HandleWorkRequest(w)
          \/ HandleStatsUpdate(w)
          \/ HandleWorkerDone(w)
    \/ EndOfIteration

-----------------------------------------------------------------------------
(* run_worker *)

Goto(w, place) == wpc' = [wpc EXCEPT ![w] = place]

(* The first range, or the answer to a request, is received; the answer    *)
(* (0,0) stops the worker.                                                 *)
IsStopReply(r) == r.start = 0 /\ r.end = 0

ReceiveInitialWork(w) ==
    /\ wpc[w] = "recv"
    /\ assignCh[w] # <<>>
    /\ work' = [work EXCEPT ![w] = Head(assignCh[w])]
    /\ counter' = [counter EXCEPT ![w] = Head(assignCh[w]).start]
    /\ assignCh' = [assignCh EXCEPT ![w] = Tail(@)]
    /\ Goto(w, "loop")
    /\ UNCHANGED <<worker_stop_signal, hashed, mvars, coinCh, requestCh,
                   statsCh, stopCh, doneCh, found>>

(* One batch is hashed; a batch with a coin is sent to the master.  When   *)
(* the hashes done are a multiple of 0x100000 the worker looks at the      *)
(* clock, which may call for a stop check, a report, both or neither.      *)
MineBatch(w) ==
    /\ wpc[w] = "loop"
    /\ ~worker_stop_signal[w]
    /\ counter[w] < work[w].end
    /\ counter' = [counter EXCEPT ![w] = @ + 1]
    /\ hashed' = [hashed EXCEPT ![w] = @ + 1]
    /\ \/ /\ counter[w] \in Golden
          /\ coinCh' = [coinCh EXCEPT ![w] = Append(@, counter[w])]
          /\ found' = found \cup {counter[w]}
       \/ /\ counter[w] \notin Golden
          /\ UNCHANGED <<coinCh, found>>
    /\ \E place \in {"loop", "tick", "report"} : Goto(w, place)
    /\ UNCHANGED <<work, worker_stop_signal, mvars, assignCh, requestCh,
                   statsCh, stopCh, doneCh>>

(* check_stop_signal: a probe of TAG_STOP which takes the message. *)
FlagIgnored(w) == stopCh[w] >= 0
StopArrived(w) == stopCh[w] > 0

MessageDropped(w) == UNCHANGED worker_stop_signal
RaiseFlag(w) == worker_stop_signal' = [worker_stop_signal EXCEPT ![w] = TRUE]

CheckStopInRange(w) ==
    /\ wpc[w] = "tick"
    /\ \/ /\ StopArrived(w)
          /\ stopCh' = [stopCh EXCEPT ![w] = @ - 1]
          /\ RaiseFlag(w)
       \/ /\ ~StopArrived(w)
          /\ UNCHANGED <<stopCh, worker_stop_signal>>
    /\ \E place \in {"loop", "report"} : Goto(w, place)
    /\ UNCHANGED <<work, counter, hashed, mvars, assignCh, coinCh, requestCh,
                   statsCh, doneCh, found>>

(* The statistics of a worker are its total so far, never an increment. *)
CountedAhead(w) == hashed[w] + 1
HashesReported(w) == hashed[w]

SendStats(w) == statsCh' = [statsCh EXCEPT ![w] = Append(@, HashesReported(w))]

ReportInRange(w) ==
    /\ wpc[w] = "report"
    /\ \/ Len(statsCh[w]) < MaxStats /\ SendStats(w)
       \/ Len(statsCh[w]) >= MaxStats /\ UNCHANGED statsCh
    /\ Goto(w, "loop")
    /\ UNCHANGED <<work, counter, worker_stop_signal, hashed, mvars, assignCh,
                   coinCh, requestCh, stopCh, doneCh, found>>

(* The range is used up: either STOP has arrived, or the worker asks for   *)
(* another range.  A range that is the last under MaxCounter takes so long *)
(* that the master stops first.                                            *)
EndOfRange(w) ==
    /\ wpc[w] = "loop"
    /\ ~worker_stop_signal[w]
    /\ counter[w] >= work[w].end
    /\ \/ /\ StopArrived(w)
          /\ stopCh' = [stopCh EXCEPT ![w] = @ - 1]
          /\ RaiseFlag(w)
          /\ Goto(w, "final")
          /\ UNCHANGED requestCh
       \/ /\ ~StopArrived(w)
          /\ next_counter < MaxCounter \/ master_stop_signal
          /\ requestCh' = [requestCh EXCEPT ![w] = @ + 1]
          /\ Goto(w, "wait")
          /\ UNCHANGED <<stopCh, worker_stop_signal>>
    /\ UNCHANGED <<work, counter, hashed, mvars, assignCh, coinCh, statsCh,
                   doneCh, found>>

ReceiveAnswer(w) ==
    LET r == Head(assignCh[w])
    IN  /\ wpc[w] = "wait"
        /\ assignCh[w] # <<>>
        /\ assignCh' = [assignCh EXCEPT ![w] = Tail(@)]
        /\ work' = [work EXCEPT ![w] = r]
        /\ \/ /\ IsStopReply(r)
              /\ RaiseFlag(w)
              /\ Goto(w, "final")
              /\ UNCHANGED counter
           \/ /\ ~IsStopReply(r)
              /\ counter' = [counter EXCEPT ![w] = r.start]
              /\ Goto(w, "loop")
              /\ UNCHANGED worker_stop_signal
        /\ UNCHANGED <<hashed, mvars, coinCh, requestCh, statsCh, stopCh,
                       doneCh, found>>

LeaveLoop(w) ==
    /\ wpc[w] = "loop"
    /\ worker_stop_signal[w]
    /\ Goto(w, "final")
    /\ UNCHANGED <<work, counter, worker_stop_signal, hashed, mvars, chans,
                   found>>

SendFinalStats(w) ==
    /\ wpc[w] = "final"
    /\ SendStats(w)
    /\ Goto(w, "done")
    /\ UNCHANGED <<work, counter, worker_stop_signal, hashed, mvars, assignCh,
                   coinCh, requestCh, stopCh, doneCh, found>>

SendDone(w) ==
    /\ wpc[w] = "done"
    /\ doneCh' = [doneCh EXCEPT ![w] = @ + 1]
    /\ Goto(w, "exited")
    /\ UNCHANGED <<work, counter, worker_stop_signal, hashed, mvars, assignCh,
                   coinCh, requestCh, statsCh, stopCh, found>>

Worker(w) ==
    /\ mpc # "aborted"
    /\ \/ ReceiveInitialWork(w)
       \/ MineBatch(w)
       \/ CheckStopInRange(w)
       \/ ReportInRange(w)
       \/ EndOfRange(w)
       \/ ReceiveAnswer(w)
       \/ LeaveLoop(w)
       \/ SendFinalStats(w)
       \/ SendDone(w)

-----------------------------------------------------------------------------
Next ==
    \/ Interrupt
    \/ TimePasses
    \/ Master
    \/ \E w \in Workers : Worker(w)

Spec == Init /\ [][Next]_vars

(* The operating system schedules every rank, and time goes on; nothing    *)
(* makes a user interrupt the job.                                         *)
FairSpec ==
    /\ Spec
    /\ WF_vars(Master)
    /\ WF_vars(TimePasses)
    /\ \A w \in Workers : WF_vars(Worker(w))

-----------------------------------------------------------------------------
(* Properties *)

MasterLeft == mpc \in {"finished", "aborted"}
Apart(r, s) == r.end <= s.start \/ s.end <= r.start

(* No batch is given out twice: the ranges the workers hold and the ranges *)
(* on their way to them are pairwise apart (handle_work_request and        *)
(* distribute_initial_work share next_counter).                            *)
RangesDisjoint ==
    \A w, v \in Workers :
        /\ w # v => Apart(work[w], work[v])
        /\ \A i \in DOMAIN assignCh[w] : Apart(assignCh[w][i], work[v])
        /\ \A i \in DOMAIN assignCh[w], j \in DOMAIN assignCh[v] :
              <<w, i>> # <<v, j>> => Apart(assignCh[w][i], assignCh[v][j])

(* A worker leaves its mining loop only after the master decided to stop:  *)
(* neither a stale STOP nor a range mistaken for the answer (0,0) ends it. *)
LeaveOnlyOnStop ==
    \A w \in Workers :
        wpc[w] \in {"final", "done", "exited"} => master_stop_signal

(* request_more_work is a rendezvous: while a worker waits there is either *)
(* its request or the one answer to it, and nothing is left over when it   *)
(* mines again, so no answer is ever taken for that of a later request.    *)
OneAnswerPerRequest ==
    \A w \in Workers :
        requestCh[w] + Len(assignCh[w]) =
            IF \/ wpc[w] = "wait"
               \/ wpc[w] = "recv" /\ mpc # "distribute"
            THEN 1 ELSE 0

(* active_workers never counts a worker whose WORKER_DONE has already been *)
(* handled, so the master does not wait for somebody who has left.         *)
ActiveNeverOverCounts ==
    active_workers <=
        Cardinality({w \in Workers : ~(wpc[w] = "exited" /\ doneCh[w] = 0)})

(* Once STOP has been sent, a worker that goes on mining or waits for an   *)
(* answer still has it ahead of it: the message is not taken without       *)
(* raising worker_stop_signal.                                             *)
StopNeverLost ==
    \A w \in Workers :
        shutdown_sent /\ wpc[w] \in {"recv", "loop", "tick", "report", "wait"}
        => stopCh[w] = 1 \/ worker_stop_signal[w]

(* Every coin a worker sent is in the vault or on its way to it, and in    *)
(* one place only: nothing is saved twice and nothing is made up (short of *)
(* the exit of save_coin on a write error).                                *)
CoinsAccounted ==
    mpc # "aborted" =>
        /\ found = Range(vault) \cup UNION {Range(coinCh[w]) : w \in Workers}
        /\ Cardinality(found) =
              Len(vault) + SumFunction([w \in Workers |-> Len(coinCh[w])])

(* The hash count the master knows of a worker never exceeds the work the  *)
(* worker has done, so total_hashes and the rate are never overstated.     *)
StatsNeverOverstate ==
    \A w \in Workers : worker_hashes[w] <= hashed[w]

(* The job keeps a ledger of coins, closed when the master leaves: a batch *)
(* is mined once, so a coin is found once, and saved at most once.         *)
Ledger == INSTANCE CoinLedger
            WITH Coin <- Golden, found <- found, saved <- vault,
                 closed <- MasterLeft
LedgerSpec == Ledger!Spec

(* Each worker keeps the port of module MpiWorkerPort, which the team of   *)
(* module MpiWorkerTeam keeps too: it may take the worker's place here.    *)
StateOf(w) == IF wpc[w] = "exited" THEN "gone"
              ELSE IF wpc[w] \in {"recv", "wait"} THEN "asking"
              ELSE "mining"
SentOf(w) == {c \in found : work[w].start <= c /\ c < work[w].end}
Port(w) == INSTANCE MpiWorkerPort
             WITH state <- StateOf(w), range <- work[w], sent <- SentOf(w),
                  stopped <- worker_stop_signal[w]
WorkersKeepPort ==
    /\ \A w \in Workers : Port(w)!Init
    /\ [][\A w \in Workers : [Port(w)!Next]_(Port(w)!vars)]_vars

(* With a time limit run_master returns, whatever the workers are doing    *)
(* when the limit passes (makefile, run-mpi TIME=60).                      *)
MasterTerminates == TimeLimited => <>MasterLeft

(* A coin that waits while the master polls for coins, or while it is not  *)
(* told to stop yet and is not answering requests, is saved, however many  *)
(* coins of other workers come first: whether the limit passes or a signal *)
(* arrives before the next poll, the master does not leave without that    *)
(* poll.  Only the exit of save_coin on a write error ends the wait.       *)
WillPoll == mpc = "coins" \/ (~master_stop_signal /\ mpc # "requests")
CoinReachesVault ==
    \A w \in Workers, c \in Golden :
        (c \in Range(coinCh[w]) /\ WillPoll) ~> (c \in Range(vault) \/ mpc = "aborted")

-----------------------------------------------------------------------------
(* What the documentation says and the code does not do *)

(* aad_mpi_master.h:69, "Flush immediately so coins aren't lost": when the *)
(* master returns from its loop, no coin message is left unreceived.  It   *)
(* may be: a worker sends a coin and asks for work behind the master's     *)
(* poll for coins; the answer (0,0) takes the last worker off              *)
(* active_workers in the same iteration, and the master leaves.            *)
NoCoinLost ==
    mpc = "finished" => \A w \in Workers : coinCh[w] = <<>>

(* README.md:186, "Run with 4 workers for 60 seconds": every rank gets to  *)
(* MPI_Finalize after the time limit.                                      *)
EveryRankFinalizes ==
    TimeLimited => <>(\/ mpc = "aborted"
                      \/ mpc = "finished" /\ \A w \in Workers : wpc[w] = "exited")
=============================================================================
