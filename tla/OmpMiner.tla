------------------------------- MODULE OmpMiner -------------------------------
(***************************************************************************)
(* The CPU miners, each in a scalar, an AVX, an AVX2 and an AVX-512        *)
(* version, which differ in Lanes (1, 4, 8, 16) only.  In the OpenMP       *)
(* miners (includes/SIMD_OpenMP) threads hash Lanes counters at a time,    *)
(* each from an offset of its own, count the coins with an atomic, save    *)
(* them in a critical section, and stop on SIGINT; main then flushes the   *)
(* vault.  The single-threaded miners (includes/CPU, AVX, AVX2, AVX512)    *)
(* run the same loop in one thread, without the critical section, and      *)
(* print their counter as the number of attempts.                          *)
(*                                                                         *)
(* save_coin keeps its buffer in static variables, so its steps are here   *)
(* one by one: that the critical section makes them one atomic save_coin   *)
(* is the refinement VaultSpec.                                            *)
(***************************************************************************)
EXTENDS Integers, Sequences, FiniteSets, SequencesExt

CONSTANTS
    NumThreads,
    Lanes,             \* counters hashed by one step
    STRIDE,            \* distance of the threads' first counters (10^9)
    BATCH,             \* hashes between two updates of total_attempts (2^20)
    MAX_SAVED_COINS,   \* lines of the vault's buffer
    Golden,            \* the counters that give a coin
    MaxHashes          \* bound: hashes of one thread

ASSUME ThreadsAssumption == NumThreads \in Nat \ {0}
ASSUME LanesAssumption == Lanes \in Nat \ {0} /\ STRIDE \in Nat
ASSUME BatchAssumption == BATCH \in Nat \ {0} /\ BATCH % Lanes = 0
ASSUME CapacityAssumption == MAX_SAVED_COINS \in Nat \ {0}
ASSUME GoldenAssumption == Golden \subseteq Nat
ASSUME BoundAssumption == MaxHashes \in Nat

VARIABLES
    program,           \* "openmp" or "single"
    stop_signal,
    coins_found,
    total_attempts,
    \* --- per thread ---
    pc, local_counter,
    hits,              \* the coins of the step that are not yet saved
    slot,              \* the line of the buffer save_coin is about to fill
    critical,          \* the thread in the critical section, or NoThread
    \* --- the vault ---
    saved_coins, n_saved_coins, file,
    status,            \* of the process
    \* --- history ---
    accepted           \* the lines put into the buffer, in order

shared == <<stop_signal, coins_found, total_attempts>>
vault == <<saved_coins, n_saved_coins, file, status, accepted>>
vars == <<program, shared, pc, local_counter, hits, slot, critical, vault>>

Threads == 0..(NumThreads - 1)
NoThread == -1

(* All lines of the model have the same power. *)
LineOf(c) == [id |-> c, power |-> 0]
BufferLines == [i \in 1..n_saved_coins |-> saved_coins[i - 1]]

V == INSTANCE Vault
       WITH Coins <- {[id |-> c, template |-> TRUE, signature |-> TRUE,
                       zeros |-> 0] : c \in Golden},
            MaxCalls <- NumThreads * (MaxHashes + Lanes),
            saved_coins <- BufferLines, error_tolerance_count <- 4,
            calls <- Len(accepted), base <- <<>>, rejected <- 0

TypeOK ==
    /\ program \in {"openmp", "single"}
    /\ stop_signal \in BOOLEAN
    /\ coins_found \in Nat
    /\ total_attempts \in Nat
    /\ pc \in [Threads -> {"loop", "count", "enter", "save", "fill", "tally",
                           "left"}]
    /\ local_counter \in [Threads -> Nat]
    /\ hits \in [Threads -> SUBSET Golden]
    /\ slot \in [Threads -> 0..(MAX_SAVED_COINS - 1)]
    /\ critical \in Threads \cup {NoThread}
    /\ saved_coins \in [0..(MAX_SAVED_COINS - 1) -> V!Line]
    /\ n_saved_coins \in 0..MAX_SAVED_COINS
    /\ file \in Seq(V!FileLine)
    /\ status \in {"running", "returned", "write_error"}
    /\ accepted \in Seq(V!Line)

Init ==
    /\ program \in {"openmp", "single"}
    /\ stop_signal = FALSE
    /\ coins_found = 0
    /\ total_attempts = 0
    /\ pc = [t \in Threads |-> "loop"]
    /\ local_counter = [t \in Threads |-> 0]
    /\ hits = [t \in Threads |-> {}]
    /\ slot = [t \in Threads |-> 0]
    /\ critical = NoThread
    /\ saved_coins = [i \in 0..(MAX_SAVED_COINS - 1) |-> LineOf(0)]
    /\ n_saved_coins = 0
    /\ file = <<>>
    /\ status = "running"
    /\ accepted = <<>>

-----------------------------------------------------------------------------
(* handle_sigint *)
Interrupt ==
    /\ status = "running"
    /\ ~stop_signal
    /\ stop_signal' = TRUE
    /\ UNCHANGED <<program, coins_found, total_attempts, pc, local_counter, hits, slot,
                   critical, vault>>

Goto(t, place) == pc' = [pc EXCEPT ![t] = place]

(* The coins among the counters of one step; they are handled lane after   *)
(* lane, so the one in hand is the one with the least counter.             *)
FirstLaneOnly(c) == Golden \cap {c}
CoinsOf(c) == Golden \cap (c..(c + Lanes - 1))
CoinInHand(t) == Min(hits[t])

thread_offset(t) == t * STRIDE

(* One pass of the while: the hashes and the signature test. *)
HashStep(t) ==
    LET coins == CoinsOf(thread_offset(t) + local_counter[t])
    IN  /\ pc[t] = "loop"
        /\ ~stop_signal
        /\ local_counter[t] < MaxHashes
        /\ hits' = [hits EXCEPT ![t] = coins]
        /\ Goto(t, IF coins = {} THEN "tally" ELSE "count")
        /\ UNCHANGED <<shared, local_counter, slot, critical, vault>>

(* coins_found++, an atomic in the OpenMP miners *)
CountCoin(t) ==
    /\ pc[t] = "count"
    /\ coins_found' = coins_found + 1
    /\ Goto(t, IF program = "openmp" THEN "enter" ELSE "save")
    /\ UNCHANGED <<stop_signal, total_attempts, local_counter, hits, slot,
                   critical, vault>>

AnyoneEnters == TRUE
MayEnter == critical = NoThread

(* #pragma omp critical *)
EnterCritical(t) ==
    /\ pc[t] = "enter"
    /\ MayEnter
    /\ critical' = t
    /\ Goto(t, "save")
    /\ UNCHANGED <<shared, local_counter, hits, slot, vault>>

WriteFails ==
    /\ n_saved_coins > 0
    /\ file' \in V!PartOf(file, BufferLines)
    /\ status' = "write_error"
    /\ UNCHANGED <<saved_coins, n_saved_coins, accepted>>

BufferFull == n_saved_coins = MAX_SAVED_COINS

(* save_coin: a full buffer is written to the file first (which may end    *)
(* the program), then the line to fill is the one after the last.          *)
BeginSave(t) ==
    /\ pc[t] = "save"
    /\ \/ /\ BufferFull
          /\ file' = V!Joined(file, BufferLines)
          /\ n_saved_coins' = 0
          /\ slot' = [slot EXCEPT ![t] = 0]
          /\ Goto(t, "fill")
          /\ UNCHANGED <<saved_coins, status, accepted>>
       \/ /\ BufferFull
          /\ WriteFails
          /\ UNCHANGED <<pc, slot>>
       \/ /\ ~BufferFull
          /\ slot' = [slot EXCEPT ![t] = n_saved_coins]
          /\ Goto(t, "fill")
          /\ UNCHANGED vault
    /\ UNCHANGED <<shared, local_counter, hits, critical>>

(* The line is filled and save_coin and the critical section end. *)
NeverReleased(t) == critical
AfterCritical(t) == NoThread

EndSave(t) ==
    /\ pc[t] = "fill"
    /\ saved_coins' = [saved_coins EXCEPT ![slot[t]] = LineOf(CoinInHand(t))]
    /\ n_saved_coins' = slot[t] + 1
    /\ accepted' = Append(accepted, LineOf(CoinInHand(t)))
    /\ critical' = AfterCritical(t)
    /\ hits' = [hits EXCEPT ![t] = @ \ {CoinInHand(t)}]
    /\ Goto(t, IF hits[t] = {CoinInHand(t)} THEN "tally" ELSE "count")
    /\ UNCHANGED <<shared, local_counter, slot, file, status>>

(* local_counter += Lanes.  Full batches are added to total_attempts; the  *)
(* single-threaded miners have one counter for both.                       *)
FullBatch(n) == IF n % BATCH = 0 THEN BATCH ELSE 0
Tallied(n) == IF program = "openmp" THEN FullBatch(n) ELSE Lanes

Tally(t) ==
    /\ pc[t] = "tally"
    /\ local_counter' = [local_counter EXCEPT ![t] = @ + Lanes]
    /\ total_attempts' = total_attempts + Tallied(local_counter[t] + Lanes)
    /\ Goto(t, "loop")
    /\ UNCHANGED <<stop_signal, coins_found, hits, slot, critical, vault>>

NothingLeftOver(n) == 0
Remainder(n) == IF program = "openmp" THEN n % BATCH ELSE 0

LeaveLoop(t) ==
    /\ pc[t] = "loop"
    /\ stop_signal
    /\ total_attempts' = total_attempts + Remainder(local_counter[t])
    /\ Goto(t, "left")
    /\ UNCHANGED <<stop_signal, coins_found, local_counter, hits, slot,
                   critical, vault>>

Runs(t) == program = "openmp" \/ t = 0

Thread(t) ==
    /\ status = "running"
    /\ Runs(t)
    /\ UNCHANGED program
    /\ \/ HashStep(t)
       \/ CountCoin(t)
       \/ EnterCritical(t)
       \/ BeginSave(t)
       \/ EndSave(t)
       \/ Tally(t)
       \/ LeaveLoop(t)

Team == program = "openmp" /\ \E t \in Threads : Thread(t)
SingleMiner == program = "single" /\ Thread(0)

(* The end of the parallel region, the statistics, save_coin(NULL) and the *)
(* return from main.                                                       *)
Finish ==
    /\ status = "running"
    /\ \A t \in Threads : Runs(t) => pc[t] = "left"
    /\ \/ /\ file' = V!Joined(file, BufferLines)
          /\ n_saved_coins' = 0
          /\ status' = "returned"
          /\ UNCHANGED <<saved_coins, accepted>>
       \/ WriteFails
    /\ UNCHANGED <<program, shared, pc, local_counter, hits, slot, critical>>

Next ==
    \/ Interrupt
    \/ Finish
    \/ Team
    \/ SingleMiner

Spec == Init /\ [][Next]_vars

(* The system schedules every thread; nothing is assumed of the order in   *)
(* which the critical section lets waiting threads in.                     *)
FairSpec ==
    /\ Spec
    /\ WF_vars(Finish)
    /\ \A t \in Threads : WF_vars(Thread(t))

-----------------------------------------------------------------------------
(* Properties *)

(* The critical section makes save_coin atomic: for any interleaving of    *)
(* the threads the buffer and the file go through the steps of one caller  *)
(* of save_coin.                                                           *)
VaultSpec == V!Spec

(* The counters a thread has hashed. *)
Hashed(t) ==
    thread_offset(t)..(thread_offset(t) + local_counter[t] - 1
                       + IF pc[t] \in {"loop", "left"} THEN 0 ELSE Lanes)

(* A coin that was hashed is counted and saved, or its thread is on its    *)
(* way to do so; none is forgotten in a step with several coins.           *)
Waiting(t) == Cardinality(hits[t])
Uncounted(t) == Waiting(t) - IF pc[t] \in {"enter", "save", "fill"} THEN 1 ELSE 0
CoinsHashed == SumFunction([t \in Threads |-> Cardinality(Golden \cap Hashed(t))])

EveryCoinCounted ==
    /\ CoinsHashed = Len(accepted) + SumFunction([t \in Threads |-> Waiting(t)])
    /\ CoinsHashed = coins_found + SumFunction([t \in Threads |-> Uncounted(t)])

(* total_attempts, from which the rate is printed, lags behind the work    *)
(* done by less than a batch per thread and never runs ahead of it; in the *)
(* single-threaded miners it is exact.  When the miner returns it is exact *)
(* in all of them, and every coin it counted is in the file.               *)
StatisticsExact ==
    LET done == SumFunction(local_counter)
    IN  /\ total_attempts <= done
        /\ done - total_attempts < NumThreads * BATCH
        /\ program = "single" => total_attempts = done
        /\ status = "returned" =>
              total_attempts = done /\ coins_found = Len(file)

(* After Ctrl-C the miner returns, or ends in a write error.               *)
StopEnds == stop_signal ~> status # "running"
=============================================================================
