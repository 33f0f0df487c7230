------------------------------- MODULE GpuMiner -------------------------------
(***************************************************************************)
(* The CUDA and the OpenCL miner, on the device of module GpuDevice.  The  *)
(* host launches a kernel of THREADS threads; each hashes one counter and, *)
(* when it has a coin, reserves a slot of the device buffer with an atomic *)
(* addition to its first word and fills the slot.  The host reads the      *)
(* buffer after the launch, checks the coins and gives them to the vault   *)
(* (module Vault).  base_value2, which the kernels get and do not use, is  *)
(* left out.                                                               *)
(*                                                                         *)
(* The OpenCL host looks at the result of the launch only.  A write or a   *)
(* read of the buffer may fail, without effect and unnoticed; the setting  *)
(* of the kernel's arguments is taken to succeed.                          *)
(***************************************************************************)
EXTENDS GpuDevice, FiniteSets, FiniteSetsExt

CONSTANTS
    THREADS,             \* of a launch (2^23)
    COINS_BUFFER_SIZE,   \* words of the buffer (1024)
    COIN_WORDS,          \* words of a coin (14)
    WORD,                \* number of values of a u32_t
    A, C,                \* base_value1 * A + C between two launches
    VAULT_LINES,         \* coins in the buffer of save_coin (65536)
    FirstBases,          \* the low words of time(NULL)
    Golden,              \* the pairs <<base_value1, counter>> with the signature
    Bad,                 \* those of them that contain a newline
    MaxLaunches,         \* bound: launches of a run
    MaxFaults            \* bound: copies of a run that fail unnoticed

ASSUME SizesAssumption ==
    /\ {THREADS, COINS_BUFFER_SIZE, COIN_WORDS, WORD, VAULT_LINES} \subseteq Nat \ {0}
    /\ COINS_BUFFER_SIZE > COIN_WORDS
    /\ WORD % THREADS = 0
ASSUME GoldenAssumption ==
    /\ Golden \subseteq (0..(WORD - 1)) \X Nat
    /\ Bad \subseteq Golden
ASSUME BasesAssumption == FirstBases \subseteq 0..(WORD - 1) /\ {A, C} \subseteq Nat
ASSUME BoundAssumption == {MaxLaunches, MaxFaults} \subseteq Nat

VARIABLES
    stop_signal,
    base_value1, iteration_counter,
    total_attempts, coins_found,
    histogram,           \* the coins of each launch, in the file of the CUDA miner
    \* --- buffer ---
    next_free,           \* the first word of the buffer on the device
    host_first,          \* the first word of the buffer on the host
    slots,               \* the coin at each index, 1, 1 + COIN_WORDS, ...
    thread, idx,         \* of each thread that has a coin
    \* --- vault ---
    kept, file,
    \* --- history ---
    launches,            \* bounded by MaxLaunches
    unreset,             \* the failed writes; with the failed reads
    unread,              \*   bounded by MaxFaults
    produced,            \* the coins of all finished launches
    since,               \* those of the launches since next_free was set to 1
    excused              \* those of the launches that were not read, or that
                         \*   overflowed the buffer

params == <<base_value1, iteration_counter>>
tallies == <<total_attempts, coins_found, histogram>>
buffer == <<next_free, host_first, slots, thread, idx>>
vault == <<kept, file>>
history == <<launches, unreset, unread, produced, since, excused>>
hostVars == <<stop_signal, params, tallies, buffer, vault, history>>
vars == <<deviceVars, hostVars>>

(* Of the variables of GpuDevice the loop changes only host. *)
deviceRest == <<api, todo, handle, failed, misused, status>>

Threads == 0..(THREADS - 1)
SlotIndices == {1 + k * COIN_WORDS : k \in 0..((COINS_BUFFER_SIZE - 1) \div COIN_WORDS - 1)}
NoCoin == <<0, -1>>
Overflown == COINS_BUFFER_SIZE + 1
NoHistogram == <<-1>>         \* fopen failed, or there is none

TypeOK ==
    /\ DeviceTypeOK
    /\ host \in {"setup", "loop", "launch", "kernel", "collect", "unwind",
                 "teardown", "save", "closed"}
    /\ stop_signal \in BOOLEAN
    /\ {base_value1, iteration_counter} \subseteq 0..(WORD - 1)
    /\ {total_attempts, coins_found, next_free, host_first} \subseteq Nat
    /\ slots \in [SlotIndices -> Golden \cup {NoCoin}]
    /\ thread \in [Threads -> {"done", "add", "write"}]
    /\ kept \in Seq(Golden) /\ file \in Seq(Golden)

(* A new OpenCL buffer holds anything.  Until the first word is written it *)
(* may be 1 by chance; with any value that is no index of a slot the host  *)
(* finds no coin, as with one beyond the buffer.                           *)
Init ==
    /\ DeviceInit
    /\ stop_signal = FALSE
    /\ base_value1 \in FirstBases
    /\ iteration_counter = 0
    /\ total_attempts = 0
    /\ coins_found = 0
    /\ histogram \in {NoHistogram} \cup IF api = "cuda" THEN {<<>>} ELSE {}
    /\ next_free \in {1} \cup IF api = "opencl" THEN {Overflown} ELSE {}
    /\ host_first = 1
    /\ slots = [i \in SlotIndices |-> NoCoin]
    /\ thread = [n \in Threads |-> "done"]
    /\ idx = [n \in Threads |-> 0]
    /\ kept = <<>>
    /\ file = <<>>
    /\ launches = 0
    /\ unreset = 0
    /\ unread = 0
    /\ produced = {}
    /\ since = {}
    /\ excused = {}

-----------------------------------------------------------------------------
Mines == api # "cuda_test"

(* handle_sigint, which the test does not install *)
Interrupt ==
    /\ status = "running"
    /\ Mines
    /\ ~stop_signal
    /\ stop_signal' = TRUE
    /\ UNCHANGED <<deviceVars, params, tallies, buffer, vault, history>>

(* stop_signal is volatile: the loop reads it before every launch. *)
HoistedRead == FALSE
StopSeen == stop_signal

MayFail == api = "opencl" /\ unreset + unread < MaxFaults

(* The host sets the first word of the buffer to 1, and copies it to the   *)
(* device.                                                                 *)
NotReset == next_free
FirstFree == 1
ResetBuffer ==
    /\ Mines
    /\ host = "loop"
    /\ ~StopSeen
    /\ launches < MaxLaunches
    /\ host_first' = 1
    /\ \/ next_free' = FirstFree /\ since' = {} /\ UNCHANGED unreset
       \/ MayFail /\ unreset' = unreset + 1 /\ UNCHANGED <<next_free, since>>
    /\ host' = "launch"
    /\ UNCHANGED <<deviceRest, stop_signal, params, tallies, slots, thread, idx, vault,
                   launches, unread, produced, excused>>

CoinOf(n) == <<base_value1, iteration_counter + n>>
LaunchCoins == {CoinOf(n) : n \in Threads} \cap Golden

Launch ==
    /\ host = "launch"
    /\ thread' = [n \in Threads |-> IF CoinOf(n) \in Golden THEN "add" ELSE "done"]
    /\ host' = "kernel"
    /\ launches' = launches + 1
    /\ UNCHANGED <<deviceRest, stop_signal, params, tallies, next_free, host_first, slots,
                   idx, vault, unreset, unread, produced, since, excused>>

LaunchFails ==
    /\ api = "opencl"
    /\ host = "launch"
    /\ GoTo(AfterLoop[api])
    /\ UNCHANGED <<api, handle, failed, misused, status, hostVars>>

-----------------------------------------------------------------------------
(* The kernel *)

Fits(i) == i + COIN_WORDS <= COINS_BUFFER_SIZE

(* atomicAdd, atomic_add *)
ReserveSlot(n) ==
    /\ thread[n] = "add"
    /\ idx' = [idx EXCEPT ![n] = next_free]
    /\ next_free' = next_free + COIN_WORDS
    /\ thread' = [thread EXCEPT ![n] = IF Fits(next_free) THEN "write" ELSE "done"]
    /\ UNCHANGED <<deviceVars, stop_signal, params, tallies, host_first, slots, vault, history>>

FillSlot(n) ==
    /\ thread[n] = "write"
    /\ slots' = [slots EXCEPT ![idx[n]] = CoinOf(n)]
    /\ thread' = [thread EXCEPT ![n] = "done"]
    /\ UNCHANGED <<deviceVars, stop_signal, params, tallies, next_free, host_first, idx,
                   vault, history>>

(* The host waits for the kernel and reads the buffer. *)
ReadBuffer ==
    /\ host = "kernel"
    /\ \A n \in Threads : thread[n] = "done"
    /\ \/ host_first' = next_free /\ UNCHANGED <<unread, excused>>
       \/ /\ MayFail
          /\ unread' = unread + 1
          /\ excused' = excused \cup LaunchCoins
          /\ UNCHANGED host_first
    /\ host' = "collect"
    /\ produced' = produced \cup LaunchCoins
    /\ since' = since \cup LaunchCoins
    /\ UNCHANGED <<deviceRest, stop_signal, params, tallies, next_free, slots, thread, idx,
                   vault, launches, unreset>>

-----------------------------------------------------------------------------
(* The coins of a buffer that did not overflow, in the order of the slots. *)
Accepted == host_first > 1 /\ host_first <= COINS_BUFFER_SIZE
FirstSlots(n) == [k \in 1..n |-> slots[1 + (k - 1) * COIN_WORDS]]
Collected ==
    IF Accepted THEN FirstSlots((host_first - 1) \div COIN_WORDS) ELSE <<>>

(* No newline, and the hash computed again has the signature. *)
Those(good, coins) ==
    LET taken[k \in 0..Len(coins)] ==
            IF k = 0 THEN <<>>
            ELSE IF coins[k] \in good THEN Append(taken[k - 1], coins[k])
            ELSE taken[k - 1]
    IN  taken[Len(coins)]
EveryOne(coins) == Those(Golden, coins)
ValidOnes(coins) == Those(Golden \ Bad, coins)

SameBase(b) == b
NextBase(b) == (b * A + C) % WORD
Advance(i) == (i + THREADS) % WORD

(* Each coin is counted before it is saved.  The buffer of save_coin is    *)
(* written when a coin meets it full; a write error ends the program.      *)
Collect ==
    LET coins == ValidOnes(Collected)
    IN  /\ host = "collect"
        /\ kept' = kept \o coins
        /\ excused' = excused \cup IF host_first > COINS_BUFFER_SIZE THEN LaunchCoins ELSE {}
        /\ \/ /\ coins_found' = coins_found + Len(coins)
              /\ histogram' = IF histogram = NoHistogram THEN histogram
                              ELSE Append(histogram, Len(coins))
              /\ total_attempts' = total_attempts + THREADS
              /\ iteration_counter' = Advance(iteration_counter)
              /\ base_value1' = NextBase(base_value1)
              /\ host' = "loop"
              /\ UNCHANGED <<status, file>>
           \/ /\ coins # <<>>
              /\ Len(kept') > VAULT_LINES
              /\ \E k \in 0..Len(kept) : file' = SubSeq(kept, 1, k)
              /\ \E k \in 1..Len(coins) : coins_found' = coins_found + k
              /\ status' = "write_error"
              /\ UNCHANGED <<host, total_attempts, histogram, params>>
        /\ UNCHANGED <<api, todo, handle, failed, misused, stop_signal, buffer, launches,
                       unreset, unread, produced, since>>

LeaveLoop ==
    /\ Mines
    /\ host = "loop"
    /\ StopSeen
    /\ GoTo(AfterLoop[api])
    /\ UNCHANGED <<api, handle, failed, misused, status, hostVars>>

(* save_coin(NULL) *)
SaveRest ==
    /\ host = "save"
    /\ \/ /\ file' = kept
          /\ GoTo(AfterSave[api])
          /\ UNCHANGED status
       \/ /\ kept # <<>>
          /\ \E k \in 0..Len(kept) : file' = SubSeq(kept, 1, k)
          /\ status' = "write_error"
          /\ UNCHANGED <<host, todo>>
    /\ UNCHANGED <<api, handle, failed, misused, stop_signal, params, tallies, buffer, kept,
                   history>>

Kernel(n) ==
    /\ status = "running"
    /\ ReserveSlot(n) \/ FillSlot(n)

Host ==
    /\ status = "running"
    /\ \/ DeviceStep /\ UNCHANGED hostVars
       \/ ResetBuffer
       \/ Launch
       \/ LaunchFails
       \/ ReadBuffer
       \/ Collect
       \/ LeaveLoop
       \/ SaveRest

Next ==
    \/ Interrupt
    \/ Host
    \/ \E n \in Threads : Kernel(n)

Spec == Init /\ [][Next]_vars

(* The host runs, and the GPU finishes every thread of a launch. *)
FairSpec == Spec /\ WF_vars(Host) /\ \A n \in Threads : WF_vars(Kernel(n))

-----------------------------------------------------------------------------
(* Properties *)

(* A buffer that the host accepts holds exactly the coins of the launches  *)
(* since its first word was last set to 1, which is one launch unless a    *)
(* write failed: no slot is left from before, lost, shared or half         *)
(* written, whatever the order of the threads (the test of the kernel, idx *)
(* + 14 <= 1024, and that of the host, next_free <= 1024, agree).          *)
BufferIsTheLaunch ==
    host = "collect" /\ Accepted =>
        /\ ToSet(Collected) = since
        /\ Len(Collected) = Cardinality(since)

(* No bad coin is kept.  Every good coin of the launches so far is kept,   *)
(* except those of a launch with more coins than the buffer has slots, or  *)
(* whose buffer was not read; without failing copies all of those are      *)
(* dropped.  A miner that returns has the coins it kept in the file, as    *)
(* many as its final statistics and the rows of its histogram say.         *)
KeptOrDropped ==
    LET good == produced \ Bad
    IN  /\ ToSet(kept) \subseteq good
        /\ host = "loop" =>
            /\ good \ excused \subseteq ToSet(kept)
            /\ unreset + unread = 0 => ToSet(kept) \cap excused = {}
            /\ total_attempts = THREADS * launches
        /\ status = "returned" =>
            /\ file = kept
            /\ coins_found = Len(file)
            /\ histogram # NoHistogram =>
                /\ Len(histogram) * THREADS = total_attempts
                /\ SumFunction(histogram) = coins_found

(* The generator goes through all its values before one comes again:       *)
(* rank[b] counts its steps from some value to b.                          *)
Ranks(rank) ==
    /\ rank \in [0..(WORD - 1) -> 0..(WORD - 1)]
    /\ \A b, c \in 0..(WORD - 1) : rank[b] = rank[c] => b = c
    /\ \A b \in 0..(WORD - 1) : rank[(b * A + C) % WORD] = (rank[b] + 1) % WORD

(* Until base_value1 has gone through all its values, a coin is kept once, *)
(* although the counter starts again every WORD \div THREADS launches, and *)
(* once more for each write of the first word that failed.                 *)
Times(c) == Cardinality({k \in DOMAIN kept : kept[k] = c})
NoCoinTwice ==
    launches <= WORD => \A c \in Golden : Times(c) <= 1 + unreset

(* After Ctrl-C the miner ends, after at most the launch under way.        *)
StopEnds == stop_signal ~> status # "running"
=============================================================================
