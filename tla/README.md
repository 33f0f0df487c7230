# DETI coin miners: TLA+ models and proofs

DETI coins are 55-byte texts whose SHA-1 hash begins with `0xAAD20250`. The
repository holds nine programs that look for them (CPU, SIMD, OpenMP, MPI, CUDA,
OpenCL, WebAssembly) and the vault in which all but the browser ones keep what
they find. This directory models these programs in TLA+, checks the models with
TLC, and proves with TLAPS all the safety properties of the passing runs: of the
distributed miner and the threads of its workers, of the vault and the OpenMP miners
around it, of the GPU miners and the CUDA test, of the browser miner, of the coins
all of them build, and of the hash. All paths below
are relative to `src/aad_assignment_1/includes/` unless they begin with `src/`.

## 1. Inventory

| Component | State | Operations | Talks to |
|---|---|---|---|
| MPI master (`MPI_ClientServer/aad_mpi_master.h`) | `next_counter`, `active_workers`, `master_stop_signal`, `shutdown_sent`, per-worker hashes | first distribution, four handlers (coin, request, statistics, done), time limit, SIGINT | workers by messages with five tags each way; vault by calls |
| MPI worker (`aad_mpi_worker.h`) | the range `work`, hash and coin counts, `worker_stop_signal`; per thread a slice and a counter | mine eight counters, probe for STOP, report, ask for work, leave | master by messages; its threads by shared variables, three barriers and a `single` |
| Vault (`aad_vault.h`) | static buffer of lines, their number, tolerated errors; the file | `save_coin(coin)`, `save_coin(NULL)` | every native miner, by calls |
| OpenMP miners (`SIMD_OpenMP/*`) | `coins_found`, `total_attempts`, `stop_signal`; per thread a counter | hash 1, 4, 8 or 16 counters, count, save, stop | vault, in a critical section |
| Single-threaded CPU miners (`CPU`, `AVX`, `AVX2`, `AVX512`) | a counter, `coins_found`, `stop_signal` | the same without threads | vault |
| Coin layout (`aad_coin_types.h`, `init_coin_data_*`, `update_counters_*`, kernels) | 14 words, in as many lanes as the program has | validate and encode a text, set up the lanes, write counter and timestamp | all miners |
| CUDA and OpenCL miners (`CUDA/`, `OpenCL/`) | handles of the device; host: generator, iteration counter, coin count, histogram file; device: coin buffer and its first word | set up, write the first word, launch, reserve and fill a slot, read, collect, stop, release | GPU library, vault |
| WebAssembly miners (`WebAssembly*/`) | module: counter, hashes, coin buffer; page: whether the module is loaded, `mining`, pending timers, list of coins | load, start, stop, batch, timer | page and module by calls |
| SHA-1 (`aad_sha1.h`, `aad_sha1_cpu.h`) | none | the hash of 14 words, in several word types | all miners |
| CUDA test of the hash (`src/aad_assignment_1/aad_sha1_cuda_test.c`) | handles of the device, two areas of data | set up, launch, compare, release | GPU library |
| CPU tests, utilities, histogram scripts, makefiles | none | | |

What makes them hard:

- *Concurrency*: ranks and their messages; the threads of a worker at barriers
  that some of them may not reach; threads in one vault; kernel threads in one
  buffer; timers that outlive the session that set them.
- *Order*: the master polls one tag after the other, so messages of one worker
  are handled in another order than they were sent.
- *Stopping*: an interrupt or a time limit at any moment, with requests, coins
  and statistics under way.
- *Failure*: a vault that cannot be written, GPU calls that fail, seen or
  unseen, at any point of the set-up or the loop, a process that is killed.
- *Edges*: slices that do not divide, counters and words that wrap, full
  buffers, texts that just fit.

What makes each of them correct: no counter is given out twice and none is left
out; every coin found is counted once and saved once, or the case in which it is
lost is known; statistics never say more than was done and are exact at the end;
whoever is told to stop stops, and nobody stops before; a coin that reaches the
vault has the form the vault wants.

`PROJECT.json` lists the components, and under "hazards" what is hard to test,
each at its line with the properties that watch it.

## 2. The modules

    CoinLedger    <--- implements --- MpiMiner       <--- EXTENDS --- MpiMinerProofs
    MpiWorkerPort <--- implements --- MpiMiner (each worker), MpiWorkerTeam
    MpiWorkerTeam <--- EXTENDS ------ MpiWorkerTeamProofs
    Vault         <--- implements --- OmpMiner       <--- EXTENDS --- OmpMinerProofs
    Vault         <--- EXTENDS ------ MCVault, VaultProofs
    GpuDevice     <--- EXTENDS ------ GpuMiner       <--- EXTENDS --- MCGpuMiner, GpuMinerProofs
    CoinLayout    <--- EXTENDS ------ MCCoinLayout
    Sha1          <--- EXTENDS ------ MCSha1
    CoinLayout, Sha1 <--- EXTENDS --- CoinProofs
    WasmMiner     <--- EXTENDS ------ WasmMinerProofs

`SumTheorems` has the lemmas about finite sums, quotients and multiples that the
proofs of six of these modules cite.

### MpiMiner: the protocol

One master and `NumWorkers` workers. Each tag is a channel per worker: sequences
where the content matters (`assignCh`, `coinCh`, `statsCh`), counts where it
does not (`requestCh`, `stopCh`, `doneCh`). The master's loop is followed by
`mpc`: it drains coins, then requests, statistics and dones, then decides whether
to stop and whether to leave, as `run_master` does in lines 157-183, so every
overtaking between tags that the code allows is in the model. `HandleCoinFound`
saves the coin and flushes the vault in the same action, as the handler does, or
ends the master when the write fails. A worker runs through `recv`, `loop`,
`tick`, `report`, `wait`, `final`, `done` and `exited`; mining one batch is one
step, after which it may look for STOP and may report.

Abstractions: a coin is its counter; the coins that exist are the constant
`Golden`; the moments at which a worker looks for STOP or reports (its batch
counts) are left open, so the model has every timing of them; the time limit may
pass at any moment.

External, modelled from how the code uses it: sends do not block (the messages
are a few bytes), messages of one worker with one tag arrive in order, and
`MPI_ANY_SOURCE` takes any of those that have arrived.

### MpiWorkerTeam: the threads of one worker

The parallel region of `run_worker`, one program counter per thread: slices
(`SliceStart`, `SliceEnd`), steps of `Stride` counters (8 in the code), the
barriers of lines 161, 172 (the end of the `single`) and 173, the single itself,
the check for STOP in the middle of a slice, which only thread 0 makes, and the
one at the end of a range. The barrier at the end of the region is an object of
its own, as in libgomp, so a thread that has left the loop does not open the
barrier others wait at in it. `MasterDecidesToStop` and `MasterSendsStop` are
all that the team sees of the master.

### MpiWorkerPort: one worker from outside

The two models of a worker meet here. The port says what the master may rely on:
the worker sends each coin of its range once and no other, asks for a range only
when it has sent them all, takes one answer for each request, leaves only when
told to, and sends nothing behind WORKER_DONE. `WorkersKeepPort` shows it of the
workers of MpiMiner, which mine a batch per step, and `PortSpec` of the team,
whose threads send while others mine. So these
promises do not depend on a worker being one thread. That the team has no other
behaviours than a worker of MpiMiner is not shown, and it has at least one: it
may hang (below).

### Vault and CoinLedger: what callers may rely on

`Vault` is `save_coin` with its buffer, its error count and the file, and the
life of a process around it: `Return`, `Kill`, `StartAgain`. A failing write
leaves any prefix of the lines in the file, perhaps with a torn line.
`CoinLedger` says what a miner promises: each coin found once, saved at most
once, none after it is closed.

### OmpMiner: threads in one vault

The steps of `save_coin` are separate actions here (`BeginSave`, `EndSave`),
because its variables are static and shared. The coins of one step, which the code
takes lane after lane, are the set `hits`; the least is the one in hand. That the critical section makes them
one step is `VaultSpec`: with `V == INSTANCE Vault WITH ...` every behaviour of
the miner is a behaviour of the vault with one caller. (The vault's bound on its
calls is there what the threads can hash together.) The four versions of the
miner differ in `Lanes` only. The variable `program` selects the single-threaded
miners: one thread, no critical section, and one counter that is also the number
of hashes.

### CoinLayout: what a coin consists of

For each of the nine miners the words of its coins as its code builds them:
from nothing (scalar, WebAssembly, kernels) or by changing some words of lanes
set up before the loop. Words nobody has written hold four newlines, the worst
there is. Passes of the CPU miners begin at multiples of their lanes (`Offsets`),
those of MPI's slices and of the browser anywhere (`AnyOffsets`: a slice of a team
of 6 threads begins at a multiple of 16666666, a session at `Date.now()`), and
those of the GPU hosts at whole launches, with a counter that goes back to 0 after
32 bits (`NextLaunch`). `CounterOf` is the counter whose coin a lane holds. Bytes have base 6 instead of 256, with a newline, `0x80`, zero and
three letters, so that the low word of the counter wraps after 1296.

### GpuDevice and GpuMiner: handles, host and kernel threads

`GpuDevice` is the life of the device's handles in the CUDA miner, the OpenCL
miner and the CUDA test (`api` selects): the calls of the set-up in order
(`CallSucceeds`, `CallFails`), what is undone when one fails (`Unwinding`), and
the release at the end (`Release`, `EndOfTeardown`). `CuCallFails` is `CU_CALL`,
which ends the program. A handle is unset, null, live or released; releasing one
that was never set, or was released before, may crash.

`GpuMiner` fills its stage "loop". The host writes the first word
(`ResetBuffer`), launches, reads the buffer (`ReadBuffer`) and collects. A kernel
thread that has a coin reserves a slot (`ReserveSlot`, the atomic addition) and
fills it (`FillSlot`) in steps of its own. `LaunchFails` is the branch of the
OpenCL loop; its writes and reads may fail without effect and unnoticed
(`MaxFaults`). The histogram file of the CUDA miner is the count of coins of
each launch. Words have four bits; the constants of the generator are the low
four bits of the program's.

### WasmMiner: page and module

One event at a time, as in a browser: `ClickStart`, `ClickStop`,
`EnterBatchSize`, `TimerFires`. `timers` counts the pending calls of `mineLoop`;
a Stop does not cancel them, and a Start before they fire adds another one.
`LoadWasm` succeeds or fails once; until it succeeds there is no Start. A coin is
its session and the number of its hash in it. Two variables are history: `produced`
has all coins hashed since the page was loaded, of all sessions, and `dropped` those
a batch found behind the first `MAX_COINS`, the only ones that may be missing. The
counters have two words: `LaneCounter` counts the low word in each lane and takes
the high word of the first lane for all, as `update_counters_simd` does, and
`FirstCounter` has the low word of `Date.now()` twice, because `seed >> 32` in
JavaScript shifts by 0. `Golden` leaves out the timestamp that is hashed too: what
counts is which counters are hashed, not which of them give a coin.

### Sha1: the hash, round by round

One step is one round of the hash (or, in the loops of the WebAssembly SIMD and
OpenCL miners, one word of the schedule), on words of 32 bits. `form` selects
among the ring of 16 words of `CUSTOM_SHA1_CODE`, the same with AVX-512's rotate
instruction, and the loops over 80 words. A word is the set of its bits that are
1, so the logical operations are those of sets. The reference, `Digest`, starts
from a string of bits padded as RFC 3174 says, and writes the rounds as one
recurrence. A message ends with `0x80`, the first byte of the padding, as
`aad_sha1.h:139` warns that it must; that every coin does is a theorem
(`EveryCoinIsAMessage`).

## 3. The runs

"States" are distinct states. All runs end within a minute.

| Run | Module | What it shows | States |
|---|---|---|---|
| `mpi_safety` | MpiMiner | ranges are apart, requests and answers pair up, STOP is not lost, coins are in one place, statistics never overstate; MpiMiner implements CoinLedger; 2 workers, 3 ranges | 2,034,278 |
| `mpi_live` | MpiMiner | the master ends after the time limit; a coin that waits while the master polls, or is yet to poll before it may leave, is saved behind any others; each worker implements MpiWorkerPort | 83,084 |
| `mpi_lost_coin` | MpiMiner | violated: a coin stays unreceived when the answer (0,0) to the request behind it ends the master's loop | |
| `mpi_hang` | MpiMiner | violated: a worker waits for ever for an answer | |
| `team` | MpiWorkerTeam | ranges are exhausted and no counter is hashed twice, one range at a time, one thread talks, counts are exact; the team ends after a STOP, unless one taken within a slice splits it; it implements MpiWorkerPort; 3 threads, 3 ranges of 20 counters | 31,363 |
| `team_hang` | MpiWorkerTeam | violated: with it the team hangs | |
| `vault` | MCVault | nothing accepted is lost while the process runs; the file only grows, in order, whatever fails; the fifth bad coin ends it and no earlier one does | 36,882 |
| `omp` | OmpMiner | OmpMiner implements Vault; coins and hashes counted exactly; an interrupted miner ends; 3 threads, and the single-threaded programs | 42,015 |
| `coin_layout` | MCCoinLayout | every lane of every miner holds its coin, but behind a wrap of the low word within a pass of mpi or wasm_simd; the vault accepts what the miners let through | 3,195 |
| `gpu` | MCGpuMiner | for both APIs: the buffer is exactly the launches since its first word was set, coins kept or dropped together, none twice unless a write failed, statistics and histogram agree with the file; ends after an interrupt; handles are released, once but for the set-up failures of section 4 | 354,660 |
| `sha1` | MCSha1 | all three forms compute the SHA-1 digest of their data, and no word of the ring is replaced before its last use | 930 |
| `wasm` | WasmMiner | the page has every coin hashed since it was loaded once, over three sessions and chains of timers; none is missing but those behind a full buffer; the coins of a session are those of its counters in one run, but behind a wrap of the low word within a step; nothing runs after Stop | 73,713 |

Bounds, and why they suffice:

- *MpiMiner*: two workers are what the double count of `active_workers`, the
  overtaking between tags and the distribution of ranges need; `MaxCounter`
  ends the ranges after the third, so that a worker asks again while the other
  does not; `MaxStats` bounds the reports under way.
- *MpiWorkerTeam*: three threads and 20 counters give slices of 6, 6 and 8,
  multiples of the stride 2, with a rest for the last thread, as the 10^8 counters
  of a range give for 1, 2, 4, 8, 16 or 20 threads; with 6, 12 or 24 a thread
  hashes up to seven counters of its neighbour again. `StatsBatch` is 4, so clocks
  are looked at within slices and hashes are left over at the end; three ranges
  repeat the barriers.
- *Vault*, *OmpMiner*: a buffer of two lines is full, emptied and full again.
  `STRIDE` is less than what a thread hashes, so the counters of neighbours meet.
- *CoinLayout*: texts of 1, 4, 5, 24, 25, 27, 28 and 29 bytes and one with a
  newline: every length modulo four that matters and both sides of the limit;
  one of the three timestamps has a newline.
  Six passes of four lanes pass the wrap of the low word. `AnyOffsets` has an odd
  counter, two that wrap the low word within a pass of eight or of four lanes, and
  one at which all 64 bits wrap; a launch has four threads.
- *GpuMiner*: two slots and launches with none to three coins; the counter
  wraps every four of the eight launches, and six launches differ in
  `base_value1`. An assumption of `MCGpuMiner` is that the generator has its full
  period there, as it has in the program. Two faults let a launch add to a buffer that was not reset and
  then not be read. A vault of two lines is written while the host mines.
- *Sha1*: two coins of `deti_coins_v2_vault.txt`, of different miners, and a
  message of ones, whose additions carry. An assumption of `MCSha1` is that the
  reference gives the two coins their signature `0xAAD20250`.
- *WasmMiner*: three sessions give up to three chains of timers; a batch size
  below the number of lanes hashes nothing, one above finds more coins than the
  buffer holds. A word has 16 values; with the seeds 3, 11 and 15 the first counters
  are 51, 187 and 255, all odd, so the second lane of a step meets the wrap of the
  low word from each, and from the last that of the whole counter. The golden counters
  lie on both sides of these wraps.

Each module states the types of its variables in `TypeOK` (`Sha1TypeOK`). The runs
of the protocol and of the vault check it; elsewhere it documents the state, the
invariants that are checked say more about the same variables, and it is proved, as
section 5 says.

Deadlock checking is off: the programs stop, the bounds stop the models, and two
of the findings are about programs that wait for ever, which the liveness
properties state.

Fairness: weak fairness of the steps of each rank, thread, timer and of the GPU,
because the system schedules them and finishes a launch, and of time passing.
None for the user (no interrupt and no click must happen), none for errors, no
order in which a critical section lets threads in, and none that prefers one
message to another.

## 4. Where the documents and the code differ

- *A coin can be lost at the end* (`mpi_lost_coin`). The master has been told to
  stop and has polled for coins; then a worker sends a coin and asks for work. The
  answer (0,0) takes the worker off `active_workers` in the same iteration, no
  worker is left, and the master leaves with the coin unreceived. `CoinReachesVault`
  says when this cannot happen: a coin that waits before the master is told to stop,
  other than while it answers requests, is saved.
- *The master can leave early* (`mpi_hang`). A worker that
  asks for work after the stop is taken off `active_workers` with its answer and
  again with its DONE, so the count reaches zero while another worker mines. Its
  last report is missing from the final statistics, and if it asks for work
  nobody answers.
- *A worker can hang* (`team_hang`). Thread 0 sees STOP within its slice and
  leaves; a thread that has finished its slice waits at the barrier in the loop.

Seen in the models, as exceptions that their properties name:

- *OpenCL's clean-up* (`HandlesReleasedOnce`). `initialize_opencl` leaves the
  kernel and the program unset; when `load_kernel_source` or a later call of
  `load_opencl_kernel` fails, `cleanup_opencl` tests and releases them anyway, and
  releases the program a second time after a failed build.
- *OpenCL's copies* (`KeptOrDropped`, `NoCoinTwice`). The results of the write and
  the read of the buffer are ignored (`OpenCL/aad_sha1_opencl.c:119, 135`): after a
  write that failed the coins of the launch before are collected again, and after
  a read that failed those of the launch are lost.
- *One high word for all lanes* (`LanesHoldTheirCoins`, `CountersContiguous`). The
  SIMD miners write the low word of each lane and the high word of the first
  (`aad_mpi_worker.h:34-46`, `aad_wasm_simd_miner.h:121-133`). Where passes begin at
  multiples of the lanes that is right. With 6, 12 or 24 threads a worker's slices do
  not, nor do the sessions of the browser, which begin at `Date.now()`: in the pass in
  which the low word wraps, the lanes behind the wrap hash the coin of a counter 2^32
  lower, and their own counters are left out. The coins are good ones all the same.
- *The first counter of the browser* (`FirstCounter`). `(seed >> 32) & 0xFFFFFFFF`
  (`WebAssembly_SIMD/index.html:299`) is the low word again: the sessions begin at
  (2^32 + 1) times the low word of `Date.now()`.
- *The page's buffer* (`PageHasEveryCoin`). A batch with more than 64 coins
  loses those behind the 64th without a word; the counter of coins leaves them
  out too.

Read from the code while it was modelled, with no run of their own: the download
of the browser miners "in vault format" (`WebAssembly_SIMD/index.html:144`) leaves
out the bytes 0x00 and 0x80 (line 232) and writes other bytes from 128 on as two,
so a line whose counter has such bytes is not the coin that was hashed; MPI is asked
for `MPI_THREAD_FUNNELED`, and threads other than the main one call it
(`aad_mpi_worker.h:93, 162`); the OpenMP miners may print one coin number twice,
while the counts and the vault are exact (`omp`); a timestamp with a newline byte
makes every coin bad for as long as it lasts (256 s every 18 hours, 18 hours every
194 days).

## 5. What is proved

Every theorem holds for all values of the constants that meet the named
assumptions of its module. Where one needs more, it says so as a hypothesis; there
are three of these (`Aligned`, `FewFaults`, `FullPeriod`), explained below, and for
two of them it is proved that the program's constants meet them. All
proofs of safety have the same form: an inductive invariant, with a step per action
and under it one per conjunct that the action touches. TLC found each invariant true
in the instance of its module's run (all but `RankInv`, which chooses among all
orders of the words). Lemmas
about channels, lists, sums and slices are stated once and cited.

### The protocol (`MpiMinerProofs`)

For any number of workers, chunk size and set of golden counters:

| Theorem | Property |
|---|---|
| `TypeCorrect` | `TypeOK` |
| `AnswersMatch` | `OneAnswerPerRequest` |
| `LeavesWhenTold` | `LeaveOnlyOnStop` |
| `StopArrives` | `StopNeverLost` |
| `RangesApart` | `RangesDisjoint` |
| `ActiveCounts` | `ActiveNeverOverCounts` |
| `StatsNotOverstated` | `StatsNeverOverstate` |
| `CoinsAreAccounted` | `CoinsAccounted` |
| `KeepsLedger` | `LedgerSpec`: the protocol implements CoinLedger |
| `WorkersAreKept` | `WorkersKeepPort`: each worker implements MpiWorkerPort |

- `AnswersInv`. `OneAnswerPerRequest` alone is not inductive: that an arriving
  range is never one of the first distribution needs where the master is in its
  distribution and who has got a range. The invariant ties both to the program
  counters.
- `StopInv` adds that a worker which has left took a stop answer or the STOP
  message, that stop answers exist only after the decision, that no range handed
  out equals `(0,0)`, and that STOP is sent to all workers in one step.
- `RangesInv` adds that all ranges end at or before `next_counter`: a new one
  begins there, so it is apart from all others.
- `ActiveInv` counts: `active_workers` is at most the number of workers whose
  DONE has not been handled.
- `StatsInv` adds that every report under way is at most what its worker has
  hashed by now; the master overwrites, so the last one handled decides.
- `MinedInv` says where the coins found lie: behind `next_counter`, behind the
  counter of the worker whose range they are in, and in no range under way; and
  every coin a worker has passed in its range was found. So no coin is found twice,
  which the ledger demands.
- `AccountInv`: a coin is in the vault once or in one channel once. `CoinsAccounted`
  counts coins, and a handler that moves one keeps the count only because the coin
  is nowhere else.
- `PortInv`: an answer under way is a stop, or a range behind the worker's own and
  not empty; a worker in its last steps was told to stop.

### The threads of a worker (`MpiWorkerTeamProofs`)

For any number of threads, stride, chunk and statistics batch:

| Theorem | Property | Hypothesis |
|---|---|---|
| `RequestIsAlone` | `RequestAlone` | |
| `RangesAreTheSame` | `SameRange` | |
| `RangesAreExhausted` | `RangeExhausted` | |
| `ReportsAreExact` | `ReportsExact` | |
| `CountersOnce` | `EachCounterOnce` | `Aligned` |
| `TeamKeepsPort` | `PortSpec`: the team implements MpiWorkerPort | `Aligned` |

- `ControlInv` is about the barriers: the threads hash, are about the single or
  stand at the barrier behind it, all together (`Together`); one is in the single
  (`OneAsks`); a thread leaves only with the stop flag up, and the region ends for
  all at once (`LeaveOnStop`); and with the flag up nobody asks any more, because
  some thread will not come to the barrier (`NobodyAsks`). Without the last part
  a team split by a STOP could ask for a range which only some threads mine.
- `HashedInv` says what each thread has hashed of its slice at each place, so that
  behind the first barrier the whole range is hashed.
- `AddedInv` and `ReportInv`: `total_hashes` is the sum of what the threads have
  added, each its full batches until it leaves and everything then.
- `SentInv`, `FreshInv`, `OnceInv`: a coin is sent if and only if its counter was
  hashed; what a thread has still to hash was hashed by none; so the number of
  hashes is the number of counters hashed.

`Aligned` says that slices consist of whole strides. The ranges of 10^8 counters
and strides of 8 meet it for 1, 2, 4, 8, 16 and 20 threads and five more numbers up
to 40 (`ProgramIsAligned`). With 6, 12 or 24 they do
not: then a thread hashes up to seven counters of its neighbour again, and the two
properties are false, as section 3 says.

### The vault (`VaultProofs`)

For any buffer, any lines and any number of failing writes, restarts and kills:

| Theorem | Property |
|---|---|
| `TypeCorrect` | `TypeOK` |
| `FifthErrorEnds` | `FourErrorsTolerated` |
| `NoAcceptedCoinLost` | `NothingLost` |
| `FileInOrder` | `FileKeepsAcceptedOrder` |
| `FileIsAppendOnly` | `FileOnlyGrows` |

- `TypeInv` adds to `TypeOK` how the count of errors and the end of the process
  go together (`ErrorsCounted`).
- `CoinsInv` adds `CoinsAccounted`: the whole lines of the file, then the buffer,
  are what was accepted, in order. `NothingLost` alone is not inductive, since it
  says nothing of the order in which a failed write leaves the lines that are
  tried again.
- Lemmas about `Joined` and `PartOf` say what a prefix of the buffer, written and
  then written again, leaves in the file.

### The OpenMP and single-threaded miners (`OmpMinerProofs`)

For any number of threads and lanes, any buffer, batch and set of coins:

| Theorem | Property |
|---|---|
| `FileCorrect` | the file, the buffer and the calls that have ended go together |
| `EveryCoinIsCounted` | `EveryCoinCounted` |
| `VaultIsKept` | `VaultSpec`: the miner implements Vault |
| `StatisticsAreExact` | `StatisticsExact` |

- `CriticalInv`: one thread is in `save_coin` (`OneInside`), the single-threaded
  programs leave all others at their first counter (`OthersIdle`), and the line a
  thread fills is the one behind the last saved (`LineIsNext`). The last part is
  what the critical section is there for: without it two threads fill one line.
- `FileInv`: file and buffer together are the accepted lines in order, also between
  the two steps of a call.
- `CountInv`: `coins_found` and the coins in the threads' hands that are not yet
  counted are together the coins of all counters hashed. It is a sum over the
  threads, whose lemmas are in `SumTheorems`.
- `WorkInv`: the counters of the threads are multiples of `Lanes` and bounded. It
  bounds the number of calls, which the vault's own bound must not cut off.
- `TallyInv`: `total_attempts` is the sum of what the threads have reported, each
  its full batches until it leaves.

### The GPU miners and the CUDA test (`GpuMinerProofs`)

For any number of threads, any buffer, set of coins, pattern of failing copies and
order of the kernel's threads:

| Theorem | Property | Hypothesis |
|---|---|---|
| `TestMeetsKernel` | the CUDA test and its kernel agree on the place of every word | |
| `WordsApart` | no two words of the test's areas share a place | |
| `HandlesCorrect` | `HandlesReleasedOnce` | |
| `SlotsCorrect` | the coins of finished threads are in the slots, and each slot reserved has a coin or a thread that will fill it | |
| `CoinsOnlyOnce` | no coin is in two slots | `FewFaults` |
| `BufferCorrect` | `BufferIsTheLaunch` | `FewFaults` |
| `KeptCorrect` | `KeptOrDropped` | |
| `CoinsNotTwice` | `NoCoinTwice` | `FullPeriod` |
| `GeneratorGoesRound` | `FullPeriod` | the modulus is a power of two, A leaves 1 modulo 4, C is odd |
| `ProgramKeepsNoCoinTwice` | `NoCoinTwice` | the program's three constants |
| `GpuTypes` | `TypeOK` | |

- `DeviceInv`: where the program is in its set-up and release decides which handles
  are held; the context outlives the objects made in it; a misuse comes only
  after the failures that section 4 names.
- `FilledInv` is about a buffer that has not overflowed: its first word is behind
  the last reserved slot, no two threads write to one slot, and the coins in
  slots are those of the threads that are done, of all launches since the first word
  was set. It must say nothing of a buffer that has overflowed, where slots are
  lost.
- `AgeInv` and `UniqueInv`: a coin of the buffer is of one of the launches since the
  first word was set, and the counters of these are different. That is where
  copies that fail unnoticed matter, which let launches add up.
- `KeptInv` and `DroppedInv`: a good coin that was produced is kept, is in the launch
  about to be collected, or is excused; and excused are those of launches that have
  more coins than there are slots, which the first word of the buffer counts also
  when the slots have run out, and those of failed copies.
- `CountsInv` and `FileInv`: the counts, the histogram and the file as functions of
  the coins kept.
- `RankInv` and `TimesInv`: `base_value1` never comes back while the generator has
  not gone round, so a coin of an earlier launch is not of the present one, and a
  coin is kept once, and once more for each failed write of the first word.

- `RestInv`: what the others leave open of the variables' types, for `GpuTypes`.

`FewFaults` says that fewer copies fail than there are launches in a turn of the
counter, 512 in the program: with more, a counter would come back in a buffer
that was never reset.

`FullPeriod` says that the generator visits every word before one comes again. The
program's does: with a multiplier that leaves 1 modulo 4 (1103515245) and an odd
increment (12345), values w steps apart differ by an odd multiple of w, for
w = 1, 2, 4, and so on (`TwiceApart`), and therefore the first w values leave each
remainder by w once (`TwiceTheTour`), up to w = 2^32. An assumption of `MCGpuMiner`
checks it for the words of the run.

### The browser miner (`WasmMinerProofs`)

For any number of lanes, buffer, batch sizes, seeds and coins, and every order of
clicks and timers:

| Theorem | Property |
|---|---|
| `WasmTypes` | `TypeOK` |
| `EveryCoinShown` | `PageHasEveryCoin` |
| `CountersInOneRun` | `CountersContiguous` |

- `PageInv`: the buffer of the module is empty between two events, since a batch
  and its collection are one event, and there are no more timers than sessions.
- `ListInv`: all coins hashed so far, of this session and earlier ones, come before
  the next hash of the session (`Hashed`), and the list of the page is all of them
  but the dropped ones (`Kept`), in order (`InList`). `PageHasEveryCoin` alone is not
  inductive: a batch may only append coins behind those that are there.
- `CountInv`: the counter of the module is the first one of the session and its
  hashes, and the session's coins are those of the counters in between.
- `LaneCounterIs`: the counter that the two words of a lane make is the lane's own,
  or, behind a wrap of the low word, one 2^32 lower; `BatchGoesOn` carries it from
  the first counter of a batch to that of the session. Both are about remainders of
  64-bit counters and hold for any size of the words.
- `BatchCoins` says what a batch of any length finds: every coin of its hashes, in
  order. It is about the recursive definition of the list and goes, like the lemmas
  about sums, by the least natural number for which it would be false.

### The hash (`CoinProofs`)

For every message of words of 32 bits that ends with the first byte of the padding,
in all three forms:

| Theorem | Property |
|---|---|
| `Sha1TypeCorrect` | `Sha1TypeOK` |
| `RingHoldsTheSchedule` | `WordsOfSchedule` |
| `EveryHashIsSha1` | `HashIsSha1` |

- `Sha1Inv` says at every round what the definition says of it: the words in the
  ring are the 16 youngest of the schedule, each at its place modulo 16 (`WordsInv`),
  and a to e are the last five values of the recurrence, the older three rotated
  (`StateAfter`).
- The definition and the code compute with other formulas. `FIsMix` and
  `TwoShiftsRotate` say that F1 to F4 are the logical functions and that two shifts
  are a rotation. The definition adds its five terms in another order than the code:
  `PlusAssociates` shows, carry by carry (`SameCarries`), that on 32 bits this makes
  no difference.
- `BlockIsFirstWords`: the string of bits with the padding and the length that the
  definition begins with consists of the 14 words, with the length 440 as the code has it.
- `ScheduleWords` and `RoundsComputed` unfold the definition's two recursive
  functions, by induction over sets of natural numbers.

### The coin (`CoinProofs`)

For any texts, times, first counters (multiples of 16 for the CPU miners, of a launch
for the GPU hosts, any for the others) and number of passes, and bytes of any size:

| Theorem | Property | Hypothesis |
|---|---|---|
| `CoinTypeCorrect` | `TypeOK` | |
| `EveryLaneHoldsItsCoin` | `LanesHoldTheirCoins` | |
| `NoMinerEndsInTheVault` | `VaultAccepts` | |
| `EveryCoinIsAMessage` | each lane ends with `0x80`, in the words of Sha1 | `END` is `0x80` |

- `CoinInv` says what the lanes hold before a pass, which depends on the miner
  (`Prepared`): where a miner does not write a word in its loop, the lane has it
  already. It also says that the counter of the AVX miners goes in steps of the
  lanes from a multiple of 16, so that it has one high word in all of them, which
  these miners write once for all (`OneHighWord`). For mpi and wasm_simd nothing is
  said of the counter: what their lanes hold behind a wrap is `CounterOf`
  (`WrappedCounter`).
- After a pass every lane is the coin that the scalar miner would build from its
  counter: one lemma for each way of building it (`SimdCoin`, `MpiCoin`,
  `WasmSimdCoin`, `CudaIsScalar`, `OpenClIsPlain`). So the properties need to be
  proved of that one coin only (`CoinBytes`).
- `DigitsAreWord`, `LowDigits` and `HighDigits` take a counter apart into bytes.

### Only model-checked

Liveness, which is beyond the prover, and what depends on it: that an
interrupted miner, a team or a timer ends, that coins reach the vault. The
three findings are counterexamples of TLC. Every safety property of a passing run,
and every refinement, is proved.

## 6. Not modelled

The connection of the hash with the other models of the miners (they take the set of
golden counters as given, since no small model has a coin); the lanes of a vector hash, which do
not interact; the CPU tests and the scripts, which keep no state;
`list_opencl_devices`, which prints; a failing `clSetKernelArg`; the text form of a
coin for display and download, which changes nothing the page mines with; what an
interrupted `printf` does in a signal handler; MPI's own failures.

## 7. Plan

*Composition*: MpiMiner with a team per worker, instead of one step per batch,
to see the two hangs together; the vault inside the master.
