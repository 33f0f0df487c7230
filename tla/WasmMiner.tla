------------------------------ MODULE WasmMiner ------------------------------
(***************************************************************************)
(* The browser miner: the compiled module (scalar or SIMD), which hashes a *)
(* batch per call and keeps coins in a buffer, and the page around it,     *)
(* which calls a batch, takes the coins out and asks for a timer to do it  *)
(* again.  The page runs one event at a time: a click or a timer.  A timer *)
(* that is pending when the user stops is not cancelled.                   *)
(***************************************************************************)
EXTENDS Integers, Sequences, FiniteSets, SequencesExt

CONSTANTS
    LANES,        \* hashes of one step: 1, or 4 with SIMD
    WORD,         \* values of a 32-bit word (2^32)
    MAX_COINS,    \* coins the buffer holds (64)
    BatchSizes,   \* what the user may enter
    Seeds,        \* the low words of Date.now() at the starts
    Golden,       \* the counters that give a coin, at any time
    MaxHashes,    \* bound: hashes of all sessions
    MaxStarts     \* bound: sessions

ASSUME LanesAssumption == LANES \in Nat \ {0} /\ WORD \in Nat /\ LANES <= WORD
ASSUME BufferAssumption == MAX_COINS \in Nat \ {0}
ASSUME InputsAssumption == BatchSizes \subseteq Nat \ {0} /\ Seeds \subseteq 0..(WORD - 1)
ASSUME GoldenAssumption == Golden \subseteq Nat
ASSUME BoundsAssumption == MaxHashes \in Nat /\ MaxStarts \in Nat

VARIABLES
    \* --- page ---
    wasm,                \* what became of loadWasm
    mining,
    timers,              \* calls of mineLoop that setTimeout will make
    batchSize,           \* its input is disabled while mining
    foundCoins,          \* a coin is its session and its hash in the session, from 0
    \* --- module ---
    g_running,
    g_counter,
    g_total_hashes,
    g_coins_found,
    g_coin_buffer,
    \* --- history ---
    session,             \* number of starts (bounded by MaxStarts)
    hashed,              \* hashes of all sessions (bounded by MaxHashes)
    first,               \* the first counter of the session
    produced,            \* all coins that were hashed, of all sessions
    dropped              \* those behind the first MAX_COINS of their batch

page == <<wasm, mining, timers, batchSize, foundCoins>>
module == <<g_running, g_counter, g_total_hashes, g_coins_found, g_coin_buffer>>
history == <<session, hashed, first, produced, dropped>>
vars == <<page, module, history>>

Coin == (1..MaxStarts) \X Nat

TypeOK ==
    /\ wasm \in {"loading", "ready", "failed"}
    /\ mining \in BOOLEAN /\ g_running \in BOOLEAN
    /\ timers \in 0..MaxStarts
    /\ batchSize \in BatchSizes
    /\ foundCoins \in Seq(Coin) /\ g_coin_buffer \in Seq(Coin)
    /\ Len(g_coin_buffer) <= MAX_COINS
    /\ {g_counter, g_total_hashes, g_coins_found, hashed, first} \subseteq Nat
    /\ produced \subseteq Coin /\ dropped \subseteq produced
    /\ session \in 0..MaxStarts

Init ==
    /\ wasm = "loading"
    /\ mining = FALSE
    /\ timers = 0
    /\ batchSize \in BatchSizes
    /\ foundCoins = <<>>
    /\ g_running = FALSE
    /\ g_counter = 0
    /\ g_total_hashes = 0
    /\ g_coins_found = 0
    /\ g_coin_buffer = <<>>
    /\ session = 0
    /\ hashed = 0
    /\ first = 0
    /\ produced = {}
    /\ dropped = {}

-----------------------------------------------------------------------------
(* mine_batch: one counter per pass; mine_batch_simd: batch_size / 4       *)
(* passes of four.  Nothing clears g_running while it runs.                *)
HashesOf(n) == (n \div LANES) * LANES

(* A counter has 64 bits.  update_counters_simd: the low word counts in    *)
(* each lane, the high word is that of the first lane.                     *)
Counter(high, low) == high * WORD + low
Counted(c, n) == (c + n) % (WORD * WORD)
LaneCounter(c, lane) == Counter(c \div WORD, (c + lane) % WORD)

(* The counter of hash k of a batch that starts at counter c               *)
HashedCounter(c, k) == LaneCounter(Counted(c, k - (k % LANES)), k % LANES)

(* The coins of a batch that starts at counter c with hash h of session s, *)
(* in order; store_coin drops those for which there is no room.            *)
CoinsFrom(s, c, h, n) ==
    LET found[k \in 0..HashesOf(n)] ==
            IF k = 0 THEN <<>>
            ELSE IF HashedCounter(c, k - 1) \in Golden
                 THEN Append(found[k - 1], <<s, h + (k - 1)>>)
                 ELSE found[k - 1]
    IN  found[HashesOf(n)]

Room(buffer) == MAX_COINS - Len(buffer)
Stored(buffer, coins) ==
    buffer \o SubSeq(coins, 1, IF Len(coins) < Room(buffer) THEN Len(coins) ELSE Room(buffer))

(* miner_clear_coin_buffer *)
NotCleared(buffer) == buffer
Cleared(buffer) == <<>>

(* mineLoop while mining: a batch on a counter, coins found and buffer;    *)
(* all coins of the buffer go to the page if there are any new ones, and a *)
(* timer is set.  The return value of mine_batch also counts the coins     *)
(* that were dropped, that of mine_batch_simd does not; both are positive  *)
(* in the same cases, because the buffer is empty before.                  *)
RunBatch(s, counter, hashes, coins_found, buffer, n) ==
    LET coins == CoinsFrom(s, counter, hashes, n)
        stored == Stored(buffer, coins)
    IN  /\ hashed + HashesOf(n) <= MaxHashes
        /\ g_counter' = Counted(counter, HashesOf(n))
        /\ g_total_hashes' = hashes + HashesOf(n)
        /\ g_coins_found' = coins_found + Len(stored) - Len(buffer)
        /\ hashed' = hashed + HashesOf(n)
        /\ produced' = produced \cup {coins[i] : i \in DOMAIN coins}
        /\ dropped' = dropped \cup {coins[i] : i \in DOMAIN coins \ (1..MAX_COINS)}
        /\ IF coins # <<>>
           THEN /\ foundCoins' = foundCoins \o stored
                /\ g_coin_buffer' = Cleared(stored)
           ELSE UNCHANGED <<foundCoins, g_coin_buffer>>

(* loadWasm, once per page: without SIMD, with a fetch that fails or with  *)
(* a module that does not compile the Start button stays disabled.         *)
LoadWasm ==
    /\ wasm = "loading"
    /\ wasm' \in {"ready", "failed"}
    /\ UNCHANGED <<mining, timers, batchSize, foundCoins, module, history>>

(* startMining: miner_init, miner_start, and the first mineLoop.  In       *)
(* JavaScript seed >> 32 shifts by 0: both words of the first counter are  *)
(* the low word of Date.now().                                             *)
GoesOnCounting(seed) == g_counter
FirstCounter(seed) == Counter(seed, seed)
ClickStart ==
    /\ wasm = "ready"
    /\ ~mining
    /\ session < MaxStarts
    /\ \E seed \in Seeds :
          /\ RunBatch(session + 1, FirstCounter(seed), 0, 0, <<>>, batchSize)
          /\ first' = Counter(seed, seed)
    /\ mining' = TRUE
    /\ g_running' = TRUE
    /\ timers' = timers + 1
    /\ session' = session + 1
    /\ UNCHANGED <<wasm, batchSize>>

(* stopMining *)
ClickStop ==
    /\ mining
    /\ mining' = FALSE
    /\ g_running' = FALSE
    /\ UNCHANGED <<wasm, timers, batchSize, foundCoins, g_counter, g_total_hashes,
                   g_coins_found, g_coin_buffer, history>>

EnterBatchSize ==
    /\ ~mining
    /\ batchSize' \in BatchSizes \ {batchSize}
    /\ UNCHANGED <<wasm, mining, timers, foundCoins, module, history>>

(* A timer calls mineLoop, which sets the next one, or returns at once. *)
AlwaysMines == TRUE
StillMining == mining

TimerFires ==
    /\ timers > 0
    /\ \/ /\ StillMining
          /\ RunBatch(session, g_counter, g_total_hashes, g_coins_found,
                      g_coin_buffer, batchSize)
          /\ UNCHANGED timers
       \/ /\ ~StillMining
          /\ timers' = timers - 1
          /\ UNCHANGED <<foundCoins, g_counter, g_total_hashes, g_coins_found,
                         g_coin_buffer, hashed, produced, dropped>>
    /\ UNCHANGED <<wasm, mining, batchSize, g_running, session, first>>

Next == LoadWasm \/ ClickStart \/ ClickStop \/ EnterBatchSize \/ TimerFires

Spec == Init /\ [][Next]_vars

(* The browser calls every timer; the user owes nothing. *)
FairSpec == Spec /\ WF_vars(TimerFires)

-----------------------------------------------------------------------------
(* Properties *)

(* The list of the page is all coins that were hashed since it was loaded, *)
(* in the order of finding, each once, but for those that came behind the  *)
(* first MAX_COINS of their batch: no start, stop or second timer loses    *)
(* coins of this session or of an earlier one or shows one twice, and the  *)
(* buffer is empty at every start of a batch, so it fills up only then.    *)
(* The module counts those of the last session.                            *)
Before(a, b) == a[1] < b[1] \/ (a[1] = b[1] /\ a[2] < b[2])
PageHasEveryCoin ==
    /\ g_coin_buffer = <<>>
    /\ ToSet(foundCoins) = produced \ dropped
    /\ \A i, j \in DOMAIN foundCoins : i < j => Before(foundCoins[i], foundCoins[j])
    /\ Cardinality({i \in DOMAIN foundCoins : foundCoins[i][1] = session}) = g_coins_found

(* Hash p of a session is of the counter p behind its first one, also when *)
(* timers left from earlier sessions call batches of their own and the     *)
(* batch size changes: no counter is left out or hashed twice between two  *)
(* batches.  One exception: when the low word wraps among the lanes of a   *)
(* step, those behind the wrap hash a counter 2^32 lower instead.  The     *)
(* coins of the session show it: they are those of the counters that give  *)
(* one, among as many hashes as the module counts.                         *)
CounterOfHash(p) ==
    LET c == Counted(first, p)
    IN  IF c % WORD < p % LANES THEN (c - WORD) % (WORD * WORD) ELSE c
CountersContiguous ==
    /\ g_counter = Counted(first, g_total_hashes)
    /\ session > 0 =>
          {coin \in produced : coin[1] = session} =
              {<<session, p>> : p \in {q \in 0..(g_total_hashes - 1) : CounterOfHash(q) \in Golden}}

(* The timers of a session that was stopped end, unless mining goes on.    *)
TimersEnd == ~mining ~> (mining \/ timers = 0)
=============================================================================
