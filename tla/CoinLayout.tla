------------------------------ MODULE CoinLayout ------------------------------
(***************************************************************************)
(* The 14 words of a coin, as each miner builds them: a prefix, the        *)
(* counter in words 3 and 4, the custom text from word 5 on, a timestamp   *)
(* behind it, zeros up to word 12, and the end of the template in word 13. *)
(* The scalar miners build a coin from nothing; the SIMD miners set up     *)
(* their lanes once and then change some words of every lane; the GPU      *)
(* kernels get words as arguments.  A word is its four bytes, the most     *)
(* significant first; a byte is a digit in base ByteSize (256 in the code).*)
(***************************************************************************)
EXTENDS Integers, Sequences

CONSTANTS
    ByteSize,
    NL, END,       \* the bytes '\n' and 0x80
    Letters,       \* the 12 other bytes of the template
    Texts,         \* arguments a user may give, sequences of bytes other than 0
    Times,         \* the low words of time(NULL), and what stands for it
    Offsets,       \* counters of the miners whose passes begin at multiples of 16
    AnyOffsets,    \* counters of the miners whose passes begin anywhere
    LaunchThreads, \* threads of a kernel launch (128 * 65536)
    MaxSteps       \* bound: passes through the mining loop

Byte == 0..(ByteSize - 1)
Word == [1..4 -> Byte]
WordSize == ByteSize * ByteSize * ByteSize * ByteSize

ASSUME BytesAssumption ==
    /\ ByteSize \in Nat \ {0, 1}
    /\ NL \in Byte \ {0} /\ END \in Byte \ {0} /\ NL # END
ASSUME LettersAssumption == Letters \in [0..11 -> Byte \ {0, NL}]
ASSUME TextsAssumption == \A t \in Texts : t \in Seq(Byte \ {0})
ASSUME TimesAssumption == Times \subseteq Word
(* 0 and thread_id * 10^9, and the counters a long run comes to from there. *)
ASSUME OffsetsAssumption ==
    WordSize % 16 = 0 /\ \A c \in Offsets : c \in Nat /\ c % 16 = 0
(* The slices of an MPI worker, 10^8 \div 6 counters each for 6 threads,    *)
(* and the Date.now() of the browser.                                      *)
ASSUME AnyOffsetsAssumption == AnyOffsets \subseteq Nat
ASSUME LaunchAssumption == LaunchThreads \in Nat \ {0} /\ WordSize % LaunchThreads = 0
ASSUME BoundAssumption == MaxSteps \in Nat

VARIABLES
    miner,      \* the program
    text,       \* its argument, the empty text if there is none
    status,
    counter,
    coin,       \* the 14 words of each lane
    hashed,     \* the counter and the timestamp of the last pass, for the properties
    steps       \* passes so far (bounded by MaxSteps)

vars == <<miner, text, status, counter, coin, hashed, steps>>

NoText == <<>>

(* Counters of one pass, or of one kernel launch. *)
Lanes == [scalar |-> 1, avx |-> 4, avx2 |-> 8, avx512 |-> 16, mpi |-> 8,
          wasm |-> 1, wasm_simd |-> 4,
          cuda |-> LaunchThreads, opencl |-> LaunchThreads]
SimdMiners == {"avx", "avx2", "avx512"}
GpuMiners == {"cuda", "opencl"}
TakesText == {"scalar", "cuda"} \cup SimdMiners

(* Where passes begin: the u32 iteration counter of a GPU host is set to 0 *)
(* and grows by whole launches.                                            *)
FirstCounters(m) ==
    CASE m \in GpuMiners -> {c \in Offsets : c < WordSize /\ c % LaunchThreads = 0}
      [] m \in {"mpi", "wasm", "wasm_simd"} -> AnyOffsets
      [] OTHER -> Offsets

Coin == [0..13 -> Word]

TypeOK ==
    /\ miner \in DOMAIN Lanes
    /\ text \in Texts \cup {NoText}
    /\ status \in {"started", "mining", "refused"}
    /\ counter \in Nat
    /\ \A lane \in DOMAIN coin : coin[lane] \in Coin
    /\ hashed.counter \in Nat /\ hashed.time \in Times
    /\ steps \in 0..MaxSteps

(* A program starts with a text, or with the empty one, which stands for   *)
(* no argument at all and for an argument "".                              *)
Init ==
    /\ miner \in DOMAIN Lanes
    /\ text \in IF miner \in TakesText THEN Texts \cup {NoText} ELSE {NoText}
    /\ status = "started"
    /\ counter \in FirstCounters(miner)
    /\ coin = <<>>
    /\ hashed \in [counter : {0}, time : Times]
    /\ steps = 0

-----------------------------------------------------------------------------
(* Words *)

Zero == <<0, 0, 0, 0>>
EndWord == <<0, 0, NL, END>>
Prefix(i) == [b \in 1..4 |-> Letters[4 * i + b - 1]]

(* A word nobody has written: its bytes may be the worst there are. *)
Unset == <<NL, NL, NL, NL>>

(* What the four digits of a word count. *)
Weights == <<ByteSize * ByteSize * ByteSize, ByteSize * ByteSize, ByteSize, 1>>
Digits(n) == [b \in 1..4 |-> (n \div Weights[b]) % ByteSize]
Low(c) == Digits(c % WordSize)
High(c) == Digits((c \div WordSize) % WordSize)

(* validate_custom_text: 1 to 27 bytes, none of them a newline. *)
ValidText(t) == t # <<>> /\ Len(t) <= 27 /\ \A i \in DOMAIN t : t[i] # NL

(* encode_custom_text: four bytes to a word, the last one filled up with   *)
(* zeros, as far as word 12.                                               *)
TextWords(t) == (Len(t) + 3) \div 4
Encoded(t) ==
    [i \in 5..12 |-> [b \in 1..4 |-> LET k == 4 * (i - 5) + b
                                     IN  IF k <= Len(t) THEN t[k] ELSE 0]]

StampWord(t) == 5 + TextWords(t)

-----------------------------------------------------------------------------
(* generate_coin_counter of the scalar miners, and generate_coin of the    *)
(* WebAssembly one, which has no text.                                     *)
ScalarCoin(c, t, now) ==
    [i \in 0..13 |->
        CASE i < 3 -> Prefix(i)
          [] i = 3 -> Low(c)
          [] i = 4 -> High(c)
          [] i = 13 -> EndWord
          [] i \in 5..12 /\ i < StampWord(t) -> Encoded(t)[i]
          [] i \in 5..12 /\ i = StampWord(t) -> now
          [] OTHER -> Zero]

(* The lanes before the loop.  init_coin_data_avx and its wider versions   *)
(* copy the text up to its first zero word; init_coin_data_avx2_mpi and    *)
(* init_coin_data_simd set fewer words.                                    *)
TextUpToZero(t, i) == \A j \in 5..i : Encoded(t)[j] # Zero

TextLane(t) ==
    [i \in 0..13 |->
        CASE i < 3 -> Prefix(i)
          [] i = 13 -> Unset
          [] i \in 5..12 /\ TextUpToZero(t, i) -> Encoded(t)[i]
          [] OTHER -> Zero]
MpiLane == [i \in 0..13 |-> CASE i < 3 -> Prefix(i)
                              [] i \in 6..12 -> Zero
                              [] OTHER -> Unset]
WasmLane == [MpiLane EXCEPT ![13] = EndWord]

InitialLane(m, t) ==
    CASE m \in SimdMiners -> TextLane(t)
      [] m = "mpi" -> MpiLane
      [] m = "wasm_simd" -> WasmLane
      [] OTHER -> [i \in 0..13 |-> Unset]

(* update_counters_*: the low word counts in each lane, the high word is   *)
(* that of the first lane; behind the timestamp all words are cleared.     *)
CountsFromOne(c, lane) == Low(c + lane + 1)
LaneCounter(c, lane) == Low(c + lane)

WithCounter(old, c, lane) == [old EXCEPT ![3] = LaneCounter(c, lane), ![4] = High(c)]

TextUpdate(old, c, lane, t, now) ==
    [i \in 0..13 |->
        CASE i = StampWord(t) -> now
          [] i \in (StampWord(t) + 1)..12 -> Zero
          [] i = 13 -> EndWord
          [] OTHER -> WithCounter(old, c, lane)[i]]
MpiUpdate(old, c, lane, now) ==
    [WithCounter(old, c, lane) EXCEPT ![5] = now, ![13] = EndWord]
WasmUpdate(old, c, lane, now) == [WithCounter(old, c, lane) EXCEPT ![5] = now]

(* The kernels: each thread adds its number to the offset of the launch in *)
(* 64 bits, and the CUDA host passes the eight words of the text.          *)
CudaCoin(c, t, now) ==
    [i \in 0..13 |->
        CASE i < 3 -> Prefix(i)
          [] i = 3 -> Low(c)
          [] i = 4 -> High(c)
          [] i = 13 -> EndWord
          [] i \in 5..12 -> IF i = StampWord(t) THEN now ELSE Encoded(t)[i]]
OpenClCoin(c, now) ==
    [i \in 0..13 |->
        CASE i < 3 -> Prefix(i)
          [] i = 3 -> Low(c)
          [] i = 4 -> High(c)
          [] i = 5 -> now
          [] i = 13 -> EndWord
          [] OTHER -> Zero]

-----------------------------------------------------------------------------
(* main: an argument that is not valid is refused, "" too. *)
Refuse ==
    /\ status = "started"
    /\ miner \in TakesText
    /\ ~ValidText(text)
    /\ status' = "refused"
    /\ UNCHANGED <<miner, text, counter, coin, hashed, steps>>

Start ==
    /\ status = "started"
    /\ text = NoText \/ ValidText(text)
    /\ status' = "mining"
    /\ coin' = [lane \in 0..(Lanes[miner] - 1) |-> InitialLane(miner, text)]
    /\ UNCHANGED <<miner, text, counter, hashed, steps>>

(* One pass builds a coin in each lane, at a time that is read once.       *)
Pass(Build(_, _), next) ==
    /\ status = "mining"
    /\ steps < MaxSteps
    /\ \E now \in Times :
          /\ coin' = [lane \in DOMAIN coin |-> Build(lane, now)]
          /\ hashed' = [counter |-> counter, time |-> now]
    /\ counter' = next
    /\ steps' = steps + 1
    /\ UNCHANGED <<miner, text, status>>

ScalarPass ==
    /\ miner \in {"scalar", "wasm"}
    /\ Pass(LAMBDA lane, now : ScalarCoin(counter, text, now), counter + 1)
SimdPass ==
    /\ miner \in SimdMiners
    /\ Pass(LAMBDA lane, now : TextUpdate(coin[lane], counter, lane, text, now),
            counter + Lanes[miner])
MpiPass ==
    /\ miner = "mpi"
    /\ Pass(LAMBDA lane, now : MpiUpdate(coin[lane], counter, lane, now), counter + 8)
WasmSimdPass ==
    /\ miner = "wasm_simd"
    /\ Pass(LAMBDA lane, now : WasmUpdate(coin[lane], counter, lane, now), counter + 4)

(* The iteration counter of the host has 32 bits. *)
NextLaunch == (counter + LaunchThreads) % WordSize
CudaLaunch ==
    /\ miner = "cuda"
    /\ Pass(LAMBDA lane, now : CudaCoin(counter + lane, text, now), NextLaunch)
OpenClLaunch ==
    /\ miner = "opencl"
    /\ Pass(LAMBDA lane, now : OpenClCoin(counter + lane, now), NextLaunch)

Next ==
    \/ Refuse
    \/ Start
    \/ ScalarPass
    \/ SimdPass
    \/ MpiPass
    \/ WasmSimdPass
    \/ CudaLaunch
    \/ OpenClLaunch

Spec == Init /\ [][Next]_vars

-----------------------------------------------------------------------------
(* The bytes of a coin, and who looks at them *)

ByteAt(words, k) == words[k \div 4][(k % 4) + 1]

(* Before save_coin every miner looks for newlines in bytes 12 to 53. *)
FromByte13(words) == \A k \in 13..53 : ByteAt(words, k) # NL
NoNewline(words) == \A k \in 12..53 : ByteAt(words, k) # NL

(* save_coin: template, and no newline in between. *)
MatchesTemplate(words) ==
    /\ \A k \in 0..11 : ByteAt(words, k) = Letters[k]
    /\ \A k \in 12..53 : ByteAt(words, k) # NL
    /\ ByteAt(words, 54) = NL /\ ByteAt(words, 55) = END

-----------------------------------------------------------------------------
(* Properties *)

(* What a coin is, byte by byte: the template, the 64-bit counter in two   *)
(* words with the low one first, the text, zeros up to the next word, the  *)
(* timestamp, and zeros.                                                   *)
CoinByte(c, t, now, k) ==
    LET stamp == 20 + 4 * ((Len(t) + 3) \div 4)
    IN  CASE k < 12 -> Letters[k]
          [] k \in 12..15 -> (c \div Weights[k - 11]) % ByteSize
          [] k \in 16..19 -> ((c \div WordSize) \div Weights[k - 15]) % ByteSize
          [] k \in 20..(19 + Len(t)) -> t[k - 19]
          [] k \in stamp..(stamp + 3) -> now[k - stamp + 1]
          [] k = 54 -> NL
          [] k = 55 -> END
          [] OTHER -> 0

(* The counter whose coin a lane should hold: counter + lane, but for the  *)
(* two miners whose passes may begin anywhere and which give all lanes the *)
(* high word of the first.  When the low word wraps within their pass, the *)
(* lanes behind the wrap hold the coin of a counter 2^32 lower, and that   *)
(* of counter + lane is not hashed.                                        *)
BehindWrap(c, lane) == (c + lane) \div WordSize # c \div WordSize
CounterOf(m, c, lane) ==
    IF m \in {"mpi", "wasm_simd"} /\ BehindWrap(c, lane)
    THEN c + lane - WordSize
    ELSE c + lane

(* Every lane of every miner holds, in every pass, the coin of its counter *)
(* with the whole text and the timestamp of the pass: nothing is left over *)
(* from the pass before or from an unset word, also not when the low word  *)
(* wraps between two passes.  Only the lanes behind a wrap within a pass   *)
(* have another counter than their own (CounterOf), and only in the miners *)
(* that do not begin at multiples of their lanes.                          *)
LanesHoldTheirCoins ==
    steps > 0 =>
        \A lane \in DOMAIN coin, k \in 0..55 :
            ByteAt(coin[lane], k) =
                CoinByte(CounterOf(miner, hashed.counter, lane), text, hashed.time, k)

(* No coin that a miner passes on is bad for the vault, which would end    *)
(* the program at the fifth one: their checks agree.                       *)
VaultAccepts ==
    steps > 0 => \A lane \in DOMAIN coin :
                     NoNewline(coin[lane]) => MatchesTemplate(coin[lane])
=============================================================================
