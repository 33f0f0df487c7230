-------------------------------- MODULE Sha1 --------------------------------
(***************************************************************************)
(* The SHA-1 hash of a 55-byte message in one block, in the three forms    *)
(* the miners use:                                                         *)
(*   "ring"   CUSTOM_SHA1_CODE of aad_sha1.h, unrolled, in a ring of 16    *)
(*            words, rotating with two shifts (scalar, AVX, AVX2, NEON,    *)
(*            CUDA, the scalar WebAssembly miner);                         *)
(*   "prold"  the same with AVX-512's rotate instruction;                  *)
(*   "loops"  80 words expanded first (WebAssembly SIMD, OpenCL).          *)
(* The lanes of a vector do not meet, so a word of the model is the word   *)
(* of one lane.  The reference is the definition of RFC 3174 on a padded   *)
(* string of bits, with one word per round.                                *)
(***************************************************************************)
EXTENDS Integers, Sequences

CONSTANT Messages  \* what DATA(0) to DATA(13) may be

Bits == 0..31
Word32 == SUBSET Bits   \* the bits that are 1; bit 0 is the lowest

(* The last of the 56 bytes is the first one of the padding, 0x80. *)
ASSUME MessagesAssumption ==
    /\ Messages \subseteq [0..13 -> Word32]
    /\ \A m \in Messages : m[13] \cap 0..7 = {7}

VARIABLES
    form,      \* "ring", "prold" or "loops"
    data,
    w,
    a, b, c, d, e,
    t,         \* the round, or the word being expanded
    pc,        \* "expand", "rounds" or "done"
    hash

Sha1Vars == <<form, data, w, a, b, c, d, e, t, pc, hash>>

Sha1TypeOK ==
    /\ form \in {"ring", "prold", "loops"}
    /\ data \in Messages
    /\ \E n \in 15..79 : w \in [0..n -> Word32]
    /\ {a, b, c, d, e} \subseteq Word32
    /\ t \in 0..80
    /\ pc \in {"expand", "rounds", "done"}
    /\ hash = <<>> \/ hash \in [1..5 -> Word32]

-----------------------------------------------------------------------------
(* The operations on words *)

(* The word with the upper half hi and the lower half lo. *)
Hex(hi, lo) ==
    {i \in Bits : (IF i < 16 THEN lo \div 2^i ELSE hi \div 2^(i - 16)) % 2 = 1}

Not(x) == Bits \ x
Xor(x, y) == (x \cup y) \ (x \cap y)

(* There is a carry into bit i if one is generated below and goes on to i. *)
Carry(x, y, i) ==
    \E j \in 0..(i - 1) : /\ j \in x \cap y
                          /\ (j + 1)..(i - 1) \subseteq x \cup y

Plus(x, y) ==
    {i \in Bits : i \in Xor(x, y) <=> ~Carry(x, y, i)}

ShiftLeft(x, n) == {i + n : i \in x} \cap Bits
ShiftRight(x, n) == {i - n : i \in x} \cap Bits

TwoShifts(x, n) == ShiftLeft(x, n) \cup ShiftRight(x, 32 - n)
Prold(x, n) == {(i + n) % 32 : i \in x}

ROTATE(x, n) == IF form = "prold" THEN Prold(x, n) ELSE TwoShifts(x, n)

SHA1_F1(x, y, z) == (x \cap y) \cup (Not(x) \cap z)
SHA1_F2(x, y, z) == Xor(Xor(x, y), z)
TwoTerms(x, y, z) == (x \cap y) \cup (x \cap z)
SHA1_F3(x, y, z) == (x \cap y) \cup (x \cap z) \cup (y \cap z)

F(i, x, y, z) ==
    CASE i \div 20 = 0 -> SHA1_F1(x, y, z)
      [] i \div 20 \in {1, 3} -> SHA1_F2(x, y, z)
      [] i \div 20 = 2 -> SHA1_F3(x, y, z)

K(i) == << Hex(\h5A82, \h7999), Hex(\h6ED9, \hEBA1),
           Hex(\h8F1B, \hBCDC), Hex(\hCA62, \hC1D6) >>[(i \div 20) + 1]

H0 == Hex(\h6745, \h2301)
H1 == Hex(\hEFCD, \hAB89)
H2 == Hex(\h98BA, \hDCFE)
H3 == Hex(\h1032, \h5476)
H4 == Hex(\hC3D2, \hE1F0)

-----------------------------------------------------------------------------
(* The code *)

(* The 14 words of the message with its 0x80, and the 64-bit length. *)
FirstWords(message) ==
    [i \in 0..15 |-> CASE i <= 13 -> message[i]
                       [] i = 14 -> {}
                       [] i = 15 -> Hex(0, 440)]

Sha1Init ==
    /\ form \in {"ring", "prold", "loops"}
    /\ data \in Messages
    /\ w = FirstWords(data)
    /\ a = H0 /\ b = H1 /\ c = H2 /\ d = H3 /\ e = H4
    /\ IF form = "loops" THEN pc = "expand" /\ t = 16
                         ELSE pc = "rounds" /\ t = 0
    /\ hash = <<>>

(* Where the word of round i is: the ring goes round at 16. *)
At(i) == IF form = "loops" THEN i ELSE i % 16

TapAt13(i) == Xor(Xor(w[At(i - 3)], w[At(i - 8)]),
                  Xor(w[At(i - 13)], w[At(i - 16)]))
Taps(i) == Xor(Xor(w[At(i - 3)], w[At(i - 8)]),
               Xor(w[At(i - 14)], w[At(i - 16)]))

(* The loops compute all 80 words before the first round. *)
Expand ==
    /\ pc = "expand"
    /\ w' = [i \in 0..t |-> IF i = t THEN ROTATE(Taps(t), 1) ELSE w[i]]
    /\ IF t = 79 THEN pc' = "rounds" /\ t' = 0
                 ELSE pc' = pc /\ t' = t + 1
    /\ UNCHANGED <<form, data, a, b, c, d, e, hash>>

(* The ring computes the word of a round just before it (SHA1_D), in the   *)
(* place of the word of 16 rounds ago.                                     *)
SHA1_D ==
    IF form # "loops" /\ t >= 16
    THEN [w EXCEPT ![At(t)] = ROTATE(Taps(t), 1)]
    ELSE w

SHA1_S(word) ==
    /\ a' = Plus(Plus(Plus(Plus(ROTATE(a, 5), F(t, b, c, d)), e), word), K(t))
    /\ b' = a
    /\ c' = ROTATE(b, 30)
    /\ d' = c
    /\ e' = d

Round ==
    /\ pc = "rounds"
    /\ t < 80
    /\ w' = SHA1_D
    /\ SHA1_S(w'[At(t)])
    /\ t' = t + 1
    /\ UNCHANGED <<form, data, pc, hash>>

Finish ==
    /\ pc = "rounds"
    /\ t = 80
    /\ hash' = << Plus(a, H0), Plus(b, H1), Plus(c, H2), Plus(d, H3), Plus(e, H4) >>
    /\ pc' = "done"
    /\ UNCHANGED <<form, data, w, a, b, c, d, e, t>>

Sha1Next == Expand \/ Round \/ Finish

Sha1Spec == Sha1Init /\ [][Sha1Next]_Sha1Vars

-----------------------------------------------------------------------------
(* The definition: RFC 3174, on bits counted from the first one of the     *)
(* message.                                                                *)

BitOf(message, k) == 31 - (k % 32) \in message[k \div 32]

(* The 440 bits of the message, a one, zeros, and its length in 64 bits. *)
Padded(message, k) ==
    \/ k < 440 /\ BitOf(message, k)
    \/ k = 440
    \/ k >= 448 /\ 511 - k \in Hex(0, 440)

BlockWord(message, j) == {i \in Bits : Padded(message, 32 * j + 31 - i)}

(* W(0) to W(79), as a sequence: Words[n] has the first n of them. *)
NextWord(W, n) == Prold(Xor(Xor(W[n - 3], W[n - 8]), Xor(W[n - 14], W[n - 16])), 1)

Schedule(message) ==
    LET Words[n \in 16..80] ==
            IF n = 16 THEN [j \in 1..16 |-> BlockWord(message, j - 1)]
                      ELSE LET W == Words[n - 1] IN Append(W, NextWord(W, n))
    IN  Words[80]

(* Choice, parity and majority of three words, bit by bit. *)
Mix(i, x, y, z) ==
    LET Ones(n) == (IF n \in x THEN 1 ELSE 0) + (IF n \in y THEN 1 ELSE 0)
                   + (IF n \in z THEN 1 ELSE 0)
    IN  {n \in Bits : CASE i < 20 -> IF n \in x THEN n \in y ELSE n \in z
                        [] i \in 40..59 -> Ones(n) >= 2
                        [] OTHER -> Ones(n) % 2 = 1}

(* Since b, c, d and e are earlier values of a, the rounds are one sequence *)
(* too, which begins with the initial state and ends with the final one.   *)
NextState(A, W, i) ==
    Plus(Plus(Prold(A[i + 5], 5), Prold(A[i + 1], 30)),
         Plus(Mix(i, A[i + 4], Prold(A[i + 3], 30), Prold(A[i + 2], 30)),
              Plus(W[i + 1], K(i))))

Rounds(W) ==
    LET States[n \in 0..80] ==
            IF n = 0 THEN <<Prold(H4, 2), Prold(H3, 2), Prold(H2, 2), H1, H0>>
                     ELSE LET A == States[n - 1] IN Append(A, NextState(A, W, n - 1))
    IN  States[80]

Digest(message) ==
    LET A == Rounds(Schedule(message))
    IN  << Plus(H0, A[85]), Plus(H1, A[84]), Plus(H2, Prold(A[83], 30)),
           Plus(H3, Prold(A[82], 30)), Plus(H4, Prold(A[81], 30)) >>

-----------------------------------------------------------------------------
(* Properties *)

(* Every form ends with the SHA-1 digest of the first 55 bytes of its      *)
(* data, so a coin one miner finds is a coin for save_coin and for every   *)
(* other miner (aad_sha1_cpu_tests.c compares with sha1sum).               *)
HashIsSha1 ==
    pc = "done" => hash = Digest(data)

(* No word of the ring is replaced before its last use: before a round the *)
(* 16 places hold the 16 youngest words of the schedule, and the loops     *)
(* have all of them.                                                       *)
WordsOfSchedule ==
    pc = "rounds" =>
        LET W == Schedule(data)
            newest == IF form = "loops" THEN 80 ELSE IF t < 16 THEN 16 ELSE t
            oldest == IF form = "loops" THEN 0 ELSE newest - 16
        IN  \A i \in oldest..(newest - 1) : w[At(i)] = W[i + 1]
=============================================================================
