---------------------------- MODULE MCCoinLayout ----------------------------
(* Bytes of base 6: 0, a newline (2), 0x80 (3) and the letters 1, 4 and 5. *)
EXTENDS CoinLayout

MCLetters == [k \in 0..11 |-> <<1, 4, 5, 4, 4, 1, 5, 5, 1, 4, 1, 5>>[k + 1]]

Filled(n) == [i \in 1..n |-> <<4, 5, 3, 1, 1>>[(i % 5) + 1]]

MCTexts == {Filled(n) : n \in {1, 4, 5, 24, 25, 27, 28, 29}} \cup {<<4, NL, 4>>}

(* The third has a newline: no coin of that time is good. *)
MCTimes == {<<1, 5, 0, 3>>, <<4, 0, 1, 1>>, <<1, 5, NL, 0>>}

(* The second is a low word that begins with a newline, the third is just  *)
(* before the low word wraps.                                              *)
MCOffsets == {0, 2 * ByteSize^3, WordSize - 16}

(* The low word wraps within a pass of mpi and of wasm_simd, for the last  *)
(* counter together with the 64 bits.                                      *)
MCAnyOffsets == {5, 3 * WordSize - 10, 2 * WordSize - 6, WordSize * WordSize - 6}
=============================================================================
