----------------------------- MODULE CoinProofs -----------------------------
(***************************************************************************)
(* What a miner hashes and what it gets.  First the hash: the three forms  *)
(* of SHA-1 (module Sha1) compute the digest of RFC 3174, for any          *)
(* messages.  Then the coin: every lane of every miner (module CoinLayout) *)
(* holds the coin of its counter, for any texts, times, first counters and *)
(* number of passes, and for bytes of any size.                            *)
(***************************************************************************)
EXTENDS Sha1, CoinLayout, SumTheorems, SequenceTheorems

-----------------------------------------------------------------------------
(* Words *)

LEMMA ConstantsAreWords ==
    /\ H0 \in Word32 /\ H1 \in Word32 /\ H2 \in Word32 /\ H3 \in Word32 /\ H4 \in Word32
    /\ \A i \in 0..79 : K(i) \in Word32
<1>1. \A hi, lo : Hex(hi, lo) \in Word32
  BY DEF Hex, Word32
<1>2. \A i \in 0..79 : i \div 20 \in 0..3
  OBVIOUS
<1>3. ASSUME NEW i \in 0..79 PROVE K(i) \in Word32
  <2>1. PICK q \in 0..3 : q = i \div 20
    BY <1>2
  <2> HIDE DEF Word32
  <2>2. K(i) = << Hex(\h5A82, \h7999), Hex(\h6ED9, \hEBA1),
                  Hex(\h8F1B, \hBCDC), Hex(\hCA62, \hC1D6) >>[q + 1]
    BY <2>1 DEF K
  <2>3. q = 0 \/ q = 1 \/ q = 2 \/ q = 3
    OBVIOUS
  <2> QED
    BY <1>1, <2>2, <2>3
<1> QED
  BY <1>1, <1>3 DEF H0, H1, H2, H3, H4

LEMMA PlusIsWord ==
    ASSUME NEW x, NEW y
    PROVE  Plus(x, y) \in Word32
BY DEF Plus, Word32

LEMMA XorIsWord ==
    ASSUME NEW x \in Word32, NEW y \in Word32
    PROVE  Xor(x, y) \in Word32
BY DEF Xor, Word32

LEMMA ProldIsWord ==
    ASSUME NEW x \in Word32, NEW n \in {1, 2, 5, 30}
    PROVE  Prold(x, n) \in Word32
BY DEF Prold, Word32, Bits

LEMMA MixIsWord ==
    ASSUME NEW i, NEW x, NEW y, NEW z
    PROVE  Mix(i, x, y, z) \in Word32
BY DEF Mix, Word32

(* Two shifts rotate. *)
LEMMA TwoShiftsRotate ==
    ASSUME NEW x \in Word32, NEW n \in {1, 5, 30}
    PROVE  TwoShifts(x, n) = Prold(x, n)
<1>1. \A i \in x : i \in 0..31
  BY DEF Word32, Bits
<1>2. \A i \in 0..31 : /\ i + n < 32 => (i + n) % 32 = i + n
                       /\ i + n >= 32 => (i + n) % 32 = i - (32 - n)
  OBVIOUS
<1>3. ASSUME NEW j PROVE j \in TwoShifts(x, n) <=> j \in Prold(x, n)
  <2>1. j \in TwoShifts(x, n) <=> \E i \in x : j \in 0..31 /\ (j = i + n \/ j = i - (32 - n))
    BY DEF TwoShifts, ShiftLeft, ShiftRight, Bits
  <2>2. j \in Prold(x, n) <=> \E i \in x : j = (i + n) % 32
    BY DEF Prold
  <2>3. ASSUME NEW i \in x
        PROVE  (j \in 0..31 /\ (j = i + n \/ j = i - (32 - n))) <=> j = (i + n) % 32
    BY <1>1, <1>2
  <2> QED
    BY <2>1, <2>2, <2>3
<1> QED
  BY <1>3

LEMMA RotateBack ==
    ASSUME NEW x \in Word32
    PROVE  Prold(Prold(x, 2), 30) = x
<1>1. \A i \in x : i \in 0..31
  BY DEF Word32, Bits
<1>2. \A i \in 0..31 : (((i + 2) % 32) + 30) % 32 = i
  OBVIOUS
<1>3. Prold(Prold(x, 2), 30) = {(((i + 2) % 32) + 30) % 32 : i \in x}
  BY DEF Prold
<1> QED
  BY <1>1, <1>2, <1>3

LEMMA RotateIsProld ==
    ASSUME NEW x \in Word32, NEW n \in {1, 5, 30}
    PROVE  ROTATE(x, n) = Prold(x, n)
BY TwoShiftsRotate DEF ROTATE

(* The three functions of the code are choice, parity and majority. *)
LEMMA FIsMix ==
    ASSUME NEW i \in 0..79, NEW x \in Word32, NEW y \in Word32, NEW z \in Word32
    PROVE  F(i, x, y, z) = Mix(i, x, y, z)
<1>1. /\ i \div 20 \in 0..3
      /\ i \div 20 = 0 <=> i < 20
      /\ i \div 20 = 2 <=> i \in 40..59
  OBVIOUS
<1> DEFINE Ones(n) == (IF n \in x THEN 1 ELSE 0) + (IF n \in y THEN 1 ELSE 0)
                      + (IF n \in z THEN 1 ELSE 0)
<1>2. \A n : Ones(n) \in 0..3 /\ (Ones(n) % 2 = 1 <=> Ones(n) \in {1, 3})
  OBVIOUS
<1>3. \A n : n \in x \cup y \cup z => n \in Bits
  BY DEF Word32
<1>4. ASSUME NEW n \in Bits
      PROVE  /\ n \in SHA1_F1(x, y, z) <=> IF n \in x THEN n \in y ELSE n \in z
             /\ n \in SHA1_F3(x, y, z) <=> Ones(n) >= 2
             /\ n \in SHA1_F2(x, y, z) <=> Ones(n) \in {1, 3}
  BY DEF SHA1_F1, SHA1_F2, SHA1_F3, Not, Xor
<1>5. SHA1_F1(x, y, z) \subseteq Bits /\ SHA1_F2(x, y, z) \subseteq Bits /\ SHA1_F3(x, y, z) \subseteq Bits
  BY <1>3 DEF SHA1_F1, SHA1_F2, SHA1_F3, Not, Xor
<1>6. Mix(i, x, y, z) = {n \in Bits : CASE i < 20 -> IF n \in x THEN n \in y ELSE n \in z
                                        [] i \in 40..59 -> Ones(n) >= 2
                                        [] OTHER -> Ones(n) % 2 = 1}
  BY DEF Mix
<1> HIDE DEF Ones
<1>7. CASE i < 20
  <2>1. F(i, x, y, z) = SHA1_F1(x, y, z)
    BY <1>1, <1>7 DEF F
  <2>2. i \notin 40..59
    BY <1>7
  <2> QED
    BY <1>4, <1>5, <1>6, <1>7, <2>1, <2>2
<1>8. CASE i \in 40..59
  <2>1. F(i, x, y, z) = SHA1_F3(x, y, z)
    BY <1>1, <1>8 DEF F
  <2>2. ~(i < 20)
    BY <1>8
  <2> QED
    BY <1>4, <1>5, <1>6, <1>8, <2>1, <2>2
<1>9. CASE ~(i < 20) /\ i \notin 40..59
  <2>1. F(i, x, y, z) = SHA1_F2(x, y, z)
    BY <1>1, <1>9 DEF F
  <2> QED
    BY <1>2, <1>4, <1>5, <1>6, <1>9, <2>1
<1> QED
  BY <1>7, <1>8, <1>9

-----------------------------------------------------------------------------
(* Sums of words *)

LEMMA CarryIn ==
    ASSUME NEW x, NEW y
    PROVE  /\ ~Carry(x, y, 0)
           /\ \A i \in Nat : Carry(x, y, i + 1) <=>
                 (i \in x /\ i \in y) \/ ((i \in x \/ i \in y) /\ Carry(x, y, i))
<1>1. ~Carry(x, y, 0)
  BY DEF Carry
<1>2. ASSUME NEW i \in Nat, Carry(x, y, i + 1)
      PROVE  (i \in x /\ i \in y) \/ ((i \in x \/ i \in y) /\ Carry(x, y, i))
  <2>1. PICK j \in 0..i : j \in x \cap y /\ (j + 1)..i \subseteq x \cup y
    BY <1>2 DEF Carry
  <2>2. CASE j = i
    BY <2>1, <2>2
  <2>3. CASE j # i
    <3>1. j \in 0..(i - 1) /\ i \in (j + 1)..i /\ (j + 1)..(i - 1) \subseteq (j + 1)..i
      BY <2>3
    <3>2. Carry(x, y, i)
      BY <2>1, <3>1 DEF Carry
    <3> QED
      BY <2>1, <3>1, <3>2
  <2> QED
    BY <2>2, <2>3
<1>3. ASSUME NEW i \in Nat, i \in x, i \in y
      PROVE  Carry(x, y, i + 1)
  <2>1. i \in 0..((i + 1) - 1) /\ (i + 1)..((i + 1) - 1) = {}
    OBVIOUS
  <2> QED
    BY <1>3, <2>1 DEF Carry
<1>4. ASSUME NEW i \in Nat, i \in x \/ i \in y, Carry(x, y, i)
      PROVE  Carry(x, y, i + 1)
  <2>1. PICK j \in 0..(i - 1) : j \in x \cap y /\ (j + 1)..(i - 1) \subseteq x \cup y
    BY <1>4 DEF Carry
  <2>2. j \in 0..((i + 1) - 1) /\ (j + 1)..((i + 1) - 1) = ((j + 1)..(i - 1)) \cup {i}
    OBVIOUS
  <2> QED
    BY <1>4, <2>1, <2>2 DEF Carry
<1> QED
  BY <1>1, <1>2, <1>3, <1>4

LEMMA PlusCommutes ==
    ASSUME NEW x, NEW y
    PROVE  Plus(x, y) = Plus(y, x)
<1>1. Xor(x, y) = Xor(y, x)
  BY DEF Xor
<1>2. \A i : Carry(x, y, i) <=> Carry(y, x, i)
  BY DEF Carry
<1> QED
  BY <1>1, <1>2 DEF Plus

LEMMA PlusBit ==
    ASSUME NEW x, NEW y, NEW i \in Bits
    PROVE  i \in Plus(x, y) <=> ((i \in x <=> i \in y) <=> Carry(x, y, i))
BY DEF Plus, Xor, Carry

(* The carries of two sums: as many in one order as in the other. *)
LEMMA SameCarries ==
    ASSUME NEW x, NEW y, NEW z, NEW i \in 0..32
    PROVE  LET p == Carry(x, y, i)
               q == Carry(Plus(x, y), z, i)
               r == Carry(y, z, i)
               s == Carry(x, Plus(y, z), i)
           IN  (p /\ q <=> r /\ s) /\ (p \/ q <=> r \/ s)
<1> DEFINE u == Plus(x, y)
           v == Plus(y, z)
           P(n) == /\ Carry(x, y, n) /\ Carry(u, z, n) <=> Carry(y, z, n) /\ Carry(x, v, n)
                   /\ Carry(x, y, n) \/ Carry(u, z, n) <=> Carry(y, z, n) \/ Carry(x, v, n)
           T == {n \in Nat : n <= 32 => P(n)}
<1>1. 0 \in T
  BY CarryIn
<1>2. ASSUME NEW n \in T PROVE n + 1 \in T
  <2>1. SUFFICES ASSUME n + 1 <= 32 PROVE P(n + 1)
    OBVIOUS
  <2>2. n \in Nat /\ n \in Bits /\ P(n)
    BY <2>1 DEF Bits
  <2>3. /\ n \in u <=> ((n \in x <=> n \in y) <=> Carry(x, y, n))
        /\ n \in v <=> ((n \in y <=> n \in z) <=> Carry(y, z, n))
    BY <2>2, PlusBit
  <2> HIDE DEF u, v
  <2>4. /\ Carry(x, y, n + 1) <=> (n \in x /\ n \in y) \/ ((n \in x \/ n \in y) /\ Carry(x, y, n))
        /\ Carry(u, z, n + 1) <=> (n \in u /\ n \in z) \/ ((n \in u \/ n \in z) /\ Carry(u, z, n))
        /\ Carry(y, z, n + 1) <=> (n \in y /\ n \in z) \/ ((n \in y \/ n \in z) /\ Carry(y, z, n))
        /\ Carry(x, v, n + 1) <=> (n \in x /\ n \in v) \/ ((n \in x \/ n \in v) /\ Carry(x, v, n))
    BY <2>2, CarryIn
  <2> QED
    BY <2>2, <2>3, <2>4
<1>3. T = Nat
  <2> HIDE DEF T
  <2>1. T \in SUBSET Nat
    BY DEF T
  <2> QED
    BY <1>1, <1>2, <2>1, NaturalsBySuccessor
<1>4. i \in T /\ i <= 32
  BY <1>3
<1> QED
  BY <1>4

LEMMA PlusAssociates ==
    ASSUME NEW x, NEW y, NEW z
    PROVE  Plus(Plus(x, y), z) = Plus(x, Plus(y, z))
<1> DEFINE u == Plus(x, y)
           v == Plus(y, z)
<1>1. ASSUME NEW i \in Bits PROVE i \in Plus(u, z) <=> i \in Plus(x, v)
  <2>1. i \in 0..32
    BY DEF Bits
  <2>2. /\ Carry(x, y, i) /\ Carry(u, z, i) <=> Carry(y, z, i) /\ Carry(x, v, i)
        /\ Carry(x, y, i) \/ Carry(u, z, i) <=> Carry(y, z, i) \/ Carry(x, v, i)
    BY <2>1, SameCarries
  <2>3. /\ i \in u <=> ((i \in x <=> i \in y) <=> Carry(x, y, i))
        /\ i \in v <=> ((i \in y <=> i \in z) <=> Carry(y, z, i))
    BY PlusBit
  <2> HIDE DEF u, v
  <2>4. /\ i \in Plus(u, z) <=> ((i \in u <=> i \in z) <=> Carry(u, z, i))
        /\ i \in Plus(x, v) <=> ((i \in x <=> i \in v) <=> Carry(x, v, i))
    BY PlusBit
  <2> QED
    BY <2>2, <2>3, <2>4
<1>2. Plus(u, z) \subseteq Bits /\ Plus(x, v) \subseteq Bits
  BY PlusIsWord DEF Word32
<1> HIDE DEF u, v
<1>3. Plus(u, z) = Plus(x, v)
  BY <1>1, <1>2
<1> QED
  BY <1>3 DEF u, v

(* The code adds five words from the left; the definition in pairs. *)
LEMMA FiveTerms ==
    ASSUME NEW p, NEW q, NEW r, NEW s, NEW u
    PROVE  Plus(Plus(Plus(Plus(p, q), r), s), u) = Plus(Plus(p, r), Plus(q, Plus(s, u)))
<1>1. Plus(Plus(p, q), r) = Plus(Plus(p, r), q)
  <2>1. Plus(Plus(p, q), r) = Plus(p, Plus(q, r))
    BY PlusAssociates
  <2>2. Plus(q, r) = Plus(r, q)
    BY PlusCommutes
  <2>3. Plus(Plus(p, r), q) = Plus(p, Plus(r, q))
    BY PlusAssociates
  <2> QED
    BY <2>1, <2>2, <2>3
<1> DEFINE y == Plus(p, r)
<1>2. Plus(Plus(Plus(y, q), s), u) = Plus(Plus(y, q), Plus(s, u))
  BY PlusAssociates
<1>3. Plus(Plus(y, q), Plus(s, u)) = Plus(y, Plus(q, Plus(s, u)))
  BY PlusAssociates
<1> QED
  BY <1>1, <1>2, <1>3

-----------------------------------------------------------------------------
(* The block *)

LEMMA BlockIsFirstWords ==
    ASSUME NEW m \in Messages, NEW j \in 0..15
    PROVE  BlockWord(m, j) = FirstWords(m)[j] /\ FirstWords(m)[j] \in Word32
<1>1. m \in [0..13 -> Word32] /\ m[13] \cap 0..7 = {7}
  BY MessagesAssumption
<1>2. FirstWords(m)[j] = IF j <= 13 THEN m[j] ELSE IF j = 14 THEN {} ELSE Hex(0, 440)
  <2>1. CASE j <= 13
    BY <2>1 DEF FirstWords
  <2>2. CASE j = 14
    BY <2>2 DEF FirstWords
  <2>3. CASE j = 15
    BY <2>3 DEF FirstWords
  <2> QED
    BY <2>1, <2>2, <2>3
<1>3. Hex(0, 440) \in Word32 /\ {} \in Word32
  BY DEF Hex, Word32
<1>4. FirstWords(m)[j] \in Word32
  BY <1>1, <1>2, <1>3
<1>5. ASSUME NEW i \in 0..31
      PROVE  Padded(m, 32 * j + 31 - i) <=> i \in FirstWords(m)[j]
  <2>1. PICK k \in 0..511 : k = 32 * j + 31 - i
    OBVIOUS
  <2>2. k \div 32 = j /\ k % 32 = 31 - i
    BY <2>1
  <2>3. BitOf(m, k) <=> i \in m[j]
    BY <2>2 DEF BitOf
  <2>4. Padded(m, k) <=> \/ k < 440 /\ i \in m[j]
                         \/ k = 440
                         \/ k >= 448 /\ 511 - k \in Hex(0, 440)
    BY <2>3 DEF Padded
  <2>5. CASE j < 13
    <3>1. k < 440
      BY <2>1, <2>5
    <3> QED
      BY <1>2, <2>1, <2>4, <2>5, <3>1
  <2>6. CASE j = 13
    <3>1. k < 448 /\ (k < 440 <=> i > 7) /\ (k = 440 <=> i = 7)
      BY <2>1, <2>6
    <3>2. i <= 7 => (i \in m[13] <=> i = 7)
      BY <1>1
    <3> QED
      BY <1>2, <2>1, <2>4, <2>6, <3>1, <3>2
  <2>7. CASE j = 14
    <3>1. k \in 448..479 /\ 511 - k > 31
      BY <2>1, <2>7
    <3>2. 511 - k \notin Hex(0, 440)
      BY <3>1 DEF Hex, Bits
    <3> QED
      BY <1>2, <2>1, <2>4, <2>7, <3>1, <3>2
  <2>8. CASE j = 15
    <3>1. k >= 480 /\ 511 - k = i
      BY <2>1, <2>8
    <3> QED
      BY <1>2, <2>1, <2>4, <2>8, <3>1
  <2> QED
    BY <2>5, <2>6, <2>7, <2>8
<1>6. BlockWord(m, j) = {i \in 0..31 : i \in FirstWords(m)[j]}
  BY <1>5 DEF BlockWord, Bits
<1>7. FirstWords(m)[j] \subseteq 0..31
  BY <1>4 DEF Word32, Bits
<1> QED
  BY <1>4, <1>6, <1>7

-----------------------------------------------------------------------------
(* The schedule *)

FirstBlock(m) == [j \in 1..16 |-> BlockWord(m, j - 1)]

(* f[n] has the first n words, for n up to k: the recursive function that  *)
(* Schedule stands for                                                     *)
Expands(f, m, k) ==
    f = [n \in 16..k |-> IF n = 16 THEN FirstBlock(m)
                         ELSE LET W == f[n - 1] IN Append(W, NextWord(W, n))]

LEMMA ScheduleIs ==
    ASSUME NEW m
    PROVE  Schedule(m) = (CHOOSE f : Expands(f, m, 80))[80]
BY DEF Schedule, Expands, FirstBlock

LEMMA ScheduleExists ==
    ASSUME NEW m
    PROVE  \E f : Expands(f, m, 80)
<1> DEFINE T == {k \in Nat : k >= 16 => \E f : Expands(f, m, k)}
<1>1. 0 \in T
  OBVIOUS
<1>2. ASSUME NEW k \in T PROVE k + 1 \in T
  <2>1. SUFFICES ASSUME k + 1 >= 16 PROVE \E f : Expands(f, m, k + 1)
    OBVIOUS
  <2>2. CASE k + 1 = 16
    <3>1. Expands([n \in 16..16 |-> FirstBlock(m)], m, 16)
      BY DEF Expands
    <3> QED
      BY <2>2, <3>1
  <2>3. CASE k >= 16
    <3>1. PICK g : Expands(g, m, k)
      BY <2>3
    <3> DEFINE next(f, n) == IF n = 16 THEN FirstBlock(m)
                             ELSE LET W == f[n - 1] IN Append(W, NextWord(W, n))
               h == [n \in 16..(k + 1) |-> next(g, n)]
    <3>2. \A n \in 16..k : n \in 16..(k + 1)
      OBVIOUS
    <3>3. g = [n \in 16..k |-> next(g, n)]
      BY <3>1 DEF Expands
    <3>4. \A n \in 16..k : h[n] = g[n]
      <4> HIDE DEF next
      <4>1. \A n \in 16..k : g[n] = next(g, n)
        BY <3>3
      <4> QED
        BY <3>2, <4>1
    <3>5. \A n \in 16..(k + 1) : n = 16 \/ n - 1 \in 16..k
      OBVIOUS
    <3>6. \A n \in 16..(k + 1) : next(g, n) = next(h, n)
      BY <3>4, <3>5
    <3>7. h = [n \in 16..(k + 1) |-> next(h, n)]
      <4> HIDE DEF next
      <4> QED
        BY <3>6
    <3>8. Expands(h, m, k + 1)
      BY <3>7 DEF Expands
    <3> QED
      BY <3>8
  <2> QED
    BY <2>1, <2>2, <2>3
<1>3. T = Nat
  <2> HIDE DEF T
  <2>1. T \in SUBSET Nat
    BY DEF T
  <2> QED
    BY <1>1, <1>2, <2>1, NaturalsBySuccessor
<1> QED
  BY <1>3

(* W is the beginning of the schedule, of n words *)
Known(W, m, n) ==
    /\ W \in [1..n -> Word32]
    /\ \A j \in 1..16 : W[j] = FirstWords(m)[j - 1]
    /\ \A j \in 17..n : W[j] = NextWord(W, j)

LEMMA BlockKnown ==
    ASSUME NEW m \in Messages
    PROVE  Known(FirstBlock(m), m, 16)
<1>1. \A j \in 1..16 : j - 1 \in 0..15
  OBVIOUS
<1>2. \A j \in 1..16 : BlockWord(m, j - 1) = FirstWords(m)[j - 1] /\ FirstWords(m)[j - 1] \in Word32
  BY <1>1, BlockIsFirstWords
<1> QED
  BY <1>2 DEF FirstBlock, Known

LEMMA Appended ==
    ASSUME NEW n \in Nat, NEW W \in [1..n -> Word32], NEW x \in Word32
    PROVE  /\ Append(W, x) \in [1..(n + 1) -> Word32]
           /\ Append(W, x)[n + 1] = x
           /\ \A j \in 1..n : Append(W, x)[j] = W[j]
<1>1. W \in Seq(Word32) /\ Len(W) = n
  OBVIOUS
<1>2. Append(W, x) \in Seq(Word32) /\ Len(Append(W, x)) = n + 1
  BY <1>1
<1>3. Append(W, x) \in [1..(n + 1) -> Word32]
  BY <1>2, LenProperties
<1>4. Append(W, x)[n + 1] = x /\ \A j \in 1..n : Append(W, x)[j] = W[j]
  BY <1>1
<1> QED
  BY <1>2, <1>3, <1>4

LEMMA OneMoreKnown ==
    ASSUME NEW m \in Messages, NEW n \in 16..79, NEW W, Known(W, m, n)
    PROVE  Known(Append(W, NextWord(W, n + 1)), m, n + 1)
<1> DEFINE x == NextWord(W, n + 1)
           V == Append(W, x)
<1>1. n \in Nat /\ W \in [1..n -> Word32]
  BY DEF Known
<1>2. x \in Word32
  <2>1. \A k \in {3, 8, 14, 16} : (n + 1) - k \in 1..n
    OBVIOUS
  <2>2. \A k \in {3, 8, 14, 16} : W[(n + 1) - k] \in Word32
    BY <1>1, <2>1
  <2> QED
    BY <2>2, XorIsWord, ProldIsWord DEF NextWord
<1> HIDE DEF x
<1>3. V \in [1..(n + 1) -> Word32] /\ V[n + 1] = x /\ \A j \in 1..n : V[j] = W[j]
  BY <1>1, <1>2, Appended
<1> HIDE DEF V
<1>4. \A j \in 17..(n + 1) : NextWord(V, j) = NextWord(W, j)
  <2>1. \A j \in 17..(n + 1) : \A k \in {3, 8, 14, 16} : j - k \in 1..n
    OBVIOUS
  <2> QED
    BY <1>3, <2>1 DEF NextWord
<1>5. ASSUME NEW j \in 17..(n + 1) PROVE V[j] = NextWord(V, j)
  <2>1. CASE j = n + 1
    BY <1>3, <1>4, <2>1 DEF x
  <2>2. CASE j # n + 1
    <3>1. j \in 17..n /\ j \in 1..n
      BY <2>2
    <3> QED
      BY <1>3, <1>4, <3>1 DEF Known
  <2> QED
    BY <2>1, <2>2
<1>6. \A j \in 1..16 : V[j] = FirstWords(m)[j - 1]
  <2>1. \A j \in 1..16 : j \in 1..n
    OBVIOUS
  <2>2. \A j \in 1..16 : W[j] = FirstWords(m)[j - 1]
    BY DEF Known
  <2> QED
    BY <1>3, <2>1, <2>2
<1>7. Known(V, m, n + 1)
  BY <1>3, <1>5, <1>6 DEF Known
<1> QED
  BY <1>7 DEF V, x

(* What the schedule is: the block, and then every word from four before.  *)
LEMMA ScheduleWords ==
    ASSUME NEW m \in Messages
    PROVE  Known(Schedule(m), m, 80)
<1>1. PICK f : Expands(f, m, 80) /\ Schedule(m) = f[80]
  BY ScheduleIs, ScheduleExists
<1>2. f[16] = FirstBlock(m)
  BY <1>1 DEF Expands
<1>3. ASSUME NEW n \in 16..79
      PROVE  f[n + 1] = Append(f[n], NextWord(f[n], n + 1))
  <2> DEFINE next(k) == IF k = 16 THEN FirstBlock(m)
                        ELSE LET W == f[k - 1] IN Append(W, NextWord(W, k))
  <2>1. n + 1 \in 16..80 /\ n + 1 # 16 /\ (n + 1) - 1 = n
    OBVIOUS
  <2>2. f = [k \in 16..80 |-> next(k)]
    BY <1>1 DEF Expands
  <2>3. f[n + 1] = next(n + 1)
    <3> HIDE DEF next
    <3> QED
      BY <2>1, <2>2
  <2> QED
    BY <2>1, <2>3
<1> DEFINE T == {n \in Nat : n \in 16..80 => Known(f[n], m, n)}
<1>4. 0 \in T
  OBVIOUS
<1>5. ASSUME NEW n \in T PROVE n + 1 \in T
  <2>1. n \in Nat /\ (n \in 16..80 => Known(f[n], m, n))
    OBVIOUS
  <2>2. SUFFICES ASSUME n + 1 \in 16..80 PROVE Known(f[n + 1], m, n + 1)
    BY <2>1
  <2>3. CASE n + 1 = 16
    BY <1>2, <2>3, BlockKnown
  <2>4. CASE n + 1 # 16
    <3>1. n \in 16..79 /\ Known(f[n], m, n)
      BY <2>1, <2>2, <2>4
    <3> QED
      BY <1>3, <3>1, OneMoreKnown
  <2> QED
    BY <2>3, <2>4
<1>6. T = Nat
  <2> HIDE DEF T
  <2>1. T \in SUBSET Nat
    BY DEF T
  <2> QED
    BY <1>4, <1>5, <2>1, NaturalsBySuccessor
<1>7. 80 \in T
  BY <1>6
<1> QED
  BY <1>1, <1>7

-----------------------------------------------------------------------------
(* The rounds of the definition *)

FirstState == <<Prold(H4, 2), Prold(H3, 2), Prold(H2, 2), H1, H0>>

(* f[n] is the sequence after n rounds: the recursive function behind Rounds *)
Computes(f, W, k) ==
    f = [n \in 0..k |-> IF n = 0 THEN FirstState
                        ELSE LET A == f[n - 1] IN Append(A, NextState(A, W, n - 1))]

LEMMA RoundsAre ==
    ASSUME NEW W
    PROVE  Rounds(W) = (CHOOSE f : Computes(f, W, 80))[80]
BY DEF Rounds, Computes, FirstState

LEMMA RoundsExist ==
    ASSUME NEW W
    PROVE  \E f : Computes(f, W, 80)
<1> DEFINE T == {k \in Nat : \E f : Computes(f, W, k)}
<1>1. 0 \in T
  <2>1. Computes([n \in 0..0 |-> FirstState], W, 0)
    BY DEF Computes
  <2> QED
    BY <2>1
<1>2. ASSUME NEW k \in T PROVE k + 1 \in T
  <2>1. PICK g : Computes(g, W, k)
    OBVIOUS
  <2> DEFINE next(f, n) == IF n = 0 THEN FirstState
                           ELSE LET A == f[n - 1] IN Append(A, NextState(A, W, n - 1))
             h == [n \in 0..(k + 1) |-> next(g, n)]
  <2>2. \A n \in 0..k : n \in 0..(k + 1)
    OBVIOUS
  <2>3. g = [n \in 0..k |-> next(g, n)]
    BY <2>1 DEF Computes
  <2>4. \A n \in 0..k : h[n] = g[n]
    <3> HIDE DEF next
    <3>1. \A n \in 0..k : g[n] = next(g, n)
      BY <2>3
    <3> QED
      BY <2>2, <3>1
  <2>5. \A n \in 0..(k + 1) : n = 0 \/ n - 1 \in 0..k
    OBVIOUS
  <2>6. \A n \in 0..(k + 1) : next(g, n) = next(h, n)
    BY <2>4, <2>5
  <2>7. h = [n \in 0..(k + 1) |-> next(h, n)]
    <3> HIDE DEF next
    <3> QED
      BY <2>6
  <2>8. Computes(h, W, k + 1)
    BY <2>7 DEF Computes
  <2> QED
    BY <2>8
<1>3. T = Nat
  <2> HIDE DEF T
  <2>1. T \in SUBSET Nat
    BY DEF T
  <2> QED
    BY <1>1, <1>2, <2>1, NaturalsBySuccessor
<1> QED
  BY <1>3

(* A is the sequence of the first n rounds *)
Computed(A, W, n) ==
    /\ A \in [1..(n + 5) -> Word32]
    /\ \A j \in 1..5 : A[j] = FirstState[j]
    /\ \A i \in 0..(n - 1) : A[i + 6] = NextState(A, W, i)

LEMMA FirstComputed ==
    ASSUME NEW W
    PROVE  Computed(FirstState, W, 0)
<1>1. \A x \in {H2, H3, H4} : Prold(x, 2) \in Word32
  BY ConstantsAreWords, ProldIsWord
<1>2. FirstState \in [1..5 -> Word32]
  <2> HIDE DEF Word32
  <2> QED
    BY <1>1, ConstantsAreWords DEF FirstState
<1>3. 0 + 5 = 5 /\ 0..(0 - 1) = {}
  OBVIOUS
<1> QED
  BY <1>2, <1>3 DEF Computed

LEMMA OneMoreRound ==
    ASSUME NEW n \in 0..79, NEW W, NEW A, Computed(A, W, n)
    PROVE  Computed(Append(A, NextState(A, W, n)), W, n + 1)
<1> DEFINE x == NextState(A, W, n)
           V == Append(A, x)
<1>1. PICK k \in Nat : k = n + 5
  OBVIOUS
<1>2. A \in [1..k -> Word32]
  BY <1>1 DEF Computed
<1>3. x \in Word32
  BY PlusIsWord DEF NextState
<1> HIDE DEF x
<1>4. V \in [1..(k + 1) -> Word32] /\ V[k + 1] = x /\ \A j \in 1..k : V[j] = A[j]
  BY <1>2, <1>3, Appended
<1> HIDE DEF V
<1>5. \A i \in 0..n : NextState(V, W, i) = NextState(A, W, i)
  <2>1. \A i \in 0..n : \A j \in 1..5 : i + j \in 1..k
    BY <1>1
  <2>2. ASSUME NEW i \in 0..n
        PROVE  /\ V[i + 1] = A[i + 1] /\ V[i + 2] = A[i + 2] /\ V[i + 3] = A[i + 3]
               /\ V[i + 4] = A[i + 4] /\ V[i + 5] = A[i + 5]
    BY <1>4, <2>1
  <2> QED
    BY <2>2 DEF NextState
<1>6. ASSUME NEW i \in 0..n PROVE V[i + 6] = NextState(V, W, i)
  <2>1. CASE i = n
    <3>1. i + 6 = k + 1
      BY <1>1, <2>1
    <3> QED
      BY <1>4, <1>5, <2>1, <3>1 DEF x
  <2>2. CASE i # n
    <3>1. i \in 0..(n - 1) /\ i + 6 \in 1..k
      BY <1>1, <2>2
    <3>2. A[i + 6] = NextState(A, W, i)
      BY <3>1 DEF Computed
    <3> QED
      BY <1>4, <1>5, <3>1, <3>2
  <2> QED
    BY <2>1, <2>2
<1>7. \A j \in 1..5 : V[j] = FirstState[j]
  <2>1. \A j \in 1..5 : j \in 1..k
    BY <1>1
  <2>2. \A j \in 1..5 : A[j] = FirstState[j]
    BY DEF Computed
  <2> QED
    BY <1>4, <2>1, <2>2
<1>8. k + 1 = (n + 1) + 5 /\ (n + 1) - 1 = n
  BY <1>1
<1>9. Computed(V, W, n + 1)
  BY <1>4, <1>6, <1>7, <1>8 DEF Computed
<1> QED
  BY <1>9 DEF V, x

LEMMA RoundsComputed ==
    ASSUME NEW W
    PROVE  Computed(Rounds(W), W, 80)
<1>1. PICK f : Computes(f, W, 80) /\ Rounds(W) = f[80]
  BY RoundsAre, RoundsExist
<1>2. f[0] = FirstState
  BY <1>1 DEF Computes
<1>3. ASSUME NEW n \in 0..79
      PROVE  f[n + 1] = Append(f[n], NextState(f[n], W, n))
  <2> DEFINE next(k) == IF k = 0 THEN FirstState
                        ELSE LET A == f[k - 1] IN Append(A, NextState(A, W, k - 1))
  <2>1. n + 1 \in 0..80 /\ n + 1 # 0 /\ (n + 1) - 1 = n
    OBVIOUS
  <2>2. f = [k \in 0..80 |-> next(k)]
    BY <1>1 DEF Computes
  <2>3. f[n + 1] = next(n + 1)
    <3> HIDE DEF next
    <3> QED
      BY <2>1, <2>2
  <2> QED
    BY <2>1, <2>3
<1> DEFINE T == {n \in Nat : n <= 80 => Computed(f[n], W, n)}
<1>4. 0 \in T
  BY <1>2, FirstComputed
<1>5. ASSUME NEW n \in T PROVE n + 1 \in T
  <2>1. n \in Nat /\ (n <= 80 => Computed(f[n], W, n))
    OBVIOUS
  <2>2. SUFFICES ASSUME n + 1 <= 80 PROVE Computed(f[n + 1], W, n + 1)
    BY <2>1
  <2>3. n \in 0..79 /\ Computed(f[n], W, n)
    BY <2>1, <2>2
  <2> QED
    BY <1>3, <2>3, OneMoreRound
<1>6. T = Nat
  <2> HIDE DEF T
  <2>1. T \in SUBSET Nat
    BY DEF T
  <2> QED
    BY <1>4, <1>5, <2>1, NaturalsBySuccessor
<1>7. 80 \in T
  BY <1>6
<1> QED
  BY <1>1, <1>7

-----------------------------------------------------------------------------
(* The code *)

(* The words that are there: all that are expanded so far, or the ring of  *)
(* the 16 youngest.                                                        *)
Newest == IF pc = "expand" THEN t
          ELSE IF form = "loops" THEN 80 ELSE IF t < 16 THEN 16 ELSE t
Oldest == IF form = "loops" THEN 0 ELSE Newest - 16

WordsInv ==
    /\ w \in [0..(IF form = "loops" THEN Newest - 1 ELSE 15) -> Word32]
    /\ \A i \in Oldest..(Newest - 1) : w[At(i)] = Schedule(data)[i + 1]

(* a to e after n rounds *)
StateAfter(n) ==
    LET A == Rounds(Schedule(data))
    IN  /\ a = A[n + 5] /\ b = A[n + 4]
        /\ c = Prold(A[n + 3], 30) /\ d = Prold(A[n + 2], 30) /\ e = Prold(A[n + 1], 30)

Sha1Inv ==
    /\ Sha1TypeOK
    /\ pc = "expand" => form = "loops" /\ t \in 16..79 /\ WordsInv /\ StateAfter(0)
    /\ pc = "rounds" => WordsInv /\ StateAfter(t)
    /\ pc = "done" => hash = Digest(data)

LEMMA ScheduleOfData ==
    ASSUME data \in Messages
    PROVE  /\ Schedule(data) \in [1..80 -> Word32]
           /\ \A i \in 0..15 : Schedule(data)[i + 1] = FirstWords(data)[i]
           /\ \A n \in 16..79 : Schedule(data)[n + 1] = NextWord(Schedule(data), n + 1)
<1>1. Known(Schedule(data), data, 80)
  BY ScheduleWords
<1>2. \A i \in 0..15 : i + 1 \in 1..16 /\ (i + 1) - 1 = i
  OBVIOUS
<1>3. \A n \in 16..79 : n + 1 \in 17..80
  OBVIOUS
<1> QED
  BY <1>1, <1>2, <1>3 DEF Known

LEMMA RoundsOfData ==
    LET A == Rounds(Schedule(data))
    IN  /\ A \in [1..85 -> Word32]
        /\ A[1] = Prold(H4, 2) /\ A[2] = Prold(H3, 2) /\ A[3] = Prold(H2, 2)
        /\ A[4] = H1 /\ A[5] = H0
        /\ \A n \in 0..79 : A[n + 6] = NextState(A, Schedule(data), n)
<1> DEFINE W == Schedule(data)
<1>1. Computed(Rounds(W), W, 80)
  <2> HIDE DEF W
  <2> QED
    BY RoundsComputed
<1>2. 80 + 5 = 85 /\ 80 - 1 = 79
  OBVIOUS
<1>3. \A j \in 1..5 : Rounds(W)[j] = FirstState[j]
  BY <1>1 DEF Computed
<1> QED
  BY <1>1, <1>2, <1>3 DEF Computed, FirstState

(* The first states of the definition are the constants, rotated back.     *)
LEMMA FirstStates ==
    ASSUME a = H0, b = H1, c = H2, d = H3, e = H4
    PROVE  StateAfter(0)
<1>1. Prold(Prold(H2, 2), 30) = H2 /\ Prold(Prold(H3, 2), 30) = H3 /\ Prold(Prold(H4, 2), 30) = H4
  BY RotateBack, ConstantsAreWords
<1>2. 0 + 5 = 5 /\ 0 + 4 = 4 /\ 0 + 3 = 3 /\ 0 + 2 = 2 /\ 0 + 1 = 1
  OBVIOUS
<1> QED
  BY <1>1, <1>2, RoundsOfData DEF StateAfter

LEMMA FirstWordsType ==
    ASSUME NEW m \in Messages
    PROVE  FirstWords(m) \in [0..15 -> Word32]
<1>1. \A j \in 0..15 : FirstWords(m)[j] \in Word32
  BY BlockIsFirstWords
<1> QED
  BY <1>1 DEF FirstWords

LEMMA InitSha1Inv == Sha1Init => Sha1Inv
<1> SUFFICES ASSUME Sha1Init PROVE Sha1Inv
  OBVIOUS
<1> USE DEF Sha1Init
<1>1. w \in [0..15 -> Word32] /\ 15 \in 15..79
  BY FirstWordsType
<1>2. Sha1TypeOK
  <2>1. t \in 0..80
    OBVIOUS
  <2>2. {a, b, c, d, e} \subseteq Word32
    BY ConstantsAreWords
  <2> HIDE DEF Word32
  <2> QED
    BY <1>1, <2>1, <2>2 DEF Sha1TypeOK
<1>3. StateAfter(0)
  BY FirstStates
<1>4. Newest = 16 /\ Oldest = 0
  BY DEF Newest, Oldest
<1>5. \A i \in 0..15 : At(i) = i
  BY DEF At
<1>6. WordsInv
  BY <1>1, <1>4, <1>5, ScheduleOfData DEF WordsInv
<1>7. pc = "expand" => t = 16
  OBVIOUS
<1>8. pc = "rounds" => t = 0
  OBVIOUS
<1> QED
  BY <1>2, <1>3, <1>6, <1>7, <1>8 DEF Sha1Inv

(* The next word, from the words that are there.                           *)
LEMMA TapsAreNext ==
    ASSUME Sha1Inv, pc = "expand" \/ (pc = "rounds" /\ form # "loops"), t \in 16..79
    PROVE  /\ ROTATE(Taps(t), 1) = Schedule(data)[t + 1]
           /\ ROTATE(Taps(t), 1) \in Word32
<1> DEFINE W == Schedule(data)
<1>1. data \in Messages /\ WordsInv
  BY DEF Sha1Inv, Sha1TypeOK
<1>2. PICK n \in 16..79 : n = t
  OBVIOUS
<1>3. Newest = n /\ Oldest <= n - 16 /\ Oldest \in Int
  BY <1>2 DEF Newest, Oldest, Sha1Inv
<1>4. \A k \in {3, 8, 14, 16} : n - k \in Oldest..(Newest - 1)
  BY <1>2, <1>3
<1>5. \A k \in {3, 8, 14, 16} : w[At(n - k)] = W[(n - k) + 1]
  BY <1>1, <1>4 DEF WordsInv
<1>6. \A k \in {3, 8, 14, 16} : (n - k) + 1 \in 1..80 /\ (n - k) + 1 = (n + 1) - k
  OBVIOUS
<1>7. \A k \in {3, 8, 14, 16} : W[(n + 1) - k] \in Word32
  BY <1>1, <1>6, ScheduleOfData
<1> DEFINE x == Xor(Xor(W[(n + 1) - 3], W[(n + 1) - 8]), Xor(W[(n + 1) - 14], W[(n + 1) - 16]))
<1>8. Taps(n) = x
  BY <1>5, <1>6 DEF Taps
<1>9. x \in Word32
  <2> HIDE DEF W
  <2> QED
    BY <1>7, XorIsWord
<1>10. NextWord(W, n + 1) = Prold(x, 1)
  BY DEF NextWord
<1>11. W[n + 1] = NextWord(W, n + 1)
  BY <1>1, ScheduleOfData
<1> HIDE DEF x, W
<1>12. ROTATE(x, 1) = Prold(x, 1) /\ Prold(x, 1) \in Word32
  BY <1>9, RotateIsProld, ProldIsWord
<1> QED
  BY <1>2, <1>8, <1>10, <1>11, <1>12 DEF W

LEMMA ExpandKeepsSha1 == Sha1Inv /\ Expand => Sha1Inv'
<1> SUFFICES ASSUME Sha1Inv, Expand PROVE Sha1Inv'
  OBVIOUS
<1>1. pc = "expand" /\ form = "loops" /\ t \in 16..79 /\ WordsInv /\ StateAfter(0)
  BY DEF Expand, Sha1Inv
<1> DEFINE x == ROTATE(Taps(t), 1)
<1>2. x = Schedule(data)[t + 1] /\ x \in Word32
  BY <1>1, TapsAreNext
<1> HIDE DEF x
<1>3. w' = [i \in 0..t |-> IF i = t THEN x ELSE w[i]]
  BY DEF Expand, x
<1>4. UNCHANGED <<form, data, a, b, c, d, e, hash>>
  BY DEF Expand
<1>5. w \in [0..(t - 1) -> Word32] /\ \A i \in 0..(t - 1) : w[i] = Schedule(data)[i + 1]
  <2>1. Newest = t /\ Oldest = 0
    BY <1>1 DEF Newest, Oldest
  <2>2. \A i : At(i) = i
    BY <1>1 DEF At
  <2> QED
    BY <1>1, <2>1, <2>2 DEF WordsInv
<1>6. w' \in [0..t -> Word32] /\ \A i \in 0..t : w'[i] = Schedule(data)[i + 1]
  <2>1. \A i \in 0..t : i = t \/ i \in 0..(t - 1)
    BY <1>1
  <2> QED
    BY <1>2, <1>3, <1>5, <2>1
<1>7. /\ pc' \in {"expand", "rounds"} /\ t' \in 0..80
      /\ pc' = "expand" => t' \in 16..79 /\ t' = t + 1
      /\ pc' = "rounds" => t = 79 /\ t' = 0
  <2>1. PICK k \in 16..79 : k = t
    BY <1>1
  <2>2. CASE k = 79
    BY <2>1, <2>2 DEF Expand
  <2>3. CASE k # 79
    <3>1. pc' = "expand" /\ t' = k + 1 /\ k + 1 \in 16..79 /\ k + 1 \in 0..80
      BY <1>1, <2>1, <2>3 DEF Expand
    <3> QED
      BY <2>1, <3>1
  <2> QED
    BY <2>2, <2>3
<1>8. Newest' - 1 = t /\ Oldest' = 0
  <2>1. PICK k \in 16..79 : k = t
    BY <1>1
  <2>2. form' = "loops"
    BY <1>1, <1>4
  <2>3. Oldest' = 0
    BY <2>2 DEF Oldest
  <2>4. CASE pc' = "expand"
    <3>1. Newest' = k + 1
      BY <1>7, <2>1, <2>4 DEF Newest
    <3> QED
      BY <2>1, <2>3, <3>1
  <2>5. CASE pc' = "rounds"
    <3>1. Newest' = 80 /\ k = 79
      BY <1>7, <2>1, <2>2, <2>5 DEF Newest
    <3> QED
      BY <2>1, <2>3, <3>1
  <2> QED
    BY <1>7, <2>4, <2>5
<1>9. WordsInv'
  <2>1. \A i : At(i)' = i
    BY <1>1, <1>4 DEF At
  <2> QED
    BY <1>1, <1>4, <1>6, <1>8, <2>1 DEF WordsInv
<1>10. StateAfter(0)'
  BY <1>1, <1>4 DEF StateAfter
<1>11. Sha1TypeOK'
  <2>1. t \in 15..79
    BY <1>1
  <2> HIDE DEF Word32
  <2> QED
    BY <1>4, <1>6, <1>7, <2>1 DEF Sha1Inv, Sha1TypeOK
<1> QED
  BY <1>1, <1>4, <1>7, <1>9, <1>10, <1>11 DEF Sha1Inv

(* The ring: the new word takes the place of the oldest one only.          *)
LEMMA RoundKeepsWords ==
    ASSUME Sha1Inv, Round
    PROVE  /\ WordsInv'
           /\ w'[At(t)] = Schedule(data)[t + 1] /\ w'[At(t)] \in Word32
           /\ \E n \in 15..79 : w' \in [0..n -> Word32]
<1>1. PICK n \in 0..79 : n = t
  BY DEF Round, Sha1Inv, Sha1TypeOK
<1>2. pc = "rounds" /\ WordsInv /\ data \in Messages /\ UNCHANGED <<form, data, pc>> /\ t' = n + 1
  BY <1>1 DEF Round, Sha1Inv, Sha1TypeOK
<1> DEFINE W == Schedule(data)
<1>3. W[n + 1] \in Word32
  <2>1. n + 1 \in 1..80
    OBVIOUS
  <2> QED
    BY <1>2, <2>1, ScheduleOfData
<1>4. CASE form = "loops"
  <2>1. w' = w
    BY <1>4 DEF Round, SHA1_D
  <2>2. Newest = 80 /\ Oldest = 0 /\ Newest' = 80 /\ Oldest' = 0
    BY <1>2, <1>4 DEF Newest, Oldest
  <2>3. \A i : At(i) = i /\ At(i)' = i
    BY <1>2, <1>4 DEF At
  <2>4. WordsInv'
    BY <1>2, <1>4, <2>1, <2>2, <2>3 DEF WordsInv
  <2>5. w[n] = W[n + 1]
    <3>1. n \in Oldest..(Newest - 1)
      BY <2>2
    <3>2. w[At(n)] = W[n + 1]
      BY <1>2, <3>1 DEF WordsInv
    <3> QED
      BY <2>3, <3>2
  <2>6. w \in [0..79 -> Word32] /\ 79 \in 15..79
    BY <1>2, <1>4, <2>2 DEF WordsInv
  <2> QED
    BY <1>1, <1>3, <2>1, <2>3, <2>4, <2>5, <2>6
<1>5. CASE form # "loops" /\ n < 16
  <2>1. w' = w
    BY <1>1, <1>5 DEF Round, SHA1_D
  <2>2. Newest = 16 /\ Oldest = 0 /\ Newest' = 16 /\ Oldest' = 0
    BY <1>1, <1>2, <1>5 DEF Newest, Oldest
  <2>3. \A i : At(i) = i % 16 /\ At(i)' = i % 16
    BY <1>2, <1>5 DEF At
  <2>4. WordsInv'
    BY <1>2, <1>5, <2>1, <2>2, <2>3 DEF WordsInv
  <2>5. w[n % 16] = W[n + 1]
    BY <1>2, <1>5, <2>2, <2>3 DEF WordsInv
  <2>6. w \in [0..15 -> Word32] /\ 15 \in 15..79
    BY <1>2, <1>5 DEF WordsInv
  <2> QED
    BY <1>1, <1>3, <2>1, <2>3, <2>4, <2>5, <2>6
<1>6. CASE form # "loops" /\ n >= 16
  <2> DEFINE x == ROTATE(Taps(t), 1)
  <2>1. x = W[n + 1]
    BY <1>1, <1>2, <1>6, TapsAreNext
  <2> HIDE DEF x
  <2>2. \A i : At(i) = i % 16 /\ At(i)' = i % 16
    BY <1>2, <1>6 DEF At
  <2>3. w' = [w EXCEPT ![n % 16] = x]
    BY <1>1, <1>6, <2>2 DEF Round, SHA1_D, x
  <2>4. Newest = n /\ Oldest = n - 16 /\ Newest' = n + 1 /\ Oldest' = n - 15
    BY <1>1, <1>2, <1>6 DEF Newest, Oldest
  <2>5. w \in [0..15 -> Word32] /\ \A i \in (n - 16)..(n - 1) : w[i % 16] = W[i + 1]
    BY <1>2, <1>6, <2>2, <2>4 DEF WordsInv
  <2>6. n % 16 \in 0..15 /\ \A i \in (n - 15)..(n - 1) : i % 16 \in 0..15 /\ i % 16 # n % 16
    OBVIOUS
  <2>7. w' \in [0..15 -> Word32] /\ 15 \in 15..79
    BY <1>3, <2>1, <2>3, <2>5
  <2>8. w'[n % 16] = W[n + 1]
    BY <2>1, <2>3, <2>5, <2>6
  <2>9. ASSUME NEW i \in (n - 15)..n PROVE w'[i % 16] = W[i + 1]
    <3>1. CASE i = n
      BY <2>8, <3>1
    <3>2. CASE i # n
      <4>1. i \in (n - 15)..(n - 1) /\ i \in (n - 16)..(n - 1)
        BY <3>2
      <4> QED
        BY <2>3, <2>5, <2>6, <4>1
    <3> QED
      BY <3>1, <3>2
  <2>10. Newest' - 1 = n
    BY <2>4
  <2>11. WordsInv'
    BY <1>2, <1>6, <2>2, <2>4, <2>7, <2>9, <2>10 DEF WordsInv
  <2> QED
    BY <1>1, <1>3, <2>2, <2>7, <2>8, <2>11
<1> QED
  BY <1>4, <1>5, <1>6

(* One round of the code is one of the definition.                         *)
LEMMA RoundKeepsState ==
    ASSUME Sha1Inv, Round
    PROVE  StateAfter(t)' /\ {a, b, c, d, e}' \subseteq Word32
<1>1. PICK n \in 0..79 : n = t
  BY DEF Round, Sha1Inv, Sha1TypeOK
<1> DEFINE W == Schedule(data)
           A == Rounds(W)
<1>2. /\ a = A[n + 5] /\ b = A[n + 4]
      /\ c = Prold(A[n + 3], 30) /\ d = Prold(A[n + 2], 30) /\ e = Prold(A[n + 1], 30)
  BY <1>1 DEF Round, Sha1Inv, StateAfter
<1>3. a \in Word32 /\ b \in Word32 /\ c \in Word32 /\ d \in Word32 /\ e \in Word32
  BY DEF Sha1Inv, Sha1TypeOK
<1>4. data' = data /\ t' = n + 1
  BY <1>1 DEF Round
<1>5. w'[At(t)] = W[n + 1]
  BY <1>1, RoundKeepsWords
<1> DEFINE x == ROTATE(a, 5)
           y == F(n, b, c, d)
<1>6. /\ a' = Plus(Plus(Plus(Plus(x, y), e), W[n + 1]), K(n))
      /\ b' = a /\ c' = ROTATE(b, 30) /\ d' = c /\ e' = d
  BY <1>1, <1>5 DEF Round, SHA1_S
<1>7. x = Prold(A[n + 5], 5)
  BY <1>2, <1>3, RotateIsProld
<1>8. y = Mix(n, A[n + 4], Prold(A[n + 3], 30), Prold(A[n + 2], 30))
  <2>1. y = Mix(n, b, c, d)
    BY <1>3, FIsMix
  <2> QED
    BY <1>2, <2>1
<1>9. c' = Prold(A[n + 4], 30) /\ c' \in Word32
  BY <1>2, <1>3, <1>6, RotateIsProld, ProldIsWord
<1> HIDE DEF x, y, W
<1>10. a' = Plus(Plus(x, e), Plus(y, Plus(W[n + 1], K(n))))
  BY <1>6, FiveTerms
<1>11. a' = NextState(A, W, n)
  BY <1>2, <1>7, <1>8, <1>10 DEF NextState
<1>12. a' = A[n + 6]
  BY <1>11, RoundsOfData DEF W
<1>13. a' \in Word32
  BY <1>6, PlusIsWord
<1>14. A' = A
  BY <1>4 DEF W
<1>15. /\ (n + 1) + 5 = n + 6 /\ (n + 1) + 4 = n + 5 /\ (n + 1) + 3 = n + 4
       /\ (n + 1) + 2 = n + 3 /\ (n + 1) + 1 = n + 2
  OBVIOUS
<1>16. StateAfter(t)'
  <2>1. /\ a' = A[t' + 5] /\ b' = A[t' + 4]
        /\ c' = Prold(A[t' + 3], 30) /\ d' = Prold(A[t' + 2], 30) /\ e' = Prold(A[t' + 1], 30)
    BY <1>2, <1>4, <1>6, <1>9, <1>12, <1>15
  <2> QED
    BY <1>4, <2>1 DEF StateAfter, W
<1> QED
  BY <1>3, <1>6, <1>9, <1>13, <1>16

LEMMA RoundKeepsSha1 == Sha1Inv /\ Round => Sha1Inv'
<1> SUFFICES ASSUME Sha1Inv, Round PROVE Sha1Inv'
  OBVIOUS
<1>1. WordsInv' /\ \E n \in 15..79 : w' \in [0..n -> Word32]
  BY RoundKeepsWords
<1>2. StateAfter(t)' /\ {a, b, c, d, e}' \subseteq Word32
  BY RoundKeepsState
<1>3. pc = "rounds" /\ pc' = "rounds" /\ UNCHANGED <<form, data, hash>> /\ t' \in 0..80
  BY DEF Round, Sha1Inv, Sha1TypeOK
<1>4. Sha1TypeOK'
  <2> HIDE DEF Word32
  <2> QED
    BY <1>1, <1>2, <1>3 DEF Sha1Inv, Sha1TypeOK
<1> QED
  BY <1>1, <1>2, <1>3, <1>4 DEF Sha1Inv

LEMMA FinishKeepsSha1 == Sha1Inv /\ Finish => Sha1Inv'
<1> SUFFICES ASSUME Sha1Inv, Finish PROVE Sha1Inv'
  OBVIOUS
<1> DEFINE A == Rounds(Schedule(data))
<1>1. t = 80 /\ pc' = "done" /\ UNCHANGED <<form, data, w, a, b, c, d, e, t>>
  BY DEF Finish
<1>2. StateAfter(80)
  BY DEF Finish, Sha1Inv
<1>3. /\ 80 + 5 = 85 /\ 80 + 4 = 84 /\ 80 + 3 = 83 /\ 80 + 2 = 82 /\ 80 + 1 = 81
  OBVIOUS
<1>4. /\ a = A[85] /\ b = A[84]
      /\ c = Prold(A[83], 30) /\ d = Prold(A[82], 30) /\ e = Prold(A[81], 30)
  BY <1>2, <1>3 DEF StateAfter
<1>5. /\ Plus(a, H0) = Plus(H0, a) /\ Plus(b, H1) = Plus(H1, b) /\ Plus(c, H2) = Plus(H2, c)
      /\ Plus(d, H3) = Plus(H3, d) /\ Plus(e, H4) = Plus(H4, e)
  BY PlusCommutes
<1>6. hash' = << Plus(H0, a), Plus(H1, b), Plus(H2, c), Plus(H3, d), Plus(H4, e) >>
  BY <1>5 DEF Finish
<1>7. hash' = Digest(data)
  BY <1>4, <1>6 DEF Digest
<1>8. hash' \in [1..5 -> Word32]
  BY <1>6, PlusIsWord
<1>9. Sha1TypeOK'
  <2> HIDE DEF Word32
  <2> QED
    BY <1>1, <1>8 DEF Sha1Inv, Sha1TypeOK
<1> QED
  BY <1>1, <1>7, <1>9 DEF Sha1Inv

LEMMA NextSha1Inv == Sha1Inv /\ [Sha1Next]_Sha1Vars => Sha1Inv'
<1> SUFFICES ASSUME Sha1Inv, [Sha1Next]_Sha1Vars PROVE Sha1Inv'
  OBVIOUS
<1>1. CASE Expand
  BY <1>1, ExpandKeepsSha1
<1>2. CASE Round
  BY <1>2, RoundKeepsSha1
<1>3. CASE Finish
  BY <1>3, FinishKeepsSha1
<1>4. CASE UNCHANGED Sha1Vars
  BY <1>4 DEF Sha1Vars, Sha1Inv, Sha1TypeOK, WordsInv, StateAfter, Newest, Oldest, At
<1> QED
  BY <1>1, <1>2, <1>3, <1>4 DEF Sha1Next

(* The invariant of the hash: which words of the schedule are kept, and    *)
(* that a to e are five neighbours of the recurrence.                      *)
THEOREM Sha1Invariant == Sha1Spec => []Sha1Inv
<1> QED
  BY InitSha1Inv, NextSha1Inv, PTL DEF Sha1Spec

(* Words stay words and rounds are counted to 80, in every form.           *)
THEOREM Sha1TypeCorrect == Sha1Spec => []Sha1TypeOK
<1>1. Sha1Inv => Sha1TypeOK
  BY DEF Sha1Inv
<1> QED
  BY <1>1, Sha1Invariant, PTL

(* The words before each round are those of the schedule: WordsOfSchedule. *)
THEOREM RingHoldsTheSchedule == Sha1Spec => []WordsOfSchedule
<1>1. Sha1Inv => WordsOfSchedule
  BY DEF Sha1Inv, WordsInv, Newest, Oldest, WordsOfSchedule
<1> QED
  BY <1>1, Sha1Invariant, PTL

(* The hash of every message is the one of the definition: HashIsSha1.     *)
THEOREM EveryHashIsSha1 == Sha1Spec => []HashIsSha1
<1>1. Sha1Inv => HashIsSha1
  BY DEF Sha1Inv, HashIsSha1
<1> QED
  BY <1>1, Sha1Invariant, PTL

-----------------------------------------------------------------------------
(* Quotients and remainders of the counter *)

(* A digit of a remainder is a digit of the number. *)
Product(m, p, q, r) == m = p * (q * r)

LEMMA DigitOfRemainder ==
    ASSUME NEW n \in Nat, NEW p \in Nat \ {0}, NEW q \in Nat \ {0}, NEW r \in Nat \ {0},
           NEW m \in Nat \ {0}, Product(m, p, q, r)
    PROVE  ((n % m) \div p) % q = (n \div p) % q
<1>1. PICK u \in Int, x \in 0..(m - 1) : n = u * m + x /\ x = n % m
  BY QuotientAndRemainder
<1>2. PICK v \in Int, y \in 0..(p - 1) : x = v * p + y /\ v = x \div p
  OBVIOUS
<1>3. PICK h \in Int : h = (u * r) * q
  OBVIOUS
<1>4. u * m = h * p
  <2>1. u * (p * (q * r)) = ((u * r) * q) * p
    OBVIOUS
  <2> QED
    BY <1>3, <2>1 DEF Product
<1>5. PICK s \in Int : s = h + v
  OBVIOUS
<1>5a. n = s * p + y
  <2>1. PICK g1 \in Int, g2 \in Int : g1 = h * p /\ g2 = v * p
    OBVIOUS
  <2>2. (h + v) * p = h * p + v * p
    OBVIOUS
  <2>3. s * p = g1 + g2
    BY <1>5, <2>1, <2>2
  <2>4. n = g1 + (g2 + y)
    BY <1>1, <1>2, <1>4, <2>1
  <2>5. y \in Int
    OBVIOUS
  <2> QED
    BY <2>3, <2>4, <2>5
<1>6. n \div p = h + v
  BY <1>5, <1>5a, QuotientOf
<1>7. PICK g \in Int, z \in 0..(q - 1) : v = g * q + z /\ z = v % q
  <2>1. x \in Nat
    OBVIOUS
  <2>2. v \in Nat
    BY <1>2, <2>1, NaturalQuotient
  <2> QED
    BY <2>2, QuotientAndRemainder
<1>8. h + v = (u * r + g) * q + z
  <2>1. PICK k \in Int : k = u * r
    OBVIOUS
  <2>2. (k + g) * q = k * q + g * q
    OBVIOUS
  <2>3. k * q \in Int /\ g * q \in Int
    OBVIOUS
  <2> QED
    BY <1>3, <1>7, <2>1, <2>2, <2>3
<1>9. h + v \in Nat
  BY <1>6, NaturalQuotient
<1>10. (h + v) % q = z
  <2>1. u * r + g \in Int
    OBVIOUS
  <2> QED
    BY <1>8, <1>9, <2>1, RemainderOf
<1> QED
  BY <1>1, <1>2, <1>6, <1>7, <1>10

LEMMA Sizes ==
    /\ ByteSize \in Nat \ {0} /\ 1 < ByteSize /\ WordSize \in Nat \ {0} /\ WordSize % 16 = 0
    /\ \A j \in 1..4 : /\ Weights[j] \in Nat \ {0}
                       /\ \E r \in Nat \ {0} : WordSize = Weights[j] * (ByteSize * r)
<1>1. ByteSize \in Nat \ {0} /\ 1 < ByteSize /\ WordSize % 16 = 0
  BY BytesAssumption, OffsetsAssumption
<1>2. PICK x \in Nat \ {0} : x = ByteSize
  BY <1>1
<1>3. PICK y \in Nat \ {0} : y = x * x
  OBVIOUS
<1>4. PICK z \in Nat \ {0} : z = x * x * x
  OBVIOUS
<1>5. PICK h \in Nat \ {0} : h = x * x * x * x
  OBVIOUS
<1>6. h = z * (x * 1) /\ h = y * (x * x) /\ h = x * (x * y) /\ h = 1 * (x * z)
  BY <1>3, <1>4, <1>5
<1>7. WordSize = h
  BY <1>2, <1>5 DEF WordSize
<1>8. Weights = <<z, y, x, 1>>
  BY <1>2, <1>3, <1>4 DEF Weights
<1>9. ASSUME NEW j \in 1..4
      PROVE  /\ Weights[j] \in Nat \ {0}
             /\ \E r \in Nat \ {0} : WordSize = Weights[j] * (ByteSize * r)
  <2>1. CASE j = 1
    BY <1>2, <1>6, <1>7, <1>8, <2>1
  <2>2. CASE j = 2
    BY <1>2, <1>6, <1>7, <1>8, <2>2
  <2>3. CASE j = 3
    BY <1>2, <1>6, <1>7, <1>8, <2>3
  <2>4. CASE j = 4
    BY <1>2, <1>6, <1>7, <1>8, <2>4
  <2> QED
    BY <2>1, <2>2, <2>3, <2>4
<1> QED
  BY <1>1, <1>7, <1>9

LEMMA DigitsAreWord ==
    ASSUME NEW n \in Nat
    PROVE  Digits(n) \in Word
<1>1. ASSUME NEW j \in 1..4 PROVE (n \div Weights[j]) % ByteSize \in Byte
  <2>1. PICK p \in Nat \ {0} : p = Weights[j]
    BY Sizes
  <2>2. n \div p \in Nat
    BY NaturalQuotient
  <2>3. PICK q \in Nat \ {0} : q = ByteSize
    BY Sizes
  <2>4. (n \div p) % q \in 0..(q - 1)
    BY <2>2
  <2> QED
    BY <2>1, <2>3, <2>4 DEF Byte
<1> QED
  BY <1>1 DEF Digits, Word

(* The low word: the four lowest digits. *)
LEMMA LowDigits ==
    ASSUME NEW n \in Nat, NEW j \in 1..4
    PROVE  Low(n)[j] = (n \div Weights[j]) % ByteSize
<1>1. PICK p \in Nat \ {0}, r \in Nat \ {0} : p = Weights[j] /\ WordSize = p * (ByteSize * r)
  BY Sizes
<1>2. ((n % WordSize) \div p) % ByteSize = (n \div p) % ByteSize
  <2>1. PICK m \in Nat \ {0}, q \in Nat \ {0} : m = WordSize /\ q = ByteSize
    BY Sizes
  <2>2. Product(m, p, q, r)
    BY <1>1, <2>1 DEF Product
  <2>3. ((n % m) \div p) % q = (n \div p) % q
    BY <2>2, DigitOfRemainder
  <2> QED
    BY <2>1, <2>3
<1> QED
  BY <1>1, <1>2 DEF Low, Digits

LEMMA HighDigits ==
    ASSUME NEW n \in Nat, NEW j \in 1..4
    PROVE  High(n)[j] = ((n \div WordSize) \div Weights[j]) % ByteSize
<1>1. PICK k \in Nat : k = n \div WordSize
  BY Sizes, NaturalQuotient
<1>2. Low(k)[j] = (k \div Weights[j]) % ByteSize
  BY LowDigits
<1> QED
  BY <1>1, <1>2 DEF Low, High

LEMMA CountersAreWords ==
    ASSUME NEW n \in Nat
    PROVE  Low(n) \in Word /\ High(n) \in Word
<1>1. n % WordSize \in Nat
  BY Sizes
<1>2. n \div WordSize \in Nat
  BY Sizes, NaturalQuotient
<1>3. (n \div WordSize) % WordSize \in Nat
  BY <1>2, Sizes
<1> QED
  BY <1>1, <1>3, DigitsAreWord DEF Low, High

LEMMA LaneCounts ==
    /\ \A m \in DOMAIN Lanes : Lanes[m] \in Nat \ {0}
    /\ \A m \in SimdMiners : m \in DOMAIN Lanes /\ Lanes[m] \in {4, 8, 16}
    /\ Lanes["scalar"] = 1 /\ Lanes["wasm"] = 1
    /\ Lanes["mpi"] = 8 /\ Lanes["wasm_simd"] = 4
BY LaunchAssumption DEF Lanes, SimdMiners

(* The lanes of a pass have one high word: the low word of an aligned      *)
(* counter does not wrap among them.                                       *)
LEMMA OneHighWord ==
    ASSUME NEW L \in {1, 4, 8, 16}, NEW n \in Nat, n % L = 0, NEW lane \in 0..(L - 1)
    PROVE  High(n + lane) = High(n)
<1>1. PICK m \in Nat \ {0} : m = WordSize /\ m % 16 = 0
  BY Sizes
<1>2. PICK l \in Int : m = l * L
  <2>1. PICK k \in Int, r \in 0..15 : m = k * 16 + r /\ r = m % 16
    BY QuotientAndRemainder
  <2>2. m = (k * 16) * 1 /\ m = (k * 4) * 4 /\ m = (k * 2) * 8 /\ m = k * 16
    BY <1>1, <2>1
  <2>3. k * 16 \in Int /\ k * 4 \in Int /\ k * 2 \in Int
    OBVIOUS
  <2> QED
    BY <2>2, <2>3
<1>3. PICK k \in Int : n = k * L
  <2>1. PICK k \in Int, r \in 0..(L - 1) : n = k * L + r /\ r = n % L
    BY QuotientAndRemainder
  <2>2. k * L \in Int
    OBVIOUS
  <2> QED
    BY <2>1, <2>2
<1>4. PICK q \in Int, r \in 0..(m - 1) : n = q * m + r /\ r = n % m
  BY QuotientAndRemainder
<1>5. PICK j \in Int : r = j * L
  <2>1. (q * l) * L = q * (l * L)
    OBVIOUS
  <2>2. PICK u \in Int : u = q * l
    OBVIOUS
  <2>3. r = (k - u) * L
    <3>1. q * m = u * L
      BY <1>2, <2>1, <2>2
    <3>2. k * L = u * L + r
      BY <1>3, <1>4, <3>1
    <3> QED
      BY <3>2
  <2> QED
    BY <2>3
<1>6. r + L <= m
  BY <1>2, <1>5
<1>7. r + lane \in 0..(m - 1) /\ n + lane \in Nat
  BY <1>6
<1>8. n + lane = q * m + (r + lane)
  <2>1. PICK g \in Int : g = q * m
    OBVIOUS
  <2>2. r \in Int /\ lane \in Int
    OBVIOUS
  <2>3. n = g + r
    BY <1>4, <2>1
  <2>4. n + lane = g + (r + lane)
    BY <2>2, <2>3
  <2> QED
    BY <2>1, <2>4
<1>9. n \div m = q
  BY <1>4, QuotientOf
<1>10. (n + lane) \div m = q
  BY <1>7, <1>8, QuotientOf
<1> QED
  BY <1>1, <1>9, <1>10 DEF High

(* The lanes of a pass that begins anywhere count in the low word and have *)
(* the high word of the first: the two words of CounterOf.                 *)
LEMMA WrappedCounter ==
    ASSUME NEW m \in {"mpi", "wasm_simd"}, NEW n \in Nat, NEW lane \in 0..15
    PROVE  /\ CounterOf(m, n, lane) \in Nat
           /\ Low(CounterOf(m, n, lane)) = Low(n + lane)
           /\ High(CounterOf(m, n, lane)) = High(n)
<1>1. PICK size \in Nat \ {0} : size = WordSize /\ size % 16 = 0
  BY Sizes
<1>2. size >= 16
  BY <1>1
<1>3. PICK q \in Int, r \in 0..(size - 1) : n = q * size + r /\ r = n % size
  BY QuotientAndRemainder
<1>4. PICK g \in Int : g = q * size
  OBVIOUS
<1>5. n = g + r /\ n \div size = q
  BY <1>3, <1>4, QuotientOf
<1>6. CASE r + lane < size
  <2>1. r + lane \in 0..(size - 1) /\ n + lane = g + (r + lane)
    BY <1>5, <1>6
  <2>2. n + lane = q * size + (r + lane) /\ n + lane \in Nat
    BY <1>4, <2>1
  <2>3. (n + lane) \div size = q
    BY <2>1, <2>2, QuotientOf
  <2>4. CounterOf(m, n, lane) = n + lane
    BY <1>1, <1>5, <2>3 DEF CounterOf, BehindWrap
  <2>5. High(n + lane) = High(n)
    BY <1>1, <1>5, <2>3 DEF High
  <2> QED
    BY <2>2, <2>4, <2>5
<1>7. CASE r + lane >= size
  <2>1. PICK s \in 0..(size - 1) : s = r + lane - size
    BY <1>2, <1>7
  <2>2. PICK k \in Int : k = n + lane - size
    OBVIOUS
  <2>3. k = g + s /\ n + lane = (g + size) + s
    BY <1>5, <2>1, <2>2
  <2>4. (q + 1) * size = g + size
    BY <1>4
  <2>5. k = q * size + s /\ n + lane = (q + 1) * size + s /\ q + 1 \in Int
    BY <1>4, <2>3, <2>4
  <2>6. n + lane \in Nat
    OBVIOUS
  <2>7. (n + lane) \div size = q + 1 /\ (n + lane) % size = s
    BY <2>5, <2>6, QuotientOf, RemainderOf
  <2>8. q \in Nat
    <3>1. n \div size \in Nat
      BY NaturalQuotient
    <3> QED
      BY <1>5, <3>1
  <2>9. g \in Nat
    BY <1>4, <2>8
  <2>10. k \in Nat
    BY <2>3, <2>9
  <2>11. k \div size = q /\ k % size = s
    BY <2>5, <2>10, QuotientOf, RemainderOf
  <2>12. CounterOf(m, n, lane) = k
    <3>1. BehindWrap(n, lane)
      BY <1>1, <1>5, <2>7 DEF BehindWrap
    <3> QED
      BY <1>1, <2>2, <3>1 DEF CounterOf
  <2>13. Low(k) = Low(n + lane) /\ High(k) = High(n)
    BY <1>1, <1>5, <2>7, <2>11 DEF Low, High
  <2> QED
    BY <2>10, <2>12, <2>13
<1> QED
  BY <1>6, <1>7

LEMMA OwnCounter ==
    ASSUME NEW m \in DOMAIN Lanes, NEW n \in Nat, NEW lane \in 0..(Lanes[m] - 1)
    PROVE  /\ lane \in Nat /\ n + lane \in Nat /\ CounterOf(m, n, lane) \in Nat
           /\ m \notin {"mpi", "wasm_simd"} => CounterOf(m, n, lane) = n + lane
<1>1. PICK L \in Nat : L = Lanes[m]
  BY LaneCounts
<1>2. lane \in Nat /\ n + lane \in Nat
  BY <1>1
<1>3. CASE m \in {"mpi", "wasm_simd"}
  <2>1. L \in {4, 8}
    BY <1>1, <1>3, LaneCounts
  <2>2. lane \in 0..15
    BY <1>1, <2>1
  <2> QED
    BY <1>2, <1>3, <2>2, WrappedCounter
<1>4. CASE m \notin {"mpi", "wasm_simd"}
  BY <1>2, <1>4 DEF CounterOf
<1> QED
  BY <1>2, <1>3, <1>4

-----------------------------------------------------------------------------
(* Texts *)

Startable(tx) == (tx = NoText \/ tx \in Texts) /\ (tx = NoText \/ ValidText(tx))

LEMMA TextFacts ==
    ASSUME NEW tx, Startable(tx)
    PROVE  /\ Len(tx) \in 0..27
           /\ \A i \in 1..Len(tx) : tx[i] \in Byte \ {0}
           /\ TextWords(tx) \in 0..7 /\ StampWord(tx) = 5 + TextWords(tx)
           /\ Len(tx) <= 4 * TextWords(tx) /\ 4 * TextWords(tx) < Len(tx) + 4
<1>1. Len(tx) \in 0..27 /\ \A i \in 1..Len(tx) : tx[i] \in Byte \ {0}
  <2>1. CASE tx = NoText
    BY <2>1 DEF NoText
  <2>2. CASE tx # NoText
    <3>1. tx \in Seq(Byte \ {0}) /\ Len(tx) <= 27
      BY <2>2, TextsAssumption DEF Startable, ValidText
    <3>2. Len(tx) \in Nat /\ \A i \in 1..Len(tx) : tx[i] \in Byte \ {0}
      <4> DEFINE S == Byte \ {0}
      <4>1. tx \in Seq(S)
        BY <3>1
      <4> HIDE DEF S
      <4>2. Len(tx) \in Nat /\ \A i \in 1..Len(tx) : tx[i] \in S
        BY <4>1, LenProperties, ElementOfSeq
      <4> QED
        BY <4>2 DEF S
    <3>3. Len(tx) \in 0..27
      <4>1. Len(tx) \in Nat /\ Len(tx) <= 27
        BY <3>1, <3>2
      <4>2. PICK n \in Nat : n = Len(tx)
        BY <4>1
      <4>3. n <= 27
        BY <4>1, <4>2
      <4>4. n \in 0..27
        BY <4>3
      <4> QED
        BY <4>2, <4>4
    <3> QED
      BY <3>2, <3>3
  <2> QED
    BY <2>1, <2>2
<1>2. PICK n \in 0..27 : n = Len(tx)
  BY <1>1
<1>3. (n + 3) \div 4 \in 0..7 /\ n <= 4 * ((n + 3) \div 4) /\ 4 * ((n + 3) \div 4) < n + 4
  OBVIOUS
<1> QED
  BY <1>1, <1>2, <1>3 DEF TextWords, StampWord

LEMMA FixedWords ==
    /\ 0 \in Byte
    /\ Zero \in Word /\ EndWord \in Word /\ Unset \in Word
    /\ \A i \in 0..2 : Prefix(i) \in Word
    /\ \A j \in 1..4 : Zero[j] = 0
    /\ EndWord[1] = 0 /\ EndWord[2] = 0 /\ EndWord[3] = NL /\ EndWord[4] = END
<1>1. 0 \in Byte /\ NL \in Byte /\ END \in Byte
  BY BytesAssumption DEF Byte
<1>2. ASSUME NEW i \in 0..2 PROVE Prefix(i) \in Word
  <2>1. \A j \in 1..4 : 4 * i + j - 1 \in 0..11
    OBVIOUS
  <2>2. \A j \in 1..4 : Letters[4 * i + j - 1] \in Byte
    BY <2>1, LettersAssumption
  <2> HIDE DEF Byte
  <2> QED
    BY <2>2 DEF Prefix, Word
<1> HIDE DEF Byte
<1> QED
  BY <1>1, <1>2 DEF Zero, EndWord, Unset, Word

LEMMA TextInWords ==
    ASSUME NEW tx, Startable(tx), NEW i \in 5..12
    PROVE  /\ Encoded(tx)[i] \in Word
           /\ i >= StampWord(tx) => Encoded(tx)[i] = Zero
           /\ i < StampWord(tx) => Encoded(tx)[i] # Zero
<1> DEFINE n == Len(tx)
           bytes(j) == LET k == 4 * (i - 5) + j IN IF k <= n THEN tx[k] ELSE 0
<1>1. Encoded(tx)[i] = [j \in 1..4 |-> bytes(j)]
  BY DEF Encoded
<1>2. PICK m \in 0..7 : m = TextWords(tx) /\ StampWord(tx) = 5 + m /\ n <= 4 * m /\ 4 * m < n + 4
  BY TextFacts
<1>3. n \in 0..27 /\ \A k \in 1..n : tx[k] \in Byte \ {0}
  BY TextFacts
<1> HIDE DEF n
<1>4. ASSUME NEW j \in 1..4 PROVE bytes(j) \in Byte
  <2>1. 4 * (i - 5) + j \in Nat /\ 4 * (i - 5) + j >= 1
    OBVIOUS
  <2> QED
    BY <1>3, <2>1, FixedWords
<1>5. ASSUME i >= StampWord(tx) PROVE \A j \in 1..4 : bytes(j) = 0
  <2>1. \A j \in 1..4 : ~(4 * (i - 5) + j <= n)
    BY <1>2, <1>3, <1>5
  <2> QED
    BY <2>1
<1>6. ASSUME i < StampWord(tx) PROVE bytes(1) # 0
  <2>1. 4 * (i - 5) + 1 <= n /\ 4 * (i - 5) + 1 \in 1..n
    BY <1>2, <1>3, <1>6
  <2> QED
    BY <1>3, <2>1
<1> HIDE DEF bytes
<1>7. Encoded(tx)[i] \in Word
  BY <1>1, <1>4 DEF Word
<1>8. i >= StampWord(tx) => Encoded(tx)[i] = Zero
  BY <1>1, <1>5 DEF Zero
<1>9. i < StampWord(tx) => Encoded(tx)[i] # Zero
  <2>1. SUFFICES ASSUME i < StampWord(tx), Encoded(tx)[i] = Zero PROVE FALSE
    OBVIOUS
  <2>2. Encoded(tx)[i][1] = bytes(1)
    BY <1>1
  <2> QED
    BY <1>6, <2>1, <2>2, FixedWords
<1> QED
  BY <1>7, <1>8, <1>9

-----------------------------------------------------------------------------
(* What a lane must be like before a pass *)

Prepared(m, tx, words) ==
    /\ words \in Coin
    /\ m \in SimdMiners \cup {"mpi", "wasm_simd"} => \A i \in 0..2 : words[i] = Prefix(i)
    /\ m \in SimdMiners =>
           \A i \in 5..12 : i < StampWord(tx) => words[i] = Encoded(tx)[i]
    /\ m \in {"mpi", "wasm_simd"} => \A i \in 6..12 : words[i] = Zero
    /\ m = "wasm_simd" => words[13] = EndWord

(* A miner of one of the kinds; only some take a text. *)
MinerKnown(m, tx) ==
    /\ m \in DOMAIN Lanes
    /\ Startable(tx)
    /\ m \notin TakesText => tx = NoText

LEMMA NoTextStamp == Startable(NoText) /\ StampWord(NoText) = 5
<1>1. Startable(NoText)
  BY DEF Startable
<1>2. Len(NoText) = 0 /\ (0 + 3) \div 4 = 0
  BY DEF NoText
<1> QED
  BY <1>1, <1>2 DEF StampWord, TextWords

(* The first lanes: the text is copied as far as its first zero word, and  *)
(* that is all of it.                                                      *)
LEMMA FirstLanes ==
    ASSUME NEW m, NEW tx, MinerKnown(m, tx)
    PROVE  Prepared(m, tx, InitialLane(m, tx))
<1>1. PICK s \in 5..12 : s = StampWord(tx)
  BY TextFacts DEF MinerKnown
<1>2. Startable(tx)
  BY DEF MinerKnown
<1>3. CASE m \in SimdMiners
  <2> DEFINE x == TextLane(tx)
  <2>6. m \notin {"mpi", "wasm_simd"}
    BY <1>3 DEF SimdMiners
  <2>1. InitialLane(m, tx) = x
    BY <1>3, <2>6 DEF InitialLane
  <2>2. x = [i \in 0..13 |-> IF i < 3 THEN Prefix(i) ELSE IF i = 13 THEN Unset
                             ELSE IF i \in 5..12 /\ TextUpToZero(tx, i) THEN Encoded(tx)[i] ELSE Zero]
    BY DEF TextLane
  <2>3. x \in Coin
    <3>1. \A i \in 0..13 : i < 3 => i \in 0..2
      OBVIOUS
    <3> QED
      BY <1>2, <2>2, <3>1, FixedWords, TextInWords DEF Coin
  <2>4. \A i \in 0..2 : x[i] = Prefix(i)
    BY <2>2
  <2>5. ASSUME NEW i \in 5..12, i < StampWord(tx) PROVE x[i] = Encoded(tx)[i]
    <3>1. \A j \in 5..i : j \in 5..12 /\ j < StampWord(tx)
      BY <1>1, <2>5
    <3>2. TextUpToZero(tx, i)
      BY <1>2, <3>1, TextInWords DEF TextUpToZero
    <3> QED
      BY <2>2, <3>2
  <2> HIDE DEF x
  <2> QED
    BY <2>1, <2>3, <2>4, <2>5, <2>6 DEF Prepared
<1>4. CASE m \in {"mpi", "wasm_simd"}
  <2>1. m \notin SimdMiners
    BY <1>4 DEF SimdMiners
  <2>2. MpiLane = [i \in 0..13 |-> IF i < 3 THEN Prefix(i)
                                   ELSE IF i \in 6..12 THEN Zero ELSE Unset]
    BY DEF MpiLane
  <2>3. MpiLane \in Coin
    <3>1. \A i \in 0..13 : i < 3 => i \in 0..2
      OBVIOUS
    <3> QED
      BY <2>2, <3>1, FixedWords DEF Coin
  <2>4. /\ \A i \in 0..2 : MpiLane[i] = Prefix(i)
        /\ \A i \in 6..12 : MpiLane[i] = Zero
    BY <2>2
  <2>5. CASE m = "mpi"
    <3>1. InitialLane(m, tx) = MpiLane
      BY <2>1, <2>5 DEF InitialLane
    <3> QED
      BY <2>1, <2>3, <2>4, <2>5, <3>1 DEF Prepared
  <2>6. CASE m = "wasm_simd"
    <3>1. InitialLane(m, tx) = [MpiLane EXCEPT ![13] = EndWord]
      BY <2>1, <2>6 DEF InitialLane, WasmLane
    <3> HIDE DEF MpiLane
    <3> DEFINE y == [MpiLane EXCEPT ![13] = EndWord]
    <3>2. y \in Coin /\ y[13] = EndWord /\ \A i \in 0..12 : y[i] = MpiLane[i]
      BY <2>3, FixedWords DEF Coin
    <3> HIDE DEF y
    <3>3. (\A i \in 0..2 : y[i] = Prefix(i)) /\ \A i \in 6..12 : y[i] = Zero
      BY <2>4, <3>2
    <3>4. Prepared(m, tx, y)
      BY <2>1, <2>6, <3>2, <3>3 DEF Prepared
    <3> QED
      BY <3>1, <3>4 DEF y
  <2> QED
    BY <1>4, <2>5, <2>6
<1>5. CASE m \notin SimdMiners \cup {"mpi", "wasm_simd"}
  <2>1. InitialLane(m, tx) = [i \in 0..13 |-> Unset]
    BY <1>5 DEF InitialLane
  <2>2. [i \in 0..13 |-> Unset] \in Coin
    BY FixedWords DEF Coin
  <2> QED
    BY <1>5, <2>1, <2>2 DEF Prepared
<1> QED
  BY <1>3, <1>4, <1>5

-----------------------------------------------------------------------------
(* All miners build one coin *)

(* The coin of the scalar miner, word by word *)
LEMMA CoinWords ==
    ASSUME NEW n \in Nat, NEW tx, Startable(tx), NEW now \in Word
    PROVE  LET words == ScalarCoin(n, tx, now)
           IN  /\ words \in Coin
               /\ \A i \in 0..2 : words[i] = Prefix(i)
               /\ words[3] = Low(n) /\ words[4] = High(n) /\ words[13] = EndWord
               /\ \A i \in 5..12 : words[i] = IF i < StampWord(tx) THEN Encoded(tx)[i]
                                             ELSE IF i = StampWord(tx) THEN now ELSE Zero
<1>1. PICK s \in 5..12 : s = StampWord(tx)
  BY TextFacts
<1> DEFINE words == ScalarCoin(n, tx, now)
<1>2. words = [i \in 0..13 |->
                 IF i < 3 THEN Prefix(i) ELSE IF i = 3 THEN Low(n) ELSE IF i = 4 THEN High(n)
                 ELSE IF i = 13 THEN EndWord ELSE IF i < s THEN Encoded(tx)[i]
                 ELSE IF i = s THEN now ELSE Zero]
  BY <1>1 DEF ScalarCoin
<1>3. words \in Coin
  <2>1. \A i \in 0..13 : /\ i < 3 => i \in 0..2
                         /\ ~(i < 3) /\ i # 3 /\ i # 4 /\ i # 13 => i \in 5..12
    OBVIOUS
  <2>2. Low(n) \in Word /\ High(n) \in Word
    BY CountersAreWords
  <2> QED
    BY <1>2, <2>1, <2>2, FixedWords, TextInWords DEF Coin
<1> QED
  BY <1>1, <1>2, <1>3

LEMMA PreparedAgain ==
    ASSUME NEW m, NEW tx, MinerKnown(m, tx), NEW n \in Nat, NEW now \in Word
    PROVE  Prepared(m, tx, ScalarCoin(n, tx, now))
<1>1. Startable(tx)
  BY DEF MinerKnown
<1>2. m \in {"mpi", "wasm_simd"} => StampWord(tx) = 5
  BY NoTextStamp DEF MinerKnown, TakesText, SimdMiners
<1> HIDE DEF ScalarCoin
<1> QED
  BY <1>1, <1>2, CoinWords DEF Prepared

LEMMA SameWords ==
    ASSUME NEW x \in Coin, NEW y \in Coin, \A i \in 0..13 : x[i] = y[i]
    PROVE  x = y
BY DEF Coin

(* A lane with another counter, and otherwise as before *)
Counts(words, old, n, k) ==
    /\ words \in Coin /\ words[3] = Low(k) /\ words[4] = High(n)
    /\ \A i \in (0..2) \cup (5..13) : words[i] = old[i]

LEMMA LaneWords ==
    ASSUME NEW old \in Coin, NEW n \in Nat, NEW lane \in Nat, NEW k \in Nat,
           Low(k) = Low(n + lane)
    PROVE  Counts(WithCounter(old, n, lane), old, n, k)
<1>1. Low(k) \in Word /\ High(n) \in Word
  BY CountersAreWords
<1> HIDE DEF Low, High
<1> QED
  BY <1>1 DEF Counts, WithCounter, LaneCounter, Coin

LEMMA SimdLanes ==
    ASSUME NEW m \in SimdMiners, NEW n \in Nat, n % Lanes[m] = 0, NEW lane \in 0..(Lanes[m] - 1)
    PROVE  lane \in Nat /\ n + lane \in Nat /\ High(n + lane) = High(n)
<1>1. PICK L \in {1, 4, 8, 16} : L = Lanes[m]
  BY LaneCounts
<1>2. n % L = 0 /\ lane \in 0..(L - 1)
  BY <1>1
<1>3. High(n + lane) = High(n)
  BY <1>2, OneHighWord
<1> QED
  BY <1>2, <1>3

LEMMA SimdCoin ==
    ASSUME NEW m \in SimdMiners, NEW tx, MinerKnown(m, tx), NEW old, Prepared(m, tx, old),
           NEW n \in Nat, n % Lanes[m] = 0, NEW lane \in 0..(Lanes[m] - 1), NEW now \in Word
    PROVE  TextUpdate(old, n, lane, tx, now) = ScalarCoin(n + lane, tx, now)
<1>1. m \in DOMAIN Lanes /\ Startable(tx)
  BY DEF MinerKnown
<1>2. lane \in Nat /\ n + lane \in Nat /\ High(n + lane) = High(n)
  BY SimdLanes
<1>3. PICK k \in Nat : k = n + lane
  BY <1>2
<1>4. PICK s \in 5..12 : s = StampWord(tx)
  BY <1>1, TextFacts
<1>5. /\ old \in Coin /\ \A i \in 0..2 : old[i] = Prefix(i)
      /\ \A i \in 5..12 : i < s => old[i] = Encoded(tx)[i]
  BY <1>4 DEF Prepared
<1> DEFINE x == WithCounter(old, n, lane)
           y == TextUpdate(old, n, lane, tx, now)
           z == ScalarCoin(k, tx, now)
<1>6. /\ x \in Coin /\ x[3] = Low(k) /\ x[4] = High(k)
      /\ \A i \in (0..2) \cup (5..13) : x[i] = old[i]
  <2>1. Counts(x, old, n, k)
    <3>1. old \in Coin /\ lane \in Nat /\ k = n + lane
      BY <1>2, <1>3, <1>5
    <3> QED
      BY <3>1, LaneWords
  <2>2. High(k) = High(n)
    BY <1>2, <1>3
  <2> QED
    BY <2>1, <2>2 DEF Counts
<1>7. y = [i \in 0..13 |-> IF i = s THEN now ELSE IF i \in (s + 1)..12 THEN Zero
                           ELSE IF i = 13 THEN EndWord ELSE x[i]]
  BY <1>4 DEF TextUpdate
<1>8. /\ z \in Coin
      /\ \A i \in 0..2 : z[i] = Prefix(i)
      /\ z[3] = Low(k) /\ z[4] = High(k) /\ z[13] = EndWord
      /\ \A i \in 5..12 : z[i] = IF i < s THEN Encoded(tx)[i] ELSE IF i = s THEN now ELSE Zero
  BY <1>1, <1>4, CoinWords
<1> HIDE DEF x, z
<1>9. y \in Coin
  BY <1>6, <1>7, FixedWords DEF Coin
<1>10. /\ \A i \in 0..2 : y[i] = Prefix(i)
       /\ y[3] = Low(k) /\ y[4] = High(k) /\ y[13] = EndWord
       /\ \A i \in 5..12 : y[i] = IF i < s THEN Encoded(tx)[i] ELSE IF i = s THEN now ELSE Zero
  BY <1>5, <1>6, <1>7
<1> HIDE DEF y
<1>11. \A i \in 0..13 : y[i] = z[i]
  <2>1. \A i \in 0..13 : i \in 0..2 \/ i = 3 \/ i = 4 \/ i = 13 \/ i \in 5..12
    OBVIOUS
  <2> QED
    BY <1>8, <1>10, <2>1
<1>12. y = z
  BY <1>8, <1>9, <1>11, SameWords
<1> QED
  BY <1>3, <1>12 DEF y, z

(* A timestamp in word 5 and nothing behind it: the miners with no text.   *)
LEMMA PlainCoin ==
    ASSUME NEW n \in Nat, NEW now \in Word, NEW y \in Coin,
           \A i \in 0..2 : y[i] = Prefix(i),
           y[3] = Low(n), y[4] = High(n), y[5] = now, y[13] = EndWord,
           \A i \in 6..12 : y[i] = Zero
    PROVE  y = ScalarCoin(n, NoText, now)
<1> DEFINE z == ScalarCoin(n, NoText, now)
<1>1. StampWord(NoText) = 5 /\ Startable(NoText)
  BY NoTextStamp
<1>2. /\ z \in Coin
      /\ \A i \in 0..2 : z[i] = Prefix(i)
      /\ z[3] = Low(n) /\ z[4] = High(n) /\ z[13] = EndWord
      /\ \A i \in 5..12 : z[i] = IF i < 5 THEN Encoded(NoText)[i] ELSE IF i = 5 THEN now ELSE Zero
  BY <1>1, CoinWords
<1> HIDE DEF z
<1>3. \A i \in 0..13 : i \in 0..2 \/ i = 3 \/ i = 4 \/ i = 5 \/ i = 13 \/ i \in 6..12
  OBVIOUS
<1>4. z[5] = now /\ \A i \in 6..12 : z[i] = Zero
  BY <1>2
<1>5. \A i \in 0..13 : y[i] = z[i]
  BY <1>2, <1>3, <1>4
<1> QED
  BY <1>2, <1>5, SameWords DEF z

LEMMA MpiCoin ==
    ASSUME NEW old, Prepared("mpi", NoText, old), NEW n \in Nat,
           NEW lane \in 0..(Lanes["mpi"] - 1), NEW now \in Word
    PROVE  MpiUpdate(old, n, lane, now) = ScalarCoin(CounterOf("mpi", n, lane), NoText, now)
<1>1. PICK k \in Nat : /\ k = CounterOf("mpi", n, lane)
                       /\ Low(k) = Low(n + lane) /\ High(k) = High(n)
  <2>1. lane \in 0..15
    BY LaneCounts
  <2> QED
    BY <2>1, WrappedCounter
<1>2. /\ old \in Coin /\ \A i \in 0..2 : old[i] = Prefix(i)
      /\ \A i \in 6..12 : old[i] = Zero
  BY DEF Prepared
<1> DEFINE x == WithCounter(old, n, lane)
           y == [x EXCEPT ![5] = now, ![13] = EndWord]
<1>3. /\ x \in Coin /\ x[3] = Low(k) /\ x[4] = High(k)
      /\ \A i \in (0..2) \cup (5..13) : x[i] = old[i]
  <2>1. Counts(x, old, n, k)
    <3>1. old \in Coin /\ lane \in Nat /\ Low(k) = Low(n + lane)
      BY <1>1, <1>2, LaneCounts
    <3> QED
      BY <3>1, LaneWords
  <2>2. High(k) = High(n)
    BY <1>1
  <2> QED
    BY <2>1, <2>2 DEF Counts
<1> HIDE DEF x
<1>4. y \in Coin /\ y[5] = now /\ y[13] = EndWord /\ \A i \in (0..4) \cup (6..12) : y[i] = x[i]
  BY <1>3, FixedWords DEF Coin
<1>5. MpiUpdate(old, n, lane, now) = y
  BY DEF MpiUpdate, x
<1> HIDE DEF y
<1>6. /\ \A i \in 0..2 : y[i] = Prefix(i)
      /\ y[3] = Low(k) /\ y[4] = High(k) /\ \A i \in 6..12 : y[i] = Zero
  BY <1>2, <1>3, <1>4
<1>7. y = ScalarCoin(k, NoText, now)
  BY <1>4, <1>6, PlainCoin
<1> QED
  BY <1>1, <1>5, <1>7

LEMMA WasmSimdCoin ==
    ASSUME NEW old, Prepared("wasm_simd", NoText, old), NEW n \in Nat,
           NEW lane \in 0..(Lanes["wasm_simd"] - 1), NEW now \in Word
    PROVE  WasmUpdate(old, n, lane, now) = ScalarCoin(CounterOf("wasm_simd", n, lane), NoText, now)
<1>1. PICK k \in Nat : /\ k = CounterOf("wasm_simd", n, lane)
                       /\ Low(k) = Low(n + lane) /\ High(k) = High(n)
  <2>1. lane \in 0..15
    BY LaneCounts
  <2> QED
    BY <2>1, WrappedCounter
<1>2. /\ old \in Coin /\ \A i \in 0..2 : old[i] = Prefix(i)
      /\ \A i \in 6..12 : old[i] = Zero
      /\ old[13] = EndWord
  BY DEF Prepared
<1> DEFINE x == WithCounter(old, n, lane)
           y == [x EXCEPT ![5] = now]
<1>3. /\ x \in Coin /\ x[3] = Low(k) /\ x[4] = High(k)
      /\ \A i \in (0..2) \cup (5..13) : x[i] = old[i]
  <2>1. Counts(x, old, n, k)
    <3>1. old \in Coin /\ lane \in Nat /\ Low(k) = Low(n + lane)
      BY <1>1, <1>2, LaneCounts
    <3> QED
      BY <3>1, LaneWords
  <2>2. High(k) = High(n)
    BY <1>1
  <2> QED
    BY <2>1, <2>2 DEF Counts
<1> HIDE DEF x
<1>4. y \in Coin /\ y[5] = now /\ \A i \in (0..4) \cup (6..13) : y[i] = x[i]
  BY <1>3 DEF Coin
<1>5. WasmUpdate(old, n, lane, now) = y
  BY DEF WasmUpdate, x
<1> HIDE DEF y
<1>6. /\ \A i \in 0..2 : y[i] = Prefix(i)
      /\ y[3] = Low(k) /\ y[4] = High(k) /\ \A i \in 6..12 : y[i] = Zero
      /\ y[13] = EndWord
  BY <1>2, <1>3, <1>4
<1>7. y = ScalarCoin(k, NoText, now)
  BY <1>4, <1>6, PlainCoin
<1> QED
  BY <1>1, <1>5, <1>7

LEMMA OpenClIsPlain ==
    ASSUME NEW n \in Nat, NEW now \in Word
    PROVE  OpenClCoin(n, now) = ScalarCoin(n, NoText, now)
<1> DEFINE y == OpenClCoin(n, now)
<1>1. y = [i \in 0..13 |-> IF i < 3 THEN Prefix(i) ELSE IF i = 3 THEN Low(n)
                           ELSE IF i = 4 THEN High(n) ELSE IF i = 5 THEN now
                           ELSE IF i = 13 THEN EndWord ELSE Zero]
  BY DEF OpenClCoin
<1> HIDE DEF y
<1>2. \A i \in 0..13 : i < 3 => i \in 0..2
  OBVIOUS
<1>3. Low(n) \in Word /\ High(n) \in Word
  BY CountersAreWords
<1> HIDE DEF Low, High
<1>4. y \in Coin
  BY <1>1, <1>2, <1>3, FixedWords DEF Coin
<1>5. /\ \A i \in 0..2 : y[i] = Prefix(i)
      /\ y[3] = Low(n) /\ y[4] = High(n) /\ y[5] = now /\ y[13] = EndWord
      /\ \A i \in 6..12 : y[i] = Zero
  BY <1>1
<1> QED
  BY <1>4, <1>5, PlainCoin DEF y

(* The kernel of the CUDA miner writes all eight words of the text, which  *)
(* are zero behind it.                                                     *)
LEMMA CudaIsScalar ==
    ASSUME NEW n \in Nat, NEW tx, Startable(tx), NEW now \in Word
    PROVE  CudaCoin(n, tx, now) = ScalarCoin(n, tx, now)
<1> DEFINE y == CudaCoin(n, tx, now)
           z == ScalarCoin(n, tx, now)
<1>1. PICK s \in 5..12 : s = StampWord(tx)
  BY TextFacts
<1>2. y = [i \in 0..13 |-> IF i < 3 THEN Prefix(i) ELSE IF i = 3 THEN Low(n)
                           ELSE IF i = 4 THEN High(n) ELSE IF i = 13 THEN EndWord
                           ELSE IF i = s THEN now ELSE Encoded(tx)[i]]
  BY <1>1 DEF CudaCoin
<1>3. /\ z \in Coin
      /\ \A i \in 0..2 : z[i] = Prefix(i)
      /\ z[3] = Low(n) /\ z[4] = High(n) /\ z[13] = EndWord
      /\ \A i \in 5..12 : z[i] = IF i < s THEN Encoded(tx)[i] ELSE IF i = s THEN now ELSE Zero
  BY <1>1, CoinWords
<1>4. \A i \in 5..12 : i >= s => Encoded(tx)[i] = Zero
  BY <1>1, TextInWords
<1> HIDE DEF y, z
<1>5. \A i \in 0..13 : y[i] = z[i]
  <2>1. /\ \A i \in 0..2 : y[i] = Prefix(i)
        /\ y[3] = Low(n) /\ y[4] = High(n) /\ y[13] = EndWord
        /\ \A i \in 5..12 : y[i] = IF i = s THEN now ELSE Encoded(tx)[i]
    BY <1>2
  <2>2. \A i \in 0..13 : i \in 0..2 \/ i = 3 \/ i = 4 \/ i = 13 \/ i \in 5..12
    OBVIOUS
  <2>3. \A i \in 5..12 : y[i] = z[i]
    BY <1>3, <1>4, <2>1
  <2> QED
    BY <1>3, <2>1, <2>2, <2>3
<1>6. DOMAIN y = 0..13 /\ y = [i \in 0..13 |-> y[i]]
  BY <1>2
<1>7. z = [i \in 0..13 |-> z[i]]
  BY <1>3 DEF Coin
<1>8. y = z
  BY <1>5, <1>6, <1>7
<1> QED
  BY <1>8 DEF y, z

-----------------------------------------------------------------------------
(* The bytes of the coin *)

LEMMA CoinBytes ==
    ASSUME NEW n \in Nat, NEW tx, Startable(tx), NEW now \in Word, NEW k \in 0..55
    PROVE  ByteAt(ScalarCoin(n, tx, now), k) = CoinByte(n, tx, now, k)
<1> DEFINE z == ScalarCoin(n, tx, now)
<1>1. PICK i \in 0..13, j \in 1..4 : i = k \div 4 /\ j = (k % 4) + 1 /\ k = 4 * i + j - 1
  OBVIOUS
<1>2. ByteAt(z, k) = z[i][j]
  BY <1>1 DEF ByteAt
<1>3. PICK m \in 0..7 : m = TextWords(tx)
  BY TextFacts
<1>4. PICK l \in 0..27 : l = Len(tx)
  BY TextFacts
<1>5. StampWord(tx) = 5 + m /\ l <= 4 * m /\ 4 * m < l + 4
  BY <1>3, <1>4, TextFacts
<1>6. (l + 3) \div 4 = m
  BY <1>3, <1>4 DEF TextWords
<1>7. CoinByte(n, tx, now, k) =
          IF k < 12 THEN Letters[k]
          ELSE IF k \in 12..15 THEN (n \div Weights[k - 11]) % ByteSize
          ELSE IF k \in 16..19 THEN ((n \div WordSize) \div Weights[k - 15]) % ByteSize
          ELSE IF k \in 20..(19 + l) THEN tx[k - 19]
          ELSE IF k \in (20 + 4 * m)..(20 + 4 * m + 3) THEN now[k - (20 + 4 * m) + 1]
          ELSE IF k = 54 THEN NL ELSE IF k = 55 THEN END ELSE 0
  <2> DEFINE p == (n \div Weights[k - 11]) % ByteSize
             q == ((n \div WordSize) \div Weights[k - 15]) % ByteSize
  <2>1. CoinByte(n, tx, now, k) =
            CASE k < 12 -> Letters[k]
              [] k \in 12..15 -> p
              [] k \in 16..19 -> q
              [] k \in 20..(19 + l) -> tx[k - 19]
              [] k \in (20 + 4 * m)..(20 + 4 * m + 3) -> now[k - (20 + 4 * m) + 1]
              [] k = 54 -> NL
              [] k = 55 -> END
              [] OTHER -> 0
    BY <1>4, <1>6 DEF CoinByte
  <2> HIDE DEF p, q
  <2>2. CASE k < 12
    BY <2>1, <2>2
  <2>3. CASE k \in 12..15
    BY <2>1, <2>3 DEF p
  <2>4. CASE k \in 16..19
    BY <2>1, <2>4 DEF q
  <2>5. CASE k \in 20..(19 + l)
    <3>1. k <= 19 + 4 * m /\ k <= 46
      BY <1>5, <2>5
    <3> QED
      BY <2>1, <2>5, <3>1
  <2>6. CASE k > 19 + l /\ k \in (20 + 4 * m)..(20 + 4 * m + 3)
    BY <1>5, <2>1, <2>6
  <2>7. CASE k > 19 + l /\ k \notin (20 + 4 * m)..(20 + 4 * m + 3)
    BY <1>5, <2>1, <2>7
  <2> QED
    BY <1>5, <2>2, <2>3, <2>4, <2>5, <2>6, <2>7
<1>8. /\ \A h \in 0..2 : z[h] = Prefix(h)
      /\ z[3] = Low(n) /\ z[4] = High(n) /\ z[13] = EndWord
      /\ \A h \in 5..12 : z[h] = IF h < 5 + m THEN Encoded(tx)[h] ELSE IF h = 5 + m THEN now ELSE Zero
  BY <1>5, CoinWords
<1> HIDE DEF z
<1>9. CASE i \in 0..2
  <2>1. k < 12
    BY <1>1, <1>9
  <2>2. z[i] = Prefix(i)
    BY <1>8, <1>9
  <2>3. Prefix(i)[j] = Letters[4 * i + j - 1]
    BY DEF Prefix
  <2>4. z[i][j] = Letters[k]
    BY <1>1, <2>2, <2>3
  <2> QED
    BY <1>2, <1>7, <2>1, <2>4 DEF z
<1>10. CASE i = 3
  <2>1. k \in 12..15 /\ ~(k < 12) /\ k - 11 = j
    BY <1>1, <1>10
  <2>2. z[i][j] = (n \div Weights[j]) % ByteSize
    BY <1>8, <1>10, LowDigits
  <2> QED
    BY <1>2, <1>7, <2>1, <2>2 DEF z
<1>11. CASE i = 4
  <2>1. k \in 16..19 /\ ~(k < 12) /\ k \notin 12..15 /\ k - 15 = j
    BY <1>1, <1>11
  <2>2. z[i][j] = ((n \div WordSize) \div Weights[j]) % ByteSize
    BY <1>8, <1>11, HighDigits
  <2> QED
    BY <1>2, <1>7, <2>1, <2>2 DEF z
<1>12. CASE i \in 5..12
  <2>1. k \in 20..51 /\ ~(k < 12) /\ k \notin 12..15 /\ k \notin 16..19 /\ k # 54 /\ k # 55
    BY <1>1, <1>12
  <2>2. CASE i < 5 + m
    <3>1. z[i][j] = IF k - 19 <= l THEN tx[k - 19] ELSE 0
      <4>1. z[i] = Encoded(tx)[i]
        BY <1>8, <1>12, <2>2
      <4>2. Encoded(tx)[i][j] = IF 4 * (i - 5) + j <= l THEN tx[4 * (i - 5) + j] ELSE 0
        BY <1>4, <1>12 DEF Encoded
      <4>3. 4 * (i - 5) + j = k - 19
        BY <1>1
      <4> QED
        BY <4>1, <4>2, <4>3
    <3>2. k \notin (20 + 4 * m)..(20 + 4 * m + 3)
      BY <1>1, <2>2
    <3>3. k - 19 <= l <=> k \in 20..(19 + l)
      BY <2>1
    <3> QED
      BY <1>2, <1>7, <2>1, <3>1, <3>2, <3>3 DEF z
  <2>3. CASE i = 5 + m
    <3>1. k \in (20 + 4 * m)..(20 + 4 * m + 3) /\ k - (20 + 4 * m) + 1 = j /\ k \notin 20..(19 + l)
      BY <1>1, <1>5, <2>3
    <3>2. z[i] = now
      BY <1>8, <1>12, <2>3
    <3> QED
      BY <1>2, <1>7, <2>1, <3>1, <3>2 DEF z
  <2>4. CASE i > 5 + m
    <3>1. k \notin (20 + 4 * m)..(20 + 4 * m + 3) /\ k \notin 20..(19 + l)
      BY <1>1, <1>5, <2>4
    <3>2. z[i] = Zero
      BY <1>8, <1>12, <2>4
    <3>3. z[i][j] = 0
      BY <3>2, FixedWords
    <3> QED
      BY <1>2, <1>7, <2>1, <3>1, <3>3 DEF z
  <2> QED
    BY <2>2, <2>3, <2>4
<1>13. CASE i = 13
  <2>1. /\ ~(k < 12) /\ k \notin 12..15 /\ k \notin 16..19 /\ k \notin 20..(19 + l)
        /\ k \notin (20 + 4 * m)..(20 + 4 * m + 3)
        /\ k = 51 + j
    BY <1>1, <1>13
  <2>2. z[i][j] = EndWord[j]
    BY <1>8, <1>13
  <2>3. j = 1 \/ j = 2 \/ j = 3 \/ j = 4
    OBVIOUS
  <2>4. z[i][j] = IF k = 54 THEN NL ELSE IF k = 55 THEN END ELSE 0
    BY <2>1, <2>2, <2>3, FixedWords
  <2> QED
    BY <1>2, <1>7, <2>1, <2>4 DEF z
<1> QED
  BY <1>9, <1>10, <1>11, <1>12, <1>13

-----------------------------------------------------------------------------
(* The miners *)

Lane == 0..(Lanes[miner] - 1)
Aligned(m, n) == m \in SimdMiners => n % Lanes[m] = 0

(* A miner that runs was given no text or a valid one; the counter of a    *)
(* CPU miner goes in steps of its lanes, so the high word is the same in   *)
(* all of them; and what a pass does not write, its lanes have already.    *)
CoinInv ==
    /\ \/ MinerKnown(miner, text)
       \/ status # "mining" /\ miner \in DOMAIN Lanes /\ text \in Texts
    /\ miner \notin TakesText => text = NoText
    /\ status \in {"started", "mining", "refused"}
    /\ counter \in Nat /\ Aligned(miner, counter)
    /\ hashed.counter \in Nat /\ hashed.time \in Times
    /\ steps \in 0..MaxSteps
    /\ status # "mining" => steps = 0 /\ coin = <<>>
    /\ status = "mining" => /\ DOMAIN coin = Lane
                            /\ \A lane \in Lane : Prepared(miner, text, coin[lane])
    /\ steps > 0 => \A lane \in Lane :
                        coin[lane] = ScalarCoin(CounterOf(miner, hashed.counter, lane),
                                                text, hashed.time)

LEMMA InitCoinInv == Init => CoinInv
<1> SUFFICES ASSUME Init PROVE CoinInv
  OBVIOUS
<1>1. miner \in DOMAIN Lanes /\ steps = 0 /\ status = "started" /\ coin = <<>>
  BY DEF Init
<1>2. MinerKnown(miner, text) \/ text \in Texts
  BY DEF Init, MinerKnown, Startable
<1>3. miner \notin TakesText => text = NoText
  BY DEF Init
<1>4. counter \in Nat /\ Aligned(miner, counter)
  <2>1. counter \in Offsets \cup AnyOffsets /\ (miner \in SimdMiners => counter \in Offsets)
    BY DEF Init, FirstCounters, SimdMiners, GpuMiners
  <2>2. counter \in Nat /\ (miner \in SimdMiners => counter % 16 = 0)
    BY <2>1, OffsetsAssumption, AnyOffsetsAssumption
  <2>3. ASSUME miner \in SimdMiners PROVE counter % Lanes[miner] = 0
    <3>1. PICK L \in {4, 8, 16} : L = Lanes[miner]
      BY <2>3, LaneCounts
    <3>2. counter % L = 0
      BY <2>2, <2>3
    <3> QED
      BY <3>1, <3>2
  <2> QED
    BY <2>2, <2>3 DEF Aligned
<1>5. hashed.counter \in Nat /\ hashed.time \in Times
  BY DEF Init
<1>6. steps \in 0..MaxSteps
  BY <1>1, BoundAssumption
<1>7. ~(steps > 0)
  BY <1>1
<1> QED
  BY <1>1, <1>2, <1>3, <1>4, <1>5, <1>6, <1>7 DEF CoinInv

LEMMA RefuseKeepsCoins == CoinInv /\ Refuse => CoinInv'
<1> SUFFICES ASSUME CoinInv, Refuse PROVE CoinInv'
  OBVIOUS
<1>1. status = "started" /\ status' = "refused" /\ UNCHANGED <<miner, text, counter, coin, hashed, steps>>
  BY DEF Refuse
<1> QED
  BY <1>1 DEF CoinInv, Lane

LEMMA StartKeepsCoins == CoinInv /\ Start => CoinInv'
<1> SUFFICES ASSUME CoinInv, Start PROVE CoinInv'
  OBVIOUS
<1>1. /\ status = "started" /\ status' = "mining" /\ steps = 0
      /\ UNCHANGED <<miner, text, counter, hashed, steps>>
      /\ coin' = [lane \in Lane |-> InitialLane(miner, text)]
  BY DEF Start, CoinInv, Lane
<1>2. MinerKnown(miner, text)
  BY DEF CoinInv, Start, MinerKnown, Startable
<1>3. Prepared(miner, text, InitialLane(miner, text))
  BY <1>2, FirstLanes
<1>4. DOMAIN coin' = Lane /\ \A lane \in Lane : Prepared(miner, text, coin'[lane])
  BY <1>1, <1>3
<1>5. Lane' = Lane
  BY <1>1 DEF Lane
<1>6. ~(steps' > 0)
  BY <1>1
<1> QED
  BY <1>1, <1>2, <1>4, <1>5, <1>6 DEF CoinInv

(* A pass that builds in every lane the coin of the scalar miner.          *)
ScalarPasses(now) ==
    /\ now \in Times
    /\ status = "mining" /\ steps < MaxSteps
    /\ DOMAIN coin' = Lane
    /\ \A lane \in Lane : coin'[lane] = ScalarCoin(CounterOf(miner, counter, lane), text, now)
    /\ hashed' = [counter |-> counter, time |-> now]
    /\ counter' \in Nat /\ Aligned(miner, counter')
    /\ steps' = steps + 1
    /\ UNCHANGED <<miner, text, status>>

LEMMA PassKeepsCoins ==
    ASSUME CoinInv, NEW now, ScalarPasses(now)
    PROVE  CoinInv'
<1>1. MinerKnown(miner, text) /\ status = "mining" /\ UNCHANGED <<miner, text, status>>
  BY DEF CoinInv, ScalarPasses
<1>2. miner \in DOMAIN Lanes
  BY <1>1 DEF MinerKnown
<1>3. PICK n \in Nat : n = counter
  BY DEF CoinInv
<1>4. Lane' = Lane
  BY <1>1 DEF Lane
<1>5. now \in Word /\ now \in Times
  BY TimesAssumption DEF ScalarPasses
<1>6. counter' \in Nat /\ Aligned(miner', counter')
  BY <1>1 DEF ScalarPasses
<1>7. hashed'.counter = n /\ hashed'.time = now
  BY <1>3 DEF ScalarPasses
<1>8. /\ DOMAIN coin' = Lane
      /\ \A lane \in Lane : coin'[lane] = ScalarCoin(CounterOf(miner, n, lane), text, now)
  BY <1>3 DEF ScalarPasses
<1>9. \A lane \in Lane : Prepared(miner, text, coin'[lane])
  <2> TAKE lane \in Lane
  <2>1. PICK k \in Nat : k = CounterOf(miner, n, lane)
    BY <1>2, OwnCounter DEF Lane
  <2>2. Prepared(miner, text, ScalarCoin(k, text, now))
    BY <1>1, <1>5, PreparedAgain
  <2> QED
    BY <1>8, <2>1, <2>2
<1>10. steps' \in 0..MaxSteps
  BY BoundAssumption DEF CoinInv, ScalarPasses
<1>11. miner \notin TakesText => text = NoText
  BY DEF CoinInv
<1> HIDE DEF ScalarCoin, CounterOf, Aligned
<1> QED
  BY <1>1, <1>4, <1>5, <1>6, <1>7, <1>8, <1>9, <1>10, <1>11 DEF CoinInv

LEMMA NextLaunchIsNat == counter \in Nat => NextLaunch \in Nat
<1> SUFFICES ASSUME counter \in Nat PROVE NextLaunch \in Nat
  OBVIOUS
<1>1. PICK k \in Nat, size \in Nat \ {0} : k = counter + LaunchThreads /\ size = WordSize
  BY Sizes, LaunchAssumption
<1> QED
  BY <1>1 DEF NextLaunch

LEMMA PassesAreScalar ==
    CoinInv /\ (ScalarPass \/ SimdPass \/ MpiPass \/ WasmSimdPass \/ CudaLaunch \/ OpenClLaunch)
        => \E now \in Times : ScalarPasses(now)
<1> SUFFICES ASSUME CoinInv,
                    ScalarPass \/ SimdPass \/ MpiPass \/ WasmSimdPass \/ CudaLaunch \/ OpenClLaunch
             PROVE  \E now \in Times : ScalarPasses(now)
  OBVIOUS
<1>1. status = "mining"
  BY DEF ScalarPass, SimdPass, MpiPass, WasmSimdPass, CudaLaunch, OpenClLaunch, Pass
<1>2. MinerKnown(miner, text) /\ DOMAIN coin = Lane /\ (miner \notin TakesText => text = NoText)
  BY <1>1 DEF CoinInv
<1>3. miner \in DOMAIN Lanes /\ Startable(text)
  BY <1>2 DEF MinerKnown
<1>4. counter \in Nat /\ Aligned(miner, counter)
  BY DEF CoinInv
<1>5. PICK n \in Nat : n = counter
  BY <1>4
<1>6. \A lane \in Lane : /\ n + lane \in Nat
                         /\ Prepared(miner, text, coin[lane])
                         /\ miner \notin {"mpi", "wasm_simd"} =>
                                CounterOf(miner, counter, lane) = counter + lane
  <2>1. \A lane \in Lane : Prepared(miner, text, coin[lane])
    BY <1>1 DEF CoinInv
  <2>2. \A lane \in Lane : /\ n + lane \in Nat
                           /\ miner \notin {"mpi", "wasm_simd"} =>
                                  CounterOf(miner, n, lane) = n + lane
    BY <1>3, OwnCounter DEF Lane
  <2> QED
    BY <1>5, <2>1, <2>2
<1>7. CASE ScalarPass
  <2>1. \A lane \in Lane : lane = 0
    <3>1. Lanes[miner] = 1
      BY <1>7, LaneCounts DEF ScalarPass
    <3> QED
      BY <3>1 DEF Lane
  <2>2. PICK now \in Times :
            /\ coin' = [lane \in Lane |-> ScalarCoin(counter, text, now)]
            /\ hashed' = [counter |-> counter, time |-> now]
    BY <1>2, <1>7 DEF ScalarPass, Pass
  <2> HIDE DEF ScalarCoin
  <2>3. \A lane \in Lane : CounterOf(miner, counter, lane) = counter
    <3>1. miner \notin {"mpi", "wasm_simd"}
      BY <1>7 DEF ScalarPass
    <3> QED
      BY <1>4, <1>6, <2>1, <3>1
  <2>4. \A lane \in Lane : coin'[lane] = ScalarCoin(CounterOf(miner, counter, lane), text, now)
    BY <2>2, <2>3
  <2>5. counter' \in Nat /\ Aligned(miner, counter')
    BY <1>4, <1>7 DEF ScalarPass, Pass, Aligned, SimdMiners
  <2>6. ScalarPasses(now)
    BY <1>7, <2>2, <2>4, <2>5 DEF ScalarPass, Pass, ScalarPasses
  <2> QED
    BY <2>6
<1>8. CASE SimdPass
  <2>1. miner \in SimdMiners
    BY <1>8 DEF SimdPass
  <2>2. PICK now \in Times :
            /\ coin' = [lane \in Lane |-> TextUpdate(coin[lane], counter, lane, text, now)]
            /\ hashed' = [counter |-> counter, time |-> now]
    BY <1>2, <1>8 DEF SimdPass, Pass
  <2>3. ASSUME NEW lane \in Lane
        PROVE  TextUpdate(coin[lane], n, lane, text, now) = ScalarCoin(n + lane, text, now)
    <3>1. n % Lanes[miner] = 0 /\ lane \in 0..(Lanes[miner] - 1) /\ now \in Word
      BY <1>4, <1>5, <2>1, TimesAssumption DEF Lane, Aligned
    <3>2. Prepared(miner, text, coin[lane])
      BY <1>6
    <3> QED
      BY <1>2, <2>1, <3>1, <3>2, SimdCoin
  <2> HIDE DEF TextUpdate, ScalarCoin
  <2>4. \A lane \in Lane : coin'[lane] = ScalarCoin(CounterOf(miner, counter, lane), text, now)
    <3>1. miner \notin {"mpi", "wasm_simd"}
      BY <2>1 DEF SimdMiners
    <3>2. \A lane \in Lane : coin'[lane] = ScalarCoin(counter + lane, text, now)
      BY <1>5, <2>2, <2>3
    <3> QED
      BY <1>6, <3>1, <3>2
  <2>5. counter' \in Nat /\ Aligned(miner, counter')
    <3>1. PICK L \in {4, 8, 16} : L = Lanes[miner]
      BY <2>1, LaneCounts
    <3>2. n % L = 0 /\ counter' = n + L
      BY <1>4, <1>5, <1>8, <2>1, <3>1 DEF SimdPass, Pass, Aligned
    <3>3. n + L \in Nat /\ (n + L) % L = 0
      BY <3>2
    <3> QED
      BY <3>1, <3>2, <3>3 DEF Aligned
  <2>6. ScalarPasses(now)
    BY <1>8, <2>2, <2>4, <2>5 DEF SimdPass, Pass, ScalarPasses
  <2> QED
    BY <2>6
<1>9. CASE MpiPass
  <2>1. miner = "mpi" /\ text = NoText
    BY <1>2, <1>9 DEF MpiPass, TakesText, SimdMiners
  <2>2. PICK now \in Times :
            /\ coin' = [lane \in Lane |-> MpiUpdate(coin[lane], counter, lane, now)]
            /\ hashed' = [counter |-> counter, time |-> now]
    BY <1>2, <1>9 DEF MpiPass, Pass
  <2>3. ASSUME NEW lane \in Lane
        PROVE  MpiUpdate(coin[lane], n, lane, now) = ScalarCoin(CounterOf(miner, n, lane), text, now)
    <3>1. lane \in 0..(Lanes["mpi"] - 1) /\ now \in Word
      BY <2>1, TimesAssumption DEF Lane
    <3>2. Prepared("mpi", NoText, coin[lane])
      BY <1>6, <2>1
    <3> QED
      BY <2>1, <3>1, <3>2, MpiCoin
  <2> HIDE DEF MpiUpdate, ScalarCoin, CounterOf
  <2>4. \A lane \in Lane : coin'[lane] = ScalarCoin(CounterOf(miner, counter, lane), text, now)
    BY <1>5, <2>2, <2>3
  <2>5. counter' \in Nat /\ Aligned(miner, counter')
    BY <1>4, <1>9, <2>1 DEF MpiPass, Pass, Aligned, SimdMiners
  <2>6. ScalarPasses(now)
    BY <1>9, <2>2, <2>4, <2>5 DEF MpiPass, Pass, ScalarPasses
  <2> QED
    BY <2>6
<1>10. CASE WasmSimdPass
  <2>1. miner = "wasm_simd" /\ text = NoText
    BY <1>2, <1>10 DEF WasmSimdPass, TakesText, SimdMiners
  <2>2. PICK now \in Times :
            /\ coin' = [lane \in Lane |-> WasmUpdate(coin[lane], counter, lane, now)]
            /\ hashed' = [counter |-> counter, time |-> now]
    BY <1>2, <1>10 DEF WasmSimdPass, Pass
  <2>3. ASSUME NEW lane \in Lane
        PROVE  WasmUpdate(coin[lane], n, lane, now) = ScalarCoin(CounterOf(miner, n, lane), text, now)
    <3>1. lane \in 0..(Lanes["wasm_simd"] - 1) /\ now \in Word
      BY <2>1, TimesAssumption DEF Lane
    <3>2. Prepared("wasm_simd", NoText, coin[lane])
      BY <1>6, <2>1
    <3> QED
      BY <2>1, <3>1, <3>2, WasmSimdCoin
  <2> HIDE DEF WasmUpdate, ScalarCoin, CounterOf
  <2>4. \A lane \in Lane : coin'[lane] = ScalarCoin(CounterOf(miner, counter, lane), text, now)
    BY <1>5, <2>2, <2>3
  <2>5. counter' \in Nat /\ Aligned(miner, counter')
    BY <1>4, <1>10, <2>1 DEF WasmSimdPass, Pass, Aligned, SimdMiners
  <2>6. ScalarPasses(now)
    BY <1>10, <2>2, <2>4, <2>5 DEF WasmSimdPass, Pass, ScalarPasses
  <2> QED
    BY <2>6
<1>11. CASE CudaLaunch
  <2>1. PICK now \in Times :
            /\ coin' = [lane \in Lane |-> CudaCoin(counter + lane, text, now)]
            /\ hashed' = [counter |-> counter, time |-> now]
    BY <1>2, <1>11 DEF CudaLaunch, Pass
  <2>2. now \in Word
    BY TimesAssumption
  <2>3. ASSUME NEW lane \in Lane
        PROVE  CudaCoin(n + lane, text, now) = ScalarCoin(n + lane, text, now)
    BY <1>3, <1>6, <2>2, CudaIsScalar
  <2> HIDE DEF CudaCoin, ScalarCoin
  <2>4. \A lane \in Lane : coin'[lane] = ScalarCoin(CounterOf(miner, counter, lane), text, now)
    <3>1. \A lane \in Lane : coin'[lane] = ScalarCoin(counter + lane, text, now)
      BY <1>5, <2>1, <2>3
    <3>2. miner \notin {"mpi", "wasm_simd"}
      BY <1>11 DEF CudaLaunch
    <3> QED
      BY <1>6, <3>1, <3>2
  <2>5. counter' \in Nat /\ Aligned(miner, counter')
    <3>1. counter' = NextLaunch /\ miner \notin SimdMiners
      BY <1>11 DEF CudaLaunch, Pass, SimdMiners
    <3> QED
      BY <1>4, <3>1, NextLaunchIsNat DEF Aligned
  <2>6. ScalarPasses(now)
    BY <1>11, <2>1, <2>4, <2>5 DEF CudaLaunch, Pass, ScalarPasses
  <2> QED
    BY <2>6
<1>12. CASE OpenClLaunch
  <2>1. text = NoText
    BY <1>2, <1>12 DEF OpenClLaunch, TakesText, SimdMiners
  <2>2. PICK now \in Times :
            /\ coin' = [lane \in Lane |-> OpenClCoin(counter + lane, now)]
            /\ hashed' = [counter |-> counter, time |-> now]
    BY <1>2, <1>12 DEF OpenClLaunch, Pass
  <2>3. now \in Word
    BY TimesAssumption
  <2>4. ASSUME NEW lane \in Lane
        PROVE  OpenClCoin(n + lane, now) = ScalarCoin(n + lane, text, now)
    BY <1>6, <2>1, <2>3, OpenClIsPlain
  <2> HIDE DEF OpenClCoin, ScalarCoin
  <2>5. \A lane \in Lane : coin'[lane] = ScalarCoin(CounterOf(miner, counter, lane), text, now)
    <3>1. \A lane \in Lane : coin'[lane] = ScalarCoin(counter + lane, text, now)
      BY <1>5, <2>2, <2>4
    <3>2. miner \notin {"mpi", "wasm_simd"}
      BY <1>12 DEF OpenClLaunch
    <3> QED
      BY <1>6, <3>1, <3>2
  <2>6. counter' \in Nat /\ Aligned(miner, counter')
    <3>1. counter' = NextLaunch /\ miner \notin SimdMiners
      BY <1>12 DEF OpenClLaunch, Pass, SimdMiners
    <3> QED
      BY <1>4, <3>1, NextLaunchIsNat DEF Aligned
  <2>7. ScalarPasses(now)
    BY <1>12, <2>2, <2>5, <2>6 DEF OpenClLaunch, Pass, ScalarPasses
  <2> QED
    BY <2>7
<1> QED
  BY <1>7, <1>8, <1>9, <1>10, <1>11, <1>12

LEMMA NextCoinInv == CoinInv /\ [Next]_vars => CoinInv'
<1> SUFFICES ASSUME CoinInv, [Next]_vars PROVE CoinInv'
  OBVIOUS
<1>1. CASE UNCHANGED vars
  BY <1>1 DEF vars, CoinInv, Lane
<1>2. CASE Refuse
  BY <1>2, RefuseKeepsCoins
<1>3. CASE Start
  BY <1>3, StartKeepsCoins
<1>4. CASE ScalarPass \/ SimdPass \/ MpiPass \/ WasmSimdPass \/ CudaLaunch \/ OpenClLaunch
  BY <1>4, PassesAreScalar, PassKeepsCoins
<1> QED
  BY <1>1, <1>2, <1>3, <1>4 DEF Next

(* The invariant of all miners: the lanes of a running miner hold what its *)
(* next pass keeps, and those of one that has passed hold the coins the    *)
(* scalar miner builds.                                                    *)
THEOREM CoinInvariant == Spec => []CoinInv
BY InitCoinInv, NextCoinInv, PTL DEF Spec

(* The type invariant of the coin layout.                                  *)
THEOREM CoinTypeCorrect == Spec => []TypeOK
<1>1. CoinInv => TypeOK
  <2> SUFFICES ASSUME CoinInv PROVE TypeOK
    OBVIOUS
  <2>1. miner \in DOMAIN Lanes /\ text \in Texts \cup {NoText}
    BY DEF CoinInv, MinerKnown, Startable
  <2>2. \A lane \in DOMAIN coin : coin[lane] \in Coin
    <3>1. CASE status = "mining"
      BY <3>1 DEF CoinInv, Prepared
    <3>2. CASE status # "mining"
      BY <3>2 DEF CoinInv
    <3> QED
      BY <3>1, <3>2
  <2> QED
    BY <2>1, <2>2 DEF CoinInv, TypeOK
<1> QED
  BY <1>1, CoinInvariant, PTL

LEMMA LanesHold == CoinInv => LanesHoldTheirCoins
<1> SUFFICES ASSUME CoinInv, steps > 0, NEW lane \in DOMAIN coin, NEW k \in 0..55
             PROVE  ByteAt(coin[lane], k) =
                        CoinByte(CounterOf(miner, hashed.counter, lane), text, hashed.time, k)
  BY DEF LanesHoldTheirCoins
<1>1. status = "mining"
  BY DEF CoinInv
<1>2. lane \in Lane /\ MinerKnown(miner, text)
  BY <1>1 DEF CoinInv
<1>3. miner \in DOMAIN Lanes /\ Startable(text)
  BY <1>2 DEF MinerKnown
<1>4. PICK n \in Nat : n = hashed.counter
  BY DEF CoinInv
<1>5. PICK now \in Word : now = hashed.time
  BY TimesAssumption DEF CoinInv
<1>6. PICK own \in Nat : own = CounterOf(miner, n, lane)
  BY <1>2, <1>3, OwnCounter DEF Lane
<1>7. coin[lane] = ScalarCoin(own, text, now)
  BY <1>2, <1>4, <1>5, <1>6 DEF CoinInv
<1>8. ByteAt(ScalarCoin(own, text, now), k) = CoinByte(own, text, now, k)
  BY <1>3, CoinBytes
<1> HIDE DEF ScalarCoin, ByteAt, CoinByte, CounterOf
<1> QED
  BY <1>4, <1>5, <1>6, <1>7, <1>8

(* Every lane of every miner holds, after every pass, the coin of its own  *)
(* counter, byte by byte, with the text and the timestamp of that pass,    *)
(* wherever the passes begin; but for the lanes of mpi and wasm_simd       *)
(* behind a wrap within the pass, whose counter is 2^32 lower.             *)
THEOREM EveryLaneHoldsItsCoin == Spec => []LanesHoldTheirCoins
BY LanesHold, CoinInvariant, PTL

LEMMA VaultTakesThem == LanesHoldTheirCoins /\ CoinInv => VaultAccepts
<1> SUFFICES ASSUME LanesHoldTheirCoins, CoinInv, steps > 0,
                    NEW lane \in DOMAIN coin, NoNewline(coin[lane])
             PROVE  MatchesTemplate(coin[lane])
  BY DEF VaultAccepts
<1>1. \A k \in 0..55 :
          ByteAt(coin[lane], k) =
              CoinByte(CounterOf(miner, hashed.counter, lane), text, hashed.time, k)
  BY DEF LanesHoldTheirCoins
<1>2. Startable(text)
  BY DEF CoinInv, MinerKnown
<1>3. PICK l \in 0..27 : l = Len(text)
  BY <1>2, TextFacts
<1>4. PICK m \in 0..7 : m = (l + 3) \div 4
  OBVIOUS
<1> DEFINE own == CounterOf(miner, hashed.counter, lane)
           now == hashed.time
<1> HIDE DEF own, now
<1>5. ASSUME NEW k \in (0..11) \cup {54, 55}
      PROVE  CoinByte(own, text, now, k) = IF k < 12 THEN Letters[k] ELSE IF k = 54 THEN NL ELSE END
  <2> DEFINE p == (own \div Weights[k - 11]) % ByteSize
             q == ((own \div WordSize) \div Weights[k - 15]) % ByteSize
  <2>1. CoinByte(own, text, now, k) =
            CASE k < 12 -> Letters[k]
              [] k \in 12..15 -> p
              [] k \in 16..19 -> q
              [] k \in 20..(19 + l) -> text[k - 19]
              [] k \in (20 + 4 * m)..(20 + 4 * m + 3) -> now[k - (20 + 4 * m) + 1]
              [] k = 54 -> NL
              [] k = 55 -> END
              [] OTHER -> 0
    BY <1>3, <1>4 DEF CoinByte
  <2> HIDE DEF p, q
  <2>2. /\ k \notin 12..15 /\ k \notin 16..19 /\ k \notin 20..(19 + l)
        /\ k \notin (20 + 4 * m)..(20 + 4 * m + 3)
    BY <1>4
  <2> QED
    BY <2>1, <2>2
<1>6. /\ \A k \in 0..11 : CoinByte(own, text, now, k) = Letters[k]
      /\ CoinByte(own, text, now, 54) = NL /\ CoinByte(own, text, now, 55) = END
  <2> HIDE DEF CoinByte
  <2> QED
    BY <1>5
<1>7. \A k \in 0..11 : ByteAt(coin[lane], k) = Letters[k]
  <2> TAKE k \in 0..11
  <2>1. k \in 0..55
    OBVIOUS
  <2>2. ByteAt(coin[lane], k) = CoinByte(own, text, now, k)
    BY <1>1, <2>1 DEF own, now
  <2> QED
    BY <1>6, <2>2
<1>8. ByteAt(coin[lane], 54) = NL /\ ByteAt(coin[lane], 55) = END
  <2>1. \A k \in {54, 55} : ByteAt(coin[lane], k) = CoinByte(own, text, now, k)
    BY <1>1 DEF own, now
  <2> HIDE DEF ByteAt, CoinByte
  <2>2. CoinByte(own, text, now, 54) = NL /\ CoinByte(own, text, now, 55) = END
    BY <1>6
  <2> QED
    BY <2>1, <2>2
<1>9. \A k \in 12..53 : ByteAt(coin[lane], k) # NL
  BY DEF NoNewline
<1> QED
  BY <1>7, <1>8, <1>9 DEF MatchesTemplate

(* Whatever a miner passes on after its own check, the vault accepts.      *)
THEOREM NoMinerEndsInTheVault == Spec => []VaultAccepts
BY LanesHold, VaultTakesThem, CoinInvariant, PTL

-----------------------------------------------------------------------------
(* From the coins to the hash: with bytes of eight bits a word of a coin   *)
(* is a word of module Sha1.                                               *)

PowersOfTwo == <<1, 2, 4, 8, 16, 32, 64, 128>>
BitsOf(word) == {i \in Bits : (word[4 - (i \div 8)] \div PowersOfTwo[(i % 8) + 1]) % 2 = 1}
MessageOf(words) == [i \in 0..13 |-> BitsOf(words[i])]

(* What module Sha1 assumes of its messages *)
EndsWithPadding(message) ==
    message \in [0..13 -> Word32] /\ message[13] \cap 0..7 = {7}

LEMMA CoinIsMessage ==
    ASSUME END = 128, NEW words, ByteAt(words, 55) = END
    PROVE  EndsWithPadding(MessageOf(words))
<1>1. MessageOf(words) \in [0..13 -> Word32]
  BY DEF MessageOf, BitsOf, Word32
<1>2. words[13][4] = 128
  <2>1. 55 \div 4 = 13 /\ (55 % 4) + 1 = 4
    OBVIOUS
  <2> QED
    BY <2>1 DEF ByteAt
<1>3. \A i \in 0..7 : (128 \div PowersOfTwo[i + 1]) % 2 = 1 <=> i = 7
  BY DEF PowersOfTwo
<1>4. ASSUME NEW i \in 0..7 PROVE i \in BitsOf(words[13]) <=> i = 7
  <2>1. i \div 8 = 0 /\ i % 8 = i /\ i \in Bits
    BY DEF Bits
  <2>2. i \in BitsOf(words[13]) <=> (words[13][4] \div PowersOfTwo[i + 1]) % 2 = 1
    BY <2>1 DEF BitsOf
  <2> QED
    BY <1>2, <1>3, <2>2
<1>5. MessageOf(words)[13] \cap 0..7 = {7}
  BY <1>4 DEF MessageOf
<1> QED
  BY <1>1, <1>5 DEF EndsWithPadding

CoinsAreMessages ==
    steps > 0 => \A lane \in DOMAIN coin : EndsWithPadding(MessageOf(coin[lane]))

(* In the program, where the last byte of the template is 0x80, whatever a *)
(* miner hashes is what aad_sha1.h asks for (and module Sha1 assumes).     *)
THEOREM EveryCoinIsAMessage ==
    ASSUME END = 128
    PROVE  Spec => []CoinsAreMessages
<1>1. CoinInv => CoinsAreMessages
  <2> SUFFICES ASSUME CoinInv, steps > 0, NEW lane \in DOMAIN coin
               PROVE  EndsWithPadding(MessageOf(coin[lane]))
    BY DEF CoinsAreMessages
  <2>1. ByteAt(coin[lane], 55) = END
    <3>1. lane \in Lane /\ MinerKnown(miner, text)
      BY DEF CoinInv
    <3>2. PICK own \in Nat : own = CounterOf(miner, hashed.counter, lane)
      <4>1. PICK n \in Nat : n = hashed.counter
        BY DEF CoinInv
      <4> QED
        BY <3>1, <4>1, OwnCounter DEF Lane, MinerKnown
    <3>3. PICK now \in Word : now = hashed.time
      BY TimesAssumption DEF CoinInv
    <3>4. coin[lane] = ScalarCoin(own, text, now)
      BY <3>1, <3>2, <3>3 DEF CoinInv
    <3>5. ScalarCoin(own, text, now)[13] = EndWord
      BY <3>1, CoinWords DEF MinerKnown
    <3>6. 55 \div 4 = 13 /\ (55 % 4) + 1 = 4
      OBVIOUS
    <3> QED
      BY <3>4, <3>5, <3>6, FixedWords DEF ByteAt
  <2> QED
    BY <2>1, CoinIsMessage
<1> QED
  BY <1>1, CoinInvariant, PTL
=============================================================================
