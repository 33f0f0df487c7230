--------------------------- MODULE WasmMinerProofs ---------------------------
(***************************************************************************)
(* The coins and the counts of the browser miner (module WasmMiner), for   *)
(* any number of lanes, size of a word and of the buffer, batches, seeds   *)
(* and coins, and every order of clicks and timers.                        *)
(***************************************************************************)
EXTENDS WasmMiner, SumTheorems, SequenceTheorems

LEMMA WasmSizes ==
    /\ LANES \in Nat /\ LANES > 0 /\ MAX_COINS \in Nat /\ MAX_COINS > 0
    /\ WORD \in Nat /\ WORD > 0 /\ LANES <= WORD
    /\ MaxHashes \in Nat /\ MaxStarts \in Nat
    /\ BatchSizes \subseteq Nat /\ \A seed \in Seeds : seed \in 0..(WORD - 1)
  BY LanesAssumption, BufferAssumption, InputsAssumption, BoundsAssumption

LEMMA HashesAreNat == \A n \in Nat : HashesOf(n) \in Nat /\ HashesOf(n) % LANES = 0
<1> TAKE n \in Nat
<1>1. PICK l \in Nat \ {0} : l = LANES
  BY WasmSizes
<1>2. PICK q \in Nat : q = n \div l
  BY <1>1, NaturalQuotient
<1>3. PICK m \in Nat : m = q * l
  OBVIOUS
<1>4. m = q * l + 0 /\ 0 \in 0..(l - 1)
  BY <1>3
<1>5. m % l = 0
  BY <1>4, RemainderOf
<1> QED
  BY <1>1, <1>2, <1>3, <1>5 DEF HashesOf

-----------------------------------------------------------------------------
(* Counters *)

LEMMA CountersSize ==
    \E m \in Nat \ {0} : m = WORD * WORD
<1>1. PICK b \in Nat \ {0} : b = WORD
  BY WasmSizes
<1>2. PICK m \in Nat : m = b * b
  OBVIOUS
<1>3. 0 * b + b <= b * b
  BY <1>1, ProductGrows
<1>4. m # 0
  BY <1>2, <1>3
<1> QED
  BY <1>1, <1>2, <1>4

LEMMA CountedTwice ==
    ASSUME NEW b \in Nat, NEW x \in Nat, NEW y \in Nat
    PROVE  /\ Counted(b, x) \in Nat /\ Counted(b, x) < WORD * WORD
           /\ Counted(Counted(b, x), y) = Counted(b, x + y)
<1>1. PICK m \in Nat \ {0} : m = WORD * WORD
  BY CountersSize
<1>2. b + x \in Nat
  OBVIOUS
<1>3. PICK q \in Int, u \in 0..(m - 1) : b + x = q * m + u /\ u = (b + x) % m
  BY <1>2, QuotientAndRemainder
<1>4. u + y \in Nat
  OBVIOUS
<1>5. PICK p \in Int, v \in 0..(m - 1) : u + y = p * m + v /\ v = (u + y) % m
  BY <1>4, QuotientAndRemainder
<1>6. b + (x + y) \in Nat /\ q + p \in Int
  OBVIOUS
<1>7. b + (x + y) = (q + p) * m + v
  <2>1. PICK g \in Int, h \in Int : g = q * m /\ h = p * m
    OBVIOUS
  <2>2. (q + p) * m = g + h
    BY <2>1
  <2>3. b + (x + y) = g + (h + v)
    <3>1. b + x = g + u /\ u + y = h + v
      BY <1>3, <1>5, <2>1
    <3>2. u \in Int /\ v \in Int
      OBVIOUS
    <3> QED
      BY <3>1, <3>2
  <2>4. v \in Int
    OBVIOUS
  <2> QED
    BY <2>1, <2>2, <2>3, <2>4
<1>8. (b + (x + y)) % m = v
  BY <1>6, <1>7, RemainderOf
<1>9. Counted(b, x) = u /\ Counted(u, y) = v /\ Counted(b, x + y) = v
  BY <1>1, <1>3, <1>5, <1>8 DEF Counted
<1> QED
  BY <1>1, <1>9

(* What the property CountersContiguous says of hash p of a session whose  *)
(* first counter is b: counter c, but behind a wrap of the low word.       *)
Wrapped(c, j) == IF c % WORD < j THEN (c - WORD) % (WORD * WORD) ELSE c
HashOf(b, p) == Wrapped(Counted(b, p), p % LANES)

LEMMA CounterOfHashIs == \A p : CounterOfHash(p) = HashOf(first, p)
  BY DEF CounterOfHash, HashOf, Wrapped

LEMMA NegativeRemainder ==
    ASSUME NEW m \in Nat \ {0}, NEW n \in 1..m
    PROVE  (0 - n) % m = m - n
<1>1. PICK q \in Int, u \in 0..(m - 1) : 0 - n = q * m + u /\ u = (0 - n) % m
  OBVIOUS
<1>2. PICK g \in Int : g = q * m
  OBVIOUS
<1>3. 0 - n = g + u
  BY <1>1, <1>2
<1>4. CASE q < -1
  <2>1. q * m + m <= (-1) * m
    BY <1>4, ProductGrows
  <2> QED
    BY <1>2, <1>3, <2>1
<1>5. CASE q > -1
  <2>1. (-1) * m + m <= q * m
    BY <1>5, ProductGrows
  <2> QED
    BY <1>2, <1>3, <2>1
<1>6. CASE q = -1
  <2>1. g = -m
    BY <1>2, <1>6
  <2> QED
    BY <1>1, <1>3, <2>1
<1> QED
  BY <1>4, <1>5, <1>6

(* The two words of a lane, from the counter of its step *)
LEMMA LaneCounterIs ==
    ASSUME NEW c \in Nat, c < WORD * WORD, NEW j \in 0..(LANES - 1)
    PROVE  LaneCounter(c, j) = Wrapped(Counted(c, j), j)
<1>1. PICK b \in Nat \ {0} : b = WORD
  BY WasmSizes
<1>2. PICK m \in Nat \ {0} : m = WORD * WORD
  BY CountersSize
<1>3. m = b * b
  BY <1>1, <1>2
<1>4. PICK h \in Int, l \in 0..(b - 1) : c = h * b + l /\ l = c % b
  BY QuotientAndRemainder
<1>5. c \div b = h
  BY <1>4, QuotientOf
<1>6. PICK g \in Int : g = h * b
  OBVIOUS
<1>7. c = g + l
  BY <1>4, <1>6
<1>8. h \in Nat
  <2>1. c \div b \in Nat
    BY NaturalQuotient
  <2> QED
    BY <1>5, <2>1
<1>9. h < b
  <2>1. SUFFICES ASSUME b <= h PROVE FALSE
    BY <1>8
  <2>2. b - 1 < h /\ b - 1 \in Int
    BY <2>1, <1>8
  <2>3. (b - 1) * b + b <= h * b
    BY <2>2, <1>8, ProductGrows
  <2>4. (b - 1) * b + b = b * b
    OBVIOUS
  <2>5. m <= g
    BY <1>3, <1>6, <2>3, <2>4
  <2> QED
    BY <1>2, <1>7, <2>5
<1>10. g + b <= m
  <2>1. h * b + b <= b * b
    BY <1>8, <1>9, ProductGrows
  <2> QED
    BY <1>3, <1>6, <2>1
<1>11. g \in Nat
  BY <1>6, <1>8
<1>12. j \in Nat /\ j < b
  BY <1>1, WasmSizes
<1>13. LaneCounter(c, j) = g + ((c + j) % b) /\ Counted(c, j) = (c + j) % m
  BY <1>1, <1>2, <1>5, <1>6 DEF LaneCounter, Counter, Counted
<1>14. CASE l + j < b
  <2>1. l + j \in 0..(b - 1) /\ c + j \in 0..(m - 1) /\ c + j \in Nat
    BY <1>7, <1>10, <1>11, <1>12, <1>14
  <2>2. c + j = h * b + (l + j) /\ c + j = 0 * m + (c + j)
    BY <1>6, <1>7, <1>12
  <2>3. (c + j) % b = l + j
    BY <2>1, <2>2, RemainderOf
  <2>4. (c + j) % m = c + j
    BY <2>1, <2>2, RemainderOf
  <2>5. ~(l + j < j)
    BY <1>12
  <2>6. Wrapped(c + j, j) = c + j
    BY <1>1, <2>3, <2>5 DEF Wrapped
  <2>7. g + (l + j) = c + j
    BY <1>7, <1>12
  <2> QED
    BY <1>13, <2>3, <2>4, <2>6, <2>7
<1>15. CASE l + j >= b
  <2>1. PICK v \in 0..(b - 1) : v = l + j - b
    BY <1>12, <1>15
  <2>2. v < j /\ v \in Nat
    BY <2>1, <1>12
  <2>3. c + j = (g + b) + v
    BY <1>7, <1>12, <2>1
  <2>4. (h + 1) * b = g + b
    BY <1>6
  <2>5. c + j = (h + 1) * b + v /\ c + j \in Nat /\ h + 1 \in Int
    BY <1>12, <2>3, <2>4
  <2>6. (c + j) % b = v
    BY <2>5, RemainderOf
  <2>7. g + v \in 0..(m - 1) /\ g + v \in Nat
    BY <1>10, <1>11, <2>1
  <2>8. CASE h + 1 < b
    <3>1. (h + 1) * b + b <= b * b
      BY <1>8, <2>8, ProductGrows
    <3>2. c + j \in 0..(m - 1)
      BY <1>3, <1>11, <2>3, <2>4, <3>1
    <3>3. c + j = 0 * m + (c + j)
      BY <1>12
    <3>4. (c + j) % m = c + j
      BY <2>5, <3>2, <3>3, RemainderOf
    <3>5. (c + j) - b = g + v
      BY <2>3, <1>11
    <3>6. g + v = 0 * m + (g + v)
      BY <2>7
    <3>7. (g + v) % m = g + v
      BY <2>7, <3>6, RemainderOf
    <3>8. Wrapped(c + j, j) = g + v
      BY <1>1, <1>2, <2>2, <2>6, <3>5, <3>7 DEF Wrapped
    <3> QED
      BY <1>13, <2>6, <3>4, <3>8
  <2>9. CASE h + 1 = b
    <3>1. g + b = m
      BY <1>3, <2>4, <2>9
    <3>2. c + j = 1 * m + v /\ v \in 0..(m - 1) /\ 1 \in Int
      BY <1>10, <1>11, <2>3, <3>1
    <3>3. (c + j) % m = v
      BY <2>5, <3>2, RemainderOf
    <3>4. v % b = v
      <4>1. v = 0 * b + v
        BY <2>2
      <4> QED
        BY <2>1, <2>2, <4>1, RemainderOf
    <3>5. (v - b) % m = g + v
      <4>1. PICK n \in 1..m : n = b - v
        <5>1. b - v >= 1 /\ b - v <= m
          <6>1. b <= m /\ v \in Int /\ 0 <= v /\ v < b
            BY <1>10, <1>11
          <6> QED
            BY <6>1
        <5>2. b - v \in 1..m
          BY <5>1
        <5> QED
          BY <5>2
      <4>2. (0 - n) % m = m - n
        BY NegativeRemainder
      <4>3. 0 - n = v - b /\ m - n = g + v
        BY <2>2, <3>1, <4>1
      <4> QED
        BY <4>2, <4>3
    <3>6. Wrapped(v, j) = g + v
      BY <1>1, <1>2, <2>2, <3>4, <3>5 DEF Wrapped
    <3> QED
      BY <1>13, <2>6, <3>3, <3>6
  <2> QED
    BY <1>8, <1>9, <2>8, <2>9
<1> QED
  BY <1>12, <1>14, <1>15

(* A batch that starts with hash h of a session goes on in its counters.   *)
LEMMA BatchGoesOn ==
    ASSUME NEW b \in Nat, NEW h \in Nat, h % LANES = 0, NEW k \in Nat
    PROVE  HashedCounter(Counted(b, h), k) = HashOf(b, h + k)
<1>1. PICK l \in Nat \ {0} : l = LANES
  BY WasmSizes
<1>2. PICK q \in Int, j \in 0..(l - 1) : k = q * l + j /\ j = k % l
  BY QuotientAndRemainder
<1>3. PICK p \in Int : h = p * l
  <2>1. PICK p \in Int, u \in 0..(l - 1) : h = p * l + u /\ u = h % l
    BY QuotientAndRemainder
  <2>2. u = 0
    BY <1>1, <2>1
  <2> QED
    BY <2>1, <2>2
<1>4. (h + k) % l = j
  <2>1. PICK f \in Int, g \in Int : f = p * l /\ g = q * l
    OBVIOUS
  <2>2. (p + q) * l = f + g
    BY <2>1
  <2>3. h + k = f + (g + j) /\ j \in Int
    BY <1>2, <1>3, <2>1
  <2>4. h + k = (p + q) * l + j /\ h + k \in Nat /\ p + q \in Int
    BY <2>1, <2>2, <2>3
  <2> QED
    BY <2>4, RemainderOf
<1>5. PICK a \in Nat : a = k - j
  <2>1. k \div l \in Nat
    BY NaturalQuotient
  <2>2. k \div l = q
    BY <1>2, QuotientOf
  <2>3. q \in Nat
    BY <2>1, <2>2
  <2>4. PICK g \in Nat : g = q * l
    BY <2>3
  <2>5. k = g + j
    BY <1>2, <2>4
  <2>6. k - j = g
    BY <2>4, <2>5
  <2> QED
    BY <2>6
<1>6. j \in Nat /\ j \in 0..(LANES - 1) /\ a + j = k
  BY <1>1, <1>5
<1>7. PICK c \in Nat : c = Counted(b, h + a) /\ c < WORD * WORD
  <2>1. h + a \in Nat
    OBVIOUS
  <2> QED
    BY <2>1, CountedTwice
<1>8. Counted(Counted(b, h), a) = c
  BY <1>7, CountedTwice
<1>9. Counted(c, j) = Counted(b, h + k)
  <2>1. PICK x \in Nat : x = h + a
    OBVIOUS
  <2>2. Counted(Counted(b, x), j) = Counted(b, x + j)
    BY <1>6, CountedTwice
  <2>3. x + j = h + k
    BY <1>6, <2>1
  <2> QED
    BY <1>7, <2>1, <2>2, <2>3
<1>10. HashedCounter(Counted(b, h), k) = LaneCounter(c, j)
  BY <1>1, <1>2, <1>5, <1>8 DEF HashedCounter
<1>11. LaneCounter(c, j) = Wrapped(Counted(c, j), j)
  BY <1>6, <1>7, LaneCounterIs
<1>12. HashOf(b, h + k) = Wrapped(Counted(b, h + k), j)
  BY <1>1, <1>4 DEF HashOf
<1> QED
  BY <1>9, <1>10, <1>11, <1>12

-----------------------------------------------------------------------------
(* The coins of a batch *)

(* The recursive function behind CoinsFrom *)
Finds(f, s, c, h, m) ==
    f = [k \in 0..m |-> IF k = 0 THEN <<>>
                        ELSE IF HashedCounter(c, k - 1) \in Golden
                             THEN Append(f[k - 1], <<s, h + (k - 1)>>)
                             ELSE f[k - 1]]

LEMMA CoinsFound ==
    ASSUME NEW s, NEW c, NEW h, NEW n
    PROVE  CoinsFrom(s, c, h, n) = (CHOOSE f : Finds(f, s, c, h, HashesOf(n)))[HashesOf(n)]
  BY DEF CoinsFrom, Finds

LEMMA FindsExist ==
    ASSUME NEW s, NEW c, NEW x, NEW m \in Nat
    PROVE  \E f : Finds(f, s, c, x, m)
<1> DEFINE T == {k \in Nat : \E f : Finds(f, s, c, x, k)}
<1>1. 0 \in T
  <2>1. Finds([k \in 0..0 |-> <<>>], s, c, x, 0)
    BY DEF Finds
  <2> QED
    BY <2>1
<1>2. ASSUME NEW j \in T PROVE j + 1 \in T
  <2>1. PICK g : Finds(g, s, c, x, j)
    OBVIOUS
  <2> DEFINE next(f, k) == IF k = 0 THEN <<>>
                           ELSE IF HashedCounter(c, k - 1) \in Golden
                                THEN Append(f[k - 1], <<s, x + (k - 1)>>)
                                ELSE f[k - 1]
             h == [k \in 0..(j + 1) |-> next(g, k)]
  <2>2. \A k \in 0..(j + 1) : k = 0 \/ k - 1 \in 0..j
    OBVIOUS
  <2>3. \A k \in 0..j : h[k] = g[k]
    <3>1. \A k \in 0..j : k \in 0..(j + 1)
      OBVIOUS
    <3>2. g = [k \in 0..j |-> next(g, k)]
      BY <2>1 DEF Finds
    <3> HIDE DEF next
    <3>3. \A k \in 0..j : g[k] = next(g, k)
      BY <3>2
    <3> QED
      BY <3>1, <3>3
  <2>4. \A k \in 0..(j + 1) : next(g, k) = next(h, k)
    BY <2>2, <2>3
  <2>5. h = [k \in 0..(j + 1) |-> next(h, k)]
    <3> HIDE DEF next
    <3> QED
      BY <2>4
  <2>6. Finds(h, s, c, x, j + 1)
    BY <2>5 DEF Finds
  <2> QED
    BY <2>6
<1>3. T = Nat
  <2> HIDE DEF T
  <2>1. T \in SUBSET Nat
    BY DEF T
  <2> QED
    BY <1>1, <1>2, <2>1, NaturalsBySuccessor
<1> QED
  BY <1>3

Pairs == (Nat \ {0}) \X Nat

LEMMA PairsAre == \A p \in Pairs : p[1] \in Nat /\ p[1] > 0 /\ p[2] \in Nat
<1> TAKE p \in Pairs
<1>1. PICK a \in Nat \ {0}, b \in Nat : p = <<a, b>>
  BY DEF Pairs
<1> QED
  BY <1>1

CoinsOf(t) == {t[i] : i \in 1..Len(t)}

(* Coins of session s among its hashes c to d - 1, in order *)
InOrder(t, s, c, d) ==
    /\ t \in Seq(Pairs)
    /\ \A i \in 1..Len(t) : t[i][1] = s /\ c <= t[i][2] /\ t[i][2] < d
    /\ \A i, j \in 1..Len(t) : i < j => t[i][2] < t[j][2]

LEMMA OneMoreCoin ==
    ASSUME NEW s \in Nat \ {0}, NEW c \in Nat, NEW d \in Nat, NEW t, InOrder(t, s, c, d), c <= d
    PROVE  /\ InOrder(t, s, c, d + 1)
           /\ InOrder(Append(t, <<s, d>>), s, c, d + 1)
           /\ CoinsOf(Append(t, <<s, d>>)) = CoinsOf(t) \cup {<<s, d>>}
<1>1. PICK n \in Nat : n = Len(t) /\ t \in Seq(Pairs)
  BY DEF InOrder
<1>2. \A i \in 1..n : t[i] \in Pairs
  BY <1>1
<1>3. \A i \in 1..n : t[i][1] \in Nat /\ t[i][2] \in Nat /\ t[i][1] = s /\ c <= t[i][2] /\ t[i][2] < d
  BY <1>1, <1>2, PairsAre DEF InOrder
<1>4. InOrder(t, s, c, d + 1)
  BY <1>1, <1>3 DEF InOrder
<1> DEFINE u == Append(t, <<s, d>>)
<1>5. Len(u) = n + 1 /\ u[n + 1] = <<s, d>> /\ \A i \in 1..n : u[i] = t[i]
  BY <1>1
<1>6. \A i \in 1..(n + 1) : i \in 1..n \/ i = n + 1
  OBVIOUS
<1>7. u \in Seq(Pairs)
  <2>1. <<s, d>> \in Pairs
    BY DEF Pairs
  <2> QED
    BY <1>1, <2>1
<1> HIDE DEF u
<1>8. \A i \in 1..Len(u) : u[i][1] = s /\ c <= u[i][2] /\ u[i][2] < d + 1
  BY <1>3, <1>5, <1>6
<1>9. \A i, j \in 1..Len(u) : i < j => u[i][2] < u[j][2]
  <2> SUFFICES ASSUME NEW i \in 1..(n + 1), NEW j \in 1..(n + 1), i < j PROVE u[i][2] < u[j][2]
    BY <1>5
  <2>1. i \in 1..n
    OBVIOUS
  <2>2. CASE j = n + 1
    BY <1>3, <1>5, <2>1, <2>2
  <2>3. CASE j \in 1..n
    BY <1>1, <1>5, <2>1, <2>3 DEF InOrder
  <2> QED
    BY <1>6, <2>2, <2>3
<1>10. CoinsOf(u) = CoinsOf(t) \cup {<<s, d>>}
  <2>1. \A i \in 1..n : i \in 1..(n + 1)
    OBVIOUS
  <2>2. n + 1 \in 1..(n + 1)
    OBVIOUS
  <2> QED
    BY <1>1, <1>5, <1>6, <2>1, <2>2 DEF CoinsOf
<1>11. InOrder(u, s, c, d + 1)
  BY <1>7, <1>8, <1>9 DEF InOrder
<1> QED
  BY <1>4, <1>10, <1>11 DEF u

(* The coins of a batch of m hashes *)
Hits(s, c, h, m) == {<<s, h + k>> : k \in {k \in 0..(m - 1) : HashedCounter(c, k) \in Golden}}

(* A batch finds every coin of its counters, once, and in order. *)
LEMMA BatchCoins ==
    ASSUME NEW s \in Nat \ {0}, NEW c, NEW h \in Nat, NEW n \in Nat
    PROVE  /\ InOrder(CoinsFrom(s, c, h, n), s, h, h + HashesOf(n))
           /\ CoinsOf(CoinsFrom(s, c, h, n)) = Hits(s, c, h, HashesOf(n))
<1>1. PICK m \in Nat : m = HashesOf(n)
  BY HashesAreNat
<1>2. PICK g : Finds(g, s, c, h, m)
  BY FindsExist
<1>3. PICK f : Finds(f, s, c, h, m) /\ CoinsFrom(s, c, h, n) = f[m]
  BY <1>1, <1>2, CoinsFound
<1>4. \A k \in 0..m : f[k] = IF k = 0 THEN <<>>
                            ELSE IF HashedCounter(c, k - 1) \in Golden
                                 THEN Append(f[k - 1], <<s, h + (k - 1)>>)
                                 ELSE f[k - 1]
  BY <1>3 DEF Finds
<1> DEFINE P(k) == InOrder(f[k], s, h, h + k) /\ CoinsOf(f[k]) = Hits(s, c, h, k)
           T == {k \in Nat : k <= m => P(k)}
<1>5. 0 \in T
  <2>1. f[0] = <<>> /\ 0..(0 - 1) = {}
    <3>1. 0 \in 0..m
      OBVIOUS
    <3>2. f[0] = <<>>
      BY <1>4, <3>1
    <3> QED
      BY <3>2
  <2>2. InOrder(<<>>, s, h, h + 0) /\ CoinsOf(<<>>) = {}
    BY DEF InOrder, CoinsOf
  <2>3. Hits(s, c, h, 0) = {}
    BY <2>1 DEF Hits
  <2> QED
    BY <2>1, <2>2, <2>3
<1>6. ASSUME NEW k \in T PROVE k + 1 \in T
  <2>1. SUFFICES ASSUME k + 1 <= m PROVE P(k + 1)
    OBVIOUS
  <2>2. P(k) /\ k + 1 \in 1..m /\ k \in Nat /\ (k + 1) - 1 = k
    BY <2>1
  <2>3. f[k + 1] = IF HashedCounter(c, k) \in Golden THEN Append(f[k], <<s, h + k>>) ELSE f[k]
    BY <1>4, <2>2
  <2>4. PICK d \in Nat : d = h + k /\ h + (k + 1) = d + 1 /\ h <= d
    BY <2>2
  <2> DEFINE t == f[k]
  <2> HIDE DEF t
  <2>5. InOrder(t, s, h, d) /\ CoinsOf(t) = Hits(s, c, h, k)
    BY <2>2, <2>4 DEF t
  <2>6. /\ InOrder(t, s, h, d + 1)
        /\ InOrder(Append(t, <<s, d>>), s, h, d + 1)
        /\ CoinsOf(Append(t, <<s, d>>)) = CoinsOf(t) \cup {<<s, d>>}
    BY <2>4, <2>5, OneMoreCoin
  <2>7. 0..((k + 1) - 1) = (0..(k - 1)) \cup {k}
    BY <2>2
  <2>8. CASE HashedCounter(c, k) \notin Golden
    <3>1. Hits(s, c, h, k + 1) = Hits(s, c, h, k)
      BY <2>7, <2>8 DEF Hits
    <3> QED
      BY <2>3, <2>4, <2>5, <2>6, <2>8, <3>1 DEF t
  <2>9. CASE HashedCounter(c, k) \in Golden
    <3>1. Hits(s, c, h, k + 1) = Hits(s, c, h, k) \cup {<<s, h + k>>}
      BY <2>7, <2>9 DEF Hits
    <3>2. f[k + 1] = Append(t, <<s, d>>)
      BY <2>3, <2>4, <2>9 DEF t
    <3> QED
      BY <2>4, <2>5, <2>6, <3>1, <3>2
  <2> QED
    BY <2>8, <2>9
<1>7. T = Nat
  <2> HIDE DEF T
  <2>1. T \in SUBSET Nat
    BY DEF T
  <2> QED
    BY <1>5, <1>6, <2>1, NaturalsBySuccessor
<1>8. P(m)
  <2>1. m \in T
    BY <1>7
  <2> HIDE DEF P
  <2> QED
    BY <2>1
<1> QED
  BY <1>1, <1>3, <1>8

-----------------------------------------------------------------------------
(* What the page has *)

(* The list of the page in order, its last session and the hash behind its *)
(* last coin                                                               *)
InList(f, s, c) ==
    /\ f \in Seq(Pairs)
    /\ \A i, j \in 1..Len(f) : i < j => Before(f[i], f[j])
    /\ \A i \in 1..Len(f) : f[i][1] < s \/ (f[i][1] = s /\ f[i][2] < c)

OfSession(f, s) == {i \in DOMAIN f : f[i][1] = s}

LEMMA BothPairs ==
    \A f, u \in Seq(Pairs) :
        /\ f \o u \in Seq(Pairs) /\ Len(f \o u) = Len(f) + Len(u)
        /\ DOMAIN f = 1..Len(f) /\ DOMAIN (f \o u) = 1..(Len(f) + Len(u))
        /\ \A i \in 1..Len(f) : (f \o u)[i] = f[i]
        /\ \A j \in 1..Len(u) : (f \o u)[Len(f) + j] = u[j]
<1> TAKE f, u \in Seq(Pairs)
<1> HIDE DEF Pairs
<1>1. PICK n \in Nat, m \in Nat : n = Len(f) /\ m = Len(u)
  BY LenProperties
<1>2. /\ DOMAIN f = 1..n /\ DOMAIN (f \o u) = 1..(n + m) /\ Len(f \o u) = n + m
      /\ \A k \in 1..n : (f \o u)[k] = f[k]
      /\ \A k \in 1..m : (f \o u)[n + k] = u[k]
  BY <1>1
<1>3. f \o u \in Seq(Pairs)
  OBVIOUS
<1> QED
  BY <1>1, <1>2, <1>3

(* The page gets the first coins of a batch. *)
LEMMA ListGrows ==
    ASSUME NEW s \in Nat, NEW c \in Nat, NEW d \in Nat, NEW f, InList(f, s, c), c <= d,
           NEW t, InOrder(t, s, c, d), NEW k \in 0..Len(t)
    PROVE  /\ InList(f \o SubSeq(t, 1, k), s, d)
           /\ CoinsOf(f \o SubSeq(t, 1, k)) = CoinsOf(f) \cup {t[i] : i \in 1..k}
           /\ Cardinality(OfSession(f, s)) \in Nat
           /\ Cardinality(OfSession(f \o SubSeq(t, 1, k), s)) = Cardinality(OfSession(f, s)) + k
<1>1. PICK n \in Nat, m \in Nat : n = Len(f) /\ m = Len(t) /\ k \in 0..m
  BY LenProperties DEF InList, InOrder
<1> DEFINE h == f \o SubSeq(t, 1, k)
<1>2. /\ h \in Seq(Pairs) /\ Len(h) = n + k /\ DOMAIN h = 1..(n + k) /\ DOMAIN f = 1..n
      /\ \A i \in 1..n : h[i] = f[i]
      /\ \A i \in (n + 1)..(n + k) : \E j \in 1..m : i = n + j /\ h[i] = t[j]
      /\ \A j \in 1..k : h[n + j] = t[j]
  <2>1. SubSeq(t, 1, k) \in Seq(Pairs) /\ Len(SubSeq(t, 1, k)) = k
        /\ \A i \in 1..k : SubSeq(t, 1, k)[i] = t[i]
    BY <1>1 DEF InOrder
  <2> DEFINE u == SubSeq(t, 1, k)
  <2> HIDE DEF u
  <2>2. u \in Seq(Pairs) /\ Len(u) = k /\ \A i \in 1..k : u[i] = t[i]
    BY <2>1 DEF u
  <2>3. /\ f \o u \in Seq(Pairs) /\ Len(f \o u) = n + k /\ DOMAIN (f \o u) = 1..(n + k)
        /\ DOMAIN f = 1..n
        /\ \A i \in 1..n : (f \o u)[i] = f[i]
        /\ \A j \in 1..k : (f \o u)[n + j] = u[j]
    <3>1. f \in Seq(Pairs) /\ n = Len(f) /\ k \in Nat
      BY <1>1 DEF InList
    <3> HIDE DEF Pairs
    <3>2. /\ f \o u \in Seq(Pairs) /\ Len(f \o u) = Len(f) + Len(u)
          /\ DOMAIN f = 1..Len(f) /\ DOMAIN (f \o u) = 1..(Len(f) + Len(u))
          /\ \A i \in 1..Len(f) : (f \o u)[i] = f[i]
          /\ \A j \in 1..Len(u) : (f \o u)[Len(f) + j] = u[j]
      BY <2>2, <3>1, BothPairs
    <3> QED
      BY <2>2, <3>1, <3>2
  <2>4. \A i \in (n + 1)..(n + k) : \E j \in 1..k : i = n + j /\ j \in 1..m
    <3> TAKE i \in (n + 1)..(n + k)
    <3>1. i - n \in 1..k /\ i - n \in 1..m /\ i = n + (i - n)
      BY <1>1
    <3> QED
      BY <3>1
  <2> QED
    BY <2>2, <2>3, <2>4 DEF u
<1> HIDE DEF h
<1>3. \A i \in 1..(n + k) : i \in 1..n \/ i \in (n + 1)..(n + k)
  BY <1>1
<1>4. \A i \in 1..n : /\ f[i] \in Pairs /\ f[i][1] \in Nat /\ f[i][2] \in Nat
                      /\ f[i][1] < s \/ (f[i][1] = s /\ f[i][2] < c)
  <2>1. \A i \in 1..n : f[i] \in Pairs
    BY <1>1 DEF InList
  <2> QED
    BY <1>1, <2>1, PairsAre DEF InList
<1>5. \A i \in 1..m : /\ t[i] \in Pairs /\ t[i][1] \in Nat /\ t[i][2] \in Nat
                      /\ t[i][1] = s /\ c <= t[i][2] /\ t[i][2] < d
  <2>1. \A i \in 1..m : t[i] \in Pairs
    BY <1>1 DEF InOrder
  <2> QED
    BY <1>1, <2>1, PairsAre DEF InOrder
<1>6. \A i \in 1..(n + k) : h[i][1] < s \/ (h[i][1] = s /\ h[i][2] < d)
  <2> SUFFICES ASSUME NEW i \in 1..(n + k) PROVE h[i][1] < s \/ (h[i][1] = s /\ h[i][2] < d)
    OBVIOUS
  <2>1. CASE i \in 1..n
    BY <1>2, <1>4, <2>1
  <2>2. CASE i \in (n + 1)..(n + k)
    <3>1. PICK j \in 1..m : h[i] = t[j]
      BY <1>2, <2>2
    <3> QED
      BY <1>5, <3>1
  <2> QED
    BY <1>3, <2>1, <2>2
<1>7. \A i, j \in 1..(n + k) : i < j => Before(h[i], h[j])
  <2> SUFFICES ASSUME NEW i \in 1..(n + k), NEW j \in 1..(n + k), i < j
               PROVE  Before(h[i], h[j])
    OBVIOUS
  <2>1. CASE j \in 1..n
    <3>1. i \in 1..n
      BY <2>1
    <3> QED
      BY <1>1, <1>2, <2>1, <3>1 DEF InList
  <2>2. CASE i \in 1..n /\ j \in (n + 1)..(n + k)
    <3>1. PICK b \in 1..m : h[j] = t[b]
      BY <1>2, <2>2
    <3>2. PICK x \in Nat, y \in Nat, z \in Nat :
             x = f[i][2] /\ y = t[b][2] /\ z = f[i][1] /\ (z < s \/ (z = s /\ x < c))
             /\ c <= y /\ t[b][1] = s
      BY <1>4, <1>5, <2>2
    <3>3. z < s \/ (z = s /\ x < y)
      BY <3>2
    <3> QED
      BY <1>2, <2>2, <3>1, <3>2, <3>3 DEF Before
  <2>3. CASE i \in (n + 1)..(n + k) /\ j \in (n + 1)..(n + k)
    <3>1. PICK a \in 1..m, b \in 1..m : i = n + a /\ j = n + b /\ h[i] = t[a] /\ h[j] = t[b]
      BY <1>2, <2>3
    <3>2. a < b
      BY <3>1
    <3>3. t[a][2] < t[b][2] /\ t[a][1] = t[b][1]
      BY <1>1, <1>5, <3>2 DEF InOrder
    <3> QED
      BY <3>1, <3>3 DEF Before
  <2> QED
    BY <1>3, <2>1, <2>2, <2>3
<1>8. OfSession(h, s) = OfSession(f, s) \cup ((n + 1)..(n + k))
  <2>1. \A i \in (n + 1)..(n + k) : i \in 1..(n + k) /\ h[i][1] = s
    <3> TAKE i \in (n + 1)..(n + k)
    <3>1. PICK j \in 1..m : h[i] = t[j]
      BY <1>2
    <3> QED
      BY <1>5, <3>1
  <2>2. \A i \in 1..n : i \in 1..(n + k)
    BY <1>1
  <2> QED
    BY <1>2, <1>3, <2>1, <2>2 DEF OfSession
<1>9. IsFiniteSet(OfSession(f, s)) /\ Cardinality(OfSession(f, s)) \in Nat
  <2>1. IsFiniteSet(1..n)
    <3>1. 1 \in Int /\ n \in Int
      OBVIOUS
    <3> QED
      BY <3>1, FS_Interval
  <2>2. OfSession(f, s) \subseteq 1..n
    BY <1>2 DEF OfSession
  <2> QED
    BY <2>1, <2>2, FS_Subset, FS_CardinalityType
<1>10. IsFiniteSet((n + 1)..(n + k)) /\ Cardinality((n + 1)..(n + k)) = k
  <2>1. n + 1 \in Int /\ n + k \in Int
    BY <1>1
  <2>2. /\ IsFiniteSet((n + 1)..(n + k))
        /\ Cardinality((n + 1)..(n + k)) = IF n + 1 > n + k THEN 0 ELSE (n + k) - (n + 1) + 1
    BY <2>1, FS_Interval
  <2> QED
    BY <1>1, <2>2
<1>11. OfSession(f, s) \cap ((n + 1)..(n + k)) = {}
  <2>1. \A i \in 1..n : i \notin (n + 1)..(n + k)
    BY <1>1
  <2> QED
    BY <1>2, <2>1 DEF OfSession
<1>12. Cardinality(OfSession(h, s)) = Cardinality(OfSession(f, s)) + k
  <2> DEFINE S == OfSession(f, s)
             U == (n + 1)..(n + k)
  <2>1. IsFiniteSet(S) /\ IsFiniteSet(U) /\ S \cap U = {} /\ Cardinality(U) = k
        /\ Cardinality(S) \in Nat /\ OfSession(h, s) = S \cup U
    BY <1>8, <1>9, <1>10, <1>11
  <2> HIDE DEF S, U
  <2>2. Cardinality(S \cup U) = Cardinality(S) + Cardinality(U) - Cardinality(S \cap U)
    BY <2>1, FS_Union
  <2>3. Cardinality(S \cap U) = 0
    BY <2>1, FS_EmptySet
  <2>4. Cardinality(S \cup U) = Cardinality(S) + k
    BY <1>1, <2>1, <2>2, <2>3
  <2> QED
    BY <2>1, <2>4 DEF S
<1>13. InList(h, s, d)
  BY <1>2, <1>6, <1>7 DEF InList
<1>14. CoinsOf(h) = CoinsOf(f) \cup {t[i] : i \in 1..k}
  <2>1. CoinsOf(h) \subseteq CoinsOf(f) \cup {t[i] : i \in 1..k}
    <3> SUFFICES ASSUME NEW i \in 1..(n + k)
                 PROVE  h[i] \in CoinsOf(f) \cup {t[a] : a \in 1..k}
      <4>1. CoinsOf(h) = {h[i] : i \in 1..(n + k)}
        BY <1>2 DEF CoinsOf
      <4> HIDE DEF CoinsOf
      <4> QED
        BY <4>1
    <3>1. CASE i \in 1..n
      BY <1>1, <1>2, <3>1 DEF CoinsOf
    <3>2. CASE i \in (n + 1)..(n + k)
      <4>1. i - n \in 1..k /\ i = n + (i - n)
        BY <1>1, <3>2
      <4> QED
        BY <1>2, <4>1
    <3> QED
      BY <1>3, <3>1, <3>2
  <2>2. CoinsOf(f) \subseteq CoinsOf(h)
    <3>1. \A i \in 1..n : i \in 1..(n + k)
      BY <1>1
    <3> QED
      BY <1>1, <1>2, <3>1 DEF CoinsOf
  <2>3. {t[i] : i \in 1..k} \subseteq CoinsOf(h)
    <3>1. \A i \in 1..k : n + i \in 1..(n + k)
      BY <1>1
    <3> QED
      BY <1>2, <3>1 DEF CoinsOf
  <2> QED
    BY <2>1, <2>2, <2>3
<1> QED
  BY <1>9, <1>12, <1>13, <1>14 DEF h

LEMMA NothingAdded == \A f \in Seq(Pairs), t \in Seq(Pairs) : f \o SubSeq(t, 1, 0) = f
<1> TAKE f \in Seq(Pairs), t \in Seq(Pairs)
<1>1. SubSeq(t, 1, 0) = <<>>
  OBVIOUS
<1>2. f \o <<>> = f
  <2>1. <<>> \in Seq(Pairs) /\ Len(<<>>) = 0
    OBVIOUS
  <2>2. PICK n \in Nat : n = Len(f)
    BY LenProperties
  <2>3. /\ f \o <<>> \in Seq(Pairs) /\ DOMAIN f = 1..n /\ DOMAIN (f \o <<>>) = 1..n
        /\ \A i \in 1..n : (f \o <<>>)[i] = f[i]
    BY <2>1, <2>2, BothPairs
  <2> DEFINE h == f \o <<>>
  <2>4. h \in Seq(Pairs) /\ DOMAIN h = 1..n /\ \A i \in 1..n : h[i] = f[i]
    BY <2>3
  <2> HIDE DEF h, Pairs
  <2>5. h = f
    BY <2>3, <2>4
  <2> QED
    BY <2>5 DEF h
<1> QED
  BY <1>1, <1>2

(* What a batch of session s does that starts at counter c with hash h: it *)
(* finds the coins t of m hashes, the page gets the first k of them, and   *)
(* the others are dropped.                                                 *)
Batch(s, c, h, found) ==
    \E m \in Nat, t \in Seq(Pairs), k \in Nat :
        /\ m % LANES = 0
        /\ InOrder(t, s, h, h + m) /\ CoinsOf(t) = Hits(s, c, h, m) /\ k \in 0..Len(t)
        /\ g_counter' = Counted(c, m) /\ g_total_hashes' = h + m /\ hashed' = hashed + m
        /\ g_coins_found' = found + k
        /\ produced' = produced \cup CoinsOf(t)
        /\ dropped' = dropped \cup {t[i] : i \in (k + 1)..Len(t)}
        /\ foundCoins' = foundCoins \o SubSeq(t, 1, k)
        /\ g_coin_buffer' = <<>>

(* One batch on the page and in the module, which has given its buffer to  *)
(* the page before.                                                        *)
LEMMA BatchIs ==
    ASSUME NEW s \in Nat \ {0}, NEW c \in Nat, NEW h \in Nat, NEW found \in Nat,
           NEW n \in Nat, g_coin_buffer = <<>>, foundCoins \in Seq(Pairs),
           RunBatch(s, c, h, found, <<>>, n)
    PROVE  Batch(s, c, h, found)
<1> DEFINE t == CoinsFrom(s, c, h, n)
           k == IF Len(t) < MAX_COINS THEN Len(t) ELSE MAX_COINS
<1>1. PICK m \in Nat : m = HashesOf(n) /\ m % LANES = 0
  BY HashesAreNat
<1>2. InOrder(t, s, h, h + m) /\ CoinsOf(t) = Hits(s, c, h, m)
  <2>1. /\ InOrder(CoinsFrom(s, c, h, n), s, h, h + HashesOf(n))
        /\ CoinsOf(CoinsFrom(s, c, h, n)) = Hits(s, c, h, HashesOf(n))
    BY BatchCoins
  <2> QED
    BY <1>1, <2>1
<1>3. t \in Seq(Pairs)
  BY <1>2 DEF InOrder
<1>4. Stored(<<>>, t) = <<>> \o SubSeq(t, 1, k)
  <2>1. Room(<<>>) = MAX_COINS
    BY WasmSizes DEF Room
  <2> HIDE DEF t
  <2> QED
    BY <2>1 DEF Stored
<1> HIDE DEF t
<1> DEFINE stored == Stored(<<>>, t)
<1>5. k \in Nat /\ k \in 0..Len(t) /\ Len(t) \in Nat /\ (t = <<>> => k = 0)
  BY <1>3, WasmSizes
<1>6. DOMAIN t \ (1..MAX_COINS) = (k + 1)..Len(t) /\ DOMAIN t = 1..Len(t)
  <2>1. PICK l \in Nat, x \in Nat : l = Len(t) /\ x = MAX_COINS /\ DOMAIN t = 1..l
    BY <1>3, WasmSizes
  <2>2. k = IF l < x THEN l ELSE x
    BY <2>1
  <2> HIDE DEF k
  <2>3. (1..l) \ (1..x) = (k + 1)..l
    <3>1. CASE l < x
      BY <2>2, <3>1
    <3>2. CASE ~(l < x)
      BY <2>2, <3>2
    <3> QED
      BY <3>1, <3>2
  <2> QED
    BY <2>1, <2>3
<1> HIDE DEF k
<1>7. stored = SubSeq(t, 1, k) /\ Len(stored) = k
  <2>1. SubSeq(t, 1, k) \in Seq(Pairs) /\ Len(SubSeq(t, 1, k)) = k
    BY <1>3, <1>5
  <2> DEFINE u == SubSeq(t, 1, k)
  <2> HIDE DEF u
  <2>2. <<>> \o u = u
    BY <2>1 DEF u
  <2> QED
    BY <1>4, <2>1, <2>2 DEF u
<1>8. /\ g_counter' = Counted(c, m) /\ g_total_hashes' = h + m /\ hashed' = hashed + m
      /\ g_coins_found' = found + k
      /\ produced' = produced \cup CoinsOf(t)
      /\ dropped' = dropped \cup {t[i] : i \in (k + 1)..Len(t)}
      /\ t # <<>> => foundCoins' = foundCoins \o stored /\ g_coin_buffer' = <<>>
      /\ t = <<>> => foundCoins' = foundCoins /\ g_coin_buffer' = <<>>
  <2>1. /\ g_counter' = Counted(c, HashesOf(n)) /\ g_total_hashes' = h + HashesOf(n)
        /\ hashed' = hashed + HashesOf(n)
        /\ g_coins_found' = (found + Len(stored)) - Len(<<>>)
        /\ produced' = produced \cup {t[i] : i \in DOMAIN t}
        /\ dropped' = dropped \cup {t[i] : i \in DOMAIN t \ (1..MAX_COINS)}
        /\ IF t # <<>> THEN foundCoins' = foundCoins \o stored /\ g_coin_buffer' = Cleared(stored)
                       ELSE UNCHANGED <<foundCoins, g_coin_buffer>>
    BY DEF RunBatch, t
  <2> HIDE DEF stored
  <2>2. g_coins_found' = found + k
    BY <1>5, <1>7, <2>1
  <2>3. produced' = produced \cup CoinsOf(t) /\ dropped' = dropped \cup {t[i] : i \in (k + 1)..Len(t)}
    BY <1>6, <2>1 DEF CoinsOf
  <2> QED
    BY <1>1, <2>1, <2>2, <2>3 DEF Cleared
<1>9. foundCoins' = foundCoins \o SubSeq(t, 1, k) /\ g_coin_buffer' = <<>>
  <2>1. CASE t # <<>>
    BY <1>7, <1>8, <2>1
  <2>2. CASE t = <<>>
    BY <1>3, <1>5, <1>8, <2>2, NothingAdded
  <2> QED
    BY <2>1, <2>2
<1>10. /\ m % LANES = 0
       /\ InOrder(t, s, h, h + m) /\ CoinsOf(t) = Hits(s, c, h, m) /\ k \in 0..Len(t)
       /\ g_counter' = Counted(c, m) /\ g_total_hashes' = h + m /\ hashed' = hashed + m
       /\ g_coins_found' = found + k
       /\ produced' = produced \cup CoinsOf(t)
       /\ dropped' = dropped \cup {t[i] : i \in (k + 1)..Len(t)}
       /\ foundCoins' = foundCoins \o SubSeq(t, 1, k)
       /\ g_coin_buffer' = <<>>
  BY <1>1, <1>2, <1>5, <1>8, <1>9
<1> HIDE DEF Pairs
<1> QED
  BY <1>3, <1>5, <1>10 DEF Batch

-----------------------------------------------------------------------------
(* The invariant *)

(* The sizes of what page and module hold; the module gives its buffer to  *)
(* the page before the event ends, no timer is without its session, and    *)
(* batches hash whole steps.                                               *)
PageInv ==
    /\ wasm \in {"loading", "ready", "failed"}
    /\ mining \in BOOLEAN /\ g_running \in BOOLEAN
    /\ batchSize \in BatchSizes
    /\ session \in 0..MaxStarts /\ timers \in 0..session
    /\ mining => session > 0
    /\ g_counter \in Nat /\ g_total_hashes \in Nat /\ g_coins_found \in Nat
    /\ hashed \in Nat /\ first \in Nat
    /\ g_total_hashes % LANES = 0
    /\ g_coin_buffer = <<>>

(* All coins that were hashed, P, are of sessions up to s, those of s from *)
(* its first h hashes; the page has them all but those that were dropped.  *)
Hashed(P, s, h) ==
    \A p \in P : p \in Pairs /\ (p[1] < s \/ (p[1] = s /\ p[2] < h))
Kept(f, P, D) == D \subseteq P /\ CoinsOf(f) = P \ D

ListInv ==
    /\ Hashed(produced, session, g_total_hashes)
    /\ Kept(foundCoins, produced, dropped)
    /\ InList(foundCoins, session, g_total_hashes)
    /\ Cardinality(OfSession(foundCoins, session)) = g_coins_found

(* The coins of session s among its first h hashes from counter b on       *)
SessionCoins(P, s) == {coin \in P : coin[1] = s}
CoinsIn(b, s, h) == {<<s, p>> : p \in {q \in 0..(h - 1) : HashOf(b, q) \in Golden}}

CountInv ==
    /\ g_counter = Counted(first, g_total_hashes)
    /\ session > 0 =>
          SessionCoins(produced, session) = CoinsIn(first, session, g_total_hashes)

WasmInv == PageInv /\ ListInv /\ CountInv

(* The coins of a batch that the page gets, and the others                 *)
Shown(t, k) == {t[i] : i \in 1..k}
Left(t, k) == {t[i] : i \in (k + 1)..Len(t)}

(* The new coins of a batch are behind all others, ...                     *)
LEMMA BatchIsNew ==
    ASSUME NEW s \in Nat, NEW h \in Nat, NEW d \in Nat, h <= d,
           NEW P, Hashed(P, s, h), NEW t, InOrder(t, s, h, d)
    PROVE  Hashed(P \cup CoinsOf(t), s, d) /\ CoinsOf(t) \cap P = {}
<1>1. PICK l \in Nat : l = Len(t)
  BY LenProperties DEF InOrder
<1>2. \A i \in 1..l : t[i] \in Pairs /\ t[i][1] = s /\ t[i][2] \in Nat /\ h <= t[i][2] /\ t[i][2] < d
  <2>1. \A i \in 1..l : t[i] \in Pairs
    BY <1>1 DEF InOrder
  <2> QED
    BY <1>1, <2>1, PairsAre DEF InOrder
<1>3. \A p \in CoinsOf(t) : p \in Pairs /\ p[1] = s /\ p[2] \in Nat /\ h <= p[2] /\ p[2] < d
  BY <1>1, <1>2 DEF CoinsOf
<1>4. CoinsOf(t) \cap P = {}
  <2>1. ASSUME NEW p \in CoinsOf(t), p \in P PROVE FALSE
    <3>1. PICK x \in Nat : x = p[2] /\ h <= x /\ p[1] = s
      BY <1>3
    <3>2. s < s \/ x < h
      BY <2>1, <3>1 DEF Hashed
    <3> QED
      BY <3>1, <3>2
  <2> QED
    BY <2>1
<1>5. Hashed(P \cup CoinsOf(t), s, d)
  <2>1. ASSUME NEW p \in P PROVE p \in Pairs /\ (p[1] < s \/ (p[1] = s /\ p[2] < d))
    <3>1. p \in Pairs /\ (p[1] < s \/ (p[1] = s /\ p[2] < h))
      BY DEF Hashed
    <3>2. PICK x \in Nat : x = p[2]
      BY <3>1, PairsAre
    <3>3. x < h => x < d
      BY <3>2
    <3> QED
      BY <3>1, <3>2, <3>3
  <2> QED
    BY <1>3, <2>1 DEF Hashed
<1> QED
  BY <1>4, <1>5

(* ... and each of them goes to the page or is dropped.                    *)
LEMMA BatchSplits ==
    ASSUME NEW t, NEW s, NEW h, NEW d, InOrder(t, s, h, d), NEW k \in 0..Len(t)
    PROVE  CoinsOf(t) = Shown(t, k) \cup Left(t, k) /\ Shown(t, k) \cap Left(t, k) = {}
<1>1. PICK l \in Nat : l = Len(t) /\ k \in 0..l
  BY LenProperties DEF InOrder
<1>2. \A i \in 1..l : i \in 1..k \/ i \in (k + 1)..l
  BY <1>1
<1>3. \A i \in 1..k : i \in 1..l
  BY <1>1
<1>4. \A i \in (k + 1)..l : i \in 1..l
  BY <1>1
<1>5. CoinsOf(t) = Shown(t, k) \cup Left(t, k)
  BY <1>1, <1>2, <1>3, <1>4 DEF CoinsOf, Shown, Left
<1>6. ASSUME NEW i \in 1..k, NEW j \in (k + 1)..l PROVE t[i] # t[j]
  <2>1. i \in 1..l /\ j \in 1..l /\ i < j
    BY <1>1
  <2>2. t[i] \in Pairs /\ t[j] \in Pairs
    BY <1>1, <2>1 DEF InOrder
  <2>3. PICK x \in Nat, y \in Nat : x = t[i][2] /\ y = t[j][2]
    BY <2>2, PairsAre
  <2>4. x < y
    BY <1>1, <2>1, <2>3 DEF InOrder
  <2> QED
    BY <2>3, <2>4
<1>7. Shown(t, k) \cap Left(t, k) = {}
  BY <1>1, <1>6 DEF Shown, Left
<1> QED
  BY <1>5, <1>7

(* The coins of a session, and those of its next batch *)
LEMMA MoreCoins ==
    ASSUME NEW b \in Nat, NEW s, NEW h \in Nat, h % LANES = 0, NEW m \in Nat
    PROVE  CoinsIn(b, s, h + m) = CoinsIn(b, s, h) \cup Hits(s, Counted(b, h), h, m)
<1>1. \A k \in 0..(m - 1) : HashedCounter(Counted(b, h), k) = HashOf(b, h + k)
  <2> TAKE k \in 0..(m - 1)
  <2>1. k \in Nat
    OBVIOUS
  <2> QED
    BY <2>1, BatchGoesOn
<1> HIDE DEF HashOf, HashedCounter, Counted
<1>2. ASSUME NEW p \in 0..((h + m) - 1), HashOf(b, p) \in Golden
      PROVE  <<s, p>> \in CoinsIn(b, s, h) \cup Hits(s, Counted(b, h), h, m)
  <2>1. CASE p < h
    <3>1. p \in 0..(h - 1)
      BY <2>1
    <3> QED
      BY <1>2, <3>1 DEF CoinsIn
  <2>2. CASE ~(p < h)
    <3>1. PICK k \in 0..(m - 1) : p = h + k
      <4>1. p - h \in 0..(m - 1) /\ p = h + (p - h)
        BY <2>2
      <4> QED
        BY <4>1
    <3>2. HashedCounter(Counted(b, h), k) \in Golden
      BY <1>1, <1>2, <3>1
    <3>3. <<s, h + k>> \in Hits(s, Counted(b, h), h, m)
      BY <3>2 DEF Hits
    <3> QED
      BY <3>1, <3>3
  <2> QED
    BY <2>1, <2>2
<1>3. CoinsIn(b, s, h + m) \subseteq CoinsIn(b, s, h) \cup Hits(s, Counted(b, h), h, m)
  <2> SUFFICES ASSUME NEW x \in CoinsIn(b, s, h + m)
               PROVE  x \in CoinsIn(b, s, h) \cup Hits(s, Counted(b, h), h, m)
    OBVIOUS
  <2>1. PICK p \in 0..((h + m) - 1) : HashOf(b, p) \in Golden /\ x = <<s, p>>
    BY DEF CoinsIn
  <2> QED
    BY <1>2, <2>1
<1>4. CoinsIn(b, s, h) \subseteq CoinsIn(b, s, h + m)
  <2>1. \A p \in 0..(h - 1) : p \in 0..((h + m) - 1)
    OBVIOUS
  <2> QED
    BY <2>1 DEF CoinsIn
<1>5. Hits(s, Counted(b, h), h, m) \subseteq CoinsIn(b, s, h + m)
  <2> SUFFICES ASSUME NEW k \in 0..(m - 1), HashedCounter(Counted(b, h), k) \in Golden
               PROVE  <<s, h + k>> \in CoinsIn(b, s, h + m)
    BY DEF Hits
  <2>1. h + k \in 0..((h + m) - 1)
    OBVIOUS
  <2>2. HashOf(b, h + k) \in Golden
    BY <1>1
  <2> QED
    BY <2>1, <2>2 DEF CoinsIn
<1> QED
  BY <1>3, <1>4, <1>5

(* What a batch leaves of session s, which began with counter b            *)
SessionKept(s, b) ==
    /\ g_counter' \in Nat /\ g_total_hashes' \in Nat /\ g_coins_found' \in Nat
    /\ hashed' \in Nat /\ g_coin_buffer' = <<>>
    /\ g_total_hashes' % LANES = 0
    /\ Hashed(produced', s, g_total_hashes')
    /\ Kept(foundCoins', produced', dropped')
    /\ InList(foundCoins', s, g_total_hashes')
    /\ Cardinality(OfSession(foundCoins', s)) = g_coins_found'
    /\ g_counter' = Counted(b, g_total_hashes')
    /\ SessionCoins(produced', s) = CoinsIn(b, s, g_total_hashes')

(* A batch keeps the list and the counts of its session. *)
LEMMA BatchKeeps ==
    ASSUME NEW s \in Nat \ {0}, NEW b \in Nat, NEW h \in Nat, NEW found \in Nat, NEW c,
           hashed \in Nat, h % LANES = 0, c = Counted(b, h),
           Hashed(produced, s, h), Kept(foundCoins, produced, dropped), InList(foundCoins, s, h),
           Cardinality(OfSession(foundCoins, s)) = found,
           SessionCoins(produced, s) = CoinsIn(b, s, h),
           Batch(s, c, h, found)
    PROVE  SessionKept(s, b)
<1>1. PICK m \in Nat, t \in Seq(Pairs), k \in Nat :
         /\ m % LANES = 0
         /\ InOrder(t, s, h, h + m) /\ CoinsOf(t) = Hits(s, c, h, m) /\ k \in 0..Len(t)
         /\ g_counter' = Counted(c, m) /\ g_total_hashes' = h + m /\ hashed' = hashed + m
         /\ g_coins_found' = found + k
         /\ produced' = produced \cup CoinsOf(t)
         /\ dropped' = dropped \cup {t[i] : i \in (k + 1)..Len(t)}
         /\ foundCoins' = foundCoins \o SubSeq(t, 1, k)
         /\ g_coin_buffer' = <<>>
  BY DEF Batch
<1>2. PICK d \in Nat : d = h + m /\ h <= d
  OBVIOUS
<1>3. InOrder(t, s, h, d)
  BY <1>1, <1>2
<1> DEFINE f == foundCoins
           g == f \o SubSeq(t, 1, k)
<1> HIDE DEF f
<1>4. InList(f, s, h) /\ Cardinality(OfSession(f, s)) = found /\ Kept(f, produced, dropped)
  BY DEF f
<1>5. /\ InList(g, s, d)
      /\ CoinsOf(g) = CoinsOf(f) \cup {t[i] : i \in 1..k}
      /\ Cardinality(OfSession(g, s)) = Cardinality(OfSession(f, s)) + k
  BY <1>1, <1>2, <1>3, <1>4, ListGrows
<1>6. foundCoins' = g
  BY <1>1 DEF f
<1> HIDE DEF g
<1>7. /\ Hashed(produced \cup CoinsOf(t), s, d)
      /\ Kept(g, produced \cup CoinsOf(t), dropped \cup {t[i] : i \in (k + 1)..Len(t)})
  <2>1. s \in Nat /\ k \in 0..Len(t) /\ Hashed(produced, s, h) /\ Kept(f, produced, dropped)
    BY <1>1, <1>4
  <2>2. CoinsOf(g) = CoinsOf(f) \cup Shown(t, k)
    BY <1>5 DEF Shown
  <2>3. Hashed(produced \cup CoinsOf(t), s, d) /\ CoinsOf(t) \cap produced = {}
    BY <1>2, <1>3, <2>1, BatchIsNew
  <2>4. CoinsOf(t) = Shown(t, k) \cup Left(t, k) /\ Shown(t, k) \cap Left(t, k) = {}
    BY <1>3, <2>1, BatchSplits
  <2>5. Kept(g, produced \cup CoinsOf(t), dropped \cup Left(t, k))
    BY <2>1, <2>2, <2>3, <2>4 DEF Kept
  <2> QED
    BY <2>3, <2>5 DEF Left
<1>8. d % LANES = 0
  <2>1. PICK l \in Nat \ {0} : l = LANES
    BY WasmSizes
  <2>2. PICK q \in Int, u \in 0..(l - 1) : h = q * l + u /\ u = h % l
    BY QuotientAndRemainder
  <2>3. PICK p \in Int, v \in 0..(l - 1) : m = p * l + v /\ v = m % l
    BY QuotientAndRemainder
  <2>4. u = 0 /\ v = 0
    BY <1>1, <2>1, <2>2, <2>3
  <2>5. PICK x \in Int, y \in Int : x = q * l /\ y = p * l
    OBVIOUS
  <2>6. (q + p) * l = x + y
    BY <2>5
  <2>7. d = x + y
    <3>1. h = x + u /\ m = y + v
      BY <2>2, <2>3, <2>5
    <3>2. h = x /\ m = y
      BY <2>4, <2>5, <3>1
    <3> QED
      BY <1>2, <3>2
  <2>8. d = (q + p) * l + 0 /\ q + p \in Int /\ 0 \in 0..(l - 1)
    BY <2>6, <2>7
  <2>9. d % l = 0
    BY <2>8, RemainderOf
  <2> QED
    BY <2>1, <2>9
<1>9. g_counter' \in Nat /\ g_counter' = Counted(b, d)
  <2>1. Counted(Counted(b, h), m) = Counted(b, h + m)
    BY CountedTwice
  <2>2. Counted(b, h + m) = Counted(b, d)
    BY <1>2
  <2>3. Counted(b, d) \in Nat
    BY <1>2, CountedTwice
  <2> QED
    BY <1>1, <2>1, <2>2, <2>3
<1>10. SessionCoins(produced \cup CoinsOf(t), s) = CoinsIn(b, s, d)
  <2>1. CoinsIn(b, s, d) = CoinsIn(b, s, h) \cup CoinsOf(t)
    BY <1>1, <1>2, MoreCoins
  <2>2. \A p \in CoinsOf(t) : p[1] = s
    BY <1>3 DEF CoinsOf, InOrder
  <2>3. SessionCoins(produced \cup CoinsOf(t), s) = SessionCoins(produced, s) \cup CoinsOf(t)
    BY <2>2 DEF SessionCoins
  <2> QED
    BY <2>1, <2>3
<1>11. g_coins_found' \in Nat /\ hashed' \in Nat /\ g_total_hashes' = d
  BY <1>1, <1>2
<1>12. Cardinality(OfSession(g, s)) = g_coins_found'
  BY <1>1, <1>4, <1>5
<1> HIDE DEF Hashed, Kept, InList, OfSession, SessionCoins, CoinsIn, Counted, CoinsOf
<1> QED
  BY <1>1, <1>5, <1>6, <1>7, <1>8, <1>9, <1>10, <1>11, <1>12 DEF SessionKept

(* A new session: none of the coins of the page is its own. *)
LEMMA NewSession ==
    ASSUME NEW f, NEW s \in Nat, NEW h, NEW P, InList(f, s, h), Hashed(P, s, h)
    PROVE  /\ InList(f, s + 1, 0) /\ Cardinality(OfSession(f, s + 1)) = 0
           /\ Hashed(P, s + 1, 0) /\ SessionCoins(P, s + 1) = {}
<1>1. PICK n \in Nat : n = Len(f) /\ DOMAIN f = 1..n /\ \A i \in 1..n : f[i] \in Pairs
  BY LenProperties DEF InList
<1>2. \A i \in 1..n : f[i][1] < s + 1
  <2> TAKE i \in 1..n
  <2>1. PICK x \in Nat : x = f[i][1]
    BY <1>1, PairsAre
  <2>2. x <= s
    BY <1>1, <2>1 DEF InList
  <2> QED
    BY <2>1, <2>2
<1>3. OfSession(f, s + 1) = {}
  <2>1. \A i \in 1..n : f[i][1] # s + 1
    <3> TAKE i \in 1..n
    <3>1. PICK x \in Nat : x = f[i][1]
      BY <1>1, PairsAre
    <3> QED
      BY <1>2, <3>1
  <2> QED
    BY <1>1, <2>1 DEF OfSession
<1>4. InList(f, s + 1, 0)
  BY <1>1, <1>2 DEF InList
<1>5. \A p \in P : p \in Pairs /\ p[1] < s + 1 /\ p[1] # s + 1
  <2> TAKE p \in P
  <2>1. p \in Pairs /\ (p[1] < s \/ p[1] = s)
    BY DEF Hashed
  <2>2. PICK x \in Nat : x = p[1]
    BY <2>1, PairsAre
  <2>3. x < s + 1 /\ x # s + 1
    BY <2>1, <2>2
  <2> QED
    BY <2>1, <2>2, <2>3
<1>6. Hashed(P, s + 1, 0) /\ SessionCoins(P, s + 1) = {}
  BY <1>5 DEF Hashed, SessionCoins
<1> QED
  BY <1>3, <1>4, <1>6, FS_EmptySet

LEMMA InitHasInv == Init => WasmInv
<1> SUFFICES ASSUME Init PROVE WasmInv
  OBVIOUS
<1>1. PageInv
  <2>1. 0 \in 0..MaxStarts /\ 0 \in 0..0
    BY WasmSizes
  <2>2. session = 0 /\ timers = 0 /\ mining = FALSE
    BY DEF Init
  <2>3. session \in 0..MaxStarts /\ timers \in 0..session /\ (mining => session > 0)
    BY <2>1, <2>2
  <2>4. g_total_hashes = 0 /\ g_total_hashes % LANES = 0
    <3>1. PICK l \in Nat \ {0} : l = LANES
      BY WasmSizes
    <3>2. 0 = 0 * l + 0 /\ 0 \in 0..(l - 1)
      OBVIOUS
    <3>3. 0 % l = 0
      BY <3>2, RemainderOf
    <3> QED
      BY <3>1, <3>3 DEF Init
  <2>5. /\ wasm \in {"loading", "ready", "failed"} /\ batchSize \in BatchSizes
        /\ mining \in BOOLEAN /\ g_running \in BOOLEAN
    BY DEF Init
  <2>6. /\ g_counter \in Nat /\ g_coins_found \in Nat /\ hashed \in Nat /\ first \in Nat
        /\ g_coin_buffer = <<>>
    BY DEF Init
  <2>7. g_total_hashes \in Nat /\ g_total_hashes % LANES = 0
    BY <2>4
  <2> QED
    BY <2>3, <2>5, <2>6, <2>7 DEF PageInv
<1>2. foundCoins = <<>> /\ session = 0 /\ g_counter = 0 /\ g_coins_found = 0 /\ first = 0
      /\ g_total_hashes = 0 /\ produced = {} /\ dropped = {}
  BY DEF Init
<1>3. InList(<<>>, 0, 0)
  BY DEF InList
<1>4. OfSession(<<>>, 0) = {}
  BY DEF OfSession
<1>5. ListInv
  <2>1. CoinsOf(<<>>) = {}
    BY DEF CoinsOf
  <2> QED
    BY <1>2, <1>3, <1>4, <2>1, FS_EmptySet DEF ListInv, Hashed, Kept
<1>6. CountInv
  <2>1. PICK m \in Nat \ {0} : m = WORD * WORD
    BY CountersSize
  <2>2. 0 = 0 * m + 0 /\ 0 \in 0..(m - 1)
    OBVIOUS
  <2>3. 0 % m = 0
    BY <2>2, RemainderOf
  <2> QED
    BY <1>2, <2>1, <2>3 DEF CountInv, Counted
<1> QED
  BY <1>1, <1>5, <1>6 DEF WasmInv

LEMMA FirstIsNat ==
    ASSUME NEW seed \in Seeds
    PROVE  /\ FirstCounter(seed) \in Nat
           /\ FirstCounter(seed) = Counted(FirstCounter(seed), 0)
<1>1. PICK b \in Nat \ {0} : b = WORD
  BY WasmSizes
<1>2. PICK m \in Nat \ {0} : m = WORD * WORD
  BY CountersSize
<1>3. PICK x \in 0..(b - 1) : x = seed
  BY <1>1, WasmSizes
<1>4. PICK g \in Nat : g = x * b
  OBVIOUS
<1>5. g + b <= m
  <2>1. x * b + b <= b * b
    BY ProductGrows
  <2> QED
    BY <1>1, <1>2, <1>4, <2>1
<1>6. FirstCounter(seed) = g + x
  BY <1>1, <1>3, <1>4 DEF FirstCounter, Counter
<1>7. g + x \in 0..(m - 1) /\ g + x \in Nat /\ g + x = 0 * m + (g + x) /\ (g + x) + 0 = g + x
  BY <1>5
<1>8. (g + x) % m = g + x
  BY <1>7, RemainderOf
<1> QED
  BY <1>2, <1>6, <1>7, <1>8 DEF Counted

LEMMA StartKeepsInv == WasmInv /\ ClickStart => WasmInv'
<1> SUFFICES ASSUME WasmInv, ClickStart PROVE WasmInv'
  OBVIOUS
<1>1. PICK seed \in Seeds :
         /\ RunBatch(session + 1, FirstCounter(seed), 0, 0, <<>>, batchSize)
         /\ first' = FirstCounter(seed)
  BY DEF ClickStart, FirstCounter
<1>2. PICK s \in Nat \ {0} : s = session + 1 /\ session' = s /\ session \in Nat /\ s <= MaxStarts
  BY WasmSizes DEF WasmInv, PageInv, ClickStart
<1>3. PICK b \in Nat : b = FirstCounter(seed) /\ b = Counted(b, 0)
  BY FirstIsNat
<1>4. batchSize \in Nat /\ g_coin_buffer = <<>> /\ hashed \in Nat
  BY WasmSizes DEF WasmInv, PageInv
<1>5. InList(foundCoins, session, g_total_hashes) /\ Hashed(produced, session, g_total_hashes)
  BY DEF WasmInv, ListInv
<1>6. /\ InList(foundCoins, s, 0) /\ Cardinality(OfSession(foundCoins, s)) = 0
      /\ Hashed(produced, s, 0) /\ SessionCoins(produced, s) = {}
  BY <1>2, <1>5, NewSession
<1>7. foundCoins \in Seq(Pairs)
  BY <1>5 DEF InList
<1>8. RunBatch(s, b, 0, 0, <<>>, batchSize)
  BY <1>1, <1>2, <1>3
<1>9. Batch(s, b, 0, 0)
  BY <1>4, <1>7, <1>8, BatchIs
<1>10. CoinsIn(b, s, 0) = {}
  BY DEF CoinsIn
<1>11. 0 % LANES = 0
  <2>1. PICK l \in Nat \ {0} : l = LANES
    BY WasmSizes
  <2>2. 0 = 0 * l + 0 /\ 0 \in 0..(l - 1)
    OBVIOUS
  <2> QED
    BY <2>1, <2>2, RemainderOf
<1>12. Kept(foundCoins, produced, dropped)
  BY DEF WasmInv, ListInv
<1>13. SessionKept(s, b)
  BY <1>3, <1>4, <1>6, <1>9, <1>10, <1>11, <1>12, BatchKeeps
<1>14. PageInv'
  <2>1. /\ wasm' = wasm /\ batchSize' = batchSize /\ mining' = TRUE /\ g_running' = TRUE
        /\ timers' = timers + 1
    BY DEF ClickStart
  <2>2. timers' \in 0..session'
    BY <1>2, <2>1 DEF WasmInv, PageInv
  <2>3. session' \in 0..MaxStarts /\ session' > 0
    BY <1>2, WasmSizes
  <2> QED
    BY <1>1, <1>3, <1>13, <2>1, <2>2, <2>3 DEF WasmInv, PageInv, SessionKept
<1>15. ListInv'
  BY <1>2, <1>13 DEF ListInv, SessionKept
<1>16. CountInv'
  BY <1>1, <1>2, <1>3, <1>13 DEF CountInv, SessionKept
<1> QED
  BY <1>14, <1>15, <1>16 DEF WasmInv

LEMMA TimerKeepsInv == WasmInv /\ TimerFires => WasmInv'
<1> SUFFICES ASSUME WasmInv, TimerFires PROVE WasmInv'
  OBVIOUS
<1>1. /\ wasm' = wasm /\ mining' = mining /\ batchSize' = batchSize /\ g_running' = g_running
      /\ session' = session /\ first' = first
  BY DEF TimerFires
<1>2. CASE /\ mining
           /\ RunBatch(session, g_counter, g_total_hashes, g_coins_found, g_coin_buffer,
                       batchSize)
           /\ timers' = timers
  <2>1. session \in Nat \ {0} /\ session \in 0..MaxStarts
    BY <1>2 DEF WasmInv, PageInv
  <2>2. /\ batchSize \in Nat /\ g_coin_buffer = <<>> /\ hashed \in Nat /\ first \in Nat
        /\ g_counter \in Nat /\ g_total_hashes \in Nat /\ g_coins_found \in Nat
        /\ g_total_hashes % LANES = 0
    BY WasmSizes DEF WasmInv, PageInv
  <2>3. /\ Hashed(produced, session, g_total_hashes)
        /\ Kept(foundCoins, produced, dropped)
        /\ InList(foundCoins, session, g_total_hashes)
        /\ Cardinality(OfSession(foundCoins, session)) = g_coins_found
    BY DEF WasmInv, ListInv
  <2>4. /\ g_counter = Counted(first, g_total_hashes)
        /\ SessionCoins(produced, session) = CoinsIn(first, session, g_total_hashes)
    BY <2>1 DEF WasmInv, CountInv
  <2>5. foundCoins \in Seq(Pairs)
    BY <2>3 DEF InList
  <2>6. RunBatch(session, g_counter, g_total_hashes, g_coins_found, <<>>, batchSize)
    BY <1>2, <2>2
  <2>7. Batch(session, g_counter, g_total_hashes, g_coins_found)
    BY <2>1, <2>2, <2>5, <2>6, BatchIs
  <2>8. SessionKept(session, first)
    BY <2>1, <2>2, <2>3, <2>4, <2>7, BatchKeeps
  <2>9. PageInv'
    BY <1>1, <1>2, <2>8 DEF WasmInv, PageInv, SessionKept
  <2>10. ListInv' /\ CountInv'
    BY <1>1, <2>8 DEF ListInv, CountInv, SessionKept
  <2> QED
    BY <2>9, <2>10 DEF WasmInv
<1>3. CASE /\ timers > 0 /\ timers' = timers - 1
           /\ UNCHANGED <<foundCoins, g_counter, g_total_hashes, g_coins_found,
                          g_coin_buffer, hashed, produced, dropped>>
  <2>1. timers' \in 0..session
    BY <1>3 DEF WasmInv, PageInv
  <2>2. PageInv'
    BY <1>1, <1>3, <2>1 DEF WasmInv, PageInv
  <2>3. ListInv'
    BY <1>1, <1>3 DEF WasmInv, ListInv
  <2>4. CountInv'
    BY <1>1, <1>3 DEF WasmInv, CountInv
  <2> QED
    BY <2>2, <2>3, <2>4 DEF WasmInv
<1> QED
  BY <1>2, <1>3 DEF TimerFires, StillMining

LEMMA StepKeepsInv == WasmInv /\ [Next]_vars => WasmInv'
<1> SUFFICES ASSUME WasmInv, [Next]_vars PROVE WasmInv'
  OBVIOUS
<1>1. ASSUME /\ UNCHANGED <<foundCoins, module, history>>
             /\ wasm' \in {"loading", "ready", "failed"} /\ mining' \in BOOLEAN
             /\ batchSize' \in BatchSizes /\ timers' = timers /\ (mining' => mining)
      PROVE  WasmInv'
  <2>1. /\ foundCoins' = foundCoins /\ g_running' = g_running /\ g_counter' = g_counter
        /\ g_total_hashes' = g_total_hashes /\ g_coins_found' = g_coins_found
        /\ g_coin_buffer' = g_coin_buffer /\ session' = session /\ hashed' = hashed
        /\ first' = first /\ produced' = produced /\ dropped' = dropped
    BY <1>1 DEF module, history
  <2>2. PageInv'
    BY <1>1, <2>1 DEF WasmInv, PageInv
  <2>3. ListInv' /\ CountInv'
    BY <2>1 DEF WasmInv, ListInv, CountInv
  <2> QED
    BY <2>2, <2>3 DEF WasmInv
<1>2. CASE LoadWasm
  BY <1>1, <1>2 DEF LoadWasm, WasmInv, PageInv
<1>3. CASE EnterBatchSize
  BY <1>1, <1>3 DEF EnterBatchSize, WasmInv, PageInv
<1>4. CASE ClickStop
  <2>1. /\ wasm' = wasm /\ mining' = FALSE /\ g_running' = FALSE /\ timers' = timers
        /\ batchSize' = batchSize /\ foundCoins' = foundCoins /\ g_counter' = g_counter
        /\ g_total_hashes' = g_total_hashes /\ g_coins_found' = g_coins_found
        /\ g_coin_buffer' = g_coin_buffer /\ session' = session /\ hashed' = hashed
        /\ first' = first /\ produced' = produced /\ dropped' = dropped
    BY <1>4 DEF ClickStop, history
  <2>2. PageInv'
    BY <2>1 DEF WasmInv, PageInv
  <2>3. ListInv' /\ CountInv'
    BY <2>1 DEF WasmInv, ListInv, CountInv
  <2> QED
    BY <2>2, <2>3 DEF WasmInv
<1>5. CASE UNCHANGED vars
  BY <1>1, <1>5 DEF vars, page, WasmInv, PageInv
<1> QED
  BY <1>2, <1>3, <1>4, <1>5, StartKeepsInv, TimerKeepsInv DEF Next

THEOREM WasmInvariant == Spec => []WasmInv
<1>1. Init => WasmInv
  BY InitHasInv
<1>2. WasmInv /\ [Next]_vars => WasmInv'
  BY StepKeepsInv
<1> QED
  BY <1>1, <1>2, PTL DEF Spec

-----------------------------------------------------------------------------
(* Type correctness: among other things a coin is of a session that was    *)
(* started, and only coins that were hashed are dropped.                   *)
THEOREM WasmTypes == Spec => []TypeOK
<1>1. ASSUME WasmInv PROVE TypeOK
  <2>1. /\ PageInv /\ Hashed(produced, session, g_total_hashes)
        /\ dropped \subseteq produced /\ CoinsOf(foundCoins) = produced \ dropped
        /\ foundCoins \in Seq(Pairs)
    BY <1>1 DEF WasmInv, ListInv, Kept, InList
  <2>2. PICK n \in Nat : n = Len(foundCoins)
    BY <2>1, LenProperties
  <2>3. produced \subseteq Coin
    <3> SUFFICES ASSUME NEW p \in produced PROVE p \in Coin
      OBVIOUS
    <3>1. p \in Pairs /\ (p[1] < session \/ p[1] = session)
      BY <2>1 DEF Hashed
    <3>2. PICK a \in Nat \ {0}, b \in Nat : p = <<a, b>>
      BY <3>1 DEF Pairs
    <3>3. a <= session
      BY <2>1, <3>1, <3>2 DEF PageInv
    <3>4. a \in 1..MaxStarts
      BY <2>1, <3>3, WasmSizes DEF PageInv
    <3> QED
      BY <3>2, <3>4 DEF Coin
  <2>4. \A i \in 1..n : foundCoins[i] \in Coin
    BY <2>1, <2>2, <2>3 DEF CoinsOf
  <2>5. foundCoins \in Seq(Coin)
    <3> HIDE DEF Coin, Pairs
    <3>1. foundCoins \in [1..n -> Coin]
      BY <2>1, <2>2, <2>4
    <3> QED
      BY <3>1
  <2>6. timers \in 0..MaxStarts
    BY <2>1, WasmSizes DEF PageInv
  <2>7. g_coin_buffer \in Seq(Coin) /\ Len(g_coin_buffer) <= MAX_COINS
    BY <2>1, WasmSizes DEF PageInv
  <2>8. {g_counter, g_total_hashes, g_coins_found, hashed, first} \subseteq Nat
    BY <2>1 DEF PageInv
  <2> HIDE DEF Coin
  <2> QED
    BY <2>1, <2>3, <2>5, <2>6, <2>7, <2>8 DEF TypeOK, PageInv
<1> QED
  BY <1>1, WasmInvariant, PTL

(* The page has all coins that were hashed in any of its sessions once, in *)
(* the order of finding, but for those behind the first MAX_COINS of their *)
(* batch, and as many of the last session as the module counts:            *)
(* startMining, stopMining and the calls of mineLoop by old timers lose    *)
(* none, of this session or of an earlier one.                             *)
THEOREM EveryCoinShown == Spec => []PageHasEveryCoin
<1>1. ASSUME WasmInv PROVE PageHasEveryCoin
  <2>1. PICK n \in Nat : n = Len(foundCoins) /\ DOMAIN foundCoins = 1..n
    BY <1>1, LenProperties DEF WasmInv, ListInv, InList
  <2>2. \A i, j \in 1..n : i < j => Before(foundCoins[i], foundCoins[j])
    BY <1>1, <2>1 DEF WasmInv, ListInv, InList
  <2>3. g_coin_buffer = <<>>
    BY <1>1 DEF WasmInv, PageInv
  <2>4. Cardinality({i \in DOMAIN foundCoins : foundCoins[i][1] = session}) = g_coins_found
    BY <1>1 DEF WasmInv, ListInv, OfSession
  <2>5. ToSet(foundCoins) = produced \ dropped
    <3>1. ToSet(foundCoins) = CoinsOf(foundCoins)
      BY <2>1 DEF ToSet, CoinsOf
    <3> QED
      BY <1>1, <3>1 DEF WasmInv, ListInv, Kept
  <2> QED
    BY <2>1, <2>2, <2>3, <2>4, <2>5 DEF PageHasEveryCoin
<1> QED
  BY <1>1, WasmInvariant, PTL

(* Hash p of a session is of the counter p behind its first one, for any   *)
(* lanes, seeds and sequence of batches, but for the lanes behind a wrap   *)
(* of the low word, whose counter is one word lower; the coins of the      *)
(* session are those of these counters, and the statistics count them all. *)
THEOREM CountersInOneRun == Spec => []CountersContiguous
<1>1. ASSUME WasmInv PROVE CountersContiguous
  <2>1. /\ g_counter = Counted(first, g_total_hashes)
        /\ session > 0 =>
              SessionCoins(produced, session) = CoinsIn(first, session, g_total_hashes)
    BY <1>1 DEF WasmInv, CountInv
  <2>2. CoinsIn(first, session, g_total_hashes) =
            {<<session, p>> : p \in {q \in 0..(g_total_hashes - 1) : CounterOfHash(q) \in Golden}}
    BY CounterOfHashIs DEF CoinsIn
  <2> QED
    BY <2>1, <2>2 DEF CountersContiguous, SessionCoins
<1> QED
  BY <1>1, WasmInvariant, PTL
=============================================================================
