----------------------------- MODULE VaultProofs -----------------------------
(***************************************************************************)
(* Theorems about the vault, for any set of coins, any size of the buffer  *)
(* and any number of calls, runs, failures and kills.                      *)
(***************************************************************************)
EXTENDS Vault, SequenceTheorems, TLAPS

-----------------------------------------------------------------------------
(* Joining lines to a file *)

LEMMA LinesDiffer ==
    /\ Torn \in FileLine /\ Damaged \in FileLine /\ Line \subseteq FileLine
    /\ Torn \notin Line /\ Damaged # Torn
BY DEF Torn, Damaged, Line, FileLine

LEMMA LinesAreFileLines ==
    ASSUME NEW s \in Seq(Line)
    PROVE  s \in Seq(FileLine)
BY LinesDiffer, SeqMonotonic

LEMMA FrontProperties ==
    ASSUME NEW S, NEW s \in Seq(S), s # <<>>
    PROVE  /\ Front(s) \in Seq(S)
           /\ Len(Front(s)) = Len(s) - 1
           /\ \A i \in 1..(Len(s) - 1) : Front(s)[i] = s[i]
           /\ Last(s) = s[Len(s)] /\ Last(s) \in S
<1>1. Len(s) \in Nat \ {0}
  BY EmptySeq
<1>2. \A i \in 1..(Len(s) - 1) : s[i] \in S
  BY <1>1, ElementOfSeq
<1>3. /\ SubSeq(s, 1, Len(s) - 1) \in Seq(S)
      /\ Len(SubSeq(s, 1, Len(s) - 1)) = IF 1 <= Len(s) - 1 THEN (Len(s) - 1) - 1 + 1 ELSE 0
      /\ \A i \in 1..((Len(s) - 1) - 1 + 1) : SubSeq(s, 1, Len(s) - 1)[i] = s[1 + i - 1]
  BY <1>1, <1>2, SubSeqProperties
<1>4. Front(s) = SubSeq(s, 1, Len(s) - 1)
  BY DEF Front
<1>5. \A i \in 1..(Len(s) - 1) : Front(s)[i] = s[i]
  <2> TAKE i \in 1..(Len(s) - 1)
  <2>1. i \in 1..((Len(s) - 1) - 1 + 1) /\ 1 + i - 1 = i
    BY <1>1
  <2> QED
    BY <1>3, <1>4, <2>1
<1>6. Last(s) = s[Len(s)] /\ Last(s) \in S
  BY <1>1, ElementOfSeq DEF Last
<1>7. Len(Front(s)) = Len(s) - 1
  <2>1. Len(Front(s)) = IF 1 <= Len(s) - 1 THEN (Len(s) - 1) - 1 + 1 ELSE 0
    BY <1>3, <1>4
  <2> DEFINE n == Len(s)
  <2>2. n \in Nat /\ n # 0
    BY <1>1
  <2> HIDE DEF n
  <2>3. (IF 1 <= n - 1 THEN (n - 1) - 1 + 1 ELSE 0) = n - 1
    BY <2>2
  <2> QED
    BY <2>1, <2>3 DEF n
<1> QED
  BY <1>3, <1>4, <1>5, <1>6, <1>7

LEMMA FileAssociative ==
    ASSUME NEW s \in Seq(FileLine), NEW t \in Seq(FileLine), NEW u \in Seq(FileLine)
    PROVE  (s \o t) \o u = s \o (t \o u)
BY ConcatAssociative

LEMMA FileConcat ==
    ASSUME NEW s \in Seq(FileLine), NEW t \in Seq(FileLine)
    PROVE  /\ s \o t \in Seq(FileLine)
           /\ Len(s \o t) = Len(s) + Len(t)
           /\ Len(s) \in Nat /\ Len(t) \in Nat
           /\ \A i \in 1..Len(s) : (s \o t)[i] = s[i]
           /\ \A i \in 1..Len(t) : (s \o t)[Len(s) + i] = t[i]
<1>1. Len(s) \in Nat /\ Len(t) \in Nat
  BY LenProperties
<1>2. /\ s \o t \in Seq(FileLine)
      /\ Len(s \o t) = Len(s) + Len(t)
      /\ \A i \in 1..(Len(s) + Len(t)) : (s \o t)[i] =
            IF i <= Len(s) THEN s[i] ELSE t[i - Len(s)]
  BY ConcatProperties
<1>3. \A i \in 1..Len(s) : (s \o t)[i] = s[i]
  BY <1>1, <1>2
<1>4. \A i \in 1..Len(t) : (s \o t)[Len(s) + i] = t[i]
  <2> TAKE i \in 1..Len(t)
  <2>1. /\ Len(s) + i \in 1..(Len(s) + Len(t))
        /\ ~(Len(s) + i <= Len(s)) /\ (Len(s) + i) - Len(s) = i
    BY <1>1
  <2> QED
    BY <1>2, <2>1
<1> QED
  BY <1>1, <1>2, <1>3, <1>4

(* The line with which a joined file goes on after a torn one. *)
Mended(lines) == <<IF Head(lines) = Torn THEN Torn ELSE Damaged>> \o Tail(lines)

LEMMA MendedProperties ==
    ASSUME NEW lines \in Seq(FileLine), lines # <<>>
    PROVE  /\ Mended(lines) \in Seq(FileLine)
           /\ Len(Mended(lines)) = Len(lines)
           /\ Mended(lines)[1] \in {Torn, Damaged}
           /\ \A i \in 2..Len(lines) : Mended(lines)[i] = lines[i]
<1> DEFINE first == <<IF Head(lines) = Torn THEN Torn ELSE Damaged>>
<1>1. first \in Seq(FileLine) /\ Len(first) = 1 /\ first[1] \in {Torn, Damaged}
  BY LinesDiffer
<1>2. /\ Tail(lines) \in Seq(FileLine)
      /\ Len(Tail(lines)) = Len(lines) - 1
      /\ \A i \in 1..Len(Tail(lines)) : Tail(lines)[i] = lines[i + 1]
  BY HeadTailProperties
<1>3. Len(lines) \in Nat \ {0}
  BY EmptySeq
<1> HIDE DEF first
<1>4. /\ first \o Tail(lines) \in Seq(FileLine)
      /\ Len(first \o Tail(lines)) = Len(first) + Len(Tail(lines))
      /\ \A i \in 1..Len(first) : (first \o Tail(lines))[i] = first[i]
      /\ \A i \in 1..Len(Tail(lines)) : (first \o Tail(lines))[Len(first) + i] = Tail(lines)[i]
  BY <1>1, <1>2, FileConcat
<1>5. Mended(lines) = first \o Tail(lines)
  BY DEF Mended, first
<1>6. \A i \in 2..Len(lines) : (first \o Tail(lines))[i] = lines[i]
  <2> TAKE i \in 2..Len(lines)
  <2>1. /\ i - 1 \in 1..Len(Tail(lines)) /\ (i - 1) + 1 = i
        /\ Len(first) + (i - 1) = i
    BY <1>1, <1>2, <1>3
  <2>2. (first \o Tail(lines))[Len(first) + (i - 1)] = Tail(lines)[i - 1]
    BY <1>4, <2>1
  <2> QED
    BY <1>2, <2>1, <2>2
<1> QED
  BY <1>1, <1>2, <1>3, <1>4, <1>5, <1>6

LEMMA JoinedCases ==
    ASSUME NEW f \in Seq(FileLine), NEW lines \in Seq(FileLine)
    PROVE  /\ EndsTorn(f) /\ lines # <<>> => Joined(f, lines) = Front(f) \o Mended(lines)
           /\ ~EndsTorn(f) \/ lines = <<>> => Joined(f, lines) = f \o lines
           /\ Joined(f, lines) \in Seq(FileLine)
           /\ Len(Joined(f, lines)) \in Nat
<1>1. CASE EndsTorn(f) /\ lines # <<>>
  <2>1. f # <<>>
    BY <1>1 DEF EndsTorn
  <2>2. Front(f) \in Seq(FileLine) /\ Mended(lines) \in Seq(FileLine)
    BY <1>1, <2>1, FrontProperties, MendedProperties
  <2>3. Joined(f, lines) = Front(f) \o Mended(lines)
    <3>1. Joined(f, lines) =
            Front(f) \o <<IF Head(lines) = Torn THEN Torn ELSE Damaged>> \o Tail(lines)
      BY <1>1 DEF Joined
    <3>2. Tail(lines) \in Seq(FileLine)
      BY <1>1, HeadTailProperties
    <3>3. <<IF Head(lines) = Torn THEN Torn ELSE Damaged>> \in Seq(FileLine)
      BY LinesDiffer
    <3> QED
      BY <2>2, <3>1, <3>2, <3>3, ConcatAssociative DEF Mended
  <2>4. Joined(f, lines) \in Seq(FileLine)
    BY <2>2, <2>3, ConcatProperties
  <2> QED
    BY <1>1, <2>3, <2>4, LenProperties
<1>2. CASE ~EndsTorn(f) \/ lines = <<>>
  <2>1. Joined(f, lines) = f \o lines
    BY <1>2 DEF Joined
  <2>2. Joined(f, lines) \in Seq(FileLine)
    BY <2>1, ConcatProperties
  <2> QED
    BY <1>2, <2>1, <2>2, LenProperties
<1> QED
  BY <1>1, <1>2

LEMMA JoinedNothing ==
    ASSUME NEW f \in Seq(FileLine)
    PROVE  Joined(f, <<>>) = f
BY ConcatEmptySeq DEF Joined

(* Behind lines that are whole the file does not end in a torn one. *)
LEMMA JoinedIsWhole ==
    ASSUME NEW f \in Seq(FileLine), NEW lines \in Seq(Line), lines # <<>>
    PROVE  ~EndsTorn(Joined(f, lines))
<1>1. lines \in Seq(FileLine)
  BY LinesAreFileLines
<1>2. Len(lines) \in Nat \ {0}
  BY EmptySeq
<1>3. lines[Len(lines)] \in Line /\ lines[Len(lines)] # Torn
  BY <1>2, ElementOfSeq, LinesDiffer
<1>4. Head(lines) # Torn
  BY HeadTailProperties, LinesDiffer
<1>5. CASE EndsTorn(f)
  <2>1. f # <<>>
    BY <1>5 DEF EndsTorn
  <2>2. Joined(f, lines) = Front(f) \o Mended(lines)
    BY <1>1, <1>5, JoinedCases
  <2>3. /\ Front(f) \in Seq(FileLine) /\ Mended(lines) \in Seq(FileLine)
        /\ Len(Mended(lines)) = Len(lines)
    BY <1>1, <2>1, FrontProperties, MendedProperties
  <2>4. Last(Joined(f, lines)) = Mended(lines)[Len(lines)]
    <3>1. /\ Len(Joined(f, lines)) = Len(Front(f)) + Len(lines)
          /\ Len(lines) \in 1..Len(Mended(lines))
      <4>1. Len(Front(f) \o Mended(lines)) = Len(Front(f)) + Len(Mended(lines))
        BY <2>3, FileConcat
      <4> QED
        BY <1>2, <2>2, <2>3, <4>1
    <3>2. (Front(f) \o Mended(lines))[Len(Front(f)) + Len(lines)] = Mended(lines)[Len(lines)]
      BY <2>3, <3>1, FileConcat
    <3> QED
      BY <2>2, <3>1, <3>2 DEF Last
  <2>5. Mended(lines)[Len(lines)] # Torn
    <3>1. CASE Len(lines) = 1
      <4>1. Mended(lines) = <<Damaged>> \o Tail(lines)
        BY <1>4 DEF Mended
      <4>2. Tail(lines) \in Seq(FileLine) /\ <<Damaged>> \in Seq(FileLine)
        BY <1>1, HeadTailProperties, LinesDiffer
      <4>3. (<<Damaged>> \o Tail(lines))[1] = <<Damaged>>[1]
        <5>1. 1 \in 1..Len(<<Damaged>>)
          OBVIOUS
        <5> QED
          BY <4>2, <5>1, FileConcat
      <4> QED
        BY <3>1, <4>1, <4>3, LinesDiffer
    <3>2. CASE Len(lines) # 1
      <4>1. Len(lines) \in 2..Len(lines)
        <5> DEFINE n == Len(lines)
        <5>1. n \in Nat /\ n # 0 /\ n # 1
          BY <1>2, <3>2
        <5> HIDE DEF n
        <5>2. n \in 2..n
          BY <5>1
        <5> QED
          BY <5>2 DEF n
      <4>2. Mended(lines)[Len(lines)] = lines[Len(lines)]
        BY <1>1, <4>1, MendedProperties
      <4> QED
        BY <1>3, <4>2
    <3> QED
      BY <3>1, <3>2
  <2> QED
    BY <2>4, <2>5 DEF EndsTorn
<1>6. CASE ~EndsTorn(f)
  <2>1. Joined(f, lines) = f \o lines
    BY <1>1, <1>6, JoinedCases
  <2>2. Last(Joined(f, lines)) = lines[Len(lines)]
    <3>1. Len(f \o lines) = Len(f) + Len(lines) /\ Len(lines) \in 1..Len(lines)
      BY <1>1, <1>2, FileConcat
    <3>2. (f \o lines)[Len(f) + Len(lines)] = lines[Len(lines)]
      BY <1>1, <3>1, FileConcat
    <3> QED
      BY <2>1, <3>1, <3>2 DEF Last
  <2> QED
    BY <1>3, <2>2 DEF EndsTorn
<1> QED
  BY <1>5, <1>6

(* Two writes, of which the first wrote whole lines, are one. *)
LEMMA JoinedTwice ==
    ASSUME NEW f \in Seq(FileLine), NEW a \in Seq(Line), NEW b \in Seq(FileLine)
    PROVE  Joined(Joined(f, a), b) = Joined(f, a \o b)
<1>1. a \in Seq(FileLine) /\ a \o b \in Seq(FileLine)
  BY LinesAreFileLines, FileConcat
<1>2. CASE a = <<>>
  BY <1>2, JoinedNothing, ConcatEmptySeq
<1>3. CASE a # <<>>
  <2>1. ~EndsTorn(Joined(f, a)) /\ Joined(f, a) \in Seq(FileLine)
    BY <1>1, <1>3, JoinedIsWhole, JoinedCases
  <2>2. Joined(Joined(f, a), b) = Joined(f, a) \o b
    BY <2>1, JoinedCases
  <2>3. a \o b # <<>>
    BY <1>1, <1>3, ConcatEqualIffEmpty
  <2>4. CASE EndsTorn(f)
    <3>1. f # <<>>
      BY <2>4 DEF EndsTorn
    <3>2. /\ Front(f) \in Seq(FileLine) /\ Mended(a) \in Seq(FileLine)
          /\ Joined(f, a) = Front(f) \o Mended(a)
          /\ Joined(f, a \o b) = Front(f) \o Mended(a \o b)
      BY <1>1, <1>3, <2>3, <2>4, <3>1, FrontProperties, MendedProperties, JoinedCases
    <3>3. Mended(a \o b) = Mended(a) \o b
      <4> DEFINE first == <<IF Head(a) = Torn THEN Torn ELSE Damaged>>
      <4>1. first \in Seq(FileLine) /\ Tail(a) \in Seq(FileLine)
        BY <1>1, <1>3, HeadTailProperties, LinesDiffer
      <4>2. Head(a \o b) = Head(a) /\ Tail(a \o b) = Tail(a) \o b
        BY <1>1, <1>3
      <4>3. Mended(a \o b) = first \o (Tail(a) \o b) /\ Mended(a) = first \o Tail(a)
        BY <4>2 DEF Mended
      <4> HIDE DEF first
      <4>4. (first \o Tail(a)) \o b = first \o (Tail(a) \o b)
        BY <4>1, FileAssociative
      <4> QED
        BY <4>3, <4>4
    <3>4. (Front(f) \o Mended(a)) \o b = Front(f) \o (Mended(a) \o b)
      BY <3>2, FileAssociative
    <3> QED
      BY <2>2, <3>2, <3>3, <3>4
  <2>5. CASE ~EndsTorn(f)
    <3>1. Joined(f, a) = f \o a /\ Joined(f, a \o b) = f \o (a \o b)
      BY <1>1, <2>5, JoinedCases
    <3> QED
      BY <1>1, <2>2, <3>1, ConcatAssociative
  <2> QED
    BY <2>4, <2>5
<1> QED
  BY <1>2, <1>3

(* The first lines of two sequences that follow one another *)
LEMMA FirstOfConcat ==
    ASSUME NEW S, NEW a \in Seq(S), NEW b \in Seq(S), NEW k \in 0..Len(b)
    PROVE  /\ SubSeq(b, 1, k) \in Seq(S)
           /\ SubSeq(a \o b, 1, Len(a) + k) = a \o SubSeq(b, 1, k)
<1>1. Len(a) \in Nat /\ Len(b) \in Nat
  BY LenProperties
<1>2. /\ SubSeq(b, 1, k) \in Seq(S)
      /\ Len(SubSeq(b, 1, k)) = k
      /\ \A i \in 1..k : SubSeq(b, 1, k)[i] = b[i]
  <2>1. \A i \in 1..k : b[i] \in S
    BY <1>1, ElementOfSeq
  <2>2. /\ SubSeq(b, 1, k) \in Seq(S)
        /\ Len(SubSeq(b, 1, k)) = IF 1 <= k THEN k - 1 + 1 ELSE 0
        /\ \A i \in 1..(k - 1 + 1) : SubSeq(b, 1, k)[i] = b[1 + i - 1]
    BY <1>1, <2>1, SubSeqProperties
  <2>3. (IF 1 <= k THEN k - 1 + 1 ELSE 0) = k
    BY <1>1
  <2>4. \A i \in 1..k : i \in 1..(k - 1 + 1) /\ 1 + i - 1 = i
    BY <1>1
  <2> QED
    BY <2>2, <2>3, <2>4
<1>3. /\ a \o b \in Seq(S)
      /\ \A i \in 1..(Len(a) + Len(b)) : (a \o b)[i] =
            IF i <= Len(a) THEN a[i] ELSE b[i - Len(a)]
  BY ConcatProperties
<1>4. /\ a \o SubSeq(b, 1, k) \in Seq(S)
      /\ Len(a \o SubSeq(b, 1, k)) = Len(a) + k
      /\ \A i \in 1..(Len(a) + k) : (a \o SubSeq(b, 1, k))[i] =
            IF i <= Len(a) THEN a[i] ELSE SubSeq(b, 1, k)[i - Len(a)]
  <2> DEFINE t == SubSeq(b, 1, k)
  <2>1. t \in Seq(S) /\ Len(t) = k
    BY <1>2
  <2> HIDE DEF t
  <2>2. /\ a \o t \in Seq(S)
        /\ Len(a \o t) = Len(a) + Len(t)
        /\ \A i \in 1..(Len(a) + Len(t)) : (a \o t)[i] =
              IF i <= Len(a) THEN a[i] ELSE t[i - Len(a)]
    BY <2>1, ConcatProperties
  <2> QED
    BY <2>1, <2>2 DEF t
<1>5. /\ SubSeq(a \o b, 1, Len(a) + k) \in Seq(S)
      /\ Len(SubSeq(a \o b, 1, Len(a) + k)) = Len(a) + k
      /\ \A i \in 1..(Len(a) + k) : SubSeq(a \o b, 1, Len(a) + k)[i] = (a \o b)[i]
  <2> DEFINE n == Len(a) + k
  <2>1. n \in Nat /\ \A i \in 1..n : i \in 1..(Len(a) + Len(b))
    BY <1>1
  <2>2. \A i \in 1..n : (a \o b)[i] \in S
    <3>1. Len(a \o b) = Len(a) + Len(b)
      BY ConcatProperties
    <3> QED
      BY <1>3, <2>1, <3>1, ElementOfSeq
  <2> HIDE DEF n
  <2>3. /\ SubSeq(a \o b, 1, n) \in Seq(S)
        /\ Len(SubSeq(a \o b, 1, n)) = IF 1 <= n THEN n - 1 + 1 ELSE 0
        /\ \A i \in 1..(n - 1 + 1) : SubSeq(a \o b, 1, n)[i] = (a \o b)[1 + i - 1]
    BY <2>1, <2>2, SubSeqProperties
  <2>4. (IF 1 <= n THEN n - 1 + 1 ELSE 0) = n
    BY <2>1
  <2>5. \A i \in 1..n : i \in 1..(n - 1 + 1) /\ 1 + i - 1 = i
    BY <2>1
  <2>6. \A i \in 1..n : SubSeq(a \o b, 1, n)[i] = (a \o b)[i]
    BY <2>3, <2>5
  <2>7. Len(SubSeq(a \o b, 1, n)) = n
    BY <2>3, <2>4
  <2> QED
    BY <2>3, <2>6, <2>7 DEF n
<1>6. \A i \in 1..(Len(a) + k) :
        SubSeq(a \o b, 1, Len(a) + k)[i] = (a \o SubSeq(b, 1, k))[i]
  <2> TAKE i \in 1..(Len(a) + k)
  <2>1. i \in 1..(Len(a) + Len(b))
    BY <1>1
  <2>2. CASE i <= Len(a)
    BY <1>3, <1>4, <1>5, <2>1, <2>2
  <2>3. CASE ~(i <= Len(a))
    <3>1. i - Len(a) \in 1..k
      BY <1>1, <2>3
    <3>2. (a \o b)[i] = b[i - Len(a)]
      BY <1>3, <2>1, <2>3
    <3>3. (a \o SubSeq(b, 1, k))[i] = SubSeq(b, 1, k)[i - Len(a)]
      BY <1>4, <2>3
    <3> QED
      BY <1>2, <1>5, <3>1, <3>2, <3>3
  <2> QED
    BY <2>2, <2>3
<1>7. SubSeq(a \o b, 1, Len(a) + k) = a \o SubSeq(b, 1, k)
  <2> DEFINE t == SubSeq(a \o b, 1, Len(a) + k)
             u == a \o SubSeq(b, 1, k)
  <2>1. /\ t \in Seq(S) /\ u \in Seq(S) /\ Len(t) = Len(u)
        /\ \A i \in 1..Len(t) : t[i] = u[i]
    BY <1>4, <1>5, <1>6
  <2> HIDE DEF t, u
  <2>2. t = u
    BY <2>1, SeqEqual
  <2> QED
    BY <2>2 DEF t, u
<1> QED
  BY <1>2, <1>7

LEMMA PrefixOfConcat ==
    ASSUME NEW s \in Seq(FileLine), NEW t \in Seq(FileLine)
    PROVE  IsPrefix(s, s \o t)
<1>1. Len(s) \in Nat /\ Len(t) \in Nat /\ Len(s \o t) = Len(s) + Len(t)
  BY FileConcat
<1>2. SubSeq(s \o t, 1, Len(s)) = s
  <2>1. 0 \in 0..Len(t) /\ Len(s) + 0 = Len(s)
    BY <1>1
  <2>2. SubSeq(s \o t, 1, Len(s) + 0) = s \o SubSeq(t, 1, 0)
    BY <2>1, FirstOfConcat
  <2>3. SubSeq(t, 1, 0) = <<>>
    BY SubSeqEmpty
  <2>4. s \o <<>> = s
    BY ConcatEmptySeq
  <2> QED
    BY <2>1, <2>2, <2>3, <2>4
<1>3. SubSeq(s, 1, Len(s)) = s
  BY SubSeqFull
<1> QED
  BY <1>1, <1>2, <1>3 DEF IsPrefix

(* A write leaves every line but a torn last one. *)
LEMMA JoinedGrows ==
    ASSUME NEW f \in Seq(FileLine), NEW lines \in Seq(FileLine)
    PROVE  IsPrefix(Settled(f), Joined(f, lines))
<1>1. CASE ~EndsTorn(f)
  BY <1>1, JoinedCases, PrefixOfConcat DEF Settled
<1>2. CASE EndsTorn(f) /\ lines # <<>>
  <2>1. f # <<>>
    BY <1>2 DEF EndsTorn
  <2>2. Front(f) \in Seq(FileLine) /\ Mended(lines) \in Seq(FileLine)
    BY <1>2, <2>1, FrontProperties, MendedProperties
  <2>3. Settled(f) = Front(f) /\ Joined(f, lines) = Front(f) \o Mended(lines)
    BY <1>2, JoinedCases DEF Settled
  <2> QED
    BY <2>2, <2>3, PrefixOfConcat
<1>3. CASE EndsTorn(f) /\ lines = <<>>
  <2>1. f # <<>> /\ Settled(f) = Front(f) /\ Joined(f, lines) = f
    BY <1>3, JoinedNothing DEF EndsTorn, Settled
  <2>2. Front(f) \in Seq(FileLine) /\ Len(Front(f)) = Len(f) - 1 /\ Len(f) \in Nat
    BY <2>1, FrontProperties, LenProperties
  <2>3. SubSeq(Front(f), 1, Len(Front(f))) = Front(f)
    BY <2>2, SubSeqFull
  <2>4. SubSeq(f, 1, Len(Front(f))) = Front(f)
    BY <2>2 DEF Front
  <2>5. Len(Front(f)) <= Len(f)
    BY <2>2
  <2> QED
    BY <2>1, <2>3, <2>4, <2>5 DEF IsPrefix
<1> QED
  BY <1>1, <1>2, <1>3

-----------------------------------------------------------------------------
(* What a failed write leaves *)

LEMMA PartProperties ==
    ASSUME NEW f \in Seq(FileLine), NEW lines \in Seq(Line), NEW g \in PartOf(f, lines)
    PROVE  g \in Seq(FileLine) /\ IsPrefix(Settled(f), g)
<1>1. lines \in Seq(FileLine) /\ Len(lines) \in Nat
  BY LinesAreFileLines, LenProperties
<1>2. \A k \in 0..Len(lines) : SubSeq(lines, 1, k) \in Seq(FileLine)
  BY <1>1, FirstOfConcat, EmptySeq
<1>3. ASSUME NEW k \in 0..Len(lines), g = Joined(f, SubSeq(lines, 1, k))
      PROVE  g \in Seq(FileLine) /\ IsPrefix(Settled(f), g)
  BY <1>2, <1>3, JoinedCases, JoinedGrows
<1>4. ASSUME NEW k \in 0..(Len(lines) - 1),
             g = Joined(f, SubSeq(lines, 1, k) \o <<Torn>>)
      PROVE  g \in Seq(FileLine) /\ IsPrefix(Settled(f), g)
  <2>1. SubSeq(lines, 1, k) \in Seq(FileLine) /\ <<Torn>> \in Seq(FileLine)
    BY <1>1, <1>2, LinesDiffer
  <2>2. SubSeq(lines, 1, k) \o <<Torn>> \in Seq(FileLine)
    BY <2>1, FileConcat
  <2> QED
    BY <1>4, <2>2, JoinedCases, JoinedGrows
<1> QED
  BY <1>3, <1>4 DEF PartOf

(* A part of the last lines, behind the lines before them, is a part of    *)
(* all lines.                                                              *)
LEMMA PartOfRest ==
    ASSUME NEW f \in Seq(FileLine), NEW a \in Seq(Line), NEW b \in Seq(Line)
    PROVE  /\ PartOf(Joined(f, a), b) \subseteq PartOf(f, a \o b)
           /\ Joined(f, a) \in PartOf(f, a \o b)
<1>1. /\ Len(a) \in Nat /\ Len(b) \in Nat
      /\ a \o b \in Seq(Line) /\ Len(a \o b) = Len(a) + Len(b)
  BY LenProperties, ConcatProperties
<1>2. ASSUME NEW k \in 0..Len(b)
      PROVE  /\ SubSeq(b, 1, k) \in Seq(Line)
             /\ SubSeq(a \o b, 1, Len(a) + k) = a \o SubSeq(b, 1, k)
             /\ Len(a) + k \in 0..Len(a \o b)
  BY <1>1, FirstOfConcat
<1>3. ASSUME NEW k \in 0..Len(b)
      PROVE  Joined(Joined(f, a), SubSeq(b, 1, k)) \in PartOf(f, a \o b)
  <2>1. SubSeq(b, 1, k) \in Seq(FileLine)
    BY <1>2, LinesAreFileLines
  <2>2. Joined(Joined(f, a), SubSeq(b, 1, k)) = Joined(f, SubSeq(a \o b, 1, Len(a) + k))
    <3>1. Joined(Joined(f, a), SubSeq(b, 1, k)) = Joined(f, a \o SubSeq(b, 1, k))
      BY <2>1, JoinedTwice
    <3> QED
      BY <1>2, <3>1
  <2> QED
    BY <1>2, <2>2 DEF PartOf
<1>4. ASSUME NEW k \in 0..(Len(b) - 1)
      PROVE  Joined(Joined(f, a), SubSeq(b, 1, k) \o <<Torn>>) \in PartOf(f, a \o b)
  <2>1. k \in 0..Len(b) /\ Len(a) + k \in 0..(Len(a \o b) - 1)
    BY <1>1
  <2>2. /\ SubSeq(b, 1, k) \in Seq(FileLine) /\ <<Torn>> \in Seq(FileLine)
        /\ a \in Seq(FileLine)
    BY <1>2, <2>1, LinesAreFileLines, LinesDiffer
  <2>3. SubSeq(b, 1, k) \o <<Torn>> \in Seq(FileLine)
    BY <2>2, FileConcat
  <2>4. Joined(Joined(f, a), SubSeq(b, 1, k) \o <<Torn>>)
          = Joined(f, a \o (SubSeq(b, 1, k) \o <<Torn>>))
    BY <2>3, JoinedTwice
  <2>5. a \o (SubSeq(b, 1, k) \o <<Torn>>) = (a \o SubSeq(b, 1, k)) \o <<Torn>>
    BY <2>2, FileAssociative
  <2>6. Joined(Joined(f, a), SubSeq(b, 1, k) \o <<Torn>>)
          = Joined(f, SubSeq(a \o b, 1, Len(a) + k) \o <<Torn>>)
    BY <1>2, <2>1, <2>4, <2>5
  <2> QED
    BY <2>1, <2>6 DEF PartOf
<1>5. PartOf(Joined(f, a), b) \subseteq PartOf(f, a \o b)
  BY <1>3, <1>4 DEF PartOf
<1>6. Joined(f, a) \in PartOf(f, a \o b)
  <2>1. Joined(f, a) \in Seq(FileLine)
    BY LinesAreFileLines, JoinedCases
  <2>2. SubSeq(b, 1, 0) = <<>> /\ 0 \in 0..Len(b)
    BY <1>1, SubSeqEmpty
  <2>3. Joined(Joined(f, a), SubSeq(b, 1, 0)) = Joined(f, a)
    BY <2>1, <2>2, JoinedNothing
  <2> QED
    BY <1>3, <2>2, <2>3
<1> QED
  BY <1>5, <1>6

-----------------------------------------------------------------------------
(* The types of all variables. *)

LEMMA LineOfCoin ==
    ASSUME NEW c \in Coins
    PROVE  LineOf(c) \in Line
<1>1. c.id \in Nat /\ c.zeros \in 0..128
  BY CoinsAssumption
<1>2. Power(c.zeros) \in 0..99
  BY <1>1 DEF Power
<1> QED
  BY <1>1, <1>2 DEF LineOf, Line

LEMMA BufferProperties ==
    ASSUME TypeOK
    PROVE  /\ saved_coins \in Seq(FileLine)
           /\ Joined(file, saved_coins) \in Seq(FileLine)
           /\ KeptLines \in Seq(Line) /\ Len(KeptLines) < MAX_SAVED_COINS
           /\ FileBefore \in Seq(FileLine)
<1>1. saved_coins \in Seq(Line) /\ saved_coins \in Seq(FileLine) /\ file \in Seq(FileLine)
  BY LinesAreFileLines DEF TypeOK
<1>2. Joined(file, saved_coins) \in Seq(FileLine)
  BY <1>1, JoinedCases
<1>3. KeptLines \in Seq(Line) /\ Len(KeptLines) < MAX_SAVED_COINS
  <2>1. CASE BufferFull
    BY <2>1, CapacityAssumption DEF KeptLines, AfterFlush
  <2>2. CASE ~BufferFull
    <3>1. /\ KeptLines = saved_coins /\ Len(saved_coins) \in Nat
          /\ Len(saved_coins) <= MAX_SAVED_COINS /\ Len(saved_coins) # MAX_SAVED_COINS
      BY <1>1, <2>2, LenProperties DEF KeptLines, BufferFull, n_saved_coins, TypeOK
    <3> QED
      BY <1>1, <3>1, CapacityAssumption
  <2> QED
    BY <2>1, <2>2
<1> QED
  BY <1>1, <1>2, <1>3 DEF FileBefore

(* The errors that are left and those that were made are four together;    *)
(* only the fifth makes the count negative.                                *)
ErrorsCounted ==
    /\ rejected = ToleratedErrors - error_tolerance_count
    /\ status = "too_many_errors" <=> error_tolerance_count = -1

TypeInv == TypeOK /\ ErrorsCounted

LEMMA TypeInit == Init => TypeInv
<1> SUFFICES ASSUME Init PROVE TypeInv
  OBVIOUS
<1>1. TypeOK
  BY CapacityAssumption, EmptySeq DEF Init, TypeOK, ToleratedErrors, n_saved_coins
<1>2. ErrorsCounted
  BY DEF Init, ErrorsCounted, ToleratedErrors
<1> QED
  BY <1>1, <1>2 DEF TypeInv

LEMMA TypeStep == TypeInv /\ [Next]_vars => TypeInv'
<1> SUFFICES ASSUME TypeInv, [Next]_vars PROVE TypeInv'
  OBVIOUS
<1> USE DEF TypeInv
<1>1. /\ saved_coins \in Seq(FileLine) /\ Joined(file, saved_coins) \in Seq(FileLine)
      /\ KeptLines \in Seq(Line) /\ Len(KeptLines) < MAX_SAVED_COINS
      /\ FileBefore \in Seq(FileLine)
  BY BufferProperties
<1>2. ASSUME WriteFails, status = "running", calls' \in Nat PROVE TypeInv'
  <2>1. file' \in Seq(FileLine)
    BY <1>2, PartProperties DEF WriteFails, TypeOK
  <2>2. TypeOK'
    BY <1>2, <2>1 DEF WriteFails, TypeOK, n_saved_coins
  <2>3. ErrorsCounted'
    BY <1>2 DEF WriteFails, ErrorsCounted
  <2> QED
    BY <2>2, <2>3
<1>3. ASSUME NEW next \in {"running", "returned"}, SaveAllAnd(next) PROVE TypeInv'
  <2>1. CASE WriteFails
    BY <1>2, <1>3, <2>1 DEF SaveAllAnd, TypeOK
  <2>2. CASE /\ file' = Joined(file, saved_coins) /\ saved_coins' = AfterFlush /\ status' = next
             /\ UNCHANGED <<error_tolerance_count, base, accepted, rejected>>
    <3>1. saved_coins' = <<>> /\ Len(saved_coins') = 0
      BY <2>2 DEF AfterFlush
    <3>2. TypeOK'
      BY <1>1, <1>3, <2>2, <3>1, CapacityAssumption, EmptySeq DEF SaveAllAnd, TypeOK, n_saved_coins
    <3>3. ErrorsCounted'
      BY <1>3, <2>2 DEF SaveAllAnd, ErrorsCounted
    <3> QED
      BY <3>2, <3>3
  <2> QED
    BY <1>3, <2>1, <2>2 DEF SaveAllAnd
<1>4. ASSUME NEW c \in Coins, SaveCoin(c) PROVE TypeInv'
  <2>1. calls' \in Nat /\ status = "running"
    BY <1>4 DEF SaveCoin, TypeOK
  <2>2. CASE Accept(c)
    <3>1. LineOf(c) \in Line
      BY LineOfCoin
    <3>2. saved_coins' \in Seq(Line) /\ Len(saved_coins') <= MAX_SAVED_COINS
      <4>1. /\ Append(KeptLines, LineOf(c)) \in Seq(Line)
            /\ Len(Append(KeptLines, LineOf(c))) = Len(KeptLines) + 1
            /\ Len(KeptLines) \in Nat
        BY <1>1, <3>1, AppendProperties, LenProperties
      <4> QED
        BY <1>1, <2>2, <4>1, CapacityAssumption DEF Accept
    <3>3. accepted' \in Seq(Line)
      BY <2>2, <3>1, AppendProperties DEF Accept, TypeOK
    <3>4. TypeOK'
      BY <1>1, <2>1, <2>2, <3>2, <3>3 DEF Accept, TypeOK, n_saved_coins
    <3>5. ErrorsCounted'
      BY <2>2 DEF Accept, ErrorsCounted
    <3> QED
      BY <3>4, <3>5
  <2>3. CASE Reject(c)
    <3>1. error_tolerance_count \in 0..ToleratedErrors
      BY <2>1 DEF TypeOK, ErrorsCounted, ToleratedErrors
    <3>2. TypeOK'
      <4>1. status' \in {"too_many_errors", "running"}
        BY <2>3 DEF Reject
      <4>2. Len(KeptLines) \in Nat /\ Len(KeptLines) <= MAX_SAVED_COINS
        BY <1>1, CapacityAssumption, LenProperties
      <4>3. saved_coins' \in Seq(Line) /\ Len(saved_coins') <= MAX_SAVED_COINS
        BY <1>1, <2>3, <4>2 DEF Reject
      <4>4. error_tolerance_count' \in -1..ToleratedErrors /\ rejected' \in Nat
        BY <2>3, <3>1 DEF Reject, TypeOK, ToleratedErrors
      <4>5. file' \in Seq(FileLine) /\ base' \in Seq(FileLine) /\ accepted' \in Seq(Line)
        BY <1>1, <2>3 DEF Reject, TypeOK
      <4> QED
        BY <2>1, <4>1, <4>3, <4>4, <4>5 DEF TypeOK, n_saved_coins
    <3>3. ErrorsCounted'
      BY <2>3, <3>1 DEF Reject, ErrorsCounted, TooManyErrors, ToleratedErrors
    <3> QED
      BY <3>2, <3>3
  <2>4. CASE WriteFails
    BY <1>2, <2>1, <2>4
  <2> QED
    BY <1>4, <2>2, <2>3, <2>4 DEF SaveCoin
<1>5. ASSUME Kill PROVE TypeInv'
  BY <1>5 DEF Kill, TypeOK, ErrorsCounted, n_saved_coins
<1>6. ASSUME StartAgain PROVE TypeInv'
  <2>1. saved_coins' = <<>> /\ Len(saved_coins') = 0
    BY <1>6 DEF StartAgain
  <2>2. TypeOK'
    BY <1>6, <2>1, CapacityAssumption, EmptySeq
       DEF StartAgain, TypeOK, n_saved_coins, ToleratedErrors
  <2>3. ErrorsCounted'
    BY <1>6 DEF StartAgain, ErrorsCounted, ToleratedErrors
  <2> QED
    BY <2>2, <2>3
<1>7. ASSUME UNCHANGED vars PROVE TypeInv'
  BY <1>7 DEF vars, TypeOK, ErrorsCounted, n_saved_coins
<1> QED
  BY <1>3, <1>4, <1>5, <1>6, <1>7 DEF Next, SaveAll, Return

(* Types.                                                                  *)
THEOREM TypeCorrect == Spec => []TypeOK
<1>1. TypeInv => TypeOK
  BY DEF TypeInv
<1> QED
  BY <1>1, TypeInit, TypeStep, PTL DEF Spec

(* Four bad coins are tolerated and the fifth ends the program, in every   *)
(* order of good and bad coins, flushes and later runs.                    *)
THEOREM FifthErrorEnds == Spec => []FourErrorsTolerated
<1>1. TypeInv => FourErrorsTolerated
  BY DEF TypeInv, TypeOK, ErrorsCounted, FourErrorsTolerated, ToleratedErrors
<1> QED
  BY <1>1, TypeInit, TypeStep, PTL DEF Spec

-----------------------------------------------------------------------------
(* The coins: the accepted ones are those written behind the file that the *)
(* process found, and behind them the buffer.                              *)

WrittenAndKept(f, b, lines, kept) ==
    \E written \in Seq(Line) : lines = written \o kept /\ f = Joined(b, written)

CoinsAccounted ==
    /\ IF status = "write_error" THEN file \in PartOf(base, accepted)
                                 ELSE WrittenAndKept(file, base, accepted, saved_coins)
    /\ status = "returned" => saved_coins = <<>>

CoinsInv == TypeInv /\ CoinsAccounted

(* A file with nothing behind it in the buffer *)
LEMMA AllWritten ==
    ASSUME NEW b \in Seq(FileLine), NEW lines \in Seq(Line)
    PROVE  WrittenAndKept(Joined(b, lines), b, lines, <<>>)
BY ConcatEmptySeq DEF WrittenAndKept

(* Writing the buffer to the file *)
LEMMA WriteBuffer ==
    ASSUME NEW b \in Seq(FileLine), NEW f \in Seq(FileLine), NEW lines \in Seq(Line), NEW kept \in Seq(Line),
           WrittenAndKept(f, b, lines, kept)
    PROVE  /\ Joined(f, kept) = Joined(b, lines)
           /\ WrittenAndKept(Joined(f, kept), b, lines, <<>>)
           /\ PartOf(f, kept) \subseteq PartOf(b, lines)
           /\ f \in PartOf(b, lines)
<1>1. PICK written \in Seq(Line) : lines = written \o kept /\ f = Joined(b, written)
  BY DEF WrittenAndKept
<1>2. kept \in Seq(FileLine)
  BY LinesAreFileLines
<1>3. Joined(f, kept) = Joined(b, lines)
  BY <1>1, <1>2, JoinedTwice
<1>4. PartOf(f, kept) \subseteq PartOf(b, lines) /\ f \in PartOf(b, lines)
  BY <1>1, PartOfRest
<1> QED
  BY <1>3, <1>4, AllWritten

LEMMA CoinsInit == Init => CoinsInv
<1> SUFFICES ASSUME Init PROVE CoinsInv
  OBVIOUS
<1>1. TypeInv
  BY TypeInit
<1>2. <<>> \in Seq(FileLine) /\ <<>> \in Seq(Line)
  BY EmptySeq
<1>3. Joined(<<>>, <<>>) = <<>>
  BY <1>2, JoinedNothing
<1>4. WrittenAndKept(<<>>, <<>>, <<>>, <<>>)
  BY <1>2, <1>3, AllWritten
<1> QED
  BY <1>1, <1>4 DEF Init, CoinsInv, CoinsAccounted

LEMMA CoinsStep == CoinsInv /\ [Next]_vars => CoinsInv'
<1> SUFFICES ASSUME CoinsInv, [Next]_vars PROVE CoinsAccounted'
  BY TypeStep DEF CoinsInv
<1>1. /\ TypeInv /\ TypeOK /\ CoinsAccounted
      /\ file \in Seq(FileLine) /\ base \in Seq(FileLine)
      /\ saved_coins \in Seq(Line) /\ accepted \in Seq(Line)
  BY DEF CoinsInv, TypeInv, TypeOK
<1>2. ASSUME status = "running"
      PROVE  /\ WrittenAndKept(file, base, accepted, saved_coins)
             /\ Joined(file, saved_coins) = Joined(base, accepted)
             /\ WrittenAndKept(Joined(file, saved_coins), base, accepted, <<>>)
             /\ PartOf(file, saved_coins) \subseteq PartOf(base, accepted)
             /\ WrittenAndKept(FileBefore, base, accepted, KeptLines)
  <2>1. WrittenAndKept(file, base, accepted, saved_coins)
    BY <1>1, <1>2 DEF CoinsAccounted
  <2>2. /\ Joined(file, saved_coins) = Joined(base, accepted)
        /\ WrittenAndKept(Joined(file, saved_coins), base, accepted, <<>>)
        /\ PartOf(file, saved_coins) \subseteq PartOf(base, accepted)
    BY <1>1, <2>1, WriteBuffer
  <2>3. WrittenAndKept(FileBefore, base, accepted, KeptLines)
    BY <2>1, <2>2 DEF FileBefore, KeptLines, AfterFlush
  <2> QED
    BY <2>1, <2>2, <2>3
<1>3. ASSUME WriteFails, status = "running" PROVE CoinsAccounted'
  <2>1. file' \in PartOf(base', accepted')
    BY <1>2, <1>3 DEF WriteFails
  <2> QED
    BY <1>3, <2>1 DEF WriteFails, CoinsAccounted
<1>4. ASSUME NEW next \in {"running", "returned"}, SaveAllAnd(next) PROVE CoinsAccounted'
  <2>1. status = "running"
    BY <1>4 DEF SaveAllAnd
  <2>2. CASE WriteFails
    BY <1>3, <2>1, <2>2
  <2>3. CASE /\ file' = Joined(file, saved_coins) /\ saved_coins' = AfterFlush /\ status' = next
             /\ UNCHANGED <<error_tolerance_count, base, accepted, rejected>>
    <3>1. WrittenAndKept(file', base', accepted', saved_coins')
      BY <1>2, <2>1, <2>3 DEF AfterFlush
    <3> QED
      BY <1>4, <2>3, <3>1 DEF CoinsAccounted, AfterFlush
  <2> QED
    BY <1>4, <2>2, <2>3 DEF SaveAllAnd
<1>5. ASSUME NEW c \in Coins, SaveCoin(c) PROVE CoinsAccounted'
  <2>1. status = "running" /\ WrittenAndKept(FileBefore, base, accepted, KeptLines)
    BY <1>2, <1>5 DEF SaveCoin
  <2>2. CASE Accept(c)
    <3>1. PICK written \in Seq(Line) :
            accepted = written \o KeptLines /\ FileBefore = Joined(base, written)
      BY <2>1 DEF WrittenAndKept
    <3>2. KeptLines \in Seq(Line) /\ LineOf(c) \in Line /\ <<LineOf(c)>> \in Seq(Line)
      BY <1>1, BufferProperties, LineOfCoin
    <3>3. /\ Append(accepted, LineOf(c)) = accepted \o <<LineOf(c)>>
          /\ Append(KeptLines, LineOf(c)) = KeptLines \o <<LineOf(c)>>
      BY <1>1, <3>2, AppendIsConcat
    <3>4. accepted \o <<LineOf(c)>> = written \o (KeptLines \o <<LineOf(c)>>)
      BY <3>1, <3>2, ConcatAssociative
    <3>5. WrittenAndKept(file', base', accepted', saved_coins')
      BY <2>2, <3>1, <3>3, <3>4 DEF Accept, WrittenAndKept
    <3> QED
      BY <2>1, <2>2, <3>5 DEF Accept, CoinsAccounted
  <2>3. CASE Reject(c)
    <3>1. WrittenAndKept(file', base', accepted', saved_coins')
      BY <2>1, <2>3 DEF Reject
    <3>2. status' \in {"too_many_errors", "running"}
      BY <2>3 DEF Reject
    <3> QED
      BY <3>1, <3>2 DEF CoinsAccounted
  <2>4. CASE WriteFails
    BY <1>3, <2>1, <2>4
  <2> QED
    BY <1>5, <2>2, <2>3, <2>4 DEF SaveCoin
<1>6. ASSUME Kill PROVE CoinsAccounted'
  <2>1. WrittenAndKept(file, base, accepted, saved_coins)
    BY <1>2, <1>6 DEF Kill
  <2>2. WrittenAndKept(file', base', accepted', saved_coins')
    BY <1>6, <2>1 DEF Kill
  <2> QED
    BY <1>6, <2>2 DEF Kill, CoinsAccounted
<1>7. ASSUME StartAgain PROVE CoinsAccounted'
  <2>1. Joined(file, <<>>) = file /\ <<>> \in Seq(Line)
    BY <1>1, JoinedNothing, EmptySeq
  <2>2. WrittenAndKept(file, file, <<>>, <<>>)
    <3>1. WrittenAndKept(Joined(file, <<>>), file, <<>>, <<>>)
      BY <1>1, <2>1, AllWritten
    <3> QED
      BY <2>1, <3>1
  <2>3. WrittenAndKept(file', base', accepted', saved_coins')
    BY <1>7, <2>2 DEF StartAgain
  <2> QED
    BY <1>7, <2>3 DEF StartAgain, CoinsAccounted
<1>8. ASSUME UNCHANGED vars PROVE CoinsAccounted'
  BY <1>1, <1>8 DEF vars, CoinsAccounted
<1> QED
  BY <1>4, <1>5, <1>6, <1>7, <1>8 DEF Next, SaveAll, Return

(* As long as the process runs, no accepted coin is lost, duplicated or    *)
(* out of order between the file and the buffer, for buffers of every      *)
(* size; when main returns all of them are in the file.                    *)
THEOREM NoAcceptedCoinLost == Spec => []NothingLost
<1>1. CoinsInv => NothingLost
  <2> SUFFICES ASSUME CoinsInv PROVE NothingLost
    OBVIOUS
  <2>1. /\ base \in Seq(FileLine) /\ saved_coins \in Seq(Line) /\ accepted \in Seq(Line)
        /\ file \in Seq(FileLine) /\ CoinsAccounted
    BY DEF CoinsInv, TypeInv, TypeOK
  <2>2. ASSUME status \in {"running", "returned"}
        PROVE  Joined(file, saved_coins) = Joined(base, accepted)
    <3>1. WrittenAndKept(file, base, accepted, saved_coins)
      BY <2>1, <2>2 DEF CoinsAccounted
    <3> QED
      BY <2>1, <3>1, WriteBuffer
  <2>3. ASSUME status = "returned" PROVE file = Joined(base, accepted)
    <3>1. saved_coins = <<>>
      BY <2>1, <2>3 DEF CoinsAccounted
    <3> QED
      BY <2>1, <2>2, <2>3, <3>1, JoinedNothing
  <2> QED
    BY <2>2, <2>3 DEF NothingLost
<1> QED
  BY <1>1, CoinsInit, CoinsStep, PTL DEF Spec

(* However a process ends, the file is what it found, then a prefix of     *)
(* what it accepted, then at most one torn line.                           *)
THEOREM FileInOrder == Spec => []FileKeepsAcceptedOrder
<1>1. CoinsInv => FileKeepsAcceptedOrder
  <2> SUFFICES ASSUME CoinsInv PROVE FileKeepsAcceptedOrder
    OBVIOUS
  <2>1. /\ base \in Seq(FileLine) /\ saved_coins \in Seq(Line) /\ accepted \in Seq(Line)
        /\ file \in Seq(FileLine) /\ CoinsAccounted
    BY DEF CoinsInv, TypeInv, TypeOK
  <2>2. CASE status = "write_error"
    BY <2>1, <2>2 DEF CoinsAccounted, FileKeepsAcceptedOrder
  <2>3. CASE status # "write_error"
    <3>1. WrittenAndKept(file, base, accepted, saved_coins)
      BY <2>1, <2>3 DEF CoinsAccounted
    <3> QED
      BY <2>1, <3>1, WriteBuffer DEF FileKeepsAcceptedOrder
  <2> QED
    BY <2>2, <2>3
<1> QED
  BY <1>1, CoinsInit, CoinsStep, PTL DEF Spec

(* No step takes a line out of the file or changes one but a torn last     *)
(* line, whatever fails.                                                   *)
THEOREM FileIsAppendOnly == Spec => FileOnlyGrows
<1>1. TypeInv /\ [Next]_vars => [IsPrefix(Settled(file), file')]_vars
  <2> SUFFICES ASSUME TypeInv, Next PROVE IsPrefix(Settled(file), file')
    OBVIOUS
  <2>1. /\ TypeOK /\ file \in Seq(FileLine) /\ saved_coins \in Seq(Line)
        /\ saved_coins \in Seq(FileLine) /\ <<>> \in Seq(FileLine)
    BY LinesAreFileLines, EmptySeq DEF TypeInv, TypeOK
  <2>2. IsPrefix(Settled(file), file)
    <3>1. IsPrefix(Settled(file), Joined(file, <<>>))
      BY <2>1, JoinedGrows
    <3> QED
      BY <2>1, <3>1, JoinedNothing
  <2>3. IsPrefix(Settled(file), Joined(file, saved_coins))
    BY <2>1, JoinedGrows
  <2>4. IsPrefix(Settled(file), FileBefore)
    BY <2>2, <2>3 DEF FileBefore
  <2>5. WriteFails => IsPrefix(Settled(file), file')
    BY <2>1, PartProperties DEF WriteFails
  <2>6. ASSUME NEW next, SaveAllAnd(next) PROVE IsPrefix(Settled(file), file')
    BY <2>3, <2>5, <2>6 DEF SaveAllAnd
  <2>7. ASSUME NEW c \in Coins, SaveCoin(c) PROVE IsPrefix(Settled(file), file')
    BY <2>4, <2>5, <2>7 DEF SaveCoin, Accept, Reject
  <2>8. Kill \/ StartAgain => IsPrefix(Settled(file), file')
    BY <2>2 DEF Kill, StartAgain
  <2> QED
    BY <2>6, <2>7, <2>8 DEF Next, SaveAll, Return
<1> QED
  BY <1>1, TypeInit, TypeStep, PTL DEF Spec, FileOnlyGrows
=============================================================================
