---------------------------- MODULE OmpMinerProofs ----------------------------
(***************************************************************************)
(* The CPU miners of module OmpMiner, for any number of threads, of lanes  *)
(* and of lines of the vault's buffer, and for any set of coins.           *)
(***************************************************************************)
EXTENDS OmpMiner, SumTheorems, SequenceTheorems

LEMMA MaxLine == MAX_SAVED_COINS \in Nat /\ MAX_SAVED_COINS > 0
  BY CapacityAssumption

(* The lines of the buffer are a sequence of lines. *)
LEMMA BufferType ==
    ASSUME TypeOK
    PROVE  /\ BufferLines \in Seq(V!Line)
           /\ Len(BufferLines) = n_saved_coins
<1>1. /\ saved_coins \in [0..(MAX_SAVED_COINS - 1) -> V!Line]
      /\ n_saved_coins \in 0..MAX_SAVED_COINS
  BY DEF TypeOK
<1>2. n_saved_coins \in Nat /\ \A i \in 1..n_saved_coins : saved_coins[i - 1] \in V!Line
  BY <1>1, MaxLine
<1> QED
  BY <1>2 DEF BufferLines

LEMMA LinesDiffer ==
    /\ V!Torn \in V!FileLine /\ V!Line \subseteq V!FileLine /\ V!Torn \notin V!Line
    /\ \A c \in Nat : LineOf(c) \in V!Line
  BY DEF V!Torn, V!Line, V!FileLine, LineOf

LEMMA WholeLinesAreFileLines ==
    ASSUME NEW s \in Seq(V!Line)
    PROVE  s \in Seq(V!FileLine)
<1>1. V!Line \subseteq V!FileLine
  BY LinesDiffer
<1> HIDE DEF V!Line, V!FileLine
<1> QED
  BY <1>1

(* To a file of whole lines a write only adds. *)
LEMMA JoinedIsConcat ==
    ASSUME NEW f \in Seq(V!Line), NEW lines
    PROVE  V!Joined(f, lines) = f \o lines
<1>1. ~V!EndsTorn(f)
  <2>1. f # <<>> => V!Last(f) \in V!Line
    BY DEF V!Last
  <2> QED
    BY <2>1, LinesDiffer DEF V!EndsTorn
<1> QED
  BY <1>1 DEF V!Joined

(* So does a write that fails. *)
LEMMA PartOfType ==
    ASSUME NEW f \in Seq(V!Line), NEW lines \in Seq(V!Line), NEW g \in V!PartOf(f, lines)
    PROVE  g \in Seq(V!FileLine)
<1>1. f \in Seq(V!FileLine) /\ lines \in Seq(V!FileLine) /\ V!Torn \in V!FileLine
  BY WholeLinesAreFileLines, LinesDiffer
<1>2. \A k \in 0..Len(lines) : SubSeq(lines, 1, k) \in Seq(V!FileLine)
  BY <1>1
<1>3. <<V!Torn>> \in Seq(V!FileLine)
  BY <1>1
<1>4. \/ \E k \in 0..Len(lines) : g = V!Joined(f, SubSeq(lines, 1, k))
      \/ \E k \in 0..(Len(lines) - 1) : g = V!Joined(f, SubSeq(lines, 1, k) \o <<V!Torn>>)
  BY DEF V!PartOf
<1>5. CASE \E k \in 0..Len(lines) : g = V!Joined(f, SubSeq(lines, 1, k))
  <2>1. PICK k \in 0..Len(lines) : g = f \o SubSeq(lines, 1, k)
    BY <1>5, JoinedIsConcat
  <2> QED
    BY <1>1, <1>2, <2>1
<1>6. CASE \E k \in 0..(Len(lines) - 1) : g = V!Joined(f, SubSeq(lines, 1, k) \o <<V!Torn>>)
  <2>1. PICK k \in 0..(Len(lines) - 1) : g = f \o (SubSeq(lines, 1, k) \o <<V!Torn>>)
    BY <1>6, JoinedIsConcat
  <2>2. k \in 0..Len(lines)
    BY <2>1
  <2>3. SubSeq(lines, 1, k) \o <<V!Torn>> \in Seq(V!FileLine)
    BY <1>2, <1>3, <2>2
  <2> QED
    BY <1>1, <2>1, <2>3
<1> QED
  BY <1>4, <1>5, <1>6

(* The coin in hand is one of those that wait. *)
LEMMA CoinInHandWaits ==
    ASSUME NEW t \in Threads, hits[t] \subseteq Golden, hits[t] # {}
    PROVE  CoinInHand(t) \in hits[t] /\ CoinInHand(t) \in Nat
<1>1. hits[t] \in SUBSET Nat
  BY GoldenAssumption
<1>2. \E x \in hits[t] : \A y \in hits[t] : x <= y
  BY <1>1, LeastNatural
<1> QED
  BY <1>1, <1>2 DEF CoinInHand, Min

-----------------------------------------------------------------------------
(* Which thread does what *)

Steps(t) ==
    \/ HashStep(t) \/ CountCoin(t) \/ EnterCritical(t) \/ BeginSave(t)
    \/ EndSave(t) \/ Tally(t) \/ LeaveLoop(t)

(* A step is one of the process, or one of a thread that runs. *)
LEMMA StepCases ==
    ASSUME [Next]_vars
    PROVE  \/ Interrupt \/ Finish \/ UNCHANGED vars
           \/ \E t \in Threads : Runs(t) /\ status = "running" /\ program' = program /\ Steps(t)
<1>1. 0 \in Threads
  BY ThreadsAssumption DEF Threads
<1> QED
  BY <1>1 DEF Next, Team, SingleMiner, Thread, Steps

(* While the program runs no line of the file is torn. *)
WholeLines == status = "running" => file \in Seq(V!Line)

(* A thread has coins in hand from the step that found them to the last    *)
(* of them.                                                                *)
CoinsInHand ==
    \A t \in Threads : pc[t] \in {"loop", "tally", "left"} <=> hits[t] = {}

TypeInv == TypeOK /\ WholeLines /\ CoinsInHand


(* The parts of the types, for the proofs that need one of them. *)
LEMMA TypeParts ==
    ASSUME TypeInv
    PROVE  /\ coins_found \in Nat /\ total_attempts \in Nat
           /\ pc \in [Threads -> {"loop", "count", "enter", "save", "fill",
                                  "tally", "left"}]
           /\ local_counter \in [Threads -> Nat]
           /\ hits \in [Threads -> SUBSET Golden]
           /\ slot \in [Threads -> 0..(MAX_SAVED_COINS - 1)]
           /\ saved_coins \in [0..(MAX_SAVED_COINS - 1) -> V!Line]
           /\ n_saved_coins \in 0..MAX_SAVED_COINS
           /\ accepted \in Seq(V!Line)
           /\ BufferLines \in Seq(V!Line)
           /\ status = "running" => file \in Seq(V!Line)
           /\ \A t \in Threads : pc[t] \in {"loop", "tally", "left"} <=> hits[t] = {}
  BY BufferType DEF TypeInv, TypeOK, WholeLines, CoinsInHand

(* A write of the buffer, whole or broken off, leaves a file of lines. *)
LEMMA WriteTypes ==
    ASSUME TypeInv, status = "running"
    PROVE  /\ V!Joined(file, BufferLines) = file \o BufferLines
           /\ V!Joined(file, BufferLines) \in Seq(V!Line)
           /\ V!Joined(file, BufferLines) \in Seq(V!FileLine)
           /\ \A g \in V!PartOf(file, BufferLines) : g \in Seq(V!FileLine)
<1>1. file \in Seq(V!Line) /\ BufferLines \in Seq(V!Line)
  BY TypeParts
<1>2. file \o BufferLines \in Seq(V!Line)
  <2> HIDE DEF V!Line
  <2> QED
    BY <1>1
<1> QED
  BY <1>1, <1>2, JoinedIsConcat, PartOfType, WholeLinesAreFileLines

Flags == program \in {"openmp", "single"} /\ stop_signal \in BOOLEAN

(* Every variable of the miner has the type the code declares for it, the  *)
(* index of a line included.                                               *)
THEOREM TypeCorrect == Spec => []TypeInv
<1>1. Init => TypeInv
  <2> SUFFICES ASSUME Init PROVE TypeInv
    OBVIOUS
  <2>1. Flags
    BY Zenon DEF Init, Flags
  <2>2. /\ pc \in [Threads -> {"loop", "count", "enter", "save", "fill",
                               "tally", "left"}]
        /\ hits \in [Threads -> SUBSET Golden]
        /\ slot \in [Threads -> 0..(MAX_SAVED_COINS - 1)]
        /\ n_saved_coins \in 0..MAX_SAVED_COINS
    BY MaxLine DEF Init
  <2>3. saved_coins \in [0..(MAX_SAVED_COINS - 1) -> V!Line]
    BY LinesDiffer DEF Init
  <2>4. file = <<>> /\ accepted = <<>> /\ critical = NoThread
        /\ coins_found \in Nat /\ total_attempts \in Nat
        /\ local_counter \in [Threads -> Nat] /\ status = "running"
        /\ CoinsInHand
    BY DEF Init, CoinsInHand
  <2>5. <<>> \in Seq(V!Line) /\ <<>> \in Seq(V!FileLine)
    OBVIOUS
  <2> QED
    BY <2>1, <2>2, <2>3, <2>4, <2>5, Zenon DEF TypeInv, TypeOK, WholeLines, CoinsInHand, Flags
<1>2. TypeInv /\ [Next]_vars => TypeInv'
  <2> SUFFICES ASSUME TypeInv, [Next]_vars PROVE TypeInv'
    OBVIOUS
  <2> USE DEF vault, shared
  <2>a. /\ Flags /\ critical \in Threads \cup {NoThread}
        /\ status \in {"running", "returned", "write_error"}
        /\ file \in Seq(V!FileLine)
    BY DEF TypeInv, TypeOK, Flags
  <2>1. CASE Interrupt
    <3>1. Flags'
      BY <2>1, <2>a, Zenon DEF Interrupt, Flags
    <3>2. UNCHANGED <<coins_found, total_attempts, pc, local_counter, hits, slot,
                      critical, vault>>
      BY <2>1 DEF Interrupt
    <3> QED
      BY <3>1, <3>2 DEF TypeInv, TypeOK, WholeLines, CoinsInHand, Flags
  <2>2. ASSUME WriteFails, status = "running",
               UNCHANGED <<program, shared, pc, local_counter, hits, slot, critical>>
        PROVE  TypeInv'
    <3>1. file' \in Seq(V!FileLine) /\ status' = "write_error"
      BY <2>2, WriteTypes DEF WriteFails
    <3>2. Flags'
      BY <2>2, <2>a, Zenon DEF Flags
    <3> QED
      BY <2>2, <3>1, <3>2 DEF TypeInv, TypeOK, WholeLines, CoinsInHand, WriteFails, Flags
  <2>3. CASE Finish
    <3>1. CASE WriteFails
      BY <2>2, <2>3, <3>1 DEF Finish
    <3>2. CASE ~WriteFails
      <4>1. /\ status = "running" /\ file' = V!Joined(file, BufferLines)
            /\ n_saved_coins' = 0 /\ status' = "returned"
            /\ UNCHANGED <<saved_coins, accepted, program, shared, pc, local_counter,
                           hits, slot, critical>>
        BY <2>3, <3>2 DEF Finish
      <4>2. Flags'
        BY <4>1, <2>a, Zenon DEF Flags
      <4>3. file' \in Seq(V!FileLine) /\ n_saved_coins' \in 0..MAX_SAVED_COINS
        BY <4>1, WriteTypes, MaxLine
      <4> QED
        BY <4>1, <4>2, <4>3 DEF TypeInv, TypeOK, WholeLines, CoinsInHand, Flags
    <3> QED
      BY <3>1, <3>2
  <2>4. ASSUME NEW t \in Threads, status = "running", program' = program, Steps(t)
        PROVE  TypeInv'
    <3>b. /\ pc \in [Threads -> {"loop", "count", "enter", "save", "fill",
                                 "tally", "left"}]
          /\ local_counter \in [Threads -> Nat]
          /\ hits \in [Threads -> SUBSET Golden]
          /\ slot \in [Threads -> 0..(MAX_SAVED_COINS - 1)]
          /\ coins_found \in Nat /\ total_attempts \in Nat
      BY TypeParts
    <3>c. Flags'
      BY <2>4, <2>a, Zenon DEF Flags, Steps, HashStep, CountCoin, EnterCritical,
            BeginSave, EndSave, Tally, LeaveLoop
    <3>1. CASE HashStep(t)
      <4>1. hits' \in [Threads -> SUBSET Golden]
        <5>1. CoinsOf(thread_offset(t) + local_counter[t]) \subseteq Golden
          BY DEF CoinsOf
        <5> QED
          BY <3>1, <3>b, <5>1 DEF HashStep
      <4>2. /\ pc' \in [Threads -> {"loop", "count", "enter", "save", "fill",
                                    "tally", "left"}]
            /\ CoinsInHand'
        <5> DEFINE coins == CoinsOf(thread_offset(t) + local_counter[t])
        <5>1. /\ hits' = [hits EXCEPT ![t] = coins]
              /\ pc' = [pc EXCEPT ![t] = IF coins = {} THEN "tally" ELSE "count"]
          BY <3>1 DEF HashStep, Goto
        <5> HIDE DEF coins
        <5> QED
          BY <3>b, <5>1, TypeParts DEF CoinsInHand
      <4>3. UNCHANGED <<shared, local_counter, slot, critical, vault>>
        BY <3>1 DEF HashStep
      <4> QED
        BY <3>c, <4>1, <4>2, <4>3 DEF TypeInv, TypeOK, WholeLines, CoinsInHand, Flags
    <3>2. CASE CountCoin(t) \/ EnterCritical(t)
      <4>0. \E place \in {"enter", "save"} :
               pc[t] \in {"count", "enter"} /\ pc' = [pc EXCEPT ![t] = place]
        BY <3>2 DEF CountCoin, EnterCritical, Goto
      <4>1. /\ pc' \in [Threads -> {"loop", "count", "enter", "save", "fill",
                                    "tally", "left"}]
            /\ hits' = hits /\ CoinsInHand'
        BY <4>0, <3>2, <3>b, TypeParts DEF CountCoin, EnterCritical, CoinsInHand
      <4>3. coins_found' \in Nat /\ critical' \in Threads \cup {NoThread}
        BY <2>a, <3>2, <3>b DEF CountCoin, EnterCritical
      <4>2. UNCHANGED <<total_attempts, local_counter, hits, slot, vault>>
        BY <3>2 DEF CountCoin, EnterCritical
      <4> QED
        BY <3>c, <4>1, <4>2, <4>3 DEF TypeInv, TypeOK, WholeLines, CoinsInHand, Flags
    <3>3. CASE BeginSave(t)
      <4>1. CASE WriteFails
        <5>1. UNCHANGED <<shared, local_counter, hits, critical>>
          BY <3>3 DEF BeginSave
        <5>2. UNCHANGED <<pc, slot>>
          BY <2>4, <3>3, <4>1 DEF BeginSave, WriteFails
        <5> QED
          BY <2>2, <2>4, <4>1, <5>1, <5>2
      <4>2. CASE ~WriteFails
        <5>1. /\ Goto(t, "fill") /\ UNCHANGED <<shared, local_counter, hits, critical>>
              /\ UNCHANGED <<saved_coins, status, accepted>>
          BY <3>3, <4>2 DEF BeginSave
        <5>2. /\ pc' \in [Threads -> {"loop", "count", "enter", "save", "fill",
                                      "tally", "left"}]
              /\ CoinsInHand'
          BY <3>3, <3>b, <5>1, TypeParts DEF BeginSave, Goto, CoinsInHand
        <5>3. slot' \in [Threads -> 0..(MAX_SAVED_COINS - 1)]
          <6>1. \/ slot' = [slot EXCEPT ![t] = 0]
                \/ ~BufferFull /\ slot' = [slot EXCEPT ![t] = n_saved_coins]
            BY <3>3, <4>2 DEF BeginSave
          <6>2. n_saved_coins \in 0..MAX_SAVED_COINS
            BY TypeParts
          <6> QED
            BY <3>b, <6>1, <6>2, MaxLine DEF BufferFull
        <5>4. /\ n_saved_coins' \in 0..MAX_SAVED_COINS
              /\ file' \in Seq(V!Line) /\ file' \in Seq(V!FileLine)
          <6>1. \/ file' = V!Joined(file, BufferLines) /\ n_saved_coins' = 0
                \/ file' = file /\ n_saved_coins' = n_saved_coins
            BY <3>3, <4>2 DEF BeginSave
          <6> QED
            BY <2>4, <2>a, <6>1, WriteTypes, TypeParts, MaxLine
        <5> QED
          BY <3>c, <5>1, <5>2, <5>3, <5>4 DEF TypeInv, TypeOK, WholeLines, CoinsInHand, Flags
      <4> QED
        BY <4>1, <4>2
    <3>4. CASE EndSave(t)
      <4>1. /\ saved_coins' = [saved_coins EXCEPT ![slot[t]] = LineOf(CoinInHand(t))]
            /\ n_saved_coins' = slot[t] + 1
            /\ accepted' = Append(accepted, LineOf(CoinInHand(t)))
            /\ critical' = NoThread
            /\ hits' = [hits EXCEPT ![t] = @ \ {CoinInHand(t)}]
            /\ UNCHANGED <<shared, local_counter, slot, file, status>>
        BY <3>4 DEF EndSave, AfterCritical
      <4>2. CoinInHand(t) \in hits[t] /\ LineOf(CoinInHand(t)) \in V!Line
        <5>1. hits[t] # {} /\ hits[t] \subseteq Golden
          BY <3>4, <3>b, TypeParts DEF EndSave
        <5> QED
          BY <5>1, CoinInHandWaits, LinesDiffer
      <4>3. /\ saved_coins' \in [0..(MAX_SAVED_COINS - 1) -> V!Line]
            /\ accepted' \in Seq(V!Line)
        <5> DEFINE line == LineOf(CoinInHand(t))
        <5>1. line \in V!Line
          BY <4>2
        <5> HIDE DEF line, V!Line
        <5>2. /\ saved_coins' = [saved_coins EXCEPT ![slot[t]] = line]
              /\ accepted' = Append(accepted, line)
          BY <4>1 DEF line
        <5> QED
          BY <3>b, <5>1, <5>2, TypeParts
      <4>4. n_saved_coins' \in 0..MAX_SAVED_COINS
        <5>1. slot[t] \in 0..(MAX_SAVED_COINS - 1)
          BY <3>b
        <5> QED
          BY <4>1, <5>1, MaxLine
      <4>5. /\ hits' \in [Threads -> SUBSET Golden]
            /\ pc' \in [Threads -> {"loop", "count", "enter", "save", "fill",
                                    "tally", "left"}]
            /\ CoinsInHand'
        <5>1. /\ pc[t] = "fill"
              /\ pc' = [pc EXCEPT ![t] = IF hits[t] = {CoinInHand(t)} THEN "tally"
                                         ELSE "count"]
          BY <3>4 DEF EndSave, Goto
        <5>2. hits[t] \ {CoinInHand(t)} = {} <=> hits[t] = {CoinInHand(t)}
          BY <4>2
        <5> QED
          BY <3>b, <4>1, <5>1, <5>2, TypeParts DEF CoinsInHand
      <4>6. file' \in Seq(V!FileLine) /\ file' \in Seq(V!Line) /\ critical' = NoThread
        BY <2>4, <2>a, <4>1, TypeParts
      <4> QED
        BY <3>c, <4>1, <4>3, <4>4, <4>5, <4>6
           DEF TypeInv, TypeOK, WholeLines, Flags
    <3>5. CASE Tally(t) \/ LeaveLoop(t)
      <4>1. /\ pc' \in [Threads -> {"loop", "count", "enter", "save", "fill",
                                    "tally", "left"}]
            /\ UNCHANGED <<coins_found, hits, slot, critical, vault>>
            /\ CoinsInHand'
        BY <3>5, <3>b, TypeParts DEF Tally, LeaveLoop, Goto, CoinsInHand
      <4>2. local_counter' \in [Threads -> Nat]
        BY <3>5, <3>b, LanesAssumption DEF Tally, LeaveLoop
      <4>3. total_attempts' \in Nat
        <5>1. \A n \in Nat : n % BATCH \in Nat
          BY BatchAssumption
        <5>2. \A n \in Nat : Tallied(n) \in Nat /\ Remainder(n) \in Nat
          BY <5>1, BatchAssumption, LanesAssumption DEF Tallied, FullBatch, Remainder
        <5> QED
          BY <3>5, <3>b, <5>2, LanesAssumption DEF Tally, LeaveLoop
      <4> QED
        BY <3>c, <4>1, <4>2, <4>3 DEF TypeInv, TypeOK, WholeLines, Flags
    <3> QED
      BY <2>4, <3>1, <3>2, <3>3, <3>4, <3>5 DEF Steps
  <2>5. CASE UNCHANGED vars
    <3>1. Flags'
      BY <2>5, <2>a, Zenon DEF Flags, vars
    <3> QED
      BY <2>5, <3>1 DEF TypeInv, TypeOK, WholeLines, CoinsInHand, Flags, vars
  <2> QED
    BY <2>1, <2>3, <2>4, <2>5, StepCases
<1> QED
  BY <1>1, <1>2, PTL DEF Spec

-----------------------------------------------------------------------------
(* Mutual exclusion.  The thread in save_coin is the one that entered the  *)
(* critical section, the line it is about to fill is the one after the     *)
(* last, and a single-threaded miner has no other thread.                  *)

OneInside ==
    program = "openmp" =>
        \A t \in Threads : pc[t] \in {"save", "fill"} <=> critical = t

OthersIdle ==
    program = "single" =>
        \A t \in Threads \ {0} : pc[t] = "loop" /\ local_counter[t] = 0

LineIsNext == \A t \in Threads : pc[t] = "fill" => slot[t] = n_saved_coins

CriticalInv == OneInside /\ OthersIdle /\ LineIsNext

(* Nobody else is in save_coin. *)
LEMMA Alone ==
    ASSUME TypeOK, CriticalInv, NEW t \in Threads, pc[t] \in {"save", "fill"}, Runs(t),
           NEW u \in Threads, u # t
    PROVE  pc[u] \notin {"save", "fill"}
<1>1. CASE program = "openmp"
  BY <1>1 DEF CriticalInv, OneInside
<1>2. CASE program = "single"
  BY <1>2 DEF CriticalInv, OthersIdle, Runs
<1> QED
  BY <1>1, <1>2 DEF TypeOK

(* A thread that moves and leaves the critical section and the buffer      *)
(* alone, its own places apart.                                            *)
LEMMA CriticalMoved ==
    ASSUME TypeInv, CriticalInv, NEW t \in Threads, Runs(t),
           \A u \in Threads \ {t} : /\ pc'[u] = pc[u] /\ local_counter'[u] = local_counter[u]
                                    /\ slot'[u] = slot[u],
           pc'[t] = "fill" => slot'[t] = n_saved_coins',
           \A u \in Threads \ {t} : pc[u] = "fill" => n_saved_coins' = n_saved_coins,
           program' = program,
           program = "openmp" =>
              \/ critical' = critical /\ (pc'[t] \in {"save", "fill"} <=> pc[t] \in {"save", "fill"})
              \/ critical = NoThread /\ critical' = t /\ pc'[t] \in {"save", "fill"}
              \/ critical = t /\ critical' = NoThread /\ pc'[t] \notin {"save", "fill"}
    PROVE  CriticalInv'
<1>1. OneInside'
  <2> SUFFICES ASSUME program = "openmp", NEW u \in Threads
               PROVE  pc'[u] \in {"save", "fill"} <=> critical' = u
    BY DEF OneInside
  <2>1. \A v \in Threads : pc[v] \in {"save", "fill"} <=> critical = v
    BY DEF CriticalInv, OneInside
  <2>2. \A v \in Threads : v # NoThread
    BY ThreadsAssumption DEF Threads, NoThread
  <2> QED
    BY <2>1, <2>2
<1>2. OthersIdle'
  BY DEF CriticalInv, OthersIdle, Runs
<1>3. LineIsNext'
  BY DEF CriticalInv, LineIsNext
<1> QED
  BY <1>1, <1>2, <1>3 DEF CriticalInv

(* The critical section lets one thread at a time into save_coin           *)
(* (#pragma omp critical, check_and_save_coins).                           *)
THEOREM CriticalCorrect == Spec => []CriticalInv
<1>1. Init => CriticalInv
  BY ThreadsAssumption
     DEF Init, CriticalInv, OneInside, OthersIdle, LineIsNext, Threads, NoThread
<1>2. TypeInv /\ CriticalInv /\ [Next]_vars => CriticalInv'
  <2> SUFFICES ASSUME TypeInv, CriticalInv, [Next]_vars PROVE CriticalInv'
    OBVIOUS
  <2> USE DEF vault, shared
  <2>a. /\ pc \in [Threads -> {"loop", "count", "enter", "save", "fill",
                               "tally", "left"}]
        /\ local_counter \in [Threads -> Nat]
        /\ slot \in [Threads -> 0..(MAX_SAVED_COINS - 1)]
        /\ program \in {"openmp", "single"} /\ TypeOK
    BY DEF TypeInv, TypeOK
  <2>1. ASSUME UNCHANGED <<program, pc, local_counter, slot, critical>>,
               n_saved_coins' = n_saved_coins \/ \A t \in Threads : pc[t] # "fill"
        PROVE  CriticalInv'
    BY <2>1 DEF CriticalInv, OneInside, OthersIdle, LineIsNext
  <2>2. CASE Interrupt \/ UNCHANGED vars
    BY <2>1, <2>2 DEF Interrupt, vars
  <2>3. CASE Finish
    <3>1. \A t \in Threads : pc[t] # "fill"
      BY <2>a, <2>3 DEF Finish, Runs, CriticalInv, OthersIdle
    <3> QED
      BY <2>1, <2>3, <3>1 DEF Finish
  <2>4. ASSUME NEW t \in Threads, Runs(t), program' = program, Steps(t)
        PROVE  CriticalInv'
    <3>1. CASE HashStep(t)
      <4>1. /\ pc[t] = "loop" /\ UNCHANGED <<local_counter, slot, critical, n_saved_coins>>
            /\ \E place \in {"tally", "count"} : pc' = [pc EXCEPT ![t] = place]
        BY <3>1 DEF HashStep, Goto
      <4>2. pc'[t] \in {"tally", "count"} /\ \A u \in Threads \ {t} : pc'[u] = pc[u]
        BY <2>a, <4>1
      <4> QED
        BY <2>4, <4>1, <4>2, CriticalMoved
    <3>2. CASE CountCoin(t)
      <4>1. /\ pc[t] = "count" /\ UNCHANGED <<local_counter, slot, critical, n_saved_coins>>
            /\ pc' = [pc EXCEPT ![t] = IF program = "openmp" THEN "enter" ELSE "save"]
        BY <3>2 DEF CountCoin, Goto
      <4>2. /\ pc'[t] = IF program = "openmp" THEN "enter" ELSE "save"
            /\ \A u \in Threads \ {t} : pc'[u] = pc[u]
        BY <2>a, <4>1
      <4> QED
        BY <2>4, <4>1, <4>2, CriticalMoved
    <3>3. CASE EnterCritical(t)
      <4>1. /\ pc[t] = "enter" /\ UNCHANGED <<local_counter, slot, n_saved_coins>>
            /\ critical = NoThread /\ critical' = t
            /\ pc' = [pc EXCEPT ![t] = "save"]
        BY <3>3 DEF EnterCritical, MayEnter, Goto
      <4>2. pc'[t] = "save" /\ \A u \in Threads \ {t} : pc'[u] = pc[u]
        BY <2>a, <4>1
      <4> QED
        BY <2>4, <4>1, <4>2, CriticalMoved
    <3>4. CASE BeginSave(t)
      <4>0. pc[t] = "save" /\ UNCHANGED <<local_counter, critical>>
        BY <3>4 DEF BeginSave
      <4>1. \A u \in Threads \ {t} : pc[u] # "fill"
        BY <2>a, <2>4, <4>0, Alone
      <4>2. CASE UNCHANGED <<pc, slot>> /\ WriteFails
        BY <2>1, <2>4, <4>0, <4>2 DEF WriteFails
      <4>3. CASE /\ pc' = [pc EXCEPT ![t] = "fill"]
                 /\ \/ slot' = [slot EXCEPT ![t] = 0] /\ n_saved_coins' = 0
                    \/ slot' = [slot EXCEPT ![t] = n_saved_coins] /\ n_saved_coins' = n_saved_coins
        <5>1. /\ pc'[t] = "fill" /\ slot'[t] = n_saved_coins'
              /\ \A u \in Threads \ {t} : pc'[u] = pc[u] /\ slot'[u] = slot[u]
          BY <2>a, <4>3
        <5> QED
          BY <2>4, <4>0, <4>1, <5>1, CriticalMoved
      <4> QED
        BY <3>4, <4>2, <4>3 DEF BeginSave, Goto
    <3>5. CASE EndSave(t)
      <4>0. pc[t] = "fill" /\ UNCHANGED <<local_counter, slot>> /\ critical' = NoThread
        BY <3>5 DEF EndSave, AfterCritical
      <4>1. \A u \in Threads \ {t} : pc[u] # "fill"
        BY <2>a, <2>4, <4>0, Alone
      <4>2. \E place \in {"tally", "count"} : pc' = [pc EXCEPT ![t] = place]
        BY <3>5 DEF EndSave, Goto
      <4>3. pc'[t] \in {"tally", "count"} /\ \A u \in Threads \ {t} : pc'[u] = pc[u]
        BY <2>a, <4>2
      <4>4. program = "openmp" => critical = t
        BY <4>0 DEF CriticalInv, OneInside
      <4> QED
        BY <2>4, <4>0, <4>1, <4>3, <4>4, CriticalMoved
    <3>6. CASE Tally(t) \/ LeaveLoop(t)
      <4>1. /\ pc[t] \in {"tally", "loop"} /\ UNCHANGED <<slot, critical, n_saved_coins>>
            /\ \E place \in {"loop", "left"} : pc' = [pc EXCEPT ![t] = place]
            /\ \/ local_counter' = local_counter
               \/ local_counter' = [local_counter EXCEPT ![t] = @ + Lanes]
        BY <3>6 DEF Tally, LeaveLoop, Goto
      <4>2. /\ pc'[t] \in {"loop", "left"} /\ \A u \in Threads \ {t} : pc'[u] = pc[u]
            /\ \A u \in Threads \ {t} : local_counter'[u] = local_counter[u]
        BY <2>a, <4>1
      <4> QED
        BY <2>4, <4>1, <4>2, CriticalMoved
    <3> QED
      BY <2>4, <3>1, <3>2, <3>3, <3>4, <3>5, <3>6 DEF Steps
  <2> QED
    BY <2>2, <2>3, <2>4, StepCases
<1> QED
  BY <1>1, <1>2, TypeCorrect, PTL DEF Spec

-----------------------------------------------------------------------------
(* The file and the buffer *)

FileInv ==
    /\ status = "running" => file \o BufferLines = accepted
    /\ status = "returned" =>
          file = accepted /\ \A t \in Threads : Runs(t) => pc[t] = "left"

(* The line that save_coin fills comes after the last one. *)
LEMMA FillAppends ==
    ASSUME TypeInv, CriticalInv, NEW t \in Threads, EndSave(t)
    PROVE  /\ BufferLines' = Append(BufferLines, LineOf(CoinInHand(t)))
           /\ LineOf(CoinInHand(t)) \in V!Line
           /\ CoinInHand(t) \in hits[t] /\ CoinInHand(t) \in Golden
           /\ n_saved_coins < MAX_SAVED_COINS
<1> DEFINE line == LineOf(CoinInHand(t))
<1>1. /\ saved_coins \in [0..(MAX_SAVED_COINS - 1) -> V!Line]
      /\ n_saved_coins \in Nat /\ n_saved_coins < MAX_SAVED_COINS
      /\ slot[t] = n_saved_coins
  <2>1. slot[t] = n_saved_coins /\ slot[t] \in 0..(MAX_SAVED_COINS - 1)
    BY TypeParts DEF EndSave, CriticalInv, LineIsNext
  <2> QED
    BY <2>1, TypeParts, MaxLine
<1>2. CoinInHand(t) \in hits[t] /\ CoinInHand(t) \in Golden /\ line \in V!Line
  <2>1. hits[t] # {} /\ hits[t] \subseteq Golden
    BY TypeParts DEF EndSave
  <2> QED
    BY <2>1, CoinInHandWaits, LinesDiffer
<1>3. /\ saved_coins' = [saved_coins EXCEPT ![n_saved_coins] = line]
      /\ n_saved_coins' = n_saved_coins + 1
  BY <1>1 DEF EndSave
<1> HIDE DEF line
<1>4. /\ saved_coins'[n_saved_coins] = line
      /\ \A i \in 1..n_saved_coins : saved_coins'[i - 1] = saved_coins[i - 1]
  BY <1>1, <1>3, MaxLine
<1>5. BufferLines' = [i \in 1..(n_saved_coins + 1) |-> saved_coins'[i - 1]]
  BY <1>3 DEF BufferLines
<1>6. /\ Len(BufferLines) = n_saved_coins /\ BufferLines \in Seq(V!Line)
      /\ \A i \in 1..n_saved_coins : BufferLines[i] = saved_coins[i - 1]
  BY TypeParts, BufferType DEF TypeInv, BufferLines
<1>7. BufferLines' = Append(BufferLines, line)
  <2> HIDE DEF V!Line
  <2> DEFINE n == n_saved_coins
  <2>1. \A i \in 1..(n + 1) : i \in 1..n \/ i = n + 1
    BY <1>1
  <2>2. \A i \in 1..(n + 1) : saved_coins'[i - 1] = IF i \in 1..n THEN BufferLines[i] ELSE line
    <3>1. (n + 1) - 1 = n /\ n + 1 \notin 1..n
      BY <1>1
    <3> QED
      BY <1>4, <1>6, <2>1, <3>1
  <2>3. BufferLines' \in Seq(V!Line) /\ Len(BufferLines') = n + 1
    <3>1. \A i \in 1..(n + 1) : saved_coins'[i - 1] \in V!Line
      BY <1>2, <1>6, <2>2
    <3> QED
      BY <1>1, <1>5, <3>1
  <2>4. \A i \in 1..(n + 1) : BufferLines'[i] = IF i \in 1..n THEN BufferLines[i] ELSE line
    BY <1>5, <2>2
  <2>5. /\ Append(BufferLines, line) \in Seq(V!Line)
        /\ Len(Append(BufferLines, line)) = n + 1
        /\ \A i \in 1..(n + 1) : Append(BufferLines, line)[i] =
                                   IF i \in 1..n THEN BufferLines[i] ELSE line
    BY <1>1, <1>2, <1>6
  <2> QED
    BY <2>3, <2>4, <2>5, SeqEqual
<1> QED
  BY <1>1, <1>2, <1>7 DEF line

LEMMA ConcatAppend ==
    ASSUME NEW S, NEW s \in Seq(S), NEW u \in Seq(S), NEW m \in S
    PROVE  s \o Append(u, m) = Append(s \o u, m)
<1>1. <<m>> \in Seq(S) /\ s \o u \in Seq(S)
  OBVIOUS
<1>2. Append(u, m) = u \o <<m>> /\ Append(s \o u, m) = (s \o u) \o <<m>>
  BY <1>1, AppendIsConcat
<1> QED
  BY <1>1, <1>2, ConcatAssociative

(* What save_coin puts into the buffer, and the buffer into the file, is   *)
(* the sequence of the lines it was called with; only a write that fails   *)
(* loses some, and ends the program.                                       *)
THEOREM FileCorrect == Spec => []FileInv
<1>1. Init => FileInv
  <2> SUFFICES ASSUME Init PROVE FileInv
    OBVIOUS
  <2>1. file = <<>> /\ accepted = <<>> /\ n_saved_coins = 0 /\ status = "running"
    BY DEF Init
  <2>2. BufferLines = <<>>
    BY <2>1 DEF BufferLines
  <2> QED
    BY <2>1, <2>2 DEF FileInv
<1>2. TypeInv /\ CriticalInv /\ FileInv /\ [Next]_vars => FileInv'
  <2> SUFFICES ASSUME TypeInv, CriticalInv, FileInv, [Next]_vars PROVE FileInv'
    OBVIOUS
  <2> USE DEF vault, shared
  <2>1. ASSUME UNCHANGED vault, UNCHANGED <<program, pc>> \/ status = "running"
        PROVE  FileInv'
    BY <2>1 DEF FileInv, BufferLines, Runs
  <2>2. ASSUME WriteFails PROVE FileInv'
    BY <2>2 DEF WriteFails, FileInv
  <2>3. CASE Interrupt \/ UNCHANGED vars
    BY <2>1, <2>3 DEF Interrupt, vars
  <2>4. CASE Finish
    <3>1. CASE WriteFails
      BY <2>2, <3>1
    <3>2. CASE ~WriteFails
      <4>1. /\ status = "running" /\ file' = V!Joined(file, BufferLines)
            /\ status' = "returned" /\ UNCHANGED <<accepted, program, pc>>
            /\ \A t \in Threads : Runs(t) => pc[t] = "left"
        BY <2>4, <3>2 DEF Finish
      <4>2. file' = accepted
        BY <4>1, WriteTypes DEF FileInv
      <4> QED
        BY <4>1, <4>2 DEF FileInv, Runs
    <3> QED
      BY <3>1, <3>2
  <2>5. ASSUME NEW t \in Threads, status = "running", Steps(t) PROVE FileInv'
    <3>1. CASE HashStep(t) \/ CountCoin(t) \/ EnterCritical(t) \/ Tally(t) \/ LeaveLoop(t)
      BY <2>1, <2>5, <3>1 DEF HashStep, CountCoin, EnterCritical, Tally, LeaveLoop
    <3>2. CASE BeginSave(t)
      <4>1. CASE WriteFails
        BY <2>2, <4>1
      <4>2. CASE UNCHANGED vault
        BY <2>1, <2>5, <4>2
      <4>3. CASE /\ file' = V!Joined(file, BufferLines) /\ n_saved_coins' = 0
                 /\ UNCHANGED <<status, accepted>>
        <5>1. file' = accepted /\ file' \in Seq(V!Line)
          BY <2>5, <4>3, WriteTypes DEF FileInv
        <5>2. BufferLines' = <<>>
          BY <4>3 DEF BufferLines
        <5>3. file' \o <<>> = file'
          BY <5>1, ConcatEmptySeq
        <5> QED
          BY <2>5, <4>3, <5>1, <5>2, <5>3 DEF FileInv
      <4> QED
        BY <3>2, <4>1, <4>2, <4>3 DEF BeginSave
    <3>3. CASE EndSave(t)
      <4> DEFINE line == LineOf(CoinInHand(t))
      <4>1. /\ BufferLines' = Append(BufferLines, line) /\ line \in V!Line
            /\ file \in Seq(V!Line) /\ BufferLines \in Seq(V!Line)
            /\ file \o BufferLines = accepted
        BY <2>5, <3>3, FillAppends, TypeParts DEF FileInv
      <4>2. accepted' = Append(accepted, line) /\ UNCHANGED <<file, status>>
        BY <3>3 DEF EndSave
      <4> HIDE DEF line, V!Line
      <4>3. file \o Append(BufferLines, line) = Append(file \o BufferLines, line)
        BY <4>1, ConcatAppend
      <4> QED
        BY <2>5, <4>1, <4>2, <4>3 DEF FileInv
    <3> QED
      BY <2>5, <3>1, <3>2, <3>3 DEF Steps
  <2> QED
    BY <2>3, <2>4, <2>5, StepCases
<1> QED
  BY <1>1, <1>2, TypeCorrect, CriticalCorrect, PTL DEF Spec

-----------------------------------------------------------------------------
(* The coins found *)

(* What one thread has found. *)
CoinsIn(t) == Cardinality(Golden \cap Hashed(t))

CoinsBetween(a, b) == Cardinality(Golden \cap (a..b))

HitsFinite == \A t \in Threads : IsFiniteSet(hits[t])

AllWaiting == SumFunction([t \in Threads |-> Waiting(t)])
AllUncounted == SumFunction([t \in Threads |-> Uncounted(t)])

CountInv == HitsFinite /\ EveryCoinCounted

LEMMA FiniteThreads == IsFiniteSet(Threads)
<1>1. 0 \in Int /\ NumThreads - 1 \in Int
  BY ThreadsAssumption
<1> QED
  BY <1>1, FS_Interval DEF Threads

LEMMA OffsetType ==
    ASSUME NEW t \in Threads
    PROVE  thread_offset(t) \in Nat
<1>1. t \in Nat /\ STRIDE \in Nat
  BY ThreadsAssumption, LanesAssumption DEF Threads
<1>2. \A m, n \in Nat : m * n \in Nat
  OBVIOUS
<1> QED
  BY <1>1, <1>2 DEF thread_offset

(* The coins of a piece of the counters are finite in number. *)
LEMMA CoinsOfPiece ==
    ASSUME NEW a \in Int, NEW b \in Int
    PROVE  IsFiniteSet(Golden \cap (a..b)) /\ CoinsBetween(a, b) \in Nat
<1>1. IsFiniteSet(a..b)
  BY FS_Interval
<1>2. IsFiniteSet(Golden \cap (a..b))
  BY <1>1, FS_Subset
<1> QED
  BY <1>2, FS_CardinalityType DEF CoinsBetween

LEMMA CoinsOfTwoPieces ==
    ASSUME NEW a \in Int, NEW m \in Int, NEW n \in Int, a <= m, m - 1 <= n
    PROVE  CoinsBetween(a, n) = CoinsBetween(a, m - 1) + CoinsBetween(m, n)
<1> DEFINE A == Golden \cap (a..(m - 1))
           B == Golden \cap (m..n)
<1>1. A \cup B = Golden \cap (a..n) /\ A \cap B = {}
  OBVIOUS
<1>2. IsFiniteSet(A) /\ IsFiniteSet(B)
  <2>1. m - 1 \in Int
    OBVIOUS
  <2> QED
    BY <2>1, CoinsOfPiece
<1>3. CoinsBetween(a, m - 1) = Cardinality(A) /\ CoinsBetween(m, n) = Cardinality(B)
      /\ CoinsBetween(a, n) = Cardinality(A \cup B)
  BY <1>1 DEF CoinsBetween
<1> HIDE DEF A, B
<1>4. Cardinality(A \cup B) = Cardinality(A) + Cardinality(B) - Cardinality(A \cap B)
  BY <1>2, FS_Union
<1>5. Cardinality(A) \in Nat /\ Cardinality(B) \in Nat /\ Cardinality(A \cap B) = 0
  BY <1>1, <1>2, FS_EmptySet, FS_CardinalityType
<1> QED
  BY <1>3, <1>4, <1>5

LEMMA CoinsInType ==
    ASSUME TypeInv, NEW t \in Threads
    PROVE  CoinsIn(t) \in Nat /\ IsFiniteSet(Golden \cap Hashed(t))
<1> DEFINE b == thread_offset(t) + local_counter[t] - 1
                + IF pc[t] \in {"loop", "left"} THEN 0 ELSE Lanes
<1>1. thread_offset(t) \in Int /\ b \in Int
  BY OffsetType, TypeParts, LanesAssumption
<1>2. Hashed(t) = thread_offset(t)..b
  BY DEF Hashed
<1> HIDE DEF b
<1>3. CoinsIn(t) = CoinsBetween(thread_offset(t), b)
  BY <1>2 DEF CoinsIn, CoinsBetween
<1> QED
  BY <1>1, <1>2, <1>3, CoinsOfPiece

LEMMA WaitingType ==
    ASSUME TypeInv, HitsFinite, NEW t \in Threads
    PROVE  Waiting(t) \in Nat /\ Uncounted(t) \in Int
<1>1. Cardinality(hits[t]) \in Nat
  BY FS_CardinalityType DEF HitsFinite
<1> QED
  BY <1>1 DEF Waiting, Uncounted

(* A step of thread t leaves the counters of the others alone. *)
OnlyMoves(t) ==
    \A u \in Threads \ {t} : /\ pc'[u] = pc[u] /\ hits'[u] = hits[u]
                             /\ local_counter'[u] = local_counter[u]

(* What a step of one thread does to the sums over all. *)
LEMMA SumsMove ==
    ASSUME TypeInv, TypeInv', HitsFinite, HitsFinite', NEW t \in Threads, OnlyMoves(t)
    PROVE  /\ CoinsHashed \in Int /\ AllWaiting \in Int /\ AllUncounted \in Int
           /\ CoinsHashed' = CoinsHashed - CoinsIn(t) + CoinsIn(t)'
           /\ AllWaiting' = AllWaiting - Waiting(t) + Waiting(t)'
           /\ AllUncounted' = AllUncounted - Uncounted(t) + Uncounted(t)'
           /\ CoinsIn(t)' \in Int /\ Waiting(t)' \in Int /\ Uncounted(t)' \in Int
<1> DEFINE h == [u \in Threads |-> CoinsIn(u)]
           w == [u \in Threads |-> Waiting(u)]
           n == [u \in Threads |-> Uncounted(u)]
<1>1. h \in [Threads -> Int] /\ w \in [Threads -> Int] /\ n \in [Threads -> Int]
  <2>1. ASSUME NEW u \in Threads
        PROVE  CoinsIn(u) \in Int /\ Waiting(u) \in Int /\ Uncounted(u) \in Int
    <3>1. CoinsIn(u) \in Nat /\ Waiting(u) \in Nat /\ Uncounted(u) \in Int
      BY CoinsInType, WaitingType
    <3> HIDE DEF h, w, n
    <3> QED
      BY <3>1
  <2> QED
    BY <2>1
<1>2. h' \in [Threads -> Int] /\ w' \in [Threads -> Int] /\ n' \in [Threads -> Int]
  <2>1. \A u \in Threads : CoinsIn(u)' \in Int
    <3> SUFFICES ASSUME NEW u \in Threads PROVE CoinsIn(u)' \in Int
      OBVIOUS
    <3> DEFINE b == thread_offset(u) + local_counter'[u] - 1
                    + IF pc'[u] \in {"loop", "left"} THEN 0 ELSE Lanes
    <3>1. thread_offset(u) \in Int /\ b \in Int
      <4>1. local_counter'[u] \in Int
        BY DEF TypeInv, TypeOK
      <4>2. thread_offset(u) \in Int
        BY OffsetType
      <4> QED
        BY <4>1, <4>2, LanesAssumption
    <3>2. Hashed(u)' = thread_offset(u)..b
      BY DEF Hashed
    <3>3. PICK k \in Int : Hashed(u)' = thread_offset(u)..k
      BY <3>1, <3>2
    <3>4. CoinsIn(u)' = CoinsBetween(thread_offset(u), k)
      BY <3>3 DEF CoinsIn, CoinsBetween
    <3>5. CoinsBetween(thread_offset(u), k) \in Nat
      BY <3>1, CoinsOfPiece
    <3> QED
      BY <3>4, <3>5
  <2>2. \A u \in Threads : Waiting(u)' \in Int /\ Uncounted(u)' \in Int
    <3>1. \A u \in Threads : Cardinality(hits'[u]) \in Nat
      BY FS_CardinalityType DEF HitsFinite
    <3> QED
      BY <3>1 DEF Waiting, Uncounted
  <2> QED
    BY <2>1, <2>2
<1>3. \A u \in Threads \ {t} : h'[u] = h[u] /\ w'[u] = w[u] /\ n'[u] = n[u]
  BY DEF OnlyMoves, CoinsIn, Hashed, Waiting, Uncounted
<1>4. /\ h[t] = CoinsIn(t) /\ w[t] = Waiting(t) /\ n[t] = Uncounted(t)
      /\ h'[t] = CoinsIn(t)' /\ w'[t] = Waiting(t)' /\ n'[t] = Uncounted(t)'
  OBVIOUS
<1>8. h'[t] \in Int /\ w'[t] \in Int /\ n'[t] \in Int
  BY <1>2
<1>5. /\ CoinsHashed = SumFunction(h) /\ CoinsHashed' = SumFunction(h')
      /\ AllWaiting = SumFunction(w) /\ AllWaiting' = SumFunction(w')
      /\ AllUncounted = SumFunction(n) /\ AllUncounted' = SumFunction(n')
  BY DEF CoinsHashed, CoinsIn, AllWaiting, AllUncounted
<1> HIDE DEF h, w, n
<1>6. /\ SumFunction(h') = SumFunction(h) - h[t] + h'[t]
      /\ SumFunction(w') = SumFunction(w) - w[t] + w'[t]
      /\ SumFunction(n') = SumFunction(n) - n[t] + n'[t]
  BY <1>1, <1>2, <1>3, FiniteThreads, SumOfUpdate
<1>7. SumFunction(h) \in Int /\ SumFunction(w) \in Int /\ SumFunction(n) \in Int
  BY <1>1, FiniteThreads, SumType
<1> QED
  BY <1>4, <1>5, <1>6, <1>7, <1>8

(* What is counted and saved, or waits for it, grows with what is found. *)
Balanced(t) ==
    /\ CoinsIn(t)' - CoinsIn(t) = (Len(accepted') - Len(accepted)) + (Waiting(t)' - Waiting(t))
    /\ CoinsIn(t)' - CoinsIn(t) = (coins_found' - coins_found) + (Uncounted(t)' - Uncounted(t))

LEMMA SumsBalance ==
    ASSUME TypeInv, TypeInv', CountInv, NEW t \in Threads, OnlyMoves(t), IsFiniteSet(hits'[t]),
           Balanced(t)
    PROVE  CountInv'
<1>1. HitsFinite /\ HitsFinite'
  BY DEF HitsFinite, CountInv, OnlyMoves
<1>2. CoinsIn(t) \in Int /\ Waiting(t) \in Int /\ Uncounted(t) \in Int
  <2>1. CoinsIn(t) \in Nat /\ Waiting(t) \in Nat /\ Uncounted(t) \in Int
    BY <1>1, CoinsInType, WaitingType
  <2> QED
    BY <2>1
<1>3. /\ CoinsHashed \in Int /\ AllWaiting \in Int /\ AllUncounted \in Int
      /\ CoinsHashed' = CoinsHashed - CoinsIn(t) + CoinsIn(t)'
      /\ AllWaiting' = AllWaiting - Waiting(t) + Waiting(t)'
      /\ AllUncounted' = AllUncounted - Uncounted(t) + Uncounted(t)'
      /\ CoinsIn(t)' \in Int /\ Waiting(t)' \in Int /\ Uncounted(t)' \in Int
  BY <1>1, SumsMove
<1>4. /\ Len(accepted) \in Int /\ Len(accepted') \in Int
      /\ coins_found \in Int /\ coins_found' \in Int
  <2>1. accepted \in Seq(V!Line) /\ accepted' \in Seq(V!Line)
    BY DEF TypeInv, TypeOK
  <2>2. Len(accepted) \in Int /\ Len(accepted') \in Int
    <3> HIDE DEF V!Line
    <3> QED
      BY <2>1
  <2>3. coins_found \in Int /\ coins_found' \in Int
    BY DEF TypeInv, TypeOK
  <2> QED
    BY <2>2, <2>3
<1>5. /\ CoinsHashed = Len(accepted) + AllWaiting
      /\ CoinsHashed = coins_found + AllUncounted
  BY DEF CountInv, EveryCoinCounted, AllWaiting, AllUncounted
<1>6. PICK c \in Int, w \in Int, u \in Int, a \in Int, f \in Int :
         /\ c = CoinsHashed /\ w = AllWaiting /\ u = AllUncounted
         /\ a = Len(accepted) /\ f = coins_found
  BY <1>3, <1>4
<1>7. PICK a1 \in Int, f1 \in Int, x \in Int, x1 \in Int, y \in Int, y1 \in Int,
           z \in Int, z1 \in Int :
         /\ x = CoinsIn(t) /\ x1 = CoinsIn(t)' /\ y = Waiting(t) /\ y1 = Waiting(t)'
         /\ z = Uncounted(t) /\ z1 = Uncounted(t)' /\ a1 = Len(accepted') /\ f1 = coins_found'
  BY <1>2, <1>3, <1>4
<1>8. /\ CoinsHashed' = c - x + x1 /\ AllWaiting' = w - y + y1 /\ AllUncounted' = u - z + z1
      /\ c = a + w /\ c = f + u
      /\ x1 - x = (a1 - a) + (y1 - y) /\ x1 - x = (f1 - f) + (z1 - z)
  BY <1>3, <1>5, <1>6, <1>7 DEF Balanced
<1>9. c - x + x1 = a1 + (w - y + y1) /\ c - x + x1 = f1 + (u - z + z1)
  BY <1>8
<1>10. CoinsHashed' = Len(accepted') + AllWaiting' /\ CoinsHashed' = coins_found' + AllUncounted'
  BY <1>7, <1>8, <1>9
<1> QED
  BY <1>1, <1>10 DEF CountInv, EveryCoinCounted, AllWaiting, AllUncounted

(* A pass of the loop finds the coins among the next Lanes counters. *)
LEMMA HashStepFinds ==
    ASSUME TypeInv, NEW t \in Threads, HashStep(t)
    PROVE  /\ IsFiniteSet(hits'[t])
           /\ CoinsIn(t)' = CoinsIn(t) + Cardinality(hits'[t])
           /\ hits[t] = {} /\ pc'[t] \in {"tally", "count"}
<1> DEFINE a == thread_offset(t)
           m == a + local_counter[t]
<1>1. a \in Nat /\ m \in Nat /\ a <= m /\ Lanes \in Nat /\ Lanes > 0
  BY OffsetType, TypeParts, LanesAssumption
<1>2. /\ pc[t] = "loop" /\ hits' = [hits EXCEPT ![t] = CoinsOf(m)]
      /\ local_counter' = local_counter
      /\ pc' = [pc EXCEPT ![t] = IF CoinsOf(m) = {} THEN "tally" ELSE "count"]
  BY DEF HashStep, Goto
<1>3. hits[t] = {} /\ hits'[t] = CoinsOf(m) /\ pc'[t] \in {"tally", "count"}
  BY <1>2, TypeParts
<1>4. Hashed(t) = a..(m - 1)
  BY <1>1, <1>2, TypeParts DEF Hashed
<1>5. Hashed(t)' = a..(m + Lanes - 1)
  <2>1. local_counter[t] \in Nat
    BY TypeParts
  <2>2. a + local_counter[t] - 1 + Lanes = m + Lanes - 1
    BY <1>1, <2>1
  <2>3. pc'[t] \notin {"loop", "left"}
    BY <1>3
  <2> QED
    BY <1>2, <2>2, <2>3 DEF Hashed
<1> HIDE DEF a, m
<1>6. CoinsOf(m) = Golden \cap (m..(m + Lanes - 1))
  BY DEF CoinsOf
<1>7. IsFiniteSet(CoinsOf(m)) /\ Cardinality(CoinsOf(m)) = CoinsBetween(m, m + Lanes - 1)
  <2>1. m \in Int /\ m + Lanes - 1 \in Int
    BY <1>1
  <2> QED
    BY <1>6, <2>1, CoinsOfPiece DEF CoinsBetween
<1>8. CoinsIn(t) = CoinsBetween(a, m - 1) /\ CoinsIn(t)' = CoinsBetween(a, m + Lanes - 1)
  BY <1>4, <1>5 DEF CoinsIn, CoinsBetween
<1>9. CoinsBetween(a, m + Lanes - 1) = CoinsBetween(a, m - 1) + CoinsBetween(m, m + Lanes - 1)
  <2>1. a \in Int /\ m \in Int /\ m + Lanes - 1 \in Int /\ a <= m /\ m - 1 <= m + Lanes - 1
    BY <1>1
  <2> QED
    BY <2>1, CoinsOfTwoPieces
<1> QED
  BY <1>3, <1>7, <1>8, <1>9

(* Every coin that was hashed is counted once and saved once, or is on its *)
(* way: none is forgotten, whatever the threads do at the same time        *)
(* (check_and_save_coins).                                                 *)
THEOREM CountCorrect == Spec => []CountInv
<1>1. Init => CountInv
  <2> SUFFICES ASSUME Init PROVE CountInv
    OBVIOUS
  <2>1. /\ hits = [t \in Threads |-> {}] /\ pc = [t \in Threads |-> "loop"]
        /\ local_counter = [t \in Threads |-> 0] /\ accepted = <<>> /\ coins_found = 0
    BY DEF Init
  <2>2. /\ HitsFinite
        /\ [t \in Threads |-> Waiting(t)] = [t \in Threads |-> 0]
        /\ [t \in Threads |-> Uncounted(t)] = [t \in Threads |-> 0]
    BY <2>1, FS_EmptySet DEF HitsFinite, Waiting, Uncounted
  <2>3. [t \in Threads |-> CoinsIn(t)] = [t \in Threads |-> 0]
    <3>1. ASSUME NEW t \in Threads PROVE Golden \cap Hashed(t) = {}
      <4>1. thread_offset(t) \in Nat /\ local_counter[t] = 0 /\ pc[t] = "loop"
        BY <2>1, OffsetType
      <4> QED
        BY <4>1 DEF Hashed
    <3> QED
      BY <3>1, FS_EmptySet DEF CoinsIn
  <2>4. CoinsHashed = 0
    BY <2>3, FiniteThreads, SumOfZeros DEF CoinsHashed, CoinsIn
  <2> QED
    BY <2>1, <2>2, <2>4, FiniteThreads, SumOfZeros DEF CountInv, EveryCoinCounted
<1>2. TypeInv /\ TypeInv' /\ CountInv /\ [Next]_vars => CountInv'
  <2> SUFFICES ASSUME TypeInv, TypeInv', CountInv, [Next]_vars PROVE CountInv'
    OBVIOUS
  <2> USE DEF vault, shared
  <2>a. /\ pc \in [Threads -> {"loop", "count", "enter", "save", "fill",
                               "tally", "left"}]
        /\ local_counter \in [Threads -> Nat] /\ hits \in [Threads -> SUBSET Golden]
        /\ coins_found \in Int /\ accepted \in Seq(V!Line) /\ Len(accepted) \in Int
        /\ HitsFinite
    BY TypeParts DEF CountInv
  <2>1. ASSUME UNCHANGED <<pc, local_counter, hits, coins_found, accepted>>
        PROVE  CountInv'
    BY <2>1 DEF CountInv, HitsFinite, EveryCoinCounted, CoinsHashed, Hashed, Waiting, Uncounted
  <2>2. CASE Interrupt \/ Finish \/ UNCHANGED vars
    BY <2>1, <2>2 DEF Interrupt, Finish, WriteFails, vars
  <2>3. ASSUME NEW t \in Threads, Steps(t) PROVE CountInv'
    <3>l. Len(accepted) \in Int /\ coins_found \in Int
      BY <2>a
    <3>t. CoinsIn(t) \in Int /\ Waiting(t) \in Int /\ Uncounted(t) \in Int
      <4>1. CoinsIn(t) \in Nat /\ Waiting(t) \in Nat /\ Uncounted(t) \in Int
        BY <2>a, CoinsInType, WaitingType
      <4> QED
        BY <4>1
    <3>1. CASE HashStep(t)
      <4>1. /\ IsFiniteSet(hits'[t]) /\ hits[t] = {} /\ pc'[t] \in {"tally", "count"}
            /\ CoinsIn(t)' = CoinsIn(t) + Cardinality(hits'[t])
        BY <3>1, HashStepFinds
      <4>2. /\ OnlyMoves(t)
            /\ UNCHANGED <<coins_found, accepted>> /\ pc[t] = "loop"
        BY <2>a, <3>1 DEF HashStep, Goto, OnlyMoves
      <4>3. Cardinality(hits'[t]) \in Nat
        BY <4>1, FS_CardinalityType
      <4>4. /\ Waiting(t) = 0 /\ Uncounted(t) = 0
            /\ Waiting(t)' = Cardinality(hits'[t]) /\ Uncounted(t)' = Cardinality(hits'[t])
        BY <4>1, <4>2, <4>3, FS_EmptySet DEF Waiting, Uncounted
      <4>5. CoinsIn(t)' = CoinsIn(t) + Cardinality(hits'[t])
        BY <4>1
      <4>6. Len(accepted') = Len(accepted) /\ coins_found' = coins_found
        BY <4>2
      <4>7. Balanced(t)
        BY <3>l, <3>t, <4>3, <4>4, <4>5, <4>6 DEF Balanced
      <4> QED
        BY <4>1, <4>2, <4>7, SumsBalance
    <3>2. CASE CountCoin(t)
      <4>1. /\ OnlyMoves(t)
            /\ UNCHANGED <<accepted, local_counter, hits>> /\ coins_found' = coins_found + 1
            /\ pc[t] = "count" /\ pc'[t] \in {"enter", "save"}
        BY <2>a, <3>2 DEF CountCoin, Goto, OnlyMoves
      <4>2. IsFiniteSet(hits'[t]) /\ Cardinality(hits[t]) \in Nat
        BY <2>a, <4>1, FS_CardinalityType DEF HitsFinite
      <4>3. Hashed(t)' = Hashed(t)
        BY <4>1 DEF Hashed
      <4>4. Waiting(t)' = Waiting(t) + 0 - 0 /\ Uncounted(t)' = Uncounted(t) + 0 - 1
        BY <4>1, <4>2 DEF Waiting, Uncounted
      <4>5. CoinsIn(t)' = CoinsIn(t) + 0
        BY <2>a, <4>3, CoinsInType DEF CoinsIn
      <4>6. Len(accepted') = Len(accepted) + 0
        BY <3>l, <4>1
      <4>9. Balanced(t)
        BY <3>l, <3>t, <4>1, <4>4, <4>5, <4>6 DEF Balanced
      <4> QED
        BY <4>1, <4>2, <4>9, SumsBalance
    <3>3. CASE EnterCritical(t) \/ BeginSave(t)
      <4>1. /\ OnlyMoves(t)
            /\ UNCHANGED <<accepted, local_counter, hits, coins_found>>
            /\ pc[t] \in {"enter", "save"} /\ pc'[t] \in {"enter", "save", "fill"}
        BY <2>a, <3>3 DEF EnterCritical, BeginSave, WriteFails, Goto, OnlyMoves
      <4>2. IsFiniteSet(hits'[t]) /\ Cardinality(hits[t]) \in Nat
        BY <2>a, <4>1, FS_CardinalityType DEF HitsFinite
      <4>3. Hashed(t)' = Hashed(t)
        BY <4>1 DEF Hashed
      <4>4. Waiting(t)' = Waiting(t) + 0 - 0 /\ Uncounted(t)' = Uncounted(t) + 0 - 0
        BY <4>1, <4>2 DEF Waiting, Uncounted
      <4>5. CoinsIn(t)' = CoinsIn(t) + 0
        BY <2>a, <4>3, CoinsInType DEF CoinsIn
      <4>6. Len(accepted') = Len(accepted) + 0 /\ coins_found' = coins_found + 0
        BY <3>l, <4>1
      <4>9. Balanced(t)
        BY <3>l, <3>t, <4>1, <4>4, <4>5, <4>6 DEF Balanced
      <4> QED
        BY <4>1, <4>2, <4>9, SumsBalance
    <3>4. CASE EndSave(t)
      <4>0. CoinInHand(t) \in hits[t]
        <5>1. hits[t] # {} /\ hits[t] \subseteq Golden
          BY <3>4, TypeParts DEF EndSave
        <5> QED
          BY <5>1, CoinInHandWaits
      <4>1. /\ OnlyMoves(t)
            /\ UNCHANGED <<local_counter, coins_found>>
            /\ hits'[t] = hits[t] \ {CoinInHand(t)}
            /\ pc[t] = "fill" /\ pc'[t] \in {"count", "tally"}
        BY <2>a, <3>4 DEF EndSave, Goto, OnlyMoves
      <4>2. Len(accepted') = Len(accepted) + 1
        <5>1. accepted' = Append(accepted, LineOf(CoinInHand(t)))
          BY <3>4 DEF EndSave
        <5> HIDE DEF V!Line
        <5> QED
          BY <2>a, <5>1
      <4>3. /\ IsFiniteSet(hits'[t]) /\ Cardinality(hits[t]) \in Nat
            /\ Cardinality(hits'[t]) = Cardinality(hits[t]) - 1
        BY <2>a, <4>0, <4>1, FS_CardinalityType, FS_RemoveElement DEF HitsFinite
      <4>4. Hashed(t)' = Hashed(t)
        BY <4>1 DEF Hashed
      <4>5. Waiting(t)' = Waiting(t) + 0 - 1 /\ Uncounted(t)' = Uncounted(t) + 0 - 0
        BY <4>1, <4>3 DEF Waiting, Uncounted
      <4>6. CoinsIn(t)' = CoinsIn(t) + 0
        BY <2>a, <4>4, CoinsInType DEF CoinsIn
      <4>7. coins_found' = coins_found + 0
        BY <3>l, <4>1
      <4>9. Balanced(t)
        BY <3>l, <3>t, <4>1, <4>2, <4>3, <4>5, <4>6, <4>7 DEF Balanced
      <4> QED
        BY <4>1, <4>3, <4>9, SumsBalance
    <3>5. CASE Tally(t) \/ LeaveLoop(t)
      <4>1. /\ OnlyMoves(t)
            /\ UNCHANGED <<accepted, hits, coins_found>>
            /\ pc[t] \in {"loop", "tally"} /\ pc'[t] \in {"loop", "left"}
            /\ local_counter'[t] = local_counter[t] + IF pc[t] = "tally" THEN Lanes ELSE 0
        BY <2>a, <3>5 DEF Tally, LeaveLoop, Goto, OnlyMoves
      <4>2. IsFiniteSet(hits'[t]) /\ Cardinality(hits[t]) \in Nat
        BY <2>a, <4>1, FS_CardinalityType DEF HitsFinite
      <4>3. Hashed(t)' = Hashed(t)
        <5>1. thread_offset(t) \in Int /\ local_counter[t] \in Int /\ Lanes \in Int
          BY <2>a, OffsetType, LanesAssumption
        <5> QED
          BY <4>1, <5>1 DEF Hashed
      <4>4. Waiting(t)' = Waiting(t) + 0 - 0 /\ Uncounted(t)' = Uncounted(t) + 0 - 0
        BY <4>1, <4>2 DEF Waiting, Uncounted
      <4>5. CoinsIn(t)' = CoinsIn(t) + 0
        BY <2>a, <4>3, CoinsInType DEF CoinsIn
      <4>6. Len(accepted') = Len(accepted) + 0 /\ coins_found' = coins_found + 0
        BY <3>l, <4>1
      <4>9. Balanced(t)
        BY <3>l, <3>t, <4>1, <4>4, <4>5, <4>6 DEF Balanced
      <4> QED
        BY <4>1, <4>2, <4>9, SumsBalance
    <3> QED
      BY <2>3, <3>1, <3>2, <3>3, <3>4, <3>5 DEF Steps
  <2> QED
    BY <2>2, <2>3, StepCases
<1> QED
  BY <1>1, <1>2, TypeCorrect, PTL DEF Spec

THEOREM EveryCoinIsCounted == Spec => []EveryCoinCounted
<1>1. CountInv => EveryCoinCounted
  BY DEF CountInv
<1> QED
  BY <1>1, CountCorrect, PTL

-----------------------------------------------------------------------------
(* How far the threads get *)

LEMMA Positives ==
    /\ NumThreads \in Nat /\ NumThreads > 0
    /\ Lanes \in Nat /\ Lanes > 0
    /\ BATCH \in Nat /\ BATCH > 0
    /\ MaxHashes \in Nat
  BY ThreadsAssumption, LanesAssumption, BatchAssumption, BoundAssumption

(* A thread hashes Lanes counters at a time. *)
WorkInv ==
    \A t \in Threads :
        /\ \E k \in Nat : local_counter[t] = k * Lanes
        /\ local_counter[t] < MaxHashes + Lanes
        /\ pc[t] \notin {"loop", "left"} => local_counter[t] < MaxHashes

THEOREM WorkCorrect == Spec => []WorkInv
<1>1. Init => WorkInv
  <2>1. 0 = 0 * Lanes /\ 0 \in Nat /\ 0 < MaxHashes + Lanes
    BY Positives
  <2> QED
    BY <2>1 DEF Init, WorkInv
<1>2. TypeInv /\ WorkInv /\ [Next]_vars => WorkInv'
  <2> SUFFICES ASSUME TypeInv, WorkInv, [Next]_vars PROVE WorkInv'
    OBVIOUS
  <2>1. CASE Interrupt \/ Finish \/ UNCHANGED vars
    BY <2>1 DEF Interrupt, Finish, vars, WorkInv
  <2>2. ASSUME NEW t \in Threads, Steps(t) PROVE WorkInv'
    <3>a. /\ pc \in [Threads -> {"loop", "count", "enter", "save", "fill",
                                 "tally", "left"}]
          /\ local_counter \in [Threads -> Nat]
      BY TypeParts
    <3>1. ASSUME local_counter' = local_counter,
                 \E place : pc' = [pc EXCEPT ![t] = place] /\
                           (place \in {"loop", "left"} \/ local_counter[t] < MaxHashes)
          PROVE  WorkInv'
      BY <3>1, <3>a DEF WorkInv
    <3>2. CASE HashStep(t)
      BY <3>1, <3>2 DEF HashStep, Goto
    <3>3. CASE CountCoin(t) \/ EnterCritical(t) \/ EndSave(t)
      <4>1. local_counter[t] < MaxHashes
        BY <3>3 DEF CountCoin, EnterCritical, EndSave, WorkInv
      <4> QED
        BY <3>1, <3>3, <4>1 DEF CountCoin, EnterCritical, EndSave, Goto
    <3>4. CASE BeginSave(t)
      <4>1. local_counter[t] < MaxHashes /\ local_counter' = local_counter
        BY <3>4 DEF BeginSave, WorkInv
      <4>2. CASE pc' = pc
        BY <4>1, <4>2 DEF WorkInv
      <4> QED
        BY <3>1, <3>4, <4>1, <4>2 DEF BeginSave, Goto
    <3>5. CASE LeaveLoop(t)
      BY <3>1, <3>5 DEF LeaveLoop, Goto
    <3>6. CASE Tally(t)
      <4>1. /\ pc[t] = "tally" /\ pc' = [pc EXCEPT ![t] = "loop"]
            /\ local_counter' = [local_counter EXCEPT ![t] = @ + Lanes]
        BY <3>6 DEF Tally, Goto
      <4>2. PICK k \in Nat : local_counter[t] = k * Lanes
        BY DEF WorkInv
      <4>3. local_counter[t] < MaxHashes
        BY <4>1 DEF WorkInv
      <4>4. /\ k + 1 \in Nat /\ local_counter'[t] = (k + 1) * Lanes
            /\ local_counter'[t] < MaxHashes + Lanes /\ pc'[t] = "loop"
        BY <3>a, <4>1, <4>2, <4>3, Positives
      <4>5. \A u \in Threads \ {t} : /\ local_counter'[u] = local_counter[u] /\ pc'[u] = pc[u]
        BY <3>a, <4>1
      <4> QED
        BY <4>4, <4>5 DEF WorkInv
    <3> QED
      BY <2>2, <3>2, <3>3, <3>4, <3>5, <3>6 DEF Steps
  <2> QED
    BY <2>1, <2>2, StepCases
<1> QED
  BY <1>1, <1>2, TypeCorrect, PTL DEF Spec

LEMMA CoinsBounded ==
    ASSUME TypeInv, WorkInv, NEW t \in Threads
    PROVE  CoinsIn(t) <= MaxHashes + Lanes - 1
<1> DEFINE a == thread_offset(t)
           n == local_counter[t] + IF pc[t] \in {"loop", "left"} THEN 0 ELSE Lanes
<1>1. a \in Int /\ n \in Nat /\ n <= MaxHashes + Lanes - 1
  BY OffsetType, TypeParts, Positives DEF WorkInv
<1>2. Hashed(t) = a..(a + n - 1)
  BY <1>1, TypeParts, Positives DEF Hashed
<1> HIDE DEF a, n
<1>3. IsFiniteSet(a..(a + n - 1)) /\ Cardinality(a..(a + n - 1)) = n
  <2>1. a + n - 1 \in Int /\ (a > a + n - 1 => n = 0) /\ (a + n - 1) - a + 1 = n
    BY <1>1
  <2> QED
    BY <1>1, <2>1, FS_Interval
<1>4. Cardinality(Golden \cap (a..(a + n - 1))) <= n
  BY <1>3, FS_Subset
<1>5. CoinsIn(t) <= n /\ CoinsIn(t) \in Nat
  BY <1>2, <1>4, CoinsInType DEF CoinsIn
<1> QED
  BY <1>1, <1>5, Positives

(* The coins of all threads are fewer than the calls of save_coin that the *)
(* vault's model allows.                                                   *)
LEMMA CallsBounded ==
    ASSUME TypeInv, WorkInv, CountInv
    PROVE  Len(accepted) < NumThreads * (MaxHashes + Lanes)
<1> DEFINE k == MaxHashes + Lanes - 1
           most == [t \in Threads |-> k]
           h == [t \in Threads |-> CoinsIn(t)]
           w == [t \in Threads |-> Waiting(t)]
<1>1. k \in Int /\ \A t \in Threads : CoinsIn(t) \in Int /\ Waiting(t) \in Nat /\ CoinsIn(t) <= k
  <2>1. ASSUME NEW t \in Threads
        PROVE  CoinsIn(t) \in Nat /\ Waiting(t) \in Nat /\ CoinsIn(t) <= k
    BY CoinsInType, WaitingType, CoinsBounded DEF CountInv
  <2> HIDE DEF k
  <2> QED
    BY <2>1, Positives DEF k
<1> HIDE DEF k
<1>2. /\ most \in [Threads -> Int] /\ h \in [Threads -> Int] /\ w \in [Threads -> Nat]
      /\ \A t \in Threads : h[t] <= most[t] /\ most[t] = k
  BY <1>1
<1>3. CoinsHashed = SumFunction(h) /\ CoinsHashed = Len(accepted) + SumFunction(w)
  BY DEF CoinsHashed, CoinsIn, CountInv, EveryCoinCounted
<1> HIDE DEF h, w, most
<1>4. /\ SumFunction(h) <= SumFunction(most) /\ SumFunction(w) \in Nat
      /\ SumFunction(h) \in Int /\ SumFunction(most) \in Int
  BY <1>2, FiniteThreads, SumMonotone, SumNotNegative, SumType
<1>5. SumFunction(most) = k * NumThreads
  <2>1. Cardinality(Threads) = NumThreads
    <3>1. 0 \in Int /\ NumThreads - 1 \in Int /\ ~(0 > NumThreads - 1)
          /\ (NumThreads - 1) - 0 + 1 = NumThreads
      BY Positives
    <3> QED
      BY <3>1, FS_Interval DEF Threads
  <2>2. DOMAIN most = Threads
    BY DEF most
  <2> QED
    BY <1>1, <1>2, <2>1, <2>2, FiniteThreads, SumOfConstant DEF SumFunction
<1>6. k * NumThreads < NumThreads * (MaxHashes + Lanes)
  BY Positives DEF k
<1>7. Len(accepted) \in Int
  BY TypeParts
<1>8. PICK c \in Int, w1 \in Nat, m \in Int :
         /\ c = SumFunction(h) /\ w1 = SumFunction(w) /\ m = NumThreads * (MaxHashes + Lanes)
  BY <1>4, Positives
<1> QED
  BY <1>3, <1>4, <1>5, <1>6, <1>7, <1>8

-----------------------------------------------------------------------------
(* The threads use the vault like one caller. *)

LEMMA VaultStutters ==
    ASSUME UNCHANGED vault
    PROVE  UNCHANGED V!vars
  BY DEF vault, V!vars, BufferLines

LEMMA VaultWriteFails ==
    ASSUME TypeInv, WriteFails
    PROVE  V!WriteFails /\ Len(accepted') = Len(accepted)
  BY BufferType DEF TypeInv, WriteFails, V!WriteFails, V!n_saved_coins, BufferLines

THEOREM VaultIsKept == Spec => VaultSpec
<1>1. Init => V!Init
  BY DEF Init, V!Init, BufferLines, V!ToleratedErrors
<1>2. TypeInv /\ CriticalInv /\ CountInv /\ WorkInv /\ [Next]_vars => [V!Next]_(V!vars)
  <2> SUFFICES ASSUME TypeInv, CriticalInv, CountInv, WorkInv, [Next]_vars
               PROVE  [V!Next]_(V!vars)
    OBVIOUS
  <2>1. CASE Interrupt \/ UNCHANGED vars
    BY <2>1, VaultStutters DEF Interrupt, vars
  <2>2. CASE Finish
    <3>1. CASE WriteFails
      BY <2>2, <3>1, VaultWriteFails DEF Finish, V!Next, V!Return, V!SaveAllAnd
    <3>2. CASE ~WriteFails
      <4>1. BufferLines' = <<>>
        BY <2>2, <3>2 DEF Finish, BufferLines
      <4> QED
        BY <2>2, <3>2, <4>1 DEF Finish, V!Next, V!Return, V!SaveAllAnd, V!AfterFlush
    <3> QED
      BY <3>1, <3>2
  <2>3. ASSUME NEW t \in Threads, status = "running", Steps(t) PROVE [V!Next]_(V!vars)
    <3>1. CASE HashStep(t) \/ CountCoin(t) \/ EnterCritical(t) \/ Tally(t) \/ LeaveLoop(t)
      BY <3>1, VaultStutters DEF HashStep, CountCoin, EnterCritical, Tally, LeaveLoop
    <3>2. CASE BeginSave(t)
      <4>1. CASE WriteFails
        BY <2>3, <4>1, VaultWriteFails DEF V!Next, V!Return, V!SaveAllAnd
      <4>2. CASE UNCHANGED vault
        BY <4>2, VaultStutters
      <4>3. CASE /\ file' = V!Joined(file, BufferLines) /\ n_saved_coins' = 0
                 /\ UNCHANGED <<status, accepted>>
        <5>1. BufferLines' = <<>>
          BY <4>3 DEF BufferLines
        <5> QED
          BY <2>3, <4>3, <5>1 DEF V!Next, V!SaveAll, V!SaveAllAnd, V!AfterFlush
      <4> QED
        BY <3>2, <4>1, <4>2, <4>3 DEF BeginSave
    <3>3. CASE EndSave(t)
      <4> DEFINE n == CoinInHand(t)
                 c == [id |-> n, template |-> TRUE, signature |-> TRUE, zeros |-> 0]
      <4>1. /\ BufferLines' = Append(BufferLines, LineOf(n)) /\ n \in Golden
            /\ n_saved_coins < MAX_SAVED_COINS /\ n_saved_coins \in Nat
        BY <3>3, FillAppends, TypeParts
      <4>2. /\ accepted' = Append(accepted, LineOf(n)) /\ UNCHANGED <<file, status>>
        BY <3>3 DEF EndSave
      <4>3. Len(accepted') = Len(accepted) + 1 /\ Len(accepted) < NumThreads * (MaxHashes + Lanes)
        <5>1. accepted \in Seq(V!Line)
          BY TypeParts
        <5> HIDE DEF n, V!Line
        <5> QED
          BY <4>2, <5>1, CallsBounded
      <4>4. V!LineOf(c) = LineOf(n) /\ V!Valid(c)
        BY DEF V!LineOf, V!Power, LineOf, V!Valid
      <4>5. V!FileBefore = file /\ V!KeptLines = BufferLines
        BY <4>1, BufferType DEF TypeInv, V!FileBefore, V!KeptLines, V!BufferFull, V!n_saved_coins
      <4> HIDE DEF n
      <4>6. V!SaveCoin(c)
        BY <2>3, <4>1, <4>2, <4>3, <4>4, <4>5 DEF V!SaveCoin, V!Accept
      <4>7. c \in {[id |-> g, template |-> TRUE, signature |-> TRUE, zeros |-> 0] : g \in Golden}
        BY <4>1
      <4> QED
        BY <4>6, <4>7 DEF V!Next
    <3> QED
      BY <2>3, <3>1, <3>2, <3>3 DEF Steps
  <2> QED
    BY <2>1, <2>2, <2>3, StepCases
<1> QED
  BY <1>1, <1>2, TypeCorrect, CriticalCorrect, CountCorrect, WorkCorrect, PTL
     DEF Spec, VaultSpec, V!Spec

-----------------------------------------------------------------------------
(* The statistics *)

(* What a thread has put into total_attempts, and what it has not yet. *)
Reported(t) ==
    IF program = "single" \/ pc[t] = "left"
    THEN local_counter[t]
    ELSE local_counter[t] - (local_counter[t] % BATCH)
Unreported(t) == local_counter[t] - Reported(t)

TallyInv == total_attempts = SumFunction([t \in Threads |-> Reported(t)])

LEMMA ReportedType ==
    ASSUME TypeInv, NEW t \in Threads
    PROVE  /\ local_counter[t] \in Nat
           /\ local_counter[t] % BATCH \in 0..(BATCH - 1)
           /\ Reported(t) \in Int /\ Unreported(t) \in Int
           /\ 0 <= Unreported(t) /\ Unreported(t) < BATCH
<1>1. local_counter[t] \in Nat
  BY TypeParts
<1>2. \A n \in Nat : n % BATCH \in 0..(BATCH - 1)
  BY Positives
<1>3. PICK n \in Nat, r \in 0..(BATCH - 1) : n = local_counter[t] /\ r = local_counter[t] % BATCH
  BY <1>1, <1>2
<1>4. Reported(t) = n \/ Reported(t) = n - r
  BY <1>3 DEF Reported
<1>5. Unreported(t) = n - Reported(t)
  BY <1>3 DEF Unreported
<1> QED
  BY <1>1, <1>2, <1>3, <1>4, <1>5, Positives

(* What one thread reports is added to the total. *)
LEMMA TallyMoves ==
    ASSUME TypeInv, TypeInv', TallyInv, NEW t \in Threads, OnlyMoves(t), program' = program,
           total_attempts' - total_attempts = Reported(t)' - Reported(t)
    PROVE  TallyInv'
<1> DEFINE f == [u \in Threads |-> Reported(u)]
<1>1. f \in [Threads -> Int] /\ f[t] \in Int
  BY ReportedType
<1>2. f' \in [Threads -> Int] /\ f'[t] \in Int
  <2>1. \A n \in Nat : (n % BATCH) \in Nat /\ n - (n % BATCH) \in Int
    BY Positives
  <2>2. local_counter' \in [Threads -> Nat]
    BY DEF TypeInv, TypeOK
  <2>3. \A u \in Threads : Reported(u)' \in Int
    BY <2>1, <2>2 DEF Reported
  <2> QED
    BY <2>3
<1>3. \A u \in Threads \ {t} : f'[u] = f[u]
  BY DEF OnlyMoves, Reported
<1>4. f[t] = Reported(t) /\ f'[t] = Reported(t)'
  OBVIOUS
<1>5. total_attempts = SumFunction(f) /\ (TallyInv' <=> total_attempts' = SumFunction(f'))
  BY DEF TallyInv
<1>6. total_attempts \in Int /\ total_attempts' \in Int
  BY DEF TypeInv, TypeOK
<1> HIDE DEF f
<1>7. SumFunction(f') = SumFunction(f) - f[t] + f'[t]
  BY <1>1, <1>2, <1>3, FiniteThreads, SumOfUpdate
<1>8. PICK a \in Int, b \in Int, x \in Int, y \in Int :
         /\ a = total_attempts /\ b = total_attempts' /\ x = f[t] /\ y = f'[t]
  BY <1>1, <1>2, <1>6
<1>9. b - a = y - x /\ SumFunction(f') = a - x + y
  BY <1>4, <1>5, <1>7, <1>8
<1>10. b = a - x + y
  BY <1>9
<1> QED
  BY <1>5, <1>8, <1>9, <1>10

(* A pass of the loop reports what it fills up of a batch (openmp), or     *)
(* everything (single).                                                    *)
LEMMA TallyReports ==
    ASSUME TypeInv, WorkInv, NEW t \in Threads, Tally(t), program' = program
    PROVE  total_attempts' - total_attempts = Reported(t)' - Reported(t)
<1>1. /\ pc[t] = "tally" /\ pc'[t] = "loop"
      /\ local_counter'[t] = local_counter[t] + Lanes
      /\ total_attempts' = total_attempts + Tallied(local_counter[t] + Lanes)
      /\ total_attempts \in Int
  BY TypeParts DEF Tally, Goto
<1>2. PICK n \in Nat, k \in Nat : n = local_counter[t] /\ n = k * Lanes
  BY TypeParts DEF WorkInv
<1>3. CASE program = "single"
  <2>1. Reported(t) = n /\ Reported(t)' = n + Lanes /\ Tallied(n + Lanes) = Lanes
    BY <1>1, <1>2, <1>3 DEF Reported, Tallied
  <2> QED
    BY <1>1, <1>2, <2>1, Positives
<1>4. CASE program = "openmp"
  <2>1. /\ Reported(t) = n - (n % BATCH)
        /\ Reported(t)' = (n + Lanes) - ((n + Lanes) % BATCH)
        /\ Tallied(n + Lanes) = IF (n + Lanes) % BATCH = 0 THEN BATCH ELSE 0
    BY <1>1, <1>2, <1>4 DEF Reported, Tallied, FullBatch
  <2>2. PICK m \in Nat : BATCH = m * Lanes
    <3>1. \E q \in Int, r \in 0..(Lanes - 1) : BATCH = q * Lanes + r /\ r = BATCH % Lanes
      BY Positives, QuotientAndRemainder
    <3>2. PICK q \in Int : BATCH = q * Lanes + 0
      BY <3>1, BatchAssumption
    <3>3. q * Lanes \in Int /\ BATCH = q * Lanes
      BY <3>2, Positives
    <3>4. CASE q < 0
      <4>1. q * Lanes + Lanes <= 0 * Lanes
        BY <3>4, Positives, ProductGrows
      <4> QED
        BY <3>3, <4>1, Positives
    <3> QED
      BY <3>3, <3>4
  <2>3. Reported(t)' = Reported(t) + Tallied(n + Lanes)
    <3>1. (n + Lanes) - ((n + Lanes) % BATCH)
             = (n - (n % BATCH)) + IF (n + Lanes) % BATCH = 0 THEN BATCH ELSE 0
      <4>1. Lanes \in Nat \ {0} /\ BATCH \in Nat \ {0}
        BY Positives
      <4> QED
        BY <1>2, <2>2, <4>1, FullMultiples
    <3> QED
      BY <2>1, <3>1
  <2>4. Reported(t) \in Int /\ Tallied(n + Lanes) \in Int
    BY <2>1, ReportedType, Positives
  <2>5. PICK a \in Int, x \in Int, y \in Int :
           a = total_attempts /\ x = Reported(t) /\ y = Tallied(n + Lanes)
    BY <1>1, <2>4
  <2>6. total_attempts' = a + y /\ Reported(t)' = x + y
    BY <1>1, <1>2, <2>3, <2>5
  <2>7. (a + y) - a = (x + y) - x
    OBVIOUS
  <2> QED
    BY <2>5, <2>6, <2>7
<1>5. program \in {"openmp", "single"}
  BY Zenon DEF TypeInv, TypeOK
<1> QED
  BY <1>3, <1>4, <1>5

(* The total is the sum of what the threads have reported, batch by batch, *)
(* and at the end of their loop what is left (the atomic updates of        *)
(* total_attempts).                                                        *)
THEOREM TallyCorrect == Spec => []TallyInv
<1>1. Init => TallyInv
  <2> SUFFICES ASSUME Init PROVE TallyInv
    OBVIOUS
  <2>1. 0 % BATCH = 0
    <3>1. 0 = 0 * BATCH + 0 /\ 0 \in 0..(BATCH - 1)
      BY Positives
    <3> QED
      BY <3>1, Positives, RemainderOf
  <2>2. [t \in Threads |-> Reported(t)] = [t \in Threads |-> 0]
    BY <2>1 DEF Init, Reported
  <2> QED
    BY <2>2, FiniteThreads, SumOfZeros DEF Init, TallyInv
<1>2. TypeInv /\ TypeInv' /\ WorkInv /\ TallyInv /\ [Next]_vars => TallyInv'
  <2> SUFFICES ASSUME TypeInv, TypeInv', WorkInv, TallyInv, [Next]_vars PROVE TallyInv'
    OBVIOUS
  <2>1. CASE Interrupt \/ Finish \/ UNCHANGED vars
    BY <2>1 DEF Interrupt, Finish, vars, shared, TallyInv, Reported
  <2>2. ASSUME NEW t \in Threads, program' = program, Steps(t) PROVE TallyInv'
    <3>a. /\ pc \in [Threads -> {"loop", "count", "enter", "save", "fill",
                                 "tally", "left"}]
          /\ local_counter \in [Threads -> Nat] /\ hits \in [Threads -> SUBSET Golden]
          /\ total_attempts \in Int
      BY TypeParts
    <3>b. Reported(t) \in Int
      BY ReportedType
    <3>1. CASE HashStep(t) \/ CountCoin(t) \/ EnterCritical(t) \/ BeginSave(t) \/ EndSave(t)
      <4>1. /\ OnlyMoves(t) /\ local_counter' = local_counter
            /\ total_attempts' = total_attempts /\ pc[t] # "left" /\ pc'[t] # "left"
        BY <3>1, <3>a DEF HashStep, CountCoin, EnterCritical, BeginSave, EndSave, WriteFails,
           Goto, OnlyMoves, shared
      <4>2. Reported(t)' = Reported(t)
        BY <2>2, <4>1 DEF Reported
      <4>3. total_attempts' - total_attempts = Reported(t)' - Reported(t)
        BY <3>a, <3>b, <4>1, <4>2
      <4> QED
        BY <2>2, <4>1, <4>3, TallyMoves
    <3>2. CASE Tally(t)
      <4>1. OnlyMoves(t)
        BY <3>2, <3>a DEF Tally, Goto, OnlyMoves
      <4> QED
        BY <2>2, <3>2, <4>1, TallyReports, TallyMoves
    <3>3. CASE LeaveLoop(t)
      <4>1. /\ OnlyMoves(t) /\ local_counter' = local_counter /\ pc[t] = "loop"
            /\ pc'[t] = "left" /\ total_attempts' = total_attempts + Remainder(local_counter[t])
        BY <3>3, <3>a DEF LeaveLoop, Goto, OnlyMoves
      <4>2. PICK n \in Nat, r \in 0..(BATCH - 1), a \in Int :
               n = local_counter[t] /\ r = n % BATCH /\ a = total_attempts
        BY <3>a, ReportedType
      <4>3. program \in {"openmp", "single"}
        BY Zenon DEF TypeInv, TypeOK
      <4>4. CASE program = "single"
        <5>1. Reported(t) = n /\ Reported(t)' = n /\ total_attempts' = a + 0
          BY <2>2, <4>1, <4>2, <4>4 DEF Reported, Remainder
        <5>2. total_attempts' - total_attempts = Reported(t)' - Reported(t)
          BY <4>2, <5>1
        <5> QED
          BY <2>2, <4>1, <5>2, TallyMoves
      <4>5. CASE program = "openmp"
        <5>1. Reported(t) = n - r /\ Reported(t)' = n /\ total_attempts' = a + r
          BY <2>2, <4>1, <4>2, <4>5 DEF Reported, Remainder
        <5>2. total_attempts' - total_attempts = Reported(t)' - Reported(t)
          BY <4>2, <5>1
        <5> QED
          BY <2>2, <4>1, <5>2, TallyMoves
      <4> QED
        BY <4>3, <4>4, <4>5
    <3> QED
      BY <2>2, <3>1, <3>2, <3>3 DEF Steps
  <2> QED
    BY <2>1, <2>2, StepCases
<1> QED
  BY <1>1, <1>2, TypeCorrect, WorkCorrect, PTL DEF Spec

(* The printed numbers: while the miner runs they lag by less than a batch *)
(* for each thread, when it has returned they are exact, and every coin    *)
(* counted is in the file.                                                 *)
THEOREM StatisticsAreExact == Spec => []StatisticsExact
<1>1. TypeInv /\ CriticalInv /\ FileInv /\ CountInv /\ TallyInv => StatisticsExact
  <2> SUFFICES ASSUME TypeInv, CriticalInv, FileInv, CountInv, TallyInv PROVE StatisticsExact
    OBVIOUS
  <2> DEFINE f == [t \in Threads |-> Reported(t)]
             g == [t \in Threads |-> Unreported(t)]
             most == [t \in Threads |-> BATCH - 1]
             done == SumFunction(local_counter)
  <2>1. ASSUME NEW t \in Threads
        PROVE  /\ f[t] \in Int /\ g[t] \in Int /\ local_counter[t] = f[t] + g[t]
               /\ f[t] <= local_counter[t] /\ g[t] <= most[t] /\ most[t] = BATCH - 1
               /\ BATCH - 1 \in Int /\ most[t] \in Int /\ local_counter[t] \in Int
    <3>1. PICK n \in Nat, x \in Int, y \in Int :
             /\ n = local_counter[t] /\ x = Reported(t) /\ y = Unreported(t)
             /\ 0 <= y /\ y < BATCH
      BY ReportedType
    <3>2. y = n - x
      BY <3>1 DEF Unreported
    <3>3. n = x + y /\ x <= n /\ y <= BATCH - 1 /\ BATCH - 1 \in Int
      BY <3>1, <3>2, Positives
    <3> QED
      BY <3>1, <3>3
  <2>2. /\ local_counter \in [Threads -> Int] /\ f \in [Threads -> Int]
        /\ g \in [Threads -> Int] /\ most \in [Threads -> Int]
    <3>1. DOMAIN local_counter = Threads /\ local_counter = [t \in Threads |-> local_counter[t]]
      BY TypeParts
    <3> QED
      BY <2>1, <3>1
  <2>3. total_attempts = SumFunction(f)
    BY DEF TallyInv
  <2> HIDE DEF f, g, most
  <2>4. /\ done = SumFunction(f) + SumFunction(g) /\ SumFunction(f) <= done
        /\ SumFunction(g) <= SumFunction(most)
        /\ SumFunction(f) \in Int /\ SumFunction(g) \in Int /\ SumFunction(most) \in Int
        /\ done \in Int
    BY <2>1, <2>2, FiniteThreads, SumAdds, SumMonotone, SumType
  <2>5. SumFunction(most) = (BATCH - 1) * NumThreads
    <3>1. Cardinality(Threads) = NumThreads
      <4>1. 0 \in Int /\ NumThreads - 1 \in Int /\ ~(0 > NumThreads - 1)
            /\ (NumThreads - 1) - 0 + 1 = NumThreads
        BY Positives
      <4> QED
        BY <4>1, FS_Interval DEF Threads
    <3>2. DOMAIN most = Threads /\ BATCH - 1 \in Int /\ \A t \in Threads : most[t] = BATCH - 1
      BY Positives DEF most
    <3> QED
      BY <3>1, <3>2, FiniteThreads, SumOfConstant DEF SumFunction
  <2>6. (BATCH - 1) * NumThreads < NumThreads * BATCH
    BY Positives
  <2>7. total_attempts <= done /\ done - total_attempts < NumThreads * BATCH
    <3>1. PICK x \in Int, y \in Int, z \in Int, m \in Int :
             /\ x = SumFunction(f) /\ y = SumFunction(g) /\ z = SumFunction(most)
             /\ m = NumThreads * BATCH
      BY <2>4, Positives
    <3>2. y <= z /\ z < m /\ done = x + y /\ total_attempts = x
      BY <2>3, <2>4, <2>5, <2>6, <3>1
    <3>3. (x + y) - x < m
      BY <3>2
    <3> QED
      BY <2>3, <2>4, <3>1, <3>2, <3>3
  <2>8. ASSUME \A t \in Threads : Reported(t) = local_counter[t] PROVE total_attempts = done
    <3>1. f = local_counter
      BY <2>2, <2>8 DEF f
    <3> QED
      BY <2>3, <3>1
  <2>9. program = "single" => total_attempts = done
    BY <2>8 DEF Reported
  <2>10. ASSUME status = "returned" PROVE total_attempts = done /\ coins_found = Len(file)
    <3>1. file = accepted /\ \A t \in Threads : Runs(t) => pc[t] = "left"
      BY <2>10 DEF FileInv
    <3>p. program \in {"openmp", "single"}
      BY Zenon DEF TypeInv, TypeOK
    <3>2. \A t \in Threads : Reported(t) = local_counter[t]
      BY <3>1, <3>p DEF Reported, Runs
    <3>3. \A t \in Threads : pc[t] \in {"loop", "left"} /\ hits[t] = {}
      <4>1. \A t \in Threads : pc[t] \in {"loop", "left"}
        BY <3>1, <3>p DEF Runs, CriticalInv, OthersIdle
      <4> QED
        BY <4>1, TypeParts
    <3>4. /\ [t \in Threads |-> Waiting(t)] = [t \in Threads |-> 0]
          /\ [t \in Threads |-> Uncounted(t)] = [t \in Threads |-> 0]
      BY <3>3, FS_EmptySet DEF Waiting, Uncounted
    <3>5. Len(accepted) \in Int /\ coins_found \in Int
      BY TypeParts
    <3>6. CoinsHashed = Len(accepted) + 0 /\ CoinsHashed = coins_found + 0
      BY <3>4, FiniteThreads, SumOfZeros DEF CountInv, EveryCoinCounted
    <3> QED
      BY <2>8, <3>1, <3>2, <3>5, <3>6
  <2> QED
    BY <2>7, <2>9, <2>10 DEF StatisticsExact
<1> QED
  BY <1>1, TypeCorrect, CriticalCorrect, FileCorrect, CountCorrect, TallyCorrect, PTL
=============================================================================
