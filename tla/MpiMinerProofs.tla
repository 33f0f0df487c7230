--------------------------- MODULE MpiMinerProofs ---------------------------
(***************************************************************************)
(* What holds of the protocol of module MpiMiner for any number of         *)
(* workers, any length of a range and any set of coins: the messages and   *)
(* the master's bookkeeping first, then the coins and the statistics, the  *)
(* ledger the job keeps and the port every worker keeps.                   *)
(***************************************************************************)
EXTENDS MpiMiner, SumTheorems

(* A message added to a channel of messages of type S leaves such a        *)
(* channel, and so does one taken from it.                                 *)
LEMMA SendTypes ==
    ASSUME NEW S, NEW ch \in [Workers -> Seq(S)], NEW w \in Workers, NEW m \in S
    PROVE  [ch EXCEPT ![w] = Append(@, m)] \in [Workers -> Seq(S)]
  OBVIOUS

LEMMA ReceiveTypes ==
    ASSUME NEW S, NEW ch \in [Workers -> Seq(S)], NEW w \in Workers, ch[w] # <<>>
    PROVE  /\ Head(ch[w]) \in S
           /\ [ch EXCEPT ![w] = Tail(@)] \in [Workers -> Seq(S)]
  OBVIOUS

(* Raising the flag of one worker leaves flags. *)
LEMMA FlagTypes ==
    ASSUME NEW f \in [Workers -> BOOLEAN], NEW w \in Workers
    PROVE  [f EXCEPT ![w] = TRUE] \in [Workers -> BOOLEAN]
  BY Zenon

(* Ranges are made of naturals. *)
LEMMA RangeTypes ==
    /\ StopReply \in WorkRange
    /\ \A c \in Nat : RangeAt(c) \in WorkRange
  BY ChunkAssumption DEF StopReply, RangeAt, WorkRange

(* Every message, counter and flag of the protocol has the type the code   *)
(* declares for it, and no channel counter goes below zero.                *)
THEOREM TypeCorrect == Spec => []TypeOK
<1>1. Init => TypeOK
  <2> SUFFICES ASSUME Init PROVE TypeOK
    OBVIOUS
  <2>1. MasterTypeOK
    <3>1. /\ mpc \in {"distribute", "coins", "requests", "stats", "done",
                      "clock", "finished", "aborted"}
          /\ next_counter \in Nat /\ active_workers \in Int
          /\ worker_hashes \in [Workers -> Nat] /\ vault \in Seq(Nat)
      BY NumWorkersAssumption DEF Init, InitialActive
    <3>2. {master_stop_signal, shutdown_sent, timeUp} \subseteq BOOLEAN
      BY Zenon DEF Init
    <3> QED
      BY <3>1, <3>2, Zenon DEF MasterTypeOK
  <2>2. WorkerTypeOK
    BY RangeTypes DEF Init, WorkerTypeOK
  <2>3. ChannelTypeOK
    BY DEF Init, ChannelTypeOK
  <2> QED
    BY <2>1, <2>2, <2>3 DEF TypeOK
<1>2. TypeOK /\ [Next]_vars => TypeOK'
  <2> SUFFICES ASSUME MasterTypeOK, WorkerTypeOK, ChannelTypeOK, [Next]_vars
               PROVE  MasterTypeOK' /\ WorkerTypeOK' /\ ChannelTypeOK'
    BY DEF TypeOK
  <2>1. CASE Interrupt \/ TimePasses
    <3>1. MasterTypeOK'
      BY <2>1 DEF Interrupt, TimePasses, MasterTypeOK
    <3>2. UNCHANGED <<wvars, chans, found>>
      BY <2>1 DEF Interrupt, TimePasses
    <3> QED
      BY <3>1, <3>2 DEF WorkerTypeOK, ChannelTypeOK, wvars, chans
  <2>2. CASE DistributeInitialWork
    <3>1. NumWorkers * WORK_CHUNK_SIZE \in Nat
      BY NumWorkersAssumption, ChunkAssumption
    <3>2. \A v \in Workers : RangeAt((v - 1) * WORK_CHUNK_SIZE) \in WorkRange
      BY RangeTypes, ChunkAssumption DEF Workers
    <3>3. assignCh' \in [Workers -> Seq(WorkRange)]
      BY <2>2, <3>2 DEF DistributeInitialWork, ChannelTypeOK
    <3>4. MasterTypeOK'
      BY <2>2, <3>1 DEF DistributeInitialWork, MasterTypeOK
    <3>5. UNCHANGED <<wvars, coinCh, requestCh, statsCh, stopCh, doneCh, found>>
      BY <2>2 DEF DistributeInitialWork
    <3> QED
      BY <3>3, <3>4, <3>5 DEF WorkerTypeOK, ChannelTypeOK, wvars
  <2>3. CASE CoinsDrained \/ RequestsDrained \/ StatsDrained \/ DonesDrained
    <3> USE DEF CoinsDrained, RequestsDrained, StatsDrained, DonesDrained, PollEnds
    <3>1. MasterTypeOK'
      BY <2>3 DEF MasterTypeOK
    <3>2. UNCHANGED <<wvars, chans, found>>
      BY <2>3
    <3> QED
      BY <3>1, <3>2 DEF WorkerTypeOK, ChannelTypeOK, wvars, chans
  <2>4. ASSUME NEW w \in Workers, HandleCoinFound(w) \/ VaultFails(w)
        PROVE  MasterTypeOK' /\ WorkerTypeOK' /\ ChannelTypeOK'
    <3> USE DEF HandleCoinFound, VaultFails
    <3>0. /\ coinCh[w] # <<>> /\ coinCh \in [Workers -> Seq(Nat)]
          /\ coinCh' = [coinCh EXCEPT ![w] = Tail(@)]
      BY <2>4 DEF ChannelTypeOK
    <3>1. Head(coinCh[w]) \in Nat /\ coinCh' \in [Workers -> Seq(Nat)]
      BY <3>0, ReceiveTypes
    <3>2. MasterTypeOK'
      <4>1. vault' \in Seq(Nat)
        <5>1. vault \in Seq(Nat)
          BY DEF MasterTypeOK
        <5>2. vault' = vault \/ vault' = Append(vault, Head(coinCh[w]))
          BY <2>4 DEF Saved
        <5>3. \A m \in Nat : Append(vault, m) \in Seq(Nat)
          BY <5>1
        <5> QED
          BY <3>1, <5>1, <5>2, <5>3, Zenon
      <4> QED
        BY <2>4, <4>1, Zenon DEF MasterTypeOK
    <3>3. UNCHANGED <<wvars, assignCh, requestCh, statsCh, stopCh, doneCh, found>>
      BY <2>4
    <3> QED
      BY <3>1, <3>2, <3>3 DEF WorkerTypeOK, ChannelTypeOK, wvars
  <2>5. ASSUME NEW w \in Workers, HandleWorkRequest(w)
        PROVE  MasterTypeOK' /\ WorkerTypeOK' /\ ChannelTypeOK'
    <3> USE DEF HandleWorkRequest
    <3>1. MasterTypeOK'
      BY <2>5, ChunkAssumption DEF MasterTypeOK, Advance
    <3>2. assignCh' \in [Workers -> Seq(WorkRange)]
      <4>1. PICK r \in WorkRange : assignCh' = [assignCh EXCEPT ![w] = Append(@, r)]
        BY <2>5, RangeTypes DEF Reply, MasterTypeOK
      <4>2. assignCh \in [Workers -> Seq(WorkRange)]
        BY DEF ChannelTypeOK
      <4> QED
        BY <4>1, <4>2, SendTypes
    <3>3. requestCh' \in [Workers -> Nat]
      BY <2>5 DEF ChannelTypeOK
    <3>4. UNCHANGED <<wvars, coinCh, statsCh, stopCh, doneCh, found>>
      BY <2>5
    <3> QED
      BY <3>1, <3>2, <3>3, <3>4 DEF WorkerTypeOK, ChannelTypeOK, wvars
  <2>6. ASSUME NEW w \in Workers, HandleStatsUpdate(w)
        PROVE  MasterTypeOK' /\ WorkerTypeOK' /\ ChannelTypeOK'
    <3> USE DEF HandleStatsUpdate
    <3>0. statsCh[w] # <<>> /\ statsCh \in [Workers -> Seq(Nat)]
      BY <2>6 DEF ChannelTypeOK
    <3>1. Head(statsCh[w]) \in Nat /\ statsCh' \in [Workers -> Seq(Nat)]
      BY <2>6, <3>0, ReceiveTypes
    <3>2. MasterTypeOK'
      BY <2>6, <3>1 DEF MasterTypeOK
    <3>3. UNCHANGED <<wvars, assignCh, coinCh, requestCh, stopCh, doneCh, found>>
      BY <2>6
    <3> QED
      BY <3>1, <3>2, <3>3 DEF WorkerTypeOK, ChannelTypeOK, wvars
  <2>7. ASSUME NEW w \in Workers, HandleWorkerDone(w)
        PROVE  MasterTypeOK' /\ WorkerTypeOK' /\ ChannelTypeOK'
    <3> USE DEF HandleWorkerDone
    <3>1. MasterTypeOK'
      BY <2>7 DEF MasterTypeOK, AfterDone
    <3>2. doneCh' \in [Workers -> Nat]
      BY <2>7 DEF ChannelTypeOK
    <3>3. UNCHANGED <<wvars, assignCh, coinCh, requestCh, statsCh, stopCh, found>>
      BY <2>7
    <3> QED
      BY <3>1, <3>2, <3>3 DEF WorkerTypeOK, ChannelTypeOK, wvars
  <2>8. CASE EndOfIteration
    <3> USE DEF EndOfIteration
    <3>1. MasterTypeOK'
      BY <2>8 DEF MasterTypeOK
    <3>2. stopCh' \in [Workers -> Nat]
      <4>1. stopCh \in [Workers -> Nat]
        BY DEF ChannelTypeOK
      <4>2. stopCh' = [v \in Workers |-> stopCh[v] + 1] \/ stopCh' = stopCh
        BY <2>8
      <4> QED
        BY <4>1, <4>2
    <3>3. UNCHANGED <<wvars, assignCh, coinCh, requestCh, statsCh, doneCh, found>>
      BY <2>8
    <3> QED
      BY <3>1, <3>2, <3>3 DEF WorkerTypeOK, ChannelTypeOK, wvars
  <2>9. ASSUME NEW w \in Workers, ReceiveInitialWork(w) \/ ReceiveAnswer(w)
        PROVE  MasterTypeOK' /\ WorkerTypeOK' /\ ChannelTypeOK'
    <3> USE DEF ReceiveInitialWork, ReceiveAnswer
    <3>0. /\ assignCh[w] # <<>> /\ assignCh \in [Workers -> Seq(WorkRange)]
          /\ assignCh' = [assignCh EXCEPT ![w] = Tail(@)]
      BY <2>9 DEF ChannelTypeOK
    <3>1. /\ Head(assignCh[w]) \in WorkRange
          /\ assignCh' \in [Workers -> Seq(WorkRange)]
      BY <3>0, ReceiveTypes
    <3>2. Head(assignCh[w]).start \in Nat
      BY <3>1 DEF WorkRange
    <3>3. WorkerTypeOK'
      <4>1. /\ wpc' \in [Workers -> {"recv", "loop", "tick", "report", "wait",
                                     "final", "done", "exited"}]
            /\ hashed' \in [Workers -> Nat]
        BY <2>9 DEF WorkerTypeOK, Goto
      <4>3. work \in [Workers -> WorkRange] /\ counter \in [Workers -> Nat]
        BY DEF WorkerTypeOK
      <4>4. work' = [work EXCEPT ![w] = Head(assignCh[w])]
        BY <2>9
      <4>5. \/ counter' = counter
            \/ counter' = [counter EXCEPT ![w] = Head(assignCh[w]).start]
        BY <2>9
      <4>6. work' \in [Workers -> WorkRange] /\ counter' \in [Workers -> Nat]
        BY <3>1, <3>2, <4>3, <4>4, <4>5
      <4>2. worker_stop_signal' \in [Workers -> BOOLEAN]
        BY <2>9, FlagTypes, Zenon DEF WorkerTypeOK, RaiseFlag
      <4> QED
        BY <4>1, <4>2, <4>6, Zenon DEF WorkerTypeOK
    <3>4. UNCHANGED <<mvars, coinCh, requestCh, statsCh, stopCh, doneCh, found>>
      BY <2>9
    <3> QED
      BY <3>1, <3>3, <3>4 DEF MasterTypeOK, ChannelTypeOK, mvars
  <2>10. ASSUME NEW w \in Workers, MineBatch(w)
         PROVE  MasterTypeOK' /\ WorkerTypeOK' /\ ChannelTypeOK'
    <3> USE DEF MineBatch
    <3>1. WorkerTypeOK'
      BY <2>10 DEF WorkerTypeOK, Goto
    <3>2. counter[w] \in Nat
      BY DEF WorkerTypeOK
    <3>3. coinCh' \in [Workers -> Seq(Nat)] /\ found' \subseteq Nat
      <4>1. coinCh \in [Workers -> Seq(Nat)] /\ found \subseteq Nat
        BY DEF ChannelTypeOK
      <4>2. CASE counter[w] \in Golden
        <5>1. coinCh' = [coinCh EXCEPT ![w] = Append(@, counter[w])]
          BY <2>10, <4>2
        <5>2. found' = found \cup {counter[w]}
          BY <2>10, <4>2
        <5>3. coinCh' \in [Workers -> Seq(Nat)]
          BY <3>2, <4>1, <5>1, SendTypes
        <5> QED
          BY <3>2, <4>1, <5>2, <5>3
      <4>3. CASE counter[w] \notin Golden
        BY <2>10, <4>1, <4>3
      <4> QED
        BY <4>2, <4>3
    <3>4. UNCHANGED <<mvars, assignCh, requestCh, statsCh, stopCh, doneCh>>
      BY <2>10
    <3> QED
      BY <3>1, <3>3, <3>4 DEF MasterTypeOK, ChannelTypeOK, mvars
  <2>11. ASSUME NEW w \in Workers, CheckStopInRange(w) \/ EndOfRange(w)
         PROVE  MasterTypeOK' /\ WorkerTypeOK' /\ ChannelTypeOK'
    <3> USE DEF CheckStopInRange, EndOfRange
    <3>1. WorkerTypeOK'
      BY <2>11 DEF WorkerTypeOK, Goto, RaiseFlag
    <3>2. stopCh' \in [Workers -> Nat] /\ requestCh' \in [Workers -> Nat]
      <4>1. stopCh \in [Workers -> Nat] /\ requestCh \in [Workers -> Nat]
        BY DEF ChannelTypeOK
      <4>2. \/ stopCh' = stopCh
            \/ stopCh[w] > 0 /\ stopCh' = [stopCh EXCEPT ![w] = @ - 1]
        BY <2>11 DEF StopArrived
      <4>3. requestCh' = requestCh \/ requestCh' = [requestCh EXCEPT ![w] = @ + 1]
        BY <2>11
      <4> QED
        BY <4>1, <4>2, <4>3
    <3>3. UNCHANGED <<mvars, assignCh, coinCh, statsCh, doneCh, found>>
      BY <2>11
    <3> QED
      BY <3>1, <3>2, <3>3 DEF MasterTypeOK, ChannelTypeOK, mvars
  <2>12. ASSUME NEW w \in Workers, ReportInRange(w) \/ SendFinalStats(w)
         PROVE  MasterTypeOK' /\ WorkerTypeOK' /\ ChannelTypeOK'
    <3> USE DEF ReportInRange, SendFinalStats
    <3>1. WorkerTypeOK'
      BY <2>12 DEF WorkerTypeOK, Goto
    <3>2. hashed[w] \in Nat
      BY DEF WorkerTypeOK
    <3>3. statsCh' \in [Workers -> Seq(Nat)]
      <4>1. statsCh \in [Workers -> Seq(Nat)]
        BY DEF ChannelTypeOK
      <4>2. \/ statsCh' = statsCh
            \/ statsCh' = [statsCh EXCEPT ![w] = Append(@, hashed[w])]
        BY <2>12 DEF SendStats, HashesReported
      <4> QED
        <5>1. [statsCh EXCEPT ![w] = Append(@, hashed[w])] \in [Workers -> Seq(Nat)]
          BY <3>2, <4>1, SendTypes
        <5> QED
          BY <4>1, <4>2, <5>1
    <3>4. UNCHANGED <<mvars, assignCh, coinCh, requestCh, stopCh, doneCh, found>>
      BY <2>12
    <3> QED
      BY <3>1, <3>3, <3>4 DEF MasterTypeOK, ChannelTypeOK, mvars
  <2>13. ASSUME NEW w \in Workers, LeaveLoop(w) \/ SendDone(w)
         PROVE  MasterTypeOK' /\ WorkerTypeOK' /\ ChannelTypeOK'
    <3> USE DEF LeaveLoop, SendDone
    <3>1. WorkerTypeOK'
      BY <2>13 DEF WorkerTypeOK, Goto
    <3>2. UNCHANGED doneCh \/ doneCh' = [doneCh EXCEPT ![w] = @ + 1]
      BY <2>13 DEF chans
    <3>3. UNCHANGED <<mvars, assignCh, coinCh, requestCh, statsCh, stopCh, found>>
      BY <2>13 DEF chans
    <3>4. doneCh' \in [Workers -> Nat]
      <4>1. doneCh \in [Workers -> Nat]
        BY DEF ChannelTypeOK
      <4> QED
        BY <3>2, <4>1
    <3> QED
      BY <3>1, <3>3, <3>4 DEF MasterTypeOK, ChannelTypeOK, mvars
  <2>14. CASE UNCHANGED vars
    BY <2>14 DEF vars, mvars, wvars, chans, MasterTypeOK, WorkerTypeOK,
                 ChannelTypeOK
  <2> QED
    BY <2>1, <2>2, <2>3, <2>4, <2>5, <2>6, <2>7, <2>8, <2>9, <2>10, <2>11,
       <2>12, <2>13, <2>14
       DEF Next, Master, Worker, AnySource
<1> QED
  BY <1>1, <1>2, PTL DEF Spec

-----------------------------------------------------------------------------
(* Requests and answers.  Until the first ranges are sent nothing moves.   *)

BeforeStart ==
    mpc = "distribute" =>
        /\ next_counter = 0
        /\ \A w \in Workers : wpc[w] = "recv" /\ assignCh[w] = <<>> /\ requestCh[w] = 0

AnswersInv == BeforeStart /\ OneAnswerPerRequest

(* The rank whose channels a step does not touch keeps its sum, unless     *)
(* the master sends the first ranges.                                      *)
LEMMA AnswersKept ==
    ASSUME AnswersInv, UNCHANGED <<wpc, assignCh, requestCh, next_counter>>,
           mpc' = mpc \/ (mpc # "distribute" /\ mpc' # "distribute")
    PROVE  AnswersInv'
  BY DEF AnswersInv, BeforeStart, OneAnswerPerRequest

(* The same when one worker w moves and its own sum comes out right.       *)
LEMMA AnswersMoved ==
    ASSUME AnswersInv, TypeOK, NEW w \in Workers, mpc # "distribute",
           mpc' # "distribute",
           \A v \in Workers \ {w} :
              wpc'[v] = wpc[v] /\ assignCh'[v] = assignCh[v] /\ requestCh'[v] = requestCh[v],
           requestCh'[w] + Len(assignCh'[w]) =
              IF wpc'[w] \in {"wait", "recv"} THEN 1 ELSE 0
    PROVE  AnswersInv'
  BY DEF AnswersInv, BeforeStart, OneAnswerPerRequest

LEMMA Lengths ==
    ASSUME NEW S, NEW s \in Seq(S)
    PROVE  /\ Len(s) \in Nat
           /\ s # <<>> <=> Len(s) > 0
           /\ s # <<>> => Len(Tail(s)) = Len(s) - 1
           /\ \A m \in S : Len(Append(s, m)) = Len(s) + 1
  OBVIOUS

(* A worker that waits has exactly one request or answer under way.        *)
THEOREM AnswersCorrect == Spec => []AnswersInv
<1>1. Init => AnswersInv
  BY DEF Init, AnswersInv, BeforeStart, OneAnswerPerRequest
<1>2. TypeOK /\ AnswersInv /\ [Next]_vars => AnswersInv'
  <2> SUFFICES ASSUME TypeOK, AnswersInv, [Next]_vars
               PROVE  AnswersInv'
    OBVIOUS
  <2>a. /\ wpc \in [Workers -> {"recv", "loop", "tick", "report", "wait",
                                "final", "done", "exited"}]
        /\ assignCh \in [Workers -> Seq(WorkRange)]
        /\ requestCh \in [Workers -> Nat]
    BY DEF TypeOK, WorkerTypeOK, ChannelTypeOK
  <2>b. \A w \in Workers : /\ mpc = "distribute" => wpc[w] = "recv" /\ assignCh[w] = <<>>
                           /\ requestCh[w] + Len(assignCh[w]) =
                                IF \/ wpc[w] = "wait"
                                   \/ wpc[w] = "recv" /\ mpc # "distribute"
                                THEN 1 ELSE 0
    BY DEF AnswersInv, BeforeStart, OneAnswerPerRequest
  <2>c. \A w \in Workers : /\ Len(assignCh[w]) \in Nat
                           /\ assignCh[w] # <<>> => /\ Len(assignCh[w]) > 0
                                                    /\ Len(Tail(assignCh[w])) = Len(assignCh[w]) - 1
                           /\ \A r \in WorkRange : Len(Append(assignCh[w], r)) = Len(assignCh[w]) + 1
    BY <2>a, Lengths
  <2>1. CASE Interrupt \/ TimePasses
    BY <2>1, AnswersKept DEF Interrupt, TimePasses, wvars, chans
  <2>2. CASE DistributeInitialWork
    <3>1. /\ mpc' = "coins" /\ wpc' = wpc /\ requestCh' = requestCh
          /\ mpc = "distribute"
          /\ \A w \in Workers : assignCh'[w] = Append(assignCh[w], RangeAt((w - 1) * WORK_CHUNK_SIZE))
      BY <2>2 DEF DistributeInitialWork, wvars
    <3>2. \A w \in Workers : RangeAt((w - 1) * WORK_CHUNK_SIZE) \in WorkRange
      BY RangeTypes, ChunkAssumption DEF Workers
    <3>3. \A w \in Workers : wpc'[w] = "recv" /\ requestCh'[w] + Len(assignCh'[w]) = 1
      BY <2>a, <2>b, <2>c, <3>1, <3>2
    <3> QED
      BY <3>1, <3>3 DEF AnswersInv, BeforeStart, OneAnswerPerRequest
  <2>3. CASE \/ CoinsDrained \/ RequestsDrained \/ StatsDrained \/ DonesDrained
             \/ EndOfIteration
    <3>1. UNCHANGED <<wpc, assignCh, requestCh, next_counter>>
      BY <2>3 DEF CoinsDrained, RequestsDrained, StatsDrained, DonesDrained,
                  PollEnds, EndOfIteration, wvars, chans
    <3>2. mpc # "distribute" /\ mpc' # "distribute"
      BY <2>3 DEF CoinsDrained, RequestsDrained, StatsDrained, DonesDrained,
                  PollEnds, EndOfIteration
    <3> QED
      BY <3>1, <3>2, AnswersKept
  <2>4. ASSUME NEW w \in Workers,
               HandleCoinFound(w) \/ VaultFails(w) \/ HandleStatsUpdate(w) \/ HandleWorkerDone(w)
        PROVE  AnswersInv'
    <3>1. UNCHANGED <<wpc, assignCh, requestCh, next_counter>>
      BY <2>4 DEF HandleCoinFound, VaultFails, HandleStatsUpdate,
                  HandleWorkerDone, wvars
    <3>2. mpc # "distribute" /\ mpc' # "distribute"
      BY <2>4 DEF HandleCoinFound, VaultFails, HandleStatsUpdate, HandleWorkerDone
    <3> QED
      BY <3>1, <3>2, AnswersKept
  <2>5. ASSUME NEW w \in Workers, HandleWorkRequest(w)
        PROVE  AnswersInv'
    <3>1. PICK r \in WorkRange : assignCh' = [assignCh EXCEPT ![w] = Append(@, r)]
      BY <2>5, RangeTypes DEF HandleWorkRequest, Reply, TypeOK, MasterTypeOK
    <3>2. /\ mpc = "requests" /\ mpc' = mpc /\ wpc' = wpc /\ requestCh[w] > 0
          /\ requestCh' = [requestCh EXCEPT ![w] = @ - 1]
      BY <2>5 DEF HandleWorkRequest, wvars
    <3>3. requestCh'[w] + Len(assignCh'[w]) = requestCh[w] + Len(assignCh[w])
      BY <2>a, <2>c, <3>1, <3>2
    <3>4. requestCh'[w] + Len(assignCh'[w]) = IF wpc'[w] \in {"wait", "recv"} THEN 1 ELSE 0
      BY <2>b, <3>2, <3>3
    <3>5. \A v \in Workers \ {w} :
            wpc'[v] = wpc[v] /\ assignCh'[v] = assignCh[v] /\ requestCh'[v] = requestCh[v]
      BY <2>a, <3>1, <3>2
    <3> QED
      BY <3>2, <3>4, <3>5, AnswersMoved
  <2>6. ASSUME NEW w \in Workers, ReceiveInitialWork(w) \/ ReceiveAnswer(w)
        PROVE  AnswersInv'
    <3>1. /\ wpc[w] \in {"recv", "wait"} /\ assignCh[w] # <<>>
          /\ assignCh' = [assignCh EXCEPT ![w] = Tail(@)]
          /\ \E p \in {"loop", "final"} : wpc' = [wpc EXCEPT ![w] = p]
          /\ mpc' = mpc /\ requestCh' = requestCh
      BY <2>6 DEF ReceiveInitialWork, ReceiveAnswer, Goto, mvars
    <3>2. mpc # "distribute"
      BY <2>b, <3>1
    <3>3. requestCh'[w] + Len(assignCh'[w]) = 0
      BY <2>a, <2>b, <2>c, <3>1, <3>2
    <3>4. wpc'[w] \notin {"wait", "recv"}
      BY <2>a, <3>1
    <3>5. \A v \in Workers \ {w} :
            wpc'[v] = wpc[v] /\ assignCh'[v] = assignCh[v] /\ requestCh'[v] = requestCh[v]
      BY <2>a, <3>1
    <3> QED
      BY <3>1, <3>2, <3>3, <3>4, <3>5, AnswersMoved
  <2>7. ASSUME NEW w \in Workers,
               \/ MineBatch(w) \/ CheckStopInRange(w) \/ ReportInRange(w)
               \/ LeaveLoop(w) \/ SendFinalStats(w) \/ SendDone(w)
        PROVE  AnswersInv'
    <3>1. /\ wpc[w] \notin {"recv", "wait"}
          /\ \E p \in {"loop", "tick", "report", "final", "done", "exited"} :
                wpc' = [wpc EXCEPT ![w] = p]
          /\ mpc' = mpc /\ requestCh' = requestCh /\ assignCh' = assignCh
      BY <2>7 DEF MineBatch, CheckStopInRange, ReportInRange, LeaveLoop,
                  SendFinalStats, SendDone, Goto, mvars, chans
    <3>2. mpc # "distribute"
      BY <2>b, <3>1
    <3>3. requestCh'[w] + Len(assignCh'[w]) = 0 /\ wpc'[w] \notin {"wait", "recv"}
      BY <2>a, <2>b, <3>1
    <3>5. \A v \in Workers \ {w} :
            wpc'[v] = wpc[v] /\ assignCh'[v] = assignCh[v] /\ requestCh'[v] = requestCh[v]
      BY <2>a, <3>1
    <3> QED
      BY <3>1, <3>2, <3>3, <3>5, AnswersMoved
  <2>8. ASSUME NEW w \in Workers, EndOfRange(w)
        PROVE  AnswersInv'
    <3>1. /\ wpc[w] = "loop" /\ mpc' = mpc /\ assignCh' = assignCh
          /\ \/ requestCh' = requestCh /\ wpc' = [wpc EXCEPT ![w] = "final"]
             \/ /\ requestCh' = [requestCh EXCEPT ![w] = @ + 1]
                /\ wpc' = [wpc EXCEPT ![w] = "wait"]
      BY <2>8 DEF EndOfRange, Goto, mvars
    <3>2. mpc # "distribute"
      BY <2>b, <3>1
    <3>3. requestCh'[w] + Len(assignCh'[w]) =
            IF wpc'[w] \in {"wait", "recv"} THEN 1 ELSE 0
      BY <2>a, <2>b, <2>c, <3>1
    <3>5. \A v \in Workers \ {w} :
            wpc'[v] = wpc[v] /\ assignCh'[v] = assignCh[v] /\ requestCh'[v] = requestCh[v]
      BY <2>a, <3>1
    <3> QED
      BY <3>1, <3>2, <3>3, <3>5, AnswersMoved
  <2>9. CASE UNCHANGED vars
    BY <2>9, AnswersKept DEF vars, mvars, wvars, chans
  <2> QED
    BY <2>1, <2>2, <2>3, <2>4, <2>5, <2>6, <2>7, <2>8, <2>9
       DEF Next, Master, Worker, AnySource
<1> QED
  BY <1>1, <1>2, TypeCorrect, PTL DEF Spec

(* While a worker waits there is one request or one answer under way, and  *)
(* none while it mines: no answer is taken for that of a later request     *)
(* (request_more_work, handle_work_request).                               *)
THEOREM AnswersMatch == Spec => []OneAnswerPerRequest
<1>1. AnswersInv => OneAnswerPerRequest
  BY DEF AnswersInv
<1> QED
  BY <1>1, AnswersCorrect, PTL

-----------------------------------------------------------------------------
(* STOP.  Everything that can end a worker's loop comes from a master that *)
(* has decided to stop, and the STOP message is there exactly once.        *)

StopSeen ==
    /\ shutdown_sent => master_stop_signal
    /\ \A w \in Workers :
          /\ stopCh[w] \in {0, 1}
          /\ stopCh[w] = 1 => shutdown_sent
          /\ worker_stop_signal[w] => master_stop_signal
          /\ \A i \in DOMAIN assignCh[w] :
                assignCh[w][i] = StopReply => master_stop_signal

StopInv == StopSeen /\ LeaveOnlyOnStop /\ StopNeverLost

(* A range that is given out is not the answer (0,0).                      *)
LEMMA RangeIsNoStop == \A c \in Nat : RangeAt(c) # StopReply
  BY ChunkAssumption DEF RangeAt, StopReply

(* What is under way after a send, and after a receive.                    *)
LEMMA AppendElements ==
    ASSUME NEW S, NEW s \in Seq(S), NEW m \in S, NEW i \in DOMAIN Append(s, m)
    PROVE  \/ i \in DOMAIN s /\ Append(s, m)[i] = s[i]
           \/ i = Len(s) + 1 /\ Append(s, m)[i] = m
  OBVIOUS

LEMMA TailElements ==
    ASSUME NEW S, NEW s \in Seq(S), s # <<>>, NEW i \in DOMAIN Tail(s)
    PROVE  i + 1 \in DOMAIN s /\ Tail(s)[i] = s[i + 1]
  OBVIOUS

LEMMA HeadElement ==
    ASSUME NEW S, NEW s \in Seq(S), s # <<>>
    PROVE  1 \in DOMAIN s /\ Head(s) = s[1]
  OBVIOUS

Mining == {"recv", "loop", "tick", "report", "wait"}

(* The invariant of one worker.                                            *)
StopInvOf(w) ==
    /\ stopCh[w] \in {0, 1}
    /\ stopCh[w] = 1 => shutdown_sent
    /\ worker_stop_signal[w] => master_stop_signal
    /\ \A i \in DOMAIN assignCh[w] : assignCh[w][i] = StopReply => master_stop_signal
    /\ wpc[w] \in {"final", "done", "exited"} => master_stop_signal
    /\ shutdown_sent /\ wpc[w] \in Mining => stopCh[w] = 1 \/ worker_stop_signal[w]

LEMMA StopInvByWorker ==
    /\ StopInv <=> (shutdown_sent => master_stop_signal) /\ \A w \in Workers : StopInvOf(w)
    /\ StopInv' <=> /\ shutdown_sent' => master_stop_signal'
                    /\ \A w \in Workers : StopInvOf(w)'
  BY DEF StopInv, StopSeen, LeaveOnlyOnStop, StopNeverLost, StopInvOf, Mining

(* A step of worker w, or of the master towards w, that keeps the          *)
(* invariant of w keeps it of all.                                         *)
LEMMA StopMoved ==
    ASSUME StopInv, NEW w \in Workers,
           UNCHANGED <<shutdown_sent, master_stop_signal>>,
           \A v \in Workers \ {w} :
              /\ stopCh'[v] = stopCh[v] /\ assignCh'[v] = assignCh[v]
              /\ worker_stop_signal'[v] = worker_stop_signal[v] /\ wpc'[v] = wpc[v],
           StopInvOf(w)'
    PROVE  StopInv'
<1>1. \A v \in Workers : StopInvOf(v)
  BY StopInvByWorker
<1>2. ASSUME NEW v \in Workers, v # w
      PROVE  StopInvOf(v)'
  <2>1. StopInvOf(v)
    BY <1>1
  <2>2. /\ stopCh'[v] = stopCh[v] /\ assignCh'[v] = assignCh[v]
        /\ worker_stop_signal'[v] = worker_stop_signal[v] /\ wpc'[v] = wpc[v]
    BY <1>2
  <2> QED
    BY <2>1, <2>2 DEF StopInvOf
<1>3. shutdown_sent => master_stop_signal
  BY StopInvByWorker
<1> QED
  BY <1>2, <1>3, StopInvByWorker

(* No worker stops before the master has decided to, and no STOP is lost   *)
(* (check_stop_signal, handle_work_request, broadcast_stop_signal).        *)
THEOREM StopCorrect == Spec => []StopInv
<1>1. Init => StopInv
  BY DEF Init, StopInv, StopSeen, LeaveOnlyOnStop, StopNeverLost
<1>2. TypeOK /\ StopInv /\ [Next]_vars => StopInv'
  <2> SUFFICES ASSUME TypeOK, StopInv, [Next]_vars
               PROVE  StopInv'
    OBVIOUS
  <2>a. /\ wpc \in [Workers -> {"recv", "loop", "tick", "report", "wait",
                                "final", "done", "exited"}]
        /\ assignCh \in [Workers -> Seq(WorkRange)]
        /\ stopCh \in [Workers -> Nat]
        /\ worker_stop_signal \in [Workers -> BOOLEAN]
        /\ next_counter \in Nat
    BY DEF TypeOK, MasterTypeOK, WorkerTypeOK, ChannelTypeOK
  <2>b. /\ shutdown_sent => master_stop_signal
        /\ \A w \in Workers : StopInvOf(w)
    BY StopInvByWorker
  <2>1. ASSUME UNCHANGED <<wpc, stopCh, assignCh, worker_stop_signal, shutdown_sent>>,
               master_stop_signal => master_stop_signal'
        PROVE  StopInv'
    BY <2>b, <2>1, StopInvByWorker DEF StopInvOf
  <2>2. CASE Interrupt \/ TimePasses
    <3>1. UNCHANGED <<wpc, stopCh, assignCh, worker_stop_signal, shutdown_sent>>
      BY <2>2 DEF Interrupt, TimePasses, wvars, chans
    <3>2. master_stop_signal => master_stop_signal'
      BY <2>2, Zenon DEF Interrupt, TimePasses
    <3> QED
      BY <3>1, <3>2, <2>1
  <2>3. CASE DistributeInitialWork
    <3>1. /\ UNCHANGED <<wpc, stopCh, worker_stop_signal, shutdown_sent, master_stop_signal>>
          /\ \A w \in Workers : assignCh'[w] = Append(assignCh[w], RangeAt((w - 1) * WORK_CHUNK_SIZE))
      BY <2>3 DEF DistributeInitialWork, wvars
    <3>2. \A w \in Workers : /\ (w - 1) * WORK_CHUNK_SIZE \in Nat
                             /\ RangeAt((w - 1) * WORK_CHUNK_SIZE) \in WorkRange
      BY RangeTypes, ChunkAssumption DEF Workers
    <3>3. ASSUME NEW w \in Workers, NEW i \in DOMAIN assignCh'[w], assignCh'[w][i] = StopReply
          PROVE  master_stop_signal
      <4> DEFINE r == RangeAt((w - 1) * WORK_CHUNK_SIZE)
      <4>1. r \in WorkRange /\ r # StopReply /\ assignCh'[w] = Append(assignCh[w], r)
        BY <3>1, <3>2, RangeIsNoStop
      <4>2. assignCh[w] \in Seq(WorkRange)
        BY <2>a
      <4> HIDE DEF r
      <4>3. i \in DOMAIN assignCh[w] /\ assignCh[w][i] = StopReply
        BY <3>3, <4>1, <4>2, AppendElements
      <4> QED
        BY <4>3, <2>b DEF StopInvOf
    <3>4. \A w \in Workers : StopInvOf(w)'
      BY <2>b, <3>1, <3>3 DEF StopInvOf
    <3> QED
      BY <2>b, <3>1, <3>4, StopInvByWorker
  <2>4. CASE CoinsDrained \/ RequestsDrained \/ StatsDrained \/ DonesDrained
    <3>1. UNCHANGED <<wpc, stopCh, assignCh, worker_stop_signal, shutdown_sent, master_stop_signal>>
      BY <2>4 DEF CoinsDrained, RequestsDrained, StatsDrained, DonesDrained,
                  PollEnds, wvars, chans
    <3> QED
      BY <3>1, <2>1
  <2>5. ASSUME NEW w \in Workers,
               HandleCoinFound(w) \/ VaultFails(w) \/ HandleStatsUpdate(w) \/ HandleWorkerDone(w)
        PROVE  StopInv'
    <3>1. UNCHANGED <<wpc, stopCh, assignCh, worker_stop_signal, shutdown_sent, master_stop_signal>>
      BY <2>5 DEF HandleCoinFound, VaultFails, HandleStatsUpdate,
                  HandleWorkerDone, wvars
    <3> QED
      BY <3>1, <2>1
  <2>6. ASSUME NEW w \in Workers, HandleWorkRequest(w)
        PROVE  StopInv'
    <3>1. UNCHANGED <<wpc, stopCh, worker_stop_signal, shutdown_sent, master_stop_signal>>
      BY <2>6 DEF HandleWorkRequest, wvars
    <3>2. PICK r \in WorkRange : /\ assignCh' = [assignCh EXCEPT ![w] = Append(@, r)]
                                 /\ r = StopReply => master_stop_signal
      BY <2>6, <2>a, RangeTypes, RangeIsNoStop DEF HandleWorkRequest, Reply
    <3>3. ASSUME NEW i \in DOMAIN assignCh'[w], assignCh'[w][i] = StopReply
          PROVE  master_stop_signal
      <4>1. assignCh[w] \in Seq(WorkRange) /\ assignCh'[w] = Append(assignCh[w], r)
        BY <2>a, <3>2
      <4>2. (i \in DOMAIN assignCh[w] /\ assignCh[w][i] = StopReply) \/ r = StopReply
        BY <3>3, <4>1, AppendElements
      <4> QED
        BY <3>2, <4>2, <2>b DEF StopInvOf
    <3>4. StopInvOf(w)'
      BY <2>b, <3>1, <3>3 DEF StopInvOf
    <3>5. \A v \in Workers \ {w} : assignCh'[v] = assignCh[v]
      BY <2>a, <3>2
    <3> QED
      BY <3>1, <3>4, <3>5, StopMoved
  <2>7. CASE EndOfIteration
    <3>1. /\ UNCHANGED <<wpc, assignCh, worker_stop_signal>>
          /\ master_stop_signal' = (master_stop_signal \/ timeUp)
      BY <2>7 DEF EndOfIteration, wvars
    <3>2. \/ shutdown_sent' = shutdown_sent /\ stopCh' = stopCh
          \/ /\ ~shutdown_sent /\ shutdown_sent' = TRUE /\ master_stop_signal' = TRUE
             /\ stopCh' = [v \in Workers |-> stopCh[v] + 1]
      BY <2>7, Zenon DEF EndOfIteration
    <3>3. CASE shutdown_sent' = shutdown_sent /\ stopCh' = stopCh
      BY <3>1, <3>3, <2>1
    <3>4. CASE /\ ~shutdown_sent /\ shutdown_sent' = TRUE /\ master_stop_signal' = TRUE
               /\ stopCh' = [v \in Workers |-> stopCh[v] + 1]
      <4>1. \A v \in Workers : stopCh'[v] = 1
        BY <2>a, <2>b, <3>4 DEF StopInvOf
      <4>2. \A v \in Workers : StopInvOf(v)'
        BY <3>1, <3>4, <4>1 DEF StopInvOf
      <4> QED
        BY <3>4, <4>2, StopInvByWorker
    <3> QED
      BY <3>2, <3>3, <3>4
  <2>8. ASSUME NEW w \in Workers, ReceiveInitialWork(w) \/ ReceiveAnswer(w)
        PROVE  StopInv'
    <3>1. /\ UNCHANGED <<stopCh, shutdown_sent, master_stop_signal>>
          /\ assignCh[w] # <<>> /\ assignCh' = [assignCh EXCEPT ![w] = Tail(@)]
          /\ wpc[w] \in Mining
          /\ \/ /\ wpc' = [wpc EXCEPT ![w] = "loop"]
                /\ worker_stop_signal' = worker_stop_signal
             \/ /\ wpc' = [wpc EXCEPT ![w] = "final"]
                /\ worker_stop_signal' = [worker_stop_signal EXCEPT ![w] = TRUE]
                /\ IsStopReply(Head(assignCh[w]))
      BY <2>8 DEF ReceiveInitialWork, ReceiveAnswer, RaiseFlag, Goto, mvars, Mining
    <3>2. assignCh[w] \in Seq(WorkRange)
      BY <2>a
    <3>3. \A i \in DOMAIN assignCh'[w] : assignCh'[w][i] = StopReply => master_stop_signal
      <4>1. assignCh'[w] = Tail(assignCh[w])
        BY <2>a, <3>1
      <4> QED
        BY <3>1, <3>2, <4>1, <2>b, TailElements DEF StopInvOf
    <3>4. IsStopReply(Head(assignCh[w])) => master_stop_signal
      <4>1. 1 \in DOMAIN assignCh[w] /\ Head(assignCh[w]) = assignCh[w][1] /\ assignCh[w][1] \in WorkRange
        BY <3>1, <3>2, HeadElement
      <4>2. IsStopReply(Head(assignCh[w])) => assignCh[w][1] = StopReply
        BY <4>1 DEF IsStopReply, StopReply, WorkRange
      <4> QED
        BY <4>1, <4>2, <2>b DEF StopInvOf
    <3>5. StopInvOf(w)'
      <4>1. CASE /\ wpc' = [wpc EXCEPT ![w] = "loop"]
                 /\ worker_stop_signal' = worker_stop_signal
        BY <2>a, <2>b, <3>1, <3>3, <4>1 DEF StopInvOf, Mining
      <4>2. CASE /\ wpc' = [wpc EXCEPT ![w] = "final"]
                 /\ worker_stop_signal' = [worker_stop_signal EXCEPT ![w] = TRUE]
                 /\ IsStopReply(Head(assignCh[w]))
        <5>1. wpc'[w] = "final" /\ master_stop_signal
          BY <2>a, <3>4, <4>2
        <5> QED
          BY <2>b, <3>1, <3>3, <5>1 DEF StopInvOf, Mining
      <4> QED
        BY <3>1, <4>1, <4>2
    <3>6. \A v \in Workers \ {w} :
             /\ stopCh'[v] = stopCh[v] /\ assignCh'[v] = assignCh[v]
             /\ worker_stop_signal'[v] = worker_stop_signal[v] /\ wpc'[v] = wpc[v]
      BY <2>a, <3>1
    <3> QED
      BY <3>1, <3>5, <3>6, StopMoved
  <2>9. ASSUME NEW w \in Workers, CheckStopInRange(w) \/ EndOfRange(w)
        PROVE  StopInv'
    <3>1. /\ UNCHANGED <<assignCh, shutdown_sent, master_stop_signal>>
          /\ wpc[w] \in Mining
      BY <2>9 DEF CheckStopInRange, EndOfRange, mvars, Mining
    <3>2. \/ /\ stopCh[w] > 0 /\ stopCh' = [stopCh EXCEPT ![w] = @ - 1]
             /\ worker_stop_signal' = [worker_stop_signal EXCEPT ![w] = TRUE]
             /\ \E p \in Mining \cup {"final"} : wpc' = [wpc EXCEPT ![w] = p]
          \/ /\ UNCHANGED <<stopCh, worker_stop_signal>>
             /\ \E p \in Mining : wpc' = [wpc EXCEPT ![w] = p]
      BY <2>9 DEF CheckStopInRange, EndOfRange, StopArrived, RaiseFlag, Goto, Mining
    <3>3. StopInvOf(w)
      BY <2>b
    <3>4. StopInvOf(w)'
      <4>1. CASE /\ stopCh[w] > 0 /\ stopCh' = [stopCh EXCEPT ![w] = @ - 1]
                 /\ worker_stop_signal' = [worker_stop_signal EXCEPT ![w] = TRUE]
                 /\ \E p \in Mining \cup {"final"} : wpc' = [wpc EXCEPT ![w] = p]
        <5>1. stopCh[w] = 1 /\ shutdown_sent /\ master_stop_signal
          BY <3>3, <4>1, <2>b DEF StopInvOf
        <5>2. stopCh'[w] = 0 /\ worker_stop_signal'[w] = TRUE
          BY <2>a, <4>1, <5>1
        <5> QED
          BY <3>1, <3>3, <5>1, <5>2 DEF StopInvOf
      <4>2. CASE /\ UNCHANGED <<stopCh, worker_stop_signal>>
                 /\ \E p \in Mining : wpc' = [wpc EXCEPT ![w] = p]
        BY <2>a, <3>1, <3>3, <4>2 DEF StopInvOf, Mining
      <4> QED
        BY <3>2, <4>1, <4>2
    <3>5. \A v \in Workers \ {w} :
             /\ stopCh'[v] = stopCh[v] /\ assignCh'[v] = assignCh[v]
             /\ worker_stop_signal'[v] = worker_stop_signal[v] /\ wpc'[v] = wpc[v]
      BY <2>a, <3>1, <3>2
    <3> QED
      BY <3>1, <3>4, <3>5, StopMoved
  <2>10. ASSUME NEW w \in Workers,
                \/ MineBatch(w) \/ ReportInRange(w) \/ LeaveLoop(w)
                \/ SendFinalStats(w) \/ SendDone(w)
         PROVE  StopInv'
    <3>1. /\ UNCHANGED <<assignCh, stopCh, worker_stop_signal, shutdown_sent, master_stop_signal>>
          /\ \/ wpc[w] \in Mining /\ \E p \in Mining : wpc' = [wpc EXCEPT ![w] = p]
             \/ /\ \/ wpc[w] \in {"final", "done", "exited"}
                   \/ worker_stop_signal[w]
                /\ \E p \in {"final", "done", "exited"} : wpc' = [wpc EXCEPT ![w] = p]
      BY <2>10 DEF MineBatch, ReportInRange, LeaveLoop, SendFinalStats, SendDone,
                   Goto, mvars, chans, Mining
    <3>2. StopInvOf(w)
      BY <2>b
    <3>3. StopInvOf(w)'
      BY <2>a, <3>1, <3>2 DEF StopInvOf, Mining
    <3>4. \A v \in Workers \ {w} :
             /\ stopCh'[v] = stopCh[v] /\ assignCh'[v] = assignCh[v]
             /\ worker_stop_signal'[v] = worker_stop_signal[v] /\ wpc'[v] = wpc[v]
      BY <2>a, <3>1
    <3> QED
      BY <3>1, <3>3, <3>4, StopMoved
  <2>11. CASE UNCHANGED vars
    BY <2>1, <2>11 DEF vars, mvars, wvars, chans
  <2> QED
    BY <2>2, <2>3, <2>4, <2>5, <2>6, <2>7, <2>8, <2>9, <2>10, <2>11
       DEF Next, Master, Worker, AnySource
<1> QED
  BY <1>1, <1>2, TypeCorrect, PTL DEF Spec

(* A worker leaves its mining loop only after the master decided to stop.  *)
THEOREM LeavesWhenTold == Spec => []LeaveOnlyOnStop
<1>1. StopInv => LeaveOnlyOnStop
  BY DEF StopInv
<1> QED
  BY <1>1, StopCorrect, PTL

(* A STOP that has been sent stays with its worker until the flag is up.   *)
THEOREM StopArrives == Spec => []StopNeverLost
<1>1. StopInv => StopNeverLost
  BY DEF StopInv
<1> QED
  BY <1>1, StopCorrect, PTL

-----------------------------------------------------------------------------
(* Ranges.  Nothing at or above next_counter has been given out, so a      *)
(* range cut off there is apart from all the others.                       *)

RangesBelow ==
    /\ mpc = "distribute" => \A w \in Workers : work[w].end = 0
    /\ \A w \in Workers :
          /\ work[w].end <= next_counter
          /\ \A i \in DOMAIN assignCh[w] : assignCh[w][i].end <= next_counter

RangesInv == RangesBelow /\ RangesDisjoint

LEMMA ApartSymmetric == \A r, s : Apart(r, s) <=> Apart(s, r)
  BY DEF Apart

(* A fresh range and the answer (0,0) are apart from what was given out.   *)
LEMMA FreshIsApart ==
    ASSUME NEW c \in Nat, NEW r \in WorkRange, r.end <= c
    PROVE  Apart(RangeAt(c), r) /\ Apart(StopReply, r) /\ Apart(r, RangeAt(c)) /\ Apart(r, StopReply)
  BY ChunkAssumption DEF Apart, RangeAt, StopReply, WorkRange

LEMMA TimesMonotone ==
    ASSUME NEW a \in Nat, NEW b \in Nat, NEW c \in Nat, a <= b
    PROVE  a * c <= b * c
<1>1. PICK d \in Nat : b = a + d
  BY b - a \in Nat
<1>2. b * c = a * c + d * c /\ d * c \in Nat /\ a * c \in Nat
  BY <1>1
<1> QED
  BY <1>2

(* The first ranges of two workers are apart, and end at the counter the   *)
(* master goes on from.                                                    *)
LEMMA FirstRanges ==
    ASSUME NEW w \in Workers
    PROVE  /\ RangeAt((w - 1) * WORK_CHUNK_SIZE).end <= NumWorkers * WORK_CHUNK_SIZE
           /\ \A v \in Workers :
                 w < v => Apart(RangeAt((w - 1) * WORK_CHUNK_SIZE),
                                RangeAt((v - 1) * WORK_CHUNK_SIZE))
<1>1. w \in Nat /\ w >= 1 /\ w <= NumWorkers /\ NumWorkers \in Nat /\ WORK_CHUNK_SIZE \in Nat
  BY NumWorkersAssumption, ChunkAssumption DEF Workers
<1>2. (w - 1) * WORK_CHUNK_SIZE + WORK_CHUNK_SIZE = w * WORK_CHUNK_SIZE
  BY <1>1
<1>3. w * WORK_CHUNK_SIZE <= NumWorkers * WORK_CHUNK_SIZE
  BY <1>1, TimesMonotone
<1>4. ASSUME NEW v \in Workers, w < v
      PROVE  w * WORK_CHUNK_SIZE <= (v - 1) * WORK_CHUNK_SIZE
  <2>1. v - 1 \in Nat /\ w <= v - 1
    BY <1>1, <1>4 DEF Workers
  <2> QED
    BY <1>1, <2>1, TimesMonotone
<1> QED
  BY <1>2, <1>3, <1>4 DEF Apart, RangeAt

LEMMA RangesKept ==
    ASSUME RangesInv, UNCHANGED <<work, assignCh, next_counter>>,
           mpc' = mpc \/ mpc' # "distribute"
    PROVE  RangesInv'
  BY DEF RangesInv, RangesBelow, RangesDisjoint

(* No batch is given out twice (distribute_initial_work,                   *)
(* handle_work_request).                                                   *)
THEOREM RangesCorrect == Spec => []RangesInv
<1>1. Init => RangesInv
  BY DEF Init, RangesInv, RangesBelow, RangesDisjoint, Apart, StopReply
<1>2. TypeOK /\ AnswersInv /\ RangesInv /\ [Next]_vars => RangesInv'
  <2> SUFFICES ASSUME TypeOK, AnswersInv, RangesInv, [Next]_vars
               PROVE  RangesInv'
    OBVIOUS
  <2>a. /\ assignCh \in [Workers -> Seq(WorkRange)]
        /\ work \in [Workers -> WorkRange]
        /\ requestCh \in [Workers -> Nat]
        /\ next_counter \in Nat
    BY DEF TypeOK, MasterTypeOK, WorkerTypeOK, ChannelTypeOK
  <2>b. \A w \in Workers : /\ assignCh[w] \in Seq(WorkRange) /\ Len(assignCh[w]) \in Nat
                           /\ DOMAIN assignCh[w] = 1..Len(assignCh[w])
                           /\ \A i \in DOMAIN assignCh[w] : assignCh[w][i] \in WorkRange
    BY <2>a
  <2>c. \A w \in Workers : /\ requestCh[w] + Len(assignCh[w]) <= 1
                           /\ mpc = "distribute" => /\ assignCh[w] = <<>> /\ wpc[w] = "recv"
                                                    /\ requestCh[w] = 0 /\ work[w].end = 0
    BY DEF AnswersInv, BeforeStart, OneAnswerPerRequest, RangesInv, RangesBelow
  <2>d. \A w, v \in Workers :
          /\ work[w].end <= next_counter
          /\ w # v => Apart(work[w], work[v])
          /\ \A i \in DOMAIN assignCh[w] : /\ assignCh[w][i].end <= next_counter
                                           /\ Apart(assignCh[w][i], work[v])
          /\ \A i \in DOMAIN assignCh[w], j \in DOMAIN assignCh[v] :
                <<w, i>> # <<v, j>> => Apart(assignCh[w][i], assignCh[v][j])
    BY DEF RangesInv, RangesBelow, RangesDisjoint
  <2>1. CASE \/ Interrupt \/ TimePasses
             \/ CoinsDrained \/ RequestsDrained \/ StatsDrained \/ DonesDrained
             \/ EndOfIteration
    <3>1. UNCHANGED <<work, assignCh, next_counter>> /\ (mpc' = mpc \/ mpc' # "distribute")
      BY <2>1 DEF Interrupt, TimePasses, CoinsDrained, RequestsDrained,
                  StatsDrained, DonesDrained, PollEnds, EndOfIteration, wvars, chans
    <3> QED
      BY <3>1, RangesKept
  <2>2. CASE DistributeInitialWork
    <3> DEFINE first(w) == RangeAt((w - 1) * WORK_CHUNK_SIZE)
    <3>1. /\ mpc = "distribute" /\ mpc' = "coins" /\ work' = work
          /\ next_counter' = NumWorkers * WORK_CHUNK_SIZE
          /\ \A w \in Workers : assignCh'[w] = Append(assignCh[w], first(w))
      BY <2>2 DEF DistributeInitialWork, wvars
    <3>2. \A w \in Workers : assignCh'[w] = <<first(w)>> /\ work'[w].end = 0
      BY <2>c, <3>1
    <3>3. \A w \in Workers : /\ DOMAIN assignCh'[w] = {1} /\ assignCh'[w][1] = first(w)
                             /\ first(w) \in WorkRange
      BY <3>2, RangeTypes, ChunkAssumption DEF Workers
    <3>4. \A w \in Workers : first(w).end <= next_counter' /\ 0 <= next_counter'
      BY <3>1, FirstRanges, NumWorkersAssumption, ChunkAssumption
    <3>5. \A w, v \in Workers : w # v => Apart(first(w), first(v))
      <4>1. \A w, v \in Workers : w # v => w < v \/ v < w
        BY DEF Workers
      <4> QED
        BY <4>1, FirstRanges, ApartSymmetric
    <3>6. \A w, v \in Workers : Apart(first(w), work'[v])
      BY <3>2, <3>3 DEF Apart, WorkRange
    <3>7. \A w, v \in Workers : Apart(work'[w], work'[v])
      BY <3>1, <3>2, <2>a DEF Apart, WorkRange
    <3> HIDE DEF first
    <3>8. RangesBelow'
      BY <3>1, <3>2, <3>3, <3>4 DEF RangesBelow
    <3>9. RangesDisjoint'
      BY <3>3, <3>5, <3>6, <3>7 DEF RangesDisjoint
    <3> QED
      BY <3>8, <3>9 DEF RangesInv
  <2>3. ASSUME NEW w \in Workers,
               HandleCoinFound(w) \/ VaultFails(w) \/ HandleStatsUpdate(w) \/ HandleWorkerDone(w)
        PROVE  RangesInv'
    <3>1. UNCHANGED <<work, assignCh, next_counter>> /\ mpc' # "distribute"
      BY <2>3 DEF HandleCoinFound, VaultFails, HandleStatsUpdate,
                  HandleWorkerDone, wvars
    <3> QED
      BY <3>1, RangesKept
  <2>4. ASSUME NEW w \in Workers, HandleWorkRequest(w)
        PROVE  RangesInv'
    <3>1. mpc' = "requests" /\ work' = work /\ requestCh[w] > 0
      BY <2>4 DEF HandleWorkRequest, wvars
    <3>2. \E r \in {StopReply, RangeAt(next_counter)} :
             /\ assignCh' = [assignCh EXCEPT ![w] = Append(@, r)]
             /\ r.end <= next_counter' /\ next_counter <= next_counter'
             /\ next_counter' \in Nat
      BY <2>4, <2>a, ChunkAssumption
         DEF HandleWorkRequest, Reply, StopReply, RangeAt, Advance
    <3>3. PICK r \in {StopReply, RangeAt(next_counter)} :
             /\ assignCh' = [assignCh EXCEPT ![w] = Append(@, r)]
             /\ r.end <= next_counter' /\ next_counter <= next_counter'
             /\ next_counter' \in Nat
      BY <3>2
    <3>4. r \in WorkRange /\ assignCh[w] = <<>>
      BY <2>a, <2>b, <2>c, <3>1, RangeTypes
    <3>5. /\ assignCh'[w] = <<r>>
          /\ \A v \in Workers \ {w} : assignCh'[v] = assignCh[v]
      BY <2>a, <3>3, <3>4
    <3>6. DOMAIN assignCh'[w] = {1} /\ assignCh'[w][1] = r
      BY <3>5
    <3>7. \A s \in WorkRange : s.end <= next_counter => Apart(r, s) /\ Apart(s, r)
      BY <2>a, FreshIsApart
    <3>8. \A v \in Workers : /\ Apart(r, work[v])
                             /\ \A i \in DOMAIN assignCh[v] :
                                   Apart(r, assignCh[v][i]) /\ Apart(assignCh[v][i], r)
      BY <2>a, <2>b, <2>d, <3>7
    <3>9. RangesBelow'
      <4>1. \A v \in Workers : work'[v].end <= next_counter'
        BY <2>a, <2>d, <3>1, <3>3 DEF WorkRange
      <4>2. \A v \in Workers : \A i \in DOMAIN assignCh'[v] : assignCh'[v][i].end <= next_counter'
        <5>1. ASSUME NEW v \in Workers, v # w, NEW i \in DOMAIN assignCh'[v]
              PROVE  assignCh'[v][i].end <= next_counter'
          <6>1. assignCh'[v] = assignCh[v]
            BY <3>5, <5>1
          <6>2. assignCh[v][i].end \in Nat /\ assignCh[v][i].end <= next_counter
            BY <2>b, <2>d, <5>1, <6>1 DEF WorkRange
          <6> QED
            BY <2>a, <3>3, <6>1, <6>2
        <5> QED
          BY <3>3, <3>6, <5>1
      <4> QED
        BY <3>1, <4>1, <4>2 DEF RangesBelow
    <3>10. RangesDisjoint'
      BY <2>d, <3>1, <3>5, <3>6, <3>8 DEF RangesDisjoint
    <3> QED
      BY <3>9, <3>10 DEF RangesInv
  <2>5. ASSUME NEW w \in Workers, ReceiveInitialWork(w) \/ ReceiveAnswer(w)
        PROVE  RangesInv'
    <3>1. /\ assignCh[w] # <<>> /\ assignCh' = [assignCh EXCEPT ![w] = Tail(@)]
          /\ work' = [work EXCEPT ![w] = Head(assignCh[w])]
          /\ UNCHANGED <<mpc, next_counter>>
      BY <2>5 DEF ReceiveInitialWork, ReceiveAnswer, mvars
    <3>2. Len(assignCh[w]) = 1 /\ mpc # "distribute"
      <4>1. Len(assignCh[w]) \in Nat /\ Len(assignCh[w]) > 0
        BY <2>b, <3>1, Lengths
      <4>2. requestCh[w] \in Nat /\ requestCh[w] + Len(assignCh[w]) <= 1
        BY <2>a, <2>c
      <4>3. assignCh[w] # <<>>
        BY <3>1
      <4>4. mpc # "distribute"
        BY <2>c, <4>3, Zenon
      <4>5. \A a, n \in Nat : n > 0 /\ a + n <= 1 => n = 1
        OBVIOUS
      <4> QED
        BY <4>1, <4>2, <4>4, <4>5, Zenon
    <3>3. /\ assignCh'[w] = <<>> /\ work'[w] = assignCh[w][1] /\ 1 \in DOMAIN assignCh[w]
          /\ \A v \in Workers \ {w} : assignCh'[v] = assignCh[v] /\ work'[v] = work[v]
      BY <2>a, <2>b, <3>1, <3>2
    <3>4. DOMAIN assignCh'[w] = {}
      BY <3>3
    <3>5. RangesBelow'
      BY <2>d, <3>1, <3>2, <3>3, <3>4 DEF RangesBelow
    <3>6. RangesDisjoint'
      BY <2>d, <3>3, <3>4, ApartSymmetric DEF RangesDisjoint
    <3> QED
      BY <3>5, <3>6 DEF RangesInv
  <2>6. ASSUME NEW w \in Workers,
               \/ MineBatch(w) \/ CheckStopInRange(w) \/ ReportInRange(w) \/ EndOfRange(w)
               \/ LeaveLoop(w) \/ SendFinalStats(w) \/ SendDone(w)
        PROVE  RangesInv'
    <3>1. UNCHANGED <<work, assignCh, next_counter, mpc>>
      BY <2>6 DEF MineBatch, CheckStopInRange, ReportInRange, EndOfRange, LeaveLoop,
                  SendFinalStats, SendDone, mvars, chans
    <3> QED
      BY <3>1, RangesKept
  <2>7. CASE UNCHANGED vars
    BY <2>7, RangesKept DEF vars, mvars, wvars, chans
  <2> QED
    BY <2>1, <2>2, <2>3, <2>4, <2>5, <2>6, <2>7 DEF Next, Master, Worker, AnySource
<1> QED
  BY <1>1, <1>2, TypeCorrect, AnswersCorrect, PTL DEF Spec

(* The ranges the workers hold or are about to get are pairwise apart.     *)
THEOREM RangesApart == Spec => []RangesDisjoint
<1>1. RangesInv => RangesDisjoint
  BY DEF RangesInv
<1> QED
  BY <1>1, RangesCorrect, PTL

-----------------------------------------------------------------------------
(* active_workers.  A worker is gone once its WORKER_DONE is handled, and  *)
(* it sends one only.                                                      *)

Gone(w) == wpc[w] = "exited" /\ doneCh[w] = 0
NotGone == {w \in Workers : ~Gone(w)}

DoneOnce ==
    \A w \in Workers : /\ doneCh[w] \in {0, 1}
                       /\ doneCh[w] = 1 => wpc[w] = "exited"

ActiveInv == DoneOnce /\ ActiveNeverOverCounts

LEMMA NotGoneFinite == IsFiniteSet(NotGone) /\ Cardinality(NotGone) \in Nat
<1>1. IsFiniteSet(Workers)
  BY NumWorkersAssumption, FS_Interval DEF Workers
<1> QED
  BY <1>1, FS_Subset, FS_CardinalityType DEF NotGone

(* A step that takes nobody off NotGone, and does not raise the count.     *)
LEMMA ActiveKept ==
    ASSUME ActiveInv, TypeOK, DoneOnce', NotGone' = NotGone,
           active_workers' \in {active_workers, active_workers - 1}
    PROVE  ActiveInv'
<1>1. active_workers <= Cardinality(NotGone) /\ active_workers \in Int
  BY DEF ActiveInv, ActiveNeverOverCounts, NotGone, Gone, TypeOK, MasterTypeOK
<1>2. active_workers' <= Cardinality(NotGone')
  BY <1>1, NotGoneFinite
<1> QED
  BY <1>2 DEF ActiveInv, ActiveNeverOverCounts, NotGone, Gone

(* The master never waits for a worker that has left (run_master,          *)
(* handle_worker_done).                                                    *)
THEOREM ActiveCorrect == Spec => []ActiveInv
<1>1. Init => ActiveInv
  <2> SUFFICES ASSUME Init PROVE ActiveInv
    OBVIOUS
  <2>1. NotGone = Workers /\ DoneOnce
    BY DEF Init, NotGone, Gone, DoneOnce
  <2>2. Cardinality(Workers) = NumWorkers
    BY NumWorkersAssumption, FS_Interval DEF Workers
  <2>3. active_workers <= Cardinality(NotGone)
    BY <2>1, <2>2, NumWorkersAssumption DEF Init, InitialActive
  <2> QED
    BY <2>1, <2>3 DEF ActiveInv, ActiveNeverOverCounts, NotGone, Gone
<1>2. TypeOK /\ ActiveInv /\ [Next]_vars => ActiveInv'
  <2> SUFFICES ASSUME TypeOK, ActiveInv, [Next]_vars
               PROVE  ActiveInv'
    OBVIOUS
  <2>a. /\ wpc \in [Workers -> {"recv", "loop", "tick", "report", "wait",
                                "final", "done", "exited"}]
        /\ doneCh \in [Workers -> Nat]
        /\ active_workers \in Int
    BY DEF TypeOK, MasterTypeOK, WorkerTypeOK, ChannelTypeOK
  <2>b. \A w \in Workers : /\ doneCh[w] \in {0, 1}
                           /\ doneCh[w] = 1 => wpc[w] = "exited"
    BY DEF ActiveInv, DoneOnce
  <2>1. ASSUME UNCHANGED <<wpc, doneCh>>,
               active_workers' \in {active_workers, active_workers - 1}
        PROVE  ActiveInv'
    <3>1. DoneOnce' /\ NotGone' = NotGone
      BY <2>b, <2>1 DEF DoneOnce, NotGone, Gone
    <3> QED
      BY <2>1, <3>1, ActiveKept
  <2>2. CASE \/ Interrupt \/ TimePasses \/ DistributeInitialWork
             \/ CoinsDrained \/ RequestsDrained \/ StatsDrained \/ DonesDrained
             \/ EndOfIteration
    <3>1. UNCHANGED <<wpc, doneCh, active_workers>>
      BY <2>2 DEF Interrupt, TimePasses, DistributeInitialWork, CoinsDrained,
                  RequestsDrained, StatsDrained, DonesDrained, PollEnds,
                  EndOfIteration, wvars, chans
    <3> QED
      BY <3>1, <2>1
  <2>3. ASSUME NEW w \in Workers,
               HandleCoinFound(w) \/ VaultFails(w) \/ HandleStatsUpdate(w) \/ HandleWorkRequest(w)
        PROVE  ActiveInv'
    <3>1. UNCHANGED <<wpc, doneCh>> /\ active_workers' \in {active_workers, active_workers - 1}
      BY <2>3 DEF HandleCoinFound, VaultFails, HandleStatsUpdate,
                  HandleWorkRequest, wvars
    <3> QED
      BY <3>1, <2>1
  <2>4. ASSUME NEW w \in Workers, HandleWorkerDone(w)
        PROVE  ActiveInv'
    <3>1. /\ doneCh[w] > 0 /\ doneCh' = [doneCh EXCEPT ![w] = @ - 1] /\ wpc' = wpc
          /\ active_workers' = active_workers - 1
      BY <2>4 DEF HandleWorkerDone, AfterDone, wvars
    <3>2. doneCh[w] = 1 /\ wpc[w] = "exited" /\ doneCh'[w] = 0
      BY <2>a, <2>b, <3>1
    <3>3. \A v \in Workers \ {w} : doneCh'[v] = doneCh[v]
      BY <2>a, <3>1
    <3>4. DoneOnce'
      BY <2>b, <3>1, <3>2, <3>3 DEF DoneOnce
    <3>5. NotGone' = NotGone \ {w} /\ w \in NotGone
      BY <3>1, <3>2, <3>3 DEF NotGone, Gone
    <3>6. Cardinality(NotGone') = Cardinality(NotGone) - 1
      BY <3>5, NotGoneFinite, FS_RemoveElement
    <3>7. active_workers <= Cardinality(NotGone)
      BY DEF ActiveInv, ActiveNeverOverCounts, NotGone, Gone
    <3>8. active_workers' <= Cardinality(NotGone')
      BY <2>a, <3>1, <3>6, <3>7, NotGoneFinite
    <3> QED
      BY <3>4, <3>8 DEF ActiveInv, ActiveNeverOverCounts, NotGone, Gone
  <2>5. ASSUME NEW w \in Workers, SendDone(w)
        PROVE  ActiveInv'
    <3>1. /\ wpc[w] = "done" /\ wpc' = [wpc EXCEPT ![w] = "exited"]
          /\ doneCh' = [doneCh EXCEPT ![w] = @ + 1]
          /\ active_workers' = active_workers
      BY <2>5 DEF SendDone, Goto, mvars
    <3>2. doneCh[w] = 0
      BY <2>b, <3>1
    <3>3. wpc'[w] = "exited" /\ doneCh'[w] = 1
      BY <2>a, <3>1, <3>2
    <3>4. \A v \in Workers \ {w} : doneCh'[v] = doneCh[v] /\ wpc'[v] = wpc[v]
      BY <2>a, <3>1
    <3>5. DoneOnce'
      BY <2>b, <3>3, <3>4 DEF DoneOnce
    <3>6. NotGone' = NotGone
      BY <3>1, <3>3, <3>4 DEF NotGone, Gone
    <3> QED
      BY <3>1, <3>5, <3>6, ActiveKept
  <2>6. ASSUME NEW w \in Workers,
               \/ ReceiveInitialWork(w) \/ ReceiveAnswer(w)
               \/ MineBatch(w) \/ CheckStopInRange(w) \/ ReportInRange(w) \/ EndOfRange(w)
               \/ LeaveLoop(w) \/ SendFinalStats(w)
        PROVE  ActiveInv'
    <3>1. /\ wpc[w] # "exited" /\ \E p \in {"loop", "tick", "report", "wait", "final", "done"} :
                                     wpc' = [wpc EXCEPT ![w] = p]
          /\ doneCh' = doneCh /\ active_workers' = active_workers
      BY <2>6 DEF ReceiveInitialWork, ReceiveAnswer, MineBatch, CheckStopInRange,
                  ReportInRange, EndOfRange, LeaveLoop, SendFinalStats, Goto,
                  mvars, chans
    <3>2. wpc'[w] # "exited" /\ \A v \in Workers \ {w} : wpc'[v] = wpc[v]
      BY <2>a, <3>1
    <3>3. DoneOnce'
      BY <2>b, <3>1, <3>2 DEF DoneOnce
    <3>4. NotGone' = NotGone
      BY <3>1, <3>2 DEF NotGone, Gone
    <3> QED
      BY <3>1, <3>3, <3>4, ActiveKept
  <2>7. CASE UNCHANGED vars
    BY <2>1, <2>7 DEF vars, mvars, wvars, chans
  <2> QED
    BY <2>2, <2>3, <2>4, <2>5, <2>6, <2>7 DEF Next, Master, Worker, AnySource
<1> QED
  BY <1>1, <1>2, TypeCorrect, PTL DEF Spec

(* active_workers counts nobody who has left.                              *)
THEOREM ActiveCounts == Spec => []ActiveNeverOverCounts
<1>1. ActiveInv => ActiveNeverOverCounts
  BY DEF ActiveInv
<1> QED
  BY <1>1, ActiveCorrect, PTL

-----------------------------------------------------------------------------
(* The coins and the statistics *)

(* The values of a function with one more argument, or with one less and   *)
(* the others moved.                                                       *)
LEMMA RangeOfMore ==
    ASSUME NEW f, NEW g, NEW n, NEW m,
           DOMAIN g = DOMAIN f \cup {n}, n \notin DOMAIN f,
           g[n] = m, \A i \in DOMAIN f : g[i] = f[i]
    PROVE  /\ Range(g) = Range(f) \cup {m}
           /\ IsInjective(f) /\ m \notin Range(f) => IsInjective(g)
<1>1. Range(g) = Range(f) \cup {m}
  BY DEF Range
<1>2. ASSUME IsInjective(f), m \notin Range(f) PROVE IsInjective(g)
  BY <1>2 DEF Range, IsInjective
<1> QED
  BY <1>1, <1>2

LEMMA RangeOfLess ==
    ASSUME NEW f, NEW g, NEW n \in Nat \ {0},
           DOMAIN f = 1..n, DOMAIN g = 1..(n - 1), \A i \in 1..(n - 1) : g[i] = f[i + 1]
    PROVE  /\ Range(f) = {f[1]} \cup Range(g)
           /\ IsInjective(f) => IsInjective(g) /\ f[1] \notin Range(g)
<1>1. Range(f) \subseteq {f[1]} \cup Range(g)
  <2>1. ASSUME NEW i \in 1..n PROVE f[i] \in {f[1]} \cup Range(g)
    <3>1. CASE i = 1
      BY <3>1
    <3>2. CASE i # 1
      <4>1. i - 1 \in 1..(n - 1) /\ (i - 1) + 1 = i
        BY <3>2
      <4> QED
        BY <4>1 DEF Range
    <3> QED
      BY <3>1, <3>2
  <2> QED
    BY <2>1 DEF Range
<1>2. {f[1]} \cup Range(g) \subseteq Range(f)
  BY DEF Range
<1>3. \A i \in 1..(n - 1) : i \in Int /\ i + 1 \in DOMAIN f /\ i + 1 # 1 /\ 1 \in DOMAIN f
  OBVIOUS
<1>4. ASSUME IsInjective(f) PROVE IsInjective(g)
  <2>1. ASSUME NEW i \in 1..(n - 1), NEW j \in 1..(n - 1), g[i] = g[j] PROVE i = j
    <3>1. f[i + 1] = f[j + 1]
      BY <2>1
    <3>2. i + 1 = j + 1
      BY <1>3, <1>4, <3>1 DEF IsInjective
    <3> QED
      BY <1>3, <3>2
  <2> QED
    BY <2>1 DEF IsInjective
<1>5. ASSUME IsInjective(f) PROVE f[1] \notin Range(g)
  <2>1. \A i \in 1..(n - 1) : f[i + 1] # f[1]
    BY <1>3, <1>5 DEF IsInjective
  <2> QED
    BY <2>1 DEF Range
<1> QED
  BY <1>1, <1>2, <1>4, <1>5

(* The values of a sequence that has grown, or lost its head. *)
LEMMA RangeOfAppend ==
    ASSUME NEW S, NEW s \in Seq(S), NEW m \in S
    PROVE  /\ Range(Append(s, m)) = Range(s) \cup {m}
           /\ IsInjective(s) /\ m \notin Range(s) => IsInjective(Append(s, m))
<1>1. DOMAIN Append(s, m) = DOMAIN s \cup {Len(s) + 1} /\ Len(s) + 1 \notin DOMAIN s
  OBVIOUS
<1>2. /\ Append(s, m)[Len(s) + 1] = m
      /\ \A i \in DOMAIN s : Append(s, m)[i] = s[i]
  OBVIOUS
<1> QED
  BY <1>1, <1>2, RangeOfMore

LEMMA RangeOfTail ==
    ASSUME NEW S, NEW s \in Seq(S), s # <<>>
    PROVE  /\ Range(s) = {Head(s)} \cup Range(Tail(s))
           /\ Head(s) \in S
           /\ IsInjective(s) => IsInjective(Tail(s)) /\ Head(s) \notin Range(Tail(s))
<1>1. /\ DOMAIN s = 1..Len(s) /\ Len(s) \in Nat \ {0}
      /\ Head(s) = s[1] /\ Head(s) \in S
      /\ DOMAIN Tail(s) = 1..(Len(s) - 1)
      /\ \A i \in 1..(Len(s) - 1) : Tail(s)[i] = s[i + 1]
  OBVIOUS
<1> DEFINE n == Len(s)
           t == Tail(s)
<1>2. /\ n \in Nat \ {0} /\ Head(s) = s[1] /\ Head(s) \in S
      /\ DOMAIN s = 1..n /\ DOMAIN t = 1..(n - 1) /\ \A i \in 1..(n - 1) : t[i] = s[i + 1]
  BY <1>1
<1> HIDE DEF n, t
<1>3. /\ Range(s) = {s[1]} \cup Range(t)
      /\ IsInjective(s) => IsInjective(t) /\ s[1] \notin Range(t)
  BY <1>2, RangeOfLess
<1> QED
  BY <1>2, <1>3 DEF t

-----------------------------------------------------------------------------
(* Statistics.  What is on its way to the master is no more than what the  *)
(* worker has hashed, which never goes down.                               *)

StatsBehind ==
    \A w \in Workers : \A i \in DOMAIN statsCh[w] : statsCh[w][i] <= hashed[w]

StatsInv == StatsBehind /\ StatsNeverOverstate

LEMMA StatsMoved ==
    ASSUME StatsInv, NEW w \in Workers,
           \A v \in Workers \ {w} :
              /\ statsCh'[v] = statsCh[v] /\ hashed'[v] = hashed[v]
              /\ worker_hashes'[v] = worker_hashes[v],
           \A i \in DOMAIN statsCh'[w] : statsCh'[w][i] <= hashed'[w],
           worker_hashes'[w] <= hashed'[w]
    PROVE  StatsInv'
  BY DEF StatsInv, StatsBehind, StatsNeverOverstate

(* The master's statistics of a worker never run ahead of the worker       *)
(* (report_statistics, handle_stats_update).                               *)
THEOREM StatsCorrect == Spec => []StatsInv
<1>1. Init => StatsInv
  BY DEF Init, StatsInv, StatsBehind, StatsNeverOverstate
<1>2. TypeOK /\ StatsInv /\ [Next]_vars => StatsInv'
  <2> SUFFICES ASSUME TypeOK, StatsInv, [Next]_vars
               PROVE  StatsInv'
    OBVIOUS
  <2>a. /\ statsCh \in [Workers -> Seq(Nat)]
        /\ hashed \in [Workers -> Nat] /\ worker_hashes \in [Workers -> Nat]
    BY DEF TypeOK, MasterTypeOK, WorkerTypeOK, ChannelTypeOK
  <2>b. \A w \in Workers :
          /\ worker_hashes[w] <= hashed[w]
          /\ \A i \in DOMAIN statsCh[w] : statsCh[w][i] <= hashed[w]
    BY DEF StatsInv, StatsBehind, StatsNeverOverstate
  <2>1. ASSUME UNCHANGED <<statsCh, hashed, worker_hashes>>
        PROVE  StatsInv'
    BY <2>1 DEF StatsInv, StatsBehind, StatsNeverOverstate
  <2>2. CASE \/ Interrupt \/ TimePasses \/ DistributeInitialWork
             \/ CoinsDrained \/ RequestsDrained \/ StatsDrained \/ DonesDrained
             \/ EndOfIteration
    BY <2>1, <2>2 DEF Interrupt, TimePasses, DistributeInitialWork, CoinsDrained,
                      RequestsDrained, StatsDrained, DonesDrained, PollEnds,
                      EndOfIteration, wvars, chans
  <2>3. ASSUME NEW w \in Workers,
               HandleCoinFound(w) \/ VaultFails(w) \/ HandleWorkRequest(w) \/ HandleWorkerDone(w)
        PROVE  StatsInv'
    BY <2>1, <2>3 DEF HandleCoinFound, VaultFails, HandleWorkRequest,
                      HandleWorkerDone, wvars
  <2>4. ASSUME NEW w \in Workers, HandleStatsUpdate(w)
        PROVE  StatsInv'
    <3>1. /\ statsCh[w] # <<>> /\ statsCh' = [statsCh EXCEPT ![w] = Tail(@)]
          /\ worker_hashes' = [worker_hashes EXCEPT ![w] = Head(statsCh[w])]
          /\ hashed' = hashed
      BY <2>4 DEF HandleStatsUpdate, wvars
    <3>2. /\ statsCh'[w] = Tail(statsCh[w]) /\ worker_hashes'[w] = Head(statsCh[w])
          /\ statsCh[w] \in Seq(Nat)
          /\ \A v \in Workers \ {w} : statsCh'[v] = statsCh[v] /\ worker_hashes'[v] = worker_hashes[v]
      BY <2>a, <3>1
    <3>3. worker_hashes'[w] <= hashed'[w]
      BY <2>b, <3>1, <3>2, HeadElement
    <3>4. \A i \in DOMAIN statsCh'[w] : statsCh'[w][i] <= hashed'[w]
      BY <2>b, <3>1, <3>2, TailElements
    <3> QED
      BY <3>1, <3>2, <3>3, <3>4, StatsMoved
  <2>5. ASSUME NEW w \in Workers, MineBatch(w)
        PROVE  StatsInv'
    <3>1. hashed' = [hashed EXCEPT ![w] = @ + 1] /\ UNCHANGED <<statsCh, worker_hashes>>
      BY <2>5 DEF MineBatch, mvars
    <3>2. hashed'[w] = hashed[w] + 1 /\ \A v \in Workers \ {w} : hashed'[v] = hashed[v]
      BY <2>a, <3>1
    <3>3. \A i \in DOMAIN statsCh[w] : statsCh[w][i] \in Nat
      BY <2>a
    <3>4. \A i \in DOMAIN statsCh'[w] : statsCh'[w][i] <= hashed'[w]
      BY <2>a, <2>b, <3>1, <3>2, <3>3
    <3>5. worker_hashes'[w] <= hashed'[w]
      BY <2>a, <2>b, <3>1, <3>2
    <3> QED
      BY <3>1, <3>2, <3>4, <3>5, StatsMoved
  <2>6. ASSUME NEW w \in Workers, ReportInRange(w) \/ SendFinalStats(w)
        PROVE  StatsInv'
    <3>1. /\ hashed' = hashed /\ worker_hashes' = worker_hashes
          /\ \/ statsCh' = statsCh
             \/ statsCh' = [statsCh EXCEPT ![w] = Append(@, hashed[w])]
      BY <2>6 DEF ReportInRange, SendFinalStats, SendStats, HashesReported, mvars
    <3>2. CASE statsCh' = statsCh
      BY <2>1, <3>1, <3>2
    <3>3. CASE statsCh' = [statsCh EXCEPT ![w] = Append(@, hashed[w])]
      <4>1. /\ statsCh'[w] = Append(statsCh[w], hashed[w])
            /\ statsCh[w] \in Seq(Nat) /\ hashed[w] \in Nat
            /\ \A v \in Workers \ {w} : statsCh'[v] = statsCh[v]
        BY <2>a, <3>3
      <4>2. \A i \in DOMAIN statsCh'[w] : statsCh'[w][i] <= hashed'[w]
        BY <2>b, <3>1, <4>1, AppendElements
      <4> QED
        BY <2>b, <3>1, <4>1, <4>2, StatsMoved
    <3> QED
      BY <3>1, <3>2, <3>3
  <2>7. ASSUME NEW w \in Workers,
               \/ ReceiveInitialWork(w) \/ CheckStopInRange(w) \/ EndOfRange(w)
               \/ ReceiveAnswer(w) \/ LeaveLoop(w) \/ SendDone(w)
        PROVE  StatsInv'
    BY <2>1, <2>7 DEF ReceiveInitialWork, CheckStopInRange, EndOfRange, ReceiveAnswer,
                      LeaveLoop, SendDone, mvars, chans
  <2>8. CASE UNCHANGED vars
    BY <2>1, <2>8 DEF vars, mvars, wvars, chans
  <2> QED
    BY <2>2, <2>3, <2>4, <2>5, <2>6, <2>7, <2>8 DEF Next, Master, Worker, AnySource
<1> QED
  BY <1>1, <1>2, TypeCorrect, PTL DEF Spec

(* worker_hashes never exceeds the hashes the worker has done. *)
THEOREM StatsNotOverstated == Spec => []StatsNeverOverstate
<1>1. StatsInv => StatsNeverOverstate
  BY DEF StatsInv
<1> QED
  BY <1>1, StatsCorrect, PTL

-----------------------------------------------------------------------------
(* Mining.  A coin lies behind what was given out; the counter of a worker *)
(* lies in its range, the coins of the range before the counter were       *)
(* found, and none at the counter or behind it, in this range or in one    *)
(* that is on its way.                                                     *)

CoinsBehind == found \subseteq Golden /\ \A c \in found : c < next_counter

NothingAhead ==
    \A w \in Workers :
        /\ work[w].start <= counter[w]
        /\ \A c \in found : counter[w] <= c => work[w].end <= c
        /\ \A i \in DOMAIN assignCh[w] :
              \A c \in found : assignCh[w][i].start <= c => assignCh[w][i].end <= c

CoinsOfRangeFound ==
    \A w \in Workers : \A c \in Golden :
        work[w].start <= c /\ c < counter[w] /\ c < work[w].end => c \in found

MinedInv == CoinsBehind /\ NothingAhead /\ CoinsOfRangeFound

LEMMA RangeFields == \A r \in WorkRange : r.start \in Nat /\ r.end \in Nat
  BY DEF WorkRange

LEMMA MinedKept ==
    ASSUME MinedInv, UNCHANGED <<found, next_counter, work, counter, assignCh>>
    PROVE  MinedInv'
  BY DEF MinedInv, CoinsBehind, NothingAhead, CoinsOfRangeFound

(* A worker takes a range, or (0,0), of which no coin was found. *)
LEMMA MinedReceived ==
    ASSUME MinedInv, TypeOK, NEW w \in Workers, assignCh[w] # <<>>,
           assignCh' = [assignCh EXCEPT ![w] = Tail(@)],
           work' = [work EXCEPT ![w] = Head(assignCh[w])],
           \/ counter' = [counter EXCEPT ![w] = Head(assignCh[w]).start]
           \/ counter' = counter /\ Head(assignCh[w]) = StopReply,
           UNCHANGED <<found, next_counter>>
    PROVE  MinedInv'
<1> DEFINE r == Head(assignCh[w])
<1>1. /\ assignCh \in [Workers -> Seq(WorkRange)] /\ requestCh \in [Workers -> Nat]
      /\ counter \in [Workers -> Nat] /\ work \in [Workers -> WorkRange]
      /\ found \subseteq Nat
  BY DEF TypeOK, MasterTypeOK, WorkerTypeOK, ChannelTypeOK
<1>2. r \in WorkRange /\ r.start \in Nat /\ r.end \in Nat
  <2>1. r \in WorkRange
    BY <1>1, ReceiveTypes
  <2> QED
    BY <2>1, RangeFields
<1>3. \A c \in found : r.start <= c => r.end <= c
  BY <1>1, HeadElement DEF MinedInv, NothingAhead
<1>4. \A i \in DOMAIN assignCh'[w] : \A c \in found :
          assignCh'[w][i].start <= c => assignCh'[w][i].end <= c
  <2>1. assignCh'[w] = Tail(assignCh[w]) /\ assignCh[w] \in Seq(WorkRange)
    BY <1>1
  <2>2. ASSUME NEW i \in DOMAIN assignCh'[w]
        PROVE  i + 1 \in DOMAIN assignCh[w] /\ assignCh'[w][i] = assignCh[w][i + 1]
    BY <2>1, TailElements
  <2> QED
    BY <2>2 DEF MinedInv, NothingAhead
<1>5. \A v \in Workers \ {w} : /\ assignCh'[v] = assignCh[v] /\ work'[v] = work[v]
                               /\ counter'[v] = counter[v]
  BY <1>1
<1>6. /\ work'[w] = r
      /\ counter'[w] = r.start \/ (counter'[w] \in Nat /\ r.start = 0 /\ r.end = 0)
  BY <1>1 DEF StopReply
<1>7. NothingAhead'
  BY <1>1, <1>2, <1>3, <1>4, <1>5, <1>6 DEF MinedInv, NothingAhead
<1>8. CoinsOfRangeFound'
  <2>1. \A c \in Golden : ~(r.start <= c /\ c < counter'[w] /\ c < r.end)
    BY <1>2, <1>6, GoldenAssumption
  <2> QED
    BY <1>5, <1>6, <2>1 DEF MinedInv, CoinsOfRangeFound
<1> QED
  BY <1>7, <1>8 DEF MinedInv, CoinsBehind

(* A worker hashes the batch at its counter; nobody else has it. *)
LEMMA MinedBatch ==
    ASSUME MinedInv, TypeOK, RangesInv, NEW w \in Workers, MineBatch(w)
    PROVE  MinedInv' /\ counter[w] \notin found
<1>1. /\ assignCh \in [Workers -> Seq(WorkRange)] /\ next_counter \in Nat
      /\ counter \in [Workers -> Nat] /\ work \in [Workers -> WorkRange]
      /\ found \subseteq Nat
  BY DEF TypeOK, MasterTypeOK, WorkerTypeOK, ChannelTypeOK
<1>2. /\ counter[w] < work[w].end /\ counter' = [counter EXCEPT ![w] = @ + 1]
      /\ found' = found \cup ({counter[w]} \cap Golden)
      /\ UNCHANGED <<work, assignCh, next_counter>>
  BY DEF MineBatch, mvars
<1>3. /\ counter[w] \in Nat /\ counter'[w] = counter[w] + 1
      /\ \A v \in Workers \ {w} : counter'[v] = counter[v]
      /\ \A v \in Workers : /\ work[v].start \in Nat /\ work[v].end \in Nat
                            /\ \A i \in DOMAIN assignCh[v] : /\ assignCh[v][i].start \in Nat
                                                             /\ assignCh[v][i].end \in Nat
  <2>1. \A v \in Workers : /\ work[v] \in WorkRange
                           /\ \A i \in DOMAIN assignCh[v] : assignCh[v][i] \in WorkRange
    BY <1>1
  <2>2. /\ counter[w] \in Nat /\ counter'[w] = counter[w] + 1
        /\ \A v \in Workers \ {w} : counter'[v] = counter[v]
    BY <1>1, <1>2
  <2> QED
    BY <2>1, <2>2, RangeFields
<1>4. /\ work[w].start <= counter[w] /\ work[w].end <= next_counter
      /\ \A c \in found : counter[w] <= c => work[w].end <= c
  BY DEF MinedInv, NothingAhead, RangesInv, RangesBelow
<1>5. counter[w] \notin found
  BY <1>2, <1>3, <1>4
<1>6. CoinsBehind'
  <2>1. counter[w] < next_counter
    BY <1>1, <1>2, <1>3, <1>4
  <2> QED
    BY <1>2, <2>1 DEF MinedInv, CoinsBehind
<1>7. ASSUME NEW v \in Workers
      PROVE  /\ v # w => (counter[v] <= counter[w] => work[v].end <= counter[w])
             /\ \A i \in DOMAIN assignCh[v] :
                   assignCh[v][i].start <= counter[w] => assignCh[v][i].end <= counter[w]
  <2>1. /\ v # w => Apart(work[v], work[w])
        /\ \A i \in DOMAIN assignCh[v] : Apart(assignCh[v][i], work[w])
    BY DEF RangesInv, RangesDisjoint
  <2>2. work[v].start <= counter[v] /\ counter[v] \in Nat
    BY <1>1 DEF MinedInv, NothingAhead
  <2> QED
    BY <1>2, <1>3, <1>4, <2>1, <2>2 DEF Apart
<1>8. NothingAhead'
  <2>1. ASSUME NEW v \in Workers, NEW c \in found', counter'[v] <= c
        PROVE  work'[v].end <= c
    <3>1. CASE c \in found
      <4>1. counter[v] <= c
        <5>1. counter[v] \in Nat /\ c \in Nat
          BY <1>1, <3>1
        <5>2. counter'[v] = counter[v] \/ counter'[v] = counter[v] + 1
          BY <1>3
        <5> QED
          BY <2>1, <5>1, <5>2
      <4> QED
        BY <1>2, <3>1, <4>1 DEF MinedInv, NothingAhead
    <3>2. CASE c = counter[w] /\ v = w
      BY <1>3, <2>1, <3>2
    <3>3. CASE c = counter[w] /\ v # w
      BY <1>2, <1>3, <1>7, <2>1, <3>3
    <3> QED
      BY <1>2, <3>1, <3>2, <3>3
  <2>2. \A v \in Workers : work'[v].start <= counter'[v]
    <3>1. \A v \in Workers : work[v].start <= counter[v] /\ counter[v] \in Nat
      BY <1>1 DEF MinedInv, NothingAhead
    <3> QED
      BY <1>2, <1>3, <3>1
  <2>3. ASSUME NEW v \in Workers, NEW i \in DOMAIN assignCh'[v], NEW c \in found',
               assignCh'[v][i].start <= c
        PROVE  assignCh'[v][i].end <= c
    BY <1>2, <1>7, <2>3 DEF MinedInv, NothingAhead
  <2> QED
    BY <2>1, <2>2, <2>3 DEF NothingAhead
<1>9. CoinsOfRangeFound'
  <2>1. ASSUME NEW v \in Workers, NEW c \in Golden,
               work'[v].start <= c, c < counter'[v], c < work'[v].end
        PROVE  c \in found'
    <3>1. CASE v = w /\ c = counter[w]
      BY <1>2, <3>1
    <3>2. CASE v # w \/ c # counter[w]
      <4>1. c < counter[v]
        BY <1>1, <1>3, <2>1, <3>2, GoldenAssumption
      <4> QED
        BY <1>2, <2>1, <4>1 DEF MinedInv, CoinsOfRangeFound
    <3> QED
      BY <3>1, <3>2
  <2> QED
    BY <2>1 DEF CoinsOfRangeFound
<1> QED
  BY <1>5, <1>6, <1>8, <1>9 DEF MinedInv

(* A worker finds the coins of its range in order, each when the counter   *)
(* passes it and no coin of any other range (mine_deti_coins of the MPI    *)
(* worker, handle_work_request).                                           *)
THEOREM MinedCorrect == Spec => []MinedInv
<1>1. Init => MinedInv
  BY GoldenAssumption
     DEF Init, MinedInv, CoinsBehind, NothingAhead, CoinsOfRangeFound, StopReply
<1>2. TypeOK /\ AnswersInv /\ RangesInv /\ MinedInv /\ [Next]_vars => MinedInv'
  <2> SUFFICES ASSUME TypeOK, AnswersInv, RangesInv, MinedInv, [Next]_vars
               PROVE  MinedInv'
    OBVIOUS
  <2>a. /\ assignCh \in [Workers -> Seq(WorkRange)] /\ next_counter \in Nat
        /\ work \in [Workers -> WorkRange] /\ counter \in [Workers -> Nat]
        /\ found \subseteq Nat
    BY DEF TypeOK, MasterTypeOK, WorkerTypeOK, ChannelTypeOK
  <2>1. CASE \/ Interrupt \/ TimePasses
             \/ CoinsDrained \/ RequestsDrained \/ StatsDrained \/ DonesDrained
             \/ EndOfIteration
    BY <2>1, MinedKept DEF Interrupt, TimePasses, CoinsDrained, RequestsDrained,
                           StatsDrained, DonesDrained, PollEnds, EndOfIteration,
                           wvars, chans
  <2>2. CASE DistributeInitialWork
    <3>1. /\ mpc = "distribute" /\ UNCHANGED <<work, counter, found>>
          /\ \A w \in Workers : assignCh'[w] =
                Append(assignCh[w], RangeAt((w - 1) * WORK_CHUNK_SIZE))
      BY <2>2 DEF DistributeInitialWork, wvars
    <3>2. found = {}
      BY <2>a, <3>1 DEF AnswersInv, BeforeStart, MinedInv, CoinsBehind
    <3> QED
      BY <3>1, <3>2 DEF MinedInv, CoinsBehind, NothingAhead, CoinsOfRangeFound
  <2>3. ASSUME NEW w \in Workers,
               HandleCoinFound(w) \/ VaultFails(w) \/ HandleStatsUpdate(w) \/ HandleWorkerDone(w)
        PROVE  MinedInv'
    BY <2>3, MinedKept DEF HandleCoinFound, VaultFails, HandleStatsUpdate,
                           HandleWorkerDone, wvars
  <2>4. ASSUME NEW w \in Workers, HandleWorkRequest(w)
        PROVE  MinedInv'
    <3>1. /\ UNCHANGED <<work, counter, found>>
          /\ next_counter <= next_counter' /\ next_counter' \in Nat
          /\ \E r \in {StopReply, RangeAt(next_counter)} :
                assignCh' = [assignCh EXCEPT ![w] = Append(@, r)]
      BY <2>4, <2>a, ChunkAssumption DEF HandleWorkRequest, Reply, Advance, wvars
    <3>2. PICK r \in {StopReply, RangeAt(next_counter)} :
                assignCh' = [assignCh EXCEPT ![w] = Append(@, r)]
      BY <3>1
    <3>3. CoinsBehind'
      BY <2>a, <3>1 DEF MinedInv, CoinsBehind
    <3>4. \A c \in found : r.start <= c => r.end <= c
      BY <2>a DEF MinedInv, CoinsBehind, StopReply, RangeAt
    <3>5. ASSUME NEW v \in Workers, NEW i \in DOMAIN assignCh'[v], NEW c \in found,
                 assignCh'[v][i].start <= c
          PROVE  assignCh'[v][i].end <= c
      <4>1. CASE v = w
        <5>1. /\ assignCh'[w] = Append(assignCh[w], r) /\ r \in WorkRange
              /\ assignCh[w] \in Seq(WorkRange)
          BY <2>a, <3>2, RangeTypes
        <5> QED
          BY <3>4, <3>5, <4>1, <5>1, AppendElements DEF MinedInv, NothingAhead
      <4>2. CASE v # w
        <5>1. assignCh'[v] = assignCh[v]
          BY <2>a, <3>2, <4>2
        <5> QED
          BY <3>5, <5>1 DEF MinedInv, NothingAhead
      <4> QED
        BY <4>1, <4>2
    <3> QED
      BY <3>1, <3>3, <3>5 DEF MinedInv, NothingAhead, CoinsOfRangeFound
  <2>5. ASSUME NEW w \in Workers, ReceiveInitialWork(w) \/ ReceiveAnswer(w)
        PROVE  MinedInv'
    <3>1. /\ assignCh[w] # <<>> /\ assignCh' = [assignCh EXCEPT ![w] = Tail(@)]
          /\ work' = [work EXCEPT ![w] = Head(assignCh[w])]
          /\ UNCHANGED <<found, next_counter>>
      BY <2>5 DEF ReceiveInitialWork, ReceiveAnswer, mvars
    <3>2. Head(assignCh[w]) \in WorkRange
      BY <2>a, <3>1, ReceiveTypes
    <3>3. \/ counter' = [counter EXCEPT ![w] = Head(assignCh[w]).start]
          \/ counter' = counter /\ Head(assignCh[w]) = StopReply
      BY <2>5, <3>2 DEF ReceiveInitialWork, ReceiveAnswer, IsStopReply, StopReply, WorkRange
    <3> QED
      BY <3>1, <3>3, MinedReceived
  <2>6. ASSUME NEW w \in Workers, MineBatch(w)
        PROVE  MinedInv'
    BY <2>6, MinedBatch
  <2>7. ASSUME NEW w \in Workers,
               \/ CheckStopInRange(w) \/ ReportInRange(w) \/ EndOfRange(w)
               \/ LeaveLoop(w) \/ SendFinalStats(w) \/ SendDone(w)
        PROVE  MinedInv'
    BY <2>7, MinedKept DEF CheckStopInRange, ReportInRange, EndOfRange, LeaveLoop,
                           SendFinalStats, SendDone, mvars, chans
  <2>8. CASE UNCHANGED vars
    BY <2>8, MinedKept DEF vars, mvars, wvars, chans
  <2> QED
    BY <2>1, <2>2, <2>3, <2>4, <2>5, <2>6, <2>7, <2>8 DEF Next, Master, Worker, AnySource
<1> QED
  BY <1>1, <1>2, TypeCorrect, AnswersCorrect, RangesCorrect, PTL DEF Spec

-----------------------------------------------------------------------------
(* Coins.  A coin is in one place: in the vault once, or once in the       *)
(* channel of one worker.                                                  *)

OnePlace ==
    /\ IsInjective(vault)
    /\ \A w \in Workers : /\ IsInjective(coinCh[w])
                          /\ Range(coinCh[w]) \cap Range(vault) = {}
    /\ \A w, v \in Workers : w # v => Range(coinCh[w]) \cap Range(coinCh[v]) = {}

AccountInv == IsFiniteSet(found) /\ OnePlace /\ CoinsAccounted

InTransit == UNION {Range(coinCh[w]) : w \in Workers}
Pending == SumFunction([w \in Workers |-> Len(coinCh[w])])

LEMMA WorkersFinite == IsFiniteSet(Workers)
  BY NumWorkersAssumption, FS_Interval DEF Workers

LEMMA PendingType ==
    ASSUME TypeOK PROVE Pending \in Nat
<1>1. [w \in Workers |-> Len(coinCh[w])] \in [Workers -> Nat]
  BY DEF TypeOK, ChannelTypeOK
<1> QED
  BY <1>1, WorkersFinite, SumNotNegative DEF Pending

(* One channel changes. *)
LEMMA PendingChanges ==
    ASSUME TypeOK, NEW w \in Workers, NEW s \in Seq(Nat),
           coinCh' = [coinCh EXCEPT ![w] = s]
    PROVE  /\ Pending' = Pending - Len(coinCh[w]) + Len(s)
           /\ coinCh'[w] = s /\ \A v \in Workers \ {w} : coinCh'[v] = coinCh[v]
<1> DEFINE f == [v \in Workers |-> Len(coinCh[v])]
           g == [v \in Workers |-> Len(coinCh'[v])]
<1>1. coinCh \in [Workers -> Seq(Nat)]
  BY DEF TypeOK, ChannelTypeOK
<1>2. coinCh' \in [Workers -> Seq(Nat)] /\ coinCh'[w] = s
  BY <1>1
<1>3. \A v \in Workers \ {w} : coinCh'[v] = coinCh[v]
  BY <1>1
<1>4. f \in [Workers -> Int] /\ g \in [Workers -> Int] /\ Len(s) \in Int
  BY <1>1, <1>2
<1>5. g[w] = Len(s) /\ f[w] = Len(coinCh[w]) /\ \A v \in Workers \ {w} : g[v] = f[v]
  BY <1>2, <1>3
<1>6. SumFunction(g) = SumFunction(f) - f[w] + g[w]
  <2> HIDE DEF f, g
  <2> QED
    BY <1>4, <1>5, WorkersFinite, SumOfUpdate
<1>7. Pending' = SumFunction(g) /\ Pending = SumFunction(f)
  BY DEF Pending
<1> QED
  BY <1>2, <1>3, <1>5, <1>6, <1>7

LEMMA AccountKept ==
    ASSUME AccountInv, UNCHANGED <<found, vault, coinCh>>, mpc' # "aborted" => mpc # "aborted"
    PROVE  AccountInv'
  BY DEF AccountInv, OnePlace, CoinsAccounted

LEMMA AccountByName ==
    /\ CoinsAccounted <=> (mpc # "aborted" =>
          found = Range(vault) \cup InTransit /\ Cardinality(found) = Len(vault) + Pending)
    /\ CoinsAccounted' <=> (mpc' # "aborted" =>
          found' = Range(vault') \cup InTransit' /\ Cardinality(found') = Len(vault') + Pending')
  BY DEF CoinsAccounted, InTransit, Pending

(* The master takes a coin out of a channel: into the vault, or away.      *)
LEMMA AccountTaken ==
    ASSUME TypeOK, AccountInv, NEW w \in Workers, HandleCoinFound(w) \/ VaultFails(w)
    PROVE  AccountInv' /\ Head(coinCh[w]) \in found \ Range(vault)
<1> DEFINE h == Head(coinCh[w])
           s == Tail(coinCh[w])
<1>1. /\ coinCh \in [Workers -> Seq(Nat)] /\ vault \in Seq(Nat)
      /\ coinCh[w] \in Seq(Nat) /\ coinCh[w] # <<>>
      /\ coinCh' = [coinCh EXCEPT ![w] = s] /\ found' = found /\ mpc = "coins"
  BY DEF TypeOK, MasterTypeOK, ChannelTypeOK, HandleCoinFound, VaultFails
<1>2. s \in Seq(Nat) /\ Len(s) = Len(coinCh[w]) - 1 /\ Len(coinCh[w]) \in Nat
  BY <1>1
<1>3. /\ Pending' = Pending - 1 /\ coinCh'[w] = s
      /\ \A v \in Workers \ {w} : coinCh'[v] = coinCh[v]
  <2>1. Pending' = Pending - Len(coinCh[w]) + Len(s)
    BY <1>1, <1>2, PendingChanges
  <2>2. coinCh'[w] = s /\ \A v \in Workers \ {w} : coinCh'[v] = coinCh[v]
    BY <1>1, <1>2, PendingChanges
  <2> QED
    BY <1>2, <2>1, <2>2, PendingType
<1>4. /\ Range(coinCh[w]) = {h} \cup Range(s) /\ h \in Nat
      /\ IsInjective(s) /\ h \notin Range(s)
  BY <1>1, RangeOfTail DEF AccountInv, OnePlace
<1>5. found = Range(vault) \cup InTransit /\ Cardinality(found) = Len(vault) + Pending
  BY <1>1, AccountByName DEF AccountInv
<1>6. /\ h \notin Range(vault) /\ h \in found
      /\ \A v \in Workers \ {w} : h \notin Range(coinCh[v])
  BY <1>4, <1>5 DEF AccountInv, OnePlace, InTransit
<1>7. InTransit' = InTransit \ {h}
  <2>1. \A v \in Workers : Range(coinCh'[v]) = Range(coinCh[v]) \ {h}
    <3> HIDE DEF h, s
    <3> QED
      BY <1>3, <1>4, <1>6
  <2> QED
    BY <2>1 DEF InTransit
<1>8. CASE HandleCoinFound(w)
  <2>1. vault' = Append(vault, h)
    BY <1>8 DEF HandleCoinFound, Saved
  <2>2. /\ Range(vault') = Range(vault) \cup {h} /\ IsInjective(vault')
        /\ Len(vault') = Len(vault) + 1 /\ Len(vault) \in Nat
    BY <1>1, <1>4, <1>6, <2>1, RangeOfAppend DEF AccountInv, OnePlace
  <2>3. OnePlace'
    <3>1. \A v \in Workers : /\ IsInjective(coinCh'[v])
                             /\ Range(coinCh'[v]) \cap Range(vault') = {}
      <4> HIDE DEF h, s
      <4> QED
        BY <1>3, <1>4, <1>6, <2>2 DEF AccountInv, OnePlace
    <3>2. \A u, v \in Workers : u # v => Range(coinCh'[u]) \cap Range(coinCh'[v]) = {}
      <4> HIDE DEF h, s
      <4> QED
        BY <1>3, <1>4 DEF AccountInv, OnePlace
    <3> QED
      BY <2>2, <3>1, <3>2 DEF OnePlace
  <2>4. found' = Range(vault') \cup InTransit'
    BY <1>1, <1>5, <1>6, <1>7, <2>2
  <2>5. Cardinality(found') = Len(vault') + Pending'
    BY <1>1, <1>3, <1>5, <2>2, PendingType
  <2> QED
    BY <1>1, <1>6, <2>3, <2>4, <2>5, AccountByName DEF AccountInv
<1>9. CASE VaultFails(w)
  <2>1. vault' = vault /\ mpc' = "aborted"
    BY <1>9 DEF VaultFails
  <2>2. OnePlace'
    <3> HIDE DEF h, s
    <3> QED
      BY <1>3, <1>4, <2>1 DEF AccountInv, OnePlace
  <2> QED
    BY <1>1, <1>6, <2>1, <2>2, AccountByName DEF AccountInv
<1> QED
  BY <1>8, <1>9

(* A worker sends a coin that nobody has found. *)
LEMMA AccountFound ==
    ASSUME TypeOK, AccountInv, mpc # "aborted", NEW w \in Workers, MineBatch(w),
           counter[w] \notin found
    PROVE  AccountInv'
<1> DEFINE c == counter[w]
<1>1. /\ coinCh \in [Workers -> Seq(Nat)] /\ vault \in Seq(Nat)
      /\ coinCh[w] \in Seq(Nat) /\ c \in Nat /\ Len(coinCh[w]) \in Nat
      /\ UNCHANGED <<vault, mpc>>
  BY DEF TypeOK, MasterTypeOK, WorkerTypeOK, ChannelTypeOK, MineBatch, mvars
<1>2. CASE c \notin Golden
  BY <1>1, <1>2, AccountKept DEF MineBatch
<1>3. CASE c \in Golden
  <2>1. coinCh' = [coinCh EXCEPT ![w] = Append(coinCh[w], c)] /\ found' = found \cup {c}
    BY <1>3 DEF MineBatch
  <2>2. Append(coinCh[w], c) \in Seq(Nat) /\ Len(Append(coinCh[w], c)) = Len(coinCh[w]) + 1
    BY <1>1
  <2>3. /\ Pending' = Pending + 1 /\ coinCh'[w] = Append(coinCh[w], c)
        /\ \A v \in Workers \ {w} : coinCh'[v] = coinCh[v]
    <3> HIDE DEF c
    <3>1. Pending' = Pending - Len(coinCh[w]) + Len(Append(coinCh[w], c))
      BY <2>1, <2>2, PendingChanges
    <3>2. /\ coinCh'[w] = Append(coinCh[w], c)
          /\ \A v \in Workers \ {w} : coinCh'[v] = coinCh[v]
      BY <2>1, <2>2, PendingChanges
    <3> QED
      BY <1>1, <2>2, <3>1, <3>2, PendingType
  <2>4. found = Range(vault) \cup InTransit /\ Cardinality(found) = Len(vault) + Pending
    BY AccountByName DEF AccountInv
  <2>5. c \notin Range(vault) /\ \A v \in Workers : c \notin Range(coinCh[v])
    BY <2>4 DEF InTransit
  <2>6. /\ Range(coinCh'[w]) = Range(coinCh[w]) \cup {c} /\ IsInjective(coinCh'[w])
    BY <1>1, <2>3, <2>5, RangeOfAppend DEF AccountInv, OnePlace
  <2>7. OnePlace'
    <3> HIDE DEF c
    <3>1. \A v \in Workers : /\ IsInjective(coinCh'[v])
                             /\ Range(coinCh'[v]) \cap Range(vault') = {}
      BY <1>1, <2>3, <2>5, <2>6 DEF AccountInv, OnePlace
    <3>2. \A u, v \in Workers : u # v => Range(coinCh'[u]) \cap Range(coinCh'[v]) = {}
      <4>1. \A v \in Workers \ {w} : Range(coinCh'[v]) = Range(coinCh[v])
        BY <2>3
      <4>2. \A v \in Workers \ {w} : Range(coinCh'[w]) \cap Range(coinCh'[v]) = {}
        BY <2>5, <2>6, <4>1 DEF AccountInv, OnePlace
      <4>3. \A u, v \in Workers \ {w} : u # v => Range(coinCh'[u]) \cap Range(coinCh'[v]) = {}
        BY <4>1 DEF AccountInv, OnePlace
      <4> QED
        BY <4>2, <4>3
    <3> QED
      BY <1>1, <3>1, <3>2 DEF AccountInv, OnePlace
  <2>8. found' = Range(vault') \cup InTransit'
    <3> HIDE DEF c
    <3>1. InTransit' = InTransit \cup {c}
      BY <2>3, <2>6 DEF InTransit
    <3> QED
      BY <1>1, <2>1, <2>4, <3>1
  <2>9. IsFiniteSet(found') /\ Cardinality(found') = Len(vault') + Pending'
    <3>1. IsFiniteSet(found') /\ Cardinality(found') = Cardinality(found) + 1
      <4> HIDE DEF c
      <4>1. c \notin found
        BY DEF c
      <4> QED
        BY <2>1, <4>1, FS_AddElement DEF AccountInv
    <3> QED
      BY <1>1, <2>3, <2>4, <3>1, PendingType
  <2> QED
    BY <2>7, <2>8, <2>9, AccountByName DEF AccountInv
<1> QED
  BY <1>2, <1>3

(* No coin is made up, saved twice or lost between a worker and the vault  *)
(* (report_coin_to_master, handle_coin_found).                             *)
THEOREM AccountCorrect == Spec => []AccountInv
<1>1. Init => AccountInv
  <2> SUFFICES ASSUME Init PROVE AccountInv
    OBVIOUS
  <2>1. vault = <<>> /\ found = {} /\ \A w \in Workers : coinCh[w] = <<>>
    BY DEF Init
  <2>2. Range(<<>>) = {} /\ IsInjective(<<>>)
    BY DEF Range, IsInjective
  <2>3. InTransit = {}
    BY <2>1, <2>2 DEF InTransit
  <2>4. Pending = 0
    <3>1. [w \in Workers |-> Len(coinCh[w])] = [w \in Workers |-> 0]
      BY <2>1
    <3> QED
      BY <3>1, WorkersFinite, SumOfZeros DEF Pending
  <2>5. OnePlace
    BY <2>1, <2>2 DEF OnePlace
  <2>6. Cardinality(found) = Len(vault) + Pending /\ IsFiniteSet(found)
    BY <2>1, <2>4, FS_EmptySet
  <2> QED
    BY <2>1, <2>2, <2>3, <2>5, <2>6, AccountByName DEF AccountInv
<1>2. TypeOK /\ RangesInv /\ MinedInv /\ AccountInv /\ [Next]_vars => AccountInv'
  <2> SUFFICES ASSUME TypeOK, RangesInv, MinedInv, AccountInv, [Next]_vars
               PROVE  AccountInv'
    OBVIOUS
  <2>1. CASE \/ Interrupt \/ TimePasses \/ DistributeInitialWork
             \/ CoinsDrained \/ RequestsDrained \/ StatsDrained \/ DonesDrained
             \/ EndOfIteration
    BY <2>1, AccountKept DEF Interrupt, TimePasses, DistributeInitialWork, CoinsDrained,
          RequestsDrained, StatsDrained, DonesDrained, PollEnds, EndOfIteration,
          wvars, chans
  <2>2. ASSUME NEW w \in Workers, HandleCoinFound(w) \/ VaultFails(w)
        PROVE  AccountInv'
    BY <2>2, AccountTaken
  <2>3. ASSUME NEW w \in Workers,
               HandleStatsUpdate(w) \/ HandleWorkRequest(w) \/ HandleWorkerDone(w)
        PROVE  AccountInv'
    BY <2>3, AccountKept DEF HandleStatsUpdate, HandleWorkRequest, HandleWorkerDone, wvars
  <2>4. ASSUME NEW w \in Workers, mpc # "aborted", MineBatch(w)
        PROVE  AccountInv'
    BY <2>4, MinedBatch, AccountFound
  <2>5. ASSUME NEW w \in Workers,
               \/ ReceiveInitialWork(w) \/ CheckStopInRange(w) \/ ReportInRange(w)
               \/ EndOfRange(w) \/ ReceiveAnswer(w) \/ LeaveLoop(w)
               \/ SendFinalStats(w) \/ SendDone(w)
        PROVE  AccountInv'
    BY <2>5, AccountKept DEF ReceiveInitialWork, CheckStopInRange, ReportInRange,
          EndOfRange, ReceiveAnswer, LeaveLoop, SendFinalStats, SendDone, mvars, chans
  <2>6. CASE UNCHANGED vars
    BY <2>6, AccountKept DEF vars, mvars, wvars, chans
  <2> QED
    BY <2>1, <2>2, <2>3, <2>4, <2>5, <2>6 DEF Next, Master, Worker, AnySource
<1> QED
  BY <1>1, <1>2, TypeCorrect, RangesCorrect, MinedCorrect, PTL DEF Spec

(* Every coin a worker sent is in the vault or on its way, once.           *)
THEOREM CoinsAreAccounted == Spec => []CoinsAccounted
<1>1. AccountInv => CoinsAccounted
  BY DEF AccountInv
<1> QED
  BY <1>1, AccountCorrect, PTL

-----------------------------------------------------------------------------
(* The ledger *)

(* The job is a ledger of coins: a step finds a coin that nobody found,    *)
(* saves one that was found and is not in the vault, closes the ledger, or *)
(* changes nothing of it.                                                  *)
THEOREM KeepsLedger == Spec => LedgerSpec
<1>1. Init => Ledger!Init
  BY DEF Init, Ledger!Init, MasterLeft
<1>2. TypeOK /\ RangesInv /\ MinedInv /\ AccountInv /\ [Next]_vars
         => [Ledger!Next]_(Ledger!vars)
  <2> SUFFICES ASSUME TypeOK, RangesInv, MinedInv, AccountInv, [Next]_vars
               PROVE  Ledger!Next \/ UNCHANGED Ledger!vars
    BY DEF Ledger!vars
  <2>0. ASSUME UNCHANGED <<found, vault>>, MasterLeft' = MasterLeft
        PROVE  UNCHANGED Ledger!vars
    BY <2>0 DEF Ledger!vars
  <2>1. CASE \/ Interrupt \/ TimePasses \/ DistributeInitialWork
             \/ CoinsDrained \/ RequestsDrained \/ StatsDrained \/ DonesDrained
    BY <2>0, <2>1 DEF Interrupt, TimePasses, DistributeInitialWork, CoinsDrained,
                      RequestsDrained, StatsDrained, DonesDrained, PollEnds, MasterLeft
  <2>2. CASE EndOfIteration
    <3>1. /\ mpc = "clock" /\ UNCHANGED <<found, vault>>
          /\ mpc' = "coins" \/ mpc' = "finished"
      BY <2>2 DEF EndOfIteration
    <3>2. CASE mpc' = "finished"
      BY <3>1, <3>2 DEF Ledger!Next, Ledger!Close, MasterLeft
    <3>3. CASE mpc' = "coins"
      BY <2>0, <3>1, <3>3 DEF MasterLeft
    <3> QED
      BY <3>1, <3>2, <3>3
  <2>3. ASSUME NEW w \in Workers, HandleCoinFound(w)
        PROVE  Ledger!Next
    <3>1. PICK c \in found \ Range(vault) : vault' = Append(vault, c)
      BY <2>3, AccountTaken DEF HandleCoinFound, Saved
    <3>2. mpc = "coins" /\ UNCHANGED <<found, mpc>> /\ c \in Golden
      BY <2>3 DEF HandleCoinFound, MinedInv, CoinsBehind
    <3>3. ~MasterLeft /\ MasterLeft' = MasterLeft
      BY <3>2 DEF MasterLeft
    <3>4. Ledger!Save(c)
      <4>1. UNCHANGED <<found, MasterLeft>>
        BY <3>2, <3>3
      <4>2. Ledger!Range(vault) = Range(vault)
        BY DEF Ledger!Range, Range
      <4> QED
        BY <3>1, <3>3, <4>1, <4>2, Zenon DEF Ledger!Save
    <3> QED
      BY <3>2, <3>4 DEF Ledger!Next
  <2>4. ASSUME NEW w \in Workers, VaultFails(w)
        PROVE  Ledger!Next
    BY <2>4 DEF VaultFails, Ledger!Next, Ledger!Close, MasterLeft
  <2>5. ASSUME NEW w \in Workers,
               HandleStatsUpdate(w) \/ HandleWorkRequest(w) \/ HandleWorkerDone(w)
        PROVE  UNCHANGED Ledger!vars
    BY <2>0, <2>5 DEF HandleStatsUpdate, HandleWorkRequest, HandleWorkerDone, MasterLeft
  <2>6. ASSUME NEW w \in Workers, MineBatch(w)
        PROVE  Ledger!Next \/ UNCHANGED Ledger!vars
    <3>1. counter[w] \notin found /\ UNCHANGED <<vault, mpc>>
      BY <2>6, MinedBatch DEF MineBatch, mvars
    <3>2. CASE counter[w] \in Golden
      <4>1. found' = found \cup {counter[w]}
        BY <2>6, <3>2 DEF MineBatch
      <4> QED
        BY <3>1, <3>2, <4>1 DEF Ledger!Next, Ledger!Find, MasterLeft
    <3>3. CASE counter[w] \notin Golden
      BY <2>0, <2>6, <3>1, <3>3 DEF MineBatch, MasterLeft
    <3> QED
      BY <3>2, <3>3
  <2>7. ASSUME NEW w \in Workers,
               \/ ReceiveInitialWork(w) \/ CheckStopInRange(w) \/ ReportInRange(w)
               \/ EndOfRange(w) \/ ReceiveAnswer(w) \/ LeaveLoop(w)
               \/ SendFinalStats(w) \/ SendDone(w)
        PROVE  UNCHANGED Ledger!vars
    BY <2>0, <2>7 DEF ReceiveInitialWork, CheckStopInRange, ReportInRange, EndOfRange,
          ReceiveAnswer, LeaveLoop, SendFinalStats, SendDone, mvars, chans, MasterLeft
  <2>8. CASE UNCHANGED vars
    BY <2>0, <2>8 DEF vars, mvars, MasterLeft
  <2> QED
    BY <2>1, <2>2, <2>3, <2>4, <2>5, <2>6, <2>7, <2>8 DEF Next, Master, Worker, AnySource
<1> QED
  BY <1>1, <1>2, TypeCorrect, RangesCorrect, MinedCorrect, AccountCorrect, PTL
     DEF Spec, LedgerSpec, Ledger!Spec

-----------------------------------------------------------------------------
(* The port of a worker.  An answer on its way is (0,0), never the first   *)
(* one, or a range behind the one the worker holds, and not empty; and a   *)
(* worker that leaves was told to.                                         *)

FirstIsUnasked == \A w \in Workers : wpc[w] = "recv" => requestCh[w] = 0

AnswersForward ==
    \A w \in Workers : \A i \in DOMAIN assignCh[w] :
        LET r == assignCh[w][i]
        IN  \/ r = StopReply /\ wpc[w] # "recv"
            \/ work[w].end <= r.start /\ r.start < r.end

LeavesStopped ==
    \A w \in Workers : wpc[w] \in {"final", "done", "exited"} => worker_stop_signal[w]

PortInv == FirstIsUnasked /\ AnswersForward /\ LeavesStopped

LEMMA PortKept ==
    ASSUME PortInv, UNCHANGED <<wpc, work, assignCh, requestCh, worker_stop_signal>>
    PROVE  PortInv'
  BY DEF PortInv, FirstIsUnasked, AnswersForward, LeavesStopped

(* A worker moves that neither takes an answer nor goes to "recv". *)
LEMMA PortMoved ==
    ASSUME PortInv, TypeOK, NEW w \in Workers, wpc'[w] # "recv",
           \A v \in Workers \ {w} : /\ wpc'[v] = wpc[v] /\ requestCh'[v] = requestCh[v]
                                    /\ worker_stop_signal'[v] = worker_stop_signal[v],
           UNCHANGED <<work, assignCh>>,
           wpc'[w] \in {"final", "done", "exited"} => worker_stop_signal'[w]
    PROVE  PortInv'
<1>1. FirstIsUnasked' /\ LeavesStopped'
  BY DEF PortInv, FirstIsUnasked, LeavesStopped
<1>2. AnswersForward'
  BY DEF PortInv, AnswersForward
<1> QED
  BY <1>1, <1>2 DEF PortInv

(* What a worker may count on of its answers (handle_work_request), and    *)
(* that it leaves only when told to (request_more_work,                    *)
(* check_stop_signal).                                                     *)
THEOREM PortCorrect == Spec => []PortInv
<1>1. Init => PortInv
  BY DEF Init, PortInv, FirstIsUnasked, AnswersForward, LeavesStopped
<1>2. TypeOK /\ AnswersInv /\ RangesInv /\ PortInv /\ [Next]_vars => PortInv'
  <2> SUFFICES ASSUME TypeOK, AnswersInv, RangesInv, PortInv, [Next]_vars
               PROVE  PortInv'
    OBVIOUS
  <2>a. /\ assignCh \in [Workers -> Seq(WorkRange)] /\ next_counter \in Nat
        /\ work \in [Workers -> WorkRange] /\ requestCh \in [Workers -> Nat]
        /\ worker_stop_signal \in [Workers -> BOOLEAN]
        /\ wpc \in [Workers -> {"recv", "loop", "tick", "report", "wait",
                                "final", "done", "exited"}]
    BY DEF TypeOK, MasterTypeOK, WorkerTypeOK, ChannelTypeOK
  <2>1. CASE \/ Interrupt \/ TimePasses
             \/ CoinsDrained \/ RequestsDrained \/ StatsDrained \/ DonesDrained
             \/ EndOfIteration
    BY <2>1, PortKept DEF Interrupt, TimePasses, CoinsDrained, RequestsDrained,
                          StatsDrained, DonesDrained, PollEnds, EndOfIteration,
                          wvars, chans
  <2>2. CASE DistributeInitialWork
    <3> DEFINE first(w) == RangeAt((w - 1) * WORK_CHUNK_SIZE)
    <3>1. /\ mpc = "distribute" /\ UNCHANGED <<work, wpc, requestCh, worker_stop_signal>>
          /\ \A w \in Workers : assignCh'[w] = Append(assignCh[w], first(w))
      BY <2>2 DEF DistributeInitialWork, wvars
    <3>2. \A w \in Workers : assignCh[w] = <<>> /\ work[w].end <= 0
      BY <3>1 DEF AnswersInv, BeforeStart, RangesInv, RangesBelow
    <3>3. \A w \in Workers : DOMAIN assignCh'[w] = {1} /\ assignCh'[w][1] = first(w)
      BY <3>1, <3>2
    <3>4. \A w \in Workers : 0 <= first(w).start /\ first(w).start < first(w).end
      BY ChunkAssumption DEF Workers, RangeAt
    <3>5. \A w \in Workers : work[w].end \in Nat /\ first(w).start \in Int
      BY <2>a, RangeFields, ChunkAssumption DEF Workers, RangeAt
    <3> HIDE DEF first
    <3>6. \A w \in Workers : work[w].end <= first(w).start
      BY <3>2, <3>4, <3>5
    <3> QED
      BY <3>1, <3>3, <3>4, <3>6 DEF PortInv, FirstIsUnasked, AnswersForward, LeavesStopped
  <2>3. ASSUME NEW w \in Workers,
               HandleCoinFound(w) \/ VaultFails(w) \/ HandleStatsUpdate(w) \/ HandleWorkerDone(w)
        PROVE  PortInv'
    BY <2>3, PortKept DEF HandleCoinFound, VaultFails, HandleStatsUpdate,
                          HandleWorkerDone, wvars
  <2>4. ASSUME NEW w \in Workers, HandleWorkRequest(w)
        PROVE  PortInv'
    <3>1. /\ requestCh[w] > 0 /\ requestCh' = [requestCh EXCEPT ![w] = @ - 1]
          /\ UNCHANGED <<wpc, work, worker_stop_signal>>
          /\ \E r \in {StopReply, RangeAt(next_counter)} :
                assignCh' = [assignCh EXCEPT ![w] = Append(@, r)]
      BY <2>4 DEF HandleWorkRequest, Reply, wvars
    <3>2. PICK r \in {StopReply, RangeAt(next_counter)} :
                assignCh' = [assignCh EXCEPT ![w] = Append(@, r)]
      BY <3>1
    <3>3. /\ wpc[w] # "recv" /\ FirstIsUnasked'
      BY <2>a, <3>1 DEF PortInv, FirstIsUnasked
    <3>4. r = StopReply \/ (work[w].end <= r.start /\ r.start < r.end)
      BY <2>a, ChunkAssumption DEF RangeAt, RangesInv, RangesBelow
    <3>5. \A v \in Workers \ {w} : assignCh'[v] = assignCh[v]
      BY <2>a, <3>2
    <3>6. /\ assignCh'[w] = Append(assignCh[w], r) /\ r \in WorkRange
          /\ assignCh[w] \in Seq(WorkRange)
      BY <2>a, <3>2, RangeTypes
    <3>7. \A i \in DOMAIN assignCh'[w] : \/ i \in DOMAIN assignCh[w] /\ assignCh'[w][i] = assignCh[w][i]
                                         \/ assignCh'[w][i] = r
      BY <3>6, AppendElements
    <3>8. AnswersForward'
      BY <3>1, <3>3, <3>4, <3>5, <3>7 DEF PortInv, AnswersForward
    <3> QED
      BY <3>1, <3>3, <3>8 DEF PortInv, LeavesStopped
  <2>5. ASSUME NEW w \in Workers, ReceiveInitialWork(w) \/ ReceiveAnswer(w)
        PROVE  PortInv'
    <3>1. /\ assignCh[w] # <<>> /\ assignCh' = [assignCh EXCEPT ![w] = Tail(@)]
          /\ work' = [work EXCEPT ![w] = Head(assignCh[w])]
          /\ requestCh' = requestCh
      BY <2>5 DEF ReceiveInitialWork, ReceiveAnswer
    <3>2. /\ \/ wpc' = [wpc EXCEPT ![w] = "loop"] /\ worker_stop_signal' = worker_stop_signal
             \/ /\ wpc' = [wpc EXCEPT ![w] = "final"]
                /\ worker_stop_signal' = [worker_stop_signal EXCEPT ![w] = TRUE]
      BY <2>5 DEF ReceiveInitialWork, ReceiveAnswer, Goto, RaiseFlag
    <3>3. /\ wpc'[w] # "recv"
          /\ wpc'[w] \in {"final", "done", "exited"} => worker_stop_signal'[w]
          /\ \A v \in Workers \ {w} : /\ wpc'[v] = wpc[v]
                                      /\ worker_stop_signal'[v] = worker_stop_signal[v]
      BY <2>a, <3>2
    <3>4. assignCh[w] \in Seq(WorkRange) /\ requestCh[w] \in Nat
      BY <2>a
    <3>5. DOMAIN Tail(assignCh[w]) = {}
      <4>1. requestCh[w] + Len(assignCh[w]) \in {0, 1}
        BY DEF AnswersInv, OneAnswerPerRequest
      <4> QED
        BY <3>1, <3>4, <4>1
    <3>6. /\ assignCh'[w] = Tail(assignCh[w])
          /\ \A v \in Workers \ {w} : assignCh'[v] = assignCh[v] /\ work'[v] = work[v]
      BY <2>a, <3>1
    <3>7. AnswersForward'
      BY <3>3, <3>5, <3>6 DEF PortInv, AnswersForward
    <3>8. FirstIsUnasked'
      BY <3>1, <3>3 DEF PortInv, FirstIsUnasked
    <3>9. LeavesStopped'
      BY <3>3 DEF PortInv, LeavesStopped
    <3> QED
      BY <3>7, <3>8, <3>9 DEF PortInv
  <2>6. ASSUME NEW w \in Workers,
               \/ MineBatch(w) \/ CheckStopInRange(w) \/ ReportInRange(w) \/ EndOfRange(w)
               \/ LeaveLoop(w) \/ SendFinalStats(w) \/ SendDone(w)
        PROVE  PortInv'
    <3> USE DEF MineBatch, CheckStopInRange, ReportInRange, EndOfRange, LeaveLoop,
                SendFinalStats, SendDone, RaiseFlag, Goto
    <3>1. UNCHANGED <<work, assignCh>>
      BY <2>6 DEF chans
    <3>2. /\ \A v \in Workers \ {w} : wpc'[v] = wpc[v] /\ requestCh'[v] = requestCh[v]
          /\ wpc'[w] # "recv"
      BY <2>6, <2>a DEF chans
    <3>3. /\ \A v \in Workers \ {w} : worker_stop_signal'[v] = worker_stop_signal[v]
          /\ worker_stop_signal[w] => worker_stop_signal'[w]
      BY <2>6, <2>a
    <3>4. wpc'[w] \in {"final", "done", "exited"} => worker_stop_signal'[w]
      BY <2>6, <2>a, <3>3 DEF PortInv, LeavesStopped
    <3> HIDE DEF MineBatch, CheckStopInRange, ReportInRange, EndOfRange, LeaveLoop,
                 SendFinalStats, SendDone, RaiseFlag, Goto
    <3> QED
      BY <3>1, <3>2, <3>3, <3>4, PortMoved
  <2>7. CASE UNCHANGED vars
    BY <2>7, PortKept DEF vars, mvars, wvars, chans
  <2> QED
    BY <2>1, <2>2, <2>3, <2>4, <2>5, <2>6, <2>7 DEF Next, Master, Worker, AnySource
<1> QED
  BY <1>1, <1>2, TypeCorrect, AnswersCorrect, RangesCorrect, PTL DEF Spec

LEMMA PortSteps ==
    ASSUME TypeOK, RangesInv, MinedInv, PortInv, [Next]_vars, NEW v \in Workers
    PROVE  Port(v)!Next \/ UNCHANGED Port(v)!vars
<1>a. /\ assignCh \in [Workers -> Seq(WorkRange)] /\ work \in [Workers -> WorkRange]
      /\ counter \in [Workers -> Nat] /\ found \subseteq Nat
      /\ worker_stop_signal \in [Workers -> BOOLEAN]
      /\ wpc \in [Workers -> {"recv", "loop", "tick", "report", "wait",
                              "final", "done", "exited"}]
  BY DEF TypeOK, WorkerTypeOK, ChannelTypeOK
<1>b. work[v].start \in Nat /\ work[v].end \in Nat
  <2>1. work[v] \in WorkRange
    BY <1>a
  <2> QED
    BY <2>1, RangeFields
<1>c. Port(v)!CoinsOf(work[v]) = {c \in Golden : work[v].start <= c /\ c < work[v].end}
  <2>1. \A c \in Golden : c \in (work[v].start)..(work[v].end - 1)
                          <=> work[v].start <= c /\ c < work[v].end
    BY <1>b, GoldenAssumption
  <2> QED
    BY <2>1 DEF Port!CoinsOf
<1>0. ASSUME UNCHANGED <<StateOf(v), work[v], SentOf(v), worker_stop_signal[v]>>
      PROVE  UNCHANGED Port(v)!vars
  BY <1>0 DEF Port!vars
<1>1. ASSUME UNCHANGED <<wvars, found>>
      PROVE  UNCHANGED Port(v)!vars
  BY <1>0, <1>1 DEF wvars, StateOf, SentOf
<1>2. CASE \/ Interrupt \/ TimePasses \/ DistributeInitialWork
           \/ CoinsDrained \/ RequestsDrained \/ StatsDrained \/ DonesDrained
           \/ EndOfIteration
  BY <1>1, <1>2 DEF Interrupt, TimePasses, DistributeInitialWork, CoinsDrained,
        RequestsDrained, StatsDrained, DonesDrained, PollEnds, EndOfIteration
<1>3. ASSUME NEW w \in Workers,
             \/ HandleCoinFound(w) \/ VaultFails(w) \/ HandleWorkRequest(w)
             \/ HandleStatsUpdate(w) \/ HandleWorkerDone(w)
      PROVE  UNCHANGED Port(v)!vars
  BY <1>1, <1>3 DEF HandleCoinFound, VaultFails, HandleWorkRequest, HandleStatsUpdate,
                    HandleWorkerDone
<1>4. ASSUME NEW w \in Workers, w # v, Worker(w)
      PROVE  UNCHANGED Port(v)!vars
  <2>1. UNCHANGED <<wpc[v], work[v], worker_stop_signal[v]>>
    BY <1>a, <1>4 DEF Worker, ReceiveInitialWork, MineBatch, CheckStopInRange, ReportInRange,
          EndOfRange, ReceiveAnswer, LeaveLoop, SendFinalStats, SendDone, Goto, RaiseFlag
  <2>2. SentOf(v)' = SentOf(v)
    <3>1. CASE MineBatch(w)
      <4>1. /\ counter[w] < work[w].end /\ work[w].start <= counter[w]
            /\ found' = found \cup ({counter[w]} \cap Golden)
        BY <3>1 DEF MineBatch, MinedInv, NothingAhead
      <4>2. Apart(work[w], work[v])
        BY <1>4 DEF RangesInv, RangesDisjoint
      <4>3. /\ counter[w] \in Nat /\ work[w] \in WorkRange
        BY <1>a
      <4>4. ~(work[v].start <= counter[w] /\ counter[w] < work[v].end)
        BY <1>b, <4>1, <4>2, <4>3, RangeFields DEF Apart
      <4> QED
        BY <2>1, <4>1, <4>4 DEF SentOf
    <3>2. CASE ~MineBatch(w)
      <4>1. found' = found
        BY <1>4, <3>2 DEF Worker, ReceiveInitialWork, CheckStopInRange, ReportInRange,
              EndOfRange, ReceiveAnswer, LeaveLoop, SendFinalStats, SendDone
      <4> QED
        BY <2>1, <4>1 DEF SentOf
    <3> QED
      BY <3>1, <3>2
  <2>3. StateOf(v)' = StateOf(v)
    BY <2>1 DEF StateOf
  <2> QED
    BY <1>0, <2>1, <2>2, <2>3
<1>5. CASE MineBatch(v)
  <2>1. /\ wpc[v] = "loop" /\ UNCHANGED <<work, worker_stop_signal>>
        /\ counter[v] < work[v].end /\ work[v].start <= counter[v]
        /\ found' = found \cup ({counter[v]} \cap Golden)
    BY <1>5 DEF MineBatch, MinedInv, NothingAhead
  <2>2. wpc'[v] \in {"loop", "tick", "report"}
    BY <1>a, <1>5 DEF MineBatch, Goto
  <2>3. StateOf(v) = "mining" /\ StateOf(v)' = "mining"
    BY <2>1, <2>2 DEF StateOf
  <2>4. SentOf(v) \subseteq SentOf(v)'
    BY <2>1 DEF SentOf
  <2>5. SentOf(v)' \subseteq Port(v)!CoinsOf(work[v])
    <3>1. found' \subseteq Golden
      BY <2>1 DEF MinedInv, CoinsBehind
    <3> QED
      BY <1>c, <2>1, <3>1 DEF SentOf
  <2>6. Port(v)!Send
    BY <2>1, <2>3, <2>4, <2>5 DEF Port!Send
  <2> QED
    BY <2>6 DEF Port!Next
<1>6. ASSUME StopArrived(v), RaiseFlag(v), UNCHANGED <<work, found>>,
             wpc[v] \in {"loop", "tick"}, wpc'[v] \in {"loop", "report", "final"}
      PROVE  Port(v)!Next
  <2>1. worker_stop_signal'[v] = TRUE
    BY <1>a, <1>6 DEF RaiseFlag
  <2>2. UNCHANGED <<StateOf(v), work[v], SentOf(v)>> /\ StateOf(v) = "mining"
    BY <1>6 DEF StateOf, SentOf
  <2>3. Port(v)!TakeStop
    BY <2>1, <2>2 DEF Port!TakeStop
  <2> QED
    BY <2>3 DEF Port!Next
<1>7. CASE CheckStopInRange(v)
  <2>1. wpc[v] = "tick" /\ wpc'[v] \in {"loop", "report"} /\ UNCHANGED <<work, found>>
    BY <1>a, <1>7 DEF CheckStopInRange, Goto
  <2>2. CASE StopArrived(v)
    BY <1>6, <1>7, <2>1, <2>2 DEF CheckStopInRange
  <2>3. CASE ~StopArrived(v)
    <3>1. UNCHANGED worker_stop_signal
      BY <1>7, <2>3 DEF CheckStopInRange
    <3> QED
      BY <1>0, <2>1, <3>1 DEF StateOf, SentOf
  <2> QED
    BY <2>2, <2>3
<1>8. CASE EndOfRange(v)
  <2>1. /\ wpc[v] = "loop" /\ ~worker_stop_signal[v] /\ UNCHANGED <<work, found>>
        /\ counter[v] >= work[v].end
    BY <1>8 DEF EndOfRange
  <2>2. CASE StopArrived(v)
    <3>1. RaiseFlag(v) /\ wpc'[v] = "final"
      BY <1>a, <1>8, <2>2 DEF EndOfRange, Goto
    <3> QED
      BY <1>6, <2>1, <2>2, <3>1
  <2>3. CASE ~StopArrived(v)
    <3>1. wpc'[v] = "wait" /\ UNCHANGED worker_stop_signal
      BY <1>a, <1>8, <2>3 DEF EndOfRange, Goto
    <3>2. StateOf(v) = "mining" /\ StateOf(v)' = "asking" /\ SentOf(v)' = SentOf(v)
      BY <2>1, <3>1 DEF StateOf, SentOf
    <3>3. SentOf(v) = Port(v)!CoinsOf(work[v])
      <4>1. found \subseteq Golden /\ counter[v] \in Nat
        BY <1>a DEF MinedInv, CoinsBehind
      <4>2. \A c \in Golden : work[v].start <= c /\ c < work[v].end => c \in found
        BY <1>b, <2>1, <4>1, GoldenAssumption DEF MinedInv, CoinsOfRangeFound
      <4> QED
        BY <1>c, <4>1, <4>2 DEF SentOf
    <3>4. Port(v)!Ask
      BY <2>1, <3>1, <3>2, <3>3 DEF Port!Ask
    <3> QED
      BY <3>4 DEF Port!Next
  <2> QED
    BY <2>2, <2>3
<1>9. CASE ReceiveInitialWork(v) \/ ReceiveAnswer(v)
  <2> DEFINE r == Head(assignCh[v])
  <2>1. /\ assignCh[v] # <<>> /\ work' = [work EXCEPT ![v] = r] /\ found' = found
        /\ wpc[v] \in {"recv", "wait"}
    BY <1>9 DEF ReceiveInitialWork, ReceiveAnswer
  <2>2. /\ 1 \in DOMAIN assignCh[v] /\ r = assignCh[v][1] /\ r \in WorkRange
        /\ r.start \in Nat /\ r.end \in Nat
    <3>1. assignCh[v] \in Seq(WorkRange)
      BY <1>a
    <3>2. 1 \in DOMAIN assignCh[v] /\ r = assignCh[v][1] /\ r \in WorkRange
      BY <2>1, <3>1, HeadElement
    <3> QED
      BY <3>2, RangeFields
  <2>3. /\ work'[v] = r /\ StateOf(v) = "asking"
    BY <1>a, <2>1 DEF StateOf
  <2>4. SentOf(v)' = {}
    <3>1. \A c \in found : r.start <= c => r.end <= c
      BY <2>2 DEF MinedInv, NothingAhead
    <3> QED
      <4>1. SentOf(v)' = {c \in found : r.start <= c /\ c < r.end}
        <5> HIDE DEF r
        <5> QED
          BY <2>1, <2>3 DEF SentOf
      <4>2. \A c \in found : ~(r.start <= c /\ c < r.end)
        <5> HIDE DEF r
        <5> QED
          BY <1>a, <2>2, <3>1
      <4> HIDE DEF r
      <4> QED
        BY <4>1, <4>2
  <2>5. CASE wpc[v] = "wait" /\ r = StopReply
    <3>1. RaiseFlag(v) /\ Goto(v, "final")
      BY <1>9, <2>5 DEF ReceiveInitialWork, ReceiveAnswer, IsStopReply, StopReply
    <3>2. worker_stop_signal'[v] = TRUE /\ wpc'[v] = "final"
      BY <1>a, <3>1 DEF RaiseFlag, Goto
    <3>3. StateOf(v)' = "mining"
      BY <3>2 DEF StateOf
    <3>4. Port(v)!TakeStopReply
      BY <2>3, <2>4, <2>5, <3>2, <3>3 DEF Port!TakeStopReply, Port!StopReply, StopReply
    <3> QED
      BY <3>4 DEF Port!Next
  <2>6. CASE ~(wpc[v] = "wait" /\ r = StopReply)
    <3>1. work[v].end <= r.start /\ r.start < r.end
      <4> HIDE DEF r
      <4> QED
        BY <2>1, <2>2, <2>6 DEF PortInv, AnswersForward
    <3>2. ~IsStopReply(r)
      BY <2>2, <3>1 DEF IsStopReply
    <3>3. Goto(v, "loop") /\ UNCHANGED worker_stop_signal
      BY <1>9, <3>2 DEF ReceiveInitialWork, ReceiveAnswer
    <3>4. StateOf(v)' = "mining"
      BY <1>a, <3>3 DEF StateOf, Goto
    <3>5. Port(v)!TakeRange
      <4> HIDE DEF r
      <4> QED
        BY <1>b, <2>2, <2>3, <2>4, <3>1, <3>3, <3>4 DEF Port!TakeRange
    <3> QED
      BY <3>5 DEF Port!Next
  <2> QED
    BY <2>5, <2>6
<1>10. CASE ReportInRange(v) \/ LeaveLoop(v) \/ SendFinalStats(v)
  <2>1. /\ wpc[v] \in {"report", "loop", "final"} /\ wpc'[v] \in {"loop", "final", "done"}
        /\ UNCHANGED <<work, found, worker_stop_signal>>
    BY <1>a, <1>10 DEF ReportInRange, LeaveLoop, SendFinalStats, Goto
  <2> QED
    BY <1>0, <2>1 DEF StateOf, SentOf
<1>11. CASE SendDone(v)
  <2>1. /\ wpc[v] = "done" /\ wpc'[v] = "exited" /\ worker_stop_signal[v]
        /\ UNCHANGED <<work, found, worker_stop_signal>>
    BY <1>a, <1>11 DEF SendDone, Goto, PortInv, LeavesStopped
  <2>2. StateOf(v) = "mining" /\ StateOf(v)' = "gone" /\ SentOf(v)' = SentOf(v)
    BY <2>1 DEF StateOf, SentOf
  <2>3. Port(v)!Leave
    BY <2>1, <2>2 DEF Port!Leave
  <2> QED
    BY <2>3 DEF Port!Next
<1>12. CASE UNCHANGED vars
  BY <1>1, <1>12 DEF vars
<1> QED
  BY <1>2, <1>3, <1>4, <1>5, <1>7, <1>8, <1>9, <1>10, <1>11, <1>12
     DEF Next, Master, Worker, AnySource

(* Every worker keeps the port that the rest of the job counts on: a team  *)
(* that keeps it too (module MpiWorkerTeam) may take its place.            *)
THEOREM WorkersAreKept == Spec => WorkersKeepPort
<1>1. Init => \A w \in Workers : Port(w)!Init
  <2> SUFFICES ASSUME Init, NEW w \in Workers
               PROVE  Port(w)!Init
    OBVIOUS
  <2>1. /\ wpc[w] = "recv" /\ work[w] = StopReply /\ worker_stop_signal[w] = FALSE
        /\ found = {}
    BY DEF Init
  <2>2. StateOf(w) = "asking" /\ SentOf(w) = {}
    BY <2>1 DEF StateOf, SentOf
  <2> QED
    BY <2>1, <2>2 DEF Port!Init, StopReply
<1>2. TypeOK /\ RangesInv /\ MinedInv /\ PortInv /\ [Next]_vars
         => [\A w \in Workers : [Port(w)!Next]_(Port(w)!vars)]_vars
  BY PortSteps
<1> QED
  BY <1>1, <1>2, TypeCorrect, RangesCorrect, MinedCorrect, PortCorrect, PTL
     DEF Spec, WorkersKeepPort
=============================================================================
