---------------------------- MODULE MpiWorkerPort ----------------------------
(***************************************************************************)
(* What the rest of the MPI job may rely on of one worker, whether it is   *)
(* a process of one thread (module MpiMiner) or a team (MpiWorkerTeam): it *)
(* sends the coins of the range it holds, each once, and no others; it     *)
(* asks for a range only when it has sent them all, and then sends nothing *)
(* before the answer; the ranges it gets lie one behind the other; it      *)
(* leaves only when told to; and behind WORKER_DONE it sends nothing.      *)
(***************************************************************************)
EXTENDS Integers

CONSTANT Golden

VARIABLES
    state,      \* "mining", "asking" or "gone"
    range,      \* the range it holds; (0,0), without counters, at first
                \*   or when it was told to stop
    sent,       \* the coins of the range that were sent
    stopped     \* it was told to stop

vars == <<state, range, sent, stopped>>

StopReply == [start |-> 0, end |-> 0]
CoinsOf(r) == Golden \cap (r.start)..(r.end - 1)

Init ==
    /\ state \in {"mining", "asking"}
    /\ range.start = 0
    /\ sent = {}
    /\ stopped = FALSE

Send ==
    /\ state = "mining"
    /\ sent \subseteq sent'
    /\ sent' \subseteq CoinsOf(range)
    /\ UNCHANGED <<state, range, stopped>>

TakeStop ==
    /\ state = "mining"
    /\ stopped' = TRUE
    /\ UNCHANGED <<state, range, sent>>

Ask ==
    /\ state = "mining"
    /\ ~stopped
    /\ sent = CoinsOf(range)
    /\ state' = "asking"
    /\ UNCHANGED <<range, sent, stopped>>

TakeRange ==
    /\ state = "asking"
    /\ range'.start >= range.end
    /\ range'.end > range'.start
    /\ sent' = {}
    /\ state' = "mining"
    /\ UNCHANGED stopped

TakeStopReply ==
    /\ state = "asking"
    /\ range' = StopReply
    /\ sent' = {}
    /\ stopped' = TRUE
    /\ state' = "mining"

Leave ==
    /\ state = "mining"
    /\ stopped
    /\ state' = "gone"
    /\ UNCHANGED <<range, sent, stopped>>

Next == Send \/ TakeStop \/ Ask \/ TakeRange \/ TakeStopReply \/ Leave

Spec == Init /\ [][Next]_vars
=============================================================================
