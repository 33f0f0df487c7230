------------------------------ MODULE CoinLedger ------------------------------
(***************************************************************************)
(* What a miner promises about the coins it finds, whatever its workers    *)
(* are: every coin is found once, only a coin that was found is saved,     *)
(* none is saved twice or taken back, and none is saved after the ledger   *)
(* has been closed.                                                        *)
(***************************************************************************)
EXTENDS Sequences, Functions

CONSTANT Coin

VARIABLES
    found,     \* the set of coins found
    saved,     \* the coins saved, in order
    closed

vars == <<found, saved, closed>>

Init ==
    /\ found = {}
    /\ saved = <<>>
    /\ closed = FALSE

Find(c) ==
    /\ c \notin found
    /\ found' = found \cup {c}
    /\ UNCHANGED <<saved, closed>>

Save(c) ==
    /\ ~closed
    /\ c \in found \ Range(saved)
    /\ saved' = Append(saved, c)
    /\ UNCHANGED <<found, closed>>

Close ==
    /\ ~closed
    /\ closed' = TRUE
    /\ UNCHANGED <<found, saved>>

Next == Close \/ \E c \in Coin : Find(c) \/ Save(c)

Spec == Init /\ [][Next]_vars
=============================================================================
