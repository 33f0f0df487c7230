------------------------------ MODULE MCVault ------------------------------
(* The vault on a buffer of two lines, with four kinds of coins. *)
EXTENDS Vault

MCCoins ==
    {[id |-> 1, template |-> TRUE, signature |-> TRUE, zeros |-> 3],
     [id |-> 2, template |-> TRUE, signature |-> TRUE, zeros |-> 120],
     [id |-> 3, template |-> TRUE, signature |-> FALSE, zeros |-> 0],
     [id |-> 4, template |-> FALSE, signature |-> TRUE, zeros |-> 0]}
=============================================================================
