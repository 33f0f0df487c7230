------------------------------- MODULE MCSha1 -------------------------------
(* Two coins of deti_coins_v2_vault.txt and a message of ones. *)
EXTENDS Sha1

Template == [i \in 0..13 |->
    CASE i = 0 -> Hex(\h4445, \h5449)
      [] i = 1 -> Hex(\h2063, \h6F69)
      [] i = 2 -> Hex(\h6E20, \h3220)
      [] i = 13 -> Hex(0, \h0A80)
      [] OTHER -> {}]

(* A coin of the CUDA miner and one with a text. *)
Coins == {
    [Template EXCEPT ![3] = Hex(\h187F, \h745F), ![5] = Hex(\h062E, \hCBAA)],
    [Template EXCEPT ![3] = Hex(\h544F, \h5362), ![4] = Hex(\h616E, \h616E),
                     ![5] = Hex(\h6143, \h4F49), ![6] = Hex(\h4E20, \h2020),
                     ![7] = Hex(\h7C5C, \h3930), ![8] = {2},
                     ![9] = Hex(\h6918, \h7F37)] }

AllOnes == [i \in 0..13 |-> IF i = 13 THEN Hex(\hFFFF, \hFF80) ELSE Bits]

MCMessages == Coins \cup {AllOnes}

(* The reference gives both coins the signature for which they were kept. *)
ASSUME CoinsHaveTheSignature ==
    \A m \in Coins : Digest(m)[1] = Hex(\hAAD2, \h0250)
=============================================================================
