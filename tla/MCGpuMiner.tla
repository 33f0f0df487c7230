----------------------------- MODULE MCGpuMiner -----------------------------
(* Words of four bits and launches of four threads: the counter starts     *)
(* again after four launches.  A and C are the low four bits of the        *)
(* program's constants, 1103515245 and 12345.                              *)
EXTENDS GpuMiner

MCA == 1103515245 % WORD
MCC == 12345 % WORD

(* From base 5 the bases are 5, 10, 11, 8, 1, 6, ...: launches with two    *)
(* coins, with three (more than the buffer holds), with one, with two of   *)
(* which one is bad, again with two, and then with none.                   *)
MCGolden == {<<5, 2>>, <<5, 3>>, <<5, 12>>, <<10, 4>>, <<10, 5>>, <<10, 7>>,
             <<11, 9>>, <<8, 13>>, <<8, 14>>, <<1, 0>>, <<1, 1>>}
MCBad == {<<8, 14>>}
MCFirstBases == {5, 1}

(* The generator has its full period, which the proofs suppose. *)
MCBase[k \in 0..(WORD - 1)] ==
    IF k = 0 THEN 0 ELSE (MCBase[k - 1] * MCA + MCC) % WORD
MCRank == [b \in 0..(WORD - 1) |-> CHOOSE k \in 0..(WORD - 1) : MCBase[k] = b]
ASSUME PeriodAssumption == Ranks(MCRank)
=============================================================================
