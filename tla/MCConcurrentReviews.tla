---------------------------- MODULE MCConcurrentReviews ----------------------------
(* Instances of ConcurrentReviews for TLC.                                            *)
EXTENDS ConcurrentReviews, TLC

CONSTANTS plain, shouted

FoldCase == [w \in Whys |-> IF w = shouted THEN plain ELSE w]

(* The goroutines are alike.                                                          *)
Alike == Permutations(Goroutines)
====================================================================================
