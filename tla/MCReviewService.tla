------------------------------ MODULE MCReviewService ------------------------------
(* Instances of ReviewService for TLC.                                               *)
EXTENDS ReviewService

CONSTANTS
  shouted,  \* the text of plain in other letters and spaces
  plain

(* EqualFold of the trimmed texts: plain and shouted are the same reason.             *)
FoldCase == [w \in Whys |-> IF w = shouted THEN plain ELSE w]
=====================================================================================
