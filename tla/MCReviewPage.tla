------------------------------- MODULE MCReviewPage -------------------------------
(* Instances of ReviewPage for TLC.                                                  *)
EXTENDS ReviewPage

CONSTANTS
  plain,
  other  \* a reason of its own

(* Every text is a reason of its own: an edit can make one entry clash with another.  *)
AsItIs == [w \in Whys |-> w]
===================================================================================
