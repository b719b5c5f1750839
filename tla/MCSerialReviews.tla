------------------------------ MODULE MCSerialReviews ------------------------------
(* Instances of SerialReviews for TLC.                                                *)
EXTENDS SerialReviews, TLC

CONSTANTS plain, other

SameText == [w \in Whys |-> w]

(* Nothing tells the two reasons apart.                                               *)
Reasons == Permutations({plain, other})
====================================================================================
