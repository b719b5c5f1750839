------------------------------- MODULE SerialReviews -------------------------------
(***********************************************************************************)
(* ConcurrentReviews with the memory of what the reviews showed when no request was *)
(* under way but one that had its stamp.  When requests come one at a time, that is a  *)
(* behaviour of ReviewService: its account of what refused requests leave behind is   *)
(* what the walk over the shared arrays does.  A request takes its effect when it gets  *)
(* its stamp or is refused: nobody can tell that from the moment it writes, and time    *)
(* may pass before it does, and before an update that was saved is answered.           *)
(***********************************************************************************)
EXTENDS ConcurrentReviews

VARIABLE settled   \* reviews, last id and outcome when the last request took its effect

Settled == \A p \in Busy : pc[p] \in {"write", "answer"}

(* What the caller of the last request was told, or will be.                           *)
Told ==
  IF Busy = {} THEN outcome
  ELSE LET p == CHOOSE q \in Busy : TRUE IN
       IF pc[p] = "write" /\ own[p].op \notin Updates THEN "ok" ELSE AnswerTo(own[p])

(* The requests that have stamped the review and not yet written it.                    *)
Writers(id) == {p \in Goroutines : pc[p] = "write" /\ own[p].review.id = id}

Latest(id) ==
  IF Writers(id) = {} THEN reviews[id] ELSE own[CHOOSE p \in Writers(id) : TRUE].review

Now ==
  [reviews |-> [id \in DOMAIN reviews |-> View(Latest(id))], lastID |-> lastID, outcome |-> Told]

SInit == Init /\ settled = Now

SNext == Next /\ settled' = IF Settled' THEN Now' ELSE settled

SSpec == SInit /\ [][SNext]_<<vars, settled>>

Service == INSTANCE ReviewService WITH
  reviews  <- settled.reviews,
  lastID   <- settled.lastID,
  outcome  <- settled.outcome,
  causes   <- {SeedCause},
  triggers <- {SeedTrigger},
  MaxRows  <- 1

(* One at a time, the goroutines and their arrays do what ReviewService says.          *)
ImplementsService == Service!Spec
====================================================================================
