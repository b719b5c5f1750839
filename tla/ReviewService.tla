------------------------------- MODULE ReviewService -------------------------------
(***********************************************************************************)
(* reviewing.Service over its in-memory stores, one request after another: what a  *)
(* single caller who waits for each answer sees (internal/reviewing/review.go and  *)
(* serviceactions.go, internal/reviewing/storage/memory.go, and the saves of the   *)
(* two catalogues in internal/normalized).  ConcurrentReviews takes the same       *)
(* requests apart into the steps goroutines interleave.                            *)
(***********************************************************************************)
EXTENDS Review

CONSTANTS
  MaxID,        \* bound on the identifiers put to use in a behaviour
  MaxReviews,   \* bound on the stored reviews
  MaxCauses,    \* bound on the causes bound to one review
  MaxTriggers,  \* bound on the triggers bound to one review
  MaxRows,      \* bound on the rows of a catalogue
  MaxClock      \* bound on the clock

ASSUME BoundsAssumption ==
  /\ MaxID \in Nat /\ MaxID >= 2
  /\ MaxReviews \in Nat /\ MaxCauses \in Nat /\ MaxTriggers \in Nat /\ MaxRows \in Nat
  /\ MaxClock \in Nat \ {0}

VARIABLES
  reviews,   \* MemoryStore.data: the stored reviews by id
  causes,    \* the ids in the store of contributing causes
  triggers,  \* the ids in the store of triggers
  lastID,    \* the last identifier of uuid.NewV7 that was put to use
  clock,     \* what time.Now returns
  outcome    \* what the caller of the last request was told

vars == <<reviews, causes, triggers, lastID, clock, outcome>>

(* "ok"; "refused": an error, nothing saved; "unexpected": an error after the save. *)
Outcomes == {"none", "ok", "refused", "unexpected"}

TypeOK ==
  /\ DOMAIN reviews \subseteq 1..lastID
  /\ reviews \in [DOMAIN reviews -> ReviewType]
  /\ causes \subseteq 1..lastID
  /\ triggers \subseteq 1..lastID
  /\ lastID \in 2..MaxID
  /\ clock \in 1..MaxClock
  /\ outcome \in Outcomes

SeedCause == 1
SeedTrigger == 2

(* app.Start stores one cause and one trigger before it serves.                     *)
Init ==
  /\ reviews = <<>>
  /\ causes = {SeedCause}
  /\ triggers = {SeedTrigger}
  /\ lastID = 2
  /\ clock = 1
  /\ outcome = "none"

-------------------------------------------------------------------------------------
(* uuid.NewV7.  An id made for a request that is then refused is never seen again and *)
(* does not count.                                                                    *)
NewID == lastID + 1
FreshLeft == lastID < MaxID

Put(m, k, v) == [x \in DOMAIN m \cup {k} |-> IF x = k THEN v ELSE m[x]]

(* Mutant of Save: it does not validate.                                              *)
SaveUnvalidated(r) == reviews' = Put(reviews, r.id, UpdateTimestamps(r, clock))

(* Service.Save with its Save action: validate, stamp, store under the review's id.   *)
Save(r) ==
  /\ Validates(r)
  /\ reviews' = Put(reviews, r.id, UpdateTimestamps(r, clock))

(* What a refused request may still write through the stored slice.                   *)
LeaveCauses(id, cs) == reviews' = [reviews EXCEPT ![id].causes = cs]

(* MemoryStore.Get fails, or the Get of a catalogue: the request ends there.          *)
NotFound(found) ==
  /\ ~ found
  /\ outcome' = "refused"
  /\ UNCHANGED <<reviews, causes, triggers, lastID, clock>>

Create(body) ==
  LET r == NewReview(NewID, body) IN
  /\ \/ /\ FreshLeft /\ Cardinality(DOMAIN reviews) < MaxReviews
        /\ Save(r)
        /\ lastID' = NewID
        /\ outcome' = "ok"
     \/ /\ ~ Validates(r)
        /\ outcome' = "refused"
        /\ UNCHANGED <<reviews, lastID>>
  /\ UNCHANGED <<causes, triggers, clock>>

(* reviewsHandler.Update: Get, Review.Update with the form (itself a review with an   *)
(* id of its own), Save.                                                              *)
UpdateReview(id, body) ==
  \/ NotFound(id \in DOMAIN reviews)
  \/ LET r == Update(reviews[id], NewReview(NewID, body)) IN
     /\ id \in DOMAIN reviews
     /\ \/ /\ Save(r)
           /\ outcome' = "ok"
        \/ /\ ~ Validates(r)
           /\ outcome' = "refused"
           /\ UNCHANGED reviews
     /\ UNCHANGED <<causes, triggers, lastID, clock>>

(* Service.BindContributingCause.  Its Save cannot fail: StoredAreValid.              *)
BindContributingCause(id, cause, why, proximal) ==
  \/ NotFound(id \in DOMAIN reviews /\ cause \in causes)
  \/ LET rc == [id |-> Nil, cause |-> cause, why |-> why, proximal |-> proximal]
         cs == reviews[id].causes
     IN
     /\ id \in DOMAIN reviews
     /\ cause \in causes
     /\ \/ /\ ~ BindRefused(cs, rc)
           /\ FreshLeft /\ Len(cs) < MaxCauses
           /\ Save([reviews[id] EXCEPT !.causes = Bind(cs, rc, NewID)])
           /\ lastID' = NewID
           /\ outcome' = "ok"
        \/ /\ BindRefused(cs, rc)
           /\ LeaveCauses(id, BindResidue(cs, rc))
           /\ outcome' = "refused"
           /\ UNCHANGED lastID
     /\ UNCHANGED <<causes, triggers, clock>>

(* Service.UpdateBoundContributingCause.  An entry bound without an id gets a fresh    *)
(* one, and then the service does not find it under the id it was asked for.           *)
UpdateBoundContributingCause(id, o) ==
  \/ NotFound(id \in DOMAIN reviews /\ o.cause \in causes)
  \/ LET cs == reviews[id].causes IN
     /\ id \in DOMAIN reviews
     /\ o.cause \in causes
     /\ \/ /\ ~ Holds(cs, o.id)
           /\ outcome' = "refused"
           /\ UNCHANGED <<reviews, lastID>>
        \/ \E rest \in Without(cs, o.id) :
             /\ Holds(cs, o.id)
             /\ \/ /\ ~ BindRefused(rest, o)
                   /\ o.id = Nil => FreshLeft
                   /\ Save([reviews[id] EXCEPT !.causes = Bind(rest, o, NewID)])
                   /\ lastID' = IF o.id = Nil THEN NewID ELSE lastID
                   /\ outcome' = IF o.id = Nil THEN "unexpected" ELSE "ok"
                \/ /\ BindRefused(rest, o)
                   /\ LeaveCauses(id, RebindResidue(cs, rest, o))
                   /\ outcome' = "refused"
                   /\ UNCHANGED lastID
     /\ UNCHANGED <<causes, triggers, clock>>

(* Mutant of BindTrigger: the trigger is not looked up.                                *)
BindTriggerUnchecked(id, trigger, why) ==
  LET ts == reviews[id].triggers IN
  /\ id \in DOMAIN reviews
  /\ FreshLeft
  /\ Len(ts) < MaxTriggers
  /\ lastID' = NewID
  /\ Save([reviews[id] EXCEPT !.triggers = AddTrigger(ts, NewID, trigger, why)])
  /\ outcome' = "ok"
  /\ UNCHANGED <<causes, triggers, clock>>

(* Service.BindTrigger                                                                 *)
BindTrigger(id, trigger, why) ==
  \/ NotFound(id \in DOMAIN reviews /\ trigger \in triggers)
  \/ LET ts == reviews[id].triggers IN
     /\ id \in DOMAIN reviews
     /\ trigger \in triggers
     /\ FreshLeft
     /\ Len(ts) < MaxTriggers
     /\ lastID' = NewID
     /\ Save([reviews[id] EXCEPT !.triggers = AddTrigger(ts, NewID, trigger, why)])
     /\ outcome' = "ok"
     /\ UNCHANGED <<causes, triggers, clock>>

(* Service.UpdateBoundTrigger                                                          *)
UpdateBoundTrigger(id, o) ==
  \/ NotFound(id \in DOMAIN reviews /\ o.trigger \in triggers)
  \/ LET ts == reviews[id].triggers IN
     /\ id \in DOMAIN reviews
     /\ o.trigger \in triggers
     /\ \/ /\ ~ Holds(ts, o.id)
           /\ outcome' = "refused"
           /\ UNCHANGED reviews
        \/ \E rest \in Without(ts, o.id) :
             /\ Holds(ts, o.id)
             /\ Save([reviews[id] EXCEPT !.triggers = ReplaceTrigger(rest, o)])
             /\ outcome' = "ok"
     /\ UNCHANGED <<causes, triggers, lastID, clock>>

(* CauseService.Save and TriggerService.Save of a new row; Catalog has their detail.   *)
CreateCause ==
  /\ FreshLeft /\ Cardinality(causes) < MaxRows
  /\ lastID' = NewID
  /\ causes' = causes \cup {NewID}
  /\ outcome' = "ok"
  /\ UNCHANGED <<reviews, triggers, clock>>

CreateTrigger ==
  /\ FreshLeft /\ Cardinality(triggers) < MaxRows
  /\ lastID' = NewID
  /\ triggers' = triggers \cup {NewID}
  /\ outcome' = "ok"
  /\ UNCHANGED <<reviews, causes, clock>>

(* Time passes between two requests.                                                   *)
Tick ==
  /\ clock < MaxClock
  /\ clock' = clock + 1
  /\ UNCHANGED <<reviews, causes, triggers, lastID, outcome>>

(* The ids a caller may name.  Every id that is not stored is answered in the same way: *)
(* one stands for all of them.                                                          *)
Unknown == MaxID + 1

ReviewIDs == DOMAIN reviews \cup {Unknown}
CauseIDs == causes \cup {Unknown}
TriggerIDs == triggers \cup {Unknown}

EntryIDs(s) == {s[i].id : i \in DOMAIN s} \cup {Nil, Unknown}

CauseEntryIDs(id) == EntryIDs(IF id \in DOMAIN reviews THEN reviews[id].causes ELSE <<>>)
TriggerEntryIDs(id) == EntryIDs(IF id \in DOMAIN reviews THEN reviews[id].triggers ELSE <<>>)

Next ==
  \/ \E body \in Bodies : Create(body)
  \/ \E id \in ReviewIDs, body \in Bodies : UpdateReview(id, body)
  \/ \E id \in ReviewIDs, cause \in CauseIDs, why \in Whys, proximal \in BOOLEAN :
       BindContributingCause(id, cause, why, proximal)
  \/ \E id \in ReviewIDs, cause \in CauseIDs, why \in Whys, proximal \in BOOLEAN :
       \E entry \in CauseEntryIDs(id) :
         UpdateBoundContributingCause(id,
           [id |-> entry, cause |-> cause, why |-> why, proximal |-> proximal])
  \/ \E id \in ReviewIDs, trigger \in TriggerIDs, why \in Whys :
       BindTrigger(id, trigger, why)
  \/ \E id \in ReviewIDs, trigger \in TriggerIDs, why \in Whys :
       \E entry \in TriggerEntryIDs(id) :
         UpdateBoundTrigger(id, [id |-> entry, trigger |-> trigger, why |-> why])
  \/ CreateCause
  \/ CreateTrigger
  \/ Tick

Spec == Init /\ [][Next]_vars

-------------------------------------------------------------------------------------
Bound(r) == {c \in Range(r.causes) : c.id # Nil}

BoundCauseIDs(r) == {c.id : c \in Bound(r)}

BoundTriggerIDs(r) == {t.id : t \in Range(r.triggers)}

(* A review never shows two proximal causes, whatever was bound, updated or refused    *)
(* before (BindContributingCause, "only one proximal cause at a time").                *)
AtMostOneProximal ==
  \A id \in DOMAIN reviews : OneProximal(reviews[id].causes)

(* No two entries of a review give one cause with the same reason, up to case and       *)
(* space: neither a bind nor the update of an entry can bring that about.               *)
NoRepeatedReason ==
  \A id \in DOMAIN reviews : DistinctReasons(reviews[id].causes)

(* An id names one entry of a review: what GetBoundContributingCause, GetBoundTrigger   *)
(* and the two updates look up by id is the entry the user clicked.                     *)
DistinctBoundIDs ==
  \A id \in DOMAIN reviews :
    DistinctIDs(reviews[id].causes) /\ DistinctIDs(reviews[id].triggers)

(* Every entry with an id refers to a row of its catalogue, and no entry without one     *)
(* does.                                                                                *)
BoundToKnown ==
  \A id \in DOMAIN reviews :
    /\ KnownCauses(reviews[id].causes, causes)
    /\ KnownTriggers(reviews[id].triggers, triggers)

(* The store holds each review under its own id, valid, and saved no later than now:    *)
(* no request can make a stored review one that its next Save would reject.             *)
StoredAreValid ==
  \A id \in DOMAIN reviews : LET r == reviews[id] IN
    /\ r.id = id /\ r.body \in ValidBodies
    /\ ZeroTime < r.createdAt /\ r.createdAt <= r.updatedAt /\ r.updatedAt <= clock

(* The inductive invariant: all of these together, and the order of the ids and times   *)
(* that makes new ones new.                                                              *)
Stored(r, id, known, hooks, last, now) ==
  /\ r \in ReviewType
  /\ r.id = id /\ r.body \in ValidBodies
  /\ CausesInv(r.causes, known, last)
  /\ TriggersInv(r.triggers, hooks, last)
  /\ ZeroTime < r.createdAt /\ r.createdAt <= r.updatedAt /\ r.updatedAt <= now

IInv ==
  /\ TypeOK
  /\ \A id \in DOMAIN reviews : Stored(reviews[id], id, causes, triggers, lastID, clock)

(* A refused request saves nothing: it adds no review, no cause and no trigger, and no   *)
(* field of the form or timestamp moves; of the causes at most one is gone.              *)
RefusedSavesNothing ==
  [][outcome' = "refused" =>
       /\ DOMAIN reviews' = DOMAIN reviews
       /\ \A id \in DOMAIN reviews :
            /\ reviews'[id] = [reviews[id] EXCEPT !.causes = reviews'[id].causes]
            /\ Len(reviews'[id].causes) = Len(reviews[id].causes)
            /\ BoundCauseIDs(reviews'[id]) \subseteq BoundCauseIDs(reviews[id])
            /\ Cardinality(BoundCauseIDs(reviews[id]) \ BoundCauseIDs(reviews'[id])) <= 1]_vars

(* Nothing that is bound gets lost in a request that succeeds, and no trigger ever.      *)
SavesLoseNothing ==
  [][\A id \in DOMAIN reviews :
       /\ id \in DOMAIN reviews'
       /\ BoundTriggerIDs(reviews[id]) \subseteq BoundTriggerIDs(reviews'[id])
       /\ outcome' # "refused" => BoundCauseIDs(reviews[id]) \subseteq BoundCauseIDs(reviews'[id])]_vars

(* When a request succeeds the proximal mark of a review only goes away by an update of  *)
(* the marked entry, which is then the last one.                                         *)
MarkOutlivesOtherRequests ==
  [][\A id \in DOMAIN reviews : \A c \in Range(reviews[id].causes) :
       /\ c.proximal
       /\ outcome' # "refused"
       /\ \A d \in Range(reviews'[id].causes) : ~ d.proximal
       => LET cs == reviews'[id].causes IN cs[Len(cs)].id = c.id]_vars

(* The time of creation is written once, and the time of the last change moves with      *)
(* every save of the review and with nothing else.                                       *)
TimestampsTellSaves ==
  [][\A id \in DOMAIN reviews :
       LET old == reviews[id]  new == reviews'[id] IN
       /\ new.createdAt = old.createdAt
       /\ new.updatedAt # old.updatedAt => new.updatedAt = clock
       /\ new # old /\ outcome' # "refused" => new.updatedAt = clock]_vars

(* The service implements the book: blanks do not count, the order of the slices does    *)
(* not matter, and the marked entry is the proximal cause.                               *)
EntryOf(c) == [id |-> c.id, cause |-> c.cause, why |-> c.why]

Marked(r) == {c.id : c \in {d \in Bound(r) : d.proximal}}

BookOf(r) ==
  [body     |-> r.body,
   entries  |-> {EntryOf(c) : c \in Bound(r)},
   proximal |-> IF Marked(r) = {} THEN Nil ELSE CHOOSE id \in Marked(r) : TRUE,
   triggers |-> Range(r.triggers)]

Book == INSTANCE ReviewBook WITH
  BookIDs <- 1..MaxID,
  book    <- [id \in DOMAIN reviews |-> BookOf(reviews[id])]

ImplementsBook == Book!BookSpec

(* "Ensure there is always an ID set for the BoundCause" (review.go:81).                 *)
BoundCausesHaveIDs ==
  \A id \in DOMAIN reviews : \A c \in Range(reviews[id].causes) : c.id # Nil
=====================================================================================
