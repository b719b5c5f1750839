---------------------------------- MODULE Review ----------------------------------
(***********************************************************************************)
(* The aggregate of the system: a Review and what its methods compute             *)
(* (internal/reviewing/review.go).  A method of the code takes the Review by value *)
(* but its two slices still point at the arrays the store holds, so a method that  *)
(* fails has already written to the stored review.  Each method is given by up to  *)
(* three operators: when it is refused, what it returns, and what it leaves in the *)
(* stored slice when it is refused.                                                *)
(***********************************************************************************)
EXTENDS Integers, Sequences, FiniteSets, Functions

CONSTANTS
  Bodies,       \* values of the seven required text fields of a review, taken together
  ValidBodies,  \* the bodies that pass the validate tags: all present, URL an http URL
  Whys,         \* the texts somebody can give as the reason for a binding
  NoWhy,        \* the empty text
  Fold          \* a text up to letter case and surrounding white space

ASSUME BodiesAssumption == ValidBodies \subseteq Bodies
ASSUME WhysAssumption   == NoWhy \in Whys /\ Fold \in [Whys -> Whys]

(* Identifiers are UUIDs of version 7: they grow with time, and uuid.Nil is none.  *)
IDs == Nat
Nil == 0

(* Times are instants of time.Now; the zero time.Time is before all of them.       *)
Times == Nat
ZeroTime == 0

BoundCause == [id : IDs, cause : IDs, why : Whys, proximal : BOOLEAN]

BoundTrigger == [id : IDs, trigger : IDs, why : Whys]

ReviewType ==
  [id : IDs, body : Bodies, causes : Seq(BoundCause), triggers : Seq(BoundTrigger),
   createdAt : Times, updatedAt : Times]

NewReview(id, body) ==
  [id |-> id, body |-> body, causes |-> <<>>, triggers |-> <<>>,
   createdAt |-> ZeroTime, updatedAt |-> ZeroTime]

(* Mutant of Update: the whole of the form's review but for what is bound.          *)
UpdateAllFields(r, o) == [o EXCEPT !.causes = r.causes, !.triggers = r.triggers]

(* Review.Update: the form's fields and nothing else.                              *)
Update(r, o) == [r EXCEPT !.body = o.body]

(* The validator's verdict.  The slices carry no dive tag: their entries are not    *)
(* looked into.                                                                    *)
Validates(r) == r.id # Nil /\ r.body \in ValidBodies

(* Mutant of UpdateTimestamps: every save is taken for the first.                   *)
UpdateBothTimestamps(r, now) == [r EXCEPT !.createdAt = now, !.updatedAt = now]

UpdateTimestamps(r, now) ==
  [r EXCEPT !.createdAt = IF @ = ZeroTime THEN now ELSE @,
            !.updatedAt = now]

-------------------------------------------------------------------------------------
(* slices.DeleteFunc by id: the entries that stay, in their order.  The set of the   *)
(* sequences that list s at an increasing enumeration of the kept positions has one  *)
(* member.                                                                           *)
(* Kept has a mutant that cuts the slice off at the entry, Without one that deletes   *)
(* nothing.                                                                          *)
KeptInFront(s, id) == {i \in DOMAIN s : \A j \in DOMAIN s : s[j].id = id => i < j}

Kept(s, id) == {i \in DOMAIN s : s[i].id # id}

Increasing(f) == \A i, j \in DOMAIN f : i < j => f[i] < f[j]

Enumerations(P) == {f \in Surjection(1..Cardinality(P), P) : Increasing(f)}

WithoutNone(s, id) == {s}

Without(s, id) ==
  {[i \in 1..Cardinality(Kept(s, id)) |-> s[f[i]]] : f \in Enumerations(Kept(s, id))}

Holds(s, id) == \E i \in DOMAIN s : s[i].id = id

(* slices.DeleteFunc zeroes the positions it vacates, and the stored slice, whose    *)
(* length nobody changed, still shows them.                                          *)
BlankCause == [id |-> Nil, cause |-> Nil, why |-> NoWhy, proximal |-> FALSE]

Padded(cs, n) == [i \in 1..n |-> IF i \in DOMAIN cs THEN cs[i] ELSE BlankCause]

-------------------------------------------------------------------------------------
(* Review.BindContributingCause.                                                     *)
SameReason(c, rc) == c.cause = rc.cause /\ Fold[c.why] = Fold[rc.why]

(* Mutant of Clashes: the texts are compared as they are.                             *)
ClashesSpelled(cs, rc) == {i \in DOMAIN cs : cs[i].cause = rc.cause /\ cs[i].why = rc.why}

Clashes(cs, rc) == {i \in DOMAIN cs : SameReason(cs[i], rc)}

(* Mutants of Reached: the loop stops short of the last entry; it rewrites an entry    *)
(* before it compares it.                                                             *)
ReachedButLast(cs, rc) ==
  {i \in DOMAIN cs : i < Len(cs) /\ \A j \in Clashes(cs, rc) : i < j}

ReachedAndClash(cs, rc) == {i \in DOMAIN cs : \A j \in Clashes(cs, rc) : i <= j}

(* The loop rewrites the entries in front of the first clash, where it returns.      *)
Reached(cs, rc) == {i \in DOMAIN cs : \A j \in Clashes(cs, rc) : i < j}

(* Mutant of UnsetProximal: whether the new entry is proximal is not asked.            *)
UnsetAlways(c, rc) == [c EXCEPT !.proximal = FALSE]

UnsetProximal(c, rc) == IF rc.proximal THEN [c EXCEPT !.proximal = FALSE] ELSE c

Rewritten(cs, rc) ==
  [i \in DOMAIN cs |-> IF i \in Reached(cs, rc) THEN UnsetProximal(cs[i], rc) ELSE cs[i]]

BindRefused(cs, rc) == Clashes(cs, rc) # {}

EnsureID(rc, fresh) == IF rc.id = Nil THEN [rc EXCEPT !.id = fresh] ELSE rc

Bind(cs, rc, fresh) == Append(Rewritten(cs, rc), EnsureID(rc, fresh))

BindResidue(cs, rc) == Rewritten(cs, rc)

-------------------------------------------------------------------------------------
(* Mutant of RebindResidue: the review that comes back with the error is stored.      *)
RebindReturned(cs, rest, o) == Rewritten(rest, o)

(* Review.UpdateBoundContributingCause, with rest the causes without o's: bound again *)
(* at the end, or, when another entry gives the same reason, gone.                   *)
RebindResidue(cs, rest, o) == Padded(Rewritten(rest, o), Len(cs))

(* Review.BindTrigger and Review.UpdateBoundTrigger: no reason is ever refused.      *)
AddTrigger(ts, fresh, trigger, why) ==
  Append(ts, [id |-> fresh, trigger |-> trigger, why |-> why])

ReplaceTrigger(rest, o) == Append(rest, o)

-------------------------------------------------------------------------------------
(* What a list of bound causes should be like.  Blanks have no id and are all alike.  *)
OneProximal(cs) == \A i, j \in DOMAIN cs : cs[i].proximal /\ cs[j].proximal => i = j

DistinctReasons(cs) ==
  \A i, j \in DOMAIN cs : i # j /\ SameReason(cs[i], cs[j]) => cs[i].id = Nil /\ cs[j].id = Nil

(* known holds the ids of the catalogue                                                *)
KnownCauses(cs, known) ==
  \A i \in DOMAIN cs : IF cs[i].id = Nil THEN cs[i] = BlankCause ELSE cs[i].cause \in known

KnownTriggers(ts, known) == \A i \in DOMAIN ts : ts[i].id # Nil /\ ts[i].trigger \in known

DistinctIDs(s) == \A i, j \in DOMAIN s : i # j /\ s[i].id = s[j].id => s[i].id = Nil

(* What holds of a list of bound causes between requests; last is the last id in use. *)
CausesInv(cs, known, last) ==
  /\ cs \in Seq(BoundCause)
  /\ OneProximal(cs)
  /\ DistinctReasons(cs)
  /\ DistinctIDs(cs)
  /\ KnownCauses(cs, known)
  /\ \A i \in DOMAIN cs : cs[i].id <= last

TriggersInv(ts, known, last) ==
  /\ ts \in Seq(BoundTrigger)
  /\ DistinctIDs(ts)
  /\ KnownTriggers(ts, known)
  /\ \A i \in DOMAIN ts : ts[i].id <= last
=====================================================================================
