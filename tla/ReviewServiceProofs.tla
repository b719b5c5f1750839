---------------------------- MODULE ReviewServiceProofs ----------------------------
(***********************************************************************************)
(* ReviewService keeps its inductive invariant, and with it the safety invariants, *)
(* for any bodies, reasons and bounds, and implements ReviewBook; and what a step   *)
(* of it may never do.                                                              *)
(***********************************************************************************)
EXTENDS ReviewService, ReviewProofs

LEMMA StoredGrows ==
  ASSUME NEW r, NEW id, NEW known, NEW more, NEW hooks, NEW moreHooks,
         NEW last \in Nat, NEW later \in Nat, NEW now \in Nat, NEW after \in Nat,
         Stored(r, id, known, hooks, last, now),
         known \subseteq more, hooks \subseteq moreHooks, last <= later, now <= after
  PROVE  Stored(r, id, more, moreHooks, later, after)
<1>1. CausesInv(r.causes, more, later)
  BY CausesInvGrows DEF Stored
<1>2. TriggersInv(r.triggers, moreHooks, later)
  BY TriggersInvGrows DEF Stored
<1>3. r.updatedAt \in Nat /\ r.updatedAt <= after
  BY DEF Stored, ReviewType, Times
<1> QED
  BY <1>1, <1>2, <1>3 DEF Stored

(* A review that is saved with lists that are fine and times no later than now is      *)
(* stored as it should be.                                                            *)
LEMMA SaveInv ==
  ASSUME IInv, NEW r \in ReviewType, Save(r),
         lastID' \in lastID..MaxID, UNCHANGED <<causes, triggers, clock>>, outcome' \in Outcomes,
         r.id \in 1..lastID',
         CausesInv(r.causes, causes, lastID'), TriggersInv(r.triggers, triggers, lastID'),
         r.createdAt <= clock
  PROVE  IInv'
<1> DEFINE new == UpdateTimestamps(r, clock)
<1>1. /\ lastID \in Nat /\ lastID' \in Nat /\ lastID <= lastID' /\ clock \in Nat /\ 0 < clock
      /\ MaxID \in Nat
  BY BoundsAssumption DEF IInv, TypeOK
<1>2. /\ new \in ReviewType /\ new.id = r.id /\ new.body = r.body
      /\ new.causes = r.causes /\ new.triggers = r.triggers
      /\ ZeroTime < new.createdAt /\ new.createdAt <= new.updatedAt /\ new.updatedAt <= clock
  <2>1. r.createdAt \in Nat
    BY DEF ReviewType, Times
  <2>2. /\ new.id = r.id /\ new.body = r.body /\ new.causes = r.causes
        /\ new.triggers = r.triggers
        /\ new.createdAt = IF r.createdAt = ZeroTime THEN clock ELSE r.createdAt
        /\ new.updatedAt = clock
    BY DEF UpdateTimestamps, ReviewType
  <2>3. new.createdAt \in Times /\ new.updatedAt \in Times
    BY <1>1, <2>1, <2>2 DEF Times
  <2>4. new \in ReviewType
    BY <2>3 DEF UpdateTimestamps, ReviewType, Times
  <2>5. ZeroTime < new.createdAt /\ new.createdAt <= new.updatedAt /\ new.updatedAt <= clock
    BY <1>1, <2>1, <2>2 DEF ZeroTime
  <2> QED
    BY <2>2, <2>4, <2>5
<1>3. Stored(new, r.id, causes, triggers, lastID', clock)
  BY <1>2 DEF Stored, Save, Validates
<1>4. \A id \in DOMAIN reviews : Stored(reviews[id], id, causes, triggers, lastID', clock)
  BY <1>1, StoredGrows DEF IInv
<1>5. /\ DOMAIN reviews' = DOMAIN reviews \cup {r.id}
      /\ reviews'[r.id] = new
      /\ \A id \in DOMAIN reviews \ {r.id} : reviews'[id] = reviews[id]
  BY DEF Save, Put
<1>6. \A id \in DOMAIN reviews' : Stored(reviews'[id], id, causes, triggers, lastID', clock)
  BY <1>3, <1>4, <1>5
<1>7. reviews' = [id \in DOMAIN reviews' |-> reviews'[id]]
  BY DEF Save, Put
<1>8. TypeOK'
  <2>1. DOMAIN reviews' \subseteq 1..lastID'
    BY <1>1, <1>5 DEF IInv, TypeOK
  <2>2. reviews' \in [DOMAIN reviews' -> ReviewType]
    BY <1>6, <1>7 DEF Stored
  <2>3. causes' \subseteq 1..lastID' /\ triggers' \subseteq 1..lastID' /\ lastID' \in 2..MaxID
    BY <1>1 DEF IInv, TypeOK
  <2> QED
    BY <2>1, <2>2, <2>3 DEF IInv, TypeOK
<1> QED
  BY <1>6, <1>8 DEF IInv

(* What a refused request leaves in the stored slice has to be fine as well.           *)
LEMMA LeaveInv ==
  ASSUME IInv, NEW id \in DOMAIN reviews, NEW cs, CausesInv(cs, causes, lastID),
         LeaveCauses(id, cs), UNCHANGED <<causes, triggers, lastID, clock>>, outcome' \in Outcomes
  PROVE  IInv'
<1> DEFINE new == [reviews[id] EXCEPT !.causes = cs]
<1>1. reviews \in [DOMAIN reviews -> ReviewType] /\ Stored(reviews[id], id, causes, triggers, lastID, clock)
  BY DEF IInv, TypeOK
<1>2. /\ DOMAIN reviews' = DOMAIN reviews /\ reviews' = [x \in DOMAIN reviews |-> reviews'[x]]
      /\ reviews'[id] = new
      /\ \A x \in DOMAIN reviews \ {id} : reviews'[x] = reviews[x]
  BY <1>1 DEF LeaveCauses
<1>3. cs \in Seq(BoundCause)
  BY DEF CausesInv
<1>4. /\ new \in ReviewType /\ new.id = reviews[id].id /\ new.body = reviews[id].body
      /\ new.causes = cs /\ new.triggers = reviews[id].triggers
      /\ new.createdAt = reviews[id].createdAt /\ new.updatedAt = reviews[id].updatedAt
  BY <1>1, <1>3 DEF ReviewType
<1>5. Stored(new, id, causes, triggers, lastID, clock)
  BY <1>1, <1>4 DEF Stored
<1>6. \A x \in DOMAIN reviews' : Stored(reviews'[x], x, causes, triggers, lastID, clock)
  BY <1>2, <1>5 DEF IInv
<1>7. reviews' \in [DOMAIN reviews' -> ReviewType]
  BY <1>2, <1>6 DEF Stored
<1> QED
  BY <1>2, <1>6, <1>7 DEF IInv, TypeOK

(* What is known of a stored review, and of the same review with other lists.            *)
LEMMA StoredFacts ==
  ASSUME IInv, NEW id \in DOMAIN reviews
  PROVE  /\ reviews[id] \in ReviewType /\ reviews[id].id = id
         /\ id \in 1..lastID /\ lastID \in 2..MaxID /\ clock \in Nat /\ MaxID \in Nat
         /\ Nil \notin causes
         /\ CausesInv(reviews[id].causes, causes, lastID)
         /\ TriggersInv(reviews[id].triggers, triggers, lastID)
         /\ reviews[id].createdAt <= clock
<1>1. TypeOK /\ Stored(reviews[id], id, causes, triggers, lastID, clock)
  BY DEF IInv
<1>2. lastID \in 2..MaxID /\ clock \in Nat /\ MaxID \in Nat /\ id \in 1..lastID
  BY <1>1, BoundsAssumption DEF TypeOK
<1>3. Nil \notin causes
  BY <1>1 DEF TypeOK, Nil
<1>4. reviews[id] \in ReviewType /\ reviews[id].createdAt \in Nat /\ reviews[id].updatedAt \in Nat
  BY <1>1 DEF Stored, ReviewType, Times
<1>5. reviews[id].createdAt <= clock
  BY <1>1, <1>2, <1>4 DEF Stored
<1> QED
  BY <1>1, <1>2, <1>3, <1>4, <1>5 DEF Stored

LEMMA WithCauses ==
  ASSUME NEW r \in ReviewType, NEW cs \in Seq(BoundCause)
  PROVE  LET new == [r EXCEPT !.causes = cs] IN
         /\ new \in ReviewType /\ new.id = r.id /\ new.causes = cs
         /\ new.triggers = r.triggers /\ new.createdAt = r.createdAt
BY DEF ReviewType

LEMMA WithTriggers ==
  ASSUME NEW r \in ReviewType, NEW ts \in Seq(BoundTrigger)
  PROVE  LET new == [r EXCEPT !.triggers = ts] IN
         /\ new \in ReviewType /\ new.id = r.id /\ new.triggers = ts
         /\ new.causes = r.causes /\ new.createdAt = r.createdAt
BY DEF ReviewType

LEMMA SaveCauses ==
  ASSUME IInv, NEW id \in DOMAIN reviews, NEW cs,
         lastID' \in lastID..MaxID, CausesInv(cs, causes, lastID'),
         Save([reviews[id] EXCEPT !.causes = cs]),
         UNCHANGED <<causes, triggers, clock>>, outcome' \in Outcomes
  PROVE  IInv'
<1> DEFINE r == reviews[id]
           new == [r EXCEPT !.causes = cs]
<1>1. /\ r \in ReviewType /\ r.id = id /\ id \in 1..lastID
      /\ lastID \in 2..MaxID /\ clock \in Nat /\ MaxID \in Nat
      /\ TriggersInv(r.triggers, triggers, lastID) /\ r.createdAt <= clock
  BY StoredFacts
<1>2. cs \in Seq(BoundCause)
  BY DEF CausesInv
<1>3. /\ new \in ReviewType /\ new.id = id /\ new.causes = cs
      /\ new.triggers = r.triggers /\ new.createdAt = r.createdAt
  BY <1>1, <1>2, WithCauses
<1>4. lastID \in Nat /\ lastID' \in Nat /\ lastID <= lastID' /\ new.id \in 1..lastID'
  BY <1>1, <1>3
<1>5. TriggersInv(r.triggers, triggers, lastID')
  BY <1>1, <1>4, TriggersInvGrows
<1> HIDE DEF new, r
<1>6. Save(new)
  BY DEF new, r
<1> QED
  BY <1>1, <1>3, <1>4, <1>5, <1>6, SaveInv

LEMMA SaveTriggers ==
  ASSUME IInv, NEW id \in DOMAIN reviews, NEW ts,
         lastID' \in lastID..MaxID, TriggersInv(ts, triggers, lastID'),
         Save([reviews[id] EXCEPT !.triggers = ts]),
         UNCHANGED <<causes, triggers, clock>>, outcome' \in Outcomes
  PROVE  IInv'
<1> DEFINE r == reviews[id]
           new == [r EXCEPT !.triggers = ts]
<1>1. /\ r \in ReviewType /\ r.id = id /\ id \in 1..lastID
      /\ lastID \in 2..MaxID /\ clock \in Nat /\ MaxID \in Nat
      /\ CausesInv(r.causes, causes, lastID) /\ r.createdAt <= clock
  BY StoredFacts
<1>2. ts \in Seq(BoundTrigger)
  BY DEF TriggersInv
<1>3. /\ new \in ReviewType /\ new.id = id /\ new.triggers = ts
      /\ new.causes = r.causes /\ new.createdAt = r.createdAt
  BY <1>1, <1>2, WithTriggers
<1>4. lastID \in Nat /\ lastID' \in Nat /\ lastID <= lastID' /\ new.id \in 1..lastID'
  BY <1>1, <1>3
<1>5. CausesInv(r.causes, causes, lastID')
  BY <1>1, <1>4, CausesInvGrows
<1> HIDE DEF new, r
<1>6. Save(new)
  BY DEF new, r
<1> QED
  BY <1>1, <1>3, <1>4, <1>5, <1>6, SaveInv

-------------------------------------------------------------------------------------
LEMMA NothingStoredInv ==
  ASSUME IInv, UNCHANGED <<reviews, causes, triggers, lastID, clock>>, outcome' \in Outcomes
  PROVE  IInv'
BY DEF IInv, TypeOK

LEMMA InitInv == Init => IInv
<1> SUFFICES ASSUME Init PROVE IInv
  OBVIOUS
<1>1. DOMAIN reviews = {} /\ reviews \in [DOMAIN reviews -> ReviewType]
  BY DEF Init
<1>2. TypeOK
  BY <1>1, BoundsAssumption DEF Init, TypeOK, SeedCause, SeedTrigger, Outcomes
<1> QED
  BY <1>1, <1>2 DEF IInv

LEMMA CreateInv ==
  ASSUME IInv, NEW body \in Bodies, Create(body)
  PROVE  IInv'
<1> DEFINE r == NewReview(NewID, body)
<1>1. lastID \in Nat /\ MaxID \in Nat /\ clock \in Nat /\ NewID \in Nat
  BY BoundsAssumption DEF IInv, TypeOK, NewID
<1>2. CASE FreshLeft /\ Save(r) /\ lastID' = NewID /\ outcome' = "ok"
  <2>1. lastID' \in lastID..MaxID /\ r.id \in 1..lastID'
    BY <1>1, <1>2 DEF FreshLeft, NewID, NewReview
  <2>2. r \in ReviewType /\ r.causes = <<>> /\ r.triggers = <<>> /\ r.createdAt <= clock
    BY <1>1 DEF NewReview, ReviewType, IDs, Times, ZeroTime
  <2>3. CausesInv(r.causes, causes, lastID') /\ TriggersInv(r.triggers, triggers, lastID')
    BY <2>2 DEF CausesInv, TriggersInv, OneProximal, DistinctReasons, DistinctIDs,
                KnownCauses, KnownTriggers
  <2>4. UNCHANGED <<causes, triggers, clock>> /\ outcome' \in Outcomes
    BY <1>2 DEF Create, Outcomes
  <2> HIDE DEF r
  <2> QED
    BY <1>2, <2>1, <2>2, <2>3, <2>4, SaveInv
<1>3. CASE UNCHANGED <<reviews, lastID>> /\ outcome' = "refused"
  BY <1>3, NothingStoredInv DEF Create, Outcomes
<1> QED
  BY <1>2, <1>3 DEF Create

LEMMA NotFoundInv ==
  ASSUME IInv, NEW found, NotFound(found)
  PROVE  IInv'
BY NothingStoredInv DEF NotFound, Outcomes

LEMMA UpdateReviewInv ==
  ASSUME IInv, NEW id, NEW body \in Bodies, UpdateReview(id, body)
  PROVE  IInv'
<1> DEFINE r == Update(reviews[id], NewReview(NewID, body))
<1>1. CASE NotFound(id \in DOMAIN reviews)
  BY <1>1, NotFoundInv
<1>2. CASE /\ id \in DOMAIN reviews /\ Save(r) /\ outcome' = "ok"
           /\ UNCHANGED <<causes, triggers, lastID, clock>>
  <2>1. /\ reviews[id] \in ReviewType /\ reviews[id].id = id
        /\ id \in 1..lastID /\ lastID \in 2..MaxID /\ MaxID \in Nat
        /\ CausesInv(reviews[id].causes, causes, lastID)
        /\ TriggersInv(reviews[id].triggers, triggers, lastID)
        /\ reviews[id].createdAt <= clock
    BY <1>2, StoredFacts
  <2>2. NewReview(NewID, body).body = body
    BY DEF NewReview
  <2>3. /\ r \in ReviewType /\ r.id = id
        /\ r.causes = reviews[id].causes /\ r.triggers = reviews[id].triggers
        /\ r.createdAt = reviews[id].createdAt
    BY <2>1, <2>2 DEF Update, ReviewType
  <2>4. lastID' = lastID /\ lastID' \in lastID..MaxID /\ outcome' \in Outcomes
    BY <1>2, <2>1 DEF Outcomes
  <2> HIDE DEF r
  <2> QED
    BY <1>2, <2>1, <2>3, <2>4, SaveInv
<1>3. CASE /\ outcome' = "refused" /\ UNCHANGED reviews
           /\ UNCHANGED <<causes, triggers, lastID, clock>>
  BY <1>3, NothingStoredInv DEF Outcomes
<1> QED
  BY <1>1, <1>2, <1>3 DEF UpdateReview

LEMMA BindContributingCauseInv ==
  ASSUME IInv, NEW id, NEW cause, NEW why \in Whys, NEW proximal \in BOOLEAN,
         BindContributingCause(id, cause, why, proximal)
  PROVE  IInv'
<1> DEFINE rc == [id |-> Nil, cause |-> cause, why |-> why, proximal |-> proximal]
           cs == reviews[id].causes
<1>1. CASE NotFound(id \in DOMAIN reviews /\ cause \in causes)
  BY <1>1, NotFoundInv
<1>2. CASE /\ id \in DOMAIN reviews /\ cause \in causes
           /\ UNCHANGED <<causes, triggers, clock>>
           /\ \/ /\ ~ BindRefused(cs, rc) /\ FreshLeft
                 /\ Save([reviews[id] EXCEPT !.causes = Bind(cs, rc, NewID)])
                 /\ lastID' = NewID /\ outcome' = "ok"
              \/ /\ BindRefused(cs, rc) /\ LeaveCauses(id, BindResidue(cs, rc))
                 /\ outcome' = "refused" /\ UNCHANGED lastID
  <2>1. /\ lastID \in 2..MaxID /\ MaxID \in Nat /\ CausesInv(cs, causes, lastID)
        /\ causes \subseteq 1..lastID
    BY <1>2, StoredFacts DEF IInv, TypeOK
  <2>2. rc \in BoundCause /\ rc.cause \in causes
    BY <1>2, <2>1 DEF BoundCause, IDs, Nil
  <2>3. CASE /\ ~ BindRefused(cs, rc) /\ FreshLeft
             /\ Save([reviews[id] EXCEPT !.causes = Bind(cs, rc, NewID)])
             /\ lastID' = NewID /\ outcome' = "ok"
    <3>1. /\ NewID \in Nat \ {Nil} /\ lastID' \in Nat /\ lastID <= lastID' /\ NewID <= lastID'
          /\ lastID' \in lastID..MaxID /\ lastID \in Nat
      BY <2>1, <2>3 DEF NewID, FreshLeft, Nil
    <3>2. EnsureID(rc, NewID).id = NewID
      BY DEF EnsureID
    <3>3. \A i \in DOMAIN cs : cs[i].id # NewID
      <4>1. \A i \in DOMAIN cs : cs[i].id \in Nat /\ cs[i].id <= lastID
        BY <2>1, CauseEntries DEF CausesInv
      <4> QED
        BY <2>1, <4>1 DEF NewID
    <3>4. CausesInv(Bind(cs, rc, NewID), causes, lastID')
      <4> HIDE DEF cs, rc
      <4> QED
        BY <2>1, <2>2, <2>3, <3>1, <3>2, <3>3, BindInv
    <3> QED
      BY <1>2, <2>3, <3>1, <3>4, SaveCauses DEF Outcomes
  <2>4. CASE /\ LeaveCauses(id, BindResidue(cs, rc))
             /\ outcome' = "refused" /\ UNCHANGED lastID
    <3>1. CausesInv(BindResidue(cs, rc), causes, lastID)
      BY <2>1, <2>2, RewrittenInv DEF BindResidue
    <3> QED
      BY <1>2, <2>4, <3>1, LeaveInv DEF Outcomes
  <2> QED
    BY <1>2, <2>3, <2>4
<1> QED
  BY <1>1, <1>2 DEF BindContributingCause

LEMMA UpdateBoundContributingCauseInv ==
  ASSUME IInv, NEW id, NEW o \in [id : IDs, cause : IDs, why : Whys, proximal : BOOLEAN],
         UpdateBoundContributingCause(id, o)
  PROVE  IInv'
<1> DEFINE cs == reviews[id].causes
<1>1. CASE NotFound(id \in DOMAIN reviews /\ o.cause \in causes)
  BY <1>1, NotFoundInv
<1>2. CASE /\ outcome' = "refused" /\ UNCHANGED <<reviews, lastID>>
           /\ UNCHANGED <<causes, triggers, clock>>
  BY <1>2, NothingStoredInv DEF Outcomes
<1>3. ASSUME id \in DOMAIN reviews, o.cause \in causes, UNCHANGED <<causes, triggers, clock>>,
             NEW rest \in Without(cs, o.id), Holds(cs, o.id),
             \/ /\ ~ BindRefused(rest, o)
                /\ o.id = Nil => FreshLeft
                /\ Save([reviews[id] EXCEPT !.causes = Bind(rest, o, NewID)])
                /\ lastID' = IF o.id = Nil THEN NewID ELSE lastID
                /\ outcome' = IF o.id = Nil THEN "unexpected" ELSE "ok"
             \/ /\ BindRefused(rest, o)
                /\ LeaveCauses(id, RebindResidue(cs, rest, o))
                /\ outcome' = "refused"
                /\ UNCHANGED lastID
      PROVE  IInv'
  <2>1. /\ lastID \in 2..MaxID /\ MaxID \in Nat /\ Nil \notin causes
        /\ CausesInv(cs, causes, lastID)
    BY <1>3, StoredFacts
  <2>2. o \in BoundCause /\ o.id \in Nat
    BY DEF BoundCause, IDs
  <2>3. CausesInv(rest, causes, lastID) /\ \A i \in DOMAIN rest : rest[i].id # o.id
    BY <1>3, <2>1, WithoutInv
  <2>4. cs \in Seq(BoundCause) /\ rest \in Seq(BoundCause)
    BY <2>1, <2>3 DEF CausesInv
  <2>5. CASE /\ ~ BindRefused(rest, o)
             /\ o.id = Nil => FreshLeft
             /\ Save([reviews[id] EXCEPT !.causes = Bind(rest, o, NewID)])
             /\ lastID' = IF o.id = Nil THEN NewID ELSE lastID
             /\ outcome' = IF o.id = Nil THEN "unexpected" ELSE "ok"
    <3> DEFINE e == EnsureID(o, NewID)
    <3>1. /\ NewID \in Nat \ {Nil} /\ lastID' \in Nat /\ lastID <= lastID'
          /\ lastID' \in lastID..MaxID /\ lastID \in Nat
      BY <2>1, <2>5 DEF NewID, FreshLeft, Nil
    <3>2. \A i \in DOMAIN rest : rest[i].id \in Nat /\ rest[i].id <= lastID
      BY <2>3, <2>4, CauseEntries DEF CausesInv
    <3>3. e.id <= lastID' /\ \A i \in DOMAIN rest : rest[i].id # e.id
      <4>1. CASE o.id = Nil
        <5>1. e.id = NewID /\ lastID' = NewID
          BY <2>2, <2>5, <4>1 DEF EnsureID, BoundCause
        <5> QED
          BY <2>1, <3>1, <3>2, <5>1 DEF NewID
      <4>2. CASE o.id # Nil
        <5>1. e = o /\ lastID' = lastID
          BY <2>5, <4>2 DEF EnsureID
        <5>2. PICK k \in DOMAIN cs : cs[k].id = o.id
          BY <1>3 DEF Holds
        <5>3. o.id <= lastID
          BY <2>1, <5>2 DEF CausesInv
        <5> QED
          BY <2>3, <5>1, <5>3
      <4> QED
        BY <4>1, <4>2
    <3>4. CausesInv(Bind(rest, o, NewID), causes, lastID')
      <4> HIDE DEF e
      <4>1. e = EnsureID(o, NewID)
        BY DEF e
      <4> QED
        BY <1>3, <2>2, <2>3, <2>5, <3>1, <3>3, <4>1, BindInv
    <3>5. outcome' \in Outcomes
      BY <2>5 DEF Outcomes
    <3> QED
      BY <1>3, <2>5, <3>1, <3>4, <3>5, SaveCauses
  <2>6. CASE /\ LeaveCauses(id, RebindResidue(cs, rest, o))
             /\ outcome' = "refused" /\ UNCHANGED lastID
    <3>1. CausesInv(Rewritten(rest, o), causes, lastID)
      BY <2>2, <2>3, RewrittenInv
    <3>2. Len(cs) \in Nat /\ lastID \in Nat
      BY <2>1, <2>4
    <3>3. CausesInv(RebindResidue(cs, rest, o), causes, lastID)
      BY <2>1, <3>1, <3>2, PaddedInv DEF RebindResidue
    <3> QED
      BY <1>3, <2>6, <3>3, LeaveInv DEF Outcomes
  <2> QED
    BY <1>3, <2>5, <2>6
<1> QED
  BY <1>1, <1>2, <1>3 DEF UpdateBoundContributingCause

LEMMA BindTriggerInv ==
  ASSUME IInv, NEW id, NEW trigger, NEW why \in Whys, BindTrigger(id, trigger, why)
  PROVE  IInv'
<1> DEFINE ts == reviews[id].triggers
           t == [id |-> NewID, trigger |-> trigger, why |-> why]
<1>1. CASE NotFound(id \in DOMAIN reviews /\ trigger \in triggers)
  BY <1>1, NotFoundInv
<1>2. CASE /\ id \in DOMAIN reviews /\ trigger \in triggers /\ FreshLeft /\ lastID' = NewID
           /\ Save([reviews[id] EXCEPT !.triggers = AddTrigger(ts, NewID, trigger, why)])
           /\ outcome' = "ok" /\ UNCHANGED <<causes, triggers, clock>>
  <2>1. /\ lastID \in 2..MaxID /\ MaxID \in Nat /\ triggers \subseteq 1..lastID
        /\ TriggersInv(ts, triggers, lastID)
    BY <1>2, StoredFacts DEF IInv, TypeOK
  <2>2. /\ lastID \in Nat /\ lastID' \in Nat /\ lastID <= lastID' /\ lastID' \in lastID..MaxID
        /\ NewID \in Nat /\ NewID # Nil /\ NewID <= lastID'
    BY <1>2, <2>1 DEF NewID, FreshLeft, Nil
  <2>3. t \in BoundTrigger /\ t.id = NewID /\ t.trigger = trigger
    BY <1>2, <2>1, <2>2 DEF BoundTrigger, IDs
  <2>4. \A i \in DOMAIN ts : ts[i].id # NewID
    <3>1. \A i \in DOMAIN ts : ts[i].id \in Nat /\ ts[i].id <= lastID
      BY <2>1, TriggerEntries DEF TriggersInv
    <3> QED
      BY <2>1, <3>1 DEF NewID
  <2>5. TriggersInv(Append(ts, t), triggers, lastID')
    <3> HIDE DEF ts, t
    <3> QED
      BY <1>2, <2>1, <2>2, <2>3, <2>4, AppendTriggerInv
  <2>6. AddTrigger(ts, NewID, trigger, why) = Append(ts, t)
    BY DEF AddTrigger
  <2> QED
    BY <1>2, <2>2, <2>5, <2>6, SaveTriggers DEF Outcomes
<1> QED
  BY <1>1, <1>2 DEF BindTrigger

LEMMA UpdateBoundTriggerInv ==
  ASSUME IInv, NEW id, NEW o \in [id : IDs, trigger : IDs, why : Whys], UpdateBoundTrigger(id, o)
  PROVE  IInv'
<1> DEFINE ts == reviews[id].triggers
<1>1. CASE NotFound(id \in DOMAIN reviews /\ o.trigger \in triggers)
  BY <1>1, NotFoundInv
<1>2. CASE /\ outcome' = "refused" /\ UNCHANGED reviews
           /\ UNCHANGED <<causes, triggers, lastID, clock>>
  BY <1>2, NothingStoredInv DEF Outcomes
<1>3. ASSUME id \in DOMAIN reviews, o.trigger \in triggers,
             UNCHANGED <<causes, triggers, lastID, clock>>,
             NEW rest \in Without(ts, o.id), Holds(ts, o.id),
             Save([reviews[id] EXCEPT !.triggers = ReplaceTrigger(rest, o)]),
             outcome' = "ok"
      PROVE  IInv'
  <2>1. lastID \in 2..MaxID /\ MaxID \in Nat /\ TriggersInv(ts, triggers, lastID)
    BY <1>3, StoredFacts
  <2>2. TriggersInv(rest, triggers, lastID) /\ \A i \in DOMAIN rest : rest[i].id # o.id
    BY <1>3, <2>1, WithoutTriggerInv
  <2>3. PICK k \in DOMAIN ts : ts[k].id = o.id
    BY <1>3 DEF Holds
  <2>4. o \in BoundTrigger /\ o.id # Nil /\ o.id <= lastID
    BY <2>1, <2>3 DEF BoundTrigger, TriggersInv, KnownTriggers
  <2>5. lastID \in Nat /\ lastID' = lastID /\ lastID' \in lastID..MaxID /\ lastID <= lastID
    BY <1>3, <2>1
  <2>6. TriggersInv(ReplaceTrigger(rest, o), triggers, lastID')
    BY <1>3, <2>2, <2>4, <2>5, AppendTriggerInv DEF ReplaceTrigger
  <2> QED
    BY <1>3, <2>5, <2>6, SaveTriggers DEF Outcomes
<1> QED
  BY <1>1, <1>2, <1>3 DEF UpdateBoundTrigger

(* New rows and passing time disturb no review.                                          *)
LEMMA GrowInv ==
  ASSUME IInv, UNCHANGED reviews, causes \subseteq causes', triggers \subseteq triggers',
         lastID' \in lastID..MaxID, clock' \in clock..MaxClock, outcome' \in Outcomes,
         causes' \subseteq 1..lastID', triggers' \subseteq 1..lastID'
  PROVE  IInv'
<1>1. /\ lastID \in 2..MaxID /\ lastID \in Nat /\ lastID' \in Nat /\ MaxID \in Nat
      /\ clock \in 1..MaxClock /\ clock \in Nat /\ clock' \in Nat /\ MaxClock \in Nat
  BY BoundsAssumption DEF IInv, TypeOK
<1>2. ASSUME NEW id \in DOMAIN reviews
      PROVE  Stored(reviews[id], id, causes', triggers', lastID', clock')
  <2>1. Stored(reviews[id], id, causes, triggers, lastID, clock)
    BY DEF IInv
  <2>2. lastID <= lastID' /\ clock <= clock'
    BY <1>1
  <2> QED
    BY <1>1, <2>1, <2>2, StoredGrows
<1>3. TypeOK'
  BY <1>1 DEF IInv, TypeOK
<1> QED
  BY <1>2, <1>3 DEF IInv

(* What callers name is an id.                                                            *)
LEMMA NamedIDs ==
  ASSUME IInv
  PROVE  /\ CauseIDs \subseteq IDs /\ TriggerIDs \subseteq IDs
         /\ \A id : CauseEntryIDs(id) \subseteq IDs /\ TriggerEntryIDs(id) \subseteq IDs
<1>1. lastID \in Nat /\ MaxID \in Nat /\ causes \subseteq 1..lastID /\ triggers \subseteq 1..lastID
  BY BoundsAssumption DEF IInv, TypeOK
<1>2. \A x \in DOMAIN reviews : \A i \in DOMAIN reviews[x].causes : reviews[x].causes[i].id \in Nat
  BY StoredFacts, CauseEntries DEF CausesInv
<1>3. \A x \in DOMAIN reviews : \A i \in DOMAIN reviews[x].triggers : reviews[x].triggers[i].id \in Nat
  BY StoredFacts, TriggerEntries DEF TriggersInv
<1>4. CauseIDs \subseteq IDs /\ TriggerIDs \subseteq IDs
  BY <1>1 DEF CauseIDs, TriggerIDs, Unknown, IDs
<1>5. \A id : CauseEntryIDs(id) \subseteq IDs /\ TriggerEntryIDs(id) \subseteq IDs
  BY <1>1, <1>2, <1>3 DEF CauseEntryIDs, TriggerEntryIDs, EntryIDs, Unknown, IDs, Nil
<1> QED
  BY <1>4, <1>5

LEMMA NextInv == IInv /\ [Next]_vars => IInv'
<1> SUFFICES ASSUME IInv, [Next]_vars PROVE IInv'
  OBVIOUS
<1>1. /\ lastID \in 2..MaxID /\ MaxID \in Nat /\ clock \in 1..MaxClock /\ MaxClock \in Nat
      /\ causes \subseteq 1..lastID /\ triggers \subseteq 1..lastID
      /\ DOMAIN reviews \subseteq 1..lastID /\ outcome \in Outcomes
  BY BoundsAssumption DEF IInv, TypeOK
<1>2. ASSUME NEW body \in Bodies, Create(body) PROVE IInv'
  BY <1>2, CreateInv
<1>3. ASSUME NEW id \in ReviewIDs, NEW body \in Bodies, UpdateReview(id, body) PROVE IInv'
  BY <1>3, UpdateReviewInv
<1>4. ASSUME NEW id \in ReviewIDs, NEW cause \in CauseIDs, NEW why \in Whys, NEW proximal \in BOOLEAN,
             BindContributingCause(id, cause, why, proximal)
      PROVE  IInv'
  BY <1>4, BindContributingCauseInv
<1>5. ASSUME NEW id \in ReviewIDs, NEW cause \in CauseIDs, NEW why \in Whys, NEW proximal \in BOOLEAN,
             NEW entry \in CauseEntryIDs(id),
             UpdateBoundContributingCause(id,
               [id |-> entry, cause |-> cause, why |-> why, proximal |-> proximal])
      PROVE  IInv'
  <2>1. cause \in IDs
    BY NamedIDs
  <2>2. entry \in IDs
    BY NamedIDs
  <2> QED
    BY <1>5, <2>1, <2>2, UpdateBoundContributingCauseInv
<1>6. ASSUME NEW id \in ReviewIDs, NEW trigger \in TriggerIDs, NEW why \in Whys,
             BindTrigger(id, trigger, why)
      PROVE  IInv'
  BY <1>6, BindTriggerInv
<1>7. ASSUME NEW id \in ReviewIDs, NEW trigger \in TriggerIDs, NEW why \in Whys,
             NEW entry \in TriggerEntryIDs(id),
             UpdateBoundTrigger(id, [id |-> entry, trigger |-> trigger, why |-> why])
      PROVE  IInv'
  <2>1. trigger \in IDs
    BY NamedIDs
  <2>2. entry \in IDs
    BY NamedIDs
  <2> QED
    BY <1>7, <2>1, <2>2, UpdateBoundTriggerInv
<1>8. CASE CreateCause
  BY <1>1, <1>8, GrowInv DEF CreateCause, NewID, FreshLeft, Outcomes
<1>9. CASE CreateTrigger
  BY <1>1, <1>9, GrowInv DEF CreateTrigger, NewID, FreshLeft, Outcomes
<1>10. CASE Tick
  BY <1>1, <1>10, GrowInv DEF Tick
<1>11. CASE UNCHANGED vars
  BY <1>1, <1>11, NothingStoredInv DEF vars
<1> QED
  BY <1>2, <1>3, <1>4, <1>5, <1>6, <1>7, <1>8, <1>9, <1>10, <1>11 DEF Next

-------------------------------------------------------------------------------------
(* The service keeps the inductive invariant: each list of causes is one the next bind   *)
(* can work on, and every id is older than the ones still to come.                       *)
THEOREM Invariance == Spec => []IInv
BY InitInv, NextInv, PTL DEF Spec

THEOREM TypeCorrectness == Spec => []TypeOK
<1>1. IInv => TypeOK
  BY DEF IInv
<1> QED
  BY <1>1, Invariance, PTL

(* Never two proximal causes in a review.                                                *)
THEOREM ProximalSafety == Spec => []AtMostOneProximal
<1>1. IInv => AtMostOneProximal
  BY DEF IInv, Stored, CausesInv, AtMostOneProximal
<1> QED
  BY <1>1, Invariance, PTL

(* Never the same reason twice for a cause of a review.                                   *)
THEOREM ReasonSafety == Spec => []NoRepeatedReason
<1>1. IInv => NoRepeatedReason
  BY DEF IInv, Stored, CausesInv, NoRepeatedReason
<1> QED
  BY <1>1, Invariance, PTL

(* An id names one entry.                                                                 *)
THEOREM IdentitySafety == Spec => []DistinctBoundIDs
<1>1. IInv => DistinctBoundIDs
  BY DEF IInv, Stored, CausesInv, TriggersInv, DistinctBoundIDs
<1> QED
  BY <1>1, Invariance, PTL

(* Entries refer to rows that exist.                                                       *)
THEOREM ReferenceSafety == Spec => []BoundToKnown
<1>1. IInv => BoundToKnown
  BY DEF IInv, Stored, CausesInv, TriggersInv, BoundToKnown
<1> QED
  BY <1>1, Invariance, PTL

(* What is stored would pass its next save.                                                *)
THEOREM StoreSafety == Spec => []StoredAreValid
<1>1. IInv => StoredAreValid
  BY DEF IInv, Stored, StoredAreValid
<1> QED
  BY <1>1, Invariance, PTL

-------------------------------------------------------------------------------------
(* ReviewService implements ReviewBook: each action is an action of the book or changes      *)
(* nothing in it.  First what the operators on the slices do to the entries and the mark a     *)
(* book shows.                                                                               *)
EntriesOf(cs) == {EntryOf(c) : c \in {d \in Range(cs) : d.id # Nil}}

MarksOf(cs) == {c.id : c \in {d \in Range(cs) : d.id # Nil /\ d.proximal}}

ProximalOf(cs) == IF MarksOf(cs) = {} THEN Nil ELSE CHOOSE id \in MarksOf(cs) : TRUE

LEMMA BookOfParts ==
  ASSUME NEW r
  PROVE  BookOf(r) = [body |-> r.body, entries |-> EntriesOf(r.causes),
                      proximal |-> ProximalOf(r.causes), triggers |-> Range(r.triggers)]
<1>1. Bound(r) = {d \in Range(r.causes) : d.id # Nil}
  BY DEF Bound
<1>2. Marked(r) = MarksOf(r.causes)
  BY <1>1 DEF Marked, MarksOf
<1>3. {EntryOf(c) : c \in Bound(r)} = EntriesOf(r.causes)
  BY <1>1 DEF EntriesOf
<1> HIDE DEF Bound, Marked, MarksOf, EntriesOf
<1> QED
  BY <1>2, <1>3 DEF BookOf, ProximalOf

LEMMA EntriesMember ==
  ASSUME NEW cs, NEW e
  PROVE  e \in EntriesOf(cs) <=> \E i \in DOMAIN cs : cs[i].id # Nil /\ e = EntryOf(cs[i])
BY DEF EntriesOf, Range

(* One entry has the mark, and the book names it, or none has.                          *)
LEMMA ProximalNamed ==
  ASSUME NEW cs, NEW known, NEW last, CausesInv(cs, known, last)
  PROVE  /\ \A i \in DOMAIN cs : cs[i].proximal => cs[i].id # Nil /\ ProximalOf(cs) = cs[i].id
         /\ (\A i \in DOMAIN cs : ~ cs[i].proximal) => ProximalOf(cs) = Nil
<1>1. ASSUME NEW i \in DOMAIN cs, cs[i].proximal
      PROVE  cs[i].id # Nil /\ ProximalOf(cs) = cs[i].id
  <2>1. cs[i].id # Nil
    BY <1>1 DEF CausesInv, KnownCauses, BlankCause
  <2>2. \A d \in Range(cs) : d.proximal => d = cs[i]
    BY <1>1 DEF CausesInv, OneProximal, Range
  <2>3. MarksOf(cs) = {cs[i].id}
    BY <1>1, <2>1, <2>2 DEF MarksOf, Range
  <2> QED
    BY <2>1, <2>3 DEF ProximalOf
<1>2. ASSUME \A i \in DOMAIN cs : ~ cs[i].proximal PROVE ProximalOf(cs) = Nil
  BY <1>2 DEF ProximalOf, MarksOf, Range
<1> QED
  BY <1>1, <1>2

(* Two lists that agree on who is marked name the same entry.                            *)
LEMMA SameMarks ==
  ASSUME NEW cs, NEW new, NEW known, NEW last, NEW knownNew, NEW lastNew,
         CausesInv(cs, known, last), CausesInv(new, knownNew, lastNew),
         \A i \in DOMAIN cs : cs[i].proximal =>
           \E k \in DOMAIN new : new[k].proximal /\ new[k].id = cs[i].id,
         \A k \in DOMAIN new : new[k].proximal => \E i \in DOMAIN cs : cs[i].proximal
  PROVE  ProximalOf(new) = ProximalOf(cs)
<1>1. CASE \E i \in DOMAIN cs : cs[i].proximal
  <2>1. PICK i \in DOMAIN cs : cs[i].proximal
    BY <1>1
  <2>2. PICK k \in DOMAIN new : new[k].proximal /\ new[k].id = cs[i].id
    BY <2>1
  <2> QED
    BY <2>1, <2>2, ProximalNamed
<1>2. CASE ~ \E i \in DOMAIN cs : cs[i].proximal
  <2>1. \A k \in DOMAIN new : ~ new[k].proximal
    BY <1>2
  <2> QED
    BY <1>2, <2>1, ProximalNamed
<1> QED
  BY <1>1, <1>2

LEMMA RewrittenEntries ==
  ASSUME NEW cs \in Seq(BoundCause), NEW rc \in BoundCause
  PROVE  EntriesOf(Rewritten(cs, rc)) = EntriesOf(cs)
<1> DEFINE new == Rewritten(cs, rc)
<1>1. DOMAIN new = DOMAIN cs /\ \A i \in DOMAIN cs : new[i].id = cs[i].id
                                /\ new[i].cause = cs[i].cause /\ new[i].why = cs[i].why
  BY RewrittenKeeps
<1> HIDE DEF new
<1>2. \A i \in DOMAIN cs : EntryOf(new[i]) = EntryOf(cs[i])
  BY <1>1 DEF EntryOf
<1>3. \A e : e \in EntriesOf(new) <=> e \in EntriesOf(cs)
  BY <1>1, <1>2, EntriesMember
<1> QED
  BY <1>3 DEF new

(* A bind that is accepted adds an entry, which takes the mark if it is to have it.       *)
LEMMA BindOnBook ==
  ASSUME NEW cs, NEW known, NEW last, CausesInv(cs, known, last),
         NEW knownNew, NEW lastNew,
         NEW rc \in BoundCause, ~ BindRefused(cs, rc), NEW fresh, NEW e, e = EnsureID(rc, fresh),
         e.id # Nil, CausesInv(Bind(cs, rc, fresh), knownNew, lastNew)
  PROVE  LET new == Bind(cs, rc, fresh) IN
         /\ EntriesOf(new) = EntriesOf(cs) \cup {EntryOf(e)}
         /\ ProximalOf(new) = IF rc.proximal THEN e.id ELSE ProximalOf(cs)
         /\ \A c \in EntriesOf(cs) : ~ SameReason(c, e)
<1> DEFINE old == Rewritten(cs, rc)
           new == Bind(cs, rc, fresh)
           n == Len(cs)
<1>1. e.cause = rc.cause /\ e.why = rc.why /\ e.proximal = rc.proximal
  BY DEF EnsureID, BoundCause
<1>2. /\ cs \in Seq(BoundCause) /\ old \in Seq(BoundCause) /\ Len(old) = n /\ n \in Nat
      /\ DOMAIN cs = 1..n /\ DOMAIN old = 1..n
      /\ \A i \in 1..n : old[i].id = cs[i].id /\ old[i].cause = cs[i].cause
                         /\ old[i].why = cs[i].why
  <2>1. cs \in Seq(BoundCause)
    BY DEF CausesInv
  <2>2. DOMAIN cs = 1..n /\ n \in Nat
    BY <2>1, CauseEntries
  <2>3. /\ old \in Seq(BoundCause) /\ Len(old) = n /\ DOMAIN old = DOMAIN cs
        /\ \A i \in DOMAIN cs : old[i].id = cs[i].id /\ old[i].cause = cs[i].cause
                                /\ old[i].why = cs[i].why
    BY <2>1, RewrittenKeeps
  <2> HIDE DEF old, n
  <2> QED
    BY <2>1, <2>2, <2>3
<1>3. DOMAIN new = 1..(n + 1) /\ new[n + 1] = e /\ \A i \in 1..n : new[i] = old[i]
  <2> HIDE DEF old
  <2>1. new = Append(old, e)
    BY DEF Bind, old
  <2> HIDE DEF new
  <2> QED
    BY <1>2, <2>1
<1>4. EntriesOf(old) = EntriesOf(cs)
  BY <1>2, RewrittenEntries
<1>5. EntriesOf(new) = EntriesOf(cs) \cup {EntryOf(e)}
  <2> HIDE DEF old, new, n
  <2>1. \A x : x \in EntriesOf(old) <=> \E i \in 1..n : old[i].id # Nil /\ x = EntryOf(old[i])
    BY <1>2, EntriesMember
  <2>2. \A x : x \in EntriesOf(new) <=> \E i \in 1..(n + 1) : new[i].id # Nil /\ x = EntryOf(new[i])
    BY <1>3, EntriesMember
  <2>3. 1..(n + 1) = 1..n \cup {n + 1}
    BY <1>2
  <2>4. \A x : x \in EntriesOf(new) <=> x \in EntriesOf(old) \/ x = EntryOf(e)
    BY <1>3, <2>1, <2>2, <2>3
  <2> QED
    BY <1>4, <2>4
<1>6. ProximalOf(new) = IF rc.proximal THEN e.id ELSE ProximalOf(cs)
  <2>1. CASE rc.proximal
    <3> HIDE DEF new, old, n
    <3>1. n + 1 \in DOMAIN new
      BY <1>2, <1>3
    <3>2. e.proximal
      BY <1>1, <2>1, Zenon
    <3>3. new[n + 1].proximal
      BY <1>3, <3>2, Zenon
    <3> QED
      BY <1>3, <2>1, <3>1, <3>3, ProximalNamed DEF new
  <2>2. CASE ~ rc.proximal
    <3>1. \A i \in 1..n : new[i] = cs[i]
      BY <1>2, <1>3, <2>2 DEF Rewritten, UnsetProximal
    <3>2. ~ new[n + 1].proximal
      BY <1>1, <1>3, <2>2
    <3>3. \A k \in 1..(n + 1) : new[k].proximal => k \in 1..n
      BY <1>2, <3>2
    <3> HIDE DEF new, n
    <3>4. ProximalOf(new) = ProximalOf(cs)
      BY <1>2, <1>3, <3>1, <3>3, SameMarks DEF new
    <3> QED
      BY <2>2, <3>4
  <2> QED
    BY <2>1, <2>2
<1>7. \A c \in EntriesOf(cs) : ~ SameReason(c, e)
  <2>1. \A i \in DOMAIN cs : ~ SameReason(cs[i], rc)
    BY DEF BindRefused, Clashes
  <2>2. \A i \in DOMAIN cs : ~ SameReason(EntryOf(cs[i]), e)
    BY <1>1, <2>1 DEF SameReason, EntryOf
  <2> QED
    BY <2>2, EntriesMember
<1> QED
  BY <1>5, <1>6, <1>7

(* A bind that is refused keeps the entries and may take the mark away, but never from   *)
(* an entry that gives the reason.                                                       *)
LEMMA RefusalOnBook ==
  ASSUME NEW cs, NEW known, NEW last, CausesInv(cs, known, last), Nil \notin known,
         NEW rc \in BoundCause, rc.cause \in known, BindRefused(cs, rc)
  PROVE  LET new == Rewritten(cs, rc) IN
         /\ EntriesOf(new) = EntriesOf(cs)
         /\ \E c \in EntriesOf(cs), taken \in BOOLEAN :
              /\ taken => ProximalOf(cs) # c.id
              /\ ProximalOf(new) = IF taken THEN Nil ELSE ProximalOf(cs)
<1> DEFINE new == Rewritten(cs, rc)
<1>1. /\ cs \in Seq(BoundCause) /\ DOMAIN cs = 1..Len(cs) /\ Len(cs) \in Nat
      /\ DOMAIN new = DOMAIN cs
      /\ \A i \in DOMAIN cs : new[i].id = cs[i].id /\ (new[i].proximal => cs[i].proximal)
  <2>1. cs \in Seq(BoundCause)
    BY DEF CausesInv
  <2> QED
    BY <2>1, RewrittenKeeps, CauseEntries
<1>2. CausesInv(new, known, last)
  BY RewrittenInv
<1>3. PICK j \in DOMAIN cs : SameReason(cs[j], rc) /\ j \in Clashes(cs, rc)
  BY DEF BindRefused, Clashes
<1>4. cs[j].id # Nil
  BY <1>3 DEF CausesInv, KnownCauses, BlankCause, SameReason
<1>5. EntryOf(cs[j]) \in EntriesOf(cs) /\ EntryOf(cs[j]).id = cs[j].id
  BY <1>3, <1>4, EntriesMember DEF EntryOf
<1>6. CASE \A i \in DOMAIN cs : cs[i].proximal => new[i].proximal
  <2> HIDE DEF new
  <2>1. ProximalOf(new) = ProximalOf(cs)
    BY <1>1, <1>2, <1>6, SameMarks
  <2> QED
    BY <1>1, <1>5, <2>1, RewrittenEntries DEF new
<1>7. CASE ~ \A i \in DOMAIN cs : cs[i].proximal => new[i].proximal
  <2>1. PICK i \in DOMAIN cs : cs[i].proximal /\ ~ new[i].proximal
    BY <1>7
  <2>2. i \in Reached(cs, rc)
    BY <2>1 DEF Rewritten
  <2>3. i # j
    BY <1>1, <1>3, <2>2 DEF Reached
  <2>4. ProximalOf(cs) = cs[i].id
    BY <2>1, ProximalNamed
  <2>5. cs[i].id # cs[j].id
    BY <1>3, <1>4, <2>1, <2>3 DEF CausesInv, DistinctIDs
  <2>6. \A k \in DOMAIN new : ~ new[k].proximal
    <3> HIDE DEF new
    <3> QED
      BY <1>1, <2>1 DEF CausesInv, OneProximal
  <2> HIDE DEF new
  <2>7. ProximalOf(new) = Nil
    BY <1>2, <2>6, ProximalNamed
  <2> QED
    BY <1>1, <1>5, <2>4, <2>5, <2>7, RewrittenEntries DEF new
<1> QED
  BY <1>6, <1>7

(* Deleting an entry takes it out of the book, and its mark with it.                      *)
LEMMA WithoutOnBook ==
  ASSUME NEW cs, NEW known, NEW last, CausesInv(cs, known, last),
         NEW id, NEW rest \in Without(cs, id)
  PROVE  /\ EntriesOf(rest) = {e \in EntriesOf(cs) : e.id # id}
         /\ ProximalOf(rest) = IF ProximalOf(cs) = id THEN Nil ELSE ProximalOf(cs)
<1>1. cs \in Seq(BoundCause) /\ CausesInv(rest, known, last)
  BY WithoutInv DEF CausesInv
<1>2. PICK f \in [DOMAIN rest -> DOMAIN cs] :
        /\ \A i \in DOMAIN rest : rest[i] = cs[f[i]] /\ cs[f[i]].id # id
        /\ \A k \in DOMAIN cs : cs[k].id # id => \E i \in DOMAIN rest : f[i] = k
  BY <1>1, WithoutLists
<1>3. /\ \A i \in DOMAIN rest : \E k \in DOMAIN cs : rest[i] = cs[k] /\ cs[k].id # id
      /\ \A k \in DOMAIN cs : cs[k].id # id => \E i \in DOMAIN rest : rest[i] = cs[k]
  BY <1>2
<1>4. EntriesOf(rest) = {e \in EntriesOf(cs) : e.id # id}
  <2>1. \A i \in DOMAIN cs : EntryOf(cs[i]).id = cs[i].id
    BY DEF EntryOf
  <2>2. \A e : e \in EntriesOf(rest) <=> e \in EntriesOf(cs) /\ e.id # id
    BY <1>3, <2>1, EntriesMember
  <2> QED
    BY <2>2
<1>5. CASE \E i \in DOMAIN cs : cs[i].proximal /\ cs[i].id # id
  <2>1. PICK i \in DOMAIN cs : cs[i].proximal /\ cs[i].id # id
    BY <1>5
  <2>2. PICK m \in DOMAIN rest : rest[m] = cs[i]
    BY <1>3, <2>1
  <2>3. ProximalOf(cs) = cs[i].id
    BY <2>1, ProximalNamed
  <2>4. ProximalOf(rest) = rest[m].id
    BY <1>1, <2>1, <2>2, ProximalNamed
  <2> QED
    BY <1>4, <2>1, <2>2, <2>3, <2>4
<1>6. CASE \A i \in DOMAIN cs : ~ (cs[i].proximal /\ cs[i].id # id)
  <2>1. \A m \in DOMAIN rest : ~ rest[m].proximal
    BY <1>3, <1>6
  <2>2. ProximalOf(rest) = Nil
    BY <1>1, <2>1, ProximalNamed
  <2>3. ProximalOf(cs) = id \/ ProximalOf(cs) = Nil
    BY <1>6, ProximalNamed
  <2> QED
    BY <1>4, <2>2, <2>3
<1> QED
  BY <1>5, <1>6

LEMMA WithoutShorter ==
  ASSUME NEW cs \in Seq(BoundCause), NEW id, NEW rest \in Without(cs, id)
  PROVE  Len(rest) <= Len(cs)
<1>1. rest \in Seq(BoundCause)
  BY WithoutLists
<1>2. PICK f \in [DOMAIN rest -> DOMAIN cs] : \A i, j \in DOMAIN rest : f[i] = f[j] => i = j
  BY WithoutLists
<1>3. /\ DOMAIN rest = 1..Len(rest) /\ Len(rest) \in Nat
      /\ DOMAIN cs = 1..Len(cs) /\ Len(cs) \in Nat
  BY <1>1, CauseEntries
<1> DEFINE m == Len(rest)
           n == Len(cs)
<1> HIDE DEF m, n
<1>4. f \in Injection(1..m, 1..n)
  BY <1>2, <1>3 DEF Injection, IsInjective, m, n
<1>5. m \in Nat /\ n \in Nat
  BY <1>3 DEF m, n
<1>6. /\ IsFiniteSet(1..n) /\ Cardinality(1..n) = n /\ Cardinality(1..m) = m
  <2>1. IsFiniteSet(1..n) /\ Cardinality(1..n) = IF 1 > n THEN 0 ELSE n - 1 + 1
    BY <1>5, FS_Interval
  <2>2. Cardinality(1..m) = IF 1 > m THEN 0 ELSE m - 1 + 1
    BY <1>5, FS_Interval
  <2> QED
    BY <1>5, <2>1, <2>2
<1>7. Cardinality(1..m) <= Cardinality(1..n)
  BY <1>4, <1>6, FS_Injection
<1> QED
  BY <1>6, <1>7 DEF m, n

(* The zeroed rest is not in the book.                                                    *)
LEMMA PaddedOnBook ==
  ASSUME NEW cs, NEW known, NEW last \in Nat, CausesInv(cs, known, last), Nil \notin known,
         NEW n \in Nat, Len(cs) <= n
  PROVE  /\ EntriesOf(Padded(cs, n)) = EntriesOf(cs)
         /\ ProximalOf(Padded(cs, n)) = ProximalOf(cs)
<1> DEFINE new == Padded(cs, n)
<1>1. DOMAIN cs = 1..Len(cs) /\ Len(cs) \in Nat
  BY CauseEntries DEF CausesInv
<1>2. DOMAIN cs \subseteq DOMAIN new
  BY <1>1 DEF Padded
<1>3. /\ \A i \in DOMAIN cs : new[i] = cs[i]
      /\ \A i \in DOMAIN new : i \in DOMAIN cs \/ new[i] = BlankCause
  BY <1>1, <1>2 DEF Padded
<1>4. CausesInv(new, known, last)
  BY PaddedInv
<1>5. BlankCause.id = Nil /\ ~ BlankCause.proximal
  BY DEF BlankCause
<1> HIDE DEF new
<1>6. \A e : e \in EntriesOf(new) <=> e \in EntriesOf(cs)
  BY <1>2, <1>3, <1>5, EntriesMember
<1>7. ProximalOf(new) = ProximalOf(cs)
  BY <1>2, <1>3, <1>4, <1>5, SameMarks
<1> QED
  BY <1>6, <1>7 DEF new

-------------------------------------------------------------------------------------
(* The second half: what a request does to the book.                                      *)
Shelf == [id \in DOMAIN reviews |-> BookOf(reviews[id])]

LEMMA ShelfParts ==
  ASSUME NEW id \in DOMAIN reviews
  PROVE  /\ id \in DOMAIN Shelf
         /\ Shelf[id] = [body |-> reviews[id].body, entries |-> EntriesOf(reviews[id].causes),
                         proximal |-> ProximalOf(reviews[id].causes),
                         triggers |-> Range(reviews[id].triggers)]
BY BookOfParts DEF Shelf

LEMMA SaveOnBook ==
  ASSUME NEW r \in ReviewType, Save(r)
  PROVE  /\ Shelf' = [x \in DOMAIN Shelf \cup {r.id} |-> IF x = r.id THEN BookOf(r) ELSE Shelf[x]]
         /\ r.id \in DOMAIN Shelf => Shelf' = [Shelf EXCEPT ![r.id] = BookOf(r)]
<1> DEFINE new == UpdateTimestamps(r, clock)
<1>1. /\ new.body = r.body /\ new.causes = r.causes /\ new.triggers = r.triggers
  BY DEF UpdateTimestamps, ReviewType
<1> HIDE DEF new
<1>2. BookOf(new) = BookOf(r)
  BY <1>1, BookOfParts
<1>3. /\ DOMAIN reviews' = DOMAIN reviews \cup {r.id} /\ reviews'[r.id] = new
      /\ \A x \in DOMAIN reviews : x # r.id => reviews'[x] = reviews[x]
  BY DEF Save, Put, new
<1>4. Shelf' = [x \in DOMAIN reviews' |-> BookOf(reviews'[x])] /\ DOMAIN Shelf = DOMAIN reviews
  BY DEF Shelf
<1>5. \A x \in DOMAIN reviews' : BookOf(reviews'[x]) = IF x = r.id THEN BookOf(r) ELSE Shelf[x]
  BY <1>2, <1>3 DEF Shelf
<1>6. Shelf' = [x \in DOMAIN Shelf \cup {r.id} |-> IF x = r.id THEN BookOf(r) ELSE Shelf[x]]
  BY <1>3, <1>4, <1>5
<1>7. ASSUME r.id \in DOMAIN Shelf PROVE Shelf' = [Shelf EXCEPT ![r.id] = BookOf(r)]
  <2>1. DOMAIN Shelf \cup {r.id} = DOMAIN Shelf
    BY <1>7
  <2>2. Shelf = [x \in DOMAIN Shelf |-> Shelf[x]]
    BY DEF Shelf
  <2> HIDE DEF Shelf
  <2> QED
    BY <1>6, <2>1, <2>2
<1> QED
  BY <1>6, <1>7

LEMMA LeaveOnBook ==
  ASSUME IInv, NEW id \in DOMAIN reviews, NEW cs, LeaveCauses(id, cs)
  PROVE  Shelf' = [Shelf EXCEPT ![id] =
           [body |-> reviews[id].body, entries |-> EntriesOf(cs), proximal |-> ProximalOf(cs),
            triggers |-> Range(reviews[id].triggers)]]
<1> DEFINE new == [reviews[id] EXCEPT !.causes = cs]
<1>1. reviews[id] \in ReviewType
  BY StoredFacts
<1>2. new.body = reviews[id].body /\ new.causes = cs /\ new.triggers = reviews[id].triggers
  BY <1>1 DEF ReviewType
<1>3. reviews' = [reviews EXCEPT ![id] = new]
  BY DEF LeaveCauses
<1> HIDE DEF new
<1>4. Shelf' = [x \in DOMAIN reviews |-> BookOf(reviews'[x])]
  BY <1>3 DEF Shelf
<1>5. \A x \in DOMAIN reviews : BookOf(reviews'[x]) = IF x = id THEN BookOf(new) ELSE Shelf[x]
  BY <1>3 DEF Shelf
<1>6. Shelf' = [Shelf EXCEPT ![id] = BookOf(new)]
  BY <1>4, <1>5 DEF Shelf
<1> QED
  BY <1>2, <1>6, BookOfParts

LEMMA SaveCausesOnBook ==
  ASSUME IInv, NEW id \in DOMAIN reviews, NEW cs \in Seq(BoundCause),
         Save([reviews[id] EXCEPT !.causes = cs])
  PROVE  Shelf' = [Shelf EXCEPT ![id] =
           [body |-> reviews[id].body, entries |-> EntriesOf(cs), proximal |-> ProximalOf(cs),
            triggers |-> Range(reviews[id].triggers)]]
<1> DEFINE new == [reviews[id] EXCEPT !.causes = cs]
<1>1. reviews[id] \in ReviewType /\ reviews[id].id = id
  BY StoredFacts
<1>2. /\ new \in ReviewType /\ new.id = id /\ new.body = reviews[id].body /\ new.causes = cs
      /\ new.triggers = reviews[id].triggers
  BY <1>1 DEF ReviewType
<1>3. id \in DOMAIN Shelf
  BY DEF Shelf
<1>4. Save(new)
  OBVIOUS
<1> HIDE DEF new
<1>5. Shelf' = [Shelf EXCEPT ![id] = BookOf(new)]
  BY <1>2, <1>3, <1>4, SaveOnBook
<1> QED
  BY <1>2, <1>5, BookOfParts

LEMMA SaveTriggersOnBook ==
  ASSUME IInv, NEW id \in DOMAIN reviews, NEW ts \in Seq(BoundTrigger),
         Save([reviews[id] EXCEPT !.triggers = ts])
  PROVE  Shelf' = [Shelf EXCEPT ![id] =
           [body |-> reviews[id].body, entries |-> EntriesOf(reviews[id].causes),
            proximal |-> ProximalOf(reviews[id].causes), triggers |-> Range(ts)]]
<1> DEFINE new == [reviews[id] EXCEPT !.triggers = ts]
<1>1. reviews[id] \in ReviewType /\ reviews[id].id = id
  BY StoredFacts
<1>2. /\ new \in ReviewType /\ new.id = id /\ new.body = reviews[id].body
      /\ new.causes = reviews[id].causes /\ new.triggers = ts
  BY <1>1 DEF ReviewType
<1>3. id \in DOMAIN Shelf
  BY DEF Shelf
<1>4. Save(new)
  OBVIOUS
<1> HIDE DEF new
<1>5. Shelf' = [Shelf EXCEPT ![id] = BookOf(new)]
  BY <1>2, <1>3, <1>4, SaveOnBook
<1> QED
  BY <1>2, <1>5, BookOfParts

(* What stays out of the book.                                                            *)
LEMMA SameReviews == ASSUME UNCHANGED reviews PROVE Shelf' = Shelf
BY DEF Shelf

BookStep == Book!BookNext \/ Shelf' = Shelf

LEMMA CreateOnBook ==
  ASSUME IInv, NEW body \in Bodies, Create(body), lastID' \in 2..MaxID
  PROVE  BookStep
<1> DEFINE r == NewReview(NewID, body)
<1>1. CASE Save(r) /\ FreshLeft /\ lastID' = NewID
  <2>1. lastID \in Nat /\ MaxID \in Nat /\ NewID \in Nat /\ NewID \in 1..MaxID
    BY <1>1, BoundsAssumption DEF IInv, TypeOK, NewID
  <2>2. /\ r \in ReviewType /\ r.id = NewID /\ r.body = body /\ r.causes = <<>>
        /\ r.triggers = <<>>
    BY <2>1 DEF NewReview, ReviewType, IDs, Times, ZeroTime
  <2>3. body \in ValidBodies
    BY <1>1, <2>2 DEF Save, Validates
  <2>4. EntriesOf(<<>>) = {} /\ ProximalOf(<<>>) = Nil /\ Range(<<>>) = {}
    BY DEF EntriesOf, MarksOf, ProximalOf, Range
  <2>5. BookOf(r) = [body |-> body, entries |-> {}, proximal |-> Nil, triggers |-> {}]
    <3> HIDE DEF r
    <3> QED
      BY <2>2, <2>4, BookOfParts
  <2>6. NewID \notin DOMAIN Shelf
    BY <2>1 DEF Shelf, IInv, TypeOK, NewID
  <2>7. Shelf' = [x \in DOMAIN Shelf \cup {NewID} |-> IF x = NewID THEN BookOf(r) ELSE Shelf[x]]
    <3> HIDE DEF r
    <3> QED
      BY <1>1, <2>2, SaveOnBook
  <2> HIDE DEF r
  <2>8. Book!Open(NewID, body)
    BY <2>5, <2>6, <2>7 DEF Book!Open, Book!None, Nil, Shelf
  <2> QED
    BY <2>1, <2>3, <2>8 DEF BookStep, Book!BookNext
<1>2. CASE UNCHANGED reviews
  BY <1>2, SameReviews DEF BookStep
<1> QED
  BY <1>1, <1>2 DEF Create

LEMMA UpdateReviewOnBook ==
  ASSUME IInv, NEW id, NEW body \in Bodies, UpdateReview(id, body)
  PROVE  BookStep
<1> DEFINE r == Update(reviews[id], NewReview(NewID, body))
<1>1. CASE id \in DOMAIN reviews /\ Save(r)
  <2>1. reviews[id] \in ReviewType /\ reviews[id].id = id
    BY <1>1, StoredFacts
  <2>2. NewReview(NewID, body).body = body
    BY DEF NewReview
  <2>3. /\ r \in ReviewType /\ r.id = id /\ r.body = body
        /\ r.causes = reviews[id].causes /\ r.triggers = reviews[id].triggers
    BY <2>1, <2>2 DEF Update, ReviewType
  <2> HIDE DEF r
  <2>4. body \in ValidBodies
    BY <1>1, <2>3 DEF Save, Validates
  <2>5. id \in DOMAIN Shelf
    BY <1>1, ShelfParts
  <2>6. Shelf' = [Shelf EXCEPT ![id] = BookOf(r)]
    BY <1>1, <2>3, <2>5, SaveOnBook
  <2>7. BookOf(r) = [Shelf[id] EXCEPT !.body = body]
    BY <1>1, <2>3, ShelfParts, BookOfParts
  <2>8. Book!Edit(id, body)
    BY <2>6, <2>7 DEF Book!Edit, Shelf
  <2> QED
    BY <2>4, <2>5, <2>8 DEF BookStep, Book!BookNext, Shelf
<1>2. CASE UNCHANGED reviews
  BY <1>2, SameReviews DEF BookStep
<1> QED
  BY <1>1, <1>2 DEF UpdateReview, NotFound

(* The book's entry of a review with other bound causes and another mark.                *)
LEMMA BookChange ==
  ASSUME NEW id \in DOMAIN reviews, NEW E, NEW P
  PROVE  /\ [Shelf[id] EXCEPT !.entries = E, !.proximal = P] =
              [body |-> reviews[id].body, entries |-> E, proximal |-> P,
               triggers |-> Range(reviews[id].triggers)]
         /\ Shelf[id].entries = EntriesOf(reviews[id].causes)
         /\ Shelf[id].proximal = ProximalOf(reviews[id].causes)
<1> DEFINE r == Shelf[id]
           body == reviews[id].body
           old == EntriesOf(reviews[id].causes)
           mark == ProximalOf(reviews[id].causes)
           ts == Range(reviews[id].triggers)
           new == [r EXCEPT !.entries = E, !.proximal = P]
           all == [body : {body}, entries : {old, E}, proximal : {mark, P}, triggers : {ts}]
<1>1. r = [body |-> body, entries |-> old, proximal |-> mark, triggers |-> ts]
  BY ShelfParts
<1> HIDE DEF r, body, old, mark, ts
<1>2. r \in all /\ r.entries = old /\ r.proximal = mark
  BY <1>1
<1>3. new \in all /\ new.entries = E /\ new.proximal = P /\ new.body = body /\ new.triggers = ts
  BY <1>2
<1>4. \A x \in all : x = [body |-> x.body, entries |-> x.entries, proximal |-> x.proximal,
                         triggers |-> x.triggers]
  OBVIOUS
<1>5. new = [body |-> body, entries |-> E, proximal |-> P, triggers |-> ts]
  <2> HIDE DEF new, all
  <2> QED
    BY <1>3, <1>4
<1> QED
  BY <1>2, <1>5 DEF r, body, old, mark, ts

(* With another mark alone, or with none of it changed.                                   *)
LEMMA BookMark ==
  ASSUME NEW id \in DOMAIN reviews, NEW P
  PROVE  [Shelf[id] EXCEPT !.entries = Shelf[id].entries, !.proximal = P] =
           [Shelf[id] EXCEPT !.proximal = P]
<1> DEFINE E == EntriesOf(reviews[id].causes)
<1>1. [Shelf[id] EXCEPT !.entries = E, !.proximal = P] =
        [body |-> reviews[id].body, entries |-> E, proximal |-> P,
         triggers |-> Range(reviews[id].triggers)]
  <2> HIDE DEF E
  <2> QED
    BY BookChange
<1>2. Shelf[id].entries = E
  BY BookChange
<1>3. [Shelf[id] EXCEPT !.proximal = P] =
        [body |-> reviews[id].body, entries |-> E, proximal |-> P,
         triggers |-> Range(reviews[id].triggers)]
  <2>1. Shelf[id] = [body |-> reviews[id].body, entries |-> E,
          proximal |-> ProximalOf(reviews[id].causes), triggers |-> Range(reviews[id].triggers)]
    BY ShelfParts, Zenon
  <2> HIDE DEF E
  <2> QED
    BY <2>1
<1> HIDE DEF E
<1> QED
  BY <1>1, <1>2, <1>3

LEMMA EnsuredTyped ==
  ASSUME NEW rc \in BoundCause, NEW fresh \in Nat
  PROVE  EnsureID(rc, fresh) \in BoundCause
BY DEF EnsureID, BoundCause, IDs

LEMMA EntryTyped ==
  ASSUME NEW e \in BoundCause, e.id \in 1..MaxID, e.cause \in 1..MaxID
  PROVE  EntryOf(e) \in Book!Entry
BY DEF EntryOf, Book!Entry, BoundCause

LEMMA BindOnShelf ==
  ASSUME IInv, NEW id, NEW cause, NEW why \in Whys, NEW proximal \in BOOLEAN,
         BindContributingCause(id, cause, why, proximal), IInv'
  PROVE  BookStep
<1> DEFINE rc == [id |-> Nil, cause |-> cause, why |-> why, proximal |-> proximal]
           cs == reviews[id].causes
           e == EnsureID(rc, NewID)
<1>1. CASE UNCHANGED reviews
  BY <1>1, SameReviews DEF BookStep
<1>2. ASSUME id \in DOMAIN reviews, cause \in causes PROVE
        /\ lastID \in 2..MaxID /\ MaxID \in Nat /\ NewID = lastID + 1
        /\ CausesInv(cs, causes, lastID) /\ causes \subseteq 1..lastID /\ Nil \notin causes
        /\ rc \in BoundCause /\ rc.cause \in causes
        /\ id \in DOMAIN Shelf
        /\ Shelf[id] = [body |-> reviews[id].body, entries |-> EntriesOf(cs),
                        proximal |-> ProximalOf(cs), triggers |-> Range(reviews[id].triggers)]
  <2>1. /\ lastID \in 2..MaxID /\ MaxID \in Nat /\ CausesInv(cs, causes, lastID)
        /\ causes \subseteq 1..lastID /\ Nil \notin causes /\ NewID = lastID + 1
    BY <1>2, StoredFacts DEF IInv, TypeOK, NewID
  <2>2. rc \in BoundCause /\ rc.cause \in causes
    BY <1>2, <2>1 DEF BoundCause, IDs, Nil
  <2> QED
    BY <1>2, <2>1, <2>2, ShelfParts
<1>3. CASE /\ id \in DOMAIN reviews /\ cause \in causes
           /\ ~ BindRefused(cs, rc) /\ FreshLeft
           /\ Save([reviews[id] EXCEPT !.causes = Bind(cs, rc, NewID)])
           /\ lastID' = NewID
  <2>1. /\ e.id = NewID /\ e.cause = cause /\ e.why = why /\ e.proximal = proximal
        /\ NewID \in 1..MaxID /\ NewID # Nil /\ cause \in 1..MaxID
    BY <1>2, <1>3 DEF EnsureID, FreshLeft, Nil
  <2>2. reviews'[id].causes = Bind(cs, rc, NewID)
    <3>1. reviews[id] \in ReviewType /\ reviews[id].id = id
      BY <1>3, StoredFacts
    <3>2. /\ [reviews[id] EXCEPT !.causes = Bind(cs, rc, NewID)].id = id
          /\ [reviews[id] EXCEPT !.causes = Bind(cs, rc, NewID)].causes = Bind(cs, rc, NewID)
      BY <3>1 DEF ReviewType
    <3> HIDE DEF cs, rc
    <3> QED
      BY <1>3, <3>1, <3>2 DEF Save, Put, UpdateTimestamps, ReviewType
  <2>3. CausesInv(Bind(cs, rc, NewID), causes', lastID')
    <3>1. id \in DOMAIN reviews'
      BY <1>3, StoredFacts DEF Save, Put, ReviewType
    <3>2. CausesInv(reviews'[id].causes, causes', lastID')
      BY <3>1 DEF IInv, Stored
    <3> QED
      BY <2>2, <3>2
  <2>4. e \in BoundCause /\ EntryOf(e) \in Book!Entry
    <3>1. e \in BoundCause
      BY <1>2, <1>3, <2>1 DEF EnsureID, BoundCause, IDs
    <3> HIDE DEF e
    <3> QED
      BY <2>1, <3>1, EntryTyped
  <2>5. /\ EntriesOf(Bind(cs, rc, NewID)) = EntriesOf(cs) \cup {EntryOf(e)}
        /\ ProximalOf(Bind(cs, rc, NewID)) = IF proximal THEN e.id ELSE ProximalOf(cs)
        /\ \A c \in EntriesOf(cs) : ~ SameReason(c, e)
    <3>1. rc.proximal = proximal /\ e = EnsureID(rc, NewID)
      OBVIOUS
    <3> HIDE DEF cs, rc, e
    <3> QED
      BY <1>2, <1>3, <2>1, <2>3, <3>1, BindOnBook
  <2>6. \A c \in EntriesOf(cs) : c.id # e.id
    <3>1. \A i \in DOMAIN cs : cs[i].id \in Nat /\ cs[i].id <= lastID
      BY <1>2, <1>3, CauseEntries DEF CausesInv
    <3>2. \A i \in DOMAIN cs : EntryOf(cs[i]).id # e.id
      BY <1>2, <1>3, <2>1, <3>1 DEF EntryOf
    <3> HIDE DEF cs, e
    <3> QED
      BY <3>2, EntriesMember
  <2>7. EntryOf(e).id = e.id /\ \A c \in EntriesOf(cs) : ~ Book!Reasoned(c, EntryOf(e))
    BY <2>5 DEF EntryOf, Book!Reasoned, SameReason
  <2>8. Bind(cs, rc, NewID) \in Seq(BoundCause)
    BY <2>3 DEF CausesInv
  <2> HIDE DEF cs, rc, e
  <2>9. Shelf' = [Shelf EXCEPT ![id] =
          [body |-> reviews[id].body, entries |-> EntriesOf(cs) \cup {EntryOf(e)},
           proximal |-> IF proximal THEN e.id ELSE ProximalOf(cs),
           triggers |-> Range(reviews[id].triggers)]]
    BY <1>3, <2>5, <2>8, SaveCausesOnBook
  <2>10. Book!BindCause(id, EntryOf(e), proximal)
    <3> HIDE DEF Shelf
    <3> DEFINE more == EntriesOf(cs) \cup {EntryOf(e)}
               mark == IF proximal THEN e.id ELSE ProximalOf(cs)
    <3> HIDE DEF more, mark
    <3>0. /\ Shelf[id].entries = EntriesOf(cs) /\ Shelf[id].proximal = ProximalOf(cs)
          /\ [Shelf[id] EXCEPT !.entries = more, !.proximal = mark] =
               [body |-> reviews[id].body, entries |-> more, proximal |-> mark,
                triggers |-> Range(reviews[id].triggers)]
      BY <1>3, BookChange DEF cs
    <3>1. Shelf' = [Shelf EXCEPT ![id] =
                      [Shelf[id] EXCEPT !.entries = Shelf[id].entries \cup {EntryOf(e)},
                         !.proximal = IF proximal THEN EntryOf(e).id ELSE Shelf[id].proximal]]
      BY <2>7, <2>9, <3>0 DEF more, mark
    <3>2. \A c \in Shelf[id].entries : c.id # EntryOf(e).id /\ ~ Book!Reasoned(c, EntryOf(e))
      BY <2>6, <2>7, <3>0
    <3> QED
      BY <3>1, <3>2 DEF Book!BindCause, Shelf
  <2> QED
    BY <1>3, <2>4, <2>10 DEF BookStep, Book!BookNext, Shelf
<1>4. CASE /\ id \in DOMAIN reviews /\ cause \in causes
           /\ BindRefused(cs, rc) /\ LeaveCauses(id, BindResidue(cs, rc))
  <2>0. /\ CausesInv(cs, causes, lastID) /\ Nil \notin causes
        /\ rc \in BoundCause /\ rc.cause \in causes
    BY <1>2, <1>4
  <2> HIDE DEF cs, rc
  <2>1. /\ EntriesOf(Rewritten(cs, rc)) = EntriesOf(cs)
        /\ \E c \in EntriesOf(cs), taken \in BOOLEAN :
             /\ taken => ProximalOf(cs) # c.id
             /\ ProximalOf(Rewritten(cs, rc)) = IF taken THEN Nil ELSE ProximalOf(cs)
    BY <1>4, <2>0, RefusalOnBook
  <2>2. Shelf' = [Shelf EXCEPT ![id] =
          [body |-> reviews[id].body, entries |-> EntriesOf(cs),
           proximal |-> ProximalOf(Rewritten(cs, rc)), triggers |-> Range(reviews[id].triggers)]]
    BY <1>4, <2>1, LeaveOnBook DEF BindResidue
  <2>3. PICK c \in EntriesOf(cs), taken \in BOOLEAN :
          /\ taken => ProximalOf(cs) # c.id
          /\ ProximalOf(Rewritten(cs, rc)) = IF taken THEN Nil ELSE ProximalOf(cs)
    BY <2>1
  <2>4. CASE taken
    <3> HIDE DEF Shelf
    <3>a. Shelf[id] = [body |-> reviews[id].body, entries |-> EntriesOf(cs),
                       proximal |-> ProximalOf(cs), triggers |-> Range(reviews[id].triggers)]
      BY <1>2, <1>4, Zenon
    <3>0. /\ Shelf[id].entries = EntriesOf(cs) /\ Shelf[id].proximal = ProximalOf(cs)
          /\ [Shelf[id] EXCEPT !.proximal = Nil] =
               [body |-> reviews[id].body, entries |-> EntriesOf(cs), proximal |-> Nil,
                triggers |-> Range(reviews[id].triggers)]
      BY <3>a
    <3>1. Shelf' = [Shelf EXCEPT ![id] = [Shelf[id] EXCEPT !.proximal = Nil]]
      BY <2>2, <2>3, <2>4, <3>0
    <3>2. c \in Shelf[id].entries /\ Shelf[id].proximal # c.id
      BY <2>3, <2>4, <3>0
    <3>3. Book!RefuseBind(id, c)
      BY <3>1, <3>2 DEF Book!RefuseBind, Book!None, Nil, Shelf
    <3> QED
      BY <1>4, <3>2, <3>3 DEF BookStep, Book!BookNext, Shelf
  <2>5. CASE ~ taken
    <3> HIDE DEF Shelf
    <3>1. Shelf = [x \in DOMAIN Shelf |-> Shelf[x]]
      BY DEF Shelf
    <3>2. Shelf' = Shelf
      BY <1>2, <1>4, <2>2, <2>3, <2>5, <3>1
    <3> QED
      BY <3>2 DEF BookStep
  <2> QED
    BY <2>4, <2>5
<1> HIDE DEF cs, rc, e
<1> QED
  BY <1>1, <1>3, <1>4 DEF BindContributingCause, NotFound, cs, rc

LEMMA RebindOnShelf ==
  ASSUME IInv, NEW id, NEW o \in BoundCause, UpdateBoundContributingCause(id, o), IInv'
  PROVE  BookStep
<1> DEFINE cs == reviews[id].causes
<1>1. CASE UNCHANGED reviews
  BY <1>1, SameReviews DEF BookStep
<1>2. ASSUME id \in DOMAIN reviews, o.cause \in causes, NEW rest \in Without(cs, o.id),
             Holds(cs, o.id),
             \/ /\ ~ BindRefused(rest, o)
                /\ o.id = Nil => FreshLeft
                /\ Save([reviews[id] EXCEPT !.causes = Bind(rest, o, NewID)])
             \/ /\ BindRefused(rest, o)
                /\ LeaveCauses(id, RebindResidue(cs, rest, o))
      PROVE  BookStep
  <2> DEFINE e == EnsureID(o, NewID)
  <2>1. /\ lastID \in 2..MaxID /\ MaxID \in Nat /\ lastID \in Nat /\ NewID = lastID + 1
        /\ CausesInv(cs, causes, lastID) /\ causes \subseteq 1..lastID /\ Nil \notin causes
        /\ cs \in Seq(BoundCause)
    BY <1>2, StoredFacts DEF IInv, TypeOK, NewID, CausesInv
  <2>2. /\ id \in DOMAIN Shelf
        /\ Shelf[id].entries = EntriesOf(cs) /\ Shelf[id].proximal = ProximalOf(cs)
    BY <1>2, ShelfParts, BookChange
  <2>3. /\ CausesInv(rest, causes, lastID)
        /\ EntriesOf(rest) = {x \in EntriesOf(cs) : x.id # o.id}
        /\ ProximalOf(rest) = IF ProximalOf(cs) = o.id THEN Nil ELSE ProximalOf(cs)
    <3> HIDE DEF cs
    <3> QED
      BY <1>2, <2>1, WithoutInv, WithoutOnBook
  <2>4. PICK k \in DOMAIN cs : cs[k].id = o.id
    BY <1>2 DEF Holds
  <2> DEFINE old == EntryOf(cs[k])
  <2>5. o.id # Nil => old \in EntriesOf(cs) /\ old.id = o.id /\ EntriesOf(rest) = EntriesOf(cs) \ {old}
    <3> SUFFICES ASSUME o.id # Nil
                 PROVE  old \in EntriesOf(cs) /\ old.id = o.id
                        /\ EntriesOf(rest) = EntriesOf(cs) \ {old}
      OBVIOUS
    <3>1. old \in EntriesOf(cs) /\ old.id = o.id
      BY <2>4, EntriesMember DEF EntryOf
    <3>2. \A i \in DOMAIN cs : EntryOf(cs[i]).id = o.id => i = k
      BY <2>1, <2>4 DEF EntryOf, CausesInv, DistinctIDs
    <3>3. \A x \in EntriesOf(cs) : x.id = o.id => x = old
      <4> HIDE DEF cs
      <4> QED
        BY <3>2, EntriesMember
    <3> HIDE DEF old, cs
    <3> QED
      BY <2>3, <3>1, <3>3
  <2>6. o.id = Nil => EntriesOf(rest) = EntriesOf(cs) /\ ProximalOf(rest) = ProximalOf(cs)
    <3>1. \A x \in EntriesOf(cs) : x.id # Nil
      BY EntriesMember DEF EntryOf
    <3> HIDE DEF cs
    <3> QED
      BY <2>3, <3>1
  <2>7. CASE /\ ~ BindRefused(rest, o) /\ (o.id = Nil => FreshLeft)
             /\ Save([reviews[id] EXCEPT !.causes = Bind(rest, o, NewID)])
    <3> DEFINE new == Bind(rest, o, NewID)
    <3>1. /\ e.id = (IF o.id = Nil THEN NewID ELSE o.id) /\ e.cause = o.cause /\ e.why = o.why
          /\ e.proximal = o.proximal /\ e \in BoundCause /\ e.id \in 1..MaxID /\ e.cause \in 1..MaxID
      <4>1. o.id \in Nat /\ o.id <= lastID
        BY <2>1, <2>4, CauseEntries DEF CausesInv
      <4>2. /\ e.id = (IF o.id = Nil THEN NewID ELSE o.id) /\ e.cause = o.cause /\ e.why = o.why
            /\ e.proximal = o.proximal
        BY DEF EnsureID, BoundCause
      <4>3. e \in BoundCause
        BY <2>1, EnsuredTyped
      <4> HIDE DEF e
      <4> QED
        BY <1>2, <2>1, <2>7, <4>1, <4>2, <4>3 DEF FreshLeft, Nil
    <3>2. e.id # Nil
      BY <2>1, <3>1 DEF Nil
    <3>3. EntryOf(e) \in Book!Entry /\ EntryOf(e).id = e.id
      <4> HIDE DEF e
      <4> QED
        BY <3>1, EntryTyped DEF EntryOf
    <3>4. CausesInv(new, causes', lastID')
      <4>1. reviews[id] \in ReviewType /\ reviews[id].id = id
        BY <1>2, StoredFacts
      <4>2. /\ [reviews[id] EXCEPT !.causes = new].id = id
            /\ [reviews[id] EXCEPT !.causes = new].causes = new
        BY <4>1 DEF ReviewType
      <4> HIDE DEF new
      <4>3. id \in DOMAIN reviews' /\ reviews'[id].causes = new
        BY <2>7, <4>1, <4>2 DEF Save, Put, UpdateTimestamps, ReviewType, new
      <4>4. CausesInv(reviews'[id].causes, causes', lastID')
        BY <4>3 DEF IInv, Stored
      <4> QED
        BY <4>3, <4>4
    <3> DEFINE more == EntriesOf(rest) \cup {EntryOf(e)}
               mark == IF o.proximal THEN e.id ELSE ProximalOf(rest)
    <3>5. /\ EntriesOf(new) = more /\ ProximalOf(new) = mark
          /\ \A c \in EntriesOf(rest) : ~ SameReason(c, e)
      <4>1. e = EnsureID(o, NewID)
        OBVIOUS
      <4> HIDE DEF e
      <4> QED
        BY <2>3, <2>7, <3>2, <3>4, <4>1, BindOnBook
    <3>6. \A c \in EntriesOf(rest) : ~ Book!Reasoned(c, EntryOf(e))
      BY <3>5 DEF EntryOf, Book!Reasoned, SameReason
    <3>7. Shelf' = [Shelf EXCEPT ![id] = [Shelf[id] EXCEPT !.entries = more, !.proximal = mark]]
      <4>1. new \in Seq(BoundCause)
        BY <3>4 DEF CausesInv
      <4> HIDE DEF new, more, mark
      <4>2. Shelf' = [Shelf EXCEPT ![id] =
              [body |-> reviews[id].body, entries |-> more, proximal |-> mark,
               triggers |-> Range(reviews[id].triggers)]]
        BY <1>2, <2>7, <3>5, <4>1, SaveCausesOnBook DEF new
      <4> QED
        BY <1>2, <4>2, BookChange
    <3> HIDE DEF new, e, old, cs
    <3>8. CASE o.id = Nil
      <4>1. more = Shelf[id].entries \cup {EntryOf(e)}
            /\ mark = IF o.proximal THEN EntryOf(e).id ELSE Shelf[id].proximal
        BY <2>2, <2>6, <3>3, <3>8
      <4>2. \A c \in Shelf[id].entries : c.id # EntryOf(e).id
        <5>1. \A i \in DOMAIN cs : cs[i].id \in Nat /\ cs[i].id <= lastID
          BY <2>1, CauseEntries DEF CausesInv
        <5>2. \A i \in DOMAIN cs : EntryOf(cs[i]).id # e.id
          BY <2>1, <3>1, <3>8, <5>1 DEF EntryOf
        <5> QED
          BY <2>2, <3>3, <5>2, EntriesMember
      <4> HIDE DEF more, mark
      <4>3. Book!BindCause(id, EntryOf(e), o.proximal)
        BY <2>2, <2>6, <3>6, <3>7, <3>8, <4>1, <4>2 DEF Book!BindCause, Shelf
      <4>4. o.proximal \in BOOLEAN
        BY DEF BoundCause
      <4> QED
        BY <1>2, <3>3, <4>3, <4>4 DEF BookStep, Book!BookNext, Shelf
    <3>9. CASE o.id # Nil
      <4>1. /\ more = (Shelf[id].entries \ {old}) \cup {EntryOf(e)}
            /\ mark = IF o.proximal THEN EntryOf(e).id
                      ELSE IF Shelf[id].proximal = old.id THEN Nil ELSE Shelf[id].proximal
            /\ old.id = EntryOf(e).id /\ old \in Shelf[id].entries
        BY <2>2, <2>3, <2>5, <3>1, <3>3, <3>9
      <4>2. \A c \in Shelf[id].entries \ {old} : ~ Book!Reasoned(c, EntryOf(e))
        BY <2>2, <2>5, <3>6, <3>9
      <4> HIDE DEF more, mark
      <4>3. Book!ReplaceCause(id, old, EntryOf(e), o.proximal)
        BY <3>7, <4>1, <4>2 DEF Book!ReplaceCause, Book!None, Nil, Shelf
      <4>4. o.proximal \in BOOLEAN
        BY DEF BoundCause
      <4> QED
        BY <1>2, <3>3, <4>1, <4>3, <4>4 DEF BookStep, Book!BookNext, Shelf
    <3> QED
      BY <3>8, <3>9
  <2>8. CASE BindRefused(rest, o) /\ LeaveCauses(id, RebindResidue(cs, rest, o))
    <3> DEFINE new == Rewritten(rest, o)
               n == Len(cs)
    <3>1. /\ EntriesOf(new) = EntriesOf(rest)
          /\ \E c \in EntriesOf(rest), taken \in BOOLEAN :
               /\ taken => ProximalOf(rest) # c.id
               /\ ProximalOf(new) = IF taken THEN Nil ELSE ProximalOf(rest)
      BY <1>2, <2>1, <2>3, <2>8, RefusalOnBook
    <3>2. /\ EntriesOf(Padded(new, n)) = EntriesOf(rest)
          /\ ProximalOf(Padded(new, n)) = ProximalOf(new)
      <4>1. rest \in Seq(BoundCause) /\ CausesInv(new, causes, lastID)
        BY <2>3, RewrittenInv DEF CausesInv
      <4>2. Len(new) = Len(rest) /\ Len(rest) <= n /\ n \in Nat
        BY <1>2, <2>1, <4>1, RewrittenKeeps, WithoutShorter
      <4> HIDE DEF new, n
      <4>3. Len(new) <= n
        BY <4>2
      <4> QED
        BY <2>1, <3>1, <4>1, <4>2, <4>3, PaddedOnBook
    <3>3. PICK c \in EntriesOf(rest), taken \in BOOLEAN :
            /\ taken => ProximalOf(rest) # c.id
            /\ ProximalOf(new) = IF taken THEN Nil ELSE ProximalOf(rest)
      BY <3>1
    <3> DEFINE mark == IF taken THEN Nil ELSE ProximalOf(rest)
    <3>4. Shelf' = [Shelf EXCEPT ![id] =
            [Shelf[id] EXCEPT !.entries = EntriesOf(rest), !.proximal = mark]]
      <4>1. RebindResidue(cs, rest, o) = Padded(new, n)
        BY DEF RebindResidue
      <4> HIDE DEF new, n
      <4>2. ProximalOf(Padded(new, n)) = mark
        BY <3>2, <3>3
      <4> HIDE DEF mark
      <4>3. Shelf' = [Shelf EXCEPT ![id] =
              [body |-> reviews[id].body, entries |-> EntriesOf(rest), proximal |-> mark,
               triggers |-> Range(reviews[id].triggers)]]
        BY <1>2, <2>8, <3>2, <4>1, <4>2, LeaveOnBook
      <4> QED
        BY <1>2, <4>3, BookChange
    <3> HIDE DEF new, n, old, cs
    <3>5. CASE o.id = Nil /\ ~ taken
      <4>1. Shelf' = [Shelf EXCEPT ![id] = [Shelf[id] EXCEPT !.entries = Shelf[id].entries,
                                                           !.proximal = Shelf[id].proximal]]
        BY <2>2, <2>6, <3>4, <3>5
      <4>2. [Shelf[id] EXCEPT !.entries = Shelf[id].entries, !.proximal = Shelf[id].proximal]
              = Shelf[id]
        <5>1. [Shelf[id] EXCEPT !.proximal = Shelf[id].proximal] = Shelf[id]
          BY <1>2, ShelfParts
        <5> QED
          BY <1>2, <5>1, BookMark
      <4>3. Shelf = [x \in DOMAIN Shelf |-> Shelf[x]]
        BY DEF Shelf
      <4> HIDE DEF Shelf
      <4> QED
        BY <4>1, <4>2, <4>3 DEF BookStep
    <3>6. CASE o.id = Nil /\ taken
      <4>1. Shelf' = [Shelf EXCEPT ![id] = [Shelf[id] EXCEPT !.entries = Shelf[id].entries,
                                                           !.proximal = Nil]]
        BY <2>2, <2>6, <3>4, <3>6
      <4>2. [Shelf[id] EXCEPT !.entries = Shelf[id].entries, !.proximal = Nil]
              = [Shelf[id] EXCEPT !.proximal = Nil]
        BY <1>2, BookMark
      <4>3. c \in Shelf[id].entries /\ Shelf[id].proximal # c.id
        BY <2>2, <2>6, <3>3, <3>6
      <4>4. Book!RefuseBind(id, c)
        BY <4>1, <4>2, <4>3 DEF Book!RefuseBind, Book!None, Nil, Shelf
      <4> QED
        BY <1>2, <4>3, <4>4 DEF BookStep, Book!BookNext, Shelf
    <3>7. CASE o.id # Nil
      <4>1. /\ EntriesOf(rest) = Shelf[id].entries \ {old}
            /\ mark = IF taken \/ Shelf[id].proximal = old.id THEN Nil ELSE Shelf[id].proximal
            /\ old \in Shelf[id].entries /\ c \in Shelf[id].entries /\ c # old
        BY <2>2, <2>3, <2>5, <3>3, <3>7
      <4>2. taken => Shelf[id].proximal # c.id
        BY <2>2, <2>3, <3>3
      <4> HIDE DEF mark
      <4>3. Book!RefuseReplace(id, old, c, taken)
        BY <3>4, <4>1, <4>2 DEF Book!RefuseReplace, Book!None, Nil, Shelf
      <4> QED
        BY <1>2, <4>1, <4>3 DEF BookStep, Book!BookNext, Shelf
    <3> QED
      BY <3>5, <3>6, <3>7
  <2> QED
    BY <1>2, <2>7, <2>8
<1> QED
  BY <1>1, <1>2 DEF UpdateBoundContributingCause, NotFound

LEMMA AppendRange ==
  ASSUME NEW S, NEW s \in Seq(S), NEW t \in S
  PROVE  Append(s, t) \in Seq(S) /\ Range(Append(s, t)) = Range(s) \cup {t}
<1> DEFINE n == Len(s)
           new == Append(s, t)
<1>1. n \in Nat /\ DOMAIN s = 1..n
  OBVIOUS
<1>2. /\ new \in Seq(S) /\ DOMAIN new = 1..(n + 1) /\ new[n + 1] = t
      /\ \A i \in 1..n : new[i] = s[i]
  OBVIOUS
<1> HIDE DEF n, new
<1>3. 1..(n + 1) = 1..n \cup {n + 1}
  BY <1>1
<1>4. \A x : x \in Range(new) <=> x \in Range(s) \/ x = t
  BY <1>1, <1>2, <1>3 DEF Range
<1> QED
  BY <1>2, <1>4 DEF new

LEMMA WithoutRange ==
  ASSUME NEW ts \in Seq(BoundTrigger), NEW id, NEW rest \in Without(ts, id)
  PROVE  rest \in Seq(BoundTrigger) /\ Range(rest) = {t \in Range(ts) : t.id # id}
<1>1. rest \in Seq(BoundTrigger)
  BY WithoutLists
<1>2. PICK f \in [DOMAIN rest -> DOMAIN ts] :
        /\ \A i \in DOMAIN rest : rest[i] = ts[f[i]] /\ ts[f[i]].id # id
        /\ \A k \in DOMAIN ts : ts[k].id # id => \E i \in DOMAIN rest : f[i] = k
  BY WithoutLists
<1>3. \A t : t \in Range(rest) <=> t \in Range(ts) /\ t.id # id
  BY <1>2 DEF Range
<1> QED
  BY <1>1, <1>3

(* The book's triggers are the ones bound.                                                *)
LEMMA TriggersOnShelf ==
  ASSUME IInv, NEW id \in DOMAIN reviews, NEW ts \in Seq(BoundTrigger),
         Save([reviews[id] EXCEPT !.triggers = ts])
  PROVE  /\ id \in DOMAIN Shelf /\ Shelf[id].triggers = Range(reviews[id].triggers)
         /\ Shelf' = [Shelf EXCEPT ![id] = [Shelf[id] EXCEPT !.triggers = Range(ts)]]
<1> DEFINE body == reviews[id].body
           entries == EntriesOf(reviews[id].causes)
           mark == ProximalOf(reviews[id].causes)
           hooks == Range(reviews[id].triggers)
           new == Range(ts)
<1>1. /\ id \in DOMAIN Shelf
      /\ Shelf[id] = [body |-> body, entries |-> entries, proximal |-> mark, triggers |-> hooks]
  BY ShelfParts
<1>2. Shelf' = [Shelf EXCEPT ![id] =
        [body |-> body, entries |-> entries, proximal |-> mark, triggers |-> new]]
  BY SaveTriggersOnBook
<1> HIDE DEF Shelf, body, entries, mark, hooks, new
<1>3. /\ Shelf[id].triggers = hooks
      /\ [Shelf[id] EXCEPT !.triggers = new] =
           [body |-> body, entries |-> entries, proximal |-> mark, triggers |-> new]
  BY <1>1
<1>4. Shelf' = [Shelf EXCEPT ![id] = [Shelf[id] EXCEPT !.triggers = new]]
  BY <1>2, <1>3
<1> QED
  BY <1>1, <1>3, <1>4 DEF hooks, new

LEMMA BindTriggerOnShelf ==
  ASSUME IInv, NEW id, NEW trigger, NEW why \in Whys, BindTrigger(id, trigger, why)
  PROVE  BookStep
<1> DEFINE ts == reviews[id].triggers
           t == [id |-> NewID, trigger |-> trigger, why |-> why]
<1>1. CASE UNCHANGED reviews
  BY <1>1, SameReviews DEF BookStep
<1>2. CASE /\ id \in DOMAIN reviews /\ trigger \in triggers /\ FreshLeft
           /\ Save([reviews[id] EXCEPT !.triggers = AddTrigger(ts, NewID, trigger, why)])
  <2>1. /\ lastID \in 2..MaxID /\ MaxID \in Nat /\ lastID \in Nat /\ NewID = lastID + 1
        /\ TriggersInv(ts, triggers, lastID) /\ triggers \subseteq 1..lastID
        /\ ts \in Seq(BoundTrigger)
    BY <1>2, StoredFacts DEF IInv, TypeOK, NewID, TriggersInv
  <2>2. NewID \in 1..MaxID /\ trigger \in 1..MaxID /\ NewID \in IDs /\ trigger \in IDs
    BY <1>2, <2>1 DEF FreshLeft, IDs
  <2>3. t \in BoundTrigger /\ t \in Book!BookTrigger
    BY <2>2 DEF BoundTrigger, Book!BookTrigger
  <2>4. \A u \in Range(ts) : u.id # t.id
    BY <2>1 DEF TriggersInv, Range, BoundTrigger, IDs
  <2>5. AddTrigger(ts, NewID, trigger, why) = Append(ts, t)
    BY DEF AddTrigger
  <2> HIDE DEF t
  <2>6. Append(ts, t) \in Seq(BoundTrigger) /\ Range(Append(ts, t)) = Range(ts) \cup {t}
    BY <2>1, <2>3, AppendRange
  <2> DEFINE new == Append(ts, t)
  <2> HIDE DEF new
  <2>7. /\ id \in DOMAIN Shelf /\ Shelf[id].triggers = Range(ts)
        /\ Shelf' = [Shelf EXCEPT ![id] = [Shelf[id] EXCEPT !.triggers = Range(new)]]
    BY <1>2, <2>5, <2>6, TriggersOnShelf DEF new
  <2>8. Book!AddBookTrigger(id, t)
    BY <2>4, <2>6, <2>7 DEF Book!AddBookTrigger, Shelf, new
  <2> QED
    BY <1>2, <2>3, <2>8 DEF BookStep, Book!BookNext, Shelf
<1> QED
  BY <1>1, <1>2 DEF BindTrigger, NotFound

LEMMA RebindTriggerOnShelf ==
  ASSUME IInv, NEW id, NEW o \in BoundTrigger, UpdateBoundTrigger(id, o)
  PROVE  BookStep
<1> DEFINE ts == reviews[id].triggers
<1>1. CASE UNCHANGED reviews
  BY <1>1, SameReviews DEF BookStep
<1>2. ASSUME id \in DOMAIN reviews, o.trigger \in triggers, NEW rest \in Without(ts, o.id),
             Holds(ts, o.id), Save([reviews[id] EXCEPT !.triggers = ReplaceTrigger(rest, o)])
      PROVE  BookStep
  <2>1. /\ lastID \in 2..MaxID /\ MaxID \in Nat /\ lastID \in Nat
        /\ TriggersInv(ts, triggers, lastID) /\ triggers \subseteq 1..lastID
        /\ ts \in Seq(BoundTrigger)
    BY <1>2, StoredFacts DEF IInv, TypeOK, TriggersInv
  <2>2. PICK k \in DOMAIN ts : ts[k].id = o.id
    BY <1>2 DEF Holds
  <2>3. /\ o.id # Nil /\ ts[k] \in Range(ts)
        /\ \A i \in DOMAIN ts : ts[i].id = o.id => ts[i] = ts[k]
    BY <2>1, <2>2 DEF TriggersInv, KnownTriggers, DistinctIDs, Range
  <2>4. o.id \in 1..MaxID /\ o.trigger \in 1..MaxID
    <3>1. ts[k].id \in Nat /\ ts[k].id <= lastID
      BY <2>1, <2>2, TriggerEntries DEF TriggersInv
    <3> QED
      BY <1>2, <2>1, <2>2, <2>3, <3>1 DEF Nil
  <2>5. o \in Book!BookTrigger
    BY <2>4 DEF BoundTrigger, Book!BookTrigger
  <2>6. rest \in Seq(BoundTrigger) /\ Range(rest) = Range(ts) \ {ts[k]}
    <3>1. rest \in Seq(BoundTrigger) /\ Range(rest) = {t \in Range(ts) : t.id # o.id}
      BY <1>2, <2>1, WithoutRange
    <3>2. \A x \in Range(ts) : x.id # o.id <=> x # ts[k]
      BY <2>2, <2>3 DEF Range
    <3> QED
      BY <3>1, <3>2
  <2> DEFINE new == Append(rest, o)
  <2>7. new \in Seq(BoundTrigger) /\ Range(new) = (Range(ts) \ {ts[k]}) \cup {o}
    BY <2>6, AppendRange
  <2>8. ReplaceTrigger(rest, o) = new
    BY DEF ReplaceTrigger
  <2> HIDE DEF new
  <2>9. /\ id \in DOMAIN Shelf /\ Shelf[id].triggers = Range(ts)
        /\ Shelf' = [Shelf EXCEPT ![id] = [Shelf[id] EXCEPT !.triggers = Range(new)]]
    BY <1>2, <2>7, <2>8, TriggersOnShelf
  <2>10. Book!ReplaceBookTrigger(id, ts[k], o)
    BY <2>2, <2>7, <2>9 DEF Book!ReplaceBookTrigger, Shelf
  <2> QED
    BY <1>2, <2>3, <2>5, <2>9, <2>10 DEF BookStep, Book!BookNext, Shelf
<1> QED
  BY <1>1, <1>2 DEF UpdateBoundTrigger, NotFound

-------------------------------------------------------------------------------------
LEMMA InitOnBook == Init => Book!BookInit
<1> SUFFICES ASSUME Init PROVE Shelf = [id \in {} |-> Book!None]
  BY DEF Book!BookInit, Shelf
<1>1. DOMAIN reviews = {}
  BY DEF Init
<1> QED
  BY <1>1 DEF Shelf

LEMMA NextOnBook == IInv /\ IInv' /\ [Next]_vars => [Book!BookNext]_Shelf
<1> SUFFICES ASSUME IInv, IInv', [Next]_vars PROVE BookStep
  BY DEF BookStep
<1>1. /\ lastID \in 2..MaxID /\ MaxID \in Nat /\ lastID' \in 2..MaxID
      /\ causes \subseteq 1..lastID /\ triggers \subseteq 1..lastID
      /\ DOMAIN reviews \subseteq 1..lastID
  BY BoundsAssumption DEF IInv, TypeOK
<1>2. ASSUME NEW body \in Bodies, Create(body) PROVE BookStep
  BY <1>1, <1>2, CreateOnBook
<1>3. ASSUME NEW id \in ReviewIDs, NEW body \in Bodies, UpdateReview(id, body) PROVE BookStep
  BY <1>3, UpdateReviewOnBook
<1>4. ASSUME NEW id \in ReviewIDs, NEW cause \in CauseIDs, NEW why \in Whys, NEW proximal \in BOOLEAN,
             BindContributingCause(id, cause, why, proximal)
      PROVE  BookStep
  BY <1>4, BindOnShelf
<1>5. ASSUME NEW id \in ReviewIDs, NEW cause \in CauseIDs, NEW why \in Whys, NEW proximal \in BOOLEAN,
             NEW entry \in CauseEntryIDs(id),
             UpdateBoundContributingCause(id,
               [id |-> entry, cause |-> cause, why |-> why, proximal |-> proximal])
      PROVE  BookStep
  <2>1. cause \in IDs
    BY NamedIDs
  <2>2. entry \in IDs
    BY NamedIDs
  <2>3. [id |-> entry, cause |-> cause, why |-> why, proximal |-> proximal] \in BoundCause
    BY <2>1, <2>2 DEF BoundCause
  <2> QED
    BY <1>5, <2>3, RebindOnShelf
<1>6. ASSUME NEW id \in ReviewIDs, NEW trigger \in TriggerIDs, NEW why \in Whys,
             BindTrigger(id, trigger, why)
      PROVE  BookStep
  BY <1>6, BindTriggerOnShelf
<1>7. ASSUME NEW id \in ReviewIDs, NEW trigger \in TriggerIDs, NEW why \in Whys,
             NEW entry \in TriggerEntryIDs(id),
             UpdateBoundTrigger(id, [id |-> entry, trigger |-> trigger, why |-> why])
      PROVE  BookStep
  <2>1. trigger \in IDs
    BY NamedIDs
  <2>2. entry \in IDs
    BY NamedIDs
  <2>3. [id |-> entry, trigger |-> trigger, why |-> why] \in BoundTrigger
    BY <2>1, <2>2 DEF BoundTrigger
  <2> QED
    BY <1>7, <2>3, RebindTriggerOnShelf
<1>8. CASE CreateCause \/ CreateTrigger \/ Tick \/ UNCHANGED vars
  <2>1. UNCHANGED reviews
    BY <1>8 DEF CreateCause, CreateTrigger, Tick, vars
  <2> QED
    BY <2>1, SameReviews DEF BookStep
<1> QED
  BY <1>2, <1>3, <1>4, <1>5, <1>6, <1>7, <1>8 DEF Next

(* Without slices, stores and lookups, a review is a set of entries of which one may be    *)
(* marked, and the service does to it what the book says, refused requests included.        *)
THEOREM ServiceKeepsBook == Spec => ImplementsBook
<1>1. IInv /\ IInv' /\ [Next]_vars =>
        [Book!BookNext]_[id \in DOMAIN reviews |-> BookOf(reviews[id])]
  BY NextOnBook DEF Shelf
<1> QED
  BY <1>1, InitOnBook, Invariance, PTL DEF Spec, ImplementsBook, Book!BookSpec

-------------------------------------------------------------------------------------
(* Every step leaves the reviews alone, saves one of them, or is the refusal of a binding that  *)
(* has rewritten the causes of one; the action properties follow from these shapes.              *)
NamedIn(cs) == {e.id : e \in EntriesOf(cs)}

LEMMA NamedMember ==
  ASSUME NEW cs, NEW x
  PROVE  x \in NamedIn(cs) <=> \E i \in DOMAIN cs : cs[i].id # Nil /\ cs[i].id = x
<1>1. \A i \in DOMAIN cs : EntryOf(cs[i]).id = cs[i].id
  BY DEF EntryOf
<1> QED
  BY <1>1, EntriesMember DEF NamedIn

LEMMA NamedAreBound ==
  ASSUME NEW r
  PROVE  BoundCauseIDs(r) = NamedIn(r.causes)
<1>1. \A x : x \in BoundCauseIDs(r) <=> \E i \in DOMAIN r.causes :
               r.causes[i].id # Nil /\ r.causes[i].id = x
  BY DEF BoundCauseIDs, Bound, Range
<1> QED
  BY <1>1, NamedMember

(* A saved review still has what the stored one has, and its mark, unless the last entry   *)
(* is the marked one.                                                                      *)
Keeps(old, r) ==
  /\ r.createdAt = old.createdAt
  /\ BoundTriggerIDs(old) \subseteq BoundTriggerIDs(r)
  /\ NamedIn(old.causes) \subseteq NamedIn(r.causes)
  /\ \/ ProximalOf(old.causes) = Nil
     \/ ProximalOf(r.causes) # Nil
     \/ r.causes[Len(r.causes)].id = ProximalOf(old.causes)

SavesOne ==
  /\ outcome' # "refused"
  /\ \E r \in ReviewType : Save(r) /\ (r.id \in DOMAIN reviews => Keeps(reviews[r.id], r))

RefusesOne ==
  /\ outcome' = "refused"
  /\ \E id \in DOMAIN reviews : \E cs \in Seq(BoundCause) :
       /\ LeaveCauses(id, cs)
       /\ Len(cs) = Len(reviews[id].causes)
       /\ NamedIn(cs) \subseteq NamedIn(reviews[id].causes)
       /\ \E x : NamedIn(reviews[id].causes) \ NamedIn(cs) \subseteq {x}

Shape == UNCHANGED reviews \/ SavesOne \/ RefusesOne

-------------------------------------------------------------------------------------
LEMMA CreateShape ==
  ASSUME IInv, NEW body \in Bodies, Create(body)
  PROVE  Shape
<1> DEFINE r == NewReview(NewID, body)
<1>1. CASE FreshLeft /\ Save(r) /\ outcome' = "ok"
  <2>1. lastID \in Nat /\ NewID \in Nat /\ NewID \notin DOMAIN reviews
    BY BoundsAssumption DEF IInv, TypeOK, NewID
  <2>2. r \in ReviewType /\ r.id = NewID
    BY <2>1 DEF NewReview, ReviewType, IDs, Times, ZeroTime
  <2> HIDE DEF r
  <2> QED
    BY <1>1, <2>1, <2>2 DEF Shape, SavesOne
<1>2. CASE UNCHANGED reviews
  BY <1>2 DEF Shape
<1> QED
  BY <1>1, <1>2 DEF Create

LEMMA UpdateReviewShape ==
  ASSUME IInv, NEW id, NEW body \in Bodies, UpdateReview(id, body)
  PROVE  Shape
<1> DEFINE r == Update(reviews[id], NewReview(NewID, body))
<1>1. CASE id \in DOMAIN reviews /\ Save(r) /\ outcome' = "ok"
  <2>1. reviews[id] \in ReviewType /\ reviews[id].id = id
    BY <1>1, StoredFacts
  <2>2. NewReview(NewID, body).body = body
    BY DEF NewReview
  <2>3. /\ r \in ReviewType /\ r.id = id /\ r.createdAt = reviews[id].createdAt
        /\ r.causes = reviews[id].causes /\ r.triggers = reviews[id].triggers
    BY <2>1, <2>2 DEF Update, ReviewType
  <2> HIDE DEF r
  <2>4. Keeps(reviews[id], r)
    BY <2>3 DEF Keeps, BoundTriggerIDs
  <2> QED
    BY <1>1, <2>3, <2>4 DEF Shape, SavesOne
<1>2. CASE UNCHANGED reviews
  BY <1>2 DEF Shape
<1> QED
  BY <1>1, <1>2 DEF UpdateReview, NotFound

(* Saving a review with other causes, with other triggers.                                 *)
LEMMA CausesShape ==
  ASSUME IInv, NEW id \in DOMAIN reviews, NEW cs \in Seq(BoundCause),
         Save([reviews[id] EXCEPT !.causes = cs]), outcome' # "refused",
         NamedIn(reviews[id].causes) \subseteq NamedIn(cs),
         \/ ProximalOf(reviews[id].causes) = Nil
         \/ ProximalOf(cs) # Nil
         \/ cs[Len(cs)].id = ProximalOf(reviews[id].causes)
  PROVE  Shape
<1> DEFINE r == [reviews[id] EXCEPT !.causes = cs]
<1>1. reviews[id] \in ReviewType /\ reviews[id].id = id
  BY StoredFacts
<1>2. /\ r \in ReviewType /\ r.id = id /\ r.createdAt = reviews[id].createdAt
      /\ r.causes = cs /\ r.triggers = reviews[id].triggers
  BY <1>1 DEF ReviewType
<1>3. Save(r)
  OBVIOUS
<1> HIDE DEF r
<1>4. Keeps(reviews[id], r)
  BY <1>2 DEF Keeps, BoundTriggerIDs
<1> QED
  BY <1>2, <1>3, <1>4 DEF Shape, SavesOne

LEMMA TriggersShape ==
  ASSUME IInv, NEW id \in DOMAIN reviews, NEW ts \in Seq(BoundTrigger),
         Save([reviews[id] EXCEPT !.triggers = ts]), outcome' # "refused",
         \A t \in Range(reviews[id].triggers) : \E u \in Range(ts) : u.id = t.id
  PROVE  Shape
<1> DEFINE r == [reviews[id] EXCEPT !.triggers = ts]
<1>1. reviews[id] \in ReviewType /\ reviews[id].id = id
  BY StoredFacts
<1>2. /\ r \in ReviewType /\ r.id = id /\ r.createdAt = reviews[id].createdAt
      /\ r.causes = reviews[id].causes /\ r.triggers = ts
  BY <1>1 DEF ReviewType
<1>3. Save(r)
  OBVIOUS
<1> HIDE DEF r
<1>4. Keeps(reviews[id], r)
  BY <1>2 DEF Keeps, BoundTriggerIDs
<1> QED
  BY <1>2, <1>3, <1>4 DEF Shape, SavesOne

LEMMA BindTriggerShape ==
  ASSUME IInv, NEW id, NEW trigger, NEW why \in Whys, BindTrigger(id, trigger, why)
  PROVE  Shape
<1> DEFINE ts == reviews[id].triggers
           t == [id |-> NewID, trigger |-> trigger, why |-> why]
<1>1. CASE UNCHANGED reviews
  BY <1>1 DEF Shape
<1>2. CASE /\ id \in DOMAIN reviews /\ trigger \in triggers /\ outcome' = "ok"
           /\ Save([reviews[id] EXCEPT !.triggers = AddTrigger(ts, NewID, trigger, why)])
  <2>1. lastID \in Nat /\ NewID \in Nat /\ trigger \in Nat /\ ts \in Seq(BoundTrigger)
    BY <1>2, StoredFacts DEF IInv, TypeOK, NewID, TriggersInv
  <2>2. t \in BoundTrigger
    BY <2>1 DEF BoundTrigger, IDs
  <2>3. AddTrigger(ts, NewID, trigger, why) = Append(ts, t)
    BY DEF AddTrigger
  <2> DEFINE new == Append(ts, t)
  <2>4. new \in Seq(BoundTrigger) /\ Range(new) = Range(ts) \cup {t}
    BY <2>1, <2>2, AppendRange
  <2> HIDE DEF new, t
  <2>5. \A x \in Range(ts) : \E u \in Range(new) : u.id = x.id
    BY <2>4
  <2>6. Save([reviews[id] EXCEPT !.triggers = new])
    BY <1>2, <2>3 DEF new
  <2> QED
    BY <1>2, <2>4, <2>5, <2>6, TriggersShape
<1> QED
  BY <1>1, <1>2 DEF BindTrigger, NotFound

LEMMA RebindTriggerShape ==
  ASSUME IInv, NEW id, NEW o \in BoundTrigger, UpdateBoundTrigger(id, o)
  PROVE  Shape
<1> DEFINE ts == reviews[id].triggers
<1>1. CASE UNCHANGED reviews
  BY <1>1 DEF Shape
<1>2. ASSUME id \in DOMAIN reviews, NEW rest \in Without(ts, o.id),
             Save([reviews[id] EXCEPT !.triggers = ReplaceTrigger(rest, o)]), outcome' = "ok"
      PROVE  Shape
  <2>1. ts \in Seq(BoundTrigger)
    BY <1>2, StoredFacts DEF TriggersInv
  <2>2. rest \in Seq(BoundTrigger) /\ Range(rest) = {t \in Range(ts) : t.id # o.id}
    BY <1>2, <2>1, WithoutRange
  <2> DEFINE new == Append(rest, o)
  <2>3. new \in Seq(BoundTrigger) /\ Range(new) = Range(rest) \cup {o}
    BY <2>2, AppendRange
  <2>4. ReplaceTrigger(rest, o) = new
    BY DEF ReplaceTrigger
  <2> HIDE DEF new
  <2>5. \A t \in Range(ts) : \E u \in Range(new) : u.id = t.id
    BY <2>2, <2>3
  <2> QED
    BY <1>2, <2>3, <2>4, <2>5, TriggersShape
<1> QED
  BY <1>1, <1>2 DEF UpdateBoundTrigger, NotFound

LEMMA SavedCausesInv ==
  ASSUME IInv, IInv', NEW id \in DOMAIN reviews, NEW cs,
         Save([reviews[id] EXCEPT !.causes = cs])
  PROVE  CausesInv(cs, causes', lastID') /\ cs \in Seq(BoundCause)
<1>1. reviews[id] \in ReviewType /\ reviews[id].id = id
  BY StoredFacts
<1>2. /\ [reviews[id] EXCEPT !.causes = cs].id = id
      /\ [reviews[id] EXCEPT !.causes = cs].causes = cs
  BY <1>1 DEF ReviewType
<1>3. id \in DOMAIN reviews' /\ reviews'[id].causes = cs
  BY <1>1, <1>2 DEF Save, Put, UpdateTimestamps, ReviewType
<1>4. CausesInv(reviews'[id].causes, causes', lastID')
  BY <1>3 DEF IInv, Stored
<1> QED
  BY <1>3, <1>4 DEF CausesInv

LEMMA BindShape ==
  ASSUME IInv, IInv', NEW id, NEW cause, NEW why \in Whys, NEW proximal \in BOOLEAN,
         BindContributingCause(id, cause, why, proximal)
  PROVE  Shape
<1> DEFINE rc == [id |-> Nil, cause |-> cause, why |-> why, proximal |-> proximal]
           cs == reviews[id].causes
           e == EnsureID(rc, NewID)
           new == Bind(cs, rc, NewID)
<1>1. CASE UNCHANGED reviews
  BY <1>1 DEF Shape
<1>2. ASSUME id \in DOMAIN reviews, cause \in causes
      PROVE  /\ CausesInv(cs, causes, lastID) /\ cs \in Seq(BoundCause) /\ rc \in BoundCause
             /\ NewID # Nil
  <2>1. CausesInv(cs, causes, lastID) /\ causes \subseteq 1..lastID /\ lastID \in Nat
    BY <1>2, StoredFacts DEF IInv, TypeOK
  <2> QED
    BY <1>2, <2>1 DEF CausesInv, BoundCause, IDs, Nil, NewID
<1>3. CASE /\ id \in DOMAIN reviews /\ cause \in causes /\ ~ BindRefused(cs, rc)
           /\ Save([reviews[id] EXCEPT !.causes = new]) /\ outcome' = "ok"
  <2>1. CausesInv(new, causes', lastID') /\ new \in Seq(BoundCause)
    <3> HIDE DEF new
    <3> QED
      BY <1>3, SavedCausesInv
  <2>2. e.id = NewID /\ e.id # Nil /\ rc.proximal = proximal
    BY <1>2, <1>3 DEF EnsureID
  <2>3. /\ EntriesOf(new) = EntriesOf(cs) \cup {EntryOf(e)}
        /\ ProximalOf(new) = IF rc.proximal THEN e.id ELSE ProximalOf(cs)
        /\ \A c \in EntriesOf(cs) : ~ SameReason(c, e)
    <3>1. e = EnsureID(rc, NewID)
      OBVIOUS
    <3>2. /\ CausesInv(cs, causes, lastID) /\ rc \in BoundCause /\ ~ BindRefused(cs, rc)
          /\ CausesInv(Bind(cs, rc, NewID), causes', lastID') /\ e.id # Nil
      BY <1>2, <1>3, <2>1, <2>2
    <3> HIDE DEF e, rc, cs
    <3> QED
      BY <3>1, <3>2, BindOnBook
  <2> HIDE DEF e, rc, new
  <2>4. NamedIn(cs) \subseteq NamedIn(new)
    BY <2>3 DEF NamedIn
  <2>5. ProximalOf(cs) = Nil \/ ProximalOf(new) # Nil
    BY <2>2, <2>3
  <2> QED
    BY <1>3, <2>1, <2>4, <2>5, CausesShape
<1>4. CASE /\ id \in DOMAIN reviews /\ cause \in causes /\ BindRefused(cs, rc)
           /\ LeaveCauses(id, BindResidue(cs, rc)) /\ outcome' = "refused"
  <2> DEFINE left == Rewritten(cs, rc)
  <2>1. left \in Seq(BoundCause) /\ Len(left) = Len(cs) /\ EntriesOf(left) = EntriesOf(cs)
    <3> HIDE DEF cs, rc
    <3> QED
      BY <1>2, <1>4, RewrittenKeeps, RewrittenEntries
  <2>2. LeaveCauses(id, left)
    BY <1>4 DEF BindResidue
  <2> HIDE DEF left
  <2>3. NamedIn(left) = NamedIn(cs)
    BY <2>1 DEF NamedIn
  <2> QED
    BY <1>4, <2>1, <2>2, <2>3 DEF Shape, RefusesOne
<1> HIDE DEF new, e
<1> QED
  BY <1>1, <1>3, <1>4 DEF BindContributingCause, NotFound, new

LEMMA RebindShape ==
  ASSUME IInv, IInv', NEW id, NEW o \in BoundCause, UpdateBoundContributingCause(id, o)
  PROVE  Shape
<1> DEFINE cs == reviews[id].causes
<1>1. CASE UNCHANGED reviews
  BY <1>1 DEF Shape
<1>2. ASSUME id \in DOMAIN reviews, o.cause \in causes, NEW rest \in Without(cs, o.id)
      PROVE  /\ CausesInv(cs, causes, lastID) /\ cs \in Seq(BoundCause)
             /\ lastID \in Nat /\ NewID # Nil /\ Nil \notin causes
             /\ CausesInv(rest, causes, lastID) /\ rest \in Seq(BoundCause)
             /\ NamedIn(rest) = NamedIn(cs) \ {o.id}
             /\ ProximalOf(rest) = IF ProximalOf(cs) = o.id THEN Nil ELSE ProximalOf(cs)
  <2>1. /\ CausesInv(cs, causes, lastID) /\ cs \in Seq(BoundCause) /\ lastID \in Nat
        /\ NewID # Nil /\ Nil \notin causes
    BY <1>2, StoredFacts DEF CausesInv, Nil, NewID, IInv, TypeOK
  <2> HIDE DEF cs
  <2>2. /\ CausesInv(rest, causes, lastID)
        /\ EntriesOf(rest) = {x \in EntriesOf(cs) : x.id # o.id}
        /\ ProximalOf(rest) = IF ProximalOf(cs) = o.id THEN Nil ELSE ProximalOf(cs)
    BY <1>2, <2>1, WithoutInv, WithoutOnBook
  <2>3. NamedIn(rest) = NamedIn(cs) \ {o.id}
    BY <2>2 DEF NamedIn
  <2>4. rest \in Seq(BoundCause)
    BY <2>2 DEF CausesInv
  <2> QED
    BY <2>1, <2>2, <2>3, <2>4
<1>3. ASSUME id \in DOMAIN reviews, o.cause \in causes, NEW rest \in Without(cs, o.id),
             ~ BindRefused(rest, o), outcome' # "refused",
             Save([reviews[id] EXCEPT !.causes = Bind(rest, o, NewID)])
      PROVE  Shape
  <2> DEFINE e == EnsureID(o, NewID)
             new == Bind(rest, o, NewID)
  <2>0. /\ CausesInv(rest, causes, lastID) /\ rest \in Seq(BoundCause) /\ NewID # Nil
        /\ NamedIn(rest) = NamedIn(cs) \ {o.id}
        /\ ProximalOf(rest) = IF ProximalOf(cs) = o.id THEN Nil ELSE ProximalOf(cs)
    BY <1>2, <1>3
  <2>1. CausesInv(new, causes', lastID') /\ new \in Seq(BoundCause)
    <3> HIDE DEF new
    <3> QED
      BY <1>3, SavedCausesInv DEF new
  <2>2. e.id # Nil /\ (o.id # Nil => e.id = o.id)
    BY <2>0 DEF EnsureID, BoundCause
  <2>3. /\ EntriesOf(new) = EntriesOf(rest) \cup {EntryOf(e)}
        /\ ProximalOf(new) = IF o.proximal THEN e.id ELSE ProximalOf(rest)
        /\ \A c \in EntriesOf(rest) : ~ SameReason(c, e)
    <3>1. e = EnsureID(o, NewID)
      OBVIOUS
    <3>2. /\ CausesInv(rest, causes, lastID) /\ ~ BindRefused(rest, o)
          /\ CausesInv(Bind(rest, o, NewID), causes', lastID') /\ e.id # Nil
      BY <1>3, <2>0, <2>1, <2>2
    <3> HIDE DEF e
    <3> QED
      BY <3>1, <3>2, BindOnBook
  <2>4. NamedIn(new) = NamedIn(rest) \cup {e.id}
    <3>1. EntryOf(e).id = e.id
      BY DEF EntryOf
    <3> HIDE DEF e, new
    <3> QED
      BY <2>3, <3>1 DEF NamedIn
  <2>5. new[Len(new)] = e
    <3> DEFINE old == Rewritten(rest, o)
    <3>1. old \in Seq(BoundCause)
      BY <2>0, RewrittenKeeps
    <3>2. new = Append(old, e)
      BY DEF Bind
    <3> HIDE DEF old, e, new
    <3> QED
      BY <3>1, <3>2
  <2>6. Nil \notin NamedIn(cs)
    BY NamedMember
  <2> HIDE DEF e, cs, new
  <2>7. NamedIn(cs) \subseteq NamedIn(new)
    BY <2>0, <2>2, <2>4, <2>6
  <2>8. \/ ProximalOf(cs) = Nil \/ ProximalOf(new) # Nil
        \/ new[Len(new)].id = ProximalOf(cs)
    BY <2>0, <2>2, <2>3, <2>5
  <2> QED
    BY <1>3, <2>1, <2>7, <2>8, CausesShape DEF new, cs
<1>4. ASSUME id \in DOMAIN reviews, o.cause \in causes, NEW rest \in Without(cs, o.id),
             outcome' = "refused", LeaveCauses(id, RebindResidue(cs, rest, o))
      PROVE  Shape
  <2> DEFINE n == Len(cs)
             old == Rewritten(rest, o)
             left == Padded(old, n)
  <2>0. /\ CausesInv(rest, causes, lastID) /\ rest \in Seq(BoundCause)
        /\ cs \in Seq(BoundCause) /\ lastID \in Nat /\ Nil \notin causes
        /\ NamedIn(rest) = NamedIn(cs) \ {o.id}
    BY <1>2, <1>4
  <2>1. Len(old) = Len(rest) /\ Len(rest) <= n /\ n \in Nat
    <3> HIDE DEF cs
    <3> QED
      BY <1>4, <2>0, RewrittenKeeps, WithoutShorter DEF n
  <2>2. CausesInv(old, causes, lastID) /\ EntriesOf(old) = EntriesOf(rest)
    BY <2>0, RewrittenInv, RewrittenEntries
  <2> HIDE DEF n, old
  <2>3. Len(old) <= n
    BY <2>1
  <2>4. EntriesOf(left) = EntriesOf(rest) /\ CausesInv(left, causes, lastID)
    BY <2>0, <2>1, <2>2, <2>3, PaddedOnBook, PaddedInv
  <2>5. left \in Seq(BoundCause) /\ Len(left) = n
    <3>1. left \in Seq(BoundCause)
      BY <2>4 DEF CausesInv
    <3>2. DOMAIN left = 1..n
      BY DEF Padded
    <3> HIDE DEF left
    <3> QED
      BY <2>1, <3>1, <3>2
  <2>6. LeaveCauses(id, left)
    BY <1>4 DEF RebindResidue, n, old
  <2> HIDE DEF left
  <2>7. NamedIn(left) = NamedIn(cs) \ {o.id}
    BY <2>0, <2>4 DEF NamedIn
  <2>8. NamedIn(left) \subseteq NamedIn(cs) /\ NamedIn(cs) \ NamedIn(left) \subseteq {o.id}
    BY <2>7
  <2> QED
    BY <1>4, <2>5, <2>6, <2>8 DEF Shape, RefusesOne, n
<1> QED
  BY <1>1, <1>3, <1>4 DEF UpdateBoundContributingCause, NotFound

LEMMA NextShape == IInv /\ IInv' /\ [Next]_vars => Shape
<1> SUFFICES ASSUME IInv, IInv', [Next]_vars PROVE Shape
  OBVIOUS
<1>1. ASSUME NEW body \in Bodies, Create(body) PROVE Shape
  BY <1>1, CreateShape
<1>2. ASSUME NEW id \in ReviewIDs, NEW body \in Bodies, UpdateReview(id, body) PROVE Shape
  BY <1>2, UpdateReviewShape
<1>3. ASSUME NEW id \in ReviewIDs, NEW cause \in CauseIDs, NEW why \in Whys, NEW proximal \in BOOLEAN,
             BindContributingCause(id, cause, why, proximal)
      PROVE  Shape
  BY <1>3, BindShape
<1>4. ASSUME NEW id \in ReviewIDs, NEW cause \in CauseIDs, NEW why \in Whys, NEW proximal \in BOOLEAN,
             NEW entry \in CauseEntryIDs(id),
             UpdateBoundContributingCause(id,
               [id |-> entry, cause |-> cause, why |-> why, proximal |-> proximal])
      PROVE  Shape
  <2>1. cause \in IDs /\ entry \in IDs
    BY NamedIDs
  <2>2. [id |-> entry, cause |-> cause, why |-> why, proximal |-> proximal] \in BoundCause
    BY <2>1 DEF BoundCause
  <2> QED
    BY <1>4, <2>2, RebindShape
<1>5. ASSUME NEW id \in ReviewIDs, NEW trigger \in TriggerIDs, NEW why \in Whys,
             BindTrigger(id, trigger, why)
      PROVE  Shape
  BY <1>5, BindTriggerShape
<1>6. ASSUME NEW id \in ReviewIDs, NEW trigger \in TriggerIDs, NEW why \in Whys,
             NEW entry \in TriggerEntryIDs(id),
             UpdateBoundTrigger(id, [id |-> entry, trigger |-> trigger, why |-> why])
      PROVE  Shape
  <2>1. trigger \in IDs /\ entry \in IDs
    BY NamedIDs
  <2>2. [id |-> entry, trigger |-> trigger, why |-> why] \in BoundTrigger
    BY <2>1 DEF BoundTrigger
  <2> QED
    BY <1>6, <2>2, RebindTriggerShape
<1>7. CASE CreateCause \/ CreateTrigger \/ Tick \/ UNCHANGED vars
  BY <1>7 DEF CreateCause, CreateTrigger, Tick, vars, Shape
<1> QED
  BY <1>1, <1>2, <1>3, <1>4, <1>5, <1>6, <1>7 DEF Next

-------------------------------------------------------------------------------------
(* What the shapes do to a stored review.                                                  *)
LEMMA SavedReview ==
  ASSUME IInv, SavesOne, NEW id \in DOMAIN reviews
  PROVE  /\ id \in DOMAIN reviews'
         /\ \/ reviews'[id] = reviews[id]
            \/ Keeps(reviews[id], reviews'[id]) /\ reviews'[id].updatedAt = clock
<1>1. PICK r \in ReviewType : Save(r) /\ (r.id \in DOMAIN reviews => Keeps(reviews[r.id], r))
  BY DEF SavesOne
<1>2. id \in DOMAIN reviews'
  BY <1>1 DEF Save, Put
<1>3. CASE id # r.id
  BY <1>1, <1>2, <1>3 DEF Save, Put
<1>4. CASE id = r.id
  <2> DEFINE new == UpdateTimestamps(r, clock)
  <2>1. reviews'[id] = new
    BY <1>1, <1>4 DEF Save, Put
  <2>2. r.createdAt = reviews[id].createdAt /\ reviews[id].createdAt # ZeroTime
    <3>1. reviews[id].createdAt \in Nat /\ ZeroTime < reviews[id].createdAt
      BY DEF IInv, Stored, ReviewType, Times
    <3> QED
      BY <1>1, <1>4, <3>1 DEF Keeps, ZeroTime
  <2>3. /\ new.createdAt = r.createdAt /\ new.updatedAt = clock
        /\ new.causes = r.causes /\ new.triggers = r.triggers
    BY <2>2 DEF UpdateTimestamps, ReviewType
  <2> HIDE DEF new
  <2>4. Keeps(reviews[id], new)
    BY <1>1, <1>4, <2>3 DEF Keeps, BoundTriggerIDs
  <2> QED
    BY <1>2, <2>1, <2>3, <2>4
<1> QED
  BY <1>3, <1>4

LEMMA RefusedReview ==
  ASSUME IInv, RefusesOne, NEW id \in DOMAIN reviews
  PROVE  /\ DOMAIN reviews' = DOMAIN reviews
         /\ reviews'[id] = [reviews[id] EXCEPT !.causes = reviews'[id].causes]
         /\ reviews'[id].triggers = reviews[id].triggers
         /\ reviews'[id].createdAt = reviews[id].createdAt
         /\ reviews'[id].updatedAt = reviews[id].updatedAt
         /\ Len(reviews'[id].causes) = Len(reviews[id].causes)
         /\ BoundCauseIDs(reviews'[id]) \subseteq BoundCauseIDs(reviews[id])
         /\ \E x : BoundCauseIDs(reviews[id]) \ BoundCauseIDs(reviews'[id]) \subseteq {x}
<1>1. PICK y \in DOMAIN reviews, cs \in Seq(BoundCause) :
        /\ LeaveCauses(y, cs) /\ Len(cs) = Len(reviews[y].causes)
        /\ NamedIn(cs) \subseteq NamedIn(reviews[y].causes)
        /\ \E x : NamedIn(reviews[y].causes) \ NamedIn(cs) \subseteq {x}
  BY DEF RefusesOne
<1>2. reviews[id] \in ReviewType
  BY StoredFacts
<1>3. /\ DOMAIN reviews' = DOMAIN reviews
      /\ reviews'[id] = IF id = y THEN [reviews[id] EXCEPT !.causes = cs] ELSE reviews[id]
  BY <1>1 DEF LeaveCauses
<1>4. CASE id # y
  <2>1. reviews[id] = [reviews[id] EXCEPT !.causes = reviews[id].causes]
    BY <1>2 DEF ReviewType
  <2> QED
    BY <1>3, <1>4, <2>1
<1>5. CASE id = y
  <2> DEFINE new == [reviews[id] EXCEPT !.causes = cs]
  <2>1. /\ new.causes = cs /\ new.triggers = reviews[id].triggers
        /\ new.createdAt = reviews[id].createdAt /\ new.updatedAt = reviews[id].updatedAt
    BY <1>2 DEF ReviewType
  <2>2. reviews'[id] = new /\ new = [reviews[id] EXCEPT !.causes = new.causes]
    BY <1>3, <1>5, <2>1
  <2>3. BoundCauseIDs(new) = NamedIn(cs) /\ BoundCauseIDs(reviews[id]) = NamedIn(reviews[id].causes)
    <3> HIDE DEF new
    <3> QED
      BY <2>1, NamedAreBound
  <2>4. BoundCauseIDs(new) \subseteq BoundCauseIDs(reviews[id]) /\ Len(cs) = Len(reviews[id].causes)
    BY <1>1, <1>5, <2>3
  <2>5. \E x : BoundCauseIDs(reviews[id]) \ BoundCauseIDs(new) \subseteq {x}
    BY <1>1, <1>5, <2>3
  <2> HIDE DEF new
  <2>6. reviews'[id].triggers = reviews[id].triggers /\ reviews'[id].createdAt = reviews[id].createdAt
        /\ reviews'[id].updatedAt = reviews[id].updatedAt
        /\ Len(reviews'[id].causes) = Len(reviews[id].causes)
    BY <2>1, <2>2, <2>4
  <2>7. /\ BoundCauseIDs(reviews'[id]) \subseteq BoundCauseIDs(reviews[id])
        /\ \E x : BoundCauseIDs(reviews[id]) \ BoundCauseIDs(reviews'[id]) \subseteq {x}
    BY <2>2, <2>4, <2>5
  <2>8. reviews'[id] = [reviews[id] EXCEPT !.causes = reviews'[id].causes]
    BY <2>2
  <2> QED
    BY <1>3, <2>6, <2>7, <2>8
<1> QED
  BY <1>4, <1>5

-------------------------------------------------------------------------------------
(* Whatever is bound stays bound in a request that succeeds, and a trigger in every        *)
(* request (the slices of Service.Bind... and UpdateBound... saved whole).                 *)
THEOREM NothingIsLost == Spec => SavesLoseNothing
<1> DEFINE A == \A id \in DOMAIN reviews :
                  /\ id \in DOMAIN reviews'
                  /\ BoundTriggerIDs(reviews[id]) \subseteq BoundTriggerIDs(reviews'[id])
                  /\ outcome' # "refused" =>
                       BoundCauseIDs(reviews[id]) \subseteq BoundCauseIDs(reviews'[id])
<1>1. IInv /\ IInv' /\ [Next]_vars => A
  <2> SUFFICES ASSUME IInv, IInv', [Next]_vars, NEW id \in DOMAIN reviews
               PROVE  /\ id \in DOMAIN reviews'
                      /\ BoundTriggerIDs(reviews[id]) \subseteq BoundTriggerIDs(reviews'[id])
                      /\ outcome' # "refused" =>
                           BoundCauseIDs(reviews[id]) \subseteq BoundCauseIDs(reviews'[id])
    OBVIOUS
  <2>1. CASE UNCHANGED reviews
    BY <2>1
  <2>2. CASE SavesOne
    <3>1. \A r : BoundCauseIDs(r) = NamedIn(r.causes)
      BY NamedAreBound
    <3> QED
      BY <2>2, <3>1, SavedReview DEF Keeps
  <2>3. CASE RefusesOne
    <3>1. outcome' = "refused" /\ DOMAIN reviews' = DOMAIN reviews
      BY <2>3, RefusedReview DEF RefusesOne
    <3>2. reviews'[id].triggers = reviews[id].triggers
      BY <2>3, RefusedReview
    <3> QED
      BY <3>1, <3>2 DEF BoundTriggerIDs
  <2> QED
    BY <2>1, <2>2, <2>3, NextShape DEF Shape
<1> QED
  BY <1>1, Invariance, PTL DEF Spec, SavesLoseNothing

(* createdAt is written once, updatedAt with every save of the review and with nothing     *)
(* else (UpdateTimestamps in Save).                                                        *)
THEOREM TimesAreTrue == Spec => TimestampsTellSaves
<1> DEFINE A == \A id \in DOMAIN reviews :
                  LET old == reviews[id]  new == reviews'[id] IN
                  /\ new.createdAt = old.createdAt
                  /\ new.updatedAt # old.updatedAt => new.updatedAt = clock
                  /\ new # old /\ outcome' # "refused" => new.updatedAt = clock
<1>1. IInv /\ IInv' /\ [Next]_vars => A
  <2> SUFFICES ASSUME IInv, IInv', [Next]_vars, NEW id \in DOMAIN reviews
               PROVE  /\ reviews'[id].createdAt = reviews[id].createdAt
                      /\ reviews'[id].updatedAt # reviews[id].updatedAt
                           => reviews'[id].updatedAt = clock
                      /\ reviews'[id] # reviews[id] /\ outcome' # "refused"
                           => reviews'[id].updatedAt = clock
    OBVIOUS
  <2>1. CASE UNCHANGED reviews
    BY <2>1
  <2>2. CASE SavesOne
    BY <2>2, SavedReview DEF Keeps
  <2>3. CASE RefusesOne
    <3>1. outcome' = "refused"
      BY <2>3 DEF RefusesOne
    <3> QED
      BY <2>3, <3>1, RefusedReview
  <2> QED
    BY <2>1, <2>2, <2>3, NextShape DEF Shape
<1> QED
  BY <1>1, Invariance, PTL DEF Spec, TimestampsTellSaves

(* A refused request saves nothing; of the causes it has rewritten in the stored slice     *)
(* (BindContributingCause, UpdateBoundContributingCause) at most one is gone.              *)
THEOREM RefusalsSaveNothing == Spec => RefusedSavesNothing
<1> DEFINE Same(id) ==
             /\ reviews'[id] = [reviews[id] EXCEPT !.causes = reviews'[id].causes]
             /\ Len(reviews'[id].causes) = Len(reviews[id].causes)
             /\ BoundCauseIDs(reviews'[id]) \subseteq BoundCauseIDs(reviews[id])
             /\ Cardinality(BoundCauseIDs(reviews[id]) \ BoundCauseIDs(reviews'[id])) <= 1
           A == outcome' = "refused" =>
                  DOMAIN reviews' = DOMAIN reviews /\ \A id \in DOMAIN reviews : Same(id)
<1>1. IInv /\ IInv' /\ [Next]_vars => A
  <2> SUFFICES ASSUME IInv, IInv', [Next]_vars, outcome' = "refused"
               PROVE  DOMAIN reviews' = DOMAIN reviews /\ \A id \in DOMAIN reviews : Same(id)
    OBVIOUS
  <2>1. CASE UNCHANGED reviews
    <3>1. ASSUME NEW id \in DOMAIN reviews PROVE Same(id)
      <4>1. reviews[id] \in ReviewType
        BY StoredFacts
      <4>2. reviews[id] = [reviews[id] EXCEPT !.causes = reviews[id].causes]
        BY <4>1 DEF ReviewType
      <4>3. BoundCauseIDs(reviews[id]) \ BoundCauseIDs(reviews[id]) = {} /\ Cardinality({}) = 0
        BY FS_EmptySet
      <4> QED
        BY <2>1, <4>2, <4>3
    <3> QED
      BY <2>1, <3>1
  <2>2. CASE RefusesOne
    <3>1. ASSUME NEW id \in DOMAIN reviews PROVE Same(id)
      <4> DEFINE gone == BoundCauseIDs(reviews[id]) \ BoundCauseIDs(reviews'[id])
      <4>1. PICK x : gone \subseteq {x}
        BY <2>2, RefusedReview
      <4> HIDE DEF gone
      <4>2. IsFiniteSet({x}) /\ Cardinality({x}) = 1 /\ gone \in SUBSET {x}
        BY <4>1, FS_Singleton
      <4>3. Cardinality(gone) <= 1
        BY <4>2, FS_Subset
      <4> USE DEF gone
      <4> QED
        BY <2>2, <4>3, RefusedReview
    <3>2. DOMAIN reviews' = DOMAIN reviews
      BY <2>2, RefusedReview DEF RefusesOne
    <3> QED
      BY <3>1, <3>2
  <2> QED
    BY <2>1, <2>2, NextShape DEF Shape, SavesOne
<1> QED
  BY <1>1, Invariance, PTL DEF Spec, RefusedSavesNothing

(* The mark of a review only goes away in a request that succeeds when that request        *)
(* updates the marked entry, which is then the last one.                                   *)
THEOREM MarksOutlive == Spec => MarkOutlivesOtherRequests
<1> DEFINE A == \A id \in DOMAIN reviews : \A c \in Range(reviews[id].causes) :
                  /\ c.proximal
                  /\ outcome' # "refused"
                  /\ \A d \in Range(reviews'[id].causes) : ~ d.proximal
                  => LET cs == reviews'[id].causes IN cs[Len(cs)].id = c.id
<1>1. IInv /\ IInv' /\ [Next]_vars => A
  <2> SUFFICES ASSUME IInv, IInv', [Next]_vars, NEW id \in DOMAIN reviews,
                      NEW c \in Range(reviews[id].causes), c.proximal, outcome' # "refused",
                      \A d \in Range(reviews'[id].causes) : ~ d.proximal
               PROVE  reviews'[id].causes[Len(reviews'[id].causes)].id = c.id
    OBVIOUS
  <2>1. CASE reviews'[id] = reviews[id]
    BY <2>1
  <2>2. CASE SavesOne /\ reviews'[id] # reviews[id]
    <3>1. Keeps(reviews[id], reviews'[id]) /\ id \in DOMAIN reviews'
      BY <2>2, SavedReview
    <3>2. CausesInv(reviews[id].causes, causes, lastID)
      BY StoredFacts
    <3>3. CausesInv(reviews'[id].causes, causes', lastID')
      BY <3>1 DEF IInv, Stored
    <3>4. c.id # Nil /\ ProximalOf(reviews[id].causes) = c.id
      BY <3>2, ProximalNamed DEF Range
    <3>5. ProximalOf(reviews'[id].causes) = Nil
      <4>1. \A i \in DOMAIN reviews'[id].causes : ~ reviews'[id].causes[i].proximal
        BY DEF Range
      <4> QED
        BY <3>3, <4>1, ProximalNamed
    <3> QED
      BY <3>1, <3>4, <3>5 DEF Keeps
  <2> QED
    BY <2>1, <2>2, NextShape DEF Shape, RefusesOne
<1> QED
  BY <1>1, Invariance, PTL DEF Spec, MarkOutlivesOtherRequests
====================================================================================
