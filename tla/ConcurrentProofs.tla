------------------------------ MODULE ConcurrentProofs ------------------------------
(***********************************************************************************)
(* That the requests of ConcurrentReviews do not corrupt what they share, however   *)
(* they interleave: HeapInv, and from it that reviews are isolated from each          *)
(* other, that stamps are fresh, and that every request comes to its end.             *)
(***********************************************************************************)
EXTENDS ConcurrentReviews, FiniteSetTheorems, TLAPS

(* An array that a step hands on for a field of a review: still entries of that kind,   *)
(* and as many.                                                                       *)
Carries(a, field) ==
  arrays[a] \in Seq(EntriesIn(field)) =>
    arrays'[a] \in Seq(EntriesIn(field)) /\ Len(arrays'[a]) = Len(arrays[a])

Carried ==
  \A id \in DOMAIN reviews, field \in Fields :
    \A a \in ArraysOf(reviews, own, id, field) \cap ArraysOf(reviews', own', id, field) :
      a # 0 => Carries(a, field)

LEMMA FitsCarried ==
  ASSUME NEW s, NEW field, Fits(arrays, s, field), s.array # 0 => Carries(s.array, field)
  PROVE  Fits(arrays', s, field)
BY DEF Fits, Carries

(* The slices of a request are among the arrays of its review.                         *)
LEMMA OwnArrays ==
  ASSUME NEW R, NEW O, NEW q \in Goroutines, NEW field
  PROVE  /\ O[q].review[field].array \in ArraysOf(R, O, O[q].review.id, field)
         /\ Field(O[q].op) = field => O[q].slice.array \in ArraysOf(R, O, O[q].review.id, field)
BY DEF ArraysOf

LEMMA StoredArrays ==
  ASSUME NEW R, NEW O, NEW id, NEW field
  PROVE  R[id][field].array \in ArraysOf(R, O, id, field)
BY DEF ArraysOf

LEMMA FieldOfOp ==
  ASSUME NEW op
  PROVE  Field(op) \in Fields /\ Field(op) \in {"causes", "triggers"}
BY DEF Field, Fields

(* The slices of a request that stays with its review fit into the arrays of the next       *)
(* state.                                                                               *)
LEMMA CopyStillFits ==
  ASSUME HeapCore, Carried, NEW q \in Goroutines, pc[q] # "idle",
         own'[q].review = own[q].review
  PROVE  /\ ReviewFits(arrays', own[q].review)
         /\ own'[q].op = own[q].op /\ own'[q].slice.array = own[q].slice.array =>
              Fits(arrays', own[q].slice, Field(own[q].op))
<1> DEFINE w == own[q]
<1>1. RequestFits(reviews, arrays, pc[q], w)
  BY DEF HeapCore
<1>2. w \in WorkType /\ w.review.id \in DOMAIN reviews
  BY <1>1 DEF RequestFits
<1>3. ASSUME NEW field \in Fields, NEW s, Fits(arrays, s, field),
             s.array \in ArraysOf(reviews, own, w.review.id, field),
             s.array \in ArraysOf(reviews', own', w.review.id, field)
      PROVE  Fits(arrays', s, field)
  BY <1>2, <1>3, FitsCarried DEF Carried
<1>4. ASSUME NEW field \in Fields, Fits(arrays, w.review[field], field)
      PROVE  Fits(arrays', w.review[field], field)
  BY <1>3, <1>4, OwnArrays
<1>5. ReviewFits(arrays', w.review)
  BY <1>1, <1>4 DEF RequestFits, ReviewFits, Fields
<1>6. ASSUME own'[q].op = w.op, own'[q].slice.array = w.slice.array
      PROVE  Fits(arrays', w.slice, Field(w.op))
  <2>1. Field(w.op) \in Fields /\ Fits(arrays, w.slice, Field(w.op))
    BY <1>1, FieldOfOp DEF RequestFits
  <2>2. w.slice.array \in ArraysOf(reviews, own, w.review.id, Field(w.op))
    BY OwnArrays
  <2>3. w.slice.array \in ArraysOf(reviews', own', w.review.id, Field(w.op))
    BY <1>6, OwnArrays
  <2> QED BY <1>3, <2>1, <2>2, <2>3
<1> QED BY <1>5, <1>6

(* Who does not move keeps what it knows, as long as the arrays it points at are carried  *)
(* over and no review goes away.                                                       *)
LEMMA OthersFit ==
  ASSUME HeapCore, Carried,
         NEW q \in Goroutines, pc'[q] = pc[q], own'[q] = own[q],
         \A id \in DOMAIN reviews :
           id \in DOMAIN reviews' /\ reviews'[id].createdAt = reviews[id].createdAt
  PROVE  RequestFits(reviews', arrays', pc'[q], own'[q])
<1>1. RequestFits(reviews, arrays, pc[q], own[q])
  BY DEF HeapCore
<1>2. CASE pc[q] = "idle"
  BY <1>1, <1>2 DEF RequestFits
<1>3. CASE pc[q] # "idle"
  <2>1. own[q].review.id \in DOMAIN reviews
    BY <1>1, <1>3 DEF RequestFits
  <2>2. ReviewFits(arrays', own[q].review) /\ Fits(arrays', own[q].slice, Field(own[q].op))
    BY <1>3, CopyStillFits
  <2> QED BY <1>1, <1>3, <2>1, <2>2 DEF RequestFits
<1> QED BY <1>2, <1>3

LEMMA StoredStillFits ==
  ASSUME HeapCore, Carried, clock' \in Nat, clock' >= clock,
         NEW id \in DOMAIN reviews, reviews'[id] = reviews[id]
  PROVE  StoredFits(arrays', reviews'[id], id, clock')
<1> DEFINE r == reviews[id]
<1>1. StoredFits(arrays, r, id, clock)
  BY DEF HeapCore
<1>2. ASSUME NEW field \in Fields, Fits(arrays, r[field], field)
      PROVE  Fits(arrays', r[field], field)
  <2>1. r[field].array \in ArraysOf(reviews, own, id, field)
    BY StoredArrays
  <2>2. r[field].array \in ArraysOf(reviews', own', id, field)
    BY StoredArrays
  <2> QED BY <1>2, <2>1, <2>2, FitsCarried DEF Carried
<1>3. ReviewFits(arrays', r)
  BY <1>1, <1>2 DEF StoredFits, ReviewFits, Fields
<1>4. clock \in Nat /\ r.updatedAt \in Nat
  BY <1>1 DEF HeapCore, Counters, StoredFits, StoredReview, Times
<1>5. r.updatedAt <= clock'
  BY <1>1, <1>4 DEF StoredFits
<1> QED BY <1>1, <1>3, <1>5 DEF StoredFits

(* Lists stay apart when no list gets an array that was not its own.                     *)
LEMMA StillApart ==
  ASSUME Apart(reviews, own), DOMAIN reviews' = DOMAIN reviews,
         \A id \in DOMAIN reviews, field \in Fields :
           ArraysOf(reviews', own', id, field) \subseteq ArraysOf(reviews, own, id, field)
  PROVE  Apart(reviews', own')
<1> SUFFICES ASSUME NEW id1 \in DOMAIN reviews, NEW id2 \in DOMAIN reviews,
                    NEW f1 \in Fields, NEW f2 \in Fields, ~ (id1 = id2 /\ f1 = f2)
             PROVE  ArraysOf(reviews', own', id1, f1) \cap ArraysOf(reviews', own', id2, f2) \subseteq {0}
  BY DEF Apart
<1>1. ArraysOf(reviews, own, id1, f1) \cap ArraysOf(reviews, own, id2, f2) \subseteq {0}
  BY DEF Apart
<1>2. /\ ArraysOf(reviews', own', id1, f1) \subseteq ArraysOf(reviews, own, id1, f1)
      /\ ArraysOf(reviews', own', id2, f2) \subseteq ArraysOf(reviews, own, id2, f2)
  OBVIOUS
<1> QED BY <1>1, <1>2

(* A step of p takes no array into a list that was not its own when what p writes to the   *)
(* store and what it works on afterwards were arrays of the review it works on.            *)
LEMMA TakesOnlyItsOwn ==
  ASSUME NEW p \in Goroutines, \A q \in Goroutines \ {p} : own'[q] = own[q],
         NEW id, NEW field,
         reviews'[id][field].array \in ArraysOf(reviews, own, id, field),
         own'[p].review.id = id =>
           /\ own'[p].review[field].array \in ArraysOf(reviews, own, id, field)
           /\ Field(own'[p].op) = field => own'[p].slice.array \in ArraysOf(reviews, own, id, field)
  PROVE  ArraysOf(reviews', own', id, field) \subseteq ArraysOf(reviews, own, id, field)
<1> SUFFICES ASSUME NEW a \in ArraysOf(reviews', own', id, field)
             PROVE  a \in ArraysOf(reviews, own, id, field)
  OBVIOUS
<1>1. CASE a = reviews'[id][field].array
  BY <1>1
<1>2. ASSUME NEW q \in Goroutines, own'[q].review.id = id,
             \/ a = own'[q].review[field].array
             \/ Field(own'[q].op) = field /\ a = own'[q].slice.array
      PROVE  a \in ArraysOf(reviews, own, id, field)
  <2>1. CASE q = p
    BY <1>2, <2>1
  <2>2. CASE q # p
    BY <1>2, <2>2 DEF ArraysOf
  <2> QED BY <2>1, <2>2
<1> QED BY <1>1, <1>2 DEF ArraysOf

(* Nobody needs an id that did not need one.                                              *)
LEMMA StillRoom ==
  ASSUME HeapCore, NeedIDs' \subseteq NeedIDs, lastID' = lastID
  PROVE  lastID' + Cardinality(NeedIDs') <= MaxID
<1>1. IsFiniteSet(NeedIDs)
  BY RequestsAssumption, FS_Subset DEF NeedIDs
<1>2. /\ Cardinality(NeedIDs') <= Cardinality(NeedIDs)
      /\ Cardinality(NeedIDs') \in Nat /\ Cardinality(NeedIDs) \in Nat
  BY <1>1, FS_Subset, FS_CardinalityType
<1> QED BY <1>2, RequestsAssumption DEF HeapCore, Counters

(* What a step of one goroutine that leaves the store alone has to show.                   *)
LEMMA MoveKeeps ==
  ASSUME HeapCore, Carried,
         NEW p \in Goroutines, NEW l \in PCs, NEW w \in WorkType \cup {NoWork},
         pc' = [pc EXCEPT ![p] = l], own' = [own EXCEPT ![p] = w],
         UNCHANGED <<reviews, clock>>, lastID' \in lastID..MaxID,
         outcome' \in {"none", "ok", "refused", "unexpected"},
         arrays' \in [1..MaxArrays -> Seq(BoundCause) \cup Seq(BoundTrigger)],
         RequestFits(reviews, arrays', l, w),
         Apart(reviews, own'), w.review.updatedAt <= clock,
         lastID' + Cardinality(NeedIDs') <= MaxID
  PROVE  HeapCore'
<1>1. Counters'
  BY DEF HeapCore, Counters
<1>2. DOMAIN reviews \subseteq 3..lastID'
  BY DEF HeapCore, Counters
<1>3. \A id \in DOMAIN reviews : StoredFits(arrays', reviews[id], id, clock')
  <2>1. clock' \in Nat /\ clock' >= clock
    BY DEF HeapCore, Counters
  <2> QED BY <2>1, StoredStillFits
<1>4. pc' \in [Goroutines -> PCs] /\ own' \in [Goroutines -> WorkType \cup {NoWork}]
  BY DEF HeapCore
<1>5. ASSUME NEW q \in Goroutines
      PROVE  RequestFits(reviews, arrays', pc'[q], own'[q]) /\ own'[q].review.updatedAt <= clock'
  <2>1. CASE q = p
    BY <2>1 DEF HeapCore
  <2>2. CASE q # p
    <3>1. pc'[q] = pc[q] /\ own'[q] = own[q] /\ own[q].review.updatedAt <= clock
      BY <2>2 DEF HeapCore
    <3> QED BY <3>1, OthersFit
  <2> QED BY <2>1, <2>2
<1> QED BY <1>1, <1>2, <1>3, <1>4, <1>5 DEF HeapCore

-------------------------------------------------------------------------------------
(* The three ways in which the arrays change.                                             *)
LEMMA PointedArrays ==
  ASSUME HeapCore, NEW id \in DOMAIN reviews, NEW field \in Fields,
         NEW a \in ArraysOf(reviews, own, id, field)
  PROVE  a \in 0..MaxArrays /\ a \in Live
<1>1. CASE a = reviews[id][field].array
  <2>1. reviews[id] \in StoredReview
    BY DEF HeapCore
  <2> QED BY <1>1, <2>1 DEF StoredReview, Slice, Fields, Live
<1>2. ASSUME NEW q \in Goroutines, a = own[q].review[field].array \/ a = own[q].slice.array
      PROVE  a \in 0..MaxArrays /\ a \in Live
  <2>1. CASE own[q] \in WorkType
    BY <1>2, <2>1 DEF WorkType, StoredReview, Slice, Fields, Live
  <2>2. CASE own[q] = NoWork
    BY <1>2, <2>2, ArraysAssumption DEF NoWork, NoReview, NilSlice, Fields, Live
  <2> QED BY <2>1, <2>2 DEF HeapCore
<1> QED BY <1>1, <1>2 DEF ArraysOf

LEMMA PointedArraysAfter ==
  ASSUME NEW id \in DOMAIN reviews', NEW field \in Fields,
         NEW a \in ArraysOf(reviews', own', id, field)
  PROVE  a \in Live'
<1>1. CASE a = reviews'[id][field].array
  BY <1>1 DEF Live, Fields
<1>2. ASSUME NEW q \in Goroutines, a = own'[q].review[field].array \/ a = own'[q].slice.array
      PROVE  a \in Live'
  BY <1>2 DEF Live, Fields
<1> QED BY <1>1, <1>2 DEF ArraysOf

LEMMA SweptCarries ==
  ASSUME HeapCore, DOMAIN reviews' = DOMAIN reviews, arrays' = Swept(arrays)
  PROVE  /\ Carried
         /\ arrays' \in [1..MaxArrays -> Seq(BoundCause) \cup Seq(BoundTrigger)]
<1>1. ASSUME NEW id \in DOMAIN reviews, NEW field \in Fields,
             NEW a \in ArraysOf(reviews, own, id, field) \cap ArraysOf(reviews', own', id, field),
             a # 0
      PROVE  arrays'[a] = arrays[a]
  <2>1. a \in 1..MaxArrays
    BY <1>1, PointedArrays, ArraysAssumption
  <2>2. a \in Live'
    BY <1>1, PointedArraysAfter
  <2> QED BY <2>1, <2>2 DEF Swept
<1>2. Carried
  BY <1>1 DEF Carried, Carries
<1>3. ASSUME NEW a \in 1..MaxArrays
      PROVE  arrays'[a] \in Seq(BoundCause) \cup Seq(BoundTrigger)
  <2>1. <<>> \in Seq(BoundCause)
    OBVIOUS
  <2>2. arrays[a] \in Seq(BoundCause) \cup Seq(BoundTrigger)
    BY DEF HeapCore
  <2>3. arrays'[a] = arrays[a] \/ arrays'[a] = <<>>
    BY DEF Swept
  <2> QED BY <2>1, <2>2, <2>3
<1> QED BY <1>2, <1>3 DEF Swept

LEMMA SameArraysCarry ==
  ASSUME UNCHANGED arrays
  PROVE  Carried
BY DEF Carried, Carries

LEMMA TypedArrays ==
  ASSUME HeapCore, NEW a \in 1..MaxArrays, NEW field \in Fields, NEW x \in Seq(EntriesIn(field)),
         arrays' = [arrays EXCEPT ![a] = x]
  PROVE  arrays' \in [1..MaxArrays -> Seq(BoundCause) \cup Seq(BoundTrigger)]
<1>1. x \in Seq(BoundCause) \cup Seq(BoundTrigger)
  BY DEF EntriesIn
<1> QED BY <1>1 DEF HeapCore

(* A goroutine at work writes to an array that belongs to its list alone.                  *)
LEMMA WriteCarries ==
  ASSUME HeapCore, NEW p \in Goroutines, pc[p] # "idle",
         own[p].slice.array # 0,
         NEW x \in Seq(EntriesIn(Field(own[p].op))), Len(x) = Len(arrays[own[p].slice.array]),
         arrays' = [arrays EXCEPT ![own[p].slice.array] = x]
  PROVE  /\ Carried
         /\ arrays' \in [1..MaxArrays -> Seq(BoundCause) \cup Seq(BoundTrigger)]
<1> DEFINE w == own[p]
           mine == Field(w.op)
<1>1. w \in WorkType /\ w.review.id \in DOMAIN reviews
  BY DEF HeapCore, RequestFits
<1>2. w.slice.array \in 1..MaxArrays
  BY <1>1, ArraysAssumption DEF WorkType, Slice
<1>3. mine \in Fields /\ w.slice.array \in ArraysOf(reviews, own, w.review.id, mine)
  BY OwnArrays, FieldOfOp
<1>4. ASSUME NEW id \in DOMAIN reviews, NEW field \in Fields,
             NEW a \in ArraysOf(reviews, own, id, field), a # 0
      PROVE  Carries(a, field)
  <2>1. CASE a # w.slice.array
    BY <2>1 DEF HeapCore, Carries
  <2>2. CASE a = w.slice.array
    <3>1. field = mine
      BY <1>1, <1>2, <1>3, <1>4, <2>2 DEF HeapCore, Apart
    <3>2. arrays'[a] = x
      BY <1>2, <2>2 DEF HeapCore
    <3> QED BY <2>2, <3>1, <3>2 DEF Carries
  <2> QED BY <2>1, <2>2
<1>5. Carried
  BY <1>4 DEF Carried
<1>6. arrays' \in [1..MaxArrays -> Seq(BoundCause) \cup Seq(BoundTrigger)]
  BY <1>2, <1>3, TypedArrays
<1> QED BY <1>5, <1>6

(* append only takes an array that nothing points at.                                      *)
LEMMA NewArrayCarries ==
  ASSUME HeapCore, NEW a \in 1..MaxArrays, a \notin Live,
         NEW field \in Fields, NEW x \in Seq(EntriesIn(field)),
         arrays' = [arrays EXCEPT ![a] = x]
  PROVE  /\ Carried
         /\ arrays' \in [1..MaxArrays -> Seq(BoundCause) \cup Seq(BoundTrigger)]
<1>1. ASSUME NEW id \in DOMAIN reviews, NEW f \in Fields,
             NEW b \in ArraysOf(reviews, own, id, f)
      PROVE  Carries(b, f)
  <2>1. b # a
    BY <1>1, PointedArrays
  <2> QED BY <2>1 DEF HeapCore, Carries
<1> QED BY <1>1, TypedArrays DEF Carried

(* Somebody who ends, or goes on in the same arrays, shares no more than before.             *)
LEMMA GoesOnApart ==
  ASSUME HeapCore, NEW p \in Goroutines, NEW w,
         own' = [own EXCEPT ![p] = w], reviews' = reviews,
         \/ w = NoWork
         \/ /\ w.review = own[p].review /\ w.op = own[p].op
            /\ w.slice.array = own[p].slice.array
  PROVE  Apart(reviews, own')
<1>1. own'[p] = w /\ \A q \in Goroutines \ {p} : own'[q] = own[q]
  BY DEF HeapCore
<1>2. ASSUME NEW id \in DOMAIN reviews, NEW field \in Fields, w.review.id = id
      PROVE  /\ w.review[field].array \in ArraysOf(reviews, own, id, field)
             /\ Field(w.op) = field => w.slice.array \in ArraysOf(reviews, own, id, field)
  <2>1. CASE w = NoWork
    BY <1>2, <2>1 DEF HeapCore, Counters, NoWork, NoReview, Nil
  <2>2. CASE w # NoWork
    BY <1>2, <2>2, OwnArrays
  <2> QED BY <2>1, <2>2
<1>3. \A id \in DOMAIN reviews, field \in Fields :
        ArraysOf(reviews', own', id, field) \subseteq ArraysOf(reviews, own, id, field)
  BY <1>1, <1>2, StoredArrays, TakesOnlyItsOwn
<1> QED BY <1>3, StillApart DEF HeapCore

-------------------------------------------------------------------------------------
(* A step of one goroutine that ends or goes on with its request.                           *)
LEMMA NeedsNoMore ==
  ASSUME HeapCore, NEW p \in Goroutines, NEW l, NEW w,
         pc' = [pc EXCEPT ![p] = l], own' = [own EXCEPT ![p] = w],
         NeedsIDAt(l, w) => NeedsIDAt(pc[p], own[p]), lastID' = lastID
  PROVE  lastID' + Cardinality(NeedIDs') <= MaxID
<1>1. ASSUME NEW q \in NeedIDs' PROVE q \in NeedIDs
  <2>1. CASE q = p
    BY <2>1 DEF NeedIDs, HeapCore
  <2>2. CASE q # p
    BY <2>2 DEF NeedIDs, HeapCore
  <2> QED BY <2>1, <2>2
<1> QED BY <1>1, StillRoom

LEMMA EndKeeps ==
  ASSUME HeapCore, NEW p \in Goroutines, NEW o \in {"ok", "refused", "unexpected"}, Done(p, o),
         UNCHANGED <<reviews, lastID, clock>>, arrays' = Swept(arrays)
  PROVE  HeapCore'
<1>1. pc' = [pc EXCEPT ![p] = "idle"] /\ own' = [own EXCEPT ![p] = NoWork] /\ outcome' = o
  BY DEF Done, Goto
<1>2. Carried /\ arrays' \in [1..MaxArrays -> Seq(BoundCause) \cup Seq(BoundTrigger)]
  BY SweptCarries
<1>3. RequestFits(reviews, arrays', "idle", NoWork)
  BY DEF RequestFits
<1>4. Apart(reviews, own')
  BY <1>1, GoesOnApart
<1>5. lastID' + Cardinality(NeedIDs') <= MaxID
  BY <1>1, NeedsNoMore DEF NeedsIDAt
<1>6. lastID' \in lastID..MaxID
  BY RequestsAssumption DEF HeapCore, Counters
<1>7. NoWork.review.updatedAt <= clock
  BY DEF HeapCore, Counters, NoWork, NoReview, ZeroTime
<1> QED BY <1>1, <1>2, <1>3, <1>4, <1>5, <1>6, <1>7, MoveKeeps DEF PCs

(* What the same request has after one of its steps.                                       *)
GoesOn(w, l, new) ==
  /\ new \in WorkType
  /\ new.review = w.review /\ new.op = w.op /\ new.entry = w.entry
  /\ new.slice.array = w.slice.array /\ new.slice.len <= w.slice.len
  /\ KnowsAt(l, new)

LEMMA GoingOnKeeps ==
  ASSUME HeapCore, Carried,
         arrays' \in [1..MaxArrays -> Seq(BoundCause) \cup Seq(BoundTrigger)],
         NEW p \in Goroutines, pc[p] # "idle",
         NEW l \in PCs \ {"idle"}, NEW w \in WorkType,
         pc' = [pc EXCEPT ![p] = l], own' = [own EXCEPT ![p] = w],
         UNCHANGED <<reviews, lastID, clock, outcome>>,
         GoesOn(own[p], l, w), NeedsIDAt(l, own[p]) => NeedsIDAt(pc[p], own[p])
  PROVE  HeapCore'
<1>1. /\ RequestFits(reviews, arrays, pc[p], own[p]) /\ own'[p] = w
      /\ w.review = own[p].review /\ w.op = own[p].op /\ w.entry = own[p].entry
      /\ w.slice.array = own[p].slice.array /\ w.slice.len <= own[p].slice.len
      /\ KnowsAt(l, w)
  BY DEF HeapCore, GoesOn
<1>2. ReviewFits(arrays', w.review) /\ Fits(arrays', own[p].slice, Field(w.op))
  BY <1>1, CopyStillFits
<1>3. Fits(arrays', w.slice, Field(w.op))
  <2>1. w.slice.len \in Nat /\ own[p].slice.len \in Nat
    BY <1>1 DEF RequestFits, WorkType, Slice
  <2>2. CASE w.slice.array = 0
    BY <1>1, <1>2, <2>1, <2>2 DEF Fits
  <2>3. CASE w.slice.array # 0
    <3>1. Len(arrays'[w.slice.array]) \in Nat
      BY <1>1, <1>2, <2>3 DEF Fits
    <3> QED BY <1>1, <1>2, <2>1, <2>3, <3>1 DEF Fits
  <2> QED BY <2>2, <2>3
<1>4. RequestFits(reviews, arrays', l, w)
  BY <1>1, <1>2, <1>3 DEF RequestFits
<1>5. Apart(reviews, own')
  BY <1>1, GoesOnApart
<1>6. lastID' + Cardinality(NeedIDs') <= MaxID
  <2>1. NeedsIDAt(l, w) => NeedsIDAt(pc[p], own[p])
    BY <1>1 DEF NeedsIDAt
  <2> QED BY <2>1, NeedsNoMore
<1>7. /\ lastID' \in lastID..MaxID /\ outcome' \in {"none", "ok", "refused", "unexpected"}
      /\ w.review.updatedAt <= clock
  BY <1>1, RequestsAssumption DEF HeapCore, Counters
<1> QED BY <1>4, <1>5, <1>6, <1>7, MoveKeeps

LEMMA SameArraysKeep ==
  ASSUME HeapCore, NEW p \in Goroutines, pc[p] # "idle",
         NEW l \in PCs \ {"idle"}, NEW w,
         pc' = [pc EXCEPT ![p] = l], own' = [own EXCEPT ![p] = w],
         UNCHANGED <<reviews, arrays, lastID, clock, outcome>>,
         GoesOn(own[p], l, w), NeedsIDAt(l, own[p]) => NeedsIDAt(pc[p], own[p])
  PROVE  HeapCore'
<1>1. Carried /\ arrays' \in [1..MaxArrays -> Seq(BoundCause) \cup Seq(BoundTrigger)]
  BY SameArraysCarry DEF HeapCore
<1>2. w \in WorkType
  BY DEF GoesOn
<1> QED BY <1>1, <1>2, GoingOnKeeps

-------------------------------------------------------------------------------------
(* What a goroutine at work knows, and the entries it can read.                             *)
LEMMA AtWork ==
  ASSUME HeapCore, NEW p \in Goroutines, pc[p] # "idle"
  PROVE  /\ own[p] \in WorkType /\ own[p].op \in AllOps /\ own[p].entry \in EntriesIn(Field(own[p].op))
         /\ own[p].review \in StoredReview /\ own[p].review.id \in DOMAIN reviews
         /\ own[p].slice \in Slice /\ own[p].slice.len \in Nat /\ own[p].slice.array \in 0..MaxArrays
         /\ own[p].i \in Nat /\ own[p].gap \in Nat /\ own[p].loaded \in BoundCause
         /\ Fits(arrays, own[p].slice, Field(own[p].op))
         /\ KnowsAt(pc[p], own[p])
<1>1. RequestFits(reviews, arrays, pc[p], own[p])
  BY DEF HeapCore
<1>2. own[p] \in WorkType
  BY <1>1 DEF RequestFits
<1>3. own[p].slice \in Slice /\ own[p].review \in StoredReview
  BY <1>2 DEF WorkType
<1>4. own[p].slice.len \in Nat /\ own[p].slice.array \in 0..MaxArrays
  BY <1>3 DEF Slice
<1>5. own[p].op \in AllOps /\ own[p].i \in Nat /\ own[p].gap \in Nat /\ own[p].loaded \in BoundCause
  BY <1>2 DEF WorkType
<1> QED BY <1>1, <1>2, <1>3, <1>4, <1>5 DEF RequestFits

LEMMA ReadEntry ==
  ASSUME HeapCore, NEW p \in Goroutines, pc[p] # "idle", NEW k \in 1..own[p].slice.len
  PROVE  /\ own[p].slice.array \in 1..MaxArrays
         /\ arrays[own[p].slice.array] \in Seq(EntriesIn(Field(own[p].op)))
         /\ Len(arrays[own[p].slice.array]) \in Nat /\ k \in 1..Len(arrays[own[p].slice.array])
         /\ own[p].slice.len <= Len(arrays[own[p].slice.array])
         /\ Elem(own[p].slice, k) \in EntriesIn(Field(own[p].op))
<1> DEFINE s == own[p].slice
           S == EntriesIn(Field(own[p].op))
<1>1. s.len \in Nat /\ s.array \in 0..MaxArrays /\ Fits(arrays, s, Field(own[p].op))
  BY AtWork
<1>2. s.array # 0
  BY <1>1 DEF Fits
<1>3. arrays[s.array] \in Seq(S) /\ s.len <= Len(arrays[s.array])
  BY <1>1, <1>2 DEF Fits
<1>4. Len(arrays[s.array]) \in Nat /\ k \in 1..Len(arrays[s.array])
  BY <1>1, <1>3
<1>5. arrays[s.array][k] \in S
  BY <1>3, <1>4
<1> QED BY <1>1, <1>2, <1>3, <1>4, <1>5, ArraysAssumption DEF Elem

LEMMA WriteEntryAt ==
  ASSUME HeapCore, NEW p \in Goroutines, pc[p] # "idle",
         own[p].slice.array # 0, NEW k \in 1..Len(arrays[own[p].slice.array]),
         NEW e \in EntriesIn(Field(own[p].op)), arrays' = Written(own[p].slice, k, e)
  PROVE  /\ Carried
         /\ arrays' \in [1..MaxArrays -> Seq(BoundCause) \cup Seq(BoundTrigger)]
<1> DEFINE a == own[p].slice.array
           x == [arrays[a] EXCEPT ![k] = e]
<1>1. arrays[a] \in Seq(EntriesIn(Field(own[p].op)))
  BY AtWork DEF Fits
<1>2. arrays' = [arrays EXCEPT ![a] = x]
  BY DEF Written
<1>3. x \in Seq(EntriesIn(Field(own[p].op))) /\ Len(x) = Len(arrays[a])
  BY <1>1
<1> QED BY <1>2, <1>3, WriteCarries

LEMMA WriteEntry ==
  ASSUME HeapCore, NEW p \in Goroutines, pc[p] # "idle", NEW k \in 1..own[p].slice.len,
         NEW e \in EntriesIn(Field(own[p].op)), arrays' = Written(own[p].slice, k, e)
  PROVE  /\ Carried
         /\ arrays' \in [1..MaxArrays -> Seq(BoundCause) \cup Seq(BoundTrigger)]
<1>1. own[p].slice.array # 0 /\ k \in 1..Len(arrays[own[p].slice.array])
  BY ReadEntry
<1> QED BY <1>1, WriteEntryAt

(* Two assignments to one goroutine's variables are one.                                   *)
LEMMA AssignedTwice ==
  ASSUME NEW f, NEW p \in DOMAIN f, NEW x, NEW y
  PROVE  /\ [f EXCEPT ![p] = x][p] = x
         /\ [[f EXCEPT ![p] = x] EXCEPT ![p] = y] = [f EXCEPT ![p] = y]
OBVIOUS

LEMMA BlankEntry ==
  ASSUME NEW field \in Fields
  PROVE  BlankIn(field) \in EntriesIn(field)
<1>1. BlankCause \in BoundCause /\ BlankTrigger \in BoundTrigger
  BY WhysAssumption DEF BlankCause, BlankTrigger, BoundCause, BoundTrigger, IDs, Nil
<1> QED BY <1>1 DEF BlankIn, EntriesIn

LEMMA LooksOn ==
  ASSUME NEW w \in WorkType, w.slice.len \in Nat, NEW l \in {"find", "shift"},
         w.i \in Nat, w.i <= w.slice.len, KnowsAt(l, w)
  PROVE  GoesOn(w, l, [w EXCEPT !.i = @ + 1])
<1> DEFINE new == [w EXCEPT !.i = @ + 1]
<1>1. new \in WorkType
  BY DEF WorkType
<1>2. /\ new.i = w.i + 1 /\ new.gap = w.gap /\ new.op = w.op
      /\ new.slice = w.slice /\ new.review = w.review /\ new.entry = w.entry
  BY DEF WorkType
<1>3. w.gap \in Nat
  BY DEF WorkType
<1> HIDE DEF new
<1>4. KnowsAt(l, new)
  BY <1>2, <1>3 DEF KnowsAt
<1>5. new.slice.len <= w.slice.len /\ new.slice.array = w.slice.array
  BY <1>2
<1> QED BY <1>1, <1>2, <1>4, <1>5 DEF GoesOn, new

MovedTo(w, g, k) == [w EXCEPT !.gap = g, !.i = k]

LEMMA MovedIndexes ==
  ASSUME NEW w \in WorkType, NEW g \in Nat, NEW k \in Nat
  PROVE  LET new == MovedTo(w, g, k) IN
         /\ new \in WorkType /\ new.gap = g /\ new.i = k
         /\ new.op = w.op /\ new.review = w.review /\ new.entry = w.entry
         /\ new.slice = w.slice /\ new.loaded = w.loaded
<1> DEFINE mid == [w EXCEPT !.gap = g]
<1>1. mid \in WorkType /\ mid.gap = g /\ mid.i = w.i /\ mid.op = w.op /\ mid.review = w.review
      /\ mid.entry = w.entry /\ mid.slice = w.slice /\ mid.loaded = w.loaded
  BY DEF WorkType
<1> HIDE DEF mid
<1>2. [mid EXCEPT !.i = k] \in WorkType
  BY <1>1 DEF WorkType
<1>3. LET new == [mid EXCEPT !.i = k] IN
      /\ new.gap = g /\ new.i = k
      /\ new.op = w.op /\ new.review = w.review /\ new.entry = w.entry
      /\ new.slice = w.slice /\ new.loaded = w.loaded
  BY <1>1 DEF WorkType
<1> QED BY <1>2, <1>3 DEF mid, MovedTo

LEMMA MovesGap ==
  ASSUME NEW w \in WorkType, w.slice.len \in Nat,
         w.i \in Nat, w.i <= w.slice.len, KnowsAt("find", w) \/ KnowsAt("shift", w),
         NEW g \in Nat, g >= 1, g <= w.i
  PROVE  GoesOn(w, "shift", [w EXCEPT !.gap = g, !.i = @ + 1])
<1> DEFINE mid == [w EXCEPT !.gap = g]
           new == [mid EXCEPT !.i = @ + 1]
<1>1. mid \in WorkType /\ mid.gap = g /\ mid.i = w.i /\ mid.op = w.op /\ mid.review = w.review
      /\ mid.entry = w.entry /\ mid.slice = w.slice
  BY DEF WorkType
<1>2. new = [w EXCEPT !.gap = g, !.i = @ + 1]
  BY <1>1
<1> HIDE DEF mid
<1>3. new \in WorkType
  BY <1>1 DEF WorkType
<1>4. /\ new.i = w.i + 1 /\ new.gap = g /\ new.op = w.op
      /\ new.slice = w.slice /\ new.review = w.review /\ new.entry = w.entry
  BY <1>1 DEF WorkType
<1> HIDE DEF new
<1>5. KnowsAt("shift", new)
  BY <1>4 DEF KnowsAt
<1>6. new.slice.len <= w.slice.len /\ new.slice.array = w.slice.array
  BY <1>4
<1> QED BY <1>2, <1>3, <1>4, <1>5, <1>6 DEF GoesOn, new

LEMMA GapBegins ==
  ASSUME NEW w \in WorkType, w.slice.len \in Nat, w.i \in Nat, w.i <= w.slice.len, KnowsAt("find", w)
  PROVE  GoesOn(w, "shift", [w EXCEPT !.gap = w.i, !.i = @ + 1])
<1>1. w.i >= 1 /\ w.i <= w.i
  BY DEF KnowsAt
<1> QED BY <1>1, MovesGap

LEMMA GapGoesOn ==
  ASSUME NEW w \in WorkType, w.slice.len \in Nat, w.i \in Nat, w.i <= w.slice.len, KnowsAt("shift", w)
  PROVE  GoesOn(w, "shift", [w EXCEPT !.gap = @ + 1, !.i = @ + 1])
<1>1. PICK g \in Nat : g = w.gap + 1
  BY DEF WorkType
<1>2. g >= 1 /\ g <= w.i
  BY <1>1 DEF KnowsAt, WorkType
<1>3. GoesOn(w, "shift", [w EXCEPT !.gap = g, !.i = @ + 1])
  BY <1>2, MovesGap
<1> QED BY <1>1, <1>3

LEMMA FindKeeps ==
  ASSUME HeapCore, NEW p \in Goroutines, Find(p)
  PROVE  HeapCore'
<1> DEFINE w == own[p]
<1>1. pc[p] = "find" /\ pc[p] # "idle"
  BY DEF Find
<1>2. w.i \in Nat /\ w.i >= 1 /\ w.slice.len \in Nat /\ KnowsAt("find", w) /\ w \in WorkType
  BY <1>1, AtWork DEF KnowsAt
<1>3. CASE w.i > w.slice.len
  BY <1>2, <1>3, EndKeeps DEF Find, Refuse
<1>4. CASE w.i <= w.slice.len /\ Elem(w.slice, w.i).id # w.entry.id
  <2> DEFINE new == [w EXCEPT !.i = @ + 1]
  <2>1. own' = [own EXCEPT ![p] = new] /\ UNCHANGED <<reviews, arrays, pc, lastID, clock, outcome>>
    BY <1>2, <1>4 DEF Find, HeapCore
  <2>2. pc' = [pc EXCEPT ![p] = "find"]
    BY <1>1, <2>1 DEF HeapCore
  <2>3. GoesOn(w, "find", new)
    BY <1>2, <1>4, LooksOn
  <2> HIDE DEF new
  <2> QED BY <1>1, <2>1, <2>2, <2>3, SameArraysKeep DEF PCs, NeedsIDAt
<1>5. CASE w.i <= w.slice.len /\ Elem(w.slice, w.i).id = w.entry.id
  <2> DEFINE new == [w EXCEPT !.gap = w.i, !.i = @ + 1]
  <2>1. pc' = [pc EXCEPT ![p] = "shift"] /\ UNCHANGED <<reviews, arrays, lastID, clock, outcome>>
    BY <1>2, <1>5 DEF Find, Goto
  <2>2. own' = [own EXCEPT ![p] = new]
    <3>1. own' = [own EXCEPT ![p].gap = w.i, ![p].i = @ + 1]
      BY <1>2, <1>5 DEF Find
    <3>2. p \in DOMAIN own
      BY DEF HeapCore
    <3> QED BY <3>1, <3>2, AssignedTwice
  <2>3. GoesOn(w, "shift", new)
    BY <1>2, <1>5, GapBegins
  <2> HIDE DEF new
  <2> QED BY <1>1, <2>1, <2>2, <2>3, SameArraysKeep DEF PCs, NeedsIDAt
<1> QED BY <1>2, <1>3, <1>4, <1>5

(* DeleteFunc zeroes what it vacated.                                                       *)
LEMMA ZeroedArray ==
  ASSUME NEW S, NEW x \in Seq(S), NEW e \in S, NEW P
  PROVE  LET y == [k \in DOMAIN x |-> IF k \in P THEN e ELSE x[k]] IN
         y \in Seq(S) /\ Len(y) = Len(x)
<1> DEFINE y == [k \in DOMAIN x |-> IF k \in P THEN e ELSE x[k]]
<1>1. DOMAIN x = 1..Len(x) /\ Len(x) \in Nat /\ \A k \in 1..Len(x) : x[k] \in S
  OBVIOUS
<1>2. y \in [1..Len(x) -> S]
  BY <1>1
<1> HIDE DEF y
<1> QED BY <1>1, <1>2

LEMMA GapEnds ==
  ASSUME NEW w \in WorkType, w.slice \in Slice, KnowsAt("shift", w),
         NEW l, l = (IF Field(w.op) = "causes" THEN "load" ELSE "append")
  PROVE  GoesOn(w, l, [w EXCEPT !.slice.len = w.gap - 1, !.i = 1, !.gap = 0])
<1> DEFINE s2 == [w.slice EXCEPT !.len = w.gap - 1]
           mid == [w EXCEPT !.slice = s2]
           new == MovedTo(mid, 0, 1)
<1>1. w.gap \in Nat /\ w.gap >= 1 /\ w.gap <= w.slice.len /\ w.slice.len \in Nat /\ w.i \in Nat
  BY DEF KnowsAt, WorkType, Slice
<1>2. s2 \in Slice /\ s2.array = w.slice.array /\ s2.len = w.gap - 1
  BY <1>1 DEF Slice
<1> HIDE DEF s2
<1>3. mid \in WorkType /\ mid.slice = s2 /\ mid.op = w.op /\ mid.review = w.review /\ mid.entry = w.entry
  BY <1>2 DEF WorkType
<1> HIDE DEF mid
<1>4. /\ new \in WorkType /\ new.i = 1 /\ new.slice = s2
      /\ new.op = w.op /\ new.review = w.review /\ new.entry = w.entry
  BY <1>3, MovedIndexes
<1>5. new.slice.len <= w.slice.len /\ new.slice.array = w.slice.array
  BY <1>1, <1>2, <1>4
<1>6. KnowsAt(l, new)
  <2>1. new.i \in 1..new.slice.len + 1 /\ new.i >= 1
    BY <1>1, <1>2, <1>4
  <2> QED BY <1>4, <1>5, <2>1 DEF KnowsAt, Updates, Field
<1>7. GoesOn(w, l, new)
  BY <1>4, <1>5, <1>6 DEF GoesOn
<1>8. [w EXCEPT !.slice.len = w.gap - 1, !.i = 1, !.gap = 0] = new
  BY DEF MovedTo, mid, s2, WorkType
<1> QED BY <1>7, <1>8

LEMMA ShiftKeeps ==
  ASSUME HeapCore, NEW p \in Goroutines, Shift(p)
  PROVE  HeapCore'
<1> DEFINE w == own[p]
           s == own[p].slice
           field == Field(w.op)
<1>1. pc[p] = "shift" /\ pc[p] # "idle"
  BY DEF Shift
<1>2. /\ w.i \in Nat /\ w.gap \in Nat /\ s \in Slice /\ s.len \in Nat
      /\ KnowsAt("shift", w) /\ w \in WorkType
  BY <1>1, AtWork
<1>3. w.gap >= 1 /\ w.gap < w.i /\ w.i <= s.len + 1
  BY <1>2 DEF KnowsAt
<1>4. p \in DOMAIN own
  BY DEF HeapCore
<1>5. CASE w.i <= s.len /\ Elem(s, w.i).id # w.entry.id
  <2> DEFINE new == [w EXCEPT !.gap = @ + 1, !.i = @ + 1]
  <2>1. /\ arrays' = Written(s, w.gap, Elem(s, w.i))
        /\ own' = [own EXCEPT ![p].gap = @ + 1, ![p].i = @ + 1]
        /\ UNCHANGED <<reviews, pc, lastID, clock, outcome>>
    BY <1>2, <1>5 DEF Shift
  <2>2. own' = [own EXCEPT ![p] = new]
    BY <1>4, <2>1, AssignedTwice
  <2>3. pc' = [pc EXCEPT ![p] = "shift"]
    BY <1>1, <2>1 DEF HeapCore
  <2>4. w.gap \in 1..s.len /\ w.i \in 1..s.len
    BY <1>2, <1>3, <1>5
  <2>5. Elem(s, w.i) \in EntriesIn(field)
    BY <1>1, <2>4, ReadEntry
  <2>6. Carried /\ arrays' \in [1..MaxArrays -> Seq(BoundCause) \cup Seq(BoundTrigger)]
    BY <1>1, <2>1, <2>4, <2>5, WriteEntry
  <2>7. GoesOn(w, "shift", new)
    BY <1>2, <1>5, GapGoesOn
  <2>8. new \in WorkType
    BY <2>7 DEF GoesOn
  <2> HIDE DEF new
  <2> QED BY <1>1, <2>1, <2>2, <2>3, <2>6, <2>7, <2>8, GoingOnKeeps DEF PCs
<1>6. CASE w.i <= s.len /\ Elem(s, w.i).id = w.entry.id
  <2> DEFINE new == [w EXCEPT !.i = @ + 1]
  <2>1. own' = [own EXCEPT ![p] = new] /\ UNCHANGED <<reviews, arrays, pc, lastID, clock, outcome>>
    BY <1>2, <1>6 DEF Shift, HeapCore
  <2>2. pc' = [pc EXCEPT ![p] = "shift"]
    BY <1>1, <2>1 DEF HeapCore
  <2>3. GoesOn(w, "shift", new)
    BY <1>2, <1>6, LooksOn
  <2> HIDE DEF new
  <2> QED BY <1>1, <2>1, <2>2, <2>3, SameArraysKeep DEF PCs, NeedsIDAt
<1>7. CASE w.i > s.len
  <2> DEFINE new == [w EXCEPT !.slice.len = w.gap - 1, !.i = 1, !.gap = 0]
             l == IF field = "causes" THEN "load" ELSE "append"
             x == [i \in DOMAIN arrays[s.array] |->
                     IF i \in w.gap..s.len THEN BlankIn(field) ELSE arrays[s.array][i]]
  <2>1. /\ arrays' = [arrays EXCEPT ![s.array] = x]
        /\ own' = [own EXCEPT ![p].slice.len = w.gap - 1, ![p].i = 1, ![p].gap = 0]
        /\ pc' = [pc EXCEPT ![p] = l]
        /\ UNCHANGED <<reviews, lastID, clock, outcome>>
    BY <1>2, <1>7 DEF Shift, Goto
  <2>2. own' = [own EXCEPT ![p] = new]
    BY <1>4, <2>1, AssignedTwice
  <2>3. w.gap \in 1..s.len
    BY <1>2, <1>3
  <2>4. field \in Fields /\ s.array \in 1..MaxArrays /\ arrays[s.array] \in Seq(EntriesIn(field))
    BY <1>1, <2>3, ReadEntry, FieldOfOp
  <2>5. x \in Seq(EntriesIn(field)) /\ Len(x) = Len(arrays[s.array])
    BY <2>4, BlankEntry, ZeroedArray
  <2>6. Carried /\ arrays' \in [1..MaxArrays -> Seq(BoundCause) \cup Seq(BoundTrigger)]
    <3>1. s.array # 0
      BY <2>4
    <3> HIDE DEF x
    <3> QED BY <1>1, <2>1, <2>5, <3>1, WriteCarries
  <2>7. GoesOn(w, l, new)
    BY <1>2, GapEnds
  <2>8. new \in WorkType
    BY <2>7 DEF GoesOn
  <2>9. l \in PCs \ {"idle"} /\ (NeedsIDAt(l, w) => NeedsIDAt(pc[p], w))
    BY <1>1 DEF PCs, NeedsIDAt
  <2> HIDE DEF new, l
  <2> QED BY <1>1, <2>1, <2>2, <2>6, <2>7, <2>8, <2>9, GoingOnKeeps
<1> QED BY <1>2, <1>5, <1>6, <1>7

LEMMA Loads ==
  ASSUME NEW w \in WorkType, w.slice.len \in Nat, w.i <= w.slice.len, NEW e \in BoundCause,
         KnowsAt("load", w)
  PROVE  GoesOn(w, "store", [w EXCEPT !.loaded = e])
<1> DEFINE new == [w EXCEPT !.loaded = e]
<1>1. /\ new \in WorkType /\ new.i = w.i /\ new.slice = w.slice
      /\ new.op = w.op /\ new.review = w.review /\ new.entry = w.entry
  BY DEF WorkType
<1> HIDE DEF new
<1>2. new.slice.len <= w.slice.len /\ new.slice.array = w.slice.array
  BY <1>1
<1>3. KnowsAt("store", new)
  BY <1>1 DEF KnowsAt
<1> QED BY <1>1, <1>2, <1>3 DEF GoesOn, new

LEMMA Stores ==
  ASSUME NEW w \in WorkType, w.slice.len \in Nat, w.i \in Nat, KnowsAt("store", w)
  PROVE  GoesOn(w, "load", [w EXCEPT !.i = @ + 1, !.loaded = BlankCause])
<1> DEFINE mid == [w EXCEPT !.i = @ + 1]
           new == [mid EXCEPT !.loaded = BlankCause]
<1>1. /\ mid \in WorkType /\ mid.i = w.i + 1 /\ mid.slice = w.slice
      /\ mid.op = w.op /\ mid.review = w.review /\ mid.entry = w.entry
  BY DEF WorkType
<1> HIDE DEF mid
<1>2. BlankCause \in BoundCause
  BY WhysAssumption DEF BlankCause, BoundCause, IDs, Nil
<1>3. /\ new \in WorkType /\ new.i = w.i + 1 /\ new.slice = w.slice
      /\ new.op = w.op /\ new.review = w.review /\ new.entry = w.entry
  BY <1>1, <1>2 DEF WorkType
<1> HIDE DEF new
<1>4. new.slice.len <= w.slice.len /\ new.slice.array = w.slice.array
  BY <1>3
<1>5. KnowsAt("load", new)
  BY <1>3 DEF KnowsAt
<1> QED BY <1>3, <1>4, <1>5 DEF GoesOn, new, mid

LEMMA StopsLooking ==
  ASSUME NEW w \in WorkType, w.slice.len \in Nat, KnowsAt("load", w)
  PROVE  GoesOn(w, "append", w)
<1>1. w.slice.len <= w.slice.len
  OBVIOUS
<1>2. KnowsAt("append", w)
  BY DEF KnowsAt
<1> QED BY <1>1, <1>2 DEF GoesOn

LEMMA LoadKeeps ==
  ASSUME HeapCore, NEW p \in Goroutines, Load(p)
  PROVE  HeapCore'
<1> DEFINE w == own[p]
           s == own[p].slice
<1>1. pc[p] = "load" /\ pc[p] # "idle"
  BY DEF Load
<1>2. w.i \in Nat /\ s.len \in Nat /\ KnowsAt("load", w) /\ w \in WorkType
  BY <1>1, AtWork
<1>3. CASE w.i > s.len
  <2>1. pc' = [pc EXCEPT ![p] = "append"] /\ UNCHANGED <<reviews, arrays, own, lastID, clock, outcome>>
    BY <1>2, <1>3 DEF Load, Goto
  <2>2. own' = [own EXCEPT ![p] = w]
    BY <2>1 DEF HeapCore
  <2>3. GoesOn(w, "append", w)
    BY <1>2, StopsLooking
  <2> QED BY <1>1, <2>1, <2>2, <2>3, SameArraysKeep DEF PCs, NeedsIDAt
<1>4. CASE w.i <= s.len /\ SameReason(Elem(s, w.i), w.entry)
  BY <1>2, <1>4, EndKeeps DEF Load, Refuse
<1>5. CASE w.i <= s.len /\ ~ SameReason(Elem(s, w.i), w.entry)
  <2> DEFINE new == [w EXCEPT !.loaded = Elem(s, w.i)]
  <2>1. /\ pc' = [pc EXCEPT ![p] = "store"] /\ own' = [own EXCEPT ![p] = new]
        /\ UNCHANGED <<reviews, arrays, lastID, clock, outcome>>
    BY <1>2, <1>5 DEF Load, Goto
  <2>2. w.i \in 1..s.len /\ Field(w.op) = "causes"
    BY <1>2, <1>5 DEF KnowsAt, Field
  <2>3. Elem(s, w.i) \in BoundCause
    BY <1>1, <2>2, ReadEntry DEF EntriesIn
  <2>4. GoesOn(w, "store", new)
    BY <1>2, <1>5, <2>3, Loads
  <2> HIDE DEF new
  <2> QED BY <1>1, <2>1, <2>4, SameArraysKeep DEF PCs, NeedsIDAt
<1> QED BY <1>2, <1>3, <1>4, <1>5

LEMMA StoreKeeps ==
  ASSUME HeapCore, NEW p \in Goroutines, Store(p)
  PROVE  HeapCore'
<1> DEFINE w == own[p]
           s == own[p].slice
           new == [w EXCEPT !.i = @ + 1, !.loaded = BlankCause]
           e == UnsetProximal(w.loaded, w.entry)
<1>1. pc[p] = "store" /\ pc[p] # "idle"
  BY DEF Store
<1>2. /\ w.i \in Nat /\ s.len \in Nat /\ KnowsAt("store", w) /\ w \in WorkType
      /\ w.loaded \in BoundCause
  BY <1>1, AtWork
<1>3. /\ arrays' = Written(s, w.i, e)
      /\ own' = [own EXCEPT ![p].i = @ + 1, ![p].loaded = BlankCause]
      /\ pc' = [pc EXCEPT ![p] = "load"] /\ UNCHANGED <<reviews, lastID, clock, outcome>>
  BY DEF Store, Goto
<1>4. own' = [own EXCEPT ![p] = new]
  <2>1. p \in DOMAIN own
    BY DEF HeapCore
  <2> QED BY <1>3, <2>1, AssignedTwice
<1>5. w.i \in 1..s.len /\ Field(w.op) = "causes"
  BY <1>2 DEF KnowsAt, Field
<1>6. e \in EntriesIn(Field(w.op))
  BY <1>2, <1>5 DEF UnsetProximal, BoundCause, EntriesIn
<1>7. Carried /\ arrays' \in [1..MaxArrays -> Seq(BoundCause) \cup Seq(BoundTrigger)]
  <2> HIDE DEF e
  <2> QED BY <1>1, <1>3, <1>5, <1>6, WriteEntry
<1>8. GoesOn(w, "load", new)
  BY <1>2, Stores
<1>9. new \in WorkType
  BY <1>8 DEF GoesOn
<1> HIDE DEF new
<1> QED BY <1>1, <1>3, <1>4, <1>7, <1>8, <1>9, GoingOnKeeps DEF PCs, NeedsIDAt

-------------------------------------------------------------------------------------
(* append finds a free array: there are two for each review and three for each goroutine,     *)
(* and the one that appends works on an array of its copy.                                  *)
LEMMA ImageBound ==
  ASSUME NEW S, IsFiniteSet(S), NEW f, DOMAIN f = S
  PROVE  /\ IsFiniteSet({f[x] : x \in S})
         /\ Cardinality({f[x] : x \in S}) <= Cardinality(S)
<1> DEFINE T == {f[x] : x \in S}
           g == [x \in S |-> f[x]]
<1>1. g \in Surjection(S, T)
  BY DEF Surjection
<1> QED BY <1>1, FS_Surjection

LEMMA UnionBound ==
  ASSUME NEW S, IsFiniteSet(S), NEW m \in Nat, Cardinality(S) <= m,
         NEW T, IsFiniteSet(T), NEW n \in Nat, Cardinality(T) <= n
  PROVE  IsFiniteSet(S \cup T) /\ Cardinality(S \cup T) <= m + n
<1>1. IsFiniteSet(S \cup T) /\ Cardinality(S \cup T) = Cardinality(S) + Cardinality(T) - Cardinality(S \cap T)
  BY FS_Union
<1>2. IsFiniteSet(S \cap T)
  BY FS_Intersection
<1>3. Cardinality(S) \in Nat /\ Cardinality(T) \in Nat /\ Cardinality(S \cap T) \in Nat
  BY <1>2, FS_CardinalityType
<1> QED BY <1>1, <1>3

LEMMA FreeArray ==
  ASSUME HeapCore, NEW p \in Goroutines, pc[p] = "append"
  PROVE  (CHOOSE x \in 1..MaxArrays : x \notin Live) \in 1..MaxArrays \ Live
<1> DEFINE R == DOMAIN reviews
           G == Goroutines
           c == [id \in R |-> reviews[id].causes.array]
           t == [id \in R |-> reviews[id].triggers.array]
           s == [q \in G \ {p} |-> own[q].slice.array]
           wc == [q \in G |-> own[q].review.causes.array]
           wt == [q \in G |-> own[q].review.triggers.array]
           C == {c[id] : id \in R}
           T == {t[id] : id \in R}
           S == {s[q] : q \in G \ {p}}
           WC == {wc[q] : q \in G}
           WT == {wt[q] : q \in G}
           r == Cardinality(R)
           g == Cardinality(G)
<1>1. IsFiniteSet(R) /\ r \in Nat /\ r <= MaxReviews
  <2>1. R \subseteq 3..lastID /\ lastID \in Int
    BY RequestsAssumption DEF HeapCore, Counters
  <2>2. IsFiniteSet(3..lastID)
    BY <2>1, FS_Interval
  <2>3. IsFiniteSet(R)
    BY <2>1, <2>2, FS_Subset
  <2> QED BY <2>3, FS_CardinalityType DEF HeapCore
<1>2. IsFiniteSet(G) /\ g \in Nat
  BY RequestsAssumption, FS_CardinalityType
<1>3. IsFiniteSet(G \ {p}) /\ Cardinality(G \ {p}) = g - 1 /\ g - 1 \in Nat
  <2>1. IsFiniteSet(G \ {p}) /\ Cardinality(G \ {p}) = g - 1
    BY <1>2, FS_RemoveElement
  <2> QED BY <2>1, FS_CardinalityType
<1>4. Live \subseteq (C \cup T) \cup (S \cup (WC \cup WT))
  <2>1. own[p].slice.array \in WC \cup WT
    <3>1. own[p].slice.array = own[p].review[Field(own[p].op)].array
      BY AtWork DEF KnowsAt
    <3>2. own[p].review.causes.array \in WC /\ own[p].review.triggers.array \in WT
      OBVIOUS
    <3> QED BY <3>1, <3>2, FieldOfOp
  <2>2. \A q \in G : q # p => own[q].slice.array \in S
    OBVIOUS
  <2>3. \A id \in R : reviews[id].causes.array \in C /\ reviews[id].triggers.array \in T
    OBVIOUS
  <2>4. \A q \in G : own[q].review.causes.array \in WC /\ own[q].review.triggers.array \in WT
    OBVIOUS
  <2> HIDE DEF C, T, S, WC, WT
  <2> QED BY <2>1, <2>2, <2>3, <2>4 DEF Live
<1>5. /\ IsFiniteSet(C) /\ Cardinality(C) <= r /\ IsFiniteSet(T) /\ Cardinality(T) <= r
      /\ IsFiniteSet(S) /\ Cardinality(S) <= g - 1
      /\ IsFiniteSet(WC) /\ Cardinality(WC) <= g /\ IsFiniteSet(WT) /\ Cardinality(WT) <= g
  <2>1. DOMAIN c = R /\ DOMAIN t = R /\ DOMAIN s = G \ {p} /\ DOMAIN wc = G /\ DOMAIN wt = G
    OBVIOUS
  <2> HIDE DEF c, t, s, wc, wt
  <2>2. IsFiniteSet(C) /\ Cardinality(C) <= r
    BY <1>1, <2>1, ImageBound
  <2>3. IsFiniteSet(T) /\ Cardinality(T) <= r
    BY <1>1, <2>1, ImageBound
  <2>4. IsFiniteSet(S) /\ Cardinality(S) <= g - 1
    BY <1>3, <2>1, ImageBound
  <2>5. IsFiniteSet(WC) /\ Cardinality(WC) <= g
    BY <1>2, <2>1, ImageBound
  <2>6. IsFiniteSet(WT) /\ Cardinality(WT) <= g
    BY <1>2, <2>1, ImageBound
  <2> QED BY <2>2, <2>3, <2>4, <2>5, <2>6
<1>6. ~ (1..MaxArrays \subseteq Live)
  <2> HIDE DEF C, T, S, WC, WT, r, g
  <2>1. IsFiniteSet(C \cup T) /\ Cardinality(C \cup T) <= r + r
    BY <1>1, <1>5, UnionBound
  <2>2. IsFiniteSet(WC \cup WT) /\ Cardinality(WC \cup WT) <= g + g
    BY <1>2, <1>5, UnionBound
  <2>3. /\ IsFiniteSet(S \cup (WC \cup WT))
        /\ Cardinality(S \cup (WC \cup WT)) <= (g - 1) + (g + g)
    <3>1. g + g \in Nat
      BY <1>2
    <3> QED BY <1>3, <1>5, <2>2, <3>1, UnionBound
  <2> DEFINE All == (C \cup T) \cup (S \cup (WC \cup WT))
  <2>4. IsFiniteSet(All) /\ Cardinality(All) <= (r + r) + ((g - 1) + (g + g))
    <3>1. r + r \in Nat /\ (g - 1) + (g + g) \in Nat
      BY <1>1, <1>2, <1>3
    <3> QED BY <2>1, <2>3, <3>1, UnionBound
  <2>5. MaxArrays \in Nat /\ MaxArrays >= 2 * MaxReviews + 3 * g
    BY ArraysAssumption DEF g
  <2>6. SUFFICES ASSUME 1..MaxArrays \subseteq All PROVE FALSE
    BY <1>4
  <2> HIDE DEF All
  <2>7. Cardinality(1..MaxArrays) = MaxArrays
    BY <2>5, FS_Interval
  <2>8. Cardinality(1..MaxArrays) <= Cardinality(All) /\ Cardinality(All) \in Nat
    BY <2>4, <2>6, FS_Subset, FS_CardinalityType
  <2> QED BY <1>1, <1>2, <2>4, <2>5, <2>7, <2>8, RequestsAssumption
<1> QED BY <1>6

LEMMA NewEntry ==
  ASSUME HeapCore, NEW p \in Goroutines, pc[p] # "idle"
  PROVE  /\ EnsureID(own[p].entry, lastID + 1) \in EntriesIn(Field(own[p].op))
         /\ own[p].entry \in EntriesIn(Field(own[p].op))
<1>1. own[p].entry \in EntriesIn(Field(own[p].op))
  BY AtWork
<1>2. lastID + 1 \in IDs
  BY RequestsAssumption DEF HeapCore, Counters, IDs
<1>3. CASE own[p].entry \in BoundCause /\ EntriesIn(Field(own[p].op)) = BoundCause
  <2>1. [own[p].entry EXCEPT !.id = lastID + 1] \in BoundCause
    BY <1>2, <1>3 DEF BoundCause
  <2> QED BY <1>3, <2>1 DEF EnsureID
<1>4. CASE own[p].entry \in BoundTrigger /\ EntriesIn(Field(own[p].op)) = BoundTrigger
  <2>1. [own[p].entry EXCEPT !.id = lastID + 1] \in BoundTrigger
    BY <1>2, <1>4 DEF BoundTrigger
  <2> QED BY <1>4, <2>1 DEF EnsureID
<1> QED BY <1>1, <1>3, <1>4 DEF EntriesIn

(* The id that append gives out was counted on.                                              *)
LEMMA IDIsLeft ==
  ASSUME HeapCore, NEW p \in Goroutines, pc[p] = "append", NEW w,
         own[p].entry.id = Nil /\ own[p].op # "rebindTrigger",
         pc' = [pc EXCEPT ![p] = "save"], own' = [own EXCEPT ![p] = w], lastID' = lastID + 1
  PROVE  lastID' \in lastID..MaxID /\ lastID' + Cardinality(NeedIDs') <= MaxID
<1>1. p \in NeedIDs
  BY DEF NeedIDs, NeedsIDAt
<1>2. ASSUME NEW q \in NeedIDs' PROVE q \in NeedIDs \ {p}
  <2>1. q \in Goroutines /\ NeedsIDAt(pc'[q], own'[q])
    BY DEF NeedIDs
  <2>2. q # p
    BY <2>1 DEF HeapCore, NeedsIDAt
  <2> QED BY <2>1, <2>2 DEF NeedIDs, HeapCore
<1>3. IsFiniteSet(NeedIDs)
  BY RequestsAssumption, FS_Subset DEF NeedIDs
<1>4. IsFiniteSet(NeedIDs \ {p}) /\ Cardinality(NeedIDs \ {p}) = Cardinality(NeedIDs) - 1
  BY <1>1, <1>3, FS_RemoveElement
<1>5. NeedIDs' \in SUBSET (NeedIDs \ {p})
  BY <1>2
<1>6. Cardinality(NeedIDs') <= Cardinality(NeedIDs \ {p}) /\ IsFiniteSet(NeedIDs')
  BY <1>4, <1>5, FS_Subset
<1>7. /\ Cardinality(NeedIDs') \in Nat /\ Cardinality(NeedIDs) \in Nat
      /\ lastID \in Nat /\ lastID + Cardinality(NeedIDs) <= MaxID /\ MaxID \in Nat
  BY <1>3, <1>6, FS_CardinalityType, RequestsAssumption DEF HeapCore, Counters
<1>8. Cardinality(NeedIDs') + 1 <= Cardinality(NeedIDs)
  BY <1>4, <1>6, <1>7
<1>9. lastID' + Cardinality(NeedIDs') <= MaxID
  BY <1>7, <1>8
<1> QED BY <1>7, <1>9

LEMMA AppendIDs ==
  ASSUME HeapCore, NEW p \in Goroutines, AppendEntry(p), NEW w, own' = [own EXCEPT ![p] = w]
  PROVE  lastID' \in lastID..MaxID /\ lastID' + Cardinality(NeedIDs') <= MaxID
<1> DEFINE fresh == own[p].entry.id = Nil /\ own[p].op # "rebindTrigger"
<1>1. pc[p] = "append" /\ pc' = [pc EXCEPT ![p] = "save"]
  BY DEF AppendEntry, Goto
<1>2. CASE fresh
  <2>1. lastID' = lastID + 1
    BY <1>2 DEF AppendEntry
  <2> QED BY <1>1, <1>2, <2>1, IDIsLeft
<1>3. CASE ~ fresh
  <2>1. lastID' = lastID
    BY <1>3 DEF AppendEntry
  <2>2. lastID' + Cardinality(NeedIDs') <= MaxID
    BY <1>1, <2>1, NeedsNoMore DEF NeedsIDAt
  <2> QED BY <2>1, <2>2, RequestsAssumption DEF HeapCore, Counters
<1> QED BY <1>2, <1>3

(* After append: a slice that is one longer, in the same array or in a new one.               *)
LEMMA Appended ==
  ASSUME NEW w \in WorkType, NEW s2 \in Slice
  PROVE  LET new == [w EXCEPT !.slice = s2, !.i = 0] IN
         /\ new \in WorkType /\ new.slice = s2 /\ KnowsAt("save", new)
         /\ new.op = w.op /\ new.review = w.review /\ new.entry = w.entry
<1> DEFINE mid == [w EXCEPT !.slice = s2]
           new == [mid EXCEPT !.i = 0]
<1>1. /\ mid \in WorkType /\ mid.slice = s2
      /\ mid.op = w.op /\ mid.review = w.review /\ mid.entry = w.entry
  BY DEF WorkType
<1> HIDE DEF mid
<1>2. /\ new \in WorkType /\ new.slice = s2
      /\ new.op = w.op /\ new.review = w.review /\ new.entry = w.entry
  BY <1>1 DEF WorkType
<1> HIDE DEF new
<1>3. KnowsAt("save", new)
  BY DEF KnowsAt
<1> QED BY <1>2, <1>3 DEF new, mid

LEMMA AppendedFits ==
  ASSUME HeapCore, Carried, NEW p \in Goroutines, pc[p] # "idle", NEW w,
         own' = [own EXCEPT ![p] = w],
         w \in WorkType, KnowsAt("save", w),
         w.op = own[p].op, w.review = own[p].review, w.entry = own[p].entry,
         Fits(arrays', w.slice, Field(w.op))
  PROVE  RequestFits(reviews, arrays', "save", w)
<1>1. RequestFits(reviews, arrays, pc[p], own[p]) /\ own'[p] = w
  BY DEF HeapCore
<1>2. ReviewFits(arrays', own[p].review)
  BY <1>1, CopyStillFits
<1> QED BY <1>1, <1>2 DEF RequestFits, PCs

LEMMA AppendInPlaceKeeps ==
  ASSUME HeapCore, NEW p \in Goroutines, AppendEntry(p), own[p].slice.len < Cap(own[p].slice)
  PROVE  HeapCore'
<1> DEFINE w == own[p]
           s == own[p].slice
           S == EntriesIn(Field(own[p].op))
           fresh == w.entry.id = Nil /\ w.op # "rebindTrigger"
           e == IF fresh THEN EnsureID(w.entry, lastID + 1) ELSE w.entry
           s2 == [s EXCEPT !.len = @ + 1]
           new == [w EXCEPT !.slice = s2, !.i = 0]
<1>1. pc[p] = "append" /\ pc' = [pc EXCEPT ![p] = "save"] /\ UNCHANGED <<reviews, clock, outcome>>
  BY DEF AppendEntry, Goto
<1>2. /\ w \in WorkType /\ s \in Slice /\ s.len \in Nat /\ s.array \in 0..MaxArrays
      /\ Fits(arrays, s, Field(w.op))
  BY <1>1, AtWork
<1>3. s.array # 0 /\ arrays[s.array] \in Seq(S) /\ s.len < Len(arrays[s.array])
  BY <1>2 DEF Cap, Fits
<1>4. s.array \in 1..MaxArrays /\ s.len + 1 \in 1..Len(arrays[s.array])
  BY <1>2, <1>3, ArraysAssumption
<1>5. e \in S
  BY <1>1, NewEntry
<1>6. arrays' = Written(s, s.len + 1, e) /\ own' = [own EXCEPT ![p].slice.len = @ + 1, ![p].i = 0]
  <2>1. ~ (s.len = Cap(s))
    BY <1>2, <1>3 DEF Cap
  <2> QED BY <2>1 DEF AppendEntry
<1>7. own' = [own EXCEPT ![p] = new]
  <2>1. p \in DOMAIN own
    BY DEF HeapCore
  <2>2. [w EXCEPT !.slice.len = s.len + 1] = [w EXCEPT !.slice = s2]
    OBVIOUS
  <2> QED BY <1>6, <2>1, <2>2, AssignedTwice
<1>8. s2 \in Slice /\ s2.array = s.array /\ s2.len = s.len + 1
  BY <1>2 DEF Slice
<1>9. /\ new \in WorkType /\ new.slice = s2 /\ KnowsAt("save", new)
      /\ new.op = w.op /\ new.review = w.review /\ new.entry = w.entry
  BY <1>2, <1>8, Appended
<1>10. Carried /\ arrays' \in [1..MaxArrays -> Seq(BoundCause) \cup Seq(BoundTrigger)]
  <2> HIDE DEF e
  <2> QED BY <1>1, <1>3, <1>4, <1>5, <1>6, WriteEntryAt
<1>11. Fits(arrays', new.slice, Field(new.op))
  <2>1. arrays'[s.array] = [arrays[s.array] EXCEPT ![s.len + 1] = e]
    BY <1>4, <1>6 DEF Written, HeapCore
  <2> HIDE DEF e
  <2>2. arrays'[s.array] \in Seq(S) /\ Len(arrays'[s.array]) = Len(arrays[s.array])
    BY <1>3, <1>4, <1>5, <2>1
  <2>3. Len(arrays[s.array]) \in Nat
    BY <1>3
  <2> HIDE DEF new, s2
  <2> QED BY <1>3, <1>4, <1>8, <1>9, <2>2, <2>3 DEF Fits
<1> HIDE DEF new, s2
<1>12. RequestFits(reviews, arrays', "save", new)
  BY <1>1, <1>7, <1>9, <1>10, <1>11, AppendedFits
<1>13. Apart(reviews, own')
  BY <1>1, <1>7, <1>8, <1>9, GoesOnApart
<1>14. lastID' \in lastID..MaxID /\ lastID' + Cardinality(NeedIDs') <= MaxID
  BY <1>7, AppendIDs
<1>15. outcome' \in {"none", "ok", "refused", "unexpected"} /\ new.review.updatedAt <= clock
  BY <1>1, <1>9 DEF HeapCore, Counters
<1> QED BY <1>1, <1>7, <1>9, <1>10, <1>12, <1>13, <1>14, <1>15, MoveKeeps DEF PCs

(* The array twice as large: what was there, the new entry, and zeroed ones.                  *)
LEMMA GrownArray ==
  ASSUME NEW S, NEW n \in Nat, NEW m \in Nat, n + 1 <= m,
         NEW old, \A i \in 1..n : old[i] \in S, NEW e \in S, NEW b \in S
  PROVE  LET x == [i \in 1..m |-> IF i <= n THEN old[i] ELSE IF i = n + 1 THEN e ELSE b] IN
         x \in Seq(S) /\ Len(x) = m
<1> DEFINE x == [i \in 1..m |-> IF i <= n THEN old[i] ELSE IF i = n + 1 THEN e ELSE b]
<1>1. x \in [1..m -> S]
  OBVIOUS
<1> HIDE DEF x
<1> QED BY <1>1

(* An array that nothing pointed at belongs to nobody else.                                   *)
LEMMA NewArrayApart ==
  ASSUME HeapCore, NEW p \in Goroutines, pc[p] # "idle", NEW w, own' = [own EXCEPT ![p] = w],
         reviews' = reviews, w.op = own[p].op, w.review = own[p].review,
         w.slice.array \notin Live
  PROVE  Apart(reviews, own')
<1> DEFINE a == w.slice.array
           mine == Field(w.op)
<1>1. own'[p] = w /\ \A q \in Goroutines \ {p} : own'[q] = own[q]
  BY DEF HeapCore
<1>2. ASSUME NEW id \in DOMAIN reviews, NEW f \in Fields, NEW b \in ArraysOf(reviews, own', id, f)
      PROVE  \/ b \in ArraysOf(reviews, own, id, f)
             \/ b = a /\ id = w.review.id /\ f = mine
  <2>1. ASSUME NEW q \in Goroutines, own'[q].review.id = id,
               \/ b = own'[q].review[f].array
               \/ Field(own'[q].op) = f /\ b = own'[q].slice.array
        PROVE  \/ b \in ArraysOf(reviews, own, id, f)
               \/ b = a /\ id = w.review.id /\ f = mine
    <3>1. CASE q # p
      BY <1>1, <2>1, <3>1 DEF ArraysOf
    <3>2. CASE q = p
      <4>1. own[p].review[f].array \in ArraysOf(reviews, own, own[p].review.id, f)
        BY OwnArrays
      <4> QED BY <1>1, <2>1, <3>2, <4>1
    <3> QED BY <3>1, <3>2
  <2>2. CASE b = reviews[id][f].array
    BY <2>2, StoredArrays
  <2> QED BY <1>2, <2>1, <2>2 DEF ArraysOf
<1>3. ASSUME NEW id \in DOMAIN reviews, NEW f \in Fields
      PROVE  a \notin ArraysOf(reviews, own, id, f)
  BY <1>3, PointedArrays
<1> SUFFICES ASSUME NEW id1 \in DOMAIN reviews, NEW id2 \in DOMAIN reviews,
                    NEW f1 \in Fields, NEW f2 \in Fields, ~ (id1 = id2 /\ f1 = f2),
                    NEW b \in ArraysOf(reviews, own', id1, f1), b \in ArraysOf(reviews, own', id2, f2)
             PROVE  b = 0
  BY DEF Apart
<1>4. CASE b = a
  <2> HIDE DEF a, mine
  <2>1. ASSUME NEW id \in DOMAIN reviews, NEW f \in Fields, b \in ArraysOf(reviews, own', id, f)
        PROVE  id = w.review.id /\ f = mine
    <3>1. b \notin ArraysOf(reviews, own, id, f)
      BY <1>3, <1>4
    <3> QED BY <1>2, <2>1, <3>1
  <2>2. id1 = w.review.id /\ f1 = mine /\ id2 = w.review.id /\ f2 = mine
    BY <2>1
  <2> QED BY <2>2
<1>5. CASE b # a
  <2>1. b \in ArraysOf(reviews, own, id1, f1) /\ b \in ArraysOf(reviews, own, id2, f2)
    BY <1>2, <1>5
  <2> QED BY <2>1 DEF HeapCore, Apart
<1> QED BY <1>4, <1>5

LEMMA AppendGrowsKeeps ==
  ASSUME HeapCore, NEW p \in Goroutines, AppendEntry(p), own[p].slice.len = Cap(own[p].slice)
  PROVE  HeapCore'
<1> DEFINE w == own[p]
           s == own[p].slice
           field == Field(own[p].op)
           S == EntriesIn(Field(own[p].op))
           fresh == w.entry.id = Nil /\ w.op # "rebindTrigger"
           e == IF fresh THEN EnsureID(w.entry, lastID + 1) ELSE w.entry
           a == CHOOSE x \in 1..MaxArrays : x \notin Live
           x == [i \in 1..GrownCap(s) |->
                   IF i <= s.len THEN Elem(s, i)
                   ELSE IF i = s.len + 1 THEN e ELSE BlankIn(Field(w.op))]
           s2 == [array |-> a, len |-> s.len + 1]
           new == [w EXCEPT !.slice = s2, !.i = 0]
<1>1. pc[p] = "append" /\ pc' = [pc EXCEPT ![p] = "save"] /\ UNCHANGED <<reviews, clock, outcome>>
  BY DEF AppendEntry, Goto
<1>2. /\ w \in WorkType /\ s \in Slice /\ s.len \in Nat /\ s.array \in 0..MaxArrays
      /\ Fits(arrays, s, Field(w.op)) /\ field \in Fields
  BY <1>1, AtWork, FieldOfOp
<1>3. a \in 1..MaxArrays /\ a \notin Live
  BY <1>1, FreeArray
<1> HIDE DEF a
<1>4. arrays' = [arrays EXCEPT ![a] = x] /\ own' = [own EXCEPT ![p].slice = s2, ![p].i = 0]
  <2>1. ~ (s.len < Cap(s))
    BY <1>2
  <2> QED BY <2>1 DEF AppendEntry, a
<1>5. own' = [own EXCEPT ![p] = new]
  <2>1. p \in DOMAIN own
    BY DEF HeapCore
  <2> QED BY <1>4, <2>1, AssignedTwice
<1>6. e \in S /\ BlankIn(field) \in S
  BY <1>1, <1>2, NewEntry, BlankEntry
<1>7. GrownCap(s) \in Nat /\ s.len + 1 <= GrownCap(s)
  BY <1>2 DEF GrownCap
<1>8. x \in Seq(S) /\ Len(x) = GrownCap(s)
  <2>1. \A i \in 1..s.len : arrays[s.array][i] \in S
    BY <1>1, ReadEntry DEF Elem
  <2> HIDE DEF e
  <2> QED BY <1>2, <1>6, <1>7, <2>1, GrownArray DEF Elem
<1> HIDE DEF x
<1>9. Carried /\ arrays' \in [1..MaxArrays -> Seq(BoundCause) \cup Seq(BoundTrigger)]
  BY <1>2, <1>3, <1>4, <1>8, NewArrayCarries
<1>10. s2 \in Slice /\ s2.array = a /\ s2.len = s.len + 1
  BY <1>2, <1>3 DEF Slice
<1>11. /\ new \in WorkType /\ new.slice = s2 /\ KnowsAt("save", new)
       /\ new.op = w.op /\ new.review = w.review /\ new.entry = w.entry
  BY <1>2, <1>10, Appended
<1>12. Fits(arrays', new.slice, Field(new.op))
  <2>1. arrays'[a] = x
    BY <1>3, <1>4 DEF HeapCore
  <2>2. a # 0
    BY <1>3
  <2> HIDE DEF new, s2
  <2> QED BY <1>7, <1>8, <1>10, <1>11, <2>1, <2>2 DEF Fits
<1> HIDE DEF new, s2
<1>13. RequestFits(reviews, arrays', "save", new)
  BY <1>1, <1>5, <1>9, <1>11, <1>12, AppendedFits
<1>14. Apart(reviews, own')
  BY <1>1, <1>3, <1>5, <1>10, <1>11, NewArrayApart
<1>15. lastID' \in lastID..MaxID /\ lastID' + Cardinality(NeedIDs') <= MaxID
  BY <1>5, AppendIDs
<1>16. outcome' \in {"none", "ok", "refused", "unexpected"} /\ new.review.updatedAt <= clock
  BY <1>1, <1>11 DEF HeapCore, Counters
<1> QED BY <1>1, <1>5, <1>9, <1>11, <1>13, <1>14, <1>15, <1>16, MoveKeeps DEF PCs

-------------------------------------------------------------------------------------
(* Requests arrive.                                                                         *)
LEMMA ShownEntries ==
  ASSUME NEW s \in Slice, NEW field, Fits(arrays, s, field)
  PROVE  /\ Shown(s) \in Seq(EntriesIn(field)) /\ Len(Shown(s)) = s.len
         /\ \A i \in 1..s.len : Shown(s)[i] = arrays[s.array][i] /\ Shown(s)[i] \in EntriesIn(field)
<1>1. s.len \in Nat
  BY DEF Slice
<1>2. CASE s.len = 0
  <2>1. Shown(s) = <<>>
    BY <1>2 DEF Shown
  <2> QED BY <1>2, <2>1
<1>3. CASE s.len # 0
  <2> DEFINE x == arrays[s.array]
             S == EntriesIn(field)
  <2>1. x \in Seq(S) /\ s.len <= Len(x) /\ Shown(s) = SubSeq(x, 1, s.len)
    BY <1>3 DEF Fits, Shown
  <2>2. Len(x) \in Nat /\ \A i \in 1..Len(x) : x[i] \in S
    BY <2>1
  <2> HIDE DEF x, S
  <2>3. SubSeq(x, 1, s.len) = [i \in 1..s.len |-> x[i]]
    BY <1>1, <2>1, <2>2
  <2>4. [i \in 1..s.len |-> x[i]] \in [1..s.len -> S]
    BY <1>1, <2>1, <2>2
  <2> QED BY <1>1, <2>1, <2>3, <2>4 DEF x, S
<1> QED BY <1>2, <1>3

LEMMA RoomForOneMore ==
  ASSUME HeapCore, NEW p \in Goroutines, NEW l, NEW w,
         pc' = [pc EXCEPT ![p] = l], own' = [own EXCEPT ![p] = w],
         NeedsIDAt(l, w) => NeedsID, lastID' = lastID
  PROVE  lastID' + Cardinality(NeedIDs') <= MaxID
<1>1. CASE ~ NeedsIDAt(l, w)
  BY <1>1, NeedsNoMore
<1>2. CASE NeedsIDAt(l, w)
  <2>1. IsFiniteSet(Busy) /\ Cardinality(Busy) \in Nat
    BY RequestsAssumption, FS_Subset, FS_CardinalityType DEF Busy
  <2>2. IsFiniteSet(Busy \cup {p}) /\ Cardinality(Busy \cup {p}) <= Cardinality(Busy) + 1
    BY <2>1, FS_AddElement, SMTT(30)
  <2>3. ASSUME NEW q \in NeedIDs' PROVE q \in Busy \cup {p}
    BY <2>3 DEF NeedIDs, NeedsIDAt, Busy, HeapCore
  <2>4. NeedIDs' \in SUBSET (Busy \cup {p})
    BY <2>3
  <2>5. Cardinality(NeedIDs') <= Cardinality(Busy \cup {p}) /\ IsFiniteSet(NeedIDs')
    BY <2>2, <2>4, FS_Subset
  <2>6. /\ Cardinality(NeedIDs') \in Nat /\ Cardinality(Busy \cup {p}) \in Nat
        /\ lastID \in Nat /\ MaxID \in Nat
    BY <2>2, <2>5, FS_CardinalityType, RequestsAssumption DEF HeapCore, Counters
  <2>7. lastID + Cardinality(Busy) < MaxID
    BY <1>2 DEF NeedsID
  <2> QED BY <2>1, <2>2, <2>5, <2>6, <2>7
<1> QED BY <1>1, <1>2

LEMMA ArrivalKeeps ==
  ASSUME HeapCore, NEW p \in Goroutines, NEW id \in DOMAIN reviews, NEW w \in WorkType,
         NEW l \in PCs \ {"idle"},
         pc' = [pc EXCEPT ![p] = l], own' = [own EXCEPT ![p] = w],
         UNCHANGED <<reviews, arrays, lastID, clock, outcome>>,
         w.review.id = id, w.review.createdAt = reviews[id].createdAt,
         w.review.updatedAt = reviews[id].updatedAt,
         w.review.causes = reviews[id].causes, w.review.triggers = reviews[id].triggers,
         w.op # "form" => w.review.body \in ValidBodies,
         w.slice = reviews[id][Field(w.op)], w.entry \in EntriesIn(Field(w.op)),
         KnowsAt(l, w), NeedsIDAt(l, w) => NeedsID
  PROVE  HeapCore'
<1>1. StoredFits(arrays, reviews[id], id, clock)
  BY DEF HeapCore
<1>2. Carried /\ arrays' \in [1..MaxArrays -> Seq(BoundCause) \cup Seq(BoundTrigger)]
  BY SameArraysCarry DEF HeapCore
<1>3. RequestFits(reviews, arrays', l, w)
  <2>1. ReviewFits(arrays, reviews[id])
    BY <1>1 DEF StoredFits
  <2>2. ReviewFits(arrays', w.review)
    BY <2>1 DEF ReviewFits
  <2>3. Fits(arrays', w.slice, Field(w.op))
    BY <2>1, FieldOfOp DEF ReviewFits
  <2> QED BY <2>2, <2>3 DEF RequestFits
<1>4. Apart(reviews, own')
  <2>1. own'[p] = w /\ \A q \in Goroutines \ {p} : own'[q] = own[q]
    BY DEF HeapCore
  <2>2. ASSUME NEW id2 \in DOMAIN reviews, NEW field \in Fields, w.review.id = id2
        PROVE  /\ w.review[field].array \in ArraysOf(reviews, own, id2, field)
               /\ Field(w.op) = field => w.slice.array \in ArraysOf(reviews, own, id2, field)
    <3>1. w.review[field] = reviews[id2][field]
      BY <2>2 DEF Fields
    <3>2. Field(w.op) = field => w.slice = reviews[id2][field]
      BY <2>2
    <3> QED BY <3>1, <3>2, StoredArrays
  <2>3. \A id2 \in DOMAIN reviews, field \in Fields :
          ArraysOf(reviews', own', id2, field) \subseteq ArraysOf(reviews, own, id2, field)
    BY <2>1, <2>2, StoredArrays, TakesOnlyItsOwn
  <2> QED BY <2>3, StillApart DEF HeapCore
<1>5. lastID' + Cardinality(NeedIDs') <= MaxID
  BY RoomForOneMore
<1>6. /\ lastID' \in lastID..MaxID /\ outcome' \in {"none", "ok", "refused", "unexpected"}
      /\ w.review.updatedAt <= clock
  BY <1>1, RequestsAssumption DEF HeapCore, Counters, StoredFits
<1> QED BY <1>2, <1>3, <1>4, <1>5, <1>6, MoveKeeps

(* What a request starts with.                                                              *)
WorkOf(op, r, entry, s) ==
  [op |-> op, review |-> r, entry |-> entry, slice |-> s, i |-> 1, gap |-> 0, loaded |-> BlankCause]

LEMMA Started ==
  ASSUME NEW op, NEW r, NEW entry, NEW s
  PROVE  [NoWork EXCEPT !.op = op, !.review = r, !.entry = entry, !.slice = s, !.i = 1]
           = WorkOf(op, r, entry, s)
<1> DEFINE a == [NoWork EXCEPT !.op = op]
           b == [a EXCEPT !.review = r]
           c == [b EXCEPT !.entry = entry]
           d == [c EXCEPT !.slice = s]
<1>1. a = [op |-> op, review |-> NoReview, entry |-> BlankCause, slice |-> NilSlice,
           i |-> 0, gap |-> 0, loaded |-> BlankCause]
  BY DEF NoWork
<1> HIDE DEF a
<1>2. b = [op |-> op, review |-> r, entry |-> BlankCause, slice |-> NilSlice,
           i |-> 0, gap |-> 0, loaded |-> BlankCause]
  BY <1>1
<1> HIDE DEF b
<1>3. c = [op |-> op, review |-> r, entry |-> entry, slice |-> NilSlice,
           i |-> 0, gap |-> 0, loaded |-> BlankCause]
  BY <1>2
<1> HIDE DEF c
<1>4. d = [op |-> op, review |-> r, entry |-> entry, slice |-> s,
           i |-> 0, gap |-> 0, loaded |-> BlankCause]
  BY <1>3
<1> HIDE DEF d
<1>5. [d EXCEPT !.i = 1] = WorkOf(op, r, entry, s)
  BY <1>4 DEF WorkOf
<1> QED BY <1>5 DEF a, b, c, d

LEMMA StartedTyped ==
  ASSUME HeapCore, NEW id \in DOMAIN reviews, NEW op \in AllOps, NEW entry \in BoundCause \cup BoundTrigger
  PROVE  WorkOf(op, reviews[id], entry, reviews[id][Field(op)]) \in WorkType
<1>1. reviews[id] \in StoredReview
  BY DEF HeapCore
<1>2. reviews[id][Field(op)] \in Slice
  BY <1>1, FieldOfOp DEF StoredReview
<1>3. BlankCause \in BoundCause
  BY WhysAssumption DEF BlankCause, BoundCause, IDs, Nil
<1> QED BY <1>1, <1>2, <1>3 DEF WorkType, WorkOf

LEMMA ReceiveKeeps ==
  ASSUME HeapCore, NEW p \in Goroutines, NEW id \in DOMAIN reviews,
         NEW op, NEW entry, NEW label, Receive(p, id, op, entry, label),
         entry \in EntriesIn(Field(op)),
         \/ op \in Updates /\ label = "find"
         \/ op = "bind" /\ label = "load"
         \/ op = "bindTrigger" /\ label = "append",
         entry.id = Nil /\ op # "rebindTrigger" => NeedsID
  PROVE  HeapCore'
<1> DEFINE w == WorkOf(op, reviews[id], entry, reviews[id][Field(op)])
<1>1. op \in AllOps /\ op # "form"
  BY DEF AllOps, Updates
<1>2. entry \in BoundCause \cup BoundTrigger
  BY DEF EntriesIn
<1>3. w \in WorkType /\ own' = [own EXCEPT ![p] = w]
  <2>1. own' = [own EXCEPT ![p] =
                 [NoWork EXCEPT !.op = op, !.review = reviews[id], !.entry = entry,
                                !.slice = reviews[id][Field(op)], !.i = 1]]
    BY DEF Receive
  <2> QED BY <1>1, <1>2, <2>1, Started, StartedTyped, Zenon
<1>4. pc' = [pc EXCEPT ![p] = label] /\ UNCHANGED <<reviews, arrays, lastID, clock, outcome>>
  BY DEF Receive, Goto
<1>5. label \in PCs \ {"idle"}
  BY DEF PCs
<1>6. StoredFits(arrays, reviews[id], id, clock)
  BY DEF HeapCore
<1>7. /\ w.review = reviews[id] /\ w.op = op /\ w.entry = entry /\ w.slice = reviews[id][Field(op)]
      /\ w.i = 1 /\ reviews[id].id = id /\ reviews[id].body \in ValidBodies
  BY <1>6 DEF StoredFits, WorkOf
<1> HIDE DEF w
<1>8. KnowsAt(label, w)
  <2>1. reviews[id][Field(op)].len \in Nat /\ w.review[Field(op)] = w.slice
    <3>1. reviews[id] \in StoredReview
      BY <1>6 DEF StoredFits
    <3> QED BY <1>7, <3>1, FieldOfOp DEF StoredReview, Slice
  <2>2. w.i \in 1..w.slice.len + 1
    BY <1>7, <2>1
  <2> QED BY <1>7, <2>1, <2>2 DEF KnowsAt, Updates
<1>9. NeedsIDAt(label, w) => NeedsID
  BY <1>7 DEF NeedsIDAt
<1> QED BY <1>1, <1>3, <1>4, <1>5, <1>7, <1>8, <1>9, ArrivalKeeps

FormWorkOf(r, s) ==
  [op |-> "form", review |-> r, entry |-> BlankCause, slice |-> s, i |-> 0, gap |-> 0,
   loaded |-> BlankCause]

LEMMA FormStarted ==
  ASSUME NEW r, NEW s
  PROVE  [NoWork EXCEPT !.op = "form", !.review = r, !.slice = s] = FormWorkOf(r, s)
<1> DEFINE a == [NoWork EXCEPT !.op = "form"]
           b == [a EXCEPT !.review = r]
<1>1. a = [op |-> "form", review |-> NoReview, entry |-> BlankCause, slice |-> NilSlice,
           i |-> 0, gap |-> 0, loaded |-> BlankCause]
  BY DEF NoWork
<1> HIDE DEF a
<1>2. b = [op |-> "form", review |-> r, entry |-> BlankCause, slice |-> NilSlice,
           i |-> 0, gap |-> 0, loaded |-> BlankCause]
  BY <1>1
<1> HIDE DEF b
<1>3. [b EXCEPT !.slice = s] = FormWorkOf(r, s)
  BY <1>2 DEF FormWorkOf
<1> QED BY <1>3 DEF a, b

LEMMA FormKeeps ==
  ASSUME HeapCore, NEW p \in Goroutines, NEW id \in DOMAIN reviews, NEW body \in Bodies,
         Form(p, id, body)
  PROVE  HeapCore'
<1> DEFINE o == [NoReview EXCEPT !.body = body]
           r == Update(reviews[id], o)
           w == FormWorkOf(r, reviews[id].causes)
<1>1. own' = [own EXCEPT ![p] = w]
  <2>1. own' = [own EXCEPT ![p] =
                 [NoWork EXCEPT !.op = "form", !.review = r, !.slice = reviews[id].causes]]
    BY DEF Form
  <2> QED BY <2>1, FormStarted, Zenon
<1>2. pc' = [pc EXCEPT ![p] = "save"] /\ UNCHANGED <<reviews, arrays, lastID, clock, outcome>>
  BY DEF Form, Goto
<1>3. reviews[id] \in StoredReview /\ reviews[id].id = id
  BY DEF HeapCore, StoredFits
<1>4. o.body = body
  BY DEF NoReview
<1>5. /\ r \in StoredReview /\ r.id = id /\ r.createdAt = reviews[id].createdAt
      /\ r.updatedAt = reviews[id].updatedAt
      /\ r.causes = reviews[id].causes /\ r.triggers = reviews[id].triggers
  <2> HIDE DEF o
  <2> QED BY <1>3, <1>4 DEF Update, StoredReview
<1> HIDE DEF r
<1>6. BlankCause \in BoundCause
  BY WhysAssumption DEF BlankCause, BoundCause, IDs, Nil
<1>7. w \in WorkType
  <2>1. reviews[id].causes \in Slice
    BY <1>3 DEF StoredReview
  <2> QED BY <1>5, <1>6, <2>1 DEF FormWorkOf, WorkType, AllOps
<1>8. w.op = "form" /\ w.review = r /\ w.slice = reviews[id].causes /\ w.entry = BlankCause
  BY DEF FormWorkOf
<1> HIDE DEF w
<1>9. w.slice = reviews[id][Field(w.op)] /\ w.entry \in EntriesIn(Field(w.op))
  BY <1>6, <1>8 DEF Field, EntriesIn
<1>10. KnowsAt("save", w) /\ ~ NeedsIDAt("save", w)
  BY DEF KnowsAt, NeedsIDAt
<1> QED BY <1>1, <1>2, <1>5, <1>7, <1>8, <1>9, <1>10, ArrivalKeeps DEF PCs

(* The ids that users name are ids of entries that are shown.                               *)
LEMMA NamedEntries ==
  ASSUME HeapCore, NEW id \in DOMAIN reviews, NEW field \in Fields,
         NEW entry \in EntryIDs(reviews[id][field])
  PROVE  entry \in IDs
<1>1. reviews[id] \in StoredReview /\ ReviewFits(arrays, reviews[id])
  BY DEF HeapCore, StoredFits
<1>2. reviews[id][field] \in Slice /\ Fits(arrays, reviews[id][field], field)
  BY <1>1 DEF StoredReview, ReviewFits, Fields
<1>3. PICK i \in 1..reviews[id][field].len : entry = Shown(reviews[id][field])[i].id
  BY DEF EntryIDs
<1>4. Shown(reviews[id][field])[i] \in EntriesIn(field)
  BY <1>2, ShownEntries
<1> QED BY <1>3, <1>4 DEF EntriesIn, BoundCause, BoundTrigger

LEMMA RequestKeeps ==
  ASSUME HeapCore, NEW p \in Goroutines, Request(p)
  PROVE  HeapCore'
<1>1. PICK id \in DOMAIN reviews :
        \/ \E body \in Bodies : Form(p, id, body)
        \/ \E why \in Whys, proximal \in Marks : BindContributingCause(p, id, why, proximal)
        \/ \E why \in Whys, proximal \in Marks, entry \in EntryIDs(reviews[id].causes) :
             UpdateBoundContributingCause(p, id, entry, why, proximal)
        \/ \E why \in Whys : BindTrigger(p, id, why)
        \/ \E why \in Whys, entry \in EntryIDs(reviews[id].triggers) :
             UpdateBoundTrigger(p, id, entry, why)
  BY DEF Request
<1>2. SeedCause \in IDs /\ SeedTrigger \in IDs /\ Nil \in IDs
  BY DEF SeedCause, SeedTrigger, IDs, Nil
<1>3. ASSUME NEW entry \in IDs, NEW why \in Whys, NEW proximal \in Marks
      PROVE  [id |-> entry, cause |-> SeedCause, why |-> why, proximal |-> proximal] \in BoundCause
  BY <1>2, RequestsAssumption DEF BoundCause
<1>4. ASSUME NEW entry \in IDs, NEW why \in Whys
      PROVE  [id |-> entry, trigger |-> SeedTrigger, why |-> why] \in BoundTrigger
  BY <1>2 DEF BoundTrigger
<1>5. /\ EntriesIn(Field("bind")) = BoundCause /\ EntriesIn(Field("rebind")) = BoundCause
      /\ EntriesIn(Field("bindTrigger")) = BoundTrigger
      /\ EntriesIn(Field("rebindTrigger")) = BoundTrigger
  BY DEF EntriesIn, Field
<1>6. ASSUME NEW why \in Whys, NEW proximal \in Marks, BindContributingCause(p, id, why, proximal)
      PROVE  HeapCore'
  <2> DEFINE e == [id |-> Nil, cause |-> SeedCause, why |-> why, proximal |-> proximal]
  <2>1. e \in BoundCause /\ NeedsID /\ Receive(p, id, "bind", e, "load")
    BY <1>2, <1>3, <1>6 DEF BindContributingCause
  <2> HIDE DEF e
  <2> QED BY <1>5, <2>1, ReceiveKeeps
<1>7. ASSUME NEW why \in Whys, NEW proximal \in Marks, NEW entry \in EntryIDs(reviews[id].causes),
             UpdateBoundContributingCause(p, id, entry, why, proximal)
      PROVE  HeapCore'
  <2> DEFINE e == [id |-> entry, cause |-> SeedCause, why |-> why, proximal |-> proximal]
  <2>1. entry \in IDs
    BY NamedEntries DEF Fields
  <2>2. /\ e \in BoundCause /\ e.id = entry /\ (entry = Nil => NeedsID)
        /\ Receive(p, id, "rebind", e, "find")
    BY <1>3, <1>7, <2>1 DEF UpdateBoundContributingCause
  <2> HIDE DEF e
  <2> QED BY <1>5, <2>2, ReceiveKeeps DEF Updates
<1>8. ASSUME NEW why \in Whys, BindTrigger(p, id, why)
      PROVE  HeapCore'
  <2> DEFINE e == [id |-> Nil, trigger |-> SeedTrigger, why |-> why]
  <2>1. e \in BoundTrigger /\ NeedsID /\ Receive(p, id, "bindTrigger", e, "append")
    BY <1>2, <1>4, <1>8 DEF BindTrigger
  <2> HIDE DEF e
  <2> QED BY <1>5, <2>1, ReceiveKeeps
<1>9. ASSUME NEW why \in Whys, NEW entry \in EntryIDs(reviews[id].triggers),
             UpdateBoundTrigger(p, id, entry, why)
      PROVE  HeapCore'
  <2> DEFINE e == [id |-> entry, trigger |-> SeedTrigger, why |-> why]
  <2>1. entry \in IDs
    BY NamedEntries DEF Fields
  <2>2. e \in BoundTrigger /\ Receive(p, id, "rebindTrigger", e, "find")
    BY <1>4, <1>9, <2>1 DEF UpdateBoundTrigger
  <2> HIDE DEF e
  <2> QED BY <1>5, <2>2, ReceiveKeeps DEF Updates
<1> QED BY <1>1, <1>6, <1>7, <1>8, <1>9, FormKeeps

-------------------------------------------------------------------------------------
(* A review is created.                                                                     *)
EmptyReview(id, body) == [NewReview(id, body) EXCEPT !.causes = NilSlice, !.triggers = NilSlice]

Created(id, body, now) ==
  [id |-> id, body |-> body, causes |-> NilSlice, triggers |-> NilSlice,
   createdAt |-> now, updatedAt |-> now]

LEMMA CreatedReview ==
  ASSUME NEW id, NEW body, NEW now
  PROVE  /\ EmptyReview(id, body).id = id /\ EmptyReview(id, body).body = body
         /\ UpdateTimestamps(EmptyReview(id, body), now) = Created(id, body, now)
<1> DEFINE a == [NewReview(id, body) EXCEPT !.causes = NilSlice]
           b == [a EXCEPT !.triggers = NilSlice]
           c == [b EXCEPT !.createdAt = IF @ = ZeroTime THEN now ELSE @]
           d == [c EXCEPT !.updatedAt = now]
<1>1. a = [id |-> id, body |-> body, causes |-> NilSlice, triggers |-> <<>>,
           createdAt |-> ZeroTime, updatedAt |-> ZeroTime]
  BY DEF NewReview
<1> HIDE DEF a
<1>2. b = [id |-> id, body |-> body, causes |-> NilSlice, triggers |-> NilSlice,
           createdAt |-> ZeroTime, updatedAt |-> ZeroTime]
  BY <1>1
<1> HIDE DEF b
<1>3. c = [id |-> id, body |-> body, causes |-> NilSlice, triggers |-> NilSlice,
           createdAt |-> now, updatedAt |-> ZeroTime]
  BY <1>2
<1> HIDE DEF c
<1>4. d = [id |-> id, body |-> body, causes |-> NilSlice, triggers |-> NilSlice,
           createdAt |-> now, updatedAt |-> now]
  BY <1>3
<1>5. UpdateTimestamps(b, now) = d
  BY DEF UpdateTimestamps, c
<1>6. b.id = id /\ b.body = body
  BY <1>2
<1> HIDE DEF d
<1> HIDE DEF c
<1>7. b = EmptyReview(id, body)
  BY DEF a, b, EmptyReview
<1> HIDE DEF b
<1> QED BY <1>4, <1>5, <1>6, <1>7 DEF Created

(* Nobody works on a review that is not stored yet.                                           *)
LEMMA NobodyKnows ==
  ASSUME HeapCore, NEW q \in Goroutines
  PROVE  own[q].review.id # lastID + 1
<1>1. RequestFits(reviews, arrays, pc[q], own[q]) /\ lastID \in 2..MaxID
      /\ DOMAIN reviews \subseteq 3..lastID
  BY DEF HeapCore, Counters
<1>2. CASE own[q] = NoWork
  BY <1>1, <1>2 DEF NoWork, NoReview, Nil
<1>3. CASE own[q] # NoWork
  <2>1. own[q].review.id \in 3..lastID
    BY <1>1, <1>3 DEF RequestFits
  <2> QED BY <1>1, <2>1
<1> QED BY <1>2, <1>3

LEMMA BusyRoom ==
  ASSUME HeapCore, lastID + Cardinality(Busy) < MaxID
  PROVE  lastID + 1 + Cardinality(NeedIDs) <= MaxID
<1>1. IsFiniteSet(Busy)
  BY RequestsAssumption, FS_Subset DEF Busy
<1>2. NeedIDs \in SUBSET Busy
  BY DEF NeedIDs, NeedsIDAt, Busy
<1>3. /\ Cardinality(NeedIDs) <= Cardinality(Busy)
      /\ Cardinality(NeedIDs) \in Nat /\ Cardinality(Busy) \in Nat
  BY <1>1, <1>2, FS_Subset, FS_CardinalityType
<1> QED BY <1>3, RequestsAssumption DEF HeapCore, Counters

LEMMA CreateAdds ==
  ASSUME HeapCore, NEW body \in Bodies, Create(body)
  PROVE  /\ body \in ValidBodies /\ lastID + 1 \notin DOMAIN reviews
         /\ reviews' = [x \in DOMAIN reviews \cup {lastID + 1} |->
                          IF x = lastID + 1 THEN Created(lastID + 1, body, clock) ELSE reviews[x]]
         /\ \A x \in DOMAIN reviews : reviews'[x] = reviews[x]
<1> DEFINE id == lastID + 1
           new == Created(id, body, clock)
           r == EmptyReview(id, body)
<1>1. r.id = id /\ r.body = body /\ UpdateTimestamps(r, clock) = new
  BY CreatedReview
<1>2. /\ Validates(r)
      /\ reviews' = [x \in DOMAIN reviews \cup {r.id} |->
                       IF x = r.id THEN UpdateTimestamps(r, clock) ELSE reviews[x]]
  BY DEF Create, EmptyReview
<1> HIDE DEF r, new
<1>3. /\ reviews' = [x \in DOMAIN reviews \cup {id} |-> IF x = id THEN new ELSE reviews[x]]
      /\ body \in ValidBodies
  BY <1>1, <1>2 DEF Validates
<1>4. id \notin DOMAIN reviews
  BY DEF HeapCore, Counters
<1>5. \A x \in DOMAIN reviews : reviews'[x] = reviews[x]
  BY <1>3, <1>4
<1> QED BY <1>3, <1>4, <1>5 DEF new

LEMMA CreateKeeps ==
  ASSUME HeapCore, NEW body \in Bodies, Create(body)
  PROVE  HeapCore'
<1> DEFINE id == lastID + 1
           new == Created(id, body, clock)
<1>1. /\ lastID + Cardinality(Busy) < MaxID /\ Cardinality(DOMAIN reviews) < MaxReviews
      /\ lastID' = id /\ outcome' = "ok" /\ UNCHANGED <<arrays, pc, own, clock>>
  BY DEF Create
<1>2. /\ reviews' = [x \in DOMAIN reviews \cup {id} |-> IF x = id THEN new ELSE reviews[x]]
      /\ body \in ValidBodies
  BY CreateAdds
<1>3. /\ lastID \in Nat /\ lastID >= 2 /\ clock \in Nat /\ clock >= 1
      /\ DOMAIN reviews \subseteq 3..lastID /\ id \notin DOMAIN reviews /\ id \in Nat
  BY DEF HeapCore, Counters
<1>4. new \in StoredReview /\ StoredFits(arrays, new, id, clock)
  <2>1. NilSlice \in Slice
    BY ArraysAssumption DEF NilSlice, Slice
  <2>2. Fits(arrays, NilSlice, "causes") /\ Fits(arrays, NilSlice, "triggers")
    BY DEF Fits, NilSlice
  <2>3. new \in StoredReview
    BY <1>3, <2>1 DEF Created, StoredReview, IDs, Times
  <2> QED BY <1>2, <1>3, <2>2, <2>3 DEF Created, StoredFits, ReviewFits, ZeroTime
<1>5. new["causes"] = NilSlice /\ new["triggers"] = NilSlice
  BY DEF Created
<1> HIDE DEF new
<1>6. /\ DOMAIN reviews' = DOMAIN reviews \cup {id} /\ reviews'[id] = new
      /\ \A x \in DOMAIN reviews : reviews'[x] = reviews[x]
  BY <1>2, <1>3
<1>7. Carried
  BY <1>1, SameArraysCarry
<1>8. reviews' \in [DOMAIN reviews' -> StoredReview] /\ DOMAIN reviews' \subseteq 3..lastID'
  <2>1. DOMAIN reviews' \subseteq 3..lastID'
    BY <1>1, <1>3, <1>6
  <2>2. \A x \in DOMAIN reviews : reviews[x] \in StoredReview
    BY DEF HeapCore
  <2> QED BY <1>2, <1>4, <1>6, <2>1, <2>2
<1>9. Cardinality(DOMAIN reviews') <= MaxReviews
  <2>1. 3..lastID \in SUBSET Nat /\ IsFiniteSet(3..lastID)
    BY <1>3, FS_Interval
  <2>2. IsFiniteSet(DOMAIN reviews)
    BY <1>3, <2>1, FS_Subset
  <2>3. Cardinality(DOMAIN reviews') = Cardinality(DOMAIN reviews) + 1
    BY <1>3, <1>6, <2>2, FS_AddElement
  <2>4. Cardinality(DOMAIN reviews) \in Nat
    BY <2>2, FS_CardinalityType
  <2> QED BY <1>1, <2>3, <2>4, RequestsAssumption
<1>10. ASSUME NEW x \in DOMAIN reviews'
       PROVE  StoredFits(arrays', reviews'[x], x, clock')
  <2>1. CASE x = id
    BY <1>1, <1>4, <1>6, <2>1
  <2>2. CASE x # id
    <3>1. x \in DOMAIN reviews /\ clock' \in Nat /\ clock' >= clock
      BY <1>1, <1>3, <1>6, <2>2
    <3> QED BY <1>6, <1>7, <3>1, StoredStillFits
  <2> QED BY <2>1, <2>2
<1>11. ASSUME NEW q \in Goroutines
       PROVE  RequestFits(reviews', arrays', pc'[q], own'[q]) /\ own'[q].review.updatedAt <= clock'
  <2>1. own[q].review.updatedAt <= clock
    BY DEF HeapCore
  <2> QED BY <1>1, <1>6, <1>7, <2>1, OthersFit
<1>12. Apart(reviews', own')
  <2>1. ASSUME NEW f \in Fields PROVE ArraysOf(reviews', own', id, f) \subseteq {0}
    <3>1. new[f].array = 0
      BY <1>5 DEF Fields, NilSlice
    <3>2. {p \in Goroutines : own[p].review.id = id} = {}
      BY NobodyKnows
    <3> QED BY <1>1, <1>6, <3>1, <3>2 DEF ArraysOf
  <2>2. ASSUME NEW x \in DOMAIN reviews, NEW f \in Fields
        PROVE  ArraysOf(reviews', own', x, f) = ArraysOf(reviews, own, x, f)
    BY <1>1, <1>6 DEF ArraysOf
  <2>3. ASSUME NEW id1 \in DOMAIN reviews', NEW id2 \in DOMAIN reviews',
               NEW f1 \in Fields, NEW f2 \in Fields, ~ (id1 = id2 /\ f1 = f2)
        PROVE  ArraysOf(reviews', own', id1, f1) \cap ArraysOf(reviews', own', id2, f2) \subseteq {0}
    <3>1. CASE id1 = id \/ id2 = id
      BY <2>1, <3>1
    <3>2. CASE id1 # id /\ id2 # id
      <4>1. id1 \in DOMAIN reviews /\ id2 \in DOMAIN reviews
        BY <1>6, <3>2
      <4>2. ArraysOf(reviews, own, id1, f1) \cap ArraysOf(reviews, own, id2, f2) \subseteq {0}
        BY <2>3, <4>1 DEF HeapCore, Apart
      <4> QED BY <2>2, <4>1, <4>2
    <3> QED BY <3>1, <3>2
  <2> QED BY <2>3 DEF Apart
<1>13. lastID' + Cardinality(NeedIDs') <= MaxID
  <2>1. NeedIDs' = NeedIDs
    BY <1>1 DEF NeedIDs
  <2> QED BY <1>1, <2>1, BusyRoom
<1>14. Counters'
  <2>1. Cardinality(Busy) \in Nat
    BY RequestsAssumption, FS_Subset, FS_CardinalityType DEF Busy
  <2>2. lastID' \in 2..MaxID
    BY <1>1, <1>3, <2>1, RequestsAssumption
  <2> QED BY <1>1, <2>2 DEF HeapCore, Counters
<1>15. /\ arrays' \in [1..MaxArrays -> Seq(BoundCause) \cup Seq(BoundTrigger)]
       /\ pc' \in [Goroutines -> PCs] /\ own' \in [Goroutines -> WorkType \cup {NoWork}]
  BY <1>1 DEF HeapCore
<1> QED BY <1>8, <1>9, <1>10, <1>11, <1>12, <1>13, <1>14, <1>15 DEF HeapCore

-------------------------------------------------------------------------------------
(* A request stamps its copy, with the list it worked on.                                   *)
LEMMA ResultReview ==
  ASSUME NEW w \in WorkType
  PROVE  /\ Result(w) \in StoredReview /\ Result(w).id = w.review.id
         /\ Result(w).createdAt = w.review.createdAt
         /\ \A f \in Fields :
              Result(w)[f] = w.review[f] \/ (f = Field(w.op) /\ Result(w)[f] = w.slice)
<1>1. w.review \in StoredReview /\ w.slice \in Slice
  BY DEF WorkType
<1> DEFINE r == w.review
           s == w.slice
<1> HIDE DEF r, s
<1>2. CASE w.op = "form"
  <2>1. Result(w) = r
    BY <1>2 DEF Result, r
  <2> QED BY <1>1, <2>1 DEF r
<1>3. CASE w.op # "form" /\ Field(w.op) = "causes"
  <2>1. Result(w) = [r EXCEPT !["causes"] = s]
    BY <1>3 DEF Result, r, s
  <2>2. r \in StoredReview /\ s \in Slice
    BY <1>1 DEF r, s
  <2>3. /\ [r EXCEPT !["causes"] = s] \in StoredReview
        /\ [r EXCEPT !["causes"] = s].id = r.id
        /\ [r EXCEPT !["causes"] = s].createdAt = r.createdAt
        /\ [r EXCEPT !["causes"] = s].causes = s
        /\ [r EXCEPT !["causes"] = s].triggers = r.triggers
    BY <2>2 DEF StoredReview
  <2> QED BY <1>3, <2>1, <2>3 DEF r, s, Fields
<1>4. CASE w.op # "form" /\ Field(w.op) = "triggers"
  <2>1. Result(w) = [r EXCEPT !["triggers"] = s]
    BY <1>4 DEF Result, r, s
  <2>2. r \in StoredReview /\ s \in Slice
    BY <1>1 DEF r, s
  <2>3. /\ [r EXCEPT !["triggers"] = s] \in StoredReview
        /\ [r EXCEPT !["triggers"] = s].id = r.id
        /\ [r EXCEPT !["triggers"] = s].createdAt = r.createdAt
        /\ [r EXCEPT !["triggers"] = s].causes = r.causes
        /\ [r EXCEPT !["triggers"] = s].triggers = s
    BY <2>2 DEF StoredReview
  <2> QED BY <1>4, <2>1, <2>3 DEF r, s, Fields
<1> QED BY <1>2, <1>3, <1>4, FieldOfOp

LEMMA StampedReview ==
  ASSUME NEW r \in StoredReview, NEW now \in Times, r.createdAt # ZeroTime
  PROVE  /\ UpdateTimestamps(r, now) \in StoredReview
         /\ UpdateTimestamps(r, now).id = r.id /\ UpdateTimestamps(r, now).body = r.body
         /\ UpdateTimestamps(r, now).createdAt = r.createdAt
         /\ UpdateTimestamps(r, now).updatedAt = now
         /\ \A f \in Fields : UpdateTimestamps(r, now)[f] = r[f]
BY DEF UpdateTimestamps, StoredReview, Fields

(* The copy of a request that has its stamp.                                                 *)
LEMMA StampsCopy ==
  ASSUME HeapCore, NEW p \in Goroutines, Save(p), Validates(Result(own[p]))
  PROVE  \E u \in StoredReview :
           LET w == own[p]
               new == [w EXCEPT !.review = u]
           IN
           /\ own' = [own EXCEPT ![p] = new] /\ pc' = [pc EXCEPT ![p] = "write"]
           /\ UNCHANGED <<reviews, lastID, clock, outcome>> /\ arrays' = Swept(arrays)
           /\ new \in WorkType /\ new.review = u
           /\ new.op = w.op /\ new.slice = w.slice /\ new.entry = w.entry
           /\ u.id = w.review.id /\ u.createdAt = w.review.createdAt
           /\ u.body \in ValidBodies /\ u.updatedAt = clock
           /\ \A f \in Fields : u[f] = w.review[f] \/ (f = Field(w.op) /\ u[f] = w.slice)
<1> DEFINE w == own[p]
           r == Result(w)
           u == UpdateTimestamps(r, clock)
           new == [w EXCEPT !.review = u]
<1>1. /\ pc[p] = "save" /\ pc[p] # "idle"
      /\ own' = [own EXCEPT ![p].review = u] /\ pc' = [pc EXCEPT ![p] = "write"]
      /\ UNCHANGED <<reviews, lastID, clock, outcome>> /\ arrays' = Swept(arrays)
      /\ r.body \in ValidBodies
  BY DEF Save, Refuse, Validates, Goto
<1> HIDE DEF r, u
<1>2. w \in WorkType /\ w.review.id \in DOMAIN reviews
      /\ w.review.createdAt = reviews[w.review.id].createdAt
  BY <1>1 DEF HeapCore, RequestFits
<1>3. /\ r \in StoredReview /\ r.id = w.review.id /\ r.createdAt = w.review.createdAt
      /\ \A f \in Fields : r[f] = w.review[f] \/ (f = Field(w.op) /\ r[f] = w.slice)
  BY <1>2, ResultReview DEF r
<1>4. clock \in Times /\ r.createdAt # ZeroTime
  <2>1. /\ StoredFits(arrays, reviews[w.review.id], w.review.id, clock) /\ clock \in Nat
        /\ reviews[w.review.id].createdAt \in Nat /\ ZeroTime < reviews[w.review.id].createdAt
    BY <1>2 DEF HeapCore, Counters, StoredFits, StoredReview, Times
  <2> QED BY <1>2, <1>3, <2>1 DEF ZeroTime, Times
<1>5. /\ u \in StoredReview /\ u.id = w.review.id /\ u.createdAt = w.review.createdAt
      /\ u.body \in ValidBodies /\ u.updatedAt = clock
      /\ \A f \in Fields : u[f] = w.review[f] \/ (f = Field(w.op) /\ u[f] = w.slice)
  BY <1>1, <1>3, <1>4, StampedReview DEF u
<1>6. /\ new \in WorkType /\ new.review = u
      /\ new.op = w.op /\ new.slice = w.slice /\ new.entry = w.entry
  BY <1>2, <1>5 DEF WorkType
<1>7. own' = [own EXCEPT ![p] = new]
  BY <1>1
<1> QED BY <1>1, <1>5, <1>6, <1>7

LEMMA SaveKeeps ==
  ASSUME HeapCore, NEW p \in Goroutines, Save(p)
  PROVE  HeapCore'
<1>1. CASE ~ Validates(Result(own[p]))
  <2>1. Refuse(p)
    BY <1>1 DEF Save
  <2> QED BY <2>1, EndKeeps DEF Refuse
<1>2. CASE Validates(Result(own[p]))
  <2> DEFINE w == own[p]
             id == w.review.id
  <2>1. PICK u \in StoredReview :
           LET new == [w EXCEPT !.review = u] IN
           /\ own' = [own EXCEPT ![p] = new] /\ pc' = [pc EXCEPT ![p] = "write"]
           /\ UNCHANGED <<reviews, lastID, clock, outcome>> /\ arrays' = Swept(arrays)
           /\ new \in WorkType /\ new.review = u
           /\ new.op = w.op /\ new.slice = w.slice /\ new.entry = w.entry
           /\ u.id = w.review.id /\ u.createdAt = w.review.createdAt
           /\ u.body \in ValidBodies /\ u.updatedAt = clock
           /\ \A f \in Fields : u[f] = w.review[f] \/ (f = Field(w.op) /\ u[f] = w.slice)
    BY <1>2, StampsCopy
  <2> DEFINE new == [w EXCEPT !.review = u]
  <2>2. /\ own' = [own EXCEPT ![p] = new] /\ pc' = [pc EXCEPT ![p] = "write"]
        /\ UNCHANGED <<reviews, lastID, clock, outcome>> /\ arrays' = Swept(arrays)
        /\ new \in WorkType /\ new.review = u
        /\ new.op = w.op /\ new.slice = w.slice /\ new.entry = w.entry
    BY <2>1
  <2> HIDE DEF new
  <2>3. /\ pc[p] = "save" /\ pc[p] # "idle" /\ RequestFits(reviews, arrays, pc[p], w)
        /\ id \in DOMAIN reviews /\ w.review.createdAt = reviews[id].createdAt
        /\ ReviewFits(arrays, w.review) /\ Fits(arrays, w.slice, Field(w.op))
        /\ w.entry \in EntriesIn(Field(w.op)) /\ Field(w.op) \in Fields
    BY FieldOfOp DEF Save, HeapCore, RequestFits
  <2>4. Carried /\ arrays' \in [1..MaxArrays -> Seq(BoundCause) \cup Seq(BoundTrigger)]
    BY <2>2, SweptCarries
  <2>5. own'[p] = new /\ \A q \in Goroutines \ {p} : own'[q] = own[q]
    BY <2>2 DEF HeapCore
  <2>6. ASSUME NEW f \in Fields
        PROVE  /\ u[f].array \in ArraysOf(reviews, own, id, f)
               /\ Field(w.op) = f => w.slice.array \in ArraysOf(reviews, own, id, f)
    BY <2>1, OwnArrays
  <2>7. ASSUME NEW f \in Fields, NEW a, NEW s, s.array = a, Fits(arrays, s, f),
               a \in ArraysOf(reviews, own, id, f), a \in ArraysOf(reviews', own', id, f)
        PROVE  Fits(arrays', s, f)
    BY <2>3, <2>4, <2>7, FitsCarried DEF Carried
  <2>8. ASSUME NEW f \in Fields
        PROVE  /\ u[f].array \in ArraysOf(reviews', own', id, f)
               /\ Field(w.op) = f => w.slice.array \in ArraysOf(reviews', own', id, f)
    <3>1. own'[p].review = u /\ u.id = id /\ own'[p].slice = w.slice /\ own'[p].op = w.op
      BY <2>1, <2>2, <2>5
    <3> QED BY <3>1, OwnArrays
  <2>9. Fits(arrays', new.slice, Field(new.op))
    BY <2>2, <2>3, <2>6, <2>7, <2>8
  <2>10. ASSUME NEW f \in Fields PROVE Fits(arrays', u[f], f)
    <3>1. Fits(arrays, u[f], f)
      BY <2>1, <2>3 DEF ReviewFits, Fields
    <3> QED BY <2>6, <2>7, <2>8, <3>1
  <2>11. RequestFits(reviews, arrays', "write", new)
    <3>1. ReviewFits(arrays', new.review)
      BY <2>2, <2>10 DEF ReviewFits, Fields
    <3>2. KnowsAt("write", new)
      BY <2>1, <2>2 DEF KnowsAt
    <3> QED BY <2>1, <2>2, <2>3, <2>9, <3>1, <3>2 DEF RequestFits, PCs
  <2>12. Apart(reviews, own')
    <3>1. ASSUME NEW x \in DOMAIN reviews, NEW f \in Fields
          PROVE  ArraysOf(reviews, own', x, f) \subseteq ArraysOf(reviews, own, x, f)
      <4>1. own'[p].review.id = x =>
              /\ own'[p].review[f].array \in ArraysOf(reviews, own, x, f)
              /\ Field(own'[p].op) = f => own'[p].slice.array \in ArraysOf(reviews, own, x, f)
        BY <2>1, <2>2, <2>5, <2>6
      <4>2. ArraysOf(reviews', own', x, f) \subseteq ArraysOf(reviews, own, x, f)
        BY <2>2, <2>5, <4>1, StoredArrays, TakesOnlyItsOwn
      <4> QED BY <2>2, <4>2
    <3>2. Apart(reviews', own')
      BY <2>2, <3>1, StillApart DEF HeapCore
    <3> QED BY <2>2, <3>2
  <2>13. lastID' + Cardinality(NeedIDs') <= MaxID
    <3>1. ~ NeedsIDAt("write", new)
      BY DEF NeedsIDAt
    <3> QED BY <2>2, <3>1, NeedsNoMore
  <2>14. /\ lastID' \in lastID..MaxID /\ outcome' \in {"none", "ok", "refused", "unexpected"}
         /\ new.review.updatedAt <= clock
    BY <2>1, <2>2, RequestsAssumption DEF HeapCore, Counters
  <2> QED BY <2>2, <2>4, <2>11, <2>12, <2>13, <2>14, MoveKeeps DEF PCs
<1> QED BY <1>1, <1>2

(* One slot of the map is written, with the copy of the request.                             *)
LEMMA WriteWrites ==
  ASSUME HeapCore, NEW p \in Goroutines, Write(p)
  PROVE  LET id == own[p].review.id IN
         /\ id \in DOMAIN reviews /\ DOMAIN reviews' = DOMAIN reviews
         /\ reviews'[id] = own[p].review
         /\ reviews'[id] \in StoredReview /\ reviews'[id].id = id
         /\ reviews'[id].body \in ValidBodies
         /\ reviews'[id].createdAt = reviews[id].createdAt /\ reviews'[id].updatedAt <= clock
         /\ \A x \in DOMAIN reviews \ {id} : reviews'[x] = reviews[x]
         /\ reviews' \in [DOMAIN reviews' -> StoredReview]
<1> DEFINE w == own[p]
           id == w.review.id
           u == w.review
<1>1. pc[p] = "write" /\ pc[p] # "idle" /\ reviews' = [reviews EXCEPT ![id] = u]
  BY DEF Write
<1>2. /\ w \in WorkType /\ id \in DOMAIN reviews /\ u.createdAt = reviews[id].createdAt
      /\ u.body \in ValidBodies /\ u.updatedAt <= clock
  BY <1>1 DEF HeapCore, RequestFits, KnowsAt
<1>3. u \in StoredReview
  BY <1>2 DEF WorkType
<1> HIDE DEF u
<1>4. /\ DOMAIN reviews' = DOMAIN reviews /\ reviews'[id] = u
      /\ \A x \in DOMAIN reviews \ {id} : reviews'[x] = reviews[x]
      /\ reviews' \in [DOMAIN reviews' -> StoredReview]
  BY <1>1, <1>2, <1>3 DEF HeapCore
<1> QED BY <1>2, <1>3, <1>4 DEF u

LEMMA WriteKeeps ==
  ASSUME HeapCore, NEW p \in Goroutines, Write(p)
  PROVE  HeapCore'
<1> DEFINE w == own[p]
           id == w.review.id
           u == reviews'[id]
<1>1. /\ pc[p] = "write" /\ arrays' = Swept(arrays) /\ UNCHANGED <<lastID, clock>>
      /\ \/ /\ pc' = [pc EXCEPT ![p] = "answer"] /\ UNCHANGED <<own, outcome>>
         \/ /\ pc' = [pc EXCEPT ![p] = "idle"] /\ own' = [own EXCEPT ![p] = NoWork]
            /\ outcome' = "ok"
  BY DEF Write, Goto, Done
<1>2. /\ w \in WorkType /\ RequestFits(reviews, arrays, pc[p], w)
      /\ w.review.createdAt = reviews[id].createdAt
      /\ ReviewFits(arrays, w.review) /\ Fits(arrays, w.slice, Field(w.op))
  BY <1>1 DEF HeapCore, RequestFits
<1>3. /\ id \in DOMAIN reviews /\ DOMAIN reviews' = DOMAIN reviews
      /\ u \in StoredReview /\ u.id = id /\ u.body \in ValidBodies
      /\ u.createdAt = reviews[id].createdAt /\ u.updatedAt <= clock
      /\ u = w.review
      /\ \A x \in DOMAIN reviews \ {id} : reviews'[x] = reviews[x]
      /\ reviews' \in [DOMAIN reviews' -> StoredReview]
  BY WriteWrites
<1>4. /\ clock \in Nat /\ reviews[id].createdAt \in Nat /\ ZeroTime < reviews[id].createdAt
  BY <1>3 DEF HeapCore, Counters, StoredFits, StoredReview, Times
<1>5. Carried /\ arrays' \in [1..MaxArrays -> Seq(BoundCause) \cup Seq(BoundTrigger)]
  BY <1>1, <1>3, SweptCarries
<1> HIDE DEF u
<1>6. ASSUME NEW f \in Fields
      PROVE  u[f].array \in ArraysOf(reviews, own, id, f)
  BY <1>3, OwnArrays
<1>7. ASSUME NEW f \in Fields
      PROVE  Fits(arrays', u[f], f)
  <2>1. Fits(arrays, u[f], f)
    BY <1>2, <1>3 DEF ReviewFits, Fields
  <2>2. u[f].array \in ArraysOf(reviews', own', id, f)
    BY StoredArrays DEF u
  <2> QED BY <1>3, <1>5, <1>6, <2>1, <2>2, FitsCarried DEF Carried
<1>8. StoredFits(arrays', u, id, clock')
  BY <1>1, <1>3, <1>4, <1>7 DEF StoredFits, ReviewFits, Fields
<1>9. ASSUME NEW x \in DOMAIN reviews'
      PROVE  StoredFits(arrays', reviews'[x], x, clock')
  <2>1. CASE x = id
    BY <1>8, <2>1 DEF u
  <2>2. CASE x # id
    <3>1. x \in DOMAIN reviews /\ clock' \in Nat /\ clock' >= clock /\ reviews'[x] = reviews[x]
      BY <1>1, <1>3, <1>4, <2>2
    <3> QED BY <1>5, <3>1, StoredStillFits
  <2> QED BY <2>1, <2>2
<1>10. \A x \in DOMAIN reviews :
         x \in DOMAIN reviews' /\ reviews'[x].createdAt = reviews[x].createdAt
  BY <1>3 DEF u
<1>11. PICK l \in {"answer", "idle"}, v \in {w, NoWork} :
         /\ pc' = [pc EXCEPT ![p] = l] /\ own' = [own EXCEPT ![p] = v]
         /\ \/ l = "answer" /\ v = w /\ UNCHANGED outcome
            \/ l = "idle" /\ v = NoWork /\ outcome' = "ok"
  <2>1. own = [own EXCEPT ![p] = w]
    BY DEF HeapCore
  <2>2. CASE pc' = [pc EXCEPT ![p] = "answer"] /\ UNCHANGED <<own, outcome>>
    BY <2>1, <2>2
  <2>3. CASE /\ pc' = [pc EXCEPT ![p] = "idle"] /\ own' = [own EXCEPT ![p] = NoWork]
             /\ outcome' = "ok"
    BY <2>3
  <2> QED BY <1>1, <2>2, <2>3
<1>12. /\ pc'[p] = l /\ own'[p] = v
       /\ \A q \in Goroutines \ {p} : pc'[q] = pc[q] /\ own'[q] = own[q]
       /\ pc' \in [Goroutines -> PCs] /\ own' \in [Goroutines -> WorkType \cup {NoWork}]
  BY <1>2, <1>11 DEF HeapCore, PCs
<1>13. RequestFits(reviews', arrays', l, v)
  <2>1. CASE l = "idle"
    BY <1>11, <2>1 DEF RequestFits
  <2>2. CASE l = "answer" /\ v = w
    <3>1. ReviewFits(arrays', w.review) /\ Fits(arrays', w.slice, Field(w.op))
      BY <1>1, <1>5, <1>12, <2>2, CopyStillFits
    <3>2. w.review.createdAt = reviews'[id].createdAt /\ id \in DOMAIN reviews'
      BY <1>2, <1>3, <1>10
    <3>3. KnowsAt("answer", w)
      BY DEF KnowsAt
    <3> QED BY <1>1, <1>2, <2>2, <3>1, <3>2, <3>3 DEF RequestFits, PCs
  <2> QED BY <1>11, <2>1, <2>2
<1>14. ASSUME NEW q \in Goroutines
       PROVE  RequestFits(reviews', arrays', pc'[q], own'[q]) /\ own'[q].review.updatedAt <= clock'
  <2>1. CASE q = p
    <3>1. v.review.updatedAt <= clock
      BY <1>4, <1>11 DEF HeapCore, NoWork, NoReview, ZeroTime
    <3> QED BY <1>1, <1>12, <1>13, <2>1, <3>1
  <2>2. CASE q # p
    <3>1. pc'[q] = pc[q] /\ own'[q] = own[q] /\ own[q].review.updatedAt <= clock
      BY <1>12, <2>2 DEF HeapCore
    <3> QED BY <1>1, <1>5, <1>10, <3>1, OthersFit
  <2> QED BY <2>1, <2>2
<1>15. Apart(reviews', own')
  <2>1. ASSUME NEW x \in DOMAIN reviews, NEW f \in Fields
        PROVE  ArraysOf(reviews', own', x, f) \subseteq ArraysOf(reviews, own, x, f)
    <3>1. reviews'[x][f].array \in ArraysOf(reviews, own, x, f)
      BY <1>3, <1>6, StoredArrays DEF u
    <3>2. ASSUME own'[p].review.id = x
          PROVE  /\ own'[p].review[f].array \in ArraysOf(reviews, own, x, f)
                 /\ Field(own'[p].op) = f => own'[p].slice.array \in ArraysOf(reviews, own, x, f)
      <4>1. CASE v = NoWork
        BY <1>12, <3>2, <4>1 DEF HeapCore, Counters, NoWork, NoReview, Nil
      <4>2. CASE v = w
        <5>1. own'[p] = own[p] /\ own[p].review.id = x
          BY <1>12, <3>2, <4>2
        <5>2. /\ own[p].review[f].array \in ArraysOf(reviews, own, own[p].review.id, f)
              /\ Field(own[p].op) = f =>
                   own[p].slice.array \in ArraysOf(reviews, own, own[p].review.id, f)
          BY OwnArrays
        <5> QED BY <5>1, <5>2
      <4> QED BY <4>1, <4>2
    <3> QED BY <1>12, <3>1, <3>2, TakesOnlyItsOwn
  <2> QED BY <1>3, <2>1, StillApart DEF HeapCore
<1>16. lastID' + Cardinality(NeedIDs') <= MaxID
  <2>1. ~ NeedsIDAt(l, v)
    BY DEF NeedsIDAt
  <2> QED BY <1>1, <1>11, <2>1, NeedsNoMore
<1>17. Counters'
  BY <1>1, <1>11 DEF HeapCore, Counters
<1>18. DOMAIN reviews' \subseteq 3..lastID' /\ Cardinality(DOMAIN reviews') <= MaxReviews
  BY <1>1, <1>3 DEF HeapCore
<1> QED BY <1>3, <1>5, <1>9, <1>12, <1>14, <1>15, <1>16, <1>17, <1>18 DEF HeapCore

LEMMA AnswerKeeps ==
  ASSUME HeapCore, NEW p \in Goroutines, Answer(p)
  PROVE  HeapCore'
<1>1. PICK o \in {"ok", "unexpected"} : Done(p, o)
  BY DEF Answer, AnswerTo
<1> QED BY <1>1, EndKeeps DEF Answer

LEMMA StampedBefore ==
  ASSUME HeapCore, NEW q \in Goroutines
  PROVE  own[q].review.updatedAt \in Nat /\ own[q].review.updatedAt <= clock
<1>1. CASE own[q] \in WorkType
  BY <1>1 DEF HeapCore, WorkType, StoredReview, Times
<1>2. CASE own[q] = NoWork
  BY <1>2 DEF HeapCore, NoWork, NoReview, ZeroTime
<1> QED BY <1>1, <1>2 DEF HeapCore

LEMMA TickKeeps ==
  ASSUME HeapCore, Tick
  PROVE  HeapCore'
<1>1. clock' = clock + 1 /\ clock < MaxClock /\ UNCHANGED <<reviews, arrays, pc, own, lastID, outcome>>
  BY DEF Tick
<1>2. clock' \in Nat /\ clock' >= clock /\ Counters'
  BY <1>1, RequestsAssumption DEF HeapCore, Counters
<1>3. Carried
  BY <1>1, SameArraysCarry
<1>4. \A id \in DOMAIN reviews : StoredFits(arrays', reviews'[id], id, clock')
  BY <1>1, <1>2, <1>3, StoredStillFits
<1>5. Apart(reviews', own') /\ NeedIDs' = NeedIDs
  BY <1>1 DEF HeapCore, NeedIDs
<1>6. ASSUME NEW q \in Goroutines PROVE own'[q].review.updatedAt <= clock'
  <2>1. own[q].review.updatedAt \in Nat /\ own[q].review.updatedAt <= clock
    BY StampedBefore
  <2>2. clock \in Nat
    BY DEF HeapCore, Counters
  <2> QED BY <1>1, <2>1, <2>2
<1> QED BY <1>1, <1>2, <1>4, <1>5, <1>6 DEF HeapCore

LEMMA StutterKeeps ==
  ASSUME HeapCore, UNCHANGED vars
  PROVE  HeapCore'
<1>1. UNCHANGED <<reviews, arrays, pc, own, lastID, clock, outcome>>
  BY DEF vars
<1>2. Counters' /\ NeedIDs' = NeedIDs
  BY <1>1 DEF HeapCore, Counters, NeedIDs
<1> QED BY <1>1, <1>2 DEF HeapCore

LEMMA AppendKeeps ==
  ASSUME HeapCore, NEW p \in Goroutines, AppendEntry(p)
  PROVE  HeapCore'
<1>1. own[p].slice.len < Cap(own[p].slice) \/ own[p].slice.len = Cap(own[p].slice)
  BY DEF AppendEntry
<1> QED BY <1>1, AppendInPlaceKeeps, AppendGrowsKeeps

LEMMA StepKeeps ==
  ASSUME HeapCore, [Next]_vars
  PROVE  HeapCore'
<1>1. ASSUME NEW p \in Goroutines, Work(p)
      PROVE  HeapCore'
  BY <1>1, FindKeeps, ShiftKeeps, LoadKeeps, StoreKeeps, AppendKeeps, SaveKeeps, WriteKeeps,
     AnswerKeeps DEF Work
<1> QED BY <1>1, CreateKeeps, RequestKeeps, TickKeeps, StutterKeeps DEF Next

LEMMA StartsCore ==
  ASSUME Init
  PROVE  HeapCore
<1>1. /\ reviews = <<>> /\ arrays = [a \in 1..MaxArrays |-> <<>>]
      /\ pc = [p \in Goroutines |-> "idle"] /\ own = [p \in Goroutines |-> NoWork]
      /\ lastID = 2 /\ clock = 1 /\ outcome = "none"
  BY DEF Init
<1>2. DOMAIN reviews = {}
  BY <1>1
<1>3. Counters
  BY <1>1, RequestsAssumption DEF Counters
<1>4. Cardinality(DOMAIN reviews) <= MaxReviews
  BY <1>2, FS_EmptySet, RequestsAssumption
<1>5. NeedIDs = {}
  BY <1>1 DEF NeedIDs, NeedsIDAt
<1>6. lastID + Cardinality(NeedIDs) <= MaxID
  BY <1>1, <1>5, FS_EmptySet, RequestsAssumption
<1>7. arrays \in [1..MaxArrays -> Seq(BoundCause) \cup Seq(BoundTrigger)]
  BY <1>1
<1>8. /\ pc \in [Goroutines -> PCs] /\ own \in [Goroutines -> WorkType \cup {NoWork}]
      /\ \A p \in Goroutines : RequestFits(reviews, arrays, pc[p], own[p])
      /\ \A p \in Goroutines : own[p].review.updatedAt <= clock
  BY <1>1 DEF PCs, RequestFits, NoWork, NoReview, ZeroTime
<1>9. reviews \in [DOMAIN reviews -> StoredReview]
  BY <1>2, <1>1
<1> QED BY <1>2, <1>3, <1>4, <1>6, <1>7, <1>8, <1>9 DEF HeapCore, Apart

LEMMA CoreTyped ==
  ASSUME HeapCore
  PROVE  TypeOK
<1>1. ASSUME NEW id \in DOMAIN reviews
      PROVE  /\ Shows(id) \in ReviewType
             /\ reviews[id].causes \in Slice /\ reviews[id].triggers \in Slice
             /\ reviews[id].causes.len <= Cap(reviews[id].causes)
             /\ reviews[id].triggers.len <= Cap(reviews[id].triggers)
  <2> DEFINE r == reviews[id]
             cs == Shown(r.causes)
             ts == Shown(r.triggers)
  <2>1. r \in StoredReview /\ Fits(arrays, r.causes, "causes") /\ Fits(arrays, r.triggers, "triggers")
    BY DEF HeapCore, StoredFits, ReviewFits
  <2>2. r.causes \in Slice /\ r.triggers \in Slice
    BY <2>1 DEF StoredReview
  <2>3. r.causes.len <= Cap(r.causes) /\ r.triggers.len <= Cap(r.triggers)
    BY <2>1, <2>2 DEF Fits, Cap, Slice
  <2>4. cs \in Seq(BoundCause) /\ ts \in Seq(BoundTrigger)
    BY <2>1, <2>2, ShownEntries DEF EntriesIn
  <2> HIDE DEF cs, ts
  <2>5. [r EXCEPT !.causes = cs, !.triggers = ts] \in ReviewType
    BY <2>1, <2>4 DEF StoredReview, ReviewType
  <2> QED BY <2>2, <2>3, <2>5 DEF Shows, View, cs, ts
<1>2. ASSUME NEW p \in Goroutines
      PROVE  /\ own[p].slice \in Slice /\ own[p].slice.len <= Cap(own[p].slice)
             /\ pc[p] = "idle" <=> own[p] = NoWork
  <2>1. RequestFits(reviews, arrays, pc[p], own[p])
    BY DEF HeapCore
  <2>2. CASE pc[p] = "idle"
    <3>1. own[p] = NoWork
      BY <2>1, <2>2 DEF RequestFits
    <3>2. own[p].slice = NilSlice
      BY <3>1 DEF NoWork
    <3> QED BY <2>2, <3>1, <3>2, ArraysAssumption DEF NilSlice, Slice, Cap
  <2>3. CASE pc[p] # "idle"
    <3>1. own[p].slice \in Slice /\ own[p].op \in AllOps /\ Fits(arrays, own[p].slice, Field(own[p].op))
      BY <2>3, AtWork
    <3>2. own[p] # NoWork
      BY <3>1 DEF NoWork, AllOps
    <3> QED BY <2>3, <3>1, <3>2 DEF Fits, Cap, Slice
  <2> QED BY <2>2, <2>3
<1> QED BY <1>1, <1>2 DEF HeapCore, TypeOK

(* However requests race, no slice reaches beyond its array, no array serves two reviews or   *)
(* both lists of one, no stored review becomes invalid, and every request works on a review    *)
(* that is stored (internal/reviewing/review.go, storage/memory.go).                         *)
THEOREM HeapHolds == Spec => []HeapInv
<1>1. Init => HeapCore
  BY StartsCore
<1>2. HeapCore /\ [Next]_vars => HeapCore'
  BY StepKeeps
<1>3. HeapCore => HeapInv
  BY CoreTyped DEF HeapInv
<1> QED BY <1>1, <1>2, <1>3, PTL DEF Spec

-------------------------------------------------------------------------------------
(* What a step does to the reviews it is not about.                                         *)
Untouched(id) ==
  \A f \in Fields :
    \A a \in ArraysOf(reviews, own, id, f) \cap ArraysOf(reviews', own', id, f) :
      a # 0 => arrays'[a] = arrays[a]

LEMMA SweptUntouched ==
  ASSUME HeapCore, DOMAIN reviews' = DOMAIN reviews, arrays' = Swept(arrays), NEW id \in DOMAIN reviews
  PROVE  Untouched(id)
<1> SUFFICES ASSUME NEW f \in Fields, NEW a \in ArraysOf(reviews, own, id, f),
                    a \in ArraysOf(reviews', own', id, f), a # 0
             PROVE  arrays'[a] = arrays[a]
  BY DEF Untouched
<1>1. a \in 1..MaxArrays
  BY PointedArrays, ArraysAssumption
<1>2. a \in Live'
  BY PointedArraysAfter
<1> QED BY <1>1, <1>2 DEF Swept

(* A goroutine writes to the array of its slice alone, which no other review has.             *)
LEMMA OthersUntouched ==
  ASSUME HeapCore, NEW p \in Goroutines, pc[p] # "idle",
         \A a \in 1..MaxArrays \ {own[p].slice.array} : arrays'[a] = arrays[a],
         NEW id \in DOMAIN reviews, own[p].review.id # id
  PROVE  Untouched(id)
<1> SUFFICES ASSUME NEW f \in Fields, NEW a \in ArraysOf(reviews, own, id, f), a # 0
             PROVE  arrays'[a] = arrays[a]
  BY DEF Untouched
<1>1. a \in 1..MaxArrays
  BY PointedArrays, ArraysAssumption
<1>2. own[p].review.id \in DOMAIN reviews
  BY AtWork
<1>3. /\ Field(own[p].op) \in Fields
      /\ own[p].slice.array \in ArraysOf(reviews, own, own[p].review.id, Field(own[p].op))
  BY OwnArrays, FieldOfOp
<1>4. a # own[p].slice.array
  BY <1>2, <1>3 DEF HeapCore, Apart
<1> QED BY <1>1, <1>4

LEMMA NewArrayUntouched ==
  ASSUME HeapCore, NEW a, a \notin Live,
         \A b \in 1..MaxArrays \ {a} : arrays'[b] = arrays[b], NEW id \in DOMAIN reviews
  PROVE  Untouched(id)
<1> SUFFICES ASSUME NEW f \in Fields, NEW b \in ArraysOf(reviews, own, id, f), b # 0
             PROVE  arrays'[b] = arrays[b]
  BY DEF Untouched
<1>1. b \in 1..MaxArrays /\ b \in Live
  BY PointedArrays, ArraysAssumption
<1> QED BY <1>1

LEMMA SameUntouched ==
  ASSUME UNCHANGED arrays, NEW id
  PROVE  Untouched(id)
BY DEF Untouched

(* Every step of a goroutine at work shows in its place or in its variables.                 *)
LEMMA WorkMoves ==
  ASSUME HeapCore, NEW p \in Goroutines, Work(p)
  PROVE  pc'[p] # pc[p] \/ own'[p] # own[p]
<1>1. pc[p] # "idle"
  BY DEF Work, Find, Shift, Load, Store, AppendEntry, Save, Write, Answer
<1>2. pc \in [Goroutines -> PCs] /\ own \in [Goroutines -> WorkType \cup {NoWork}]
  BY DEF HeapCore
<1>3. own[p] \in WorkType /\ own[p].i \in Nat
  BY <1>1, AtWork
<1>4. ASSUME NEW l, l # pc[p], Goto(p, l)
      PROVE  pc'[p] # pc[p]
  BY <1>2, <1>4 DEF Goto
<1>5. ASSUME own'[p].i = own[p].i + 1
      PROVE  own'[p] # own[p]
  BY <1>3, <1>5
<1>6. CASE Find(p)
  <2>1. CASE Refuse(p)
    BY <1>1, <1>4, <2>1 DEF Refuse, Done
  <2>2. CASE own' = [own EXCEPT ![p].i = @ + 1]
    BY <1>2, <1>3, <1>5, <2>2 DEF WorkType
  <2>3. CASE pc[p] = "find" /\ Goto(p, "shift")
    BY <1>4, <2>3
  <2> QED BY <1>6, <2>1, <2>2, <2>3 DEF Find
<1>7. CASE Shift(p)
  <2>1. CASE own' = [own EXCEPT ![p].gap = @ + 1, ![p].i = @ + 1]
    BY <1>2, <1>3, <1>5, <2>1 DEF WorkType
  <2>2. CASE own' = [own EXCEPT ![p].i = @ + 1]
    BY <1>2, <1>3, <1>5, <2>2 DEF WorkType
  <2>3. CASE pc[p] = "shift" /\ (Goto(p, "load") \/ Goto(p, "append"))
    BY <1>4, <2>3
  <2>4. CASE Goto(p, IF Field(own[p].op) = "causes" THEN "load" ELSE "append")
    <3>1. Goto(p, "load") \/ Goto(p, "append")
      BY <2>4
    <3> QED BY <1>7, <2>3, <3>1 DEF Shift
  <2> QED BY <1>7, <2>1, <2>2, <2>4 DEF Shift
<1>8. CASE Load(p)
  <2>1. CASE Refuse(p)
    BY <1>1, <1>4, <2>1 DEF Refuse, Done
  <2>2. CASE pc[p] = "load" /\ (Goto(p, "append") \/ Goto(p, "store"))
    BY <1>4, <2>2
  <2> QED BY <1>8, <2>1, <2>2 DEF Load
<1>9. CASE Store(p)
  BY <1>4, <1>9 DEF Store
<1>10. CASE AppendEntry(p)
  BY <1>4, <1>10 DEF AppendEntry
<1>11. CASE Save(p)
  <2>1. CASE Refuse(p)
    BY <1>1, <1>4, <2>1 DEF Refuse, Done
  <2>2. CASE pc[p] = "save" /\ Goto(p, "write")
    BY <1>4, <2>2
  <2> QED BY <1>11, <2>1, <2>2 DEF Save
<1>12. CASE Write(p)
  BY <1>4, <1>12 DEF Write, Done
<1>13. CASE Answer(p)
  BY <1>1, <1>4, <1>13 DEF Answer, Done
<1> QED BY <1>6, <1>7, <1>8, <1>9, <1>10, <1>11, <1>12, <1>13 DEF Work

LEMMA WorkStaysAtHome ==
  ASSUME HeapCore, NEW p \in Goroutines, Work(p), NEW id \in DOMAIN reviews, own[p].review.id # id
  PROVE  reviews'[id] = reviews[id] /\ Untouched(id)
<1>1. pc[p] # "idle"
  BY DEF Work, Find, Shift, Load, Store, AppendEntry, Save, Write, Answer
<1>2. DOMAIN arrays = 1..MaxArrays
  BY DEF HeapCore
<1>3. CASE Refuse(p)
  BY <1>3, SweptUntouched DEF Refuse
<1>4. CASE UNCHANGED <<reviews, arrays>>
  BY <1>4, SameUntouched
<1>5. ASSUME UNCHANGED reviews, NEW x, arrays' = [arrays EXCEPT ![own[p].slice.array] = x]
      PROVE  reviews'[id] = reviews[id] /\ Untouched(id)
  BY <1>1, <1>2, <1>5, OthersUntouched
<1>6. ASSUME UNCHANGED reviews, NEW i, NEW e, arrays' = Written(own[p].slice, i, e)
      PROVE  reviews'[id] = reviews[id] /\ Untouched(id)
  BY <1>1, <1>2, <1>6, OthersUntouched DEF Written
<1>7. CASE Find(p)
  BY <1>3, <1>4, <1>7 DEF Find
<1>8. CASE Shift(p)
  <2>1. UNCHANGED reviews
    BY <1>8 DEF Shift
  <2>2. CASE UNCHANGED arrays
    BY <1>4, <2>1, <2>2
  <2>3. CASE arrays' = Written(own[p].slice, own[p].gap, Elem(own[p].slice, own[p].i))
    BY <1>6, <2>1, <2>3
  <2>4. CASE \E x : arrays' = [arrays EXCEPT ![own[p].slice.array] = x]
    BY <1>5, <2>1, <2>4
  <2> QED BY <1>8, <2>2, <2>3, <2>4 DEF Shift
<1>9. CASE Load(p)
  BY <1>3, <1>4, <1>9 DEF Load
<1>10. CASE Store(p)
  BY <1>6, <1>10 DEF Store
<1>11. CASE AppendEntry(p)
  <2>1. UNCHANGED reviews /\ pc[p] = "append"
    BY <1>11 DEF AppendEntry
  <2>2. CASE \E i, e : arrays' = Written(own[p].slice, i, e)
    BY <1>6, <2>1, <2>2
  <2>3. CASE \E x : arrays' = [arrays EXCEPT ![CHOOSE a \in 1..MaxArrays : a \notin Live] = x]
    <3> DEFINE a == CHOOSE a \in 1..MaxArrays : a \notin Live
    <3>1. a \notin Live
      BY <2>1, FreeArray
    <3>2. PICK x : arrays' = [arrays EXCEPT ![a] = x]
      BY <2>3
    <3> HIDE DEF a
    <3>3. \A b \in 1..MaxArrays \ {a} : arrays'[b] = arrays[b]
      BY <1>2, <3>2
    <3> QED BY <2>1, <3>1, <3>3, NewArrayUntouched
  <2> QED BY <1>11, <2>2, <2>3 DEF AppendEntry
<1>12. CASE Save(p)
  <2>1. arrays' = Swept(arrays) /\ UNCHANGED reviews
    BY <1>12 DEF Save, Refuse
  <2> QED BY <2>1, SweptUntouched
<1>13. CASE Write(p)
  <2>1. DOMAIN reviews' = DOMAIN reviews /\ reviews'[id] = reviews[id]
    BY <1>13, WriteWrites
  <2>2. arrays' = Swept(arrays)
    BY <1>13 DEF Write
  <2> QED BY <2>1, <2>2, SweptUntouched
<1>14. CASE Answer(p)
  BY <1>14, SweptUntouched DEF Answer
<1> QED BY <1>7, <1>8, <1>9, <1>10, <1>11, <1>12, <1>13, <1>14 DEF Work

LEMMA StaysUnlessNamed ==
  ASSUME HeapCore, Next, NEW id \in DOMAIN reviews, ~ StepFor(id)
  PROVE  reviews'[id] = reviews[id] /\ Untouched(id)
<1>1. ASSUME NEW p \in Goroutines, Work(p)
      PROVE  reviews'[id] = reviews[id] /\ Untouched(id)
  <2>1. own[p].review.id # id
    BY <1>1, WorkMoves DEF StepFor
  <2> QED BY <1>1, <2>1, WorkStaysAtHome
<1>2. ASSUME NEW p \in Goroutines, Request(p)
      PROVE  UNCHANGED <<reviews, arrays>>
  BY <1>2 DEF Request, Form, BindContributingCause, UpdateBoundContributingCause, BindTrigger,
              UpdateBoundTrigger, Receive
<1>3. ASSUME NEW body \in Bodies, Create(body)
      PROVE  reviews'[id] = reviews[id] /\ UNCHANGED arrays
  BY <1>3, CreateAdds DEF Create
<1> QED BY <1>1, <1>2, <1>3, SameUntouched DEF Next, Tick

(* What a slice shows when nobody touched its array.                                          *)
LEMMA ShowsTheSame ==
  ASSUME HeapCore, NEW id \in DOMAIN reviews, NEW f \in Fields, NEW s, Fits(arrays, s, f), Untouched(id),
         s.array \in ArraysOf(reviews, own, id, f), s.array \in ArraysOf(reviews', own', id, f)
  PROVE  (IF s.len = 0 THEN <<>> ELSE SubSeq(arrays'[s.array], 1, s.len)) = Shown(s)
<1>1. CASE s.len = 0
  BY <1>1 DEF Shown
<1>2. CASE s.len # 0
  <2>1. s.array # 0
    BY <1>2 DEF Fits
  <2>2. arrays'[s.array] = arrays[s.array]
    BY <2>1 DEF Untouched
  <2> QED BY <1>2, <2>2 DEF Shown
<1> QED BY <1>1, <1>2

LEMMA ReviewStays ==
  ASSUME HeapCore, NEW id \in DOMAIN reviews, reviews'[id] = reviews[id], Untouched(id)
  PROVE  Shows(id)' = Shows(id)
<1> DEFINE r == reviews[id]
<1>1. Fits(arrays, r.causes, "causes") /\ Fits(arrays, r.triggers, "triggers")
  BY DEF HeapCore, StoredFits, ReviewFits
<1>2. ASSUME NEW f \in Fields
      PROVE  r[f].array \in ArraysOf(reviews, own, id, f) /\ r[f].array \in ArraysOf(reviews', own', id, f)
  BY StoredArrays
<1>3. Shown(reviews[id].causes)' = Shown(reviews[id].causes)
  <2>1. (IF r.causes.len = 0 THEN <<>> ELSE SubSeq(arrays'[r.causes.array], 1, r.causes.len)) = Shown(r.causes)
    BY <1>1, <1>2, ShowsTheSame DEF Fields
  <2> QED BY <2>1 DEF Shown
<1>4. Shown(reviews[id].triggers)' = Shown(reviews[id].triggers)
  <2>1. (IF r.triggers.len = 0 THEN <<>> ELSE SubSeq(arrays'[r.triggers.array], 1, r.triggers.len)) = Shown(r.triggers)
    BY <1>1, <1>2, ShowsTheSame DEF Fields
  <2> QED BY <2>1 DEF Shown
<1> QED BY <1>3, <1>4 DEF Shows, View

LEMMA CopyStays ==
  ASSUME HeapCore, NEW p \in Busy, own'[p] = own[p], Untouched(own[p].review.id)
  PROVE  Shown(own[p].slice)' = Shown(own[p].slice)
<1> DEFINE w == own[p]
           s == own[p].slice
<1>1. /\ p \in Goroutines /\ w.review.id \in DOMAIN reviews /\ Fits(arrays, s, Field(w.op))
      /\ Field(w.op) \in Fields
  BY AtWork, FieldOfOp DEF Busy
<1>2. s.array \in ArraysOf(reviews, own, w.review.id, Field(w.op))
  BY <1>1, OwnArrays
<1>3. s.array \in ArraysOf(reviews', own', w.review.id, Field(w.op))
  BY <1>1, OwnArrays
<1>4. (IF s.len = 0 THEN <<>> ELSE SubSeq(arrays'[s.array], 1, s.len)) = Shown(s)
  BY <1>1, <1>2, <1>3, ShowsTheSame
<1> QED BY <1>4 DEF Shown

(* Requests for different reviews do not disturb each other: a review, and a copy of it, only  *)
(* ever changes by a step of a request that names that review.                                  *)
THEOREM ReviewsIsolated == Spec => ReviewsAreIsolated
<1> DEFINE Isolated ==
      /\ \A id \in DOMAIN reviews : Shows(id)' # Shows(id) => StepFor(id)
      /\ \A p \in Busy :
           own'[p] = own[p] /\ Shown(own[p].slice)' # Shown(own[p].slice) =>
             StepFor(own[p].review.id)
<1>1. HeapInv /\ [Next]_vars => [Isolated]_vars
  <2> SUFFICES ASSUME HeapCore, Next PROVE Isolated
    BY DEF HeapInv
  <2>1. ASSUME NEW id \in DOMAIN reviews, ~ StepFor(id) PROVE Shows(id)' = Shows(id)
    BY <2>1, StaysUnlessNamed, ReviewStays
  <2>2. ASSUME NEW p \in Busy, own'[p] = own[p], ~ StepFor(own[p].review.id)
        PROVE  Shown(own[p].slice)' = Shown(own[p].slice)
    <3>1. own[p].review.id \in DOMAIN reviews
      BY AtWork DEF Busy
    <3> QED BY <2>2, <3>1, StaysUnlessNamed, CopyStays
  <2> QED BY <2>1, <2>2
<1> QED BY <1>1, HeapHolds, PTL DEF Spec, ReviewsAreIsolated

-------------------------------------------------------------------------------------
(* What a request does when it moves is seen by itself alone.                                   *)
LEMMA OthersStand ==
  ASSUME HeapCore, NEW q \in Goroutines, Work(q) \/ Request(q), NEW p \in Goroutines, p # q
  PROVE  pc'[p] = pc[p] /\ own'[p] = own[p]
<1>1. p \in DOMAIN pc /\ p \in DOMAIN own
  BY DEF HeapCore
<1>2. ASSUME NEW l, Goto(q, l)
      PROVE  pc'[p] = pc[p]
  BY <1>1, <1>2 DEF Goto
<1>3. ASSUME NEW v, own' = [own EXCEPT ![q] = v]
      PROVE  own'[p] = own[p]
  BY <1>1, <1>3
<1>4. ASSUME NEW o, Done(q, o)
      PROVE  pc'[p] = pc[p] /\ own'[p] = own[p]
  BY <1>2, <1>3, <1>4 DEF Done
<1>5. CASE Find(q)
  <2>1. \/ UNCHANGED pc /\ own' = [own EXCEPT ![q].i = @ + 1]
        \/ Goto(q, "shift") /\ own' = [own EXCEPT ![q].gap = own[q].i, ![q].i = @ + 1]
        \/ Done(q, "refused")
    BY <1>5 DEF Find, Refuse
  <2> QED BY <1>1, <1>2, <1>4, <2>1
<1>6. CASE Shift(q)
  <2>1. \/ UNCHANGED pc /\ own' = [own EXCEPT ![q].gap = @ + 1, ![q].i = @ + 1]
        \/ UNCHANGED pc /\ own' = [own EXCEPT ![q].i = @ + 1]
        \/ /\ Goto(q, IF Field(own[q].op) = "causes" THEN "load" ELSE "append")
           /\ own' = [own EXCEPT ![q].slice.len = own[q].gap - 1, ![q].i = 1, ![q].gap = 0]
    BY <1>6 DEF Shift
  <2> QED BY <1>1, <1>2, <2>1
<1>7. CASE Load(q)
  <2>1. \/ Goto(q, "append") /\ UNCHANGED own
        \/ /\ Goto(q, "store")
           /\ own' = [own EXCEPT ![q].loaded = Elem(own[q].slice, own[q].i)]
        \/ Done(q, "refused")
    BY <1>7 DEF Load, Refuse
  <2> QED BY <1>1, <1>2, <1>4, <2>1
<1>8. CASE Store(q)
  <2>1. Goto(q, "load") /\ own' = [own EXCEPT ![q].i = @ + 1, ![q].loaded = BlankCause]
    BY <1>8 DEF Store
  <2> QED BY <1>1, <1>2, <2>1
<1>9. CASE AppendEntry(q)
  <2>1. /\ Goto(q, "save")
        /\ \/ own' = [own EXCEPT ![q].slice.len = @ + 1, ![q].i = 0]
           \/ \E v : own' = [own EXCEPT ![q].slice = v, ![q].i = 0]
    BY <1>9 DEF AppendEntry
  <2> QED BY <1>1, <1>2, <2>1
<1>10. CASE Save(q)
  <2>1. \/ /\ Goto(q, "write")
           /\ own' = [own EXCEPT ![q].review = UpdateTimestamps(Result(own[q]), clock)]
        \/ Done(q, "refused")
    BY <1>10 DEF Save, Refuse
  <2> QED BY <1>1, <1>2, <1>4, <2>1
<1>11. CASE Write(q)
  <2>1. (Goto(q, "answer") /\ UNCHANGED own) \/ Done(q, "ok")
    BY <1>11 DEF Write
  <2> QED BY <1>2, <1>4, <2>1
<1>12. CASE Answer(q)
  BY <1>4, <1>12 DEF Answer
<1>13. CASE Request(q)
  <2>1. (\E v : own' = [own EXCEPT ![q] = v]) /\ (\E l : Goto(q, l))
    <3>1. \A id, body : Form(q, id, body) =>
            (\E v : own' = [own EXCEPT ![q] = v]) /\ (\E l : Goto(q, l))
      BY DEF Form
    <3>2. \A id, op, entry, label : Receive(q, id, op, entry, label) =>
            (\E v : own' = [own EXCEPT ![q] = v]) /\ (\E l : Goto(q, l))
      BY DEF Receive
    <3> QED BY <1>13, <3>1, <3>2 DEF Request, BindContributingCause, UpdateBoundContributingCause,
                                     BindTrigger, UpdateBoundTrigger
  <2> QED BY <1>2, <1>3, <2>1
<1> QED BY <1>5, <1>6, <1>7, <1>8, <1>9, <1>10, <1>11, <1>12, <1>13 DEF Work

(* Only the write of its own request changes a stored review.                                   *)
LEMMA OnlyWrites ==
  ASSUME HeapCore, Next, NEW id \in DOMAIN reviews
  PROVE  \/ reviews'[id] = reviews[id]
         \/ \E p \in Goroutines : Write(p) /\ own[p].review.id = id
<1>1. ASSUME NEW p \in Goroutines, Work(p)
      PROVE  \/ UNCHANGED reviews
             \/ Write(p) /\ (own[p].review.id = id \/ reviews'[id] = reviews[id])
  <2>1. CASE Write(p)
    BY <2>1, WriteWrites
  <2>2. CASE ~ Write(p)
    BY <1>1, <2>2 DEF Work, Find, Shift, Load, Store, AppendEntry, Save, Answer, Refuse
  <2> QED BY <2>1, <2>2
<1>2. ASSUME NEW p \in Goroutines, Request(p)
      PROVE  UNCHANGED reviews
  BY <1>2 DEF Request, Form, BindContributingCause, UpdateBoundContributingCause, BindTrigger,
              UpdateBoundTrigger, Receive
<1>3. ASSUME NEW body \in Bodies, Create(body)
      PROVE  reviews'[id] = reviews[id]
  BY <1>3, CreateAdds
<1> QED BY <1>1, <1>2, <1>3 DEF Next, Tick

(* A request comes to its write with the stamp it was given just then.                          *)
LEMMA ComesToWrite ==
  ASSUME HeapCore, NEW p \in Goroutines, Work(p) \/ Request(p), pc'[p] = "write"
  PROVE  own'[p].review.updatedAt = clock /\ own'[p].review.id \in DOMAIN reviews
<1>1. pc \in [Goroutines -> PCs] /\ own \in [Goroutines -> WorkType \cup {NoWork}]
  BY DEF HeapCore
<1>2. \A l : Goto(p, l) => l = "write"
  BY <1>1 DEF Goto
<1>3. ~ Request(p)
  BY <1>2 DEF Request, Form, BindContributingCause, UpdateBoundContributingCause, BindTrigger,
              UpdateBoundTrigger, Receive
<1>4. ~ Find(p) /\ ~ Load(p) /\ ~ Store(p) /\ ~ AppendEntry(p) /\ ~ Write(p) /\ ~ Answer(p)
  <2>1. \A o : ~ Done(p, o)
    BY <1>2 DEF Done
  <2> QED BY <1>1, <1>2, <2>1 DEF Find, Load, Store, AppendEntry, Write, Answer, Refuse
<1>5. ~ Shift(p)
  BY <1>1, <1>2 DEF Shift
<1>6. Save(p)
  BY <1>3, <1>4, <1>5 DEF Work
<1>7. CASE ~ Validates(Result(own[p]))
  BY <1>2, <1>6, <1>7 DEF Save, Refuse, Done
<1>8. CASE Validates(Result(own[p]))
  <2>1. PICK u \in StoredReview :
          LET new == [own[p] EXCEPT !.review = u] IN
          /\ own' = [own EXCEPT ![p] = new] /\ new.review = u
          /\ u.id = own[p].review.id /\ u.updatedAt = clock
    BY <1>6, <1>8, StampsCopy
  <2> DEFINE new == [own[p] EXCEPT !.review = u]
  <2>2. own' = [own EXCEPT ![p] = new] /\ new.review = u
    BY <2>1
  <2> HIDE DEF new
  <2>3. own'[p].review = u
    BY <1>1, <2>2
  <2>4. own[p].review.id \in DOMAIN reviews
    BY <1>6, AtWork DEF Save
  <2> QED BY <2>1, <2>3, <2>4
<1> QED BY <1>7, <1>8

(* A review keeps the time of its creation and bears the stamp of a request that wrote it, and   *)
(* a stamp is no earlier than any that is stored when it is made (Review.UpdateTimestamps,       *)
(* Service.Save, MemoryStore.Save).  That the times of a review never go back is not said: a     *)
(* request may write after one that was stamped later.                                          *)
THEOREM FreshStamps == Spec => StampsAreFresh
<1> DEFINE Fresh ==
      /\ \A id \in DOMAIN reviews :
           /\ reviews'[id].createdAt = reviews[id].createdAt
           /\ reviews'[id].updatedAt # reviews[id].updatedAt =>
                \E p \in Goroutines :
                  pc[p] = "write" /\ own[p].review.id = id /\ reviews'[id] = own[p].review
      /\ \A p \in Goroutines : pc'[p] = "write" =>
           \/ pc[p] = "write" /\ own'[p] = own[p]
           \/ own'[p].review.updatedAt >= reviews[own'[p].review.id].updatedAt
<1>1. HeapInv /\ [Next]_vars => [Fresh]_vars
  <2> SUFFICES ASSUME HeapCore, Next PROVE Fresh
    BY DEF HeapInv
  <2>1. ASSUME NEW id \in DOMAIN reviews
        PROVE  /\ reviews'[id].createdAt = reviews[id].createdAt
               /\ reviews'[id].updatedAt # reviews[id].updatedAt =>
                    \E p \in Goroutines :
                      pc[p] = "write" /\ own[p].review.id = id /\ reviews'[id] = own[p].review
    <3>1. CASE reviews'[id] = reviews[id]
      BY <3>1
    <3>2. ASSUME NEW p \in Goroutines, Write(p), own[p].review.id = id
          PROVE  /\ reviews'[id].createdAt = reviews[id].createdAt
                 /\ pc[p] = "write" /\ reviews'[id] = own[p].review
      BY <3>2, WriteWrites DEF Write
    <3> QED BY <3>1, <3>2, OnlyWrites
  <2>2. ASSUME NEW p \in Goroutines, pc'[p] = "write"
        PROVE  \/ pc[p] = "write" /\ own'[p] = own[p]
               \/ own'[p].review.updatedAt >= reviews[own'[p].review.id].updatedAt
    <3>1. CASE pc'[p] = pc[p] /\ own'[p] = own[p]
      BY <2>2, <3>1
    <3>2. CASE Work(p) \/ Request(p)
      <4>1. own'[p].review.updatedAt = clock /\ own'[p].review.id \in DOMAIN reviews
        BY <2>2, <3>2, ComesToWrite
      <4>2. \A id \in DOMAIN reviews : reviews[id].updatedAt \in Nat /\ reviews[id].updatedAt <= clock
        BY DEF HeapCore, StoredFits, StoredReview, Times
      <4> QED BY <4>1, <4>2 DEF HeapCore, Counters
    <3>3. ASSUME NEW q \in Goroutines, Work(q) \/ Request(q), q # p
          PROVE  pc'[p] = pc[p] /\ own'[p] = own[p]
      BY <3>3, OthersStand
    <3>4. ASSUME NEW body \in Bodies, Create(body)
          PROVE  pc'[p] = pc[p] /\ own'[p] = own[p]
      BY <3>4 DEF Create
    <3> QED BY <3>1, <3>2, <3>3, <3>4 DEF Next, Tick
  <2> QED BY <2>1, <2>2
<1> QED BY <1>1, HeapHolds, PTL DEF Spec, StampsAreFresh

-------------------------------------------------------------------------------------
(* The bound on what a request has still to do goes down with each of its steps.                *)
LEMMA Left ==
  ASSUME NEW w
  PROVE  LET n == w.slice.len  ahead == n + 1 - w.i IN
         /\ StepsLeft("find", w) = 6 + 2 * n + ahead /\ StepsLeft("shift", w) = 6 + 2 * n + ahead
         /\ StepsLeft("load", w) = 5 + 2 * ahead /\ StepsLeft("store", w) = 4 + 2 * ahead
         /\ StepsLeft("append", w) = 4 /\ StepsLeft("save", w) = 3 /\ StepsLeft("write", w) = 2
         /\ StepsLeft("answer", w) = 1 /\ StepsLeft("idle", w) = 0
BY DEF StepsLeft

(* Where a request gets to, and how far it has looked.                                          *)
LEMMA WindsDown ==
  ASSUME HeapCore, NEW p \in Goroutines, Work(p)
  PROVE  StepsLeft(pc'[p], own'[p]) \in 0..StepsLeft(pc[p], own[p]) - 1
<1> DEFINE w == own[p]
           v == own'[p]
           n == own[p].slice.len
           before == StepsLeft(pc[p], own[p])
           after == StepsLeft(pc'[p], own'[p])
<1>1. pc[p] # "idle"
  BY DEF Work, Find, Shift, Load, Store, AppendEntry, Save, Write, Answer
<1>2. /\ w \in WorkType /\ n \in Nat /\ w.i \in Nat /\ w.gap \in Nat /\ KnowsAt(pc[p], w)
      /\ pc \in [Goroutines -> PCs] /\ own \in [Goroutines -> WorkType \cup {NoWork}]
  BY <1>1, AtWork DEF HeapCore
<1>3. ASSUME NEW l, Goto(p, l) PROVE pc'[p] = l
  BY <1>2, <1>3 DEF Goto
<1>4. ASSUME NEW o, Done(p, o) PROVE after = 0
  <2>1. pc'[p] = "idle"
    BY <1>3, <1>4 DEF Done
  <2> QED BY <2>1, Left
<1>5. CASE Find(p)
  <2>1. pc[p] = "find" /\ w.i \in 1..n + 1 /\ before = 6 + 2 * n + (n + 1 - w.i)
    BY <1>2, <1>5, Left DEF Find, KnowsAt
  <2>2. CASE Done(p, "refused")
    BY <1>2, <1>4, <2>1, <2>2
  <2>3. CASE /\ pc'[p] \in {"find", "shift"} /\ v.i = w.i + 1 /\ v.slice = w.slice /\ w.i <= n
    <3>1. after = 6 + 2 * n + (n + 1 - (w.i + 1))
      BY <2>3, Left
    <3> QED BY <1>2, <2>1, <2>3, <3>1
  <2>4. \/ Done(p, "refused")
        \/ w.i <= n /\ UNCHANGED pc /\ own' = [own EXCEPT ![p].i = @ + 1]
        \/ /\ w.i <= n /\ Goto(p, "shift")
           /\ own' = [own EXCEPT ![p].gap = own[p].i, ![p].i = @ + 1]
    BY <1>5 DEF Find, Refuse
  <2>5. CASE w.i <= n /\ UNCHANGED pc /\ own' = [own EXCEPT ![p].i = @ + 1]
    <3>1. v.i = w.i + 1 /\ v.slice = w.slice
      BY <1>2, <2>5 DEF WorkType
    <3> QED BY <2>1, <2>3, <2>5, <3>1
  <2>6. CASE /\ w.i <= n /\ Goto(p, "shift")
             /\ own' = [own EXCEPT ![p].gap = own[p].i, ![p].i = @ + 1]
    <3>1. v.i = w.i + 1 /\ v.slice = w.slice
      BY <1>2, <2>6 DEF WorkType
    <3> QED BY <1>3, <2>3, <2>6, <3>1
  <2> QED BY <2>2, <2>4, <2>5, <2>6
<1>6. CASE Shift(p)
  <2>1. /\ pc[p] = "shift" /\ w.i \in 1..n + 1 /\ before = 6 + 2 * n + (n + 1 - w.i)
        /\ w.gap >= 1 /\ w.gap < w.i
    BY <1>2, <1>6, Left DEF Shift, KnowsAt
  <2>2. CASE /\ pc'[p] = "shift" /\ v.i = w.i + 1 /\ v.slice = w.slice /\ w.i <= n
    <3>1. after = 6 + 2 * n + (n + 1 - (w.i + 1))
      BY <2>2, Left
    <3> QED BY <1>2, <2>1, <2>2, <3>1
  <2>3. \/ w.i <= n /\ UNCHANGED pc /\ own' = [own EXCEPT ![p].gap = @ + 1, ![p].i = @ + 1]
        \/ w.i <= n /\ UNCHANGED pc /\ own' = [own EXCEPT ![p].i = @ + 1]
        \/ /\ w.i > n /\ Goto(p, IF Field(own[p].op) = "causes" THEN "load" ELSE "append")
           /\ own' = [own EXCEPT ![p].slice.len = own[p].gap - 1, ![p].i = 1, ![p].gap = 0]
    BY <1>6 DEF Shift
  <2>4. CASE w.i <= n /\ UNCHANGED pc /\ own' = [own EXCEPT ![p].gap = @ + 1, ![p].i = @ + 1]
    <3>1. v.i = w.i + 1 /\ v.slice = w.slice
      BY <1>2, <2>4 DEF WorkType
    <3> QED BY <2>1, <2>2, <2>4, <3>1
  <2>5. CASE w.i <= n /\ UNCHANGED pc /\ own' = [own EXCEPT ![p].i = @ + 1]
    <3>1. v.i = w.i + 1 /\ v.slice = w.slice
      BY <1>2, <2>5 DEF WorkType
    <3> QED BY <2>1, <2>2, <2>5, <3>1
  <2>6. CASE /\ w.i > n /\ Goto(p, IF Field(own[p].op) = "causes" THEN "load" ELSE "append")
             /\ own' = [own EXCEPT ![p].slice.len = own[p].gap - 1, ![p].i = 1, ![p].gap = 0]
    <3>1. v.i = 1 /\ v.slice.len = w.gap - 1
      BY <1>2, <2>6 DEF WorkType, Slice
    <3>2. pc'[p] = "load" \/ pc'[p] = "append"
      BY <1>3, <2>6
    <3>3. after = 5 + 2 * (w.gap - 1) \/ after = 4
      <4>1. CASE pc'[p] = "load"
        <5>1. after = 5 + 2 * (w.gap - 1 + 1 - 1)
          BY <3>1, <4>1, Left
        <5>2. w.gap - 1 + 1 - 1 = w.gap - 1
          BY <1>2
        <5> HIDE DEF after, w
        <5> QED BY <5>1, <5>2
      <4>2. CASE pc'[p] = "append"
        BY <4>2, Left
      <4> QED BY <3>2, <4>1, <4>2
    <3>4. ASSUME NEW a, a = 5 + 2 * (w.gap - 1) \/ a = 4
          PROVE  a \in 0..(6 + 2 * n + (n + 1 - w.i)) - 1
      <4> DEFINE g == w.gap  i == w.i
      <4>1. g \in Nat /\ i \in Nat /\ n \in Nat /\ g >= 1 /\ g < i /\ i <= n + 1
        BY <1>2, <2>1
      <4>2. a = 5 + 2 * (g - 1) \/ a = 4
        BY <3>4
      <4> HIDE DEF g, n, i
      <4>3. a \in 0..(6 + 2 * n + (n + 1 - i)) - 1
        BY <4>1, <4>2
      <4> QED BY <4>3 DEF i
    <3> QED BY <2>1, <3>3, <3>4
  <2> QED BY <2>3, <2>4, <2>5, <2>6
<1>7. CASE Load(p)
  <2>1. pc[p] = "load" /\ w.i \in 1..n + 1 /\ before = 5 + 2 * (n + 1 - w.i)
    BY <1>2, <1>7, Left DEF Load, KnowsAt
  <2>2. \/ Goto(p, "append")
        \/ Done(p, "refused")
        \/ Goto(p, "store") /\ own' = [own EXCEPT ![p].loaded = Elem(own[p].slice, own[p].i)]
    BY <1>7 DEF Load, Refuse
  <2>3. CASE Goto(p, "append")
    <3>1. after = 4
      BY <1>3, <2>3, Left
    <3> QED BY <1>2, <2>1, <3>1
  <2>4. CASE Done(p, "refused")
    BY <1>2, <1>4, <2>1, <2>4
  <2>5. CASE Goto(p, "store") /\ own' = [own EXCEPT ![p].loaded = Elem(own[p].slice, own[p].i)]
    <3>1. pc'[p] = "store" /\ v.i = w.i /\ v.slice = w.slice
      BY <1>2, <1>3, <2>5 DEF WorkType
    <3>2. after = 4 + 2 * (n + 1 - w.i)
      BY <3>1, Left
    <3> QED BY <1>2, <2>1, <3>2
  <2> QED BY <2>2, <2>3, <2>4, <2>5
<1>8. CASE Store(p)
  <2>1. pc[p] = "store" /\ w.i >= 1 /\ w.i <= n /\ before = 4 + 2 * (n + 1 - w.i)
    BY <1>2, <1>8, Left DEF Store, KnowsAt
  <2>2. Goto(p, "load") /\ own' = [own EXCEPT ![p].i = @ + 1, ![p].loaded = BlankCause]
    BY <1>8 DEF Store
  <2>3. pc'[p] = "load" /\ v.i = w.i + 1 /\ v.slice = w.slice
    BY <1>2, <1>3, <2>2 DEF WorkType
  <2>4. after = 5 + 2 * (n + 1 - (w.i + 1))
    BY <2>3, Left
  <2> QED BY <1>2, <2>1, <2>4
<1>9. CASE AppendEntry(p)
  <2>1. pc[p] = "append" /\ pc'[p] = "save"
    BY <1>3, <1>9 DEF AppendEntry
  <2>2. before = 4 /\ after = 3
    BY <2>1, Left
  <2> QED BY <2>2
<1>10. CASE Save(p)
  <2>1. pc[p] = "save" /\ (Goto(p, "write") \/ Done(p, "refused"))
    BY <1>10 DEF Save, Refuse
  <2>2. before = 3
    BY <2>1, Left
  <2>3. after = 2 \/ after = 0
    BY <1>3, <1>4, <2>1, Left
  <2> QED BY <2>2, <2>3
<1>11. CASE Write(p)
  <2>1. pc[p] = "write" /\ (Goto(p, "answer") \/ Done(p, "ok"))
    BY <1>11 DEF Write
  <2>2. before = 2
    BY <2>1, Left
  <2>3. after = 1 \/ after = 0
    BY <1>3, <1>4, <2>1, Left
  <2> QED BY <2>2, <2>3
<1>12. CASE Answer(p)
  <2>1. pc[p] = "answer" /\ Done(p, AnswerTo(own[p]))
    BY <1>12 DEF Answer
  <2>2. before = 1 /\ after = 0
    BY <1>4, <2>1, Left
  <2> QED BY <2>2
<1> QED BY <1>5, <1>6, <1>7, <1>8, <1>9, <1>10, <1>11, <1>12 DEF Work

(* Whatever the others write to the array it walks, and whatever they put into the map, each step *)
(* of a request (slices.DeleteFunc, the loop of Review.BindContributingCause, append, Save) brings *)
(* it nearer to its end, and no step of anybody else moves it: it ends after as many steps as the   *)
(* slice it read and the bound allow.                                                           *)
THEOREM RequestsEnd == Spec => RequestsWindDown
<1> DEFINE Down ==
      \A p \in Busy :
        \/ pc'[p] = pc[p] /\ own'[p] = own[p]
        \/ StepsLeft(pc'[p], own'[p]) \in 0..StepsLeft(pc[p], own[p]) - 1
<1>1. HeapInv /\ [Next]_vars => [Down]_vars
  <2> SUFFICES ASSUME HeapCore, Next, NEW p \in Busy
               PROVE  \/ pc'[p] = pc[p] /\ own'[p] = own[p]
                      \/ StepsLeft(pc'[p], own'[p]) \in 0..StepsLeft(pc[p], own[p]) - 1
    BY DEF HeapInv
  <2>1. p \in Goroutines /\ pc[p] # "idle"
    BY DEF Busy
  <2>2. CASE Work(p)
    BY <2>1, <2>2, WindsDown
  <2>3. ~ Request(p)
    BY <2>1 DEF Request, Form, BindContributingCause, UpdateBoundContributingCause, BindTrigger,
                UpdateBoundTrigger, Receive
  <2>4. ASSUME NEW q \in Goroutines, Work(q) \/ Request(q), q # p
        PROVE  pc'[p] = pc[p] /\ own'[p] = own[p]
    BY <2>1, <2>4, OthersStand
  <2>5. ASSUME NEW body \in Bodies, Create(body)
        PROVE  pc'[p] = pc[p] /\ own'[p] = own[p]
    BY <2>5 DEF Create
  <2> QED BY <2>2, <2>3, <2>4, <2>5 DEF Next, Tick
<1> QED BY <1>1, HeapHolds, PTL DEF Spec, RequestsWindDown
=====================================================================================
