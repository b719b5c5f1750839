----------------------------- MODULE ConcurrentReviews -----------------------------
(***********************************************************************************)
(* reviewing.Service as net/http runs it: every request is a goroutine, and nothing *)
(* excludes two of them.  A request copies the stored review, walks through the      *)
(* array its slice points at, which is the one the store's copy and the copies of    *)
(* the other requests point at, stamps its copy and writes it back.  Here a step is  *)
(* the read or write of one entry, of one slot of the store's map, one append, or the   *)
(* reading of the clock.                                                             *)
(* Requests that name a cause, trigger, review or entry that is not stored do nothing *)
(* and are left to ReviewService; a Review that is read or written is read or written     *)
(* whole.                                                                            *)
(***********************************************************************************)
EXTENDS Review

CONSTANTS
  Goroutines,  \* the requests net/http serves at a time
  Ops,         \* the kinds of requests users make
  Marks,       \* what they say when asked whether the cause is the proximal one
  Overlap,     \* do they make several at a time?
  MaxID, MaxReviews, MaxCauses, MaxTriggers, MaxClock,   \* bounds, as in ReviewService
  MaxArrays    \* the arrays that can be alive at a time

AllOps == {"form", "bind", "rebind", "bindTrigger", "rebindTrigger"}

ASSUME RequestsAssumption ==
  /\ IsFiniteSet(Goroutines) /\ Ops \subseteq AllOps /\ Marks \subseteq BOOLEAN /\ Overlap \in BOOLEAN
  /\ MaxID \in Nat /\ MaxID >= 2 /\ MaxReviews \in Nat /\ MaxClock \in Nat \ {0}

(* Two for each review and three for each goroutine: append never waits for one.        *)
ASSUME ArraysAssumption ==
  MaxArrays \in Nat /\ MaxArrays >= 2 * MaxReviews + 3 * Cardinality(Goroutines)

VARIABLES
  reviews,  \* MemoryStore.data: the causes and triggers of a review are slices
  arrays,   \* the arrays behind the slices
  pc,       \* where a goroutine is
  own,      \* its local variables
  lastID, clock, outcome   \* as in ReviewService

vars == <<reviews, arrays, pc, own, lastID, clock, outcome>>

SeedCause == 1
SeedTrigger == 2

-------------------------------------------------------------------------------------
(* Slices.  The capacity is the length of the array, and a nil slice has none.         *)
NilSlice == [array |-> 0, len |-> 0]

Slice == [array : 0..MaxArrays, len : Nat]

Elem(s, i) == arrays[s.array][i]

Cap(s) == IF s.array = 0 THEN 0 ELSE Len(arrays[s.array])

Shown(s) == IF s.len = 0 THEN <<>> ELSE SubSeq(arrays[s.array], 1, s.len)

Written(s, i, e) == [arrays EXCEPT ![s.array][i] = e]

(* append grows an array of this size of entries to twice its capacity.               *)
GrownCap(s) == IF Cap(s) = 0 THEN 1 ELSE 2 * Cap(s)

BlankTrigger == [id |-> Nil, trigger |-> Nil, why |-> NoWhy]

BlankIn(field) == IF field = "causes" THEN BlankCause ELSE BlankTrigger

(* The arrays that something points at; the others are free to be allocated.           *)
Live ==
  {reviews[id].causes.array : id \in DOMAIN reviews}
  \cup {reviews[id].triggers.array : id \in DOMAIN reviews}
  \cup {own[p].slice.array : p \in Goroutines}
  \cup {own[p].review.causes.array : p \in Goroutines}
  \cup {own[p].review.triggers.array : p \in Goroutines}

Swept(new) == [a \in 1..MaxArrays |-> IF a \in Live' THEN new[a] ELSE <<>>]

-------------------------------------------------------------------------------------
NoReview ==
  [id |-> Nil, body |-> CHOOSE b \in Bodies : TRUE, causes |-> NilSlice, triggers |-> NilSlice,
   createdAt |-> ZeroTime, updatedAt |-> ZeroTime]

(* entry: the request's entry; slice: the one being worked on; i: the loop's index;     *)
(* gap: where DeleteFunc writes next; loaded: the loop's copy of an entry.              *)
NoWork ==
  [op |-> "none", review |-> NoReview, entry |-> BlankCause, slice |-> NilSlice,
   i |-> 0, gap |-> 0, loaded |-> BlankCause]

Field(op) == IF op \in {"bindTrigger", "rebindTrigger"} THEN "triggers" ELSE "causes"

Busy == {p \in Goroutines : pc[p] # "idle"}

(* What a review shows to a reader.                                                     *)
View(r) == [r EXCEPT !.causes = Shown(r.causes), !.triggers = Shown(r.triggers)]

Shows(id) == View(reviews[id])

PCs == {"idle", "find", "shift", "load", "store", "append", "save", "write", "answer"}

Counters ==
  /\ lastID \in 2..MaxID /\ clock \in 1..MaxClock
  /\ outcome \in {"none", "ok", "refused", "unexpected"}

TypeOK ==
  /\ DOMAIN reviews \subseteq 3..lastID
  /\ \A id \in DOMAIN reviews :
       /\ Shows(id) \in ReviewType
       /\ reviews[id].causes \in Slice /\ reviews[id].triggers \in Slice
       /\ reviews[id].causes.len <= Cap(reviews[id].causes)
       /\ reviews[id].triggers.len <= Cap(reviews[id].triggers)
  /\ arrays \in [1..MaxArrays -> Seq(BoundCause) \cup Seq(BoundTrigger)]
  /\ pc \in [Goroutines -> PCs]
  /\ \A p \in Goroutines :
       /\ own[p].slice \in Slice /\ own[p].slice.len <= Cap(own[p].slice)
       /\ pc[p] = "idle" <=> own[p] = NoWork
  /\ Counters

Init ==
  /\ reviews = <<>>
  /\ arrays = [a \in 1..MaxArrays |-> <<>>]
  /\ pc = [p \in Goroutines |-> "idle"]
  /\ own = [p \in Goroutines |-> NoWork]
  /\ lastID = 2 /\ clock = 1 /\ outcome = "none"

-------------------------------------------------------------------------------------
Goto(p, label) == pc' = [pc EXCEPT ![p] = label]

(* The answer is written and the goroutine ends.                                        *)
Done(p, o) ==
  /\ Goto(p, "idle")
  /\ own' = [own EXCEPT ![p] = NoWork]
  /\ outcome' = o

Refuse(p) ==
  /\ Done(p, "refused")
  /\ UNCHANGED <<reviews, lastID, clock>>
  /\ arrays' = Swept(arrays)

MayArrive == Overlap \/ Busy = {}

(* Mutant of Create: the lists of a new review are those of another one, cut off.        *)
CreateFromAnother(body) ==
  \E cut \in {NilSlice} \cup {[reviews[id].causes EXCEPT !.len = 0] : id \in DOMAIN reviews} :
    LET r == [NewReview(lastID + 1, body) EXCEPT !.causes = cut, !.triggers = NilSlice] IN
    /\ MayArrive
    /\ lastID + Cardinality(Busy) < MaxID /\ Cardinality(DOMAIN reviews) < MaxReviews
    /\ Validates(r)
    /\ reviews' = [x \in DOMAIN reviews \cup {r.id} |->
                     IF x = r.id THEN UpdateTimestamps(r, clock) ELSE reviews[x]]
    /\ lastID' = lastID + 1
    /\ outcome' = "ok"
    /\ UNCHANGED <<arrays, pc, own, clock>>

(* Create stamps and stores a review in one step: nobody knows its id before it is         *)
(* stored.                                                                             *)
Create(body) ==
  LET r == [NewReview(lastID + 1, body) EXCEPT !.causes = NilSlice, !.triggers = NilSlice] IN
  /\ MayArrive
  /\ lastID + Cardinality(Busy) < MaxID /\ Cardinality(DOMAIN reviews) < MaxReviews
  /\ Validates(r)
  /\ reviews' = [x \in DOMAIN reviews \cup {r.id} |->
                   IF x = r.id THEN UpdateTimestamps(r, clock) ELSE reviews[x]]
  /\ lastID' = lastID + 1
  /\ outcome' = "ok"
  /\ UNCHANGED <<arrays, pc, own, clock>>

(* Mutant of Receive: the causes are taken for the triggers.                              *)
ReceiveCauses(p, id, op, entry, label) ==
  /\ pc[p] = "idle" /\ op \in Ops /\ MayArrive
  /\ own' = [own EXCEPT ![p] =
       [NoWork EXCEPT !.op = op, !.review = reviews[id], !.entry = entry,
                      !.slice = reviews[id].causes, !.i = 1]]
  /\ Goto(p, label)
  /\ UNCHANGED <<reviews, arrays, lastID, clock, outcome>>

(* A request arrives and reads its review: MemoryStore.Get.                             *)
Receive(p, id, op, entry, label) ==
  /\ pc[p] = "idle" /\ op \in Ops /\ MayArrive
  /\ own' = [own EXCEPT ![p] =
       [NoWork EXCEPT !.op = op, !.review = reviews[id], !.entry = entry,
                      !.slice = reviews[id][Field(op)], !.i = 1]]
  /\ Goto(p, label)
  /\ UNCHANGED <<reviews, arrays, lastID, clock, outcome>>

NeedsID == lastID + Cardinality(Busy) < MaxID

(* reviewsHandler.Update takes the form over into its copy of the review.                *)
Form(p, id, body) ==
  /\ pc[p] = "idle" /\ "form" \in Ops /\ MayArrive
  /\ own' = [own EXCEPT ![p] =
       [NoWork EXCEPT !.op = "form", !.review = Update(reviews[id], [NoReview EXCEPT !.body = body]),
                      !.slice = reviews[id].causes]]
  /\ Goto(p, "save")
  /\ UNCHANGED <<reviews, arrays, lastID, clock, outcome>>

BindContributingCause(p, id, why, proximal) ==
  /\ NeedsID /\ reviews[id].causes.len < MaxCauses
  /\ Receive(p, id, "bind",
       [id |-> Nil, cause |-> SeedCause, why |-> why, proximal |-> proximal], "load")

(* Updates that race can double an entry: the bounds hold for them too.                 *)
UpdateBoundContributingCause(p, id, entry, why, proximal) ==
  /\ entry = Nil => NeedsID
  /\ reviews[id].causes.len <= MaxCauses
  /\ Receive(p, id, "rebind",
       [id |-> entry, cause |-> SeedCause, why |-> why, proximal |-> proximal], "find")

BindTrigger(p, id, why) ==
  /\ NeedsID /\ reviews[id].triggers.len < MaxTriggers
  /\ Receive(p, id, "bindTrigger", [id |-> Nil, trigger |-> SeedTrigger, why |-> why], "append")

UpdateBoundTrigger(p, id, entry, why) ==
  /\ reviews[id].triggers.len <= MaxTriggers
  /\ Receive(p, id, "rebindTrigger", [id |-> entry, trigger |-> SeedTrigger, why |-> why], "find")

-------------------------------------------------------------------------------------
(* Mutant of Find: at the end of the slice the search starts over.                         *)
FindAgain(p) ==
  LET w == own[p]  s == w.slice IN
  /\ pc[p] = "find"
  /\ \/ /\ w.i > s.len
        /\ own' = [own EXCEPT ![p].i = 1]
        /\ UNCHANGED pc
     \/ /\ w.i <= s.len /\ Elem(s, w.i).id # w.entry.id
        /\ own' = [own EXCEPT ![p].i = @ + 1]
        /\ UNCHANGED pc
     \/ /\ w.i <= s.len /\ Elem(s, w.i).id = w.entry.id
        /\ own' = [own EXCEPT ![p].gap = w.i, ![p].i = @ + 1]
        /\ Goto(p, "shift")
  /\ UNCHANGED <<reviews, arrays, lastID, clock, outcome>>

(* slices.DeleteFunc, its IndexFunc: one entry is looked at.                             *)
Find(p) ==
  LET w == own[p]  s == w.slice IN
  /\ pc[p] = "find"
  /\ \/ /\ w.i > s.len
        /\ Refuse(p)
     \/ /\ w.i <= s.len /\ Elem(s, w.i).id # w.entry.id
        /\ own' = [own EXCEPT ![p].i = @ + 1]
        /\ UNCHANGED <<reviews, arrays, pc, lastID, clock, outcome>>
     \/ /\ w.i <= s.len /\ Elem(s, w.i).id = w.entry.id
        /\ own' = [own EXCEPT ![p].gap = w.i, ![p].i = @ + 1]
        /\ Goto(p, "shift")
        /\ UNCHANGED <<reviews, arrays, lastID, clock, outcome>>

(* One of the entries behind it moves forward, or is deleted as well; then the vacated     *)
(* positions are zeroed.                                                                 *)
Shift(p) ==
  LET w == own[p]  s == w.slice  field == Field(w.op) IN
  /\ pc[p] = "shift"
  /\ \/ /\ w.i <= s.len /\ Elem(s, w.i).id # w.entry.id
        /\ arrays' = Written(s, w.gap, Elem(s, w.i))
        /\ own' = [own EXCEPT ![p].gap = @ + 1, ![p].i = @ + 1]
        /\ UNCHANGED pc
     \/ /\ w.i <= s.len /\ Elem(s, w.i).id = w.entry.id
        /\ own' = [own EXCEPT ![p].i = @ + 1]
        /\ UNCHANGED <<arrays, pc>>
     \/ /\ w.i > s.len
        /\ arrays' = [arrays EXCEPT ![s.array] =
             [i \in DOMAIN @ |-> IF i \in w.gap..s.len THEN BlankIn(field) ELSE @[i]]]
        /\ own' = [own EXCEPT ![p].slice.len = w.gap - 1, ![p].i = 1, ![p].gap = 0]
        /\ Goto(p, IF field = "causes" THEN "load" ELSE "append")
  /\ UNCHANGED <<reviews, lastID, clock, outcome>>

(* Mutant of Load: the loop ends one entry early.                                         *)
LoadButLast(p) ==
  LET w == own[p]  s == w.slice IN
  /\ pc[p] = "load"
  /\ \/ /\ w.i >= s.len
        /\ Goto(p, "append")
        /\ UNCHANGED <<reviews, arrays, own, lastID, clock, outcome>>
     \/ /\ w.i < s.len /\ SameReason(Elem(s, w.i), w.entry)
        /\ Refuse(p)
     \/ /\ w.i < s.len /\ ~ SameReason(Elem(s, w.i), w.entry)
        /\ own' = [own EXCEPT ![p].loaded = Elem(s, w.i)]
        /\ Goto(p, "store")
        /\ UNCHANGED <<reviews, arrays, lastID, clock, outcome>>

(* The loop of Review.BindContributingCause reads an entry and compares it ...            *)
Load(p) ==
  LET w == own[p]  s == w.slice IN
  /\ pc[p] = "load"
  /\ \/ /\ w.i > s.len
        /\ Goto(p, "append")
        /\ UNCHANGED <<reviews, arrays, own, lastID, clock, outcome>>
     \/ /\ w.i <= s.len /\ SameReason(Elem(s, w.i), w.entry)
        /\ Refuse(p)
     \/ /\ w.i <= s.len /\ ~ SameReason(Elem(s, w.i), w.entry)
        /\ own' = [own EXCEPT ![p].loaded = Elem(s, w.i)]
        /\ Goto(p, "store")
        /\ UNCHANGED <<reviews, arrays, lastID, clock, outcome>>

(* ... and writes it back, without the mark when the new entry is proximal.               *)
Store(p) ==
  LET w == own[p] IN
  /\ pc[p] = "store"
  /\ arrays' = Written(w.slice, w.i, UnsetProximal(w.loaded, w.entry))
  /\ own' = [own EXCEPT ![p].i = @ + 1, ![p].loaded = BlankCause]
  /\ Goto(p, "load")
  /\ UNCHANGED <<reviews, lastID, clock, outcome>>

(* Only UpdateBoundTrigger takes the entry as it is.                                       *)
(* append writes behind the end of the slice if the array has room, and moves to an array  *)
(* twice as large if it has not.                                                          *)
AppendEntry(p) ==
  LET w == own[p]
      s == w.slice
      fresh == w.entry.id = Nil /\ w.op # "rebindTrigger"
      e == IF fresh THEN EnsureID(w.entry, lastID + 1) ELSE w.entry
  IN
  /\ pc[p] = "append"
  /\ lastID' = IF fresh THEN lastID + 1 ELSE lastID
  /\ \/ /\ s.len < Cap(s)
        /\ arrays' = Written(s, s.len + 1, e)
        /\ own' = [own EXCEPT ![p].slice.len = @ + 1, ![p].i = 0]
     \/ /\ s.len = Cap(s)
        /\ LET a == CHOOSE x \in 1..MaxArrays : x \notin Live IN
           /\ arrays' = [arrays EXCEPT ![a] =
                [i \in 1..GrownCap(s) |->
                   IF i <= s.len THEN Elem(s, i)
                   ELSE IF i = s.len + 1 THEN e ELSE BlankIn(Field(w.op))]]
           /\ own' = [own EXCEPT ![p].slice = [array |-> a, len |-> s.len + 1], ![p].i = 0]
  /\ Goto(p, "save")
  /\ UNCHANGED <<reviews, clock, outcome>>

(* What a request saves: its copy of the review with the list it worked on.                *)
Result(w) == IF w.op = "form" THEN w.review ELSE [w.review EXCEPT ![Field(w.op)] = w.slice]

(* Mutant of Save: the form's handler stamps the review, and nobody else does.             *)
SaveStampsForms(p) ==
  LET w == own[p]  r == Result(w) IN
  /\ pc[p] = "save"
  /\ \/ /\ Validates(r)
        /\ own' = [own EXCEPT ![p].review = IF w.op = "form" THEN UpdateTimestamps(r, clock) ELSE r]
        /\ Goto(p, "write")
        /\ UNCHANGED <<reviews, lastID, clock, outcome>>
        /\ arrays' = Swept(arrays)
     \/ /\ ~ Validates(r)
        /\ Refuse(p)

(* Service.Save: the action named Save validates and stamps the review ...                  *)
Save(p) ==
  LET r == Result(own[p]) IN
  /\ pc[p] = "save"
  /\ \/ /\ Validates(r)
        /\ own' = [own EXCEPT ![p].review = UpdateTimestamps(r, clock)]
        /\ Goto(p, "write")
        /\ UNCHANGED <<reviews, lastID, clock, outcome>>
        /\ arrays' = Swept(arrays)
     \/ /\ ~ Validates(r)
        /\ Refuse(p)

(* ... and MemoryStore.Save puts it into the map, whatever was put there since.              *)
Write(p) ==
  LET w == own[p] IN
  /\ pc[p] = "write"
  /\ reviews' = [reviews EXCEPT ![w.review.id] = w.review]
  /\ IF w.op \in {"rebind", "rebindTrigger"}
     THEN Goto(p, "answer") /\ UNCHANGED <<own, outcome>>
     ELSE Done(p, "ok")
  /\ arrays' = Swept(arrays)
  /\ UNCHANGED <<lastID, clock>>

(* The two updates look for the entry under the id of the request.                          *)
AnswerTo(w) == IF Holds(Shown(w.slice), w.entry.id) THEN "ok" ELSE "unexpected"

Answer(p) ==
  /\ pc[p] = "answer"
  /\ Done(p, AnswerTo(own[p]))
  /\ UNCHANGED <<reviews, lastID, clock>>
  /\ arrays' = Swept(arrays)

Tick ==
  /\ clock < MaxClock
  /\ clock' = clock + 1
  /\ UNCHANGED <<reviews, arrays, pc, own, lastID, outcome>>

-------------------------------------------------------------------------------------
EntryIDs(s) == {Shown(s)[i].id : i \in 1..s.len}

Request(p) ==
  \E id \in DOMAIN reviews :
    \/ \E body \in Bodies : Form(p, id, body)
    \/ \E why \in Whys, proximal \in Marks :
         \/ BindContributingCause(p, id, why, proximal)
         \/ \E entry \in EntryIDs(reviews[id].causes) :
              UpdateBoundContributingCause(p, id, entry, why, proximal)
    \/ \E why \in Whys :
         \/ BindTrigger(p, id, why)
         \/ \E entry \in EntryIDs(reviews[id].triggers) : UpdateBoundTrigger(p, id, entry, why)

Work(p) ==
  \/ Find(p) \/ Shift(p) \/ Load(p) \/ Store(p) \/ AppendEntry(p)
  \/ Save(p) \/ Write(p) \/ Answer(p)

Next ==
  \/ \E body \in Bodies : Create(body)
  \/ \E p \in Goroutines : Request(p) \/ Work(p)
  \/ Tick

Spec == Init /\ [][Next]_vars

-------------------------------------------------------------------------------------
(* What holds of the shared arrays however requests race.  The operators take the state  *)
(* as parameters: the proofs speak of the arrays and copies of two states at a time.       *)
Fields == {"causes", "triggers"}

EntriesIn(field) == IF field = "causes" THEN BoundCause ELSE BoundTrigger

StoredReview ==
  [id : IDs, body : Bodies, causes : Slice, triggers : Slice, createdAt : Times, updatedAt : Times]

WorkType ==
  [op : AllOps, review : StoredReview, entry : BoundCause \cup BoundTrigger, slice : Slice,
   i : Nat, gap : Nat, loaded : BoundCause]

(* A slice lies within its array, and the array has entries of one kind.                 *)
Fits(heap, s, field) ==
  IF s.array = 0 THEN s.len = 0
  ELSE heap[s.array] \in Seq(EntriesIn(field)) /\ s.len <= Len(heap[s.array])

ReviewFits(heap, r) == Fits(heap, r.causes, "causes") /\ Fits(heap, r.triggers, "triggers")

StoredFits(heap, r, id, now) ==
  /\ r \in StoredReview /\ r.id = id /\ r.body \in ValidBodies
  /\ ReviewFits(heap, r)
  /\ ZeroTime < r.createdAt /\ r.updatedAt <= now

Updates == {"rebind", "rebindTrigger"}

(* What the loops of a request know where they are.                                       *)
KnowsAt(label, w) ==
  /\ label \in {"find", "shift", "load", "store", "append"} =>
       w.op # "form" /\ w.slice.array = w.review[Field(w.op)].array
  /\ label \in {"find", "shift", "load"} => w.i \in 1..w.slice.len + 1
  /\ label \in {"find", "shift"} => w.op \in Updates
  /\ label = "shift" => w.gap >= 1 /\ w.gap < w.i
  /\ label \in {"load", "store"} => w.op \in {"bind", "rebind"} /\ w.i >= 1
  /\ label = "store" => w.i <= w.slice.len
  /\ label = "write" => w.review.body \in ValidBodies

(* A request works on a copy of a review that is still stored, and created when it was.     *)
RequestFits(stored, heap, label, w) ==
  \/ label = "idle" /\ w = NoWork
  \/ /\ label \in PCs \ {"idle"} /\ w \in WorkType
     /\ w.entry \in EntriesIn(Field(w.op))
     /\ w.review.id \in DOMAIN stored
     /\ w.review.createdAt = stored[w.review.id].createdAt
     /\ w.op # "form" => w.review.body \in ValidBodies
     /\ ReviewFits(heap, w.review) /\ Fits(heap, w.slice, Field(w.op))
     /\ KnowsAt(label, w)

(* The arrays behind a field of a review, in the store and in the copies.                   *)
ArraysOf(stored, work, id, field) ==
  LET mine == {p \in Goroutines : work[p].review.id = id} IN
  {stored[id][field].array}
  \cup {work[p].review[field].array : p \in mine}
  \cup {work[p].slice.array : p \in {q \in mine : Field(work[q].op) = field}}

(* No array is shared by two reviews, nor by the causes and the triggers of one.            *)
Apart(stored, work) ==
  \A id1, id2 \in DOMAIN stored, f1, f2 \in Fields :
    \/ id1 = id2 /\ f1 = f2
    \/ ArraysOf(stored, work, id1, f1) \cap ArraysOf(stored, work, id2, f2) \subseteq {0}

(* The requests that append will give a new id to.                                          *)
NeedsIDAt(label, w) ==
  label \in {"find", "shift", "load", "store", "append"} /\ w.entry.id = Nil /\ w.op # "rebindTrigger"

NeedIDs == {p \in Goroutines : NeedsIDAt(pc[p], own[p])}

(* The inductive invariant.                                                                 *)
HeapCore ==
  /\ Counters
  /\ reviews \in [DOMAIN reviews -> StoredReview]
  /\ DOMAIN reviews \subseteq 3..lastID /\ Cardinality(DOMAIN reviews) <= MaxReviews
  /\ \A id \in DOMAIN reviews : StoredFits(arrays, reviews[id], id, clock)
  /\ arrays \in [1..MaxArrays -> Seq(BoundCause) \cup Seq(BoundTrigger)]
  /\ pc \in [Goroutines -> PCs] /\ own \in [Goroutines -> WorkType \cup {NoWork}]
  /\ \A p \in Goroutines :
       RequestFits(reviews, arrays, pc[p], own[p]) /\ own[p].review.updatedAt <= clock
  /\ Apart(reviews, own)
  /\ lastID + Cardinality(NeedIDs) <= MaxID

(* However requests race, no slice reaches beyond its array, no array serves two reviews or   *)
(* both lists of one, no stored review becomes invalid, and every request works on a review    *)
(* that is stored: deleting, growing and writing back by several goroutines corrupts nothing.   *)
HeapInv == TypeOK /\ HeapCore

Quiet(id) == \A p \in Goroutines : own[p].review.id # id

(* Somebody takes a step of a request for this review.                                      *)
StepFor(id) ==
  \E q \in Goroutines :
    own[q].review.id = id /\ (pc'[q] # pc[q] \/ own'[q] # own[q])

(* A review, and what a request under way has made of its copy of it, only ever changes by a   *)
(* step of a request that names that review: neither shared arrays, nor arrays that append      *)
(* takes anew, nor the map carry one's writes over to another review.  So requests for           *)
(* different reviews do not disturb each other, and each is as if it were alone.                 *)
ReviewsAreIsolated ==
  [][/\ \A id \in DOMAIN reviews : Shows(id)' # Shows(id) => StepFor(id)
     /\ \A p \in Busy :
          own'[p] = own[p] /\ Shown(own[p].slice)' # Shown(own[p].slice) =>
            StepFor(own[p].review.id)]_vars

(* However requests race, a review keeps the time of its creation, and the time of its last   *)
(* change is always the stamp of a request that writes it.  When a request gets its stamp that  *)
(* is no earlier than any stored until then, however long ago it read the review.  So only a    *)
(* request that had its stamp already when a later one was stored dates the review back, which  *)
(* the code allows.                                                                          *)
StampsAreFresh ==
  [][/\ \A id \in DOMAIN reviews :
          /\ reviews'[id].createdAt = reviews[id].createdAt
          /\ reviews'[id].updatedAt # reviews[id].updatedAt =>
               \E p \in Goroutines :
                 pc[p] = "write" /\ own[p].review.id = id /\ reviews'[id] = own[p].review
     /\ \A p \in Goroutines : pc'[p] = "write" =>
          \/ pc[p] = "write" /\ own'[p] = own[p]
          \/ own'[p].review.updatedAt >= reviews[own'[p].review.id].updatedAt]_vars

(* An upper bound on the steps a request has still to take.                                  *)
StepsLeft(label, w) ==
  LET n == w.slice.len  ahead == n + 1 - w.i IN
  CASE label \in {"find", "shift"} -> 6 + 2 * n + ahead
    [] label = "load"   -> 5 + 2 * ahead
    [] label = "store"  -> 4 + 2 * ahead
    [] label = "append" -> 4
    [] label = "save"   -> 3
    [] label = "write"  -> 2
    [] label = "answer" -> 1
    [] label = "idle"   -> 0

(* Every request comes to its end: each step it takes brings it nearer, whatever others wrote to  *)
(* the array it walks, and no step of theirs takes it further away.                             *)
RequestsWindDown ==
  [][\A p \in Busy :
       \/ pc'[p] = pc[p] /\ own'[p] = own[p]
       \/ StepsLeft(pc'[p], own'[p]) \in 0..StepsLeft(pc[p], own[p]) - 1]_vars

(* "ensures only one proximal cause at a time" (review.go:70), asked of reviews nobody is     *)
(* working on.                                                                             *)
OneProximalAtATime ==
  \A id \in DOMAIN reviews : Quiet(id) => OneProximal(Shows(id).causes)

(* "ensure that if we are doing blind updates we don't update fields we haven't intended to"  *)
(* (review.go:42): the form saves what is bound as it is.                                   *)
FormKeepsWhatIsBound ==
  [][\A p \in Goroutines :
       own[p].op = "form" /\ outcome' = "ok" /\ own'[p] = NoWork =>
         LET id == own[p].review.id IN
         reviews'[id].causes = reviews[id].causes /\ reviews'[id].triggers = reviews[id].triggers]_vars
=====================================================================================
