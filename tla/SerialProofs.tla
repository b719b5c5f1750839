-------------------------------- MODULE SerialProofs --------------------------------
(***********************************************************************************)
(* That the walk over the arrays, one request at a time, is ReviewService:          *)
(* ImplementsService.                                                               *)
(***********************************************************************************)
EXTENDS SerialReviews, ConcurrentProofs, ReviewProofs

(* An array holds this list at its beginning.                                         *)
Reads(x, list) == \A j \in 1..Len(list) : x[j] = list[j]

(* e lists the positions in front of i whose entries stay.                             *)
Stay(e, base, id, i, m) ==
  /\ e \in [1..m -> 1..Len(base)]
  /\ \A j, k \in 1..m : j < k => e[j] < e[k]
  /\ \A j \in 1..m : e[j] < i /\ base[e[j]].id # id
  /\ \A k \in 1..Len(base) : k < i /\ base[k].id # id => \E j \in 1..m : e[j] = k

(* What DeleteFunc makes of the list the request found.                                *)
Rests(base, w) == IF w.op \in Updates THEN Without(base, w.entry.id) ELSE {base}

(* The loop of the binding has come to i.                                              *)
Unset(rest, o, i) == [j \in DOMAIN rest |-> IF j < i THEN UnsetProximal(rest[j], o) ELSE rest[j]]

Prepared(rest, w) == IF Field(w.op) = "causes" THEN Rewritten(rest, w.entry) ELSE rest

Accepted(rest, w) == Field(w.op) = "causes" => ~ BindRefused(rest, w.entry)

Fresh(w) == w.entry.id = Nil /\ w.op # "rebindTrigger"

Entered(w, last) == IF Fresh(w) THEN EnsureID(w.entry, last + 1) ELSE w.entry

(* What is in the array x of a request that found the list base.                        *)
Progress(label, w, x, base, last) ==
  /\ label = "find" =>
       /\ w.slice.len = Len(base) /\ Reads(x, base)
       /\ \A j \in 1..Len(base) : j < w.i => base[j].id # w.entry.id
  /\ label = "shift" =>
       /\ w.slice.len = Len(base)
       /\ \A j \in 1..Len(base) : w.i <= j => x[j] = base[j]
       /\ \E e : /\ Stay(e, base, w.entry.id, w.i, w.gap - 1)
                 /\ \A j \in 1..(w.gap - 1) : x[j] = base[e[j]]
  /\ label \in {"load", "store"} =>
       \E rest \in Rests(base, w) :
         /\ w.slice.len = Len(rest)
         /\ Reads(x, Padded(Unset(rest, w.entry, w.i), Len(base)))
         /\ \A j \in 1..Len(rest) : j < w.i => ~ SameReason(rest[j], w.entry)
         /\ label = "store" => w.loaded = rest[w.i] /\ ~ SameReason(rest[w.i], w.entry)
  /\ label = "append" =>
       \E rest \in Rests(base, w) :
         /\ w.slice.len = Len(rest)
         /\ Reads(x, Prepared(rest, w)) /\ Accepted(rest, w)
  /\ label = "save" =>
       \E rest \in Rests(base, w) :
         /\ w.slice.len = Len(rest) + 1
         /\ Reads(x, Append(Prepared(rest, w), Entered(w, last))) /\ Accepted(rest, w)

(* What ReviewService asks of the request.                                              *)
Asks(w, base) ==
  /\ w.op \in {"bind", "bindTrigger"} => w.entry.id = Nil
  /\ w.op \in Updates => Holds(base, w.entry.id)
  /\ Field(w.op) = "causes" => w.entry.cause = SeedCause
  /\ Field(w.op) = "triggers" => w.entry.trigger = SeedTrigger
  /\ w.op = "bind" => Len(base) < MaxCauses
  /\ w.op = "bindTrigger" => Len(base) < MaxTriggers

Found(w) == settled.reviews[w.review.id][Field(w.op)]

(* A request that has not taken its effect.                                             *)
Working(label, w) ==
  /\ w.op = "form" =>
       label = "save" /\ w.review = Update(reviews[w.review.id], w.review)
  /\ w.op # "form" =>
       /\ w.review = reviews[w.review.id]
       /\ Len(Found(w)) = w.review[Field(w.op)].len
       /\ Asks(w, Found(w))
       /\ Progress(label, w, arrays[w.slice.array], Found(w), settled.lastID)
  /\ lastID = IF w.op # "form" /\ label = "save" /\ Fresh(w) THEN settled.lastID + 1
              ELSE settled.lastID

(* Where a request has its effect still ahead of it.                                     *)
Ahead == {"find", "shift", "load", "store", "append", "save"}

(* The list a request is changing.                                                      *)
InWork(id, f) ==
  \E p \in Busy :
    pc[p] \in Ahead /\ own[p].op # "form" /\ own[p].review.id = id /\ Field(own[p].op) = f

SameForm(r, s) ==
  r.id = s.id /\ r.body = s.body /\ r.createdAt = s.createdAt /\ r.updatedAt = s.updatedAt

OneAtATime == \A p, q \in Busy : p = q

Remembers ==
  /\ settled.reviews \in [DOMAIN reviews -> ReviewType] /\ settled.lastID \in Nat
  /\ \A id \in DOMAIN reviews : SameForm(settled.reviews[id], Latest(id))
  /\ \A id \in DOMAIN reviews, f \in Fields :
       settled.reviews[id][f] = Shown(Latest(id)[f]) \/ InWork(id, f)
  /\ Settled => settled.lastID = lastID /\ settled.outcome = Told

(* The inductive invariant: what is remembered is what is stored, or stamped and about    *)
(* to be, but for the list a request is changing, and that holds what the request has      *)
(* made of it so far.                                                                    *)
SerialInv ==
  /\ HeapCore /\ OneAtATime /\ Remembers
  /\ \A p \in Busy : pc[p] \in Ahead => Working(pc[p], own[p])

-------------------------------------------------------------------------------------
(* How far the loops have come: one lemma for each of their steps.  w is what the       *)
(* request knows before, v after it.                                                   *)
LEMMA FindGoesOn ==
  ASSUME NEW w, NEW v, NEW x, NEW base, NEW last, Progress("find", w, x, base, last),
         Len(base) \in Nat, w.i \in Nat, w.i >= 1, w.i <= w.slice.len, x[w.i].id # w.entry.id,
         v.slice = w.slice, v.entry = w.entry, v.op = w.op, v.i = w.i + 1
  PROVE  Progress("find", v, x, base, last)
<1>1. /\ w.slice.len = Len(base) /\ Reads(x, base)
      /\ \A j \in 1..Len(base) : j < w.i => base[j].id # w.entry.id
  BY DEF Progress
<1>2. base[w.i].id # w.entry.id
  BY <1>1 DEF Reads
<1>3. ASSUME NEW j \in 1..Len(base), j < v.i PROVE base[j].id # v.entry.id
  <2>1. j < w.i \/ j = w.i
    BY <1>3
  <2> QED BY <1>1, <1>2, <2>1
<1> QED BY <1>1, <1>3 DEF Progress

LEMMA FindIsOver ==
  ASSUME NEW w, NEW v, NEW x, NEW base, NEW last, Progress("find", w, x, base, last),
         Len(base) \in Nat, w.i \in Nat, w.i >= 1, w.i <= w.slice.len, x[w.i].id = w.entry.id,
         v.slice = w.slice, v.entry = w.entry, v.op = w.op, v.gap = w.i, v.i = w.i + 1
  PROVE  Progress("shift", v, x, base, last)
<1>1. /\ w.slice.len = Len(base) /\ Reads(x, base)
      /\ \A j \in 1..Len(base) : j < w.i => base[j].id # w.entry.id
  BY DEF Progress
<1>2. base[w.i].id = w.entry.id
  BY <1>1 DEF Reads
<1>3. \A j \in 1..Len(base) : v.i <= j => x[j] = base[j]
  BY <1>1 DEF Reads
<1> DEFINE m == v.gap - 1
           e == [j \in 1..m |-> j]
<1>4. m = w.i - 1 /\ m \in Nat
  OBVIOUS
<1>5. Stay(e, base, v.entry.id, v.i, m)
  <2> HIDE DEF m
  <2>1. e \in [1..m -> 1..Len(base)]
    BY <1>1, <1>4
  <2>2. \A j \in 1..m : e[j] < v.i /\ base[e[j]].id # v.entry.id
    BY <1>1, <1>4, SMTT(30)
  <2>3. \A k \in 1..Len(base) : k < v.i /\ base[k].id # v.entry.id => \E j \in 1..m : e[j] = k
    <3> SUFFICES ASSUME NEW k \in 1..Len(base), k < v.i, base[k].id # v.entry.id
                 PROVE  \E j \in 1..m : e[j] = k
      OBVIOUS
    <3>1. k # w.i
      BY <1>2
    <3>2. k \in 1..m
      BY <1>4, <3>1
    <3> QED BY <3>2
  <2> QED BY <2>1, <2>2, <2>3 DEF Stay
<1>6. \A j \in 1..m : x[j] = base[e[j]]
  BY <1>1, <1>4 DEF Reads
<1> HIDE DEF e
<1> QED BY <1>1, <1>3, <1>5, <1>6 DEF Progress

LEMMA ShiftMoves ==
  ASSUME NEW w, NEW v, NEW x, NEW y, NEW base, NEW last, Progress("shift", w, x, base, last),
         Len(base) \in Nat, w.i \in Nat, w.gap \in Nat, w.gap >= 1, w.gap < w.i, w.i <= w.slice.len,
         x[w.i].id # w.entry.id,
         v.slice = w.slice, v.entry = w.entry, v.op = w.op, v.gap = w.gap + 1, v.i = w.i + 1,
         y[w.gap] = x[w.i], \A j \in 1..Len(base) : j # w.gap => y[j] = x[j]
  PROVE  Progress("shift", v, y, base, last)
<1> DEFINE n == Len(base)
           m == w.gap
<1>1. /\ w.slice.len = n
      /\ \A j \in 1..n : w.i <= j => x[j] = base[j]
  BY DEF Progress
<1>2. PICK e : /\ Stay(e, base, w.entry.id, w.i, w.gap - 1)
               /\ \A j \in 1..(w.gap - 1) : x[j] = base[e[j]]
  BY DEF Progress
<1>3. \A j \in 1..n : v.i <= j => y[j] = base[j]
  BY <1>1
<1>4. x[w.i] = base[w.i] /\ base[w.i].id # w.entry.id /\ w.i \in 1..n
  BY <1>1
<1> DEFINE d == [j \in 1..m |-> IF j = m THEN w.i ELSE e[j]]
<1>5. \A j \in 1..m : j = m \/ j \in 1..(m - 1)
  OBVIOUS
<1>6. /\ \A j \in 1..(m - 1) : e[j] \in 1..n /\ e[j] < w.i /\ base[e[j]].id # w.entry.id
      /\ \A j, k \in 1..(m - 1) : j < k => e[j] < e[k]
      /\ \A k \in 1..n : k < w.i /\ base[k].id # w.entry.id => \E j \in 1..(m - 1) : e[j] = k
  BY <1>2 DEF Stay
<1>7. d[m] = w.i /\ \A j \in 1..(m - 1) : d[j] = e[j]
  OBVIOUS
<1>8. Stay(d, base, v.entry.id, v.i, m)
  <2>1. d \in [1..m -> 1..n]
    BY <1>4, <1>5, <1>6
  <2> HIDE DEF d
  <2>2. \A j, k \in 1..m : j < k => d[j] < d[k]
    <3> SUFFICES ASSUME NEW j \in 1..m, NEW k \in 1..m, j < k PROVE d[j] < d[k]
      OBVIOUS
    <3>1. j \in 1..(m - 1)
      OBVIOUS
    <3> QED BY <1>5, <1>6, <1>7, <3>1
  <2>3. \A j \in 1..m : d[j] < v.i /\ base[d[j]].id # v.entry.id
    <3> SUFFICES ASSUME NEW j \in 1..m PROVE d[j] < v.i /\ base[d[j]].id # v.entry.id
      OBVIOUS
    <3>1. CASE j = m
      BY <1>4, <1>7, <3>1
    <3>2. CASE j \in 1..(m - 1)
      <4>1. d[j] = e[j] /\ e[j] \in 1..n /\ e[j] < w.i /\ base[e[j]].id # w.entry.id
        BY <1>6, <1>7, <3>2
      <4> QED BY <4>1
    <3> QED BY <1>5, <3>1, <3>2
  <2>4. \A k \in 1..n : k < v.i /\ base[k].id # v.entry.id => \E j \in 1..m : d[j] = k
    <3> SUFFICES ASSUME NEW k \in 1..n, k < v.i, base[k].id # v.entry.id
                 PROVE  \E j \in 1..m : d[j] = k
      OBVIOUS
    <3>1. CASE k = w.i
      BY <1>7, <3>1
    <3>2. CASE k # w.i
      <4>1. k < w.i
        BY <3>2
      <4>2. PICK j \in 1..(m - 1) : e[j] = k
        BY <1>6, <4>1
      <4> QED BY <1>7, <4>2
    <3> QED BY <3>1, <3>2
  <2> QED BY <2>1, <2>2, <2>3, <2>4 DEF Stay
<1>9. \A j \in 1..m : y[j] = base[d[j]]
  <2> SUFFICES ASSUME NEW j \in 1..m PROVE y[j] = base[d[j]]
    OBVIOUS
  <2>1. CASE j = m
    BY <1>4, <1>7, <2>1
  <2>2. CASE j \in 1..(m - 1)
    <3>1. j \in 1..n /\ j # w.gap
      BY <1>1, <2>2
    <3> QED BY <1>2, <1>7, <2>2, <3>1
  <2> QED BY <1>5, <2>1, <2>2
<1>10. v.gap - 1 = m
  OBVIOUS
<1> HIDE DEF d
<1> QED BY <1>1, <1>3, <1>8, <1>9, <1>10 DEF Progress

LEMMA ShiftSkips ==
  ASSUME NEW w, NEW v, NEW x, NEW base, NEW last, Progress("shift", w, x, base, last),
         Len(base) \in Nat, w.i \in Nat, w.gap \in Nat, w.gap < w.i, w.i <= w.slice.len,
         x[w.i].id = w.entry.id, w.i >= 1,
         v.slice = w.slice, v.entry = w.entry, v.op = w.op, v.gap = w.gap, v.i = w.i + 1
  PROVE  Progress("shift", v, x, base, last)
<1> DEFINE n == Len(base)
           m == w.gap - 1
<1>1. /\ w.slice.len = n
      /\ \A j \in 1..n : w.i <= j => x[j] = base[j]
  BY DEF Progress
<1>2. PICK e : Stay(e, base, w.entry.id, w.i, m) /\ \A j \in 1..m : x[j] = base[e[j]]
  BY DEF Progress
<1>3. base[w.i].id = w.entry.id
  BY <1>1
<1>4. Stay(e, base, v.entry.id, v.i, m)
  <2> HIDE DEF m
  <2>1. /\ e \in [1..m -> 1..n]
        /\ \A j, k \in 1..m : j < k => e[j] < e[k]
        /\ \A j \in 1..m : e[j] < w.i /\ base[e[j]].id # w.entry.id
        /\ \A k \in 1..n : k < w.i /\ base[k].id # w.entry.id => \E j \in 1..m : e[j] = k
    BY <1>2 DEF Stay
  <2>2. \A j \in 1..m : e[j] < v.i
    <3> SUFFICES ASSUME NEW j \in 1..m PROVE e[j] < v.i
      OBVIOUS
    <3>1. e[j] \in 1..n /\ e[j] < w.i
      BY <2>1
    <3> QED BY <3>1
  <2>3. \A k \in 1..n : k < v.i /\ base[k].id # w.entry.id => k < w.i
    BY <1>3
  <2> QED BY <2>1, <2>2, <2>3 DEF Stay
<1> QED BY <1>1, <1>2, <1>4 DEF Progress

LEMMA IntervalCount ==
  ASSUME NEW n \in Nat
  PROVE  IsFiniteSet(1..n) /\ Cardinality(1..n) = n
BY FS_Interval

(* When the whole list was looked at, what stays is what DeleteFunc returns.              *)
LEMMA StayingIsWithout ==
  ASSUME NEW S, NEW base \in Seq(S), NEW id, NEW e, NEW i \in Nat, NEW m \in Nat,
         i > Len(base), Stay(e, base, id, i, m)
  PROVE  /\ [j \in 1..m |-> base[e[j]]] \in Without(base, id)
         /\ [j \in 1..m |-> base[e[j]]] \in Seq(S)
         /\ m <= Len(base)
<1> DEFINE n == Len(base)
           K == Kept(base, id)
           rest == [j \in 1..m |-> base[e[j]]]
<1>1. n \in Nat /\ DOMAIN base = 1..n /\ \A k \in 1..n : base[k] \in S
  OBVIOUS
<1>2. /\ e \in [1..m -> 1..n]
      /\ \A j, k \in 1..m : j < k => e[j] < e[k]
      /\ \A j \in 1..m : base[e[j]].id # id
      /\ \A k \in 1..n : k < i /\ base[k].id # id => \E j \in 1..m : e[j] = k
  BY DEF Stay
<1>3. e \in [1..m -> K]
  BY <1>1, <1>2 DEF Kept
<1>4. \A k \in K : \E j \in 1..m : e[j] = k
  BY <1>1, <1>2 DEF Kept
<1>5. \A j, k \in 1..m : e[j] = e[k] => j = k
  <2> SUFFICES ASSUME NEW j \in 1..m, NEW k \in 1..m, e[j] = e[k], j # k PROVE FALSE
    OBVIOUS
  <2>1. e[j] \in 1..n /\ e[k] \in 1..n
    BY <1>2
  <2>2. j < k \/ k < j
    OBVIOUS
  <2> QED BY <1>2, <2>1, <2>2
<1>6. e \in Bijection(1..m, K)
  BY <1>3, <1>4, <1>5 DEF Bijection, Injection, Surjection, IsInjective
<1>7. IsFiniteSet(1..m) /\ Cardinality(1..m) = m
  BY IntervalCount
<1>8. Cardinality(K) = m
  <2>1. ExistsBijection(1..m, K)
    BY <1>6 DEF ExistsBijection
  <2> QED BY <1>7, <2>1, FS_Bijection, FS_SameCardinalityBij, Zenon
<1>9. e \in Enumerations(K)
  BY <1>2, <1>6, <1>8 DEF Enumerations, Increasing, Bijection
<1>10. rest \in Without(base, id)
  BY <1>8, <1>9 DEF Without
<1>11. rest \in Seq(S)
  <2>1. \A j \in 1..m : rest[j] \in S
    BY <1>1, <1>2
  <2> QED BY <2>1
<1>12. m <= n
  <2>1. K \subseteq 1..n
    BY <1>1 DEF Kept
  <2>2. IsFiniteSet(1..n) /\ Cardinality(1..n) = n
    BY <1>1, IntervalCount
  <2>3. Cardinality(K) <= Cardinality(1..n)
    BY <2>1, <2>2, FS_Subset
  <2> QED BY <1>8, <2>2, <2>3
<1> QED BY <1>10, <1>11, <1>12

LEMMA ShiftEnds ==
  ASSUME NEW w, NEW v, NEW x, NEW y, NEW base, NEW last, Progress("shift", w, x, base, last),
         base \in Seq(EntriesIn(Field(w.op))), w.op \in Updates,
         w.i \in Nat, w.gap \in Nat, w.gap >= 1, w.i > w.slice.len,
         v.slice.len = w.gap - 1, v.entry = w.entry, v.op = w.op, v.i = 1,
         \A j \in 1..w.slice.len :
           y[j] = IF j \in w.gap..w.slice.len THEN BlankIn(Field(w.op)) ELSE x[j],
         NEW label, label = IF Field(w.op) = "causes" THEN "load" ELSE "append"
  PROVE  Progress(label, v, y, base, last)
<1> DEFINE n == Len(base)
           S == EntriesIn(Field(w.op))
<1>1. n \in Nat /\ w.slice.len = n
  BY DEF Progress
<1>2. PICK m \in Nat : m = w.gap - 1
  OBVIOUS
<1>3. PICK e : Stay(e, base, w.entry.id, w.i, m) /\ \A j \in 1..m : x[j] = base[e[j]]
  BY <1>2 DEF Progress
<1> DEFINE rest == [j \in 1..m |-> base[e[j]]]
<1>4. rest \in Without(base, w.entry.id) /\ rest \in Seq(S) /\ m <= n
  <2>1. w.i > Len(base)
    BY <1>1
  <2> QED BY <1>3, <2>1, StayingIsWithout, ZenonT(40)
<1>5. DOMAIN rest = 1..m /\ Len(rest) = m /\ \A j \in 1..m : rest[j] = x[j]
  BY <1>3, <1>4
<1>6. v.slice.len = Len(rest) /\ rest \in Rests(base, v)
  BY <1>2, <1>4, <1>5 DEF Rests
<1> HIDE DEF rest
<1>7. \A j \in 1..n : y[j] = IF j \in 1..m THEN rest[j] ELSE BlankIn(Field(w.op))
  <2> SUFFICES ASSUME NEW j \in 1..n
               PROVE  y[j] = IF j \in 1..m THEN rest[j] ELSE BlankIn(Field(w.op))
    OBVIOUS
  <2>1. j \in w.gap..w.slice.len <=> j \notin 1..m
    BY <1>1, <1>2
  <2> QED BY <1>1, <1>5, <2>1
<1>8. CASE Field(w.op) = "causes"
  <2> DEFINE old == Unset(rest, v.entry, 1)
             all == Padded(old, n)
  <2>1. DOMAIN old = 1..m /\ \A j \in 1..m : old[j] = rest[j]
    BY <1>5 DEF Unset
  <2> HIDE DEF old
  <2>2. all = [j \in 1..n |-> IF j \in 1..m THEN old[j] ELSE BlankCause]
    BY <2>1 DEF Padded
  <2>3. Len(all) = n
    BY <1>1, <2>2
  <2>4. Reads(y, all)
    BY <1>7, <1>8, <2>1, <2>2, <2>3 DEF Reads, BlankIn
  <2>5. label = "load" /\ Reads(y, Padded(Unset(rest, v.entry, v.i), n))
    BY <1>8, <2>4 DEF old
  <2>6. \A j \in 1..Len(rest) : ~ (j < v.i)
    OBVIOUS
  <2> HIDE DEF all
  <2> QED BY <1>6, <2>5, <2>6 DEF Progress
<1>9. CASE Field(w.op) # "causes"
  <2>1. Prepared(rest, v) = rest /\ Accepted(rest, v) /\ label = "append"
    BY <1>9 DEF Prepared, Accepted
  <2>2. Reads(y, rest)
    BY <1>1, <1>4, <1>5, <1>7 DEF Reads
  <2> QED BY <1>6, <2>1, <2>2 DEF Progress
<1> QED BY <1>8, <1>9

-------------------------------------------------------------------------------------
(* The loop of the binding.                                                             *)
LEMMA RestTyped ==
  ASSUME NEW w, NEW S, NEW base \in Seq(S), NEW rest \in Rests(base, w)
  PROVE  rest \in Seq(S) /\ Len(rest) \in Nat /\ DOMAIN rest = 1..Len(rest) /\ Len(rest) <= Len(base)
<1>1. CASE w.op \in Updates
  <2>1. rest \in Without(base, w.entry.id)
    BY <1>1 DEF Rests
  <2>2. rest \in Seq(S)
    BY <2>1, WithoutLists
  <2>3. PICK f \in [DOMAIN rest -> DOMAIN base] : \A i, j \in DOMAIN rest : f[i] = f[j] => i = j
    BY <2>1, WithoutLists
  <2>4. DOMAIN rest = 1..Len(rest) /\ Len(rest) \in Nat /\ DOMAIN base = 1..Len(base) /\ Len(base) \in Nat
    BY <2>2
  <2>5. Len(rest) <= Len(base)
    <3>1. f \in Injection(1..Len(rest), 1..Len(base))
      BY <2>3, <2>4 DEF Injection, IsInjective
    <3>2. IsFiniteSet(1..Len(base)) /\ Cardinality(1..Len(base)) = Len(base)
          /\ IsFiniteSet(1..Len(rest)) /\ Cardinality(1..Len(rest)) = Len(rest)
      BY <2>4, IntervalCount
    <3>3. Cardinality(1..Len(rest)) <= Cardinality(1..Len(base))
      BY <3>1, <3>2, FS_Injection, Zenon
    <3> QED BY <3>2, <3>3
  <2> QED BY <2>2, <2>4, <2>5
<1>2. CASE w.op \notin Updates
  <2>1. rest = base
    BY <1>2 DEF Rests
  <2> QED BY <2>1
<1> QED BY <1>1, <1>2

(* What the array holds at the loop's index.                                              *)
LEMMA UnsetReads ==
  ASSUME NEW rest \in Seq(BoundCause), NEW o, NEW i \in Nat, NEW n \in Nat, Len(rest) <= n,
         NEW x
  PROVE  /\ Len(Padded(Unset(rest, o, i), n)) = n
         /\ Reads(x, Padded(Unset(rest, o, i), n)) <=>
              \A j \in 1..n : x[j] = IF j \in 1..Len(rest)
                                     THEN (IF j < i THEN UnsetProximal(rest[j], o) ELSE rest[j])
                                     ELSE BlankCause
<1>1. DOMAIN rest = 1..Len(rest) /\ Len(rest) \in Nat
  OBVIOUS
<1> DEFINE u == Unset(rest, o, i)
           all == Padded(u, n)
<1>2. /\ DOMAIN u = 1..Len(rest)
      /\ \A j \in 1..Len(rest) : u[j] = IF j < i THEN UnsetProximal(rest[j], o) ELSE rest[j]
  BY <1>1 DEF Unset
<1> HIDE DEF u
<1>3. all = [j \in 1..n |-> IF j \in 1..Len(rest) THEN u[j] ELSE BlankCause]
  BY <1>2 DEF Padded
<1>4. Len(all) = n
  BY <1>3
<1> HIDE DEF all
<1>5. Reads(x, all) <=> \A j \in 1..n : x[j] = IF j \in 1..Len(rest) THEN u[j] ELSE BlankCause
  BY <1>3, <1>4 DEF Reads
<1>6. Reads(x, all) <=>
        \A j \in 1..n : x[j] = IF j \in 1..Len(rest)
                               THEN (IF j < i THEN UnsetProximal(rest[j], o) ELSE rest[j])
                               ELSE BlankCause
  BY <1>2, <1>5
<1> QED BY <1>4, <1>6 DEF all, u

LEMMA LoopLoads ==
  ASSUME NEW w, NEW v, NEW x, NEW base \in Seq(BoundCause), NEW last,
         Progress("load", w, x, base, last), w.i \in Nat, w.i >= 1, w.i <= w.slice.len,
         ~ SameReason(x[w.i], w.entry),
         v.slice = w.slice, v.entry = w.entry, v.op = w.op, v.i = w.i, v.loaded = x[w.i]
  PROVE  Progress("store", v, x, base, last)
<1>1. PICK rest \in Rests(base, w) :
         /\ w.slice.len = Len(rest)
         /\ Reads(x, Padded(Unset(rest, w.entry, w.i), Len(base)))
         /\ \A j \in 1..Len(rest) : j < w.i => ~ SameReason(rest[j], w.entry)
  BY DEF Progress
<1>2. rest \in Seq(BoundCause) /\ Len(rest) \in Nat /\ Len(rest) <= Len(base) /\ Len(base) \in Nat
  BY RestTyped
<1>3. x[w.i] = rest[w.i]
  <2>1. w.i \in 1..Len(base) /\ w.i \in 1..Len(rest) /\ ~ (w.i < w.i)
    BY <1>1, <1>2
  <2> QED BY <1>1, <1>2, <2>1, UnsetReads
<1>4. rest \in Rests(base, v)
  BY DEF Rests
<1> QED BY <1>1, <1>3, <1>4 DEF Progress

LEMMA LoopStores ==
  ASSUME NEW w, NEW v, NEW x, NEW y, NEW base \in Seq(BoundCause), NEW last,
         Progress("store", w, x, base, last), w.i \in Nat, w.i >= 1, w.i <= w.slice.len,
         v.slice = w.slice, v.entry = w.entry, v.op = w.op, v.i = w.i + 1,
         y[w.i] = UnsetProximal(w.loaded, w.entry), \A j \in 1..Len(base) : j # w.i => y[j] = x[j]
  PROVE  Progress("load", v, y, base, last)
<1>1. PICK rest \in Rests(base, w) :
         /\ w.slice.len = Len(rest)
         /\ Reads(x, Padded(Unset(rest, w.entry, w.i), Len(base)))
         /\ \A j \in 1..Len(rest) : j < w.i => ~ SameReason(rest[j], w.entry)
         /\ w.loaded = rest[w.i] /\ ~ SameReason(rest[w.i], w.entry)
  BY DEF Progress
<1>2. rest \in Seq(BoundCause) /\ Len(rest) \in Nat /\ Len(rest) <= Len(base) /\ Len(base) \in Nat
  BY RestTyped
<1>3. \A j \in 1..Len(base) :
        x[j] = IF j \in 1..Len(rest)
               THEN (IF j < w.i THEN UnsetProximal(rest[j], w.entry) ELSE rest[j])
               ELSE BlankCause
  BY <1>1, <1>2, UnsetReads
<1>4. ASSUME NEW j \in 1..Len(base)
      PROVE  y[j] = IF j \in 1..Len(rest)
                    THEN (IF j < v.i THEN UnsetProximal(rest[j], v.entry) ELSE rest[j])
                    ELSE BlankCause
  <2>1. CASE j = w.i
    BY <1>1, <1>2, <2>1
  <2>2. CASE j # w.i
    <3>1. j < v.i <=> j < w.i
      BY <2>2
    <3> QED BY <1>3, <2>2, <3>1
  <2> QED BY <2>1, <2>2
<1>5. v.i \in Nat
  OBVIOUS
<1>6. Reads(y, Padded(Unset(rest, v.entry, v.i), Len(base)))
  BY <1>2, <1>4, <1>5, UnsetReads
<1>7. ASSUME NEW j \in 1..Len(rest), j < v.i PROVE ~ SameReason(rest[j], v.entry)
  <2>1. j < w.i \/ j = w.i
    BY <1>7
  <2> QED BY <1>1, <2>1
<1>8. rest \in Rests(base, v)
  BY DEF Rests
<1> QED BY <1>1, <1>6, <1>7, <1>8 DEF Progress

(* The loop wrote what Rewritten says as long as it met no clash ...                        *)
LEMMA UnsetIsRewritten ==
  ASSUME NEW rest \in Seq(BoundCause), NEW o, NEW i \in Nat,
         \A j \in 1..Len(rest) : j < i => ~ SameReason(rest[j], o),
         i <= Len(rest) => i \in 1..Len(rest) /\ SameReason(rest[i], o)
  PROVE  Unset(rest, o, i) = Rewritten(rest, o)
<1>1. DOMAIN rest = 1..Len(rest) /\ Len(rest) \in Nat
  OBVIOUS
<1>2. ASSUME NEW j \in DOMAIN rest PROVE j < i <=> j \in Reached(rest, o)
  <2>1. ASSUME j < i, NEW k \in Clashes(rest, o) PROVE j < k
    <3>1. k \in 1..Len(rest) /\ SameReason(rest[k], o)
      BY <1>1 DEF Clashes
    <3>2. ~ (k < i)
      BY <3>1
    <3> QED BY <1>1, <2>1, <3>1, <3>2
  <2>2. ASSUME j \in Reached(rest, o) PROVE j < i
    <3>1. CASE i <= Len(rest)
      <4>1. i \in Clashes(rest, o)
        BY <1>1, <3>1 DEF Clashes
      <4> QED BY <2>2, <4>1 DEF Reached
    <3>2. CASE ~ (i <= Len(rest))
      BY <1>1, <3>2
    <3> QED BY <3>1, <3>2
  <2> QED BY <2>1, <2>2 DEF Reached
<1> QED BY <1>2 DEF Unset, Rewritten

(* ... and to its end only if there is none.                                                *)
LEMMA LoopEnds ==
  ASSUME NEW w, NEW x, NEW base \in Seq(BoundCause), NEW last,
         Progress("load", w, x, base, last), w.i \in Nat, w.i > w.slice.len,
         Field(w.op) = "causes"
  PROVE  Progress("append", w, x, base, last)
<1>1. PICK rest \in Rests(base, w) :
         /\ w.slice.len = Len(rest)
         /\ Reads(x, Padded(Unset(rest, w.entry, w.i), Len(base)))
         /\ \A j \in 1..Len(rest) : j < w.i => ~ SameReason(rest[j], w.entry)
  BY DEF Progress
<1>2. rest \in Seq(BoundCause) /\ Len(rest) \in Nat /\ Len(rest) <= Len(base) /\ Len(base) \in Nat
      /\ DOMAIN rest = 1..Len(rest)
  BY RestTyped
<1>3. \A j \in 1..Len(rest) : j < w.i
  BY <1>1, <1>2
<1>4. ~ BindRefused(rest, w.entry)
  BY <1>1, <1>2, <1>3 DEF BindRefused, Clashes
<1>5. Unset(rest, w.entry, w.i) = Rewritten(rest, w.entry)
  BY <1>1, <1>2, <1>3, UnsetIsRewritten
<1>6. Reads(x, Rewritten(rest, w.entry))
  <2> DEFINE r == Rewritten(rest, w.entry)
  <2>1. DOMAIN r = 1..Len(rest) /\ Len(r) = Len(rest)
    BY <1>2 DEF Rewritten
  <2>2. \A j \in 1..Len(rest) : r[j] = UnsetProximal(rest[j], w.entry)
    BY <1>2, <1>3, <1>5 DEF Unset
  <2> HIDE DEF r
  <2>3. \A j \in 1..Len(rest) : x[j] = UnsetProximal(rest[j], w.entry)
    <3>1. \A j \in 1..Len(rest) : j \in 1..Len(base)
      BY <1>2
    <3> QED BY <1>1, <1>2, <1>3, <3>1, UnsetReads
  <2> QED BY <2>1, <2>2, <2>3 DEF Reads, r
<1>7. Prepared(rest, w) = Rewritten(rest, w.entry) /\ Accepted(rest, w)
  BY <1>4 DEF Prepared, Accepted
<1> QED BY <1>1, <1>6, <1>7 DEF Progress

(* A refused loop leaves what ReviewService says.                                           *)
LEMMA LoopRefused ==
  ASSUME NEW w, NEW x, NEW base \in Seq(BoundCause), NEW last,
         Progress("load", w, x, base, last), w.i \in Nat, w.i >= 1, w.i <= w.slice.len,
         SameReason(x[w.i], w.entry)
  PROVE  \E rest \in Rests(base, w) :
           BindRefused(rest, w.entry) /\ Reads(x, Padded(Rewritten(rest, w.entry), Len(base)))
<1>1. PICK rest \in Rests(base, w) :
         /\ w.slice.len = Len(rest)
         /\ Reads(x, Padded(Unset(rest, w.entry, w.i), Len(base)))
         /\ \A j \in 1..Len(rest) : j < w.i => ~ SameReason(rest[j], w.entry)
  BY DEF Progress
<1>2. rest \in Seq(BoundCause) /\ Len(rest) \in Nat /\ Len(rest) <= Len(base) /\ Len(base) \in Nat
      /\ DOMAIN rest = 1..Len(rest)
  BY RestTyped
<1>3. x[w.i] = rest[w.i] /\ w.i \in 1..Len(rest)
  <2>1. w.i \in 1..Len(base) /\ w.i \in 1..Len(rest) /\ ~ (w.i < w.i)
    BY <1>1, <1>2
  <2> QED BY <1>1, <1>2, <2>1, UnsetReads
<1>4. BindRefused(rest, w.entry)
  BY <1>2, <1>3 DEF BindRefused, Clashes
<1>5. Unset(rest, w.entry, w.i) = Rewritten(rest, w.entry)
  BY <1>1, <1>2, <1>3, UnsetIsRewritten
<1> QED BY <1>1, <1>4, <1>5

-------------------------------------------------------------------------------------
(* append, and how requests begin.                                                      *)
LEMMA PreparedTyped ==
  ASSUME NEW w, w.entry \in EntriesIn(Field(w.op)), NEW rest \in Seq(EntriesIn(Field(w.op)))
  PROVE  /\ Prepared(rest, w) \in Seq(EntriesIn(Field(w.op)))
         /\ Len(Prepared(rest, w)) = Len(rest)
<1>1. CASE Field(w.op) = "causes"
  BY <1>1, RewrittenKeeps DEF Prepared, EntriesIn
<1>2. CASE Field(w.op) # "causes"
  BY <1>2 DEF Prepared
<1> QED BY <1>1, <1>2

LEMMA EntryAppended ==
  ASSUME NEW w, NEW v, NEW x, NEW y, NEW base, NEW last,
         base \in Seq(EntriesIn(Field(w.op))), w.entry \in EntriesIn(Field(w.op)),
         Progress("append", w, x, base, last),
         v.slice.len = w.slice.len + 1, v.entry = w.entry, v.op = w.op,
         \A j \in 1..w.slice.len : y[j] = x[j],
         y[w.slice.len + 1] = Entered(w, last)
  PROVE  Progress("save", v, y, base, last)
<1>1. PICK rest \in Rests(base, w) :
         /\ w.slice.len = Len(rest)
         /\ Reads(x, Prepared(rest, w)) /\ Accepted(rest, w)
  BY DEF Progress
<1> DEFINE S == EntriesIn(Field(w.op))
           p == Prepared(rest, w)
           e == Entered(w, last)
           a == Append(p, e)
<1>2. rest \in Seq(S) /\ Len(rest) \in Nat
  BY RestTyped
<1>3. p \in Seq(S) /\ Len(p) = Len(rest)
  BY <1>2, PreparedTyped
<1>4. /\ Prepared(rest, v) = p /\ Entered(v, last) = e /\ Accepted(rest, v)
      /\ rest \in Rests(base, v)
  BY <1>1 DEF Prepared, Entered, Fresh, Accepted, Rests
<1> HIDE DEF p, e
<1>5. Len(a) = Len(rest) + 1 /\ a[Len(rest) + 1] = e /\ \A j \in 1..Len(rest) : a[j] = p[j]
  BY <1>2, <1>3
<1>6. Reads(y, a)
  <2>1. \A j \in 1..Len(rest) : x[j] = p[j]
    BY <1>1, <1>3 DEF Reads, p
  <2>2. \A j \in 1..(Len(rest) + 1) : j \in 1..Len(rest) \/ j = Len(rest) + 1
    BY <1>2
  <2>3. y[Len(rest) + 1] = e
    BY <1>1 DEF e
  <2> HIDE DEF a
  <2> QED BY <1>1, <1>5, <2>1, <2>2, <2>3 DEF Reads
<1>7. v.slice.len = Len(rest) + 1
  BY <1>1
<1> QED BY <1>4, <1>6, <1>7 DEF Progress

LEMMA RequestBegins ==
  ASSUME NEW w, NEW x, NEW base, NEW last, base \in Seq(EntriesIn(Field(w.op))),
         w.slice.len = Len(base), Reads(x, base), w.i = 1,
         NEW label,
         \/ w.op \in Updates /\ label = "find"
         \/ w.op = "bind" /\ label = "load"
         \/ w.op = "bindTrigger" /\ label = "append"
  PROVE  Progress(label, w, x, base, last)
<1>1. Len(base) \in Nat /\ DOMAIN base = 1..Len(base)
  OBVIOUS
<1>2. CASE w.op \in Updates
  <2>1. label = "find"
    BY <1>2 DEF Updates
  <2>2. \A j \in 1..Len(base) : ~ (j < w.i)
    OBVIOUS
  <2> QED BY <2>1, <2>2 DEF Progress
<1>3. CASE w.op = "bind" /\ label = "load"
  <2>1. base \in Rests(base, w)
    BY <1>3 DEF Rests, Updates
  <2>2. base \in Seq(BoundCause)
    BY <1>3 DEF Field, EntriesIn
  <2>3. \A j \in 1..Len(base) : x[j] = base[j] /\ ~ (j < w.i)
    BY <1>1 DEF Reads
  <2>4. Reads(x, Padded(Unset(base, w.entry, w.i), Len(base)))
    BY <1>1, <2>2, <2>3, UnsetReads
  <2> QED BY <1>3, <2>1, <2>3, <2>4 DEF Progress
<1>4. CASE w.op = "bindTrigger" /\ label = "append"
  <2>1. base \in Rests(base, w)
    BY <1>4 DEF Rests, Updates
  <2>2. Prepared(base, w) = base /\ Accepted(base, w)
    BY <1>4 DEF Prepared, Accepted, Field
  <2> QED BY <1>4, <2>1, <2>2 DEF Progress
<1> QED BY <1>2, <1>3, <1>4

-------------------------------------------------------------------------------------
(* What a slice shows, whatever state the arrays are in.                                  *)
Seen(heap, s) == IF s.len = 0 THEN <<>> ELSE SubSeq(heap[s.array], 1, s.len)

LEMMA ShownIsSeen ==
  ASSUME NEW s
  PROVE  Shown(s) = Seen(arrays, s)
BY DEF Shown, Seen

LEMMA SeenEntries ==
  ASSUME NEW heap, NEW s \in Slice, NEW field, Fits(heap, s, field)
  PROVE  /\ Seen(heap, s) \in Seq(EntriesIn(field)) /\ Len(Seen(heap, s)) = s.len
         /\ \A i \in 1..s.len : Seen(heap, s)[i] = heap[s.array][i]
<1>1. s.len \in Nat
  BY DEF Slice
<1>2. CASE s.len = 0
  <2>1. Seen(heap, s) = <<>>
    BY <1>2 DEF Seen
  <2> QED BY <1>2, <2>1
<1>3. CASE s.len # 0
  <2> DEFINE x == heap[s.array]
             S == EntriesIn(field)
  <2>1. x \in Seq(S) /\ s.len <= Len(x) /\ Seen(heap, s) = SubSeq(x, 1, s.len)
    BY <1>3 DEF Fits, Seen
  <2>2. Len(x) \in Nat /\ \A i \in 1..Len(x) : x[i] \in S
    BY <2>1
  <2> HIDE DEF x, S
  <2>3. SubSeq(x, 1, s.len) = [i \in 1..s.len |-> x[i]]
    BY <1>1, <2>1, <2>2
  <2>4. \A i \in 1..s.len : x[i] \in S
    BY <1>1, <2>1, <2>2
  <2> QED BY <1>1, <2>1, <2>3, <2>4 DEF x, S
<1> QED BY <1>2, <1>3

LEMMA SeenReads ==
  ASSUME NEW heap, NEW s \in Slice, NEW field, Fits(heap, s, field),
         NEW list \in Seq(EntriesIn(field)), Len(list) = s.len, Reads(heap[s.array], list)
  PROVE  Seen(heap, s) = list
<1> DEFINE a == Seen(heap, s)
           S == EntriesIn(field)
<1>1. a \in Seq(S) /\ Len(a) = s.len /\ \A i \in 1..s.len : a[i] = heap[s.array][i]
  BY SeenEntries
<1> HIDE DEF a, S
<1>2. \A i \in 1..s.len : a[i] = list[i]
  BY <1>1 DEF Reads
<1>3. list \in Seq(S)
  BY DEF S
<1>4. a = list
  BY <1>1, <1>2, <1>3
<1> QED BY <1>4 DEF a

LEMMA SeenIsRead ==
  ASSUME NEW heap, NEW s \in Slice, NEW field, Fits(heap, s, field)
  PROVE  Reads(heap[s.array], Seen(heap, s))
BY SeenEntries DEF Reads

LEMMA SameSeen ==
  ASSUME NEW heap, NEW heap2, NEW s \in Slice, NEW field, Fits(heap, s, field),
         s.array # 0 => heap2[s.array] = heap[s.array]
  PROVE  Seen(heap2, s) = Seen(heap, s)
BY DEF Seen, Fits

-------------------------------------------------------------------------------------
(* What is stored, field by field.                                                        *)
LEMMA TypedAfter == HeapCore' => TypeOK'
<1>1. HeapCore => TypeOK
  BY CoreTyped
<1> QED BY <1>1, PTL

LEMMA StoredIs ==
  ASSUME HeapCore, NEW id \in DOMAIN reviews
  PROVE  /\ reviews[id] \in StoredReview /\ reviews[id].id = id /\ reviews[id].body \in ValidBodies
         /\ reviews[id].createdAt # ZeroTime
         /\ \A f \in Fields :
              /\ reviews[id][f] \in Slice /\ Fits(arrays, reviews[id][f], f)
              /\ reviews[id][f].len \in Nat
<1>1. /\ reviews[id] \in StoredReview /\ reviews[id].id = id /\ reviews[id].body \in ValidBodies
      /\ ReviewFits(arrays, reviews[id]) /\ ZeroTime < reviews[id].createdAt
  BY DEF HeapCore, StoredFits
<1>2. reviews[id].createdAt # ZeroTime
  BY <1>1 DEF StoredReview, Times, ZeroTime
<1>3. ASSUME NEW f \in Fields
      PROVE  /\ reviews[id][f] \in Slice /\ Fits(arrays, reviews[id][f], f)
             /\ reviews[id][f].len \in Nat
  <2>1. reviews[id][f] \in Slice /\ Fits(arrays, reviews[id][f], f)
    BY <1>1 DEF StoredReview, ReviewFits, Fields
  <2> QED BY <2>1 DEF Slice
<1> QED BY <1>1, <1>2, <1>3

(* Two reviews that agree in their forms and their lists are one.                          *)
LEMMA SameReview ==
  ASSUME NEW r \in ReviewType, NEW s \in ReviewType, SameForm(r, s), \A f \in Fields : r[f] = s[f]
  PROVE  r = s
<1>1. r.causes = s.causes /\ r.triggers = s.triggers
  BY DEF Fields
<1> QED BY <1>1 DEF ReviewType, SameForm

(* What is remembered is stored, but while a request has its stamp and has not written.       *)
Unwritten == \A p \in Goroutines : pc[p] # "write"

LEMMA LatestIsStored ==
  ASSUME Unwritten, NEW id
  PROVE  Latest(id) = reviews[id]
BY DEF Unwritten, Latest, Writers

LEMMA LatestIsOwn ==
  ASSUME OneAtATime, NEW p \in Goroutines, pc[p] = "write"
  PROVE  /\ Latest(own[p].review.id) = own[p].review
         /\ \A x : x # own[p].review.id => Latest(x) = reviews[x]
<1>1. \A q \in Goroutines : pc[q] = "write" => q = p
  BY DEF OneAtATime, Busy
<1>2. Writers(own[p].review.id) = {p}
  BY <1>1 DEF Writers
<1>3. \A x : x # own[p].review.id => Writers(x) = {}
  BY <1>1 DEF Writers
<1> QED BY <1>2, <1>3 DEF Latest

LEMMA LatestIs ==
  ASSUME HeapCore, OneAtATime, NEW id \in DOMAIN reviews
  PROVE  /\ Latest(id) \in StoredReview /\ Latest(id).id = id /\ Latest(id).body \in ValidBodies
         /\ Latest(id).createdAt # ZeroTime
         /\ \A f \in Fields :
              /\ Latest(id)[f] \in Slice /\ Fits(arrays, Latest(id)[f], f)
              /\ Latest(id)[f].array \in ArraysOf(reviews, own, id, f)
<1>1. CASE Latest(id) = reviews[id]
  BY <1>1, StoredIs, StoredArrays
<1>2. CASE Latest(id) # reviews[id]
  <2>1. PICK p \in Goroutines : pc[p] = "write" /\ own[p].review.id = id
    BY <1>2 DEF Latest, Writers
  <2>2. Latest(id) = own[p].review
    BY <2>1, LatestIsOwn
  <2> DEFINE r == own[p].review
  <2>3. /\ own[p] \in WorkType /\ r.id = id /\ r.body \in ValidBodies
        /\ r.createdAt = reviews[id].createdAt /\ ReviewFits(arrays, r)
    BY <2>1 DEF HeapCore, RequestFits, KnowsAt
  <2>4. r \in StoredReview
    BY <2>3 DEF WorkType
  <2>5. \A f \in Fields : r[f].array \in ArraysOf(reviews, own, id, f)
    BY <2>1 DEF ArraysOf
  <2>6. r.createdAt # ZeroTime
    BY <2>3, StoredIs
  <2> HIDE DEF r
  <2>7. \A f \in Fields : r[f] \in Slice /\ Fits(arrays, r[f], f)
    BY <2>3, <2>4 DEF StoredReview, ReviewFits, Fields
  <2>8. Latest(id) = r
    BY <2>2 DEF r
  <2> QED BY <2>3, <2>4, <2>5, <2>6, <2>7, <2>8
<1> QED BY <1>1, <1>2

(* A settled review shows what is stored or about to be.                                    *)
LEMMA ViewOf ==
  ASSUME NEW r \in StoredReview, ReviewFits(arrays, r)
  PROVE  /\ View(r) \in ReviewType /\ SameForm(View(r), r)
         /\ \A f \in Fields : View(r)[f] = Shown(r[f])
<1> DEFINE cs == Shown(r.causes)
           ts == Shown(r.triggers)
<1>1. r.causes \in Slice /\ r.triggers \in Slice
  BY DEF StoredReview
<1>2. cs \in Seq(BoundCause) /\ ts \in Seq(BoundTrigger)
  BY <1>1, ShownEntries DEF ReviewFits, EntriesIn
<1>3. View(r) = [r EXCEPT !.causes = cs, !.triggers = ts]
  BY DEF View
<1> HIDE DEF cs, ts
<1>4. [r EXCEPT !.causes = cs, !.triggers = ts] \in ReviewType
  BY <1>2 DEF StoredReview, ReviewType
<1>5. SameForm(View(r), r) /\ View(r).causes = cs /\ View(r).triggers = ts
  BY <1>3 DEF SameForm, StoredReview
<1> QED BY <1>3, <1>4, <1>5 DEF cs, ts, Fields

AllShown ==
  \A id \in DOMAIN reviews :
    /\ View(Latest(id)) \in ReviewType /\ SameForm(View(Latest(id)), Latest(id))
    /\ \A f \in Fields : View(Latest(id))[f] = Shown(Latest(id)[f])

LEMMA ViewsShow ==
  ASSUME HeapCore, OneAtATime
  PROVE  AllShown
<1> SUFFICES ASSUME NEW id \in DOMAIN reviews
             PROVE  /\ View(Latest(id)) \in ReviewType /\ SameForm(View(Latest(id)), Latest(id))
                    /\ \A f \in Fields : View(Latest(id))[f] = Shown(Latest(id)[f])
  BY DEF AllShown
<1>1. Latest(id) \in StoredReview /\ \A f \in Fields : Fits(arrays, Latest(id)[f], f)
  BY LatestIs
<1>2. ReviewFits(arrays, Latest(id))
  BY <1>1 DEF ReviewFits, Fields
<1> QED BY <1>1, <1>2, ViewOf

LEMMA ViewsShowAfter == HeapCore' /\ OneAtATime' => AllShown'
<1>1. HeapCore /\ OneAtATime => AllShown
  BY ViewsShow
<1> QED BY <1>1, PTL

(* When nothing is under way, or all that is has taken its effect, what is remembered is    *)
(* what the reviews show.                                                                *)
LEMMA SettledShows ==
  ASSUME SerialInv, Settled
  PROVE  settled.reviews = [id \in DOMAIN reviews |-> View(Latest(id))]
<1>1. settled.reviews \in [DOMAIN reviews -> ReviewType]
  BY DEF SerialInv, Remembers
<1>2. ASSUME NEW id \in DOMAIN reviews
      PROVE  settled.reviews[id] = View(Latest(id))
  <2>1. View(Latest(id)) \in ReviewType /\ SameForm(View(Latest(id)), Latest(id))
        /\ \A f \in Fields : View(Latest(id))[f] = Shown(Latest(id)[f])
    BY ViewsShow DEF AllShown, SerialInv
  <2>2. SameForm(settled.reviews[id], Latest(id))
    BY DEF SerialInv, Remembers
  <2>3. \A f \in Fields : settled.reviews[id][f] = Shown(Latest(id)[f])
    BY DEF SerialInv, Remembers, Settled, InWork, Ahead
  <2>4. SameForm(settled.reviews[id], View(Latest(id)))
    BY <2>1, <2>2 DEF SameForm
  <2> QED BY <1>1, <2>1, <2>3, <2>4, SameReview
<1> QED BY <1>1, <1>2

(* A step after which nothing is under way that has not taken its effect is remembered.      *)
LEMMA SettlesDown ==
  ASSUME HeapCore', OneAtATime', Settled', settled' = Now'
  PROVE  SerialInv'
<1>1. /\ settled'.reviews = [id \in DOMAIN reviews' |-> View(Latest(id))']
      /\ settled'.lastID = lastID' /\ settled'.outcome = Told'
  BY DEF Now
<1>2. \A id \in DOMAIN reviews' :
        /\ settled'.reviews[id] \in ReviewType /\ SameForm(settled'.reviews[id], Latest(id)')
        /\ \A f \in Fields : settled'.reviews[id][f] = Shown(Latest(id)[f])'
  BY <1>1, ViewsShowAfter DEF AllShown
<1>3. settled'.reviews \in [DOMAIN reviews' -> ReviewType]
  BY <1>1, <1>2
<1>4. settled'.lastID \in Nat
  <2>1. lastID' \in 2..MaxID
    BY DEF HeapCore, Counters
  <2> QED BY <1>1, <2>1, RequestsAssumption
<1>5. Remembers'
  BY <1>1, <1>2, <1>3, <1>4 DEF Remembers
<1>6. \A p \in Busy' : pc'[p] \notin Ahead
  BY DEF Settled, Ahead
<1> QED BY <1>5, <1>6 DEF SerialInv

(* What is remembered while no request has its stamp.                                       *)
LEMMA NobodyWrites ==
  ASSUME OneAtATime, Busy = {} \/ \E p \in Busy : pc[p] # "write"
  PROVE  Unwritten
BY DEF OneAtATime, Busy, Unwritten

LEMMA StoredRemembered ==
  ASSUME Remembers, Unwritten
  PROVE  \A id \in DOMAIN reviews :
           /\ SameForm(settled.reviews[id], reviews[id])
           /\ \A f \in Fields :
                settled.reviews[id][f] = Shown(reviews[id][f]) \/ InWork(id, f)
BY LatestIsStored DEF Remembers

AllStored == \A id \in DOMAIN reviews : Latest(id) = reviews[id]

LEMMA StoredAfter == Unwritten' => AllStored'
<1>1. Unwritten => AllStored
  BY LatestIsStored DEF AllStored
<1> QED BY <1>1, PTL

LEMMA RemembersStored ==
  ASSUME Unwritten',
         settled'.reviews \in [DOMAIN reviews' -> ReviewType] /\ settled'.lastID \in Nat,
         \A id \in DOMAIN reviews' : SameForm(settled'.reviews[id], reviews'[id]),
         \A id \in DOMAIN reviews', f \in Fields :
           settled'.reviews[id][f] = Shown(reviews[id][f])' \/ InWork(id, f)',
         Settled' => settled'.lastID = lastID' /\ settled'.outcome = Told'
  PROVE  Remembers'
<1>1. \A id \in DOMAIN reviews' : Latest(id)' = reviews'[id]
  BY StoredAfter DEF AllStored
<1>2. \A id \in DOMAIN reviews', f \in Fields : Shown(Latest(id)[f])' = Shown(reviews[id][f])'
  BY <1>1 DEF Shown
<1> QED BY <1>1, <1>2 DEF Remembers

(* What others do to a list.                                                              *)
LEMMA ListStays ==
  ASSUME HeapCore, reviews' = reviews, NEW id \in DOMAIN reviews, NEW f \in Fields,
         reviews[id][f].array # 0 => arrays'[reviews[id][f].array] = arrays[reviews[id][f].array]
  PROVE  Shown(reviews[id][f])' = Shown(reviews[id][f])
<1> DEFINE s == reviews[id][f]
<1>1. s \in Slice /\ Fits(arrays, s, f)
  BY StoredIs
<1>2. Seen(arrays', s) = Seen(arrays, s)
  BY <1>1, SameSeen
<1>3. Shown(reviews[id][f])' = Seen(arrays', s) /\ Shown(reviews[id][f]) = Seen(arrays, s)
  BY DEF Shown, Seen
<1> QED BY <1>2, <1>3

LEMMA OtherListsStay ==
  ASSUME HeapCore, reviews' = reviews, NEW p \in Goroutines, pc[p] # "idle",
         \A a \in 1..MaxArrays \ {own[p].slice.array} : arrays'[a] = arrays[a],
         NEW id \in DOMAIN reviews, NEW f \in Fields,
         ~ (own[p].review.id = id /\ Field(own[p].op) = f)
  PROVE  Shown(reviews[id][f])' = Shown(reviews[id][f])
<1>1. own[p].review.id \in DOMAIN reviews
  BY AtWork
<1>2. /\ Field(own[p].op) \in Fields
      /\ own[p].slice.array \in ArraysOf(reviews, own, own[p].review.id, Field(own[p].op))
  BY OwnArrays, FieldOfOp
<1>3. reviews[id][f].array \in ArraysOf(reviews, own, id, f)
  BY StoredArrays
<1>4. reviews[id][f].array \in 0..MaxArrays
  BY <1>3, PointedArrays
<1>5. reviews[id][f].array # 0 => reviews[id][f].array # own[p].slice.array
  BY <1>1, <1>2, <1>3 DEF HeapCore, Apart
<1>6. reviews[id][f].array # 0 => reviews[id][f].array \in 1..MaxArrays
  BY <1>4, ArraysAssumption
<1> QED BY <1>5, <1>6, ListStays

LEMMA SweptLists ==
  ASSUME HeapCore, reviews' = reviews, arrays' = Swept(arrays), NEW id \in DOMAIN reviews, NEW f \in Fields
  PROVE  Shown(reviews[id][f])' = Shown(reviews[id][f])
<1>1. Untouched(id)
  BY SweptUntouched
<1>2. /\ reviews[id][f].array \in ArraysOf(reviews, own, id, f)
      /\ reviews[id][f].array \in ArraysOf(reviews', own', id, f)
  BY StoredArrays
<1> QED BY <1>1, <1>2, ListStays DEF Untouched

-------------------------------------------------------------------------------------
(* Steps that show nothing: a request begins or goes on.                                   *)
Noted == settled' = IF Settled' THEN Now' ELSE settled

LEMMA BusyAfter ==
  ASSUME HeapCore, NEW p \in Goroutines, NEW l, pc' = [pc EXCEPT ![p] = l],
         Busy \subseteq {p}
  PROVE  Busy' = IF l = "idle" THEN {} ELSE {p}
<1>1. pc \in [Goroutines -> PCs]
  BY DEF HeapCore
<1>2. pc'[p] = l /\ \A q \in Goroutines \ {p} : pc'[q] = pc[q]
  BY <1>1
<1>3. \A q \in Goroutines \ {p} : pc[q] = "idle"
  BY DEF Busy
<1> QED BY <1>2, <1>3 DEF Busy

LEMMA Alone ==
  ASSUME OneAtATime, NEW p \in Busy
  PROVE  Busy = {p} /\ p \in Goroutines /\ pc[p] # "idle"
BY DEF OneAtATime, Busy

LEMMA UnderWay ==
  ASSUME SerialInv, HeapCore', Noted, NEW p \in Goroutines, Busy \subseteq {p},
         NEW l \in Ahead, NEW v,
         pc' = [pc EXCEPT ![p] = l], own' = [own EXCEPT ![p] = v],
         reviews' = reviews, Unwritten,
         \A id \in DOMAIN reviews, f \in Fields :
           \/ v.op # "form" /\ v.review.id = id /\ Field(v.op) = f
           \/ ~ InWork(id, f) /\ Shown(reviews[id][f])' = Shown(reviews[id][f]),
         Working(l, v)'
  PROVE  SerialInv' /\ settled' = settled
<1>1. pc \in [Goroutines -> PCs] /\ own \in [Goroutines -> WorkType \cup {NoWork}]
  BY DEF SerialInv, HeapCore
<1>2. Busy' = {p} /\ pc'[p] = l /\ own'[p] = v
  BY <1>1, BusyAfter DEF SerialInv, Ahead
<1>3. ~ Settled' /\ OneAtATime' /\ Unwritten'
  BY <1>2 DEF Settled, OneAtATime, Unwritten, Busy, Ahead
<1>4. settled' = settled
  BY <1>3 DEF Noted
<1>5. /\ settled.reviews \in [DOMAIN reviews -> ReviewType] /\ settled.lastID \in Nat
      /\ \A id \in DOMAIN reviews : SameForm(settled.reviews[id], reviews[id])
      /\ \A id \in DOMAIN reviews, f \in Fields :
           settled.reviews[id][f] = Shown(reviews[id][f]) \/ InWork(id, f)
  <2>1. Remembers
    BY DEF SerialInv
  <2> QED BY <2>1, StoredRemembered DEF Remembers
<1>6. ASSUME NEW id \in DOMAIN reviews, NEW f \in Fields
      PROVE  settled.reviews[id][f] = Shown(reviews[id][f])' \/ InWork(id, f)'
  <2>1. CASE v.op # "form" /\ v.review.id = id /\ Field(v.op) = f
    BY <1>2, <2>1 DEF InWork
  <2>2. CASE ~ InWork(id, f) /\ Shown(reviews[id][f])' = Shown(reviews[id][f])
    BY <1>5, <2>2
  <2> QED BY <2>1, <2>2
<1>7. Remembers'
  BY <1>3, <1>4, <1>5, <1>6, RemembersStored
<1>8. (\A q \in Busy : pc[q] \in Ahead => Working(pc[q], own[q]))'
  <2> SUFFICES ASSUME NEW q \in Busy' PROVE Working(pc[q], own[q])'
    OBVIOUS
  <2>1. q = p
    BY <1>2
  <2>2. pc'[q] = l /\ own'[q] = v
    BY <1>2, <2>1
  <2> QED BY <2>2 DEF Working, Found
<1> QED BY <1>3, <1>4, <1>7, <1>8 DEF SerialInv

(* A request of which we know how far it is goes on in its loops.                          *)
LEMMA GoesOnSerially ==
  ASSUME SerialInv, HeapCore', Noted, NEW p \in Busy, pc[p] \in Ahead, own[p].op # "form",
         NEW l \in Ahead, NEW v,
         pc' = [pc EXCEPT ![p] = l], own' = [own EXCEPT ![p] = v],
         v.op = own[p].op, v.review = own[p].review, v.entry = own[p].entry,
         reviews' = reviews,
         \A id \in DOMAIN reviews, f \in Fields :
           \/ own[p].review.id = id /\ Field(own[p].op) = f
           \/ Shown(reviews[id][f])' = Shown(reviews[id][f]),
         Progress(l, v, arrays'[v.slice.array], Found(own[p]), settled.lastID),
         lastID' = IF l = "save" /\ Fresh(v) THEN settled.lastID + 1 ELSE settled.lastID
  PROVE  SerialInv' /\ settled' = settled
<1> DEFINE w == own[p]
<1>1. Busy = {p} /\ p \in Goroutines
  BY Alone DEF SerialInv
<1>2. Working(pc[p], w)
  BY DEF SerialInv
<1>3. \A id \in DOMAIN reviews, f \in Fields :
        InWork(id, f) => w.review.id = id /\ Field(w.op) = f
  BY <1>1 DEF InWork
<1>4. settled' = settled
  <2>1. pc \in [Goroutines -> PCs]
    BY DEF SerialInv, HeapCore
  <2>2. pc'[p] = l /\ p \in Busy'
    BY <1>1, <2>1 DEF Busy, Ahead
  <2> QED BY <2>2 DEF Noted, Settled, Ahead
<1>5. /\ w.review = reviews[w.review.id]
      /\ Len(Found(w)) = w.review[Field(w.op)].len
      /\ Asks(w, Found(w))
  BY <1>2 DEF Working
<1>6. Asks(v, Found(w))
  BY <1>5 DEF Asks
<1>7. Found(v)' = Found(w)
  BY <1>4 DEF Found
<1>8. Working(l, v)'
  BY <1>4, <1>5, <1>6, <1>7 DEF Working
<1>9. Unwritten
  BY NobodyWrites DEF SerialInv, Ahead
<1> QED BY <1>1, <1>3, <1>8, <1>9, UnderWay

LEMMA ArrivesSerially ==
  ASSUME SerialInv, HeapCore', Noted, NEW p \in Goroutines, Busy = {},
         NEW l \in Ahead, NEW v,
         pc' = [pc EXCEPT ![p] = l], own' = [own EXCEPT ![p] = v],
         UNCHANGED <<reviews, arrays, lastID>>,
         settled' = settled => Working(l, v)'
  PROVE  SerialInv' /\ settled' = settled
<1>1. \A id \in DOMAIN reviews, f \in Fields :
        ~ InWork(id, f) /\ Shown(reviews[id][f])' = Shown(reviews[id][f])
  BY DEF InWork, Shown
<1>2. settled' = settled
  <2>1. pc \in [Goroutines -> PCs]
    BY DEF SerialInv, HeapCore
  <2>2. pc'[p] = l /\ p \in Busy'
    BY <2>1 DEF Busy, Ahead
  <2> QED BY <2>2 DEF Noted, Settled, Ahead
<1>3. Unwritten
  BY NobodyWrites DEF SerialInv
<1> QED BY <1>1, <1>2, <1>3, UnderWay

(* The memory between two requests is what is stored.                                       *)
LEMMA Between ==
  ASSUME SerialInv, Busy = {}
  PROVE  /\ Settled /\ settled.lastID = lastID
         /\ \A id \in DOMAIN reviews, f \in Fields :
              settled.reviews[id][f] = Shown(reviews[id][f])
<1>1. Settled /\ Unwritten
  BY NobodyWrites DEF Settled, SerialInv
<1>2. \A id, f : ~ InWork(id, f)
  BY DEF InWork
<1> QED BY <1>1, <1>2, StoredRemembered DEF SerialInv, Remembers

LEMMA ReceiveSerially ==
  ASSUME SerialInv, HeapCore', Noted, Busy = {}, NEW p \in Goroutines, NEW id \in DOMAIN reviews,
         NEW op, NEW entry, NEW label, Receive(p, id, op, entry, label),
         \/ op \in Updates /\ label = "find"
         \/ op = "bind" /\ label = "load"
         \/ op = "bindTrigger" /\ label = "append",
         NEW w, w = WorkOf(op, reviews[id], entry, reviews[id][Field(op)]),
         Asks(w, Shown(reviews[id][Field(op)]))
  PROVE  SerialInv' /\ settled' = settled
<1> DEFINE f == Field(op)
           base == Shown(reviews[id][Field(op)])
<1>1. own' = [own EXCEPT ![p] = w] /\ pc' = [pc EXCEPT ![p] = label]
      /\ UNCHANGED <<reviews, arrays, lastID, clock, outcome>>
  <2>1. own' = [own EXCEPT ![p] =
                 [NoWork EXCEPT !.op = op, !.review = reviews[id], !.entry = entry,
                                !.slice = reviews[id][Field(op)], !.i = 1]]
    BY DEF Receive
  <2>2. own' = [own EXCEPT ![p] = w]
    BY <2>1, Started, Zenon
  <2> QED BY <2>2 DEF Receive, Goto
<1>2. /\ w.op = op /\ w.review = reviews[id] /\ w.entry = entry /\ w.slice = reviews[id][f] /\ w.i = 1
  BY DEF WorkOf
<1>3. /\ reviews[id].id = id /\ f \in Fields /\ reviews[id][f] \in Slice
      /\ Fits(arrays, reviews[id][f], f)
  BY StoredIs, FieldOfOp DEF SerialInv
<1>4. settled.reviews[id][f] = base /\ settled.lastID = lastID
  BY <1>3, Between
<1>5. /\ base \in Seq(EntriesIn(f)) /\ Len(base) = reviews[id][f].len
      /\ Reads(arrays[reviews[id][f].array], base)
  <2>1. base = Seen(arrays, reviews[id][f])
    BY ShownIsSeen
  <2> QED BY <1>3, <2>1, SeenEntries, SeenIsRead
<1> HIDE DEF base, f
<1>6. Progress(label, w, arrays[w.slice.array], base, lastID)
  BY <1>2, <1>5, RequestBegins DEF f
<1>7. Found(w) = base
  BY <1>2, <1>3, <1>4 DEF Found, f
<1>8. op # "form" /\ label \in Ahead /\ label # "save"
  BY DEF Updates, Ahead
<1>9. settled' = settled => Working(label, w)'
  <2> SUFFICES ASSUME settled' = settled PROVE Working(label, w)'
    OBVIOUS
  <2>1. Found(w)' = base
    BY <1>7 DEF Found
  <2>2. w.review = reviews'[w.review.id] /\ Len(base) = w.review[Field(w.op)].len
    BY <1>1, <1>2, <1>3, <1>5 DEF f
  <2>3. Asks(w, base)
    BY DEF base, f
  <2>4. Progress(label, w, arrays'[w.slice.array], base, settled'.lastID)
    BY <1>1, <1>4, <1>6
  <2>5. lastID' = settled'.lastID
    BY <1>1, <1>4
  <2> QED BY <1>2, <1>8, <2>1, <2>2, <2>3, <2>4, <2>5 DEF Working
<1> QED BY <1>1, <1>8, <1>9, ArrivesSerially

-------------------------------------------------------------------------------------
(* The steps of the loops.                                                                  *)
Loops == {"find", "shift", "load", "store", "append"}

LEMMA FoundTyped ==
  ASSUME SerialInv, NEW w, w.review.id \in DOMAIN reviews
  PROVE  Found(w) \in Seq(EntriesIn(Field(w.op))) /\ Len(Found(w)) \in Nat
<1>1. settled.reviews[w.review.id] \in ReviewType
  BY DEF SerialInv, Remembers
<1>2. Field(w.op) \in {"causes", "triggers"}
  BY FieldOfOp
<1>3. Found(w) \in Seq(EntriesIn(Field(w.op)))
  BY <1>1, <1>2 DEF ReviewType, EntriesIn, Found
<1> QED BY <1>3

LEMMA UnderWayIs ==
  ASSUME SerialInv, NEW p \in Busy, pc[p] \in Ahead, own[p].op # "form"
  PROVE  /\ own[p].review = reviews[own[p].review.id]
         /\ own[p].review.id \in DOMAIN reviews
         /\ Found(own[p]) \in Seq(EntriesIn(Field(own[p].op)))
         /\ Len(Found(own[p])) \in Nat
         /\ Len(Found(own[p])) = own[p].review[Field(own[p].op)].len
         /\ Asks(own[p], Found(own[p]))
         /\ Progress(pc[p], own[p], arrays[own[p].slice.array], Found(own[p]), settled.lastID)
         /\ lastID = IF pc[p] = "save" /\ Fresh(own[p]) THEN settled.lastID + 1 ELSE settled.lastID
<1>1. Working(pc[p], own[p])
  BY DEF SerialInv
<1>2. own[p].review.id \in DOMAIN reviews
  BY AtWork DEF SerialInv, Busy
<1>3. Found(own[p]) \in Seq(EntriesIn(Field(own[p].op))) /\ Len(Found(own[p])) \in Nat
  BY <1>2, FoundTyped
<1> QED BY <1>1, <1>2, <1>3 DEF Working

LEMMA InALoop ==
  ASSUME SerialInv, NEW p \in Goroutines, pc[p] \in Loops
  PROVE  /\ p \in Busy /\ pc[p] \in Ahead /\ own[p].op # "form"
         /\ Found(own[p]) \in Seq(EntriesIn(Field(own[p].op)))
         /\ Len(Found(own[p])) \in Nat
         /\ Asks(own[p], Found(own[p]))
         /\ Progress(pc[p], own[p], arrays[own[p].slice.array], Found(own[p]), settled.lastID)
         /\ lastID = settled.lastID
         /\ own[p].slice.array # 0 => Len(Found(own[p])) <= Len(arrays[own[p].slice.array])
<1>1. p \in Busy /\ pc[p] \in Ahead /\ pc[p] # "save"
  BY DEF Loops, Busy, Ahead
<1>2. own[p].op # "form"
  <2>1. Working(pc[p], own[p])
    BY <1>1 DEF SerialInv
  <2> QED BY <1>1, <2>1 DEF Working
<1> DEFINE f == Field(own[p].op)
<1>3. own[p].review = reviews[own[p].review.id] /\ own[p].review.id \in DOMAIN reviews
      /\ Len(Found(own[p])) = own[p].review[f].len
  BY <1>1, <1>2, UnderWayIs
<1>4. own[p].slice.array = own[p].review[f].array
  <2>1. KnowsAt(pc[p], own[p])
    BY <1>1, AtWork DEF SerialInv, Busy
  <2> QED BY <2>1 DEF KnowsAt, Loops
<1>5. Fits(arrays, own[p].review[f], f)
  BY <1>3, StoredIs, FieldOfOp DEF SerialInv
<1>6. own[p].slice.array # 0 => Len(Found(own[p])) <= Len(arrays[own[p].slice.array])
  BY <1>3, <1>4, <1>5 DEF Fits
<1> QED BY <1>1, <1>2, <1>6, UnderWayIs

LEMMA SameLists ==
  ASSUME UNCHANGED <<reviews, arrays>>, NEW id, NEW f
  PROVE  Shown(reviews[id][f])' = Shown(reviews[id][f])
BY DEF Shown

(* A loop goes on without a write ...                                                       *)
LEMMA LooksSerially ==
  ASSUME SerialInv, HeapCore', Noted, NEW p \in Goroutines, pc[p] \in Loops,
         NEW l \in Loops, NEW v,
         pc' = [pc EXCEPT ![p] = l], own' = [own EXCEPT ![p] = v],
         v.op = own[p].op, v.review = own[p].review, v.entry = own[p].entry,
         v.slice = own[p].slice,
         UNCHANGED <<reviews, arrays, lastID>>,
         Progress(l, v, arrays[own[p].slice.array], Found(own[p]), settled.lastID)
  PROVE  SerialInv' /\ settled' = settled
<1>1. p \in Busy /\ pc[p] \in Ahead /\ own[p].op # "form" /\ lastID = settled.lastID
  BY InALoop
<1>2. l \in Ahead /\ l # "save"
  BY DEF Loops, Ahead
<1>3. \A id \in DOMAIN reviews, f \in Fields : Shown(reviews[id][f])' = Shown(reviews[id][f])
  BY SameLists
<1>4. Progress(l, v, arrays'[v.slice.array], Found(own[p]), settled.lastID)
  OBVIOUS
<1>5. reviews' = reviews /\ lastID' = settled.lastID
  BY <1>1
<1> QED BY <1>1, <1>2, <1>3, <1>4, <1>5, GoesOnSerially

(* ... or with a write to its array.                                                        *)
LEMMA WritesSerially ==
  ASSUME SerialInv, HeapCore', Noted, NEW p \in Goroutines, pc[p] \in Loops,
         NEW l \in Ahead, NEW v,
         pc' = [pc EXCEPT ![p] = l], own' = [own EXCEPT ![p] = v],
         v.op = own[p].op, v.review = own[p].review, v.entry = own[p].entry,
         v.slice.array = own[p].slice.array,
         reviews' = reviews,
         \A a \in 1..MaxArrays \ {own[p].slice.array} : arrays'[a] = arrays[a],
         Progress(l, v, arrays'[own[p].slice.array], Found(own[p]), settled.lastID),
         lastID' = IF l = "save" /\ Fresh(v) THEN settled.lastID + 1 ELSE settled.lastID
  PROVE  SerialInv' /\ settled' = settled
<1>1. p \in Busy /\ pc[p] \in Ahead /\ own[p].op # "form" /\ pc[p] # "idle"
  BY InALoop DEF Busy
<1>2. \A id \in DOMAIN reviews, f \in Fields :
        \/ own[p].review.id = id /\ Field(own[p].op) = f
        \/ Shown(reviews[id][f])' = Shown(reviews[id][f])
  BY <1>1, OtherListsStay DEF SerialInv
<1>3. Progress(l, v, arrays'[v.slice.array], Found(own[p]), settled.lastID)
  OBVIOUS
<1> QED BY <1>1, <1>2, <1>3, GoesOnSerially

LEMMA WrittenAt ==
  ASSUME HeapCore, NEW p \in Goroutines, pc[p] # "idle", own[p].slice.array # 0,
         NEW k \in 1..Len(arrays[own[p].slice.array]), NEW e,
         arrays' = Written(own[p].slice, k, e)
  PROVE  LET a == own[p].slice.array IN
         /\ arrays'[a][k] = e
         /\ \A j \in 1..Len(arrays[a]) : j # k => arrays'[a][j] = arrays[a][j]
         /\ \A b \in 1..MaxArrays \ {a} : arrays'[b] = arrays[b]
<1> DEFINE a == own[p].slice.array
           x == arrays[a]
<1>1. a \in 1..MaxArrays
  BY AtWork, ArraysAssumption
<1>2. DOMAIN arrays = 1..MaxArrays /\ x \in Seq(BoundCause) \cup Seq(BoundTrigger)
  BY <1>1 DEF HeapCore
<1>3. DOMAIN x = 1..Len(x)
  BY <1>2
<1>4. arrays' = [arrays EXCEPT ![a] = [x EXCEPT ![k] = e]]
  BY DEF Written
<1> QED BY <1>1, <1>2, <1>3, <1>4

LEMMA FindSerially ==
  ASSUME SerialInv, HeapCore', Noted, NEW p \in Goroutines, Find(p)
  PROVE  SerialInv' /\ settled' = settled
<1> DEFINE w == own[p]
           base == Found(own[p])
           x == arrays[own[p].slice.array]
<1>1. pc[p] = "find" /\ pc[p] \in Loops /\ pc[p] # "idle"
  BY DEF Find, Loops
<1>2. /\ w.i \in Nat /\ w.slice.len \in Nat /\ w.i >= 1 /\ w \in WorkType /\ w.op \in Updates
      /\ DOMAIN own = Goroutines /\ pc \in [Goroutines -> PCs]
  BY <1>1, AtWork DEF KnowsAt, SerialInv, HeapCore
<1>3. /\ Progress("find", w, x, base, settled.lastID) /\ Len(base) \in Nat
      /\ Holds(base, w.entry.id) /\ base \in Seq(EntriesIn(Field(w.op)))
  BY <1>1, <1>2, InALoop DEF Asks
<1>4. w.slice.len = Len(base) /\ \A j \in 1..Len(base) : j < w.i => base[j].id # w.entry.id
  BY <1>3 DEF Progress
<1>5. w.i <= w.slice.len
  <2>1. PICK j \in DOMAIN base : base[j].id = w.entry.id
    BY <1>3 DEF Holds
  <2>2. j \in 1..Len(base)
    BY <1>3, <2>1
  <2> QED BY <1>2, <1>4, <2>1, <2>2
<1>6. CASE x[w.i].id # w.entry.id
  <2> DEFINE v == [w EXCEPT !.i = @ + 1]
  <2>1. own' = [own EXCEPT ![p] = v] /\ UNCHANGED <<reviews, arrays, pc, lastID>>
    <3>1. Elem(w.slice, w.i).id # w.entry.id
      BY <1>6 DEF Elem
    <3>2. own' = [own EXCEPT ![p].i = @ + 1] /\ UNCHANGED <<reviews, arrays, pc, lastID>>
      BY <1>2, <1>5, <3>1 DEF Find
    <3> QED BY <1>2, <3>2
  <2>2. pc' = [pc EXCEPT ![p] = "find"]
    BY <1>1, <1>2, <2>1
  <2>3. /\ v.op = w.op /\ v.review = w.review /\ v.entry = w.entry /\ v.slice = w.slice
        /\ v.i = w.i + 1
    BY <1>2 DEF WorkType
  <2> HIDE DEF v, w, base, x
  <2>4. Progress("find", v, x, base, settled.lastID)
    BY <1>2, <1>3, <1>5, <1>6, <2>3, FindGoesOn
  <2> QED BY <1>1, <2>1, <2>2, <2>3, <2>4, LooksSerially DEF Loops, w, base, x
<1>7. CASE x[w.i].id = w.entry.id
  <2> DEFINE mid == [w EXCEPT !.gap = w.i]
             v == [mid EXCEPT !.i = w.i + 1]
  <2>1. /\ own' = [own EXCEPT ![p].gap = w.i, ![p].i = @ + 1]
        /\ pc' = [pc EXCEPT ![p] = "shift"] /\ UNCHANGED <<reviews, arrays, lastID>>
    BY <1>2, <1>5, <1>7 DEF Find, Elem, Goto
  <2>2. own' = [own EXCEPT ![p] = [w EXCEPT !.gap = w.i, !.i = @ + 1]]
    BY <1>2, <2>1, AssignedTwice
  <2>3. [w EXCEPT !.gap = w.i, !.i = @ + 1] = v
    BY <1>2 DEF WorkType
  <2>4. own' = [own EXCEPT ![p] = v]
    BY <2>2, <2>3
  <2>5. /\ v.op = w.op /\ v.review = w.review /\ v.entry = w.entry /\ v.slice = w.slice
        /\ v.i = w.i + 1 /\ v.gap = w.i
    <3>1. v = MovedTo(w, w.i, w.i + 1)
      BY <1>2 DEF MovedTo, WorkType
    <3> QED BY <1>2, <3>1, MovedIndexes
  <2> HIDE DEF v, w, base, x
  <2>6. Progress("shift", v, x, base, settled.lastID)
    BY <1>2, <1>3, <1>5, <1>7, <2>5, FindIsOver
  <2> QED BY <1>1, <2>1, <2>4, <2>5, <2>6, LooksSerially DEF Loops, w, base, x
<1> QED BY <1>6, <1>7

LEMMA ShiftSerially ==
  ASSUME SerialInv, HeapCore', Noted, NEW p \in Goroutines, Shift(p)
  PROVE  SerialInv' /\ settled' = settled
<1> DEFINE w == own[p]
           base == Found(own[p])
           a == own[p].slice.array
           x == arrays[own[p].slice.array]
           n == w.slice.len
<1>1. pc[p] = "shift" /\ pc[p] \in Loops /\ pc[p] # "idle"
  BY DEF Shift, Loops
<1>2. /\ w.i \in Nat /\ n \in Nat /\ w.i >= 1 /\ w \in WorkType /\ w.op \in Updates
      /\ w.gap \in Nat /\ w.gap >= 1 /\ w.gap < w.i /\ w.i <= n + 1
      /\ w.slice \in Slice
      /\ DOMAIN own = Goroutines /\ pc \in [Goroutines -> PCs]
  BY <1>1, AtWork DEF KnowsAt, SerialInv, HeapCore
<1>3. /\ Progress("shift", w, x, base, settled.lastID) /\ Len(base) \in Nat
      /\ base \in Seq(EntriesIn(Field(w.op))) /\ lastID = settled.lastID
  BY <1>1, InALoop
<1>4. n = Len(base)
  BY <1>3 DEF Progress
<1>5. w.gap \in 1..n
  BY <1>2
<1>6. a \in 1..MaxArrays /\ Len(x) \in Nat /\ n <= Len(x) /\ x \in Seq(EntriesIn(Field(w.op)))
  BY <1>1, <1>5, ReadEntry DEF SerialInv
<1>7. a # 0 /\ w.gap \in 1..Len(x) /\ \A j \in 1..n : j \in 1..Len(x)
  BY <1>2, <1>5, <1>6
<1>8. CASE w.i <= n /\ x[w.i].id # w.entry.id
  <2> DEFINE v == [w EXCEPT !.gap = @ + 1, !.i = @ + 1]
  <2>1. /\ arrays' = Written(w.slice, w.gap, x[w.i])
        /\ own' = [own EXCEPT ![p].gap = @ + 1, ![p].i = @ + 1]
        /\ UNCHANGED <<reviews, pc, lastID>>
    <3>1. Elem(w.slice, w.i) = x[w.i] /\ ~ (w.i > n)
      BY <1>2, <1>8 DEF Elem
    <3>2. Elem(w.slice, w.i).id # w.entry.id
      BY <1>8, <3>1
    <3> QED BY <3>1, <3>2 DEF Shift
  <2>2. own' = [own EXCEPT ![p] = v]
    BY <1>2, <2>1, AssignedTwice
  <2>3. pc' = [pc EXCEPT ![p] = "shift"]
    BY <1>1, <1>2, <2>1
  <2>4. v = MovedTo(w, w.gap + 1, w.i + 1)
    BY <1>2 DEF MovedTo, WorkType
  <2>5. w.gap + 1 \in Nat /\ w.i + 1 \in Nat
    BY <1>2
  <2>6. /\ v.op = w.op /\ v.review = w.review /\ v.entry = w.entry /\ v.slice = w.slice
        /\ v.i = w.i + 1 /\ v.gap = w.gap + 1
    <3> HIDE DEF w
    <3>1. PICK g \in Nat, k \in Nat : g = w.gap + 1 /\ k = w.i + 1
      BY <2>5
    <3> DEFINE new == MovedTo(w, g, k)
    <3>2. /\ new.gap = g /\ new.i = k
          /\ new.op = w.op /\ new.review = w.review /\ new.entry = w.entry /\ new.slice = w.slice
      <4>1. w \in WorkType
        BY <1>2
      <4> QED BY <4>1, MovedIndexes, ZenonT(40)
    <3>3. v = new
      BY <2>4, <3>1
    <3> HIDE DEF v, new, w
    <3> QED BY <3>1, <3>2, <3>3
  <2> HIDE DEF v
  <2>7. /\ arrays'[a][w.gap] = x[w.i]
        /\ \A j \in 1..Len(x) : j # w.gap => arrays'[a][j] = x[j]
        /\ \A b \in 1..MaxArrays \ {a} : arrays'[b] = arrays[b]
    BY <1>1, <1>7, <2>1, WrittenAt DEF SerialInv
  <2>8. \A j \in 1..Len(base) : j # w.gap => arrays'[a][j] = x[j]
    BY <1>4, <1>7, <2>7
  <2>9. Progress("shift", v, arrays'[a], base, settled.lastID)
    <3> HIDE DEF w, base, x, n, a
    <3>1. w.i <= w.slice.len
      BY <1>8 DEF n
    <3> QED BY <1>2, <1>3, <1>8, <2>6, <2>7, <2>8, <3>1, ShiftMoves
  <2>10. lastID' = IF "shift" = "save" /\ Fresh(v) THEN settled.lastID + 1 ELSE settled.lastID
    BY <1>3, <2>1
  <2>11. reviews' = reviews /\ "shift" \in Ahead /\ v.slice.array = own[p].slice.array
    BY <2>1, <2>6 DEF Ahead
  <2> QED BY <1>1, <2>2, <2>3, <2>6, <2>7, <2>9, <2>10, <2>11, WritesSerially
<1>9. CASE w.i <= n /\ x[w.i].id = w.entry.id
  <2> DEFINE v == [w EXCEPT !.i = @ + 1]
  <2>1. own' = [own EXCEPT ![p] = v] /\ UNCHANGED <<reviews, arrays, pc, lastID>>
    <3>1. own' = [own EXCEPT ![p].i = @ + 1] /\ UNCHANGED <<reviews, arrays, pc, lastID>>
      BY <1>2, <1>9 DEF Shift, Elem
    <3> QED BY <1>2, <3>1
  <2>2. pc' = [pc EXCEPT ![p] = "shift"]
    BY <1>1, <1>2, <2>1
  <2>3. /\ v.op = w.op /\ v.review = w.review /\ v.entry = w.entry /\ v.slice = w.slice
        /\ v.i = w.i + 1 /\ v.gap = w.gap
    BY <1>2 DEF WorkType
  <2> HIDE DEF v
  <2>4. Progress("shift", v, x, base, settled.lastID)
    <3> HIDE DEF w, base, x, n
    <3>1. w.i <= w.slice.len
      BY <1>9 DEF n
    <3> QED BY <1>2, <1>3, <1>9, <2>3, <3>1, ShiftSkips
  <2> QED BY <1>1, <2>1, <2>2, <2>3, <2>4, LooksSerially
<1>10. CASE w.i > n
  <2> DEFINE v == [w EXCEPT !.slice.len = w.gap - 1, !.i = 1, !.gap = 0]
             l == IF Field(w.op) = "causes" THEN "load" ELSE "append"
             y == [i \in DOMAIN x |-> IF i \in w.gap..n THEN BlankIn(Field(w.op)) ELSE x[i]]
  <2>1. /\ arrays' = [arrays EXCEPT ![a] = y]
        /\ own' = [own EXCEPT ![p].slice.len = w.gap - 1, ![p].i = 1, ![p].gap = 0]
        /\ pc' = [pc EXCEPT ![p] = l]
        /\ UNCHANGED <<reviews, lastID>>
    BY <1>2, <1>10 DEF Shift, Goto
  <2>2. own' = [own EXCEPT ![p] = v]
    BY <1>2, <2>1, AssignedTwice
  <2> DEFINE s2 == [w.slice EXCEPT !.len = w.gap - 1]
             mid == [w EXCEPT !.slice = s2]
  <2>3. v = MovedTo(mid, 0, 1)
    BY DEF MovedTo, WorkType
  <2>4. s2 \in Slice /\ s2.array = a /\ s2.len = w.gap - 1
    BY <1>2 DEF Slice
  <2> HIDE DEF s2
  <2>5. mid \in WorkType /\ mid.slice = s2 /\ mid.op = w.op /\ mid.review = w.review /\ mid.entry = w.entry
    BY <1>2, <2>4 DEF WorkType
  <2> HIDE DEF mid, v
  <2>6. /\ v.op = w.op /\ v.review = w.review /\ v.entry = w.entry
        /\ v.slice.array = a /\ v.slice.len = w.gap - 1 /\ v.i = 1
    <3> DEFINE new == MovedTo(mid, 0, 1)
    <3>1. /\ new.i = 1 /\ new.op = mid.op /\ new.review = mid.review /\ new.entry = mid.entry
          /\ new.slice = mid.slice
      BY <2>5, MovedIndexes
    <3> HIDE DEF new
    <3>2. v = new
      BY <2>3 DEF new
    <3> QED BY <2>4, <2>5, <3>1, <3>2
  <2>7. DOMAIN arrays = 1..MaxArrays
    BY DEF SerialInv, HeapCore
  <2>8. DOMAIN x = 1..Len(x)
    BY <1>6
  <2>9. arrays'[a] = y /\ \A b \in 1..MaxArrays \ {a} : arrays'[b] = arrays[b]
    <3> HIDE DEF y
    <3> QED BY <1>6, <2>1, <2>7
  <2>10. \A j \in 1..n : arrays'[a][j] = IF j \in w.gap..n THEN BlankIn(Field(w.op)) ELSE x[j]
    BY <1>7, <2>8, <2>9
  <2>11. l = (IF Field(w.op) = "causes" THEN "load" ELSE "append")
    OBVIOUS
  <2> HIDE DEF l, y
  <2>12. Progress(l, v, arrays'[a], base, settled.lastID)
    <3> HIDE DEF w, base, x, a
    <3> QED BY <1>2, <1>3, <1>10, <2>6, <2>10, <2>11, ShiftEnds
  <2>13. l \in Ahead /\ l # "save"
    BY DEF l, Ahead
  <2>14. lastID' = IF l = "save" /\ Fresh(v) THEN settled.lastID + 1 ELSE settled.lastID
    BY <1>3, <2>1, <2>13
  <2> QED BY <1>1, <2>1, <2>2, <2>6, <2>9, <2>12, <2>13, <2>14, WritesSerially
<1> QED BY <1>2, <1>8, <1>9, <1>10

LEMMA LoadSerially ==
  ASSUME SerialInv, HeapCore', Noted, NEW p \in Goroutines, Load(p),
         ~ (own[p].i <= own[p].slice.len /\ SameReason(Elem(own[p].slice, own[p].i), own[p].entry))
  PROVE  SerialInv' /\ settled' = settled
<1> DEFINE w == own[p]
           base == Found(own[p])
           x == arrays[own[p].slice.array]
           n == w.slice.len
<1>1. pc[p] = "load" /\ pc[p] \in Loops /\ pc[p] # "idle"
  BY DEF Load, Loops
<1>2. /\ w.i \in Nat /\ n \in Nat /\ w.i >= 1 /\ w \in WorkType /\ w.op \in {"bind", "rebind"}
      /\ own \in [Goroutines -> WorkType \cup {NoWork}]
  BY <1>1, AtWork DEF KnowsAt, SerialInv, HeapCore
<1>3. Field(w.op) = "causes"
  BY <1>2 DEF Field
<1>4. /\ Progress("load", w, x, base, settled.lastID) /\ base \in Seq(BoundCause)
      /\ lastID = settled.lastID
  BY <1>1, <1>3, InALoop DEF EntriesIn
<1>5. CASE w.i > n
  <2>1. pc' = [pc EXCEPT ![p] = "append"] /\ own' = own /\ UNCHANGED <<reviews, arrays, lastID>>
    BY <1>2, <1>5 DEF Load, Goto
  <2>2. own' = [own EXCEPT ![p] = w]
    BY <1>2, <2>1
  <2>3. Progress("append", w, x, base, settled.lastID)
    <3> HIDE DEF w, base, x
    <3>1. w.i > w.slice.len
      BY <1>5
    <3> QED BY <1>2, <1>3, <1>4, <3>1, LoopEnds
  <2> QED BY <1>1, <2>1, <2>2, <2>3, LooksSerially DEF Loops
<1>6. CASE ~ (w.i > n)
  <2> DEFINE v == [w EXCEPT !.loaded = x[w.i]]
  <2>1. w.i <= n
    BY <1>2, <1>6
  <2>2. ~ SameReason(x[w.i], w.entry)
    BY <2>1 DEF Elem
  <2>3. own' = [own EXCEPT ![p] = v] /\ pc' = [pc EXCEPT ![p] = "store"]
        /\ UNCHANGED <<reviews, arrays, lastID>>
    <3>1. own' = [own EXCEPT ![p].loaded = Elem(w.slice, w.i)]
          /\ pc' = [pc EXCEPT ![p] = "store"] /\ UNCHANGED <<reviews, arrays, lastID>>
      BY <1>6, <2>1 DEF Load, Goto
    <3>2. Elem(w.slice, w.i) = x[w.i]
      BY DEF Elem
    <3> QED BY <1>2, <3>1, <3>2
  <2>4. /\ v.op = w.op /\ v.review = w.review /\ v.entry = w.entry /\ v.slice = w.slice
        /\ v.i = w.i /\ v.loaded = x[w.i]
    BY <1>2 DEF WorkType
  <2> HIDE DEF v
  <2>5. Progress("store", v, x, base, settled.lastID)
    <3> HIDE DEF w, base, x
    <3> QED BY <1>2, <1>4, <2>1, <2>2, <2>4, LoopLoads DEF n
  <2> QED BY <1>1, <2>3, <2>4, <2>5, LooksSerially DEF Loops
<1> QED BY <1>5, <1>6

LEMMA StoreSerially ==
  ASSUME SerialInv, HeapCore', Noted, NEW p \in Goroutines, Store(p)
  PROVE  SerialInv' /\ settled' = settled
<1> DEFINE w == own[p]
           base == Found(own[p])
           a == own[p].slice.array
           x == arrays[own[p].slice.array]
           n == w.slice.len
           e == UnsetProximal(w.loaded, w.entry)
           v == [w EXCEPT !.i = @ + 1, !.loaded = BlankCause]
<1>1. pc[p] = "store" /\ pc[p] \in Loops /\ pc[p] # "idle"
  BY DEF Store, Loops
<1>2. /\ w.i \in Nat /\ n \in Nat /\ w.i >= 1 /\ w \in WorkType /\ w.op \in {"bind", "rebind"}
      /\ w.i <= n /\ DOMAIN own = Goroutines
  BY <1>1, AtWork DEF KnowsAt, SerialInv, HeapCore
<1>3. Field(w.op) = "causes"
  BY <1>2 DEF Field
<1>4. /\ Progress("store", w, x, base, settled.lastID) /\ base \in Seq(BoundCause)
      /\ Len(base) \in Nat /\ (a # 0 => Len(base) <= Len(x)) /\ lastID = settled.lastID
  BY <1>1, <1>3, InALoop DEF EntriesIn
<1>5. a \in 1..MaxArrays /\ Len(x) \in Nat /\ w.i \in 1..Len(x)
  <2>1. w.i \in 1..n
    BY <1>2
  <2> QED BY <1>1, <2>1, ReadEntry DEF SerialInv
<1>6. a # 0
  BY <1>5
<1>7. /\ arrays' = Written(w.slice, w.i, e)
      /\ own' = [own EXCEPT ![p].i = @ + 1, ![p].loaded = BlankCause]
      /\ pc' = [pc EXCEPT ![p] = "load"] /\ UNCHANGED <<reviews, lastID>>
  BY DEF Store, Goto
<1>8. own' = [own EXCEPT ![p] = v]
  BY <1>2, <1>7, AssignedTwice
<1>9. /\ v.op = w.op /\ v.review = w.review /\ v.entry = w.entry /\ v.slice = w.slice
      /\ v.i = w.i + 1
  BY <1>2 DEF WorkType
<1> HIDE DEF v, e
<1>10. /\ arrays'[a][w.i] = e
       /\ \A j \in 1..Len(x) : j # w.i => arrays'[a][j] = x[j]
       /\ \A b \in 1..MaxArrays \ {a} : arrays'[b] = arrays[b]
  BY <1>1, <1>5, <1>6, <1>7, WrittenAt DEF SerialInv
<1>11. \A j \in 1..Len(base) : j # w.i => arrays'[a][j] = x[j]
  BY <1>4, <1>5, <1>6, <1>10
<1>12. Progress("load", v, arrays'[a], base, settled.lastID)
  <2> HIDE DEF w, base, x, a
  <2>1. w.i <= w.slice.len /\ arrays'[a][w.i] = UnsetProximal(w.loaded, w.entry)
    BY <1>2, <1>10 DEF n, e
  <2> QED BY <1>2, <1>4, <1>9, <1>11, <2>1, LoopStores
<1>13. "load" \in Ahead /\ "load" # "save"
  BY DEF Ahead
<1>14. lastID' = (IF "load" = "save" /\ Fresh(v) THEN settled.lastID + 1 ELSE settled.lastID)
  BY <1>4, <1>7
<1> QED BY <1>1, <1>7, <1>8, <1>9, <1>10, <1>12, <1>13, <1>14, WritesSerially

(* What append does to the array of the slice, be it the same or a new one.                *)
LEMMA AppendsAt ==
  ASSUME HeapCore, NEW p \in Goroutines, AppendEntry(p)
  PROVE  \E v :
           /\ own' = [own EXCEPT ![p] = v] /\ pc' = [pc EXCEPT ![p] = "save"] /\ reviews' = reviews
           /\ v.op = own[p].op /\ v.review = own[p].review /\ v.entry = own[p].entry
           /\ v.slice.len = own[p].slice.len + 1
           /\ \A j \in 1..own[p].slice.len : arrays'[v.slice.array][j] = arrays[own[p].slice.array][j]
           /\ arrays'[v.slice.array][own[p].slice.len + 1] = Entered(own[p], lastID)
           /\ lastID' = IF Fresh(own[p]) THEN lastID + 1 ELSE lastID
           /\ \A id \in DOMAIN reviews, f \in Fields :
                \/ own[p].review.id = id /\ Field(own[p].op) = f
                \/ Shown(reviews[id][f])' = Shown(reviews[id][f])
<1> DEFINE w == own[p]
           s == own[p].slice
           e == Entered(w, lastID)
<1>1. pc[p] = "append" /\ pc[p] # "idle" /\ pc' = [pc EXCEPT ![p] = "save"] /\ reviews' = reviews
      /\ lastID' = IF Fresh(w) THEN lastID + 1 ELSE lastID
  BY DEF AppendEntry, Goto, Fresh
<1>2. /\ w \in WorkType /\ s \in Slice /\ s.len \in Nat /\ s.array \in 0..MaxArrays
      /\ Fits(arrays, s, Field(w.op)) /\ DOMAIN own = Goroutines /\ DOMAIN arrays = 1..MaxArrays
  BY <1>1, AtWork DEF HeapCore
<1>3. s.len <= Cap(s) /\ Cap(s) \in Nat
  BY <1>2 DEF Cap, Fits
<1>4. CASE s.len < Cap(s)
  <2> DEFINE s2 == [s EXCEPT !.len = @ + 1]
             v == [w EXCEPT !.slice = s2, !.i = 0]
  <2>1. s.array # 0 /\ Len(arrays[s.array]) \in Nat /\ s.len + 1 \in 1..Len(arrays[s.array])
    BY <1>2, <1>4 DEF Cap, Fits
  <2>2. arrays' = Written(s, s.len + 1, e) /\ own' = [own EXCEPT ![p].slice.len = @ + 1, ![p].i = 0]
    <3>1. ~ (s.len = Cap(s))
      BY <1>2, <1>3, <1>4
    <3> QED BY <3>1 DEF AppendEntry, Entered, Fresh
  <2>3. own' = [own EXCEPT ![p] = v]
    <3>1. [w EXCEPT !.slice.len = s.len + 1] = [w EXCEPT !.slice = s2]
      OBVIOUS
    <3> QED BY <1>2, <2>2, <3>1, AssignedTwice
  <2>4. s2 \in Slice /\ s2.array = s.array /\ s2.len = s.len + 1
    BY <1>2 DEF Slice
  <2>5. v.slice = s2 /\ v.op = w.op /\ v.review = w.review /\ v.entry = w.entry
    BY <1>2, <2>4, Appended
  <2> HIDE DEF v, s2, e
  <2>6. /\ arrays'[s.array][s.len + 1] = e
        /\ \A j \in 1..Len(arrays[s.array]) : j # s.len + 1 => arrays'[s.array][j] = arrays[s.array][j]
        /\ \A b \in 1..MaxArrays \ {s.array} : arrays'[b] = arrays[b]
    BY <1>1, <2>1, <2>2, WrittenAt
  <2>7. \A j \in 1..s.len : arrays'[s.array][j] = arrays[s.array][j]
    BY <1>2, <2>1, <2>6
  <2>8. \A id \in DOMAIN reviews, f \in Fields :
          \/ w.review.id = id /\ Field(w.op) = f
          \/ Shown(reviews[id][f])' = Shown(reviews[id][f])
    BY <1>1, <2>6, OtherListsStay
  <2>9. v.slice.array = s.array /\ v.slice.len = s.len + 1
    BY <2>4, <2>5
  <2> WITNESS v
  <2> QED BY <1>1, <2>3, <2>5, <2>6, <2>7, <2>8, <2>9 DEF e
<1>5. CASE s.len = Cap(s)
  <2> DEFINE a == CHOOSE x \in 1..MaxArrays : x \notin Live
             x == [i \in 1..GrownCap(s) |->
                     IF i <= s.len THEN Elem(s, i)
                     ELSE IF i = s.len + 1 THEN e ELSE BlankIn(Field(w.op))]
             s2 == [array |-> a, len |-> s.len + 1]
             v == [w EXCEPT !.slice = s2, !.i = 0]
  <2>1. a \in 1..MaxArrays /\ a \notin Live
    BY <1>1, FreeArray
  <2> HIDE DEF a
  <2>2. arrays' = [arrays EXCEPT ![a] = x] /\ own' = [own EXCEPT ![p].slice = s2, ![p].i = 0]
    <3>1. ~ (s.len < Cap(s))
      BY <1>2, <1>5
    <3> QED BY <3>1 DEF AppendEntry, Entered, Fresh, a
  <2>3. own' = [own EXCEPT ![p] = v]
    <3> HIDE DEF x
    <3> QED BY <1>2, <2>2, AssignedTwice
  <2>4. s2 \in Slice /\ s2.array = a /\ s2.len = s.len + 1
    BY <1>2, <2>1 DEF Slice
  <2>5. v.slice = s2 /\ v.op = w.op /\ v.review = w.review /\ v.entry = w.entry
    BY <1>2, <2>4, Appended
  <2>6. GrownCap(s) \in Nat /\ s.len + 1 <= GrownCap(s)
    BY <1>2, <1>5 DEF GrownCap
  <2> HIDE DEF v, s2, e
  <2>7. x[s.len + 1] = e /\ \A j \in 1..s.len : x[j] = arrays[s.array][j]
    <3>1. s.len + 1 \in 1..GrownCap(s) /\ ~ (s.len + 1 <= s.len)
      BY <1>2, <2>6
    <3>2. \A j \in 1..s.len : j \in 1..GrownCap(s) /\ j <= s.len
      BY <1>2, <2>6
    <3> QED BY <3>1, <3>2 DEF Elem
  <2> HIDE DEF x
  <2>8. arrays'[a] = x /\ \A b \in 1..MaxArrays \ {a} : arrays'[b] = arrays[b]
    BY <1>2, <2>1, <2>2
  <2>9. ASSUME NEW id \in DOMAIN reviews, NEW f \in Fields
        PROVE  Shown(reviews[id][f])' = Shown(reviews[id][f])
    <3>1. reviews[id][f].array \in 0..MaxArrays /\ reviews[id][f].array \in Live
      BY StoredArrays, PointedArrays
    <3>2. reviews[id][f].array # 0 => arrays'[reviews[id][f].array] = arrays[reviews[id][f].array]
      BY <2>1, <2>8, <3>1, ArraysAssumption
    <3> QED BY <1>1, <3>2, ListStays
  <2>10. v.slice.array = a /\ v.slice.len = s.len + 1
    BY <2>4, <2>5
  <2> WITNESS v
  <2> QED BY <1>1, <2>3, <2>5, <2>7, <2>8, <2>9, <2>10 DEF e
<1> QED BY <1>2, <1>3, <1>4, <1>5

LEMMA AppendSerially ==
  ASSUME SerialInv, HeapCore', Noted, NEW p \in Goroutines, AppendEntry(p)
  PROVE  SerialInv' /\ settled' = settled
<1> DEFINE w == own[p]
           base == Found(own[p])
           x == arrays[own[p].slice.array]
<1>1. pc[p] = "append" /\ pc[p] \in Loops
  BY DEF AppendEntry, Loops
<1>2. PICK v :
           /\ own' = [own EXCEPT ![p] = v] /\ pc' = [pc EXCEPT ![p] = "save"] /\ reviews' = reviews
           /\ v.op = own[p].op /\ v.review = own[p].review /\ v.entry = own[p].entry
           /\ v.slice.len = own[p].slice.len + 1
           /\ \A j \in 1..own[p].slice.len : arrays'[v.slice.array][j] = arrays[own[p].slice.array][j]
           /\ arrays'[v.slice.array][own[p].slice.len + 1] = Entered(own[p], lastID)
           /\ lastID' = IF Fresh(own[p]) THEN lastID + 1 ELSE lastID
           /\ \A id \in DOMAIN reviews, f \in Fields :
                \/ own[p].review.id = id /\ Field(own[p].op) = f
                \/ Shown(reviews[id][f])' = Shown(reviews[id][f])
  BY AppendsAt DEF SerialInv
<1>3. /\ Progress("append", w, x, base, settled.lastID)
      /\ base \in Seq(EntriesIn(Field(w.op))) /\ lastID = settled.lastID
      /\ p \in Busy /\ pc[p] \in Ahead /\ w.op # "form"
  BY <1>1, InALoop
<1>4. w.entry \in EntriesIn(Field(w.op))
  BY <1>1, AtWork DEF SerialInv
<1>5. Progress("save", v, arrays'[v.slice.array], base, settled.lastID)
  <2> HIDE DEF base
  <2> QED BY <1>2, <1>3, <1>4, EntryAppended
<1>6. lastID' = IF "save" = "save" /\ Fresh(v) THEN settled.lastID + 1 ELSE settled.lastID
  BY <1>2, <1>3 DEF Fresh
<1>7. "save" \in Ahead
  BY DEF Ahead
<1> QED BY <1>2, <1>3, <1>5, <1>6, <1>7, GoesOnSerially

-------------------------------------------------------------------------------------
(* Requests arrive when nobody else is served.                                             *)
LEMMA FormSerially ==
  ASSUME SerialInv, HeapCore', Noted, Busy = {}, NEW p \in Goroutines, NEW id \in DOMAIN reviews,
         NEW body \in Bodies, Form(p, id, body)
  PROVE  SerialInv' /\ settled' = settled
<1> DEFINE o == [NoReview EXCEPT !.body = body]
           r == Update(reviews[id], o)
<1>1. PICK w : own' = [own EXCEPT ![p] = w] /\ w.op = "form" /\ w.review = r
  <2> DEFINE w == FormWorkOf(r, reviews[id].causes)
  <2>1. own' = [own EXCEPT ![p] =
                 [NoWork EXCEPT !.op = "form", !.review = r, !.slice = reviews[id].causes]]
    BY DEF Form
  <2>2. own' = [own EXCEPT ![p] = w]
    BY <2>1, FormStarted, Zenon
  <2>3. w.op = "form" /\ w.review = r
    BY DEF FormWorkOf
  <2> HIDE DEF w
  <2> QED BY <2>2, <2>3
<1>2. pc' = [pc EXCEPT ![p] = "save"] /\ UNCHANGED <<reviews, arrays, lastID>>
  BY DEF Form, Goto
<1>3. reviews[id] \in StoredReview /\ reviews[id].id = id
  BY StoredIs DEF SerialInv
<1>4. r.id = id /\ r = Update(reviews[id], r)
  <2>1. o.body = body
    BY DEF NoReview
  <2> HIDE DEF o
  <2>2. r = [reviews[id] EXCEPT !.body = body]
    BY <2>1 DEF Update
  <2>3. r.id = id /\ r.body = body
    BY <1>3, <2>2 DEF StoredReview
  <2> QED BY <2>2, <2>3 DEF Update
<1> HIDE DEF r
<1>6. settled' = settled => Working("save", w)'
  BY <1>1, <1>2, <1>4, Between DEF Working
<1>7. "save" \in Ahead
  BY DEF Ahead
<1> QED BY <1>1, <1>2, <1>6, <1>7, ArrivesSerially

LEMMA NamedHeld ==
  ASSUME HeapCore, NEW id \in DOMAIN reviews, NEW f \in Fields,
         NEW entry \in EntryIDs(reviews[id][f])
  PROVE  Holds(Shown(reviews[id][f]), entry)
<1> DEFINE s == reviews[id][f]
           a == Shown(s)
<1>1. s \in Slice /\ Fits(arrays, s, f)
  BY StoredIs
<1>2. a \in Seq(EntriesIn(f)) /\ Len(a) = s.len
  BY <1>1, ShownEntries
<1>3. PICK i \in 1..s.len : entry = a[i].id
  BY DEF EntryIDs
<1> HIDE DEF a
<1>4. i \in DOMAIN a
  BY <1>2, <1>3
<1> QED BY <1>3, <1>4 DEF Holds, a

LEMMA RequestSerially ==
  ASSUME SerialInv, HeapCore', Noted, ~ Overlap, NEW p \in Goroutines, Request(p)
  PROVE  SerialInv' /\ settled' = settled
<1>1. PICK id \in DOMAIN reviews :
        \/ \E body \in Bodies : Form(p, id, body)
        \/ \E why \in Whys, proximal \in Marks : BindContributingCause(p, id, why, proximal)
        \/ \E why \in Whys, proximal \in Marks, entry \in EntryIDs(reviews[id].causes) :
             UpdateBoundContributingCause(p, id, entry, why, proximal)
        \/ \E why \in Whys : BindTrigger(p, id, why)
        \/ \E why \in Whys, entry \in EntryIDs(reviews[id].triggers) :
             UpdateBoundTrigger(p, id, entry, why)
  BY DEF Request
<1>2. MayArrive => Busy = {}
  BY DEF MayArrive
<1>3. \A f \in Fields : Len(Shown(reviews[id][f])) = reviews[id][f].len
  <2> SUFFICES ASSUME NEW f \in Fields PROVE Len(Shown(reviews[id][f])) = reviews[id][f].len
    OBVIOUS
  <2>1. reviews[id][f] \in Slice /\ Fits(arrays, reviews[id][f], f)
    BY StoredIs DEF SerialInv
  <2> QED BY <2>1, ShownEntries
<1>4. /\ Field("bind") = "causes" /\ Field("rebind") = "causes"
      /\ Field("bindTrigger") = "triggers" /\ Field("rebindTrigger") = "triggers"
      /\ "causes" \in Fields /\ "triggers" \in Fields
  BY DEF Field, Fields
<1>5. ASSUME NEW body \in Bodies, Form(p, id, body)
      PROVE  SerialInv' /\ settled' = settled
  <2>1. Busy = {}
    BY <1>2, <1>5 DEF Form
  <2> QED BY <1>5, <2>1, FormSerially
<1>6. ASSUME NEW why \in Whys, NEW proximal \in Marks, BindContributingCause(p, id, why, proximal)
      PROVE  SerialInv' /\ settled' = settled
  <2> DEFINE e == [id |-> Nil, cause |-> SeedCause, why |-> why, proximal |-> proximal]
             w == WorkOf("bind", reviews[id], e, reviews[id][Field("bind")])
  <2>1. Receive(p, id, "bind", e, "load") /\ reviews[id].causes.len < MaxCauses
    BY <1>6 DEF BindContributingCause
  <2>2. Busy = {}
    BY <1>2, <2>1 DEF Receive
  <2>3. w.op = "bind" /\ w.entry = e /\ e.id = Nil /\ e.cause = SeedCause
    BY DEF WorkOf
  <2> HIDE DEF e, w
  <2>4. Asks(w, Shown(reviews[id][Field("bind")]))
    BY <1>3, <1>4, <2>1, <2>3 DEF Asks, Updates
  <2> QED BY <2>1, <2>2, <2>4, ReceiveSerially DEF w
<1>7. ASSUME NEW why \in Whys, NEW proximal \in Marks, NEW entry \in EntryIDs(reviews[id].causes),
             UpdateBoundContributingCause(p, id, entry, why, proximal)
      PROVE  SerialInv' /\ settled' = settled
  <2> DEFINE e == [id |-> entry, cause |-> SeedCause, why |-> why, proximal |-> proximal]
             w == WorkOf("rebind", reviews[id], e, reviews[id][Field("rebind")])
  <2>1. Receive(p, id, "rebind", e, "find")
    BY <1>7 DEF UpdateBoundContributingCause
  <2>2. Busy = {}
    BY <1>2, <2>1 DEF Receive
  <2>3. w.op = "rebind" /\ w.entry = e /\ e.id = entry /\ e.cause = SeedCause
    BY DEF WorkOf
  <2>4. Holds(Shown(reviews[id][Field("rebind")]), entry)
    BY <1>4, NamedHeld DEF SerialInv
  <2> HIDE DEF e, w
  <2>5. Asks(w, Shown(reviews[id][Field("rebind")]))
    BY <1>4, <2>3, <2>4 DEF Asks, Updates
  <2> QED BY <2>1, <2>2, <2>5, ReceiveSerially DEF w, Updates
<1>8. ASSUME NEW why \in Whys, BindTrigger(p, id, why)
      PROVE  SerialInv' /\ settled' = settled
  <2> DEFINE e == [id |-> Nil, trigger |-> SeedTrigger, why |-> why]
             w == WorkOf("bindTrigger", reviews[id], e, reviews[id][Field("bindTrigger")])
  <2>1. Receive(p, id, "bindTrigger", e, "append") /\ reviews[id].triggers.len < MaxTriggers
    BY <1>8 DEF BindTrigger
  <2>2. Busy = {}
    BY <1>2, <2>1 DEF Receive
  <2>3. w.op = "bindTrigger" /\ w.entry = e /\ e.id = Nil /\ e.trigger = SeedTrigger
    BY DEF WorkOf
  <2> HIDE DEF e, w
  <2>4. Asks(w, Shown(reviews[id][Field("bindTrigger")]))
    BY <1>3, <1>4, <2>1, <2>3 DEF Asks, Updates
  <2> QED BY <2>1, <2>2, <2>4, ReceiveSerially DEF w
<1>9. ASSUME NEW why \in Whys, NEW entry \in EntryIDs(reviews[id].triggers),
             UpdateBoundTrigger(p, id, entry, why)
      PROVE  SerialInv' /\ settled' = settled
  <2> DEFINE e == [id |-> entry, trigger |-> SeedTrigger, why |-> why]
             w == WorkOf("rebindTrigger", reviews[id], e, reviews[id][Field("rebindTrigger")])
  <2>1. Receive(p, id, "rebindTrigger", e, "find")
    BY <1>9 DEF UpdateBoundTrigger
  <2>2. Busy = {}
    BY <1>2, <2>1 DEF Receive
  <2>3. w.op = "rebindTrigger" /\ w.entry = e /\ e.id = entry /\ e.trigger = SeedTrigger
    BY DEF WorkOf
  <2>4. Holds(Shown(reviews[id][Field("rebindTrigger")]), entry)
    BY <1>4, NamedHeld DEF SerialInv
  <2> HIDE DEF e, w
  <2>5. Asks(w, Shown(reviews[id][Field("rebindTrigger")]))
    BY <1>4, <2>3, <2>4 DEF Asks, Updates
  <2> QED BY <2>1, <2>2, <2>5, ReceiveSerially DEF w, Updates
<1> QED BY <1>1, <1>5, <1>6, <1>7, <1>8, <1>9

-------------------------------------------------------------------------------------
(* A request takes its effect: what the reviews show afterwards.                            *)
AllSliced ==
  \A id \in DOMAIN reviews, f \in Fields :
    /\ Latest(id)[f] \in Slice /\ Fits(arrays, Latest(id)[f], f)
    /\ Latest(id)[f].array \in ArraysOf(reviews, own, id, f)

LEMMA SlicedAfter == HeapCore' /\ OneAtATime' => AllSliced'
<1>1. HeapCore /\ OneAtATime => AllSliced
  BY LatestIs DEF AllSliced
<1> QED BY <1>1, PTL

LEMMA SweptSeen ==
  ASSUME arrays' = Swept(arrays), NEW s \in Slice, s.array \in Live', s.array = 0 => s.len = 0
  PROVE  Seen(arrays', s) = Seen(arrays, s)
<1>1. s.array \in 0..MaxArrays
  BY DEF Slice
<1>2. s.array # 0 => arrays'[s.array] = arrays[s.array]
  BY <1>1, ArraysAssumption DEF Swept
<1> QED BY <1>2 DEF Seen

LEMMA SweptShows ==
  ASSUME HeapCore', OneAtATime', arrays' = Swept(arrays)
  PROVE  \A id \in DOMAIN reviews', f \in Fields :
           Shown(Latest(id)[f])' = Seen(arrays, Latest(id)'[f])
<1> SUFFICES ASSUME NEW id \in DOMAIN reviews', NEW f \in Fields
             PROVE  Shown(Latest(id)[f])' = Seen(arrays, Latest(id)'[f])
  OBVIOUS
<1> DEFINE s == Latest(id)'[f]
<1>1. /\ s \in Slice /\ Fits(arrays', s, f)
      /\ s.array \in ArraysOf(reviews', own', id, f)
  BY SlicedAfter DEF AllSliced
<1>2. Shown(Latest(id)[f])' = Seen(arrays', s)
  BY DEF Shown, Seen
<1> HIDE DEF s
<1>3. s.array \in Live'
  BY <1>1, PointedArraysAfter
<1>4. s.array = 0 => s.len = 0
  BY <1>1 DEF Fits
<1>5. Seen(arrays', s) = Seen(arrays, s)
  BY <1>1, <1>3, <1>4, SweptSeen
<1> QED BY <1>2, <1>5 DEF s

LEMMA Ends ==
  ASSUME SerialInv, HeapCore', Noted, NEW p \in Busy, NEW l \in {"idle", "write", "answer"},
         pc' = [pc EXCEPT ![p] = l]
  PROVE  SerialInv' /\ settled' = Now' /\ pc'[p] = l /\ Busy' = (IF l = "idle" THEN {} ELSE {p})
<1>1. Busy = {p} /\ p \in Goroutines
  BY Alone DEF SerialInv
<1>2. pc \in [Goroutines -> PCs]
  BY DEF SerialInv, HeapCore
<1>3. Busy' = (IF l = "idle" THEN {} ELSE {p}) /\ pc'[p] = l
  BY <1>1, <1>2, BusyAfter DEF SerialInv
<1>4. Settled' /\ OneAtATime'
  BY <1>3 DEF Settled, OneAtATime
<1>5. settled' = Now'
  BY <1>4 DEF Noted
<1> QED BY <1>3, <1>4, <1>5, SettlesDown

LEMMA IdleAfter ==
  ASSUME Busy' = {} \/ \E p \in Goroutines : Busy' = {p} /\ pc'[p] # "write"
  PROVE  \A x \in DOMAIN reviews' : Latest(x)' = reviews'[x]
<1>1. Unwritten'
  BY DEF Unwritten, Busy
<1> QED BY <1>1, StoredAfter DEF AllStored

LEMMA OnlyItsReview ==
  ASSUME SerialInv, HeapCore', OneAtATime', NEW p \in Busy, settled' = Now',
         NEW id \in DOMAIN reviews,
         own[p].review.id = id, DOMAIN reviews' = DOMAIN reviews, arrays' = Swept(arrays),
         \A x \in DOMAIN reviews \ {id} : Latest(x)' = Latest(x),
         NEW r \in ReviewType, SameForm(r, Latest(id)'),
         \A f \in Fields : r[f] = Seen(arrays, Latest(id)'[f])
  PROVE  settled'.reviews = [x \in DOMAIN reviews |-> IF x = id THEN r ELSE settled.reviews[x]]
<1>1. settled'.reviews = [x \in DOMAIN reviews' |-> View(Latest(x))']
  BY DEF Now
<1>2. \A x \in DOMAIN reviews' :
        /\ settled'.reviews[x] \in ReviewType /\ SameForm(settled'.reviews[x], Latest(x)')
        /\ \A f \in Fields : settled'.reviews[x][f] = Seen(arrays, Latest(x)'[f])
  BY <1>1, ViewsShowAfter, SweptShows DEF AllShown
<1>3. ASSUME NEW s \in ReviewType, SameForm(s, Latest(id)'),
             \A f \in Fields : s[f] = Seen(arrays, Latest(id)'[f])
      PROVE  s = r
  <2>1. SameForm(s, r) /\ \A f \in Fields : s[f] = r[f]
    BY <1>3 DEF SameForm
  <2> QED BY <2>1, SameReview
<1>4. settled'.reviews[id] = r
  BY <1>2, <1>3
<1>5. ASSUME NEW x \in DOMAIN reviews, x # id
      PROVE  settled'.reviews[x] = settled.reviews[x]
  <2>1. Latest(x)' = Latest(x)
    BY <1>5
  <2>2. settled.reviews[x] \in ReviewType /\ SameForm(settled.reviews[x], Latest(x))
    BY DEF SerialInv, Remembers
  <2>3. ASSUME NEW f \in Fields
        PROVE  settled'.reviews[x][f] = settled.reviews[x][f]
    <3>1. ~ InWork(x, f)
      BY <1>5, Alone DEF SerialInv, InWork
    <3>2. settled.reviews[x][f] = Shown(Latest(x)[f])
      BY <3>1 DEF SerialInv, Remembers
    <3> QED BY <1>2, <2>1, <3>2, ShownIsSeen
  <2>4. SameForm(settled'.reviews[x], settled.reviews[x]) /\ settled'.reviews[x] \in ReviewType
    BY <1>2, <2>1, <2>2 DEF SameForm
  <2> QED BY <2>2, <2>3, <2>4, SameReview
<1> QED BY <1>1, <1>4, <1>5

LEMMA StampedShown ==
  ASSUME NEW r \in ReviewType, NEW now \in Times, r.createdAt # ZeroTime
  PROVE  /\ UpdateTimestamps(r, now) \in ReviewType
         /\ UpdateTimestamps(r, now).id = r.id /\ UpdateTimestamps(r, now).body = r.body
         /\ UpdateTimestamps(r, now).createdAt = r.createdAt
         /\ UpdateTimestamps(r, now).updatedAt = now
         /\ \A f \in Fields : UpdateTimestamps(r, now)[f] = r[f]
BY DEF UpdateTimestamps, ReviewType, Fields

LEMMA ListPut ==
  ASSUME NEW r \in ReviewType, NEW f \in Fields, NEW list \in Seq(EntriesIn(f))
  PROVE  LET s == [r EXCEPT ![f] = list] IN
         /\ s \in ReviewType /\ SameForm(s, r) /\ s[f] = list
         /\ \A g \in Fields \ {f} : s[g] = r[g]
<1>1. CASE f = "causes"
  <2>1. list \in Seq(BoundCause)
    BY <1>1 DEF EntriesIn
  <2>2. /\ [r EXCEPT !["causes"] = list] \in ReviewType
        /\ SameForm([r EXCEPT !["causes"] = list], r)
        /\ [r EXCEPT !["causes"] = list].causes = list
        /\ [r EXCEPT !["causes"] = list].triggers = r.triggers
    BY <2>1 DEF ReviewType, SameForm
  <2> QED BY <1>1, <2>2 DEF Fields
<1>2. CASE f = "triggers"
  <2>1. list \in Seq(BoundTrigger)
    BY <1>2 DEF EntriesIn
  <2>2. /\ [r EXCEPT !["triggers"] = list] \in ReviewType
        /\ SameForm([r EXCEPT !["triggers"] = list], r)
        /\ [r EXCEPT !["triggers"] = list].triggers = list
        /\ [r EXCEPT !["triggers"] = list].causes = r.causes
    BY <2>1 DEF ReviewType, SameForm
  <2> QED BY <1>2, <2>2 DEF Fields
<1> QED BY <1>1, <1>2 DEF Fields

(* Only a form can be refused by the validation.                                             *)
LEMMA WorkIsValid ==
  ASSUME HeapCore, NEW p \in Goroutines, pc[p] # "idle", own[p].op # "form"
  PROVE  Validates(Result(own[p]))
<1> DEFINE w == own[p]
           f == Field(w.op)
<1>1. w.review \in StoredReview /\ w.review.id \in DOMAIN reviews /\ w.review.body \in ValidBodies
  BY DEF HeapCore, RequestFits, WorkType
<1>2. w.review.id # Nil
  BY <1>1 DEF HeapCore, Counters, Nil
<1>3. Result(w).id = w.review.id /\ Result(w).body = w.review.body
  BY <1>1, FieldOfOp DEF Result, StoredReview
<1> QED BY <1>1, <1>2, <1>3 DEF Validates

(* A step that leaves the reviews as they are stored or stamped changes nothing of what is      *)
(* remembered.                                                                               *)
LEMMA NothingChanges ==
  ASSUME SerialInv, HeapCore', NEW p \in Busy, pc[p] \notin Ahead, OneAtATime', settled' = Now',
         DOMAIN reviews' = DOMAIN reviews, arrays' = Swept(arrays),
         \A x \in DOMAIN reviews : Latest(x)' = Latest(x)
  PROVE  settled'.reviews = settled.reviews
<1> PICK id : id = own[p].review.id
  OBVIOUS
<1> DEFINE s == settled.reviews[id]
<1>1. HeapCore /\ pc[p] # "idle" /\ p \in Goroutines
  BY DEF SerialInv, Busy
<1>2. id \in DOMAIN reviews
  BY <1>1, AtWork
<1>3. s \in ReviewType /\ SameForm(s, Latest(id)')
  BY <1>2 DEF SerialInv, Remembers
<1>4. \A g \in Fields : s[g] = Seen(arrays, Latest(id)'[g])
  <2>1. \A g \in Fields : ~ InWork(id, g)
    BY Alone DEF SerialInv, InWork
  <2>2. \A g \in Fields : s[g] = Shown(Latest(id)[g])
    BY <1>2, <2>1 DEF SerialInv, Remembers
  <2> QED BY <1>2, <2>2, ShownIsSeen
<1>5. settled'.reviews = [x \in DOMAIN reviews |-> IF x = id THEN s ELSE settled.reviews[x]]
  BY <1>2, <1>3, <1>4, OnlyItsReview
<1> QED BY <1>5 DEF SerialInv, Remembers

(* What a request stamps, and will write.                                                     *)
LEMMA Stamps ==
  ASSUME SerialInv, HeapCore', Noted, NEW p \in Goroutines, Save(p), Validates(Result(own[p])),
         NEW id, id = own[p].review.id
  PROVE  /\ own' = [own EXCEPT ![p].review = UpdateTimestamps(Result(own[p]), clock)]
         /\ own'[p].op = own[p].op /\ own'[p].slice = own[p].slice /\ own'[p].entry = own[p].entry
         /\ SerialInv' /\ OneAtATime' /\ settled' = Now' /\ Busy' = {p} /\ pc'[p] = "write"
         /\ id \in DOMAIN reviews /\ Result(own[p]).id = id
         /\ UNCHANGED <<reviews, lastID, clock, outcome>> /\ arrays' = Swept(arrays)
         /\ Latest(id)' = UpdateTimestamps(Result(own[p]), clock)
         /\ \A x \in DOMAIN reviews \ {id} : Latest(x)' = Latest(x)
<1> DEFINE w == own[p]
           u == UpdateTimestamps(Result(own[p]), clock)
<1>1. pc[p] = "save" /\ p \in Busy /\ HeapCore /\ DOMAIN own = Goroutines
  BY DEF Save, Busy, SerialInv, HeapCore
<1>2. /\ pc' = [pc EXCEPT ![p] = "write"] /\ own' = [own EXCEPT ![p].review = u]
      /\ UNCHANGED <<reviews, lastID, clock, outcome>> /\ arrays' = Swept(arrays)
  BY DEF Save, Refuse, Goto
<1>3. /\ id \in DOMAIN reviews /\ Result(w).id = id /\ w \in WorkType
  BY <1>1, AtWork, ResultReview
<1>4. u.id = id
  BY <1>3, ResultReview DEF UpdateTimestamps, StoredReview
<1> HIDE DEF u
<1>5. /\ own'[p].review = u /\ own'[p].op = w.op /\ own'[p].slice = w.slice
      /\ own'[p].entry = w.entry
  BY <1>1, <1>2, <1>3 DEF WorkType
<1>6. SerialInv' /\ settled' = Now' /\ pc'[p] = "write" /\ Busy' = {p}
  BY <1>1, <1>2, Ends
<1>7. OneAtATime'
  BY <1>6 DEF SerialInv
<1>8. Latest(id)' = u /\ \A x : x # id => Latest(x)' = reviews'[x]
  <2>1. \A q \in Goroutines : pc'[q] = "write" <=> q = p
    BY <1>6 DEF Busy
  <2>2. Writers(id)' = {p} /\ \A x : x # id => Writers(x)' = {}
    BY <1>4, <1>5, <2>1 DEF Writers
  <2> QED BY <1>5, <2>2 DEF Latest
<1>9. \A x : Latest(x) = reviews[x]
  BY <1>1, NobodyWrites, LatestIsStored DEF SerialInv
<1> QED BY <1>2, <1>3, <1>5, <1>6, <1>7, <1>8, <1>9 DEF u

(* What becomes of the review a request is bound to.                                           *)
LEMMA WritesSlot ==
  ASSUME SerialInv, HeapCore', Noted, NEW p \in Goroutines, Save(p), own[p].op # "form",
         NEW id, id = own[p].review.id, NEW f, f = Field(own[p].op)
  PROVE  /\ Validates(Result(own[p])) /\ id \in DOMAIN reviews
         /\ Latest(id)'.id = id /\ Latest(id)'.body = reviews[id].body
         /\ Latest(id)'.createdAt = reviews[id].createdAt /\ Latest(id)'.updatedAt = clock
         /\ Latest(id)'[f] = own[p].slice
         /\ \A g \in Fields \ {f} : Latest(id)'[g] = reviews[id][g]
<1> DEFINE w == own[p]
           r == Result(w)
           u == UpdateTimestamps(r, clock)
<1>1. pc[p] = "save" /\ p \in Busy /\ HeapCore /\ pc[p] \in Ahead
  BY DEF Save, Busy, SerialInv, Ahead
<1>2. Validates(r)
  BY <1>1, WorkIsValid
<1>3. Latest(id)' = u
  BY <1>2, Stamps
<1>4. w.review = reviews[id] /\ id \in DOMAIN reviews /\ f \in Fields
  BY <1>1, UnderWayIs, FieldOfOp
<1>5. /\ reviews[id] \in StoredReview /\ reviews[id].id = id /\ reviews[id].createdAt # ZeroTime
      /\ w.slice \in Slice /\ clock \in Times
  BY <1>1, <1>4, StoredIs, AtWork DEF HeapCore, Counters, Times
<1>6. /\ r \in StoredReview /\ r.id = id /\ r.body = reviews[id].body
      /\ r.createdAt = reviews[id].createdAt /\ r[f] = w.slice
      /\ \A g \in Fields \ {f} : r[g] = reviews[id][g]
  <2>1. r = [reviews[id] EXCEPT ![f] = w.slice]
    BY <1>4 DEF Result
  <2> HIDE DEF r
  <2>2. CASE f = "causes"
    BY <1>5, <2>1, <2>2 DEF StoredReview, Fields
  <2>3. CASE f = "triggers"
    BY <1>5, <2>1, <2>3 DEF StoredReview, Fields
  <2> QED BY <1>4, <2>2, <2>3 DEF Fields
<1> HIDE DEF r
<1>7. /\ u.id = id /\ u.body = reviews[id].body
      /\ u.createdAt = reviews[id].createdAt /\ u.updatedAt = clock
      /\ \A g \in Fields : u[g] = r[g]
  BY <1>5, <1>6, StampedReview
<1> HIDE DEF u
<1> QED BY <1>2, <1>3, <1>4, <1>6, <1>7 DEF r

-------------------------------------------------------------------------------------
(* ReviewService's steps, asked about what is remembered.  Its operators on lists are those  *)
(* of Review.                                                                               *)
LEMMA SameWithout ==
  ASSUME NEW s, NEW id
  PROVE  Service!Without(s, id) = Without(s, id)
BY DEF Service!Without, Service!Enumerations, Service!Kept, Service!Increasing, Service!Surjection,
       Service!Cardinality, Without, Enumerations, Kept, Increasing, Surjection, Cardinality

LEMMA SameBind ==
  ASSUME NEW s, NEW o, NEW last
  PROVE  Service!Bind(s, o, last) = Bind(s, o, last)
BY DEF Service!Bind, Service!Rewritten, Service!Reached, Service!Clashes, Service!SameReason,
       Service!UnsetProximal, Service!EnsureID, Service!Nil,
       Bind, Rewritten, Reached, Clashes, SameReason, UnsetProximal, EnsureID, Nil

LEMMA SameRefusal ==
  ASSUME NEW s, NEW o, NEW rest
  PROVE  /\ Service!BindRefused(s, o) = BindRefused(s, o)
         /\ Service!BindResidue(s, o) = Rewritten(s, o)
         /\ Service!RebindResidue(s, rest, o) = Padded(Rewritten(rest, o), Len(s))
BY DEF Service!BindRefused, Service!BindResidue, Service!RebindResidue, Service!Padded, Service!BlankCause,
       Service!Rewritten, Service!Reached, Service!Clashes, Service!SameReason, Service!UnsetProximal,
       Service!Nil, BindRefused, Padded, BlankCause, Rewritten, Reached, Clashes, SameReason,
       UnsetProximal, Nil

LEMMA SameHolds ==
  ASSUME NEW s, NEW id
  PROVE  Service!Holds(s, id) = Holds(s, id)
BY DEF Service!Holds, Holds

(* A review is saved with this list.                                                         *)
SavedWith(id, f, list) ==
  settled'.reviews =
    [x \in DOMAIN settled.reviews |->
       IF x = id THEN UpdateTimestamps([settled.reviews[id] EXCEPT ![f] = list], clock)
       ELSE settled.reviews[x]]

SettledIsSound ==
  \A id \in DOMAIN settled.reviews :
    LET r == settled.reviews[id] IN
    r \in ReviewType /\ r.id = id /\ id # Nil /\ r.body \in ValidBodies

LEMMA SavesServed ==
  ASSUME NEW id \in DOMAIN settled.reviews, SettledIsSound,
         NEW f \in Fields, NEW list \in Seq(EntriesIn(f)), SavedWith(id, f, list)
  PROVE  Service!Save([settled.reviews[id] EXCEPT ![f] = list])
<1> DEFINE r == [settled.reviews[id] EXCEPT ![f] = list]
<1>1. /\ settled.reviews[id] \in ReviewType /\ settled.reviews[id].id = id /\ id # Nil
      /\ settled.reviews[id].body \in ValidBodies
  BY DEF SettledIsSound
<1>2. r.id = id /\ r.body \in ValidBodies
  <2>1. \A a \in ReviewType : SameForm([a EXCEPT ![f] = list], a)
    BY ListPut
  <2>2. SameForm(r, settled.reviews[id])
    BY <1>1, <2>1
  <2> HIDE DEF r
  <2> QED BY <1>1, <2>2 DEF SameForm
<1>3. UpdateTimestamps(r, clock) = Service!UpdateTimestamps(r, clock)
  BY DEF UpdateTimestamps, Service!UpdateTimestamps, ZeroTime, Service!ZeroTime
<1>4. settled'.reviews = [x \in DOMAIN settled.reviews |->
         IF x = id THEN UpdateTimestamps(r, clock) ELSE settled.reviews[x]]
  BY DEF SavedWith
<1> HIDE DEF r
<1>5. Service!Validates(r)
  BY <1>1, <1>2 DEF Service!Validates, Service!Nil, Nil
<1>6. settled'.reviews = Service!Put(settled.reviews, r.id, Service!UpdateTimestamps(r, clock))
  <2>1. DOMAIN settled.reviews = DOMAIN settled.reviews \cup {r.id}
    BY <1>2
  <2> QED BY <1>2, <1>3, <1>4, <2>1 DEF Service!Put
<1>7. Service!Save(r)
  BY <1>5, <1>6 DEF Service!Save
<1> QED BY <1>7 DEF r

LEMMA ServesBind ==
  ASSUME NEW id \in DOMAIN settled.reviews, SettledIsSound,
         NEW o \in BoundCause, o.id = Nil, o.cause = SeedCause,
         NEW cs, cs = settled.reviews[id].causes, ~ BindRefused(cs, o), Len(cs) < MaxCauses,
         Bind(cs, o, settled.lastID + 1) \in Seq(BoundCause),
         SavedWith(id, "causes", Bind(cs, o, settled.lastID + 1)),
         settled.lastID < MaxID, settled'.lastID = settled.lastID + 1, settled'.outcome = "ok",
         clock' = clock
  PROVE  Service!Next
<1>1. o = [id |-> Nil, cause |-> SeedCause, why |-> o.why, proximal |-> o.proximal]
      /\ o.why \in Whys /\ o.proximal \in BOOLEAN
  BY DEF BoundCause
<1>2. Service!Save([settled.reviews[id] EXCEPT !["causes"] = Service!Bind(cs, o, settled.lastID + 1)])
  BY SameBind, SavesServed DEF Fields, EntriesIn
<1>3. ~ Service!BindRefused(cs, o)
  BY SameRefusal
<1>4. Service!BindContributingCause(id, SeedCause, o.why, o.proximal)
  BY <1>1, <1>2, <1>3 DEF Service!BindContributingCause, Service!FreshLeft, Service!NewID, Service!Nil, Nil
<1>5. id \in Service!ReviewIDs /\ SeedCause \in Service!CauseIDs
  BY DEF Service!ReviewIDs, Service!CauseIDs
<1> QED BY <1>1, <1>4, <1>5 DEF Service!Next

LEMMA ServesRebind ==
  ASSUME NEW id \in DOMAIN settled.reviews, SettledIsSound,
         NEW o \in BoundCause, o.cause = SeedCause,
         NEW cs, cs = settled.reviews[id].causes, Holds(cs, o.id), NEW rest \in Without(cs, o.id),
         ~ BindRefused(rest, o),
         Bind(rest, o, settled.lastID + 1) \in Seq(BoundCause),
         SavedWith(id, "causes", Bind(rest, o, settled.lastID + 1)),
         o.id = Nil => settled.lastID < MaxID,
         settled'.lastID = IF o.id = Nil THEN settled.lastID + 1 ELSE settled.lastID,
         settled'.outcome = IF o.id = Nil THEN "unexpected" ELSE "ok",
         clock' = clock
  PROVE  Service!Next
<1>1. o = [id |-> o.id, cause |-> SeedCause, why |-> o.why, proximal |-> o.proximal]
      /\ o.why \in Whys /\ o.proximal \in BOOLEAN
  BY DEF BoundCause
<1>2. Service!Save([settled.reviews[id] EXCEPT !["causes"] = Service!Bind(rest, o, settled.lastID + 1)])
  BY SameBind, SavesServed DEF Fields, EntriesIn
<1>3. ~ Service!BindRefused(rest, o) /\ rest \in Service!Without(cs, o.id) /\ Service!Holds(cs, o.id)
  BY SameRefusal, SameWithout, SameHolds
<1>4. Service!UpdateBoundContributingCause(id, o)
  BY <1>2, <1>3 DEF Service!UpdateBoundContributingCause, Service!FreshLeft, Service!NewID, Service!Nil, Nil
<1>5. id \in Service!ReviewIDs /\ SeedCause \in Service!CauseIDs /\ o.id \in Service!CauseEntryIDs(id)
  BY DEF Service!ReviewIDs, Service!CauseIDs, Service!CauseEntryIDs, Service!EntryIDs, Holds
<1> QED BY <1>1, <1>4, <1>5 DEF Service!Next

LEMMA ServesBindTrigger ==
  ASSUME NEW id \in DOMAIN settled.reviews, SettledIsSound,
         NEW o \in BoundTrigger, o.id = Nil, o.trigger = SeedTrigger,
         NEW ts, ts = settled.reviews[id].triggers, Len(ts) < MaxTriggers,
         Append(ts, EnsureID(o, settled.lastID + 1)) \in Seq(BoundTrigger),
         SavedWith(id, "triggers", Append(ts, EnsureID(o, settled.lastID + 1))),
         settled.lastID < MaxID, settled'.lastID = settled.lastID + 1, settled'.outcome = "ok",
         clock' = clock
  PROVE  Service!Next
<1>1. o.why \in Whys
      /\ EnsureID(o, settled.lastID + 1) =
           [id |-> settled.lastID + 1, trigger |-> SeedTrigger, why |-> o.why]
  BY DEF BoundTrigger, EnsureID
<1>2. Service!Save([settled.reviews[id] EXCEPT
        !["triggers"] = Service!AddTrigger(ts, settled.lastID + 1, SeedTrigger, o.why)])
  BY <1>1, SavesServed DEF Fields, EntriesIn, Service!AddTrigger
<1>3. Service!BindTrigger(id, SeedTrigger, o.why)
  BY <1>2 DEF Service!BindTrigger, Service!FreshLeft, Service!NewID
<1>4. id \in Service!ReviewIDs /\ SeedTrigger \in Service!TriggerIDs
  BY DEF Service!ReviewIDs, Service!TriggerIDs
<1> QED BY <1>1, <1>3, <1>4 DEF Service!Next

LEMMA ServesRebindTrigger ==
  ASSUME NEW id \in DOMAIN settled.reviews, SettledIsSound,
         NEW o \in BoundTrigger, o.trigger = SeedTrigger,
         NEW ts, ts = settled.reviews[id].triggers, Holds(ts, o.id), NEW rest \in Without(ts, o.id),
         Append(rest, o) \in Seq(BoundTrigger),
         SavedWith(id, "triggers", Append(rest, o)),
         settled'.lastID = settled.lastID, settled'.outcome = "ok", clock' = clock
  PROVE  Service!Next
<1>1. o = [id |-> o.id, trigger |-> SeedTrigger, why |-> o.why] /\ o.why \in Whys
  BY DEF BoundTrigger
<1>2. Service!Save([settled.reviews[id] EXCEPT !["triggers"] = Service!ReplaceTrigger(rest, o)])
  BY SavesServed DEF Fields, EntriesIn, Service!ReplaceTrigger
<1>3. rest \in Service!Without(ts, o.id) /\ Service!Holds(ts, o.id)
  BY SameWithout, SameHolds
<1>4. Service!UpdateBoundTrigger(id, o)
  BY <1>2, <1>3 DEF Service!UpdateBoundTrigger
<1>5. id \in Service!ReviewIDs /\ SeedTrigger \in Service!TriggerIDs /\ o.id \in Service!TriggerEntryIDs(id)
  BY DEF Service!ReviewIDs, Service!TriggerIDs, Service!TriggerEntryIDs, Service!EntryIDs, Holds
<1> QED BY <1>1, <1>4, <1>5 DEF Service!Next

LEMMA ServesRefusal ==
  ASSUME NEW id \in DOMAIN settled.reviews,
         NEW o \in BoundCause, o.cause = SeedCause,
         NEW cs, cs = settled.reviews[id].causes, NEW rest, BindRefused(rest, o),
         \/ o.id = Nil /\ rest = cs
         \/ Holds(cs, o.id) /\ rest \in Without(cs, o.id),
         NEW left, settled'.reviews = [settled.reviews EXCEPT ![id].causes = left],
         left = Padded(Rewritten(rest, o), Len(cs)),
         rest = cs => left = Rewritten(rest, o),
         settled'.lastID = settled.lastID, settled'.outcome = "refused", clock' = clock
  PROVE  Service!Next
<1>1. o = [id |-> o.id, cause |-> SeedCause, why |-> o.why, proximal |-> o.proximal]
      /\ o.why \in Whys /\ o.proximal \in BOOLEAN
  BY DEF BoundCause
<1>2. Service!BindRefused(rest, o)
  BY SameRefusal
<1>3. id \in Service!ReviewIDs /\ SeedCause \in Service!CauseIDs
  BY DEF Service!ReviewIDs, Service!CauseIDs
<1>4. CASE o.id = Nil /\ rest = cs
  <2>1. Service!BindResidue(cs, o) = left
    BY <1>4, SameRefusal
  <2>2. Service!LeaveCauses(id, Service!BindResidue(cs, o))
    BY <2>1 DEF Service!LeaveCauses
  <2>3. o = [id |-> Service!Nil, cause |-> SeedCause, why |-> o.why, proximal |-> o.proximal]
    BY <1>1, <1>4 DEF Service!Nil, Nil
  <2>4. Service!BindContributingCause(id, SeedCause, o.why, o.proximal)
    BY <1>2, <1>4, <2>2, <2>3 DEF Service!BindContributingCause
  <2> QED BY <1>1, <1>3, <2>4 DEF Service!Next
<1>5. CASE Holds(cs, o.id) /\ rest \in Without(cs, o.id)
  <2>1. Service!RebindResidue(cs, rest, o) = left
    BY SameRefusal
  <2>2. Service!LeaveCauses(id, Service!RebindResidue(cs, rest, o))
    BY <2>1 DEF Service!LeaveCauses
  <2>3. rest \in Service!Without(cs, o.id) /\ Service!Holds(cs, o.id)
    BY <1>5, SameWithout, SameHolds
  <2>4. Service!UpdateBoundContributingCause(id, o)
    BY <1>2, <2>2, <2>3 DEF Service!UpdateBoundContributingCause
  <2>5. o.id \in Service!CauseEntryIDs(id)
    BY <1>5 DEF Service!CauseEntryIDs, Service!EntryIDs, Holds
  <2> QED BY <1>1, <1>3, <2>4, <2>5 DEF Service!Next
<1> QED BY <1>4, <1>5

LEMMA ServesForm ==
  ASSUME NEW id \in DOMAIN settled.reviews, NEW body \in Bodies,
         NEW r, r = Update(settled.reviews[id], [NoReview EXCEPT !.body = body]), r.id = id,
         \/ /\ Validates(r) /\ settled'.outcome = "ok"
            /\ settled'.reviews = [x \in DOMAIN settled.reviews |->
                 IF x = id THEN UpdateTimestamps(r, clock) ELSE settled.reviews[x]]
         \/ ~ Validates(r) /\ settled'.outcome = "refused" /\ settled'.reviews = settled.reviews,
         settled'.lastID = settled.lastID, clock' = clock
  PROVE  Service!Next
<1>1. [NoReview EXCEPT !.body = body].body = body
  BY DEF NoReview
<1>2. r = Service!Update(settled.reviews[id], Service!NewReview(Service!NewID, body))
  BY <1>1 DEF Service!Update, Update, Service!NewReview
<1>3. Validates(r) = Service!Validates(r)
  BY DEF Validates, Service!Validates, Nil, Service!Nil
<1>4. UpdateTimestamps(r, clock) = Service!UpdateTimestamps(r, clock)
  BY DEF UpdateTimestamps, Service!UpdateTimestamps, ZeroTime, Service!ZeroTime
<1>5. DOMAIN settled.reviews = DOMAIN settled.reviews \cup {r.id}
  OBVIOUS
<1>6. Validates(r) => Service!Save(r)
  BY <1>3, <1>4, <1>5 DEF Service!Save, Service!Put
<1>7. Service!UpdateReview(id, body)
  BY <1>2, <1>3, <1>6 DEF Service!UpdateReview
<1> QED BY <1>7 DEF Service!Next, Service!ReviewIDs

-------------------------------------------------------------------------------------
(* The steps by which a request takes its effect are ReviewService's.                        *)
LEMMA SoundMemory ==
  ASSUME SerialInv
  PROVE  /\ SettledIsSound /\ DOMAIN settled.reviews = DOMAIN reviews /\ settled.lastID \in Nat
         /\ \A id \in DOMAIN reviews :
              settled.reviews[id].createdAt # ZeroTime /\ SameForm(settled.reviews[id], Latest(id))
<1>1. /\ settled.reviews \in [DOMAIN reviews -> ReviewType] /\ settled.lastID \in Nat
      /\ \A id \in DOMAIN reviews : SameForm(settled.reviews[id], Latest(id))
  BY DEF SerialInv, Remembers
<1>2. \A id \in DOMAIN reviews :
        /\ Latest(id).id = id /\ Latest(id).body \in ValidBodies /\ Latest(id).createdAt # ZeroTime
        /\ id # Nil
  BY LatestIs DEF SerialInv, HeapCore, Nil
<1> QED BY <1>1, <1>2 DEF SettledIsSound, SameForm

LEMMA EnteredTyped ==
  ASSUME NEW w, w.entry \in EntriesIn(Field(w.op)), NEW last \in Nat
  PROVE  Entered(w, last) \in EntriesIn(Field(w.op))
<1>1. CASE Field(w.op) = "causes"
  <2>1. w.entry \in BoundCause
    BY <1>1 DEF EntriesIn
  <2>2. [w.entry EXCEPT !.id = last + 1] \in BoundCause
    BY <2>1 DEF BoundCause, IDs
  <2> QED BY <1>1, <2>1, <2>2 DEF Entered, EnsureID, EntriesIn
<1>2. CASE Field(w.op) = "triggers"
  <2>1. w.entry \in BoundTrigger
    BY <1>2 DEF EntriesIn
  <2>2. [w.entry EXCEPT !.id = last + 1] \in BoundTrigger
    BY <2>1 DEF BoundTrigger, IDs
  <2> QED BY <1>2, <2>1, <2>2 DEF Entered, EnsureID, EntriesIn
<1> QED BY <1>1, <1>2, FieldOfOp

(* The list a request has made, entry by entry, is the one ReviewService gives the review.    *)
Listed(rest, w, last) == Append(Prepared(rest, w), Entered(w, last))

LEMMA WalkedTo ==
  ASSUME SerialInv, NEW p \in Goroutines, pc[p] = "save", own[p].op # "form"
  PROVE  \E rest \in Rests(Found(own[p]), own[p]) :
           /\ Accepted(rest, own[p]) /\ rest \in Seq(EntriesIn(Field(own[p].op)))
           /\ Listed(rest, own[p], settled.lastID) \in Seq(EntriesIn(Field(own[p].op)))
           /\ Seen(arrays, own[p].slice) = Listed(rest, own[p], settled.lastID)
<1> DEFINE w == own[p]
           f == Field(w.op)
           last == settled.lastID
<1>1. p \in Busy /\ HeapCore /\ pc[p] \in Ahead
  BY DEF Busy, SerialInv, Ahead
<1>2. Found(w) \in Seq(EntriesIn(f)) /\ Progress("save", w, arrays[w.slice.array], Found(w), last)
  BY <1>1, UnderWayIs
<1>3. PICK rest \in Rests(Found(w), w) :
        /\ w.slice.len = Len(rest) + 1
        /\ Reads(arrays[w.slice.array], Listed(rest, w, last)) /\ Accepted(rest, w)
  BY <1>2 DEF Progress, Listed
<1>4. rest \in Seq(EntriesIn(f))
  BY <1>2, <1>3, RestTyped
<1>5. w.entry \in EntriesIn(f) /\ w.slice \in Slice /\ Fits(arrays, w.slice, f)
  BY <1>1, AtWork
<1>6. Prepared(rest, w) \in Seq(EntriesIn(f)) /\ Len(Prepared(rest, w)) = Len(rest)
  BY <1>4, <1>5, PreparedTyped
<1>7. Entered(w, last) \in EntriesIn(f)
  BY <1>5, EnteredTyped, SoundMemory
<1>8. Listed(rest, w, last) \in Seq(EntriesIn(f)) /\ Len(Listed(rest, w, last)) = w.slice.len
  BY <1>3, <1>6, <1>7 DEF Listed
<1>9. Seen(arrays, w.slice) = Listed(rest, w, last)
  BY <1>3, <1>5, <1>8, SeenReads
<1> QED BY <1>3, <1>4, <1>8, <1>9

LEMMA WritesBack ==
  ASSUME SerialInv, HeapCore', Noted, NEW p \in Goroutines, Save(p), own[p].op # "form",
         NEW list \in Seq(EntriesIn(Field(own[p].op))), Seen(arrays, own[p].slice) = list
  PROVE  SerialInv' /\ settled' = Now' /\ SavedWith(own[p].review.id, Field(own[p].op), list)
<1> PICK id, f : id = own[p].review.id /\ f = Field(own[p].op)
  OBVIOUS
<1> DEFINE w == own[p]
           s == settled.reviews[id]
           r == [s EXCEPT ![f] = list]
           u == UpdateTimestamps(r, clock)
<1>1. pc[p] = "save" /\ p \in Busy /\ HeapCore /\ OneAtATime
  BY DEF Save, Busy, SerialInv
<1>2. /\ id \in DOMAIN reviews /\ Validates(Result(w))
      /\ Latest(id)'.id = id /\ Latest(id)'.body = reviews[id].body
      /\ Latest(id)'.createdAt = reviews[id].createdAt /\ Latest(id)'.updatedAt = clock
      /\ Latest(id)'[f] = own[p].slice
      /\ \A g \in Fields \ {f} : Latest(id)'[g] = reviews[id][g]
  BY WritesSlot
<1>3. /\ reviews' = reviews /\ arrays' = Swept(arrays) /\ OneAtATime'
      /\ \A x \in DOMAIN reviews \ {id} : Latest(x)' = Latest(x)
  BY <1>2, Stamps
<1>4. SerialInv' /\ settled' = Now'
  BY <1>2, Stamps
<1>a. Unwritten /\ Latest(id) = reviews[id]
  BY <1>1, NobodyWrites, LatestIsStored
<1>5. f \in Fields /\ clock \in Times
  BY <1>1, FieldOfOp DEF HeapCore, Counters, Times
<1>6. s \in ReviewType /\ SameForm(s, reviews[id]) /\ s.createdAt # ZeroTime /\ s.id = id
  BY <1>2, <1>a, SoundMemory DEF SettledIsSound
<1>7. r \in ReviewType /\ SameForm(r, s) /\ r[f] = list /\ \A g \in Fields \ {f} : r[g] = s[g]
  <2>1. \A a \in ReviewType :
          LET b == [a EXCEPT ![f] = list] IN
          b \in ReviewType /\ SameForm(b, a) /\ b[f] = list /\ \A g \in Fields \ {f} : b[g] = a[g]
    BY <1>5, ListPut
  <2> QED BY <1>6, <2>1
<1> HIDE DEF r
<1>8. /\ u \in ReviewType /\ u.id = r.id /\ u.body = r.body /\ u.createdAt = r.createdAt
      /\ u.updatedAt = clock /\ \A g \in Fields : u[g] = r[g]
  <2>1. r.createdAt # ZeroTime
    BY <1>6, <1>7 DEF SameForm
  <2> QED BY <1>5, <1>7, <2>1, StampedShown
<1> HIDE DEF u
<1>9. SameForm(u, Latest(id)')
  BY <1>2, <1>6, <1>7, <1>8, ZenonT(40) DEF SameForm
<1>10. ASSUME NEW g \in Fields
       PROVE  u[g] = Seen(arrays, Latest(id)'[g])
  <2>1. CASE g = f
    BY <1>2, <1>7, <1>8, <2>1
  <2>2. CASE g # f
    <3>1. ~ InWork(id, g)
      BY <1>1, <2>2, Alone DEF SerialInv, InWork
    <3>2. s[g] = Shown(reviews[id][g])
      BY <1>2, <1>a, <3>1, StoredRemembered DEF SerialInv
    <3> QED BY <1>2, <1>7, <1>8, <2>2, <3>2, ShownIsSeen
  <2> QED BY <2>1, <2>2
<1>11. settled'.reviews = [x \in DOMAIN reviews |-> IF x = id THEN u ELSE settled.reviews[x]]
  BY <1>1, <1>2, <1>3, <1>4, <1>8, <1>9, <1>10, OnlyItsReview
<1> QED BY <1>4, <1>11, SoundMemory DEF SavedWith, r, u

(* What the caller is told, or will be.                                                       *)
LEMMA ToldAfterSave ==
  ASSUME SerialInv, HeapCore', Noted, NEW p \in Goroutines, Save(p), own[p].op # "form"
  PROVE  /\ settled'.lastID = lastID
         /\ settled'.outcome =
              IF own[p].op \in Updates /\ ~ Holds(Seen(arrays, own[p].slice), own[p].entry.id)
              THEN "unexpected" ELSE "ok"
<1> PICK id, f : id = own[p].review.id /\ f = Field(own[p].op)
  OBVIOUS
<1> DEFINE w == own[p]
<1>1. /\ id \in DOMAIN reviews /\ f \in Fields /\ Validates(Result(w))
      /\ Latest(id)'[f] = w.slice
  BY WritesSlot, FieldOfOp
<1>2. /\ own'[p].op = w.op /\ own'[p].slice = w.slice /\ own'[p].entry = w.entry
      /\ OneAtATime' /\ settled' = Now' /\ Busy' = {p} /\ pc'[p] = "write"
      /\ UNCHANGED <<reviews, lastID>> /\ arrays' = Swept(arrays)
  BY <1>1, Stamps
<1>3. settled'.lastID = lastID
  BY <1>2 DEF Now
<1>4. (CHOOSE q \in Busy' : TRUE) = p
  BY <1>2
<1>5. settled'.outcome = IF w.op \in Updates /\ ~ Holds(Seen(arrays', w.slice), w.entry.id)
                        THEN "unexpected" ELSE "ok"
  BY <1>2, <1>4 DEF Now, Told, AnswerTo, Shown, Seen
<1>6. Seen(arrays', w.slice) = Seen(arrays, w.slice)
  <2>1. Shown(Latest(id)[f])' = Seen(arrays, Latest(id)'[f])
    BY <1>1, <1>2, SweptShows
  <2>2. Shown(Latest(id)[f])' = Seen(arrays', Latest(id)'[f])
    BY DEF Shown, Seen
  <2> QED BY <1>1, <2>1, <2>2
<1> QED BY <1>3, <1>5, <1>6

(* The answer to an update that was saved: an entry bound without an id is not found.           *)
LEMMA FoundAfterRebind ==
  ASSUME NEW base \in Seq(BoundCause), NEW o \in BoundCause, NEW rest \in Without(base, o.id),
         NEW last \in Nat
  PROVE  Holds(Bind(rest, o, last + 1), o.id) <=> o.id # Nil
<1> DEFINE new == Rewritten(rest, o)
           e == EnsureID(o, last + 1)
<1>1. /\ rest \in Seq(BoundCause)
      /\ \E f \in [DOMAIN rest -> DOMAIN base] :
           \A i \in DOMAIN rest : rest[i] = base[f[i]] /\ base[f[i]].id # o.id
  BY WithoutLists
<1>2. /\ new \in Seq(BoundCause) /\ Len(new) = Len(rest)
      /\ \A i \in DOMAIN rest : new[i].id = rest[i].id
  BY <1>1, RewrittenKeeps
<1>3. \A i \in 1..Len(new) : new[i].id # o.id
  <2>1. \A i \in DOMAIN rest : rest[i].id # o.id
    BY <1>1
  <2> QED BY <1>1, <1>2, <2>1
<1>4. e.id = IF o.id = Nil THEN last + 1 ELSE o.id
  BY DEF EnsureID, BoundCause
<1> HIDE DEF new, e
<1>5. /\ DOMAIN Append(new, e) = 1..(Len(new) + 1) /\ Append(new, e)[Len(new) + 1] = e
      /\ \A i \in 1..Len(new) : Append(new, e)[i] = new[i]
  BY <1>2
<1>6. Holds(Append(new, e), o.id) <=> e.id = o.id
  BY <1>2, <1>3, <1>5 DEF Holds
<1>7. e.id = o.id <=> o.id # Nil
  BY <1>4 DEF Nil
<1> QED BY <1>6, <1>7 DEF Bind, new, e

LEMMA FoundAfterReplace ==
  ASSUME NEW S, NEW rest \in Seq(S), NEW o
  PROVE  Holds(Append(rest, o), o.id)
BY DEF Holds

LEMMA SaveServed ==
  ASSUME SerialInv, HeapCore', Noted, NEW p \in Goroutines, Save(p), own[p].op # "form"
  PROVE  SerialInv' /\ Service!Next
<1> DEFINE w == own[p]
           id == own[p].review.id
           f == Field(own[p].op)
           base == Found(own[p])
           o == own[p].entry
           last == settled.lastID
<1>1. pc[p] = "save" /\ p \in Busy /\ HeapCore /\ pc[p] \in Ahead
  BY DEF Save, Busy, SerialInv, Ahead
<1>2. PICK rest \in Rests(base, w) :
        /\ Accepted(rest, w) /\ rest \in Seq(EntriesIn(f))
        /\ Listed(rest, w, last) \in Seq(EntriesIn(f))
        /\ Seen(arrays, w.slice) = Listed(rest, w, last)
  BY <1>1, WalkedTo
<1>3. SerialInv' /\ SavedWith(id, f, Listed(rest, w, last))
  BY <1>2, WritesBack
<1>4. /\ settled'.lastID = lastID
      /\ settled'.outcome = IF w.op \in Updates /\ ~ Holds(Listed(rest, w, last), o.id)
                            THEN "unexpected" ELSE "ok"
  BY <1>2, ToldAfterSave
<1>5. /\ id \in DOMAIN reviews /\ base \in Seq(EntriesIn(f)) /\ Asks(w, base)
      /\ lastID = IF Fresh(w) THEN last + 1 ELSE last
  BY <1>1, UnderWayIs
<1>6. SettledIsSound /\ id \in DOMAIN settled.reviews /\ last \in Nat
  BY <1>5, SoundMemory
<1>7. lastID \in Nat /\ MaxID \in Nat /\ lastID <= MaxID
  BY <1>1, RequestsAssumption DEF HeapCore, Counters
<1>8. clock' = clock
  BY DEF Save, Refuse
<1>9. w.op \in AllOps /\ o \in EntriesIn(f)
  BY <1>1, AtWork
<1>10. CASE w.op = "bind"
  <2>1. /\ f = "causes" /\ rest = base /\ o \in BoundCause /\ o.id = Nil /\ o.cause = SeedCause
        /\ Fresh(w) /\ w.op \notin Updates /\ Len(base) < MaxCauses /\ EntriesIn(f) = BoundCause
    BY <1>2, <1>5, <1>9, <1>10 DEF Field, Rests, Updates, EntriesIn, Asks, Fresh
  <2>2. Listed(rest, w, last) = Bind(base, o, last + 1) /\ ~ BindRefused(base, o)
    BY <1>2, <2>1 DEF Listed, Prepared, Entered, Bind, Accepted
  <2>3. base = settled.reviews[id].causes
    BY <2>1 DEF Found
  <2>4. settled'.lastID = last + 1 /\ last < MaxID /\ settled'.outcome = "ok"
    BY <1>4, <1>5, <1>6, <1>7, <2>1
  <2> HIDE DEF base, id, o, f
  <2> QED BY <1>2, <1>3, <1>6, <1>8, <2>1, <2>2, <2>3, <2>4, ServesBind
<1>11. CASE w.op = "rebind"
  <2>1. /\ f = "causes" /\ rest \in Without(base, o.id) /\ o \in BoundCause /\ o.cause = SeedCause
        /\ (Fresh(w) <=> o.id = Nil) /\ w.op \in Updates /\ Holds(base, o.id)
        /\ EntriesIn(f) = BoundCause
    BY <1>2, <1>5, <1>9, <1>11 DEF Field, Rests, Updates, EntriesIn, Asks, Fresh
  <2>2. Listed(rest, w, last) = Bind(rest, o, last + 1) /\ ~ BindRefused(rest, o)
    BY <1>2, <2>1 DEF Listed, Prepared, Entered, Bind, Accepted, EnsureID
  <2>3. base = settled.reviews[id].causes
    BY <2>1 DEF Found
  <2>4. settled'.lastID = (IF o.id = Nil THEN last + 1 ELSE last) /\ (o.id = Nil => last < MaxID)
    BY <1>4, <1>5, <1>6, <1>7, <2>1
  <2>5. Holds(Listed(rest, w, last), o.id) <=> o.id # Nil
    BY <1>5, <1>6, <2>1, <2>2, FoundAfterRebind
  <2>6. settled'.outcome = IF o.id = Nil THEN "unexpected" ELSE "ok"
    BY <1>4, <2>1, <2>5
  <2> HIDE DEF base, id, o, f
  <2> QED BY <1>2, <1>3, <1>6, <1>8, <2>1, <2>2, <2>3, <2>4, <2>6, ServesRebind
<1>12. CASE w.op = "bindTrigger"
  <2>1. /\ f = "triggers" /\ rest = base /\ o \in BoundTrigger /\ o.id = Nil
        /\ o.trigger = SeedTrigger /\ Fresh(w) /\ w.op \notin Updates /\ Len(base) < MaxTriggers
        /\ EntriesIn(f) = BoundTrigger
    BY <1>2, <1>5, <1>9, <1>12 DEF Field, Rests, Updates, EntriesIn, Asks, Fresh
  <2>2. Listed(rest, w, last) = Append(base, EnsureID(o, last + 1))
    BY <2>1 DEF Listed, Prepared, Entered
  <2>3. base = settled.reviews[id].triggers
    BY <2>1 DEF Found
  <2>4. settled'.lastID = last + 1 /\ last < MaxID /\ settled'.outcome = "ok"
    BY <1>4, <1>5, <1>6, <1>7, <2>1
  <2> HIDE DEF base, id, o, f
  <2> QED BY <1>2, <1>3, <1>6, <1>8, <2>1, <2>2, <2>3, <2>4, ServesBindTrigger
<1>13. CASE w.op = "rebindTrigger"
  <2>1. /\ f = "triggers" /\ rest \in Without(base, o.id) /\ o \in BoundTrigger
        /\ o.trigger = SeedTrigger /\ ~ Fresh(w) /\ Holds(base, o.id) /\ EntriesIn(f) = BoundTrigger
    BY <1>2, <1>5, <1>9, <1>13 DEF Field, Rests, Updates, EntriesIn, Asks, Fresh
  <2>2. Listed(rest, w, last) = Append(rest, o)
    BY <2>1 DEF Listed, Prepared, Entered
  <2>3. base = settled.reviews[id].triggers
    BY <2>1 DEF Found
  <2>4. settled'.lastID = last /\ settled'.outcome = "ok"
    BY <1>2, <1>4, <1>5, <2>1, <2>2, FoundAfterReplace
  <2> HIDE DEF base, id, o, f
  <2> QED BY <1>2, <1>3, <1>6, <1>8, <2>1, <2>2, <2>3, <2>4, ServesRebindTrigger
<1> QED BY <1>9, <1>10, <1>11, <1>12, <1>13 DEF AllOps

(* A form writes its fields, whatever the lists of the review are.                             *)
LEMMA FormServed ==
  ASSUME SerialInv, HeapCore', Noted, NEW p \in Goroutines, Save(p), own[p].op = "form"
  PROVE  SerialInv' /\ Service!Next
<1> PICK id : id = own[p].review.id
  OBVIOUS
<1> DEFINE w == own[p]
           s == settled.reviews[id]
           body == w.review.body
           r == [s EXCEPT !.body = body]
<1>1. pc[p] = "save" /\ p \in Busy /\ HeapCore /\ pc[p] \in Ahead /\ OneAtATime
  BY DEF Save, Busy, SerialInv, Ahead
<1>a. Unwritten /\ \A x : Latest(x) = reviews[x]
  BY <1>1, NobodyWrites, LatestIsStored
<1>2. /\ id \in DOMAIN reviews /\ w.review \in StoredReview
      /\ w.review = Update(reviews[id], w.review) /\ lastID = settled.lastID
  BY <1>1, AtWork DEF SerialInv, Working
<1>3. /\ reviews[id] \in StoredReview /\ reviews[id].id = id /\ reviews[id].createdAt # ZeroTime
      /\ clock \in Times /\ body \in Bodies
  BY <1>1, <1>2, StoredIs, SMTT(30) DEF HeapCore, Counters, Times, StoredReview
<1>4. /\ s \in ReviewType /\ s.createdAt # ZeroTime /\ s.id = id /\ SameForm(s, reviews[id])
      /\ id \in DOMAIN settled.reviews
  BY <1>2, <1>a, SoundMemory DEF SettledIsSound
<1>5. \A g \in Fields : s[g] = Seen(arrays, reviews[id][g])
  <2>1. \A g \in Fields : ~ InWork(id, g)
    BY <1>1, Alone DEF SerialInv, InWork
  <2>2. \A g \in Fields : s[g] = Shown(reviews[id][g])
    BY <1>2, <1>a, <2>1, StoredRemembered DEF SerialInv
  <2> QED BY <2>2, ShownIsSeen
<1>6. /\ w.review.id = id /\ w.review.createdAt = reviews[id].createdAt
      /\ \A g \in Fields : w.review[g] = reviews[id][g]
  <2>1. w.review = [reviews[id] EXCEPT !.body = body]
    BY <1>2 DEF Update
  <2> HIDE DEF body
  <2> QED BY <1>3, <2>1 DEF StoredReview, Fields
<1>7. /\ r \in ReviewType /\ r.id = id /\ r.body = body /\ r.createdAt = s.createdAt
      /\ \A g \in Fields : r[g] = s[g]
  BY <1>3, <1>4 DEF ReviewType, Fields
<1>8. r = Update(s, [NoReview EXCEPT !.body = body])
  BY DEF Update, NoReview
<1> HIDE DEF r
<1>9. Validates(r) <=> Validates(w.review)
  BY <1>6, <1>7 DEF Validates
<1>10. UNCHANGED <<reviews, lastID, clock>> /\ arrays' = Swept(arrays)
  BY DEF Save, Refuse
<1>11. Result(w) = w.review
  BY DEF Result
<1>13. CASE Validates(w.review)
  <2> DEFINE v == UpdateTimestamps(w.review, clock)
             u == UpdateTimestamps(r, clock)
  <2>1. /\ Latest(id)' = v /\ \A x \in DOMAIN reviews \ {id} : Latest(x)' = Latest(x)
        /\ SerialInv' /\ OneAtATime' /\ settled' = Now' /\ Busy' = {p} /\ own'[p].op = "form"
        /\ pc'[p] = "write"
    BY <1>11, <1>13, Stamps
  <2>2. /\ v.id = id /\ v.body = body /\ v.createdAt = reviews[id].createdAt
        /\ v.updatedAt = clock /\ \A g \in Fields : v[g] = reviews[id][g]
    <3>1. w.review.createdAt # ZeroTime
      BY <1>3, <1>6
    <3> QED BY <1>2, <1>3, <1>6, <3>1, StampedReview
  <2>3. /\ u \in ReviewType /\ u.id = id /\ u.body = body /\ u.createdAt = s.createdAt
        /\ u.updatedAt = clock /\ \A g \in Fields : u[g] = s[g]
    BY <1>3, <1>4, <1>7, StampedShown
  <2> HIDE DEF u, v
  <2>4. settled'.outcome = "ok" /\ settled'.lastID = settled.lastID
    <3>1. (CHOOSE q \in Busy' : TRUE) = p
      BY <2>1
    <3>2. Told' = "ok"
      BY <2>1, <3>1 DEF Told, Updates
    <3> QED BY <1>2, <1>10, <2>1, <3>2 DEF Now
  <2>5. SameForm(u, Latest(id)')
    BY <1>4, <2>1, <2>2, <2>3 DEF SameForm
  <2>6. \A g \in Fields : u[g] = Seen(arrays, Latest(id)'[g])
    BY <1>5, <2>1, <2>2, <2>3
  <2>7. settled'.reviews = [x \in DOMAIN reviews |-> IF x = id THEN u ELSE settled.reviews[x]]
    BY <1>1, <1>2, <1>10, <2>1, <2>3, <2>5, <2>6, OnlyItsReview
  <2>8. settled'.reviews = [x \in DOMAIN settled.reviews |-> IF x = id THEN u ELSE settled.reviews[x]]
    BY <2>7, SoundMemory
  <2> HIDE DEF body, s
  <2> QED BY <1>3, <1>4, <1>7, <1>8, <1>9, <1>10, <1>13, <2>1, <2>4, <2>8, ServesForm DEF u, s
<1>14. CASE ~ Validates(w.review)
  <2>1. pc' = [pc EXCEPT ![p] = "idle"] /\ outcome' = "refused"
    BY <1>11, <1>14 DEF Save, Refuse, Done, Goto
  <2>5. SerialInv' /\ settled' = Now' /\ Busy' = {} /\ OneAtATime'
    BY <1>1, <2>1, Ends DEF SerialInv
  <2>6. \A x \in DOMAIN reviews : Latest(x)' = Latest(x)
    BY <1>10, <1>a, <2>5, IdleAfter
  <2>2. settled'.reviews = [x \in DOMAIN reviews |-> IF x = id THEN s ELSE settled.reviews[x]]
    BY <1>1, <1>2, <1>4, <1>5, <1>10, <1>a, <2>5, <2>6, OnlyItsReview, SMTT(30)
  <2>3. settled'.reviews = settled.reviews
    BY <2>2 DEF SerialInv, Remembers
  <2>4. settled'.outcome = "refused" /\ settled'.lastID = settled.lastID
    BY <1>2, <1>10, <2>1, <2>5 DEF Now, Told
  <2> HIDE DEF body, s
  <2> QED BY <1>3, <1>4, <1>7, <1>8, <1>9, <1>10, <1>14, <2>3, <2>4, <2>5, ServesForm DEF s
<1> QED BY <1>13, <1>14

(* A bind that another reason refuses leaves in the review what the loop has made of its list.   *)
LEMMA RefusalServed ==
  ASSUME SerialInv, HeapCore', Noted, NEW p \in Goroutines, Load(p),
         own[p].i <= own[p].slice.len, SameReason(Elem(own[p].slice, own[p].i), own[p].entry)
  PROVE  SerialInv' /\ Service!Next
<1>0. PICK id : id = own[p].review.id
  OBVIOUS
<1> USE <1>0
<1> DEFINE w == own[p]
           base == Found(own[p])
           o == own[p].entry
           s == settled.reviews[id]
           x == arrays[w.slice.array]
<1>1. pc[p] = "load" /\ pc[p] \in Loops /\ pc[p] # "idle" /\ pc[p] \in Ahead /\ HeapCore
  BY DEF Load, Loops, SerialInv, Ahead
<1>2. /\ p \in Busy /\ w.op # "form" /\ base \in Seq(EntriesIn(Field(w.op))) /\ Asks(w, base)
      /\ Progress("load", w, x, base, settled.lastID) /\ lastID = settled.lastID
  BY <1>1, InALoop
<1>3. /\ w.op \in {"bind", "rebind"} /\ w.i \in Nat /\ w.i >= 1 /\ o \in EntriesIn(Field(w.op))
      /\ w.slice.array = w.review[Field(w.op)].array
  BY <1>1, AtWork DEF KnowsAt
<1>4. Field(w.op) = "causes" /\ EntriesIn(Field(w.op)) = BoundCause /\ "causes" \in Fields
  BY <1>3 DEF Field, EntriesIn, Fields
<1>5. PICK rest \in Rests(base, w) :
        BindRefused(rest, o) /\ Reads(x, Padded(Rewritten(rest, o), Len(base)))
  BY <1>2, <1>3, <1>4, LoopRefused DEF Elem
<1> DEFINE left == Padded(Rewritten(rest, o), Len(base))
<1>6. rest \in Seq(BoundCause) /\ Len(base) \in Nat
  BY <1>2, <1>4, <1>5, RestTyped
<1>7. /\ Rewritten(rest, o) \in Seq(BoundCause) /\ Len(Rewritten(rest, o)) = Len(rest)
  BY <1>3, <1>4, <1>6, RewrittenKeeps
<1>8. left \in Seq(BoundCause) /\ Len(left) = Len(base) /\ (rest = base => left = Rewritten(rest, o))
  <2> DEFINE new == Rewritten(rest, o)
  <2>1. new \in Seq(BoundCause) /\ Len(new) = Len(rest)
    BY <1>7
  <2> HIDE DEF new
  <2>2. BlankCause \in BoundCause
    BY WhysAssumption DEF BlankCause, BoundCause, Nil, IDs
  <2>3. \A i \in DOMAIN new : new[i] \in BoundCause
    BY <2>1
  <2>4. Padded(new, Len(base)) \in [1..Len(base) -> BoundCause]
    BY <2>2, <2>3 DEF Padded
  <2>5. Padded(new, Len(base)) \in Seq(BoundCause) /\ Len(Padded(new, Len(base))) = Len(base)
    BY <1>6, <2>4
  <2>6. rest = base => Padded(new, Len(base)) = new
    BY <2>1 DEF Padded
  <2> QED BY <2>5, <2>6 DEF new
<1>9. /\ w.review = reviews[id] /\ id \in DOMAIN reviews /\ Len(base) = w.review[Field(w.op)].len
  BY <1>1, <1>2, UnderWayIs
<1>10. /\ reviews[id].causes \in Slice /\ Fits(arrays, reviews[id].causes, "causes")
       /\ reviews[id].causes.array = w.slice.array /\ reviews[id].causes.len = Len(base)
  <2>1. \A f \in Fields : reviews[id][f] \in Slice /\ Fits(arrays, reviews[id][f], f)
    BY <1>1, <1>9, StoredIs
  <2>2. reviews[id]["causes"] \in Slice /\ Fits(arrays, reviews[id]["causes"], "causes")
    BY <1>4, <2>1
  <2>3. w.review["causes"].array = w.slice.array /\ w.review["causes"].len = Len(base)
    BY <1>3, <1>4, <1>9
  <2>4. w.review["causes"] = reviews[id]["causes"]
    BY <1>9
  <2> HIDE DEF w, base
  <2> QED BY <2>2, <2>3, <2>4
<1> HIDE DEF left
<1>11. Seen(arrays, reviews[id].causes) = left
  <2>1. left \in Seq(EntriesIn("causes")) /\ Len(left) = reviews[id].causes.len
    BY <1>8, <1>10 DEF EntriesIn
  <2>2. Reads(arrays[reviews[id].causes.array], left)
    BY <1>5, <1>10 DEF left
  <2> QED BY <1>10, <2>1, <2>2, SeenReads
<1>12. /\ pc' = [pc EXCEPT ![p] = "idle"] /\ outcome' = "refused"
       /\ UNCHANGED <<reviews, lastID, clock>> /\ arrays' = Swept(arrays)
  <2>1. ~ (w.i > w.slice.len)
    BY <1>1, AtWork
  <2>2. Refuse(p)
    BY <2>1 DEF Load
  <2> QED BY <2>2 DEF Refuse, Done, Goto
<1>13. SerialInv' /\ settled' = Now' /\ Busy' = {} /\ OneAtATime'
  BY <1>2, <1>12, Ends DEF SerialInv
<1>a. Unwritten /\ \A y : Latest(y) = reviews[y]
  BY <1>1, <1>2, NobodyWrites, LatestIsStored DEF SerialInv
<1>b. \A y \in DOMAIN reviews : Latest(y)' = reviews[y]
  BY <1>12, <1>13, IdleAfter
<1>14. settled'.lastID = settled.lastID /\ settled'.outcome = "refused"
  BY <1>2, <1>12, <1>13 DEF Now, Told
<1>15. s \in ReviewType /\ SameForm(s, reviews[id]) /\ id \in DOMAIN settled.reviews
  BY <1>9, <1>a, SoundMemory DEF SettledIsSound
<1> DEFINE r == [s EXCEPT !.causes = left]
<1>16. r \in ReviewType /\ SameForm(r, s) /\ r.causes = left /\ r.triggers = s.triggers
  BY <1>8, <1>15 DEF ReviewType, SameForm
<1>17. s.triggers = Seen(arrays, reviews[id].triggers)
  <2>1. ~ InWork(id, "triggers")
    BY <1>2, <1>4, Alone DEF SerialInv, InWork
  <2>2. s["triggers"] = Shown(reviews[id]["triggers"])
    BY <1>9, <1>a, <2>1, StoredRemembered DEF SerialInv, Fields
  <2> QED BY <2>2, ShownIsSeen
<1> HIDE DEF r
<1>18. SameForm(r, Latest(id)') /\ \A f \in Fields : r[f] = Seen(arrays, Latest(id)'[f])
  BY <1>9, <1>11, <1>15, <1>16, <1>17, <1>b DEF Fields, SameForm
<1>19. settled'.reviews = [y \in DOMAIN reviews |-> IF y = id THEN r ELSE settled.reviews[y]]
  BY <1>2, <1>9, <1>12, <1>13, <1>16, <1>18, <1>a, <1>b, OnlyItsReview
<1>20. settled'.reviews = [settled.reviews EXCEPT ![id].causes = left]
  BY <1>19 DEF r, SerialInv, Remembers
<1>21. \/ o.id = Nil /\ rest = base
       \/ Holds(base, o.id) /\ rest \in Without(base, o.id)
  BY <1>2, <1>3, <1>5 DEF Asks, Rests, Updates
<1>22. o \in BoundCause /\ o.cause = SeedCause /\ base = settled.reviews[id].causes
  BY <1>2, <1>3, <1>4 DEF Asks, Found
<1>23. left = Padded(Rewritten(rest, o), Len(base)) /\ clock' = clock
  BY <1>12 DEF left
<1> HIDE <1>0 DEF base, o, w, x, left
<1>24. Service!Next
  BY <1>5, <1>8, <1>14, <1>15, <1>20, <1>21, <1>22, <1>23, ServesRefusal
<1> QED BY <1>13, <1>24

(* An update that was saved is answered: nothing changes for a caller of ReviewService.          *)
LEMMA AnswerServed ==
  ASSUME SerialInv, HeapCore', Noted, NEW p \in Goroutines, Answer(p)
  PROVE  SerialInv' /\ settled'.reviews = settled.reviews /\ settled'.lastID = settled.lastID
         /\ settled'.outcome = settled.outcome /\ clock' = clock
<1>1. pc[p] = "answer" /\ p \in Busy /\ HeapCore /\ Busy = {p}
  BY Alone DEF Answer, Busy, SerialInv
<1>2. /\ pc' = [pc EXCEPT ![p] = "idle"] /\ outcome' = AnswerTo(own[p])
      /\ UNCHANGED <<reviews, lastID, clock>> /\ arrays' = Swept(arrays)
  BY DEF Answer, Done, Goto
<1>3. SerialInv' /\ settled' = Now' /\ Busy' = {}
  BY <1>1, <1>2, Ends
<1>4. Settled /\ settled.lastID = lastID /\ settled.outcome = Told
  BY <1>1 DEF Settled, SerialInv, Remembers
<1>5. Told = AnswerTo(own[p])
  <2>1. (CHOOSE q \in Busy : TRUE) = p
    BY <1>1
  <2> QED BY <1>1, <2>1 DEF Told
<1>6. settled'.lastID = settled.lastID /\ settled'.outcome = settled.outcome
  BY <1>2, <1>3, <1>4, <1>5 DEF Now, Told
<1>7. Unwritten /\ OneAtATime'
  BY <1>1, <1>3, NobodyWrites DEF SerialInv
<1>8. \A x \in DOMAIN reviews : Latest(x)' = Latest(x)
  BY <1>2, <1>3, <1>7, LatestIsStored, IdleAfter
<1>9. settled'.reviews = settled.reviews
  BY <1>1, <1>2, <1>3, <1>7, <1>8, NothingChanges DEF Ahead
<1> QED BY <1>2, <1>3, <1>6, <1>9

(* Nor does the write of a review that was stamped.                                             *)
LEMMA WriteServed ==
  ASSUME SerialInv, HeapCore', Noted, NEW p \in Goroutines, Write(p)
  PROVE  SerialInv' /\ settled'.reviews = settled.reviews /\ settled'.lastID = settled.lastID
         /\ settled'.outcome = settled.outcome /\ clock' = clock
<1> DEFINE w == own[p]
           id == own[p].review.id
           l == IF w.op \in Updates THEN "answer" ELSE "idle"
<1>1. pc[p] = "write" /\ p \in Busy /\ HeapCore /\ Busy = {p} /\ OneAtATime
  BY Alone DEF Write, Busy, SerialInv
<1>2. /\ pc' = [pc EXCEPT ![p] = l] /\ UNCHANGED <<lastID, clock>> /\ arrays' = Swept(arrays)
      /\ IF w.op \in Updates THEN own' = own ELSE outcome' = "ok"
  BY DEF Write, Done, Goto, Updates
<1>3. SerialInv' /\ settled' = Now' /\ OneAtATime' /\ Busy' = (IF l = "idle" THEN {} ELSE {p})
      /\ pc'[p] = l
  BY <1>1, <1>2, Ends DEF SerialInv
<1>4. /\ id \in DOMAIN reviews /\ DOMAIN reviews' = DOMAIN reviews /\ reviews'[id] = w.review
      /\ \A x \in DOMAIN reviews \ {id} : reviews'[x] = reviews[x]
  BY <1>1, WriteWrites
<1>5. \A x \in DOMAIN reviews : Latest(x)' = Latest(x)
  BY <1>1, <1>3, <1>4, LatestIsOwn, IdleAfter
<1>6. settled'.reviews = settled.reviews
  BY <1>1, <1>2, <1>3, <1>4, <1>5, NothingChanges DEF Ahead
<1>7. settled.lastID = lastID /\ settled.outcome = Told
  <2>1. Settled
    BY <1>1 DEF Settled
  <2> QED BY <2>1 DEF SerialInv, Remembers
<1>8. (CHOOSE q \in Busy : TRUE) = p
  BY <1>1
<1>9. CASE w.op \in Updates
  <2>1. Told = AnswerTo(w)
    BY <1>1, <1>8, <1>9 DEF Told
  <2>2. (CHOOSE q \in Busy' : TRUE) = p /\ Busy' # {}
    BY <1>3, <1>9
  <2>3. Told' = IF Holds(Seen(arrays', w.slice), w.entry.id) THEN "ok" ELSE "unexpected"
    BY <1>2, <1>9, <2>2 DEF Told, AnswerTo, Shown, Seen
  <2>4. Seen(arrays', w.slice) = Seen(arrays, w.slice)
    <3>1. w.slice \in Slice /\ (w.slice.array = 0 => w.slice.len = 0)
      BY <1>1, AtWork DEF Fits
    <3>2. w.slice.array \in Live'
      BY <1>2, <1>9 DEF Live
    <3> QED BY <1>2, <3>1, <3>2, SweptSeen
  <2>5. Told' = Told
    BY <2>1, <2>3, <2>4 DEF AnswerTo, Shown, Seen
  <2> QED BY <1>2, <1>3, <1>6, <1>7, <2>5 DEF Now
<1>10. CASE w.op \notin Updates
  <2>1. Told = "ok"
    BY <1>1, <1>8, <1>10 DEF Told
  <2>2. Told' = "ok"
    BY <1>2, <1>3, <1>10 DEF Told
  <2> QED BY <1>2, <1>3, <1>6, <1>7, <2>1, <2>2 DEF Now
<1> QED BY <1>9, <1>10

(* A new review has an id of its own and nothing bound.                                          *)
LEMMA CreateServed ==
  ASSUME SerialInv, HeapCore', Noted, ~ Overlap, NEW body \in Bodies, Create(body)
  PROVE  SerialInv' /\ Service!Next
<1> DEFINE new == lastID + 1
           r == [NewReview(new, body) EXCEPT !.causes = NilSlice, !.triggers = NilSlice]
           s == NewReview(new, body)
           v == UpdateTimestamps(r, clock)
           u == UpdateTimestamps(s, clock)
<1>1. Busy = {} /\ HeapCore /\ OneAtATime
  BY DEF Create, MayArrive, SerialInv
<1>2. /\ r.id = new /\ r.body = body /\ r.causes = NilSlice /\ r.triggers = NilSlice
      /\ r.createdAt = ZeroTime
      /\ s.id = new /\ s.body = body /\ s.causes = <<>> /\ s.triggers = <<>>
  BY DEF NewReview
<1>3. /\ lastID + Cardinality(Busy) < MaxID /\ Cardinality(DOMAIN reviews) < MaxReviews
      /\ Validates(r)
      /\ reviews' = [x \in DOMAIN reviews \cup {new} |-> IF x = new THEN v ELSE reviews[x]]
      /\ lastID' = new /\ outcome' = "ok" /\ UNCHANGED <<arrays, pc, own, clock>>
  BY <1>2 DEF Create
<1>4. new \in Nat /\ new # Nil /\ clock \in Nat /\ lastID \in Nat /\ lastID < MaxID
  <2>1. lastID \in 2..MaxID /\ clock \in 1..MaxClock
    BY <1>1 DEF HeapCore, Counters
  <2>2. Cardinality(Busy) = 0
    BY <1>1, FS_EmptySet
  <2> QED BY <1>3, <2>1, <2>2, RequestsAssumption DEF Nil
<1>5. /\ v.id = new /\ v.body = body /\ v.causes = NilSlice /\ v.triggers = NilSlice
      /\ v.createdAt = clock /\ v.updatedAt = clock
  BY DEF UpdateTimestamps, NewReview
<1>6. /\ u \in ReviewType /\ u.id = new /\ u.body = body /\ u.causes = <<>> /\ u.triggers = <<>>
      /\ u.createdAt = clock /\ u.updatedAt = clock
  <2>1. s \in ReviewType /\ s.createdAt = ZeroTime
    BY <1>4 DEF NewReview, ReviewType, IDs, Times, ZeroTime
  <2> HIDE DEF s
  <2> QED BY <1>2, <1>4, <2>1 DEF UpdateTimestamps, ReviewType, Times
<1> HIDE DEF v
<1>7. Busy' = {} /\ Settled' /\ OneAtATime'
  BY <1>1, <1>3 DEF Busy, Settled, OneAtATime
<1>8. settled' = Now'
  BY <1>7 DEF Noted
<1>9. SerialInv'
  BY <1>7, <1>8, SettlesDown
<1>10. /\ settled'.reviews = [x \in DOMAIN reviews' |-> View(Latest(x))']
       /\ settled'.lastID = new /\ settled'.outcome = "ok"
  BY <1>3, <1>7, <1>8 DEF Now, Told
<1>11. settled.lastID = lastID /\ settled.reviews = [x \in DOMAIN reviews |-> View(Latest(x))]
  BY <1>1, Between, SettledShows
<1>a. /\ \A x \in DOMAIN reviews : Latest(x) = reviews[x]
      /\ \A x \in DOMAIN reviews' : Latest(x)' = reviews'[x]
  BY <1>1, <1>7, NobodyWrites, LatestIsStored, IdleAfter
<1>12. new \notin DOMAIN reviews /\ DOMAIN reviews' = DOMAIN reviews \cup {new} /\ reviews'[new] = v
       /\ \A x \in DOMAIN reviews : reviews'[x] = reviews[x]
  <2>1. DOMAIN reviews \subseteq 3..lastID
    BY <1>1 DEF HeapCore
  <2>2. new \notin DOMAIN reviews
    BY <1>4, <2>1
  <2> QED BY <1>3, <2>2
<1>13. ASSUME NEW x \in DOMAIN reviews
       PROVE  View(Latest(x))' = settled.reviews[x]
  <2>1. Latest(x)' = reviews[x] /\ Latest(x) = reviews[x] /\ arrays' = arrays
    BY <1>3, <1>12, <1>a
  <2>2. View(Latest(x))' = View(Latest(x))
    <3> DEFINE mine == Latest(x)
    <3>1. mine' = mine
      BY <2>1
    <3>2. View(Latest(x))' = [mine' EXCEPT !.causes = Shown(Latest(x).causes)',
                                           !.triggers = Shown(Latest(x).triggers)']
      BY DEF View
    <3>3. Shown(Latest(x).causes)' = Shown(Latest(x).causes)
          /\ Shown(Latest(x).triggers)' = Shown(Latest(x).triggers)
      BY <2>1 DEF Shown
    <3> QED BY <3>1, <3>2, <3>3 DEF View
  <2> QED BY <1>11, <2>2
<1>14. ASSUME NEW x, x = new
       PROVE  View(Latest(x))' = u
  <2>1. Latest(x)' = v /\ x \in DOMAIN reviews'
    BY <1>12, <1>14, <1>a
  <2>2. Shown(Latest(x)["causes"])' = <<>> /\ Shown(Latest(x)["triggers"])' = <<>>
    BY <1>5, <2>1 DEF Shown, NilSlice
  <2>3. View(Latest(x))' \in ReviewType /\ SameForm(View(Latest(x))', v)
        /\ \A f \in Fields : View(Latest(x))'[f] = Shown(Latest(x)[f])'
    BY <1>7, <2>1, ViewsShowAfter DEF AllShown
  <2>4. View(Latest(x))'["causes"] = <<>> /\ View(Latest(x))'["triggers"] = <<>>
    BY <2>2, <2>3 DEF Fields
  <2>5. \A f \in Fields : View(Latest(x))'[f] = u[f]
    BY <1>6, <2>4 DEF Fields
  <2>6. SameForm(View(Latest(x))', u)
    BY <1>5, <1>6, <2>3 DEF SameForm
  <2> QED BY <1>6, <2>3, <2>5, <2>6, SameReview
<1>15. settled'.reviews = [x \in DOMAIN settled.reviews \cup {new} |->
                             IF x = new THEN u ELSE settled.reviews[x]]
  BY <1>10, <1>11, <1>12, <1>13, <1>14
<1>16. u = Service!UpdateTimestamps(s, clock) /\ s = Service!NewReview(settled.lastID + 1, body)
  BY <1>11 DEF UpdateTimestamps, Service!UpdateTimestamps, ZeroTime, Service!ZeroTime, NewReview,
     Service!NewReview
<1>17. Service!Validates(s)
  BY <1>2, <1>3, <1>4 DEF Service!Validates, Validates, Nil, Service!Nil
<1> HIDE DEF u
<1>18. Service!Save(s)
  BY <1>2, <1>15, <1>16, <1>17 DEF Service!Save, Service!Put
<1>19. Service!Cardinality(DOMAIN settled.reviews) < MaxReviews
  <2>1. DOMAIN settled.reviews = DOMAIN reviews
    BY <1>11
  <2> QED BY <1>3, <2>1 DEF Service!Cardinality, Cardinality
<1> HIDE DEF s
<1>20. Service!Create(body)
  BY <1>3, <1>4, <1>10, <1>11, <1>16, <1>18, <1>19 DEF Service!Create, Service!FreshLeft, Service!NewID
<1> QED BY <1>9, <1>20 DEF Service!Next

(* Time that passes, and nothing at all.                                                          *)
LEMMA StaysPut ==
  ASSUME SerialInv, HeapCore', UNCHANGED <<reviews, arrays, pc, own, lastID, outcome, settled>>
  PROVE  SerialInv'
<1>1. Busy' = Busy /\ OneAtATime'
  BY DEF SerialInv, OneAtATime, Busy
<1>2. Told' = Told /\ (Settled' <=> Settled)
  BY <1>1 DEF Told, AnswerTo, Shown, Settled
<1>3. /\ settled.reviews \in [DOMAIN reviews -> ReviewType] /\ settled.lastID \in Nat
      /\ \A id \in DOMAIN reviews : SameForm(settled.reviews[id], Latest(id))
      /\ \A id \in DOMAIN reviews, f \in Fields :
           settled.reviews[id][f] = Shown(Latest(id)[f]) \/ InWork(id, f)
      /\ Settled => settled.lastID = lastID /\ settled.outcome = Told
  BY DEF SerialInv, Remembers
<1>4. \A id, f : InWork(id, f) => InWork(id, f)'
  BY <1>1 DEF InWork
<1>5. \A id, f : Latest(id)' = Latest(id) /\ Shown(Latest(id)[f])' = Shown(Latest(id)[f])
  BY DEF Latest, Writers, Shown
<1>6. Remembers'
  BY <1>2, <1>3, <1>4, <1>5 DEF Remembers
<1>7. ASSUME NEW p \in Busy, pc[p] \in Ahead
      PROVE  Working(pc[p], own[p])'
  <2>1. Working(pc[p], own[p])
    BY <1>7 DEF SerialInv
  <2> QED BY <2>1 DEF Working, Found
<1>8. \A p \in Busy' : pc'[p] \in Ahead => Working(pc[p], own[p])'
  BY <1>1, <1>7
<1> QED BY <1>1, <1>6, <1>8 DEF SerialInv

LEMMA TickServed ==
  ASSUME SerialInv, HeapCore', Noted, Tick
  PROVE  SerialInv' /\ Service!Next
<1>1. UNCHANGED <<reviews, arrays, pc, own, lastID, outcome>> /\ clock < MaxClock /\ clock' = clock + 1
  BY DEF Tick
<1>2. Busy' = Busy /\ (Settled' <=> Settled) /\ OneAtATime' /\ Told' = Told
  BY <1>1 DEF Busy, Settled, SerialInv, OneAtATime, Told, AnswerTo, Shown
<1>3. SerialInv' /\ settled'.reviews = settled.reviews /\ settled'.lastID = settled.lastID
      /\ settled'.outcome = settled.outcome
  <2>1. CASE Settled
    <3>1. settled' = Now' /\ SerialInv'
      BY <1>2, <2>1, SettlesDown DEF Noted
    <3>2. settled.lastID = lastID /\ settled.outcome = Told
      BY <2>1 DEF SerialInv, Remembers
    <3>3. settled.reviews = [id \in DOMAIN reviews |-> View(Latest(id))]
      BY <2>1, SettledShows
    <3>4. settled'.reviews = [id \in DOMAIN reviews' |-> View(Latest(id))']
      BY <3>1 DEF Now
    <3>5. settled'.reviews = settled.reviews
      <4>1. \A id : View(Latest(id))' = View(Latest(id))
        BY <1>1 DEF View, Shown, Latest, Writers
      <4> QED BY <1>1, <3>3, <3>4, <4>1
    <3> QED BY <1>1, <1>2, <3>1, <3>2, <3>5 DEF Now
  <2>2. CASE ~ Settled
    <3>1. settled' = settled
      BY <1>2, <2>2 DEF Noted
    <3> QED BY <1>1, <3>1, StaysPut
  <2> QED BY <2>1, <2>2
<1>4. Service!Tick
  BY <1>1, <1>3 DEF Service!Tick
<1> QED BY <1>3, <1>4 DEF Service!Next

(* Every step is ReviewService's, or none of it.                                                  *)
LEMMA SerialStep ==
  ASSUME SerialInv, HeapCore', Noted, ~ Overlap, Next
  PROVE  SerialInv' /\ (Service!Next \/ UNCHANGED Service!vars)
<1> DEFINE Same == settled'.reviews = settled.reviews /\ settled'.lastID = settled.lastID
                   /\ settled'.outcome = settled.outcome /\ clock' = clock
<1>1. Same => UNCHANGED Service!vars
  BY DEF Service!vars
<1>2. settled' = settled /\ clock' = clock => Same
  OBVIOUS
<1> HIDE DEF Same
<1>3. ASSUME NEW body \in Bodies, Create(body)
      PROVE  SerialInv' /\ Service!Next
  BY <1>3, CreateServed
<1>4. CASE Tick
  BY <1>4, TickServed
<1>5. ASSUME NEW p \in Goroutines, Request(p)
      PROVE  SerialInv' /\ Same
  <2>1. clock' = clock
    BY <1>5 DEF Request, Form, BindContributingCause, UpdateBoundContributingCause, BindTrigger,
       UpdateBoundTrigger, Receive
  <2> QED BY <1>2, <1>5, <2>1, RequestSerially
<1>6. ASSUME NEW p \in Goroutines, Work(p)
      PROVE  SerialInv' /\ (Service!Next \/ Same)
  <2>1. CASE Find(p)
    <3>1. clock' = clock
      BY <2>1 DEF Find, Refuse
    <3> QED BY <1>2, <2>1, <3>1, FindSerially
  <2>2. CASE Shift(p)
    <3>1. clock' = clock
      BY <2>2 DEF Shift
    <3> QED BY <1>2, <2>2, <3>1, ShiftSerially
  <2>3. CASE Load(p)
    <3>1. clock' = clock
      BY <2>3 DEF Load, Refuse
    <3>2. CASE own[p].i <= own[p].slice.len /\ SameReason(Elem(own[p].slice, own[p].i), own[p].entry)
      BY <2>3, <3>2, RefusalServed
    <3>3. CASE ~ (own[p].i <= own[p].slice.len
                  /\ SameReason(Elem(own[p].slice, own[p].i), own[p].entry))
      BY <1>2, <2>3, <3>1, <3>3, LoadSerially
    <3> QED BY <3>2, <3>3
  <2>4. CASE Store(p)
    <3>1. clock' = clock
      BY <2>4 DEF Store
    <3> QED BY <1>2, <2>4, <3>1, StoreSerially
  <2>5. CASE AppendEntry(p)
    <3>1. clock' = clock
      BY <2>5 DEF AppendEntry
    <3> QED BY <1>2, <2>5, <3>1, AppendSerially
  <2>6. CASE Save(p)
    BY <2>6, SaveServed, FormServed
  <2>7. CASE Write(p)
    BY <2>7, WriteServed DEF Same
  <2>8. CASE Answer(p)
    BY <2>8, AnswerServed DEF Same
  <2> QED BY <1>6, <2>1, <2>2, <2>3, <2>4, <2>5, <2>6, <2>7, <2>8 DEF Work
<1> QED BY <1>1, <1>3, <1>4, <1>5, <1>6 DEF Next

LEMMA SerialStarts ==
  ASSUME SInit
  PROVE  SerialInv /\ Service!Init
<1>1. HeapCore /\ reviews = <<>> /\ clock = 1 /\ lastID = 2 /\ outcome = "none" /\ Busy = {}
  BY StartsCore DEF SInit, Init, Busy
<1>2. settled.reviews = <<>> /\ settled.lastID = 2 /\ settled.outcome = "none"
  BY <1>1 DEF SInit, Now, Told
<1>3. settled.reviews \in [DOMAIN reviews -> ReviewType] /\ DOMAIN reviews = {}
  BY <1>1, <1>2
<1>4. OneAtATime /\ Told = outcome
  BY <1>1 DEF OneAtATime, Told
<1>5. Remembers
  BY <1>1, <1>2, <1>3, <1>4 DEF Remembers
<1>6. SerialInv
  BY <1>1, <1>4, <1>5 DEF SerialInv
<1>7. Service!Init
  BY <1>1, <1>2 DEF Service!Init, Service!SeedCause, SeedCause, Service!SeedTrigger, SeedTrigger
<1> QED BY <1>6, <1>7

(* ImplementsService: when requests come one at a time, what the goroutines do to the shared        *)
(* arrays entry by entry, with its deletions in place, its growing arrays and what a refused         *)
(* request leaves behind, is what ReviewService says each request does to the lists of a review;      *)
(* what is proved of the reviews in ReviewService then holds of the walk.  This for any number of     *)
(* reviews, entries and goroutines, any bounds, and any texts.                                        *)
THEOREM SerialImplements ==
  ASSUME ~ Overlap
  PROVE  SSpec => ImplementsService
<1>1. SInit => SerialInv /\ Service!Init
  BY SerialStarts
<1>2. SerialInv /\ [SNext]_<<vars, settled>> => SerialInv' /\ [Service!Next]_Service!vars
  <2> SUFFICES ASSUME SerialInv, [SNext]_<<vars, settled>>
               PROVE  SerialInv' /\ [Service!Next]_Service!vars
    OBVIOUS
  <2>1. HeapCore'
    BY StepKeeps DEF SerialInv, SNext, vars
  <2>2. CASE SNext
    <3>1. Next /\ Noted
      BY <2>2 DEF SNext, Noted
    <3> QED BY <2>1, <3>1, SerialStep
  <2>3. CASE UNCHANGED <<vars, settled>>
    BY <2>1, <2>3, StaysPut DEF vars, Service!vars
  <2> QED BY <2>2, <2>3
<1> QED BY <1>1, <1>2, PTL DEF SSpec, ImplementsService, Service!Spec
=====================================================================================
