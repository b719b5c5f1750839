------------------------------- MODULE ReviewProofs -------------------------------
(***********************************************************************************)
(* Lemmas about the operators of Review.                                           *)
(***********************************************************************************)
EXTENDS Review, FiniteSetTheorems, TLAPS

(* The loop of BindContributingCause keeps the list and what its entries say; all it  *)
(* does is take marks away.                                                         *)
LEMMA RewrittenKeeps ==
  ASSUME NEW cs \in Seq(BoundCause), NEW rc \in BoundCause
  PROVE  /\ Rewritten(cs, rc) \in Seq(BoundCause)
         /\ Len(Rewritten(cs, rc)) = Len(cs)
         /\ DOMAIN Rewritten(cs, rc) = DOMAIN cs
         /\ \A i \in DOMAIN cs :
              /\ Rewritten(cs, rc)[i].id = cs[i].id
              /\ Rewritten(cs, rc)[i].cause = cs[i].cause
              /\ Rewritten(cs, rc)[i].why = cs[i].why
              /\ Rewritten(cs, rc)[i].proximal => cs[i].proximal
<1> DEFINE new == Rewritten(cs, rc)
           n == Len(cs)
<1>1. n \in Nat /\ DOMAIN cs = 1..n /\ \A i \in 1..n : cs[i] \in BoundCause
  OBVIOUS
<1>2. new = [i \in 1..n |-> new[i]]
  BY <1>1 DEF Rewritten
<1>3. ASSUME NEW i \in 1..n
      PROVE  /\ new[i] \in BoundCause
             /\ new[i].id = cs[i].id /\ new[i].cause = cs[i].cause
             /\ new[i].why = cs[i].why /\ (new[i].proximal => cs[i].proximal)
  <2>1. new[i] = cs[i] \/ new[i] = [cs[i] EXCEPT !.proximal = FALSE]
    BY <1>1 DEF Rewritten, UnsetProximal
  <2> QED
    BY <1>1, <2>1 DEF BoundCause
<1>4. new \in Seq(BoundCause) /\ Len(new) = n
  <2> HIDE DEF new, n
  <2> QED
    BY <1>1, <1>2, <1>3
<1> QED
  BY <1>1, <1>2, <1>3, <1>4

(* When the reason is new the loop runs to the end, and a proximal cause takes the    *)
(* mark from everyone.                                                              *)
LEMMA AcceptedDemotesAll ==
  ASSUME NEW cs \in Seq(BoundCause), NEW rc \in BoundCause,
         ~ BindRefused(cs, rc), rc.proximal
  PROVE  \A i \in DOMAIN cs : ~ Rewritten(cs, rc)[i].proximal
<1>1. \A i \in DOMAIN cs : i \in Reached(cs, rc)
  BY DEF BindRefused, Reached
<1>2. \A i \in 1..Len(cs) : cs[i] \in BoundCause
  OBVIOUS
<1> QED
  BY <1>1, <1>2 DEF Rewritten, UnsetProximal, BoundCause

(* DeleteFunc lists, each once, the entries whose id is another one.                   *)
LEMMA WithoutLists ==
  ASSUME NEW S, NEW s \in Seq(S), NEW id, NEW rest \in Without(s, id)
  PROVE  /\ rest \in Seq(S)
         /\ \E f \in [DOMAIN rest -> DOMAIN s] :
              /\ \A i \in DOMAIN rest : rest[i] = s[f[i]] /\ s[f[i]].id # id
              /\ \A i, j \in DOMAIN rest : f[i] = f[j] => i = j
              /\ \A k \in DOMAIN s : s[k].id # id => \E i \in DOMAIN rest : f[i] = k
<1> DEFINE P == Kept(s, id)
           n == Cardinality(P)
<1>1. DOMAIN s = 1..Len(s) /\ Len(s) \in Nat /\ \A i \in DOMAIN s : s[i] \in S
  OBVIOUS
<1>2. P \subseteq 1..Len(s)
  BY <1>1 DEF Kept
<1>3. n \in Nat
  <2>1. IsFiniteSet(1..Len(s))
    BY <1>1, FS_Interval
  <2> QED
    BY <1>2, <2>1, FS_Subset, FS_CardinalityType
<1>4. PICK f \in Enumerations(P) : rest = [i \in 1..n |-> s[f[i]]]
  BY DEF Without
<1>5. /\ f \in [1..n -> P] /\ Increasing(f)
      /\ \A k \in P : \E i \in 1..n : f[i] = k
  BY DEF Enumerations, Surjection
<1>6. \A i, j \in 1..n : f[i] = f[j] => i = j
  <2> SUFFICES ASSUME NEW i \in 1..n, NEW j \in 1..n, i < j
               PROVE  f[i] # f[j]
    BY <1>3
  <2>1. f[i] < f[j]
    BY <1>5 DEF Increasing
  <2>2. f[i] \in Nat /\ f[j] \in Nat
    BY <1>1, <1>2, <1>5
  <2> QED
    BY <2>1, <2>2
<1>7. \A i \in 1..n : f[i] \in DOMAIN s /\ rest[i] = s[f[i]] /\ s[f[i]].id # id
  BY <1>4, <1>5 DEF Kept
<1>8. rest \in Seq(S) /\ DOMAIN rest = 1..n
  <2>1. rest = [i \in 1..n |-> rest[i]] /\ \A i \in 1..n : rest[i] \in S
    BY <1>1, <1>4, <1>7
  <2> HIDE DEF n
  <2> QED
    BY <1>3, <2>1
<1>9. f \in [DOMAIN rest -> DOMAIN s]
  BY <1>5, <1>7, <1>8
<1>10. \A k \in DOMAIN s : s[k].id # id => \E i \in DOMAIN rest : f[i] = k
  BY <1>5, <1>8 DEF Kept
<1>11. /\ \A i \in DOMAIN rest : rest[i] = s[f[i]] /\ s[f[i]].id # id
       /\ \A i, j \in DOMAIN rest : f[i] = f[j] => i = j
  BY <1>6, <1>7, <1>8
<1> QED
  <2> HIDE DEF n, P
  <2> QED
    BY <1>8, <1>9, <1>10, <1>11

-------------------------------------------------------------------------------------
LEMMA CauseEntries ==
  ASSUME NEW cs \in Seq(BoundCause)
  PROVE  /\ DOMAIN cs = 1..Len(cs) /\ Len(cs) \in Nat
         /\ \A i \in DOMAIN cs :
              /\ cs[i] \in BoundCause
              /\ cs[i].id \in Nat /\ cs[i].cause \in Nat
              /\ cs[i].why \in Whys /\ cs[i].proximal \in BOOLEAN
<1>1. \A i \in 1..Len(cs) : cs[i] \in BoundCause
  OBVIOUS
<1>2. \A c \in BoundCause :
        c.id \in Nat /\ c.cause \in Nat /\ c.why \in Whys /\ c.proximal \in BOOLEAN
  BY DEF BoundCause, IDs
<1>3. DOMAIN cs = 1..Len(cs) /\ Len(cs) \in Nat
  OBVIOUS
<1> QED
  BY <1>1, <1>2, <1>3

LEMMA TriggerEntries ==
  ASSUME NEW ts \in Seq(BoundTrigger)
  PROVE  /\ DOMAIN ts = 1..Len(ts) /\ Len(ts) \in Nat
         /\ \A i \in DOMAIN ts :
              /\ ts[i] \in BoundTrigger
              /\ ts[i].id \in Nat /\ ts[i].trigger \in Nat /\ ts[i].why \in Whys
<1>1. \A i \in 1..Len(ts) : ts[i] \in BoundTrigger
  OBVIOUS
<1>2. \A t \in BoundTrigger : t.id \in Nat /\ t.trigger \in Nat /\ t.why \in Whys
  BY DEF BoundTrigger, IDs
<1>3. DOMAIN ts = 1..Len(ts) /\ Len(ts) \in Nat
  OBVIOUS
<1> QED
  BY <1>1, <1>2, <1>3

(* It survives the catalogue growing and ids being used.                             *)
LEMMA CausesInvGrows ==
  ASSUME NEW cs, NEW known, NEW more, NEW last \in Nat, NEW later \in Nat,
         CausesInv(cs, known, last), known \subseteq more, last <= later
  PROVE  CausesInv(cs, more, later)
<1>1. \A i \in DOMAIN cs : cs[i].id \in Nat
  BY CauseEntries DEF CausesInv
<1> QED
  BY <1>1 DEF CausesInv, KnownCauses

LEMMA TriggersInvGrows ==
  ASSUME NEW ts, NEW known, NEW more, NEW last \in Nat, NEW later \in Nat,
         TriggersInv(ts, known, last), known \subseteq more, last <= later
  PROVE  TriggersInv(ts, more, later)
<1>1. \A i \in DOMAIN ts : ts[i].id \in Nat
  BY TriggerEntries DEF TriggersInv
<1> QED
  BY <1>1 DEF TriggersInv, KnownTriggers

(* The loop of a bind preserves it, wherever it stops ...                             *)
LEMMA RewrittenInv ==
  ASSUME NEW cs, NEW known, NEW last, CausesInv(cs, known, last), NEW rc \in BoundCause
  PROVE  CausesInv(Rewritten(cs, rc), known, last)
<1> DEFINE new == Rewritten(cs, rc)
<1>1. cs \in Seq(BoundCause) /\ DOMAIN cs = 1..Len(cs) /\ \A i \in DOMAIN cs : cs[i] \in BoundCause
  BY DEF CausesInv
<1>2. /\ new \in Seq(BoundCause) /\ DOMAIN new = DOMAIN cs
      /\ \A i \in DOMAIN cs : new[i].id = cs[i].id /\ new[i].cause = cs[i].cause
                               /\ new[i].why = cs[i].why /\ (new[i].proximal => cs[i].proximal)
  BY <1>1, RewrittenKeeps
<1>3. \A i \in DOMAIN cs : cs[i] = BlankCause => new[i] = BlankCause
  <2> SUFFICES ASSUME NEW i \in DOMAIN cs, cs[i] = BlankCause
               PROVE  new[i] = BlankCause
    OBVIOUS
  <2>1. new[i] \in BoundCause
    BY <1>2, CauseEntries
  <2>2. new[i].id = Nil /\ new[i].cause = Nil /\ new[i].why = NoWhy /\ new[i].proximal = FALSE
    BY <1>2, <2>1 DEF BlankCause, BoundCause
  <2> QED
    BY <2>1, <2>2 DEF BlankCause, BoundCause
<1>4. OneProximal(new)
  BY <1>2 DEF CausesInv, OneProximal
<1>5. DistinctReasons(new)
  BY <1>2 DEF CausesInv, DistinctReasons, SameReason
<1>6. DistinctIDs(new)
  BY <1>2 DEF CausesInv, DistinctIDs
<1>7. KnownCauses(new, known)
  BY <1>2, <1>3 DEF CausesInv, KnownCauses
<1>8. \A i \in DOMAIN new : new[i].id <= last
  BY <1>2 DEF CausesInv
<1> QED
  BY <1>2, <1>4, <1>5, <1>6, <1>7, <1>8 DEF CausesInv

(* ... and so does the deletion of an entry, ...                                       *)
LEMMA WithoutInv ==
  ASSUME NEW cs, NEW known, NEW last, CausesInv(cs, known, last),
         NEW id, NEW rest \in Without(cs, id)
  PROVE  CausesInv(rest, known, last) /\ \A i \in DOMAIN rest : rest[i].id # id
<1>1. cs \in Seq(BoundCause)
  BY DEF CausesInv
<1>2. rest \in Seq(BoundCause)
  BY <1>1, WithoutLists
<1>3. PICK f \in [DOMAIN rest -> DOMAIN cs] :
        /\ \A i \in DOMAIN rest : rest[i] = cs[f[i]] /\ cs[f[i]].id # id
        /\ \A i, j \in DOMAIN rest : f[i] = f[j] => i = j
  BY <1>1, WithoutLists
<1>4. \A i \in DOMAIN rest : f[i] \in DOMAIN cs
  BY <1>3
<1>5. OneProximal(rest)
  BY <1>3, <1>4 DEF CausesInv, OneProximal
<1>6. DistinctReasons(rest)
  BY <1>3, <1>4 DEF CausesInv, DistinctReasons
<1>7. DistinctIDs(rest)
  BY <1>3, <1>4 DEF CausesInv, DistinctIDs
<1>8. KnownCauses(rest, known)
  BY <1>3, <1>4 DEF CausesInv, KnownCauses
<1>9. \A i \in DOMAIN rest : rest[i].id <= last /\ rest[i].id # id
  BY <1>3, <1>4 DEF CausesInv
<1> QED
  BY <1>2, <1>5, <1>6, <1>7, <1>8, <1>9 DEF CausesInv

(* ... and the zeroed positions a failed update leaves at the end.                     *)
LEMMA PaddedInv ==
  ASSUME NEW cs, NEW known, NEW last \in Nat, CausesInv(cs, known, last), Nil \notin known,
         NEW n \in Nat
  PROVE  CausesInv(Padded(cs, n), known, last)
<1> DEFINE new == Padded(cs, n)
<1>1. DOMAIN new = 1..n /\ \A i \in 1..n : new[i] = BlankCause \/ (i \in DOMAIN cs /\ new[i] = cs[i])
  BY DEF Padded
<1>2. BlankCause \in BoundCause
  BY WhysAssumption DEF BlankCause, BoundCause, IDs, Nil
<1>3. \A i \in DOMAIN cs : cs[i] \in BoundCause
  BY DEF CausesInv
<1>4. new \in Seq(BoundCause)
  <2>1. new = [i \in 1..n |-> new[i]] /\ \A i \in 1..n : new[i] \in BoundCause
    BY <1>1, <1>2, <1>3 DEF Padded
  <2> HIDE DEF new
  <2> QED
    BY <2>1
<1>5. OneProximal(new)
  BY <1>1 DEF CausesInv, OneProximal, BlankCause
<1>6. DistinctReasons(new)
  <2> SUFFICES ASSUME NEW i \in 1..n, NEW j \in 1..n, i # j, SameReason(new[i], new[j])
               PROVE  new[i].id = Nil /\ new[j].id = Nil
    BY <1>1 DEF DistinctReasons
  <2>1. CASE new[i] = BlankCause
    <3>1. new[j].cause = Nil
      BY <2>1 DEF SameReason, BlankCause
    <3> QED
      BY <1>1, <2>1, <3>1 DEF CausesInv, KnownCauses, BlankCause
  <2>2. CASE new[j] = BlankCause
    <3>1. new[i].cause = Nil
      BY <2>2 DEF SameReason, BlankCause
    <3> QED
      BY <1>1, <2>2, <3>1 DEF CausesInv, KnownCauses, BlankCause
  <2>3. CASE new[i] # BlankCause /\ new[j] # BlankCause
    BY <1>1, <2>3 DEF CausesInv, DistinctReasons
  <2> QED
    BY <2>1, <2>2, <2>3
<1>7. DistinctIDs(new)
  BY <1>1 DEF CausesInv, DistinctIDs, BlankCause
<1>8. KnownCauses(new, known)
  BY <1>1 DEF CausesInv, KnownCauses, BlankCause
<1>9. \A i \in DOMAIN new : new[i].id <= last
  BY <1>1 DEF CausesInv, BlankCause, Nil
<1> QED
  BY <1>4, <1>5, <1>6, <1>7, <1>8, <1>9 DEF CausesInv

(* An accepted bind preserves it: the marks are gone before the new entry comes in, and  *)
(* no reason is there twice.                                                            *)
LEMMA BindInv ==
  ASSUME NEW cs, NEW known, NEW last \in Nat, NEW later \in Nat, CausesInv(cs, known, last),
         NEW rc \in BoundCause, rc.cause \in known, ~ BindRefused(cs, rc),
         NEW fresh \in Nat \ {Nil}, last <= later,
         NEW e, e = EnsureID(rc, fresh), e.id <= later,
         \A i \in DOMAIN cs : cs[i].id # e.id
  PROVE  CausesInv(Bind(cs, rc, fresh), known, later)
<1> DEFINE old == Rewritten(cs, rc)
           n == Len(old)
           new == Bind(cs, rc, fresh)
<1>1. e \in BoundCause /\ e.id # Nil /\ e.cause = rc.cause /\ e.why = rc.why
      /\ e.proximal = rc.proximal
  BY DEF EnsureID, BoundCause, IDs, Nil
<1>2. CausesInv(old, known, last)
  BY RewrittenInv
<1>3. cs \in Seq(BoundCause) /\ old \in Seq(BoundCause)
  BY <1>2 DEF CausesInv
<1>4. /\ DOMAIN old = DOMAIN cs
      /\ \A i \in DOMAIN cs : old[i].id = cs[i].id /\ old[i].cause = cs[i].cause
                               /\ old[i].why = cs[i].why
  BY <1>3, RewrittenKeeps
<1>5. new = Append(old, e)
  BY DEF Bind
<1>6. /\ new \in Seq(BoundCause) /\ n \in Nat /\ DOMAIN old = 1..n /\ DOMAIN new = 1..(n + 1)
      /\ new[n + 1] = e
      /\ \A i \in 1..n : new[i] = old[i]
  <2> HIDE DEF old
  <2> QED
    BY <1>1, <1>3, <1>5
<1>7. \A i \in 1..(n + 1) : i \in 1..n \/ i = n + 1
  BY <1>6
<1>8. OneProximal(new)
  <2>1. CASE rc.proximal
    <3>1. \A i \in DOMAIN cs : ~ old[i].proximal
      BY <1>3, <2>1, AcceptedDemotesAll
    <3> QED
      BY <1>4, <1>6, <1>7, <3>1 DEF OneProximal
  <2>2. CASE ~ rc.proximal
    BY <1>1, <1>2, <1>6, <1>7, <2>2 DEF CausesInv, OneProximal
  <2> QED
    BY <2>1, <2>2
<1>9. DistinctReasons(new)
  <2>1. \A i \in 1..n : ~ SameReason(old[i], e) /\ ~ SameReason(e, old[i])
    BY <1>1, <1>4, <1>6 DEF BindRefused, Clashes, SameReason
  <2> QED
    BY <1>2, <1>6, <1>7, <2>1 DEF CausesInv, DistinctReasons
<1>10. DistinctIDs(new)
  <2>1. \A i \in 1..n : old[i].id # e.id
    BY <1>4, <1>6
  <2> QED
    BY <1>2, <1>6, <1>7, <2>1 DEF CausesInv, DistinctIDs
<1>11. KnownCauses(new, known)
  BY <1>1, <1>2, <1>6, <1>7 DEF CausesInv, KnownCauses
<1>12. \A i \in DOMAIN new : new[i].id <= later
  <2>1. \A i \in 1..n : old[i].id \in Nat /\ old[i].id <= last
    BY <1>2, <1>3, <1>6, CauseEntries DEF CausesInv
  <2> QED
    BY <1>6, <1>7, <2>1
<1> QED
  BY <1>6, <1>8, <1>9, <1>10, <1>11, <1>12 DEF CausesInv

(* The deletion of a bound trigger, and the binding of one under an id no other has.       *)
LEMMA WithoutTriggerInv ==
  ASSUME NEW ts, NEW known, NEW last, TriggersInv(ts, known, last),
         NEW id, NEW rest \in Without(ts, id)
  PROVE  TriggersInv(rest, known, last) /\ \A i \in DOMAIN rest : rest[i].id # id
<1>1. ts \in Seq(BoundTrigger)
  BY DEF TriggersInv
<1>2. rest \in Seq(BoundTrigger)
  BY <1>1, WithoutLists
<1>3. PICK f \in [DOMAIN rest -> DOMAIN ts] :
        /\ \A i \in DOMAIN rest : rest[i] = ts[f[i]] /\ ts[f[i]].id # id
        /\ \A i, j \in DOMAIN rest : f[i] = f[j] => i = j
  BY <1>1, WithoutLists
<1>4. \A i \in DOMAIN rest : f[i] \in DOMAIN ts
  BY <1>3
<1>5. DistinctIDs(rest)
  BY <1>3, <1>4 DEF TriggersInv, DistinctIDs
<1>6. KnownTriggers(rest, known)
  BY <1>3, <1>4 DEF TriggersInv, KnownTriggers
<1>7. \A i \in DOMAIN rest : rest[i].id <= last /\ rest[i].id # id
  BY <1>3, <1>4 DEF TriggersInv
<1> QED
  BY <1>2, <1>5, <1>6, <1>7 DEF TriggersInv

LEMMA AppendTriggerInv ==
  ASSUME NEW ts, NEW known, NEW last \in Nat, NEW later \in Nat, TriggersInv(ts, known, last),
         last <= later,
         NEW t \in BoundTrigger, t.id # Nil, t.trigger \in known, t.id <= later,
         \A i \in DOMAIN ts : ts[i].id # t.id
  PROVE  TriggersInv(Append(ts, t), known, later)
<1> DEFINE n == Len(ts)
           new == Append(ts, t)
<1>1. /\ ts \in Seq(BoundTrigger) /\ n \in Nat /\ DOMAIN ts = 1..n
      /\ \A i \in 1..n : ts[i].id \in Nat /\ ts[i].id <= last
  BY TriggerEntries DEF TriggersInv
<1>2. /\ new \in Seq(BoundTrigger) /\ DOMAIN new = 1..(n + 1) /\ new[n + 1] = t
      /\ \A i \in 1..n : new[i] = ts[i]
  BY <1>1
<1>3. \A i \in 1..(n + 1) : i \in 1..n \/ i = n + 1
  BY <1>1
<1>4. DistinctIDs(new)
  BY <1>1, <1>2, <1>3 DEF TriggersInv, DistinctIDs
<1>5. KnownTriggers(new, known)
  BY <1>1, <1>2, <1>3 DEF TriggersInv, KnownTriggers
<1>6. \A i \in DOMAIN new : new[i].id <= later
  BY <1>1, <1>2, <1>3
<1> QED
  BY <1>2, <1>4, <1>5, <1>6 DEF TriggersInv
====================================================================================
