------------------------------ MODULE ReviewPageProofs ------------------------------
(***********************************************************************************)
(* The page keeps its inductive invariant, and with it agrees with the store, for any *)
(* bodies, reasons and bounds and whatever anybody else asks of the service.  The     *)
(* first part is about lists of items, the second about what a request does to what is  *)
(* stored, the third has the steps of the page.                                     *)
(***********************************************************************************)
EXTENDS ReviewPage, ReviewServiceProofs

(* What a list says of the entries E of which m is the marked one.                      *)
Agrees(items, E, m) ==
  /\ \A i \in DOMAIN items : items[i].shows \in {"entry", "form"} /\ items[i].id # Nil =>
       /\ [id |-> items[i].id, cause |-> items[i].of, why |-> items[i].why] \in E
       /\ m = items[i].id => items[i].marked
  /\ \A e \in E : e.why # NoWhy => \E i \in DOMAIN items : e.id \in Offered(items[i])

(* The triggers as entries.                                                            *)
HookOf(t) == [id |-> t.id, cause |-> t.trigger, why |-> t.why]

HooksOf(ts) == {HookOf(t) : t \in Range(ts)}

CauseList(cs) == [i \in DOMAIN cs |-> toBoundCauseBasic(cs[i])]
TriggerList(ts) == [i \in DOMAIN ts |-> toBoundTriggerBasic(ts[i])]

-------------------------------------------------------------------------------------
LEMMA CauseListTyped ==
  ASSUME NEW cs \in Seq(BoundCause)
  PROVE  /\ CauseList(cs) \in Seq(Item) /\ DOMAIN CauseList(cs) = DOMAIN cs
         /\ \A i \in DOMAIN cs : CauseList(cs)[i] = toBoundCauseBasic(cs[i])
<1> DEFINE n == Len(cs)
<1>1. n \in Nat /\ DOMAIN cs = 1..n /\ \A i \in 1..n : cs[i] \in BoundCause
  OBVIOUS
<1>2. \A c \in BoundCause : toBoundCauseBasic(c) \in Item
  BY DEF BoundCause, Item, toBoundCauseBasic
<1> HIDE DEF n
<1>3. CauseList(cs) \in [1..n -> Item]
  BY <1>1, <1>2 DEF CauseList
<1> QED
  BY <1>1, <1>3 DEF CauseList

LEMMA TriggerListTyped ==
  ASSUME NEW ts \in Seq(BoundTrigger)
  PROVE  /\ TriggerList(ts) \in Seq(Item) /\ DOMAIN TriggerList(ts) = DOMAIN ts
         /\ \A i \in DOMAIN ts : TriggerList(ts)[i] = toBoundTriggerBasic(ts[i])
<1> DEFINE n == Len(ts)
<1>1. n \in Nat /\ DOMAIN ts = 1..n /\ \A i \in 1..n : ts[i] \in BoundTrigger
  OBVIOUS
<1>2. \A t \in BoundTrigger : toBoundTriggerBasic(t) \in Item
  BY DEF BoundTrigger, Item, toBoundTriggerBasic
<1> HIDE DEF n
<1>3. TriggerList(ts) \in [1..n -> Item]
  BY <1>1, <1>2 DEF TriggerList
<1> QED
  BY <1>1, <1>3 DEF TriggerList

(* The mark of a list of causes is that of the entry that has it.                        *)
LEMMA MarkedCause ==
  ASSUME NEW cs, NEW known, NEW last, CausesInv(cs, known, last), NEW x, x # Nil
  PROVE  ProximalOf(cs) = x <=> \E i \in DOMAIN cs : cs[i].proximal /\ cs[i].id = x
<1>1. CASE \E i \in DOMAIN cs : cs[i].proximal
  BY <1>1, ProximalNamed DEF CausesInv, OneProximal
<1>2. CASE \A i \in DOMAIN cs : ~ cs[i].proximal
  BY <1>2, ProximalNamed
<1> QED
  BY <1>1, <1>2

(* E are the entries of the items there.                                                *)
EntriesOfItems(E, there) ==
  /\ \A x, y, z : [id |-> x, cause |-> y, why |-> z] \in E <=>
       \E e \in there : Text(e) = <<x, y, z>>
  /\ \A x, z : (\E e \in E : e.id = x /\ e.why = z) <=> \E e \in there : e.id = x /\ e.why = z

(* Agreement in the terms of the page.                                                   *)
LEMMA ListAgrees ==
  ASSUME NEW items, NEW stored, NEW E, NEW m,
         NEW there, there = {d \in Range(stored) : d.id # Nil},
         EntriesOfItems(E, there)
  PROVE  Agrees(items, E, m) <=>
           ListIsCurrent(items, stored) /\ \A it \in Shown(items) : m = it.id => it.marked
<1> DEFINE texts == {Text(e) : e \in there}
           told == {Text(it) : it \in Shown(items)}
           Near(x) == \E it \in Range(items) : x \in Offered(it)
           offers == \A e \in there : e.why # NoWhy => Near(e.id)
<1>1. \A x : x \in texts <=> \E e \in there : Text(e) = x
  OBVIOUS
<1>2. \A x : x \in told <=> \E it \in Shown(items) : Text(it) = x
  OBVIOUS
<1>3. \A x : Near(x) <=> \E i \in DOMAIN items : x \in Offered(items[i])
  BY DEF Range
<1>4. \A it : it \in Shown(items) <=>
        \E i \in DOMAIN items :
          it = items[i] /\ items[i].shows \in {"entry", "form"} /\ items[i].id # Nil
  BY DEF Shown, Range
<1>5. ListIsCurrent(items, stored) <=> told \subseteq texts /\ offers
  BY DEF ListIsCurrent
<1>6. offers <=> \A e \in E : e.why # NoWhy => \E i \in DOMAIN items : e.id \in Offered(items[i])
  <2> DEFINE Need(x, z) == z # NoWhy => Near(x)
  <2>0. \A x, z : (\E e \in E : e.id = x /\ e.why = z) <=> \E e \in there : e.id = x /\ e.why = z
    BY DEF EntriesOfItems
  <2> HIDE DEF Near
  <2>1. offers <=> \A e \in E : e.why # NoWhy => Near(e.id)
    <3>1. offers <=> \A e \in there : Need(e.id, e.why)
      OBVIOUS
    <3> HIDE DEF Need
    <3>2. (\A e \in there : Need(e.id, e.why)) <=> \A e \in E : Need(e.id, e.why)
      BY <2>0
    <3> QED
      BY <3>1, <3>2 DEF Need
  <2> QED
    BY <1>3, <2>1
<1> HIDE DEF texts, told, Near, offers
<1>7. \A x, y, z : [id |-> x, cause |-> y, why |-> z] \in E <=> <<x, y, z>> \in texts
  <2>1. \A x, y, z : [id |-> x, cause |-> y, why |-> z] \in E <=>
          \E e \in there : Text(e) = <<x, y, z>>
    BY DEF EntriesOfItems
  <2> QED
    BY <1>1, <2>1
<1>8. told \subseteq texts <=>
        \A i \in DOMAIN items : items[i].shows \in {"entry", "form"} /\ items[i].id # Nil =>
          [id |-> items[i].id, cause |-> items[i].of, why |-> items[i].why] \in E
  <2>1. told \subseteq texts <=> \A it \in Shown(items) : Text(it) \in texts
    BY <1>2
  <2> DEFINE In(it) == [id |-> it.id, cause |-> it.of, why |-> it.why] \in E
  <2>2. \A it : Text(it) \in texts <=> In(it)
    BY <1>7 DEF Text
  <2> HIDE DEF In
  <2>3. told \subseteq texts <=> \A it \in Shown(items) : In(it)
    BY <2>1, <2>2
  <2>4. (\A it \in Shown(items) : In(it)) <=>
          \A i \in DOMAIN items :
            items[i].shows \in {"entry", "form"} /\ items[i].id # Nil => In(items[i])
    BY <1>4
  <2> QED
    BY <2>3, <2>4 DEF In
<1>9. (\A it \in Shown(items) : m = it.id => it.marked) <=>
        \A i \in DOMAIN items : items[i].shows \in {"entry", "form"} /\ items[i].id # Nil =>
          (m = items[i].id => items[i].marked)
  BY <1>4
<1> QED
  BY <1>5, <1>6, <1>8, <1>9 DEF Agrees

(* Agreement is what the invariants of the page say of its two lists.                    *)
LEMMA CausesAgree ==
  ASSUME NEW cs, NEW known, NEW last, CausesInv(cs, known, last), NEW items
  PROVE  Agrees(items, EntriesOf(cs), ProximalOf(cs)) <=>
           /\ ListIsCurrent(items, CauseList(cs))
           /\ \A c \in Range(cs), it \in Shown(items) : c.proximal /\ c.id = it.id => it.marked
<1> DEFINE E == EntriesOf(cs)
           there == {e \in Range(CauseList(cs)) : e.id # Nil}
<1>1. /\ DOMAIN CauseList(cs) = DOMAIN cs
      /\ \A i \in DOMAIN cs : CauseList(cs)[i] = toBoundCauseBasic(cs[i])
  BY DEF CauseList
<1>2. \A x, y, z : (\E e \in there : Text(e) = <<x, y, z>>) <=>
        \E i \in DOMAIN cs : cs[i].id # Nil /\ x = cs[i].id /\ y = cs[i].cause /\ z = cs[i].why
  BY <1>1 DEF Range, Text, toBoundCauseBasic
<1>3. \A x, y, z : [id |-> x, cause |-> y, why |-> z] \in E <=>
        \E i \in DOMAIN cs : cs[i].id # Nil /\ x = cs[i].id /\ y = cs[i].cause /\ z = cs[i].why
  BY EntriesMember DEF EntryOf
<1>4. \A x, z : (\E e \in there : e.id = x /\ e.why = z) <=>
        \E i \in DOMAIN cs : cs[i].id # Nil /\ x = cs[i].id /\ z = cs[i].why
  BY <1>1 DEF Range, toBoundCauseBasic
<1>5. \A x, z : (\E e \in E : e.id = x /\ e.why = z) <=>
        \E i \in DOMAIN cs : cs[i].id # Nil /\ x = cs[i].id /\ z = cs[i].why
  <2>1. \A i \in DOMAIN cs : EntryOf(cs[i]).id = cs[i].id /\ EntryOf(cs[i]).why = cs[i].why
    BY DEF EntryOf
  <2>2. \A e : e \in E <=> \E i \in DOMAIN cs : cs[i].id # Nil /\ e = EntryOf(cs[i])
    BY EntriesMember
  <2> HIDE DEF E
  <2> QED
    BY <2>1, <2>2
<1>0. there = {e \in Range(CauseList(cs)) : e.id # Nil}
  OBVIOUS
<1> HIDE DEF E, there
<1>6. \A x, y, z : [id |-> x, cause |-> y, why |-> z] \in E <=> \E e \in there : Text(e) = <<x, y, z>>
  <2> DEFINE In(x, y, z) == [id |-> x, cause |-> y, why |-> z] \in E
             Told(x, y, z) == \E e \in there : Text(e) = <<x, y, z>>
             Has(x, y, z) == \E i \in DOMAIN cs :
               cs[i].id # Nil /\ x = cs[i].id /\ y = cs[i].cause /\ z = cs[i].why
  <2>1. \A x, y, z : Told(x, y, z) <=> Has(x, y, z)
    BY <1>2
  <2>2. \A x, y, z : In(x, y, z) <=> Has(x, y, z)
    BY <1>3
  <2> HIDE DEF In, Told, Has
  <2>3. \A x, y, z : In(x, y, z) <=> Told(x, y, z)
    BY <2>1, <2>2
  <2> QED
    BY <2>3 DEF In, Told
<1>7. \A x, z : (\E e \in E : e.id = x /\ e.why = z) <=> \E e \in there : e.id = x /\ e.why = z
  <2> DEFINE In(x, z) == \E e \in E : e.id = x /\ e.why = z
             Told(x, z) == \E e \in there : e.id = x /\ e.why = z
             Has(x, z) == \E i \in DOMAIN cs : cs[i].id # Nil /\ x = cs[i].id /\ z = cs[i].why
  <2>1. \A x, z : Told(x, z) <=> Has(x, z)
    BY <1>4
  <2>2. \A x, z : In(x, z) <=> Has(x, z)
    BY <1>5
  <2> HIDE DEF In, Told, Has
  <2>3. \A x, z : In(x, z) <=> Told(x, z)
    BY <2>1, <2>2
  <2> QED
    BY <2>3 DEF In, Told
<1>8. Agrees(items, E, ProximalOf(cs)) <=>
        /\ ListIsCurrent(items, CauseList(cs))
        /\ \A it \in Shown(items) : ProximalOf(cs) = it.id => it.marked
  <2> DEFINE mark == ProximalOf(cs)
             list == CauseList(cs)
  <2>1. there = {e \in Range(list) : e.id # Nil}
    BY <1>0
  <2> HIDE DEF mark, list
  <2>2. Agrees(items, E, mark) <=>
          ListIsCurrent(items, list) /\ \A it \in Shown(items) : mark = it.id => it.marked
    <3>1. EntriesOfItems(E, there)
      BY <1>6, <1>7 DEF EntriesOfItems
    <3> QED
      BY <2>1, <3>1, ListAgrees
  <2> QED
    BY <2>2 DEF mark, list
<1>9. \A it \in Shown(items) :
        (ProximalOf(cs) = it.id => it.marked)
          <=> \A c \in Range(cs) : c.proximal /\ c.id = it.id => it.marked
  <2> SUFFICES ASSUME NEW it \in Shown(items)
               PROVE  (ProximalOf(cs) = it.id => it.marked)
                        <=> \A c \in Range(cs) : c.proximal /\ c.id = it.id => it.marked
    OBVIOUS
  <2>1. it.id # Nil
    BY DEF Shown
  <2>2. ProximalOf(cs) = it.id <=> \E i \in DOMAIN cs : cs[i].proximal /\ cs[i].id = it.id
    BY <2>1, MarkedCause
  <2> QED
    BY <2>2 DEF Range
<1> QED
  BY <1>8, <1>9 DEF E

LEMMA TriggersAgree ==
  ASSUME NEW ts, NEW hooks, NEW last, TriggersInv(ts, hooks, last), NEW items
  PROVE  Agrees(items, HooksOf(ts), Nil) <=> ListIsCurrent(items, TriggerList(ts))
<1> DEFINE E == HooksOf(ts)
           there == {e \in Range(TriggerList(ts)) : e.id # Nil}
<1>1. /\ DOMAIN TriggerList(ts) = DOMAIN ts
      /\ \A i \in DOMAIN ts : TriggerList(ts)[i] = toBoundTriggerBasic(ts[i]) /\ ts[i].id # Nil
  BY DEF TriggerList, TriggersInv, KnownTriggers
<1>2. \A x, y, z : (\E e \in there : Text(e) = <<x, y, z>>) <=>
        \E i \in DOMAIN ts : x = ts[i].id /\ y = ts[i].trigger /\ z = ts[i].why
  BY <1>1 DEF Range, Text, toBoundTriggerBasic
<1>3. \A e : e \in E <=> \E i \in DOMAIN ts : e = HookOf(ts[i])
  BY DEF HooksOf, Range
<1>4. \A x, z : (\E e \in there : e.id = x /\ e.why = z) <=>
        \E i \in DOMAIN ts : x = ts[i].id /\ z = ts[i].why
  BY <1>1 DEF Range, toBoundTriggerBasic
<1>0. there = {e \in Range(TriggerList(ts)) : e.id # Nil}
  OBVIOUS
<1> HIDE DEF E, there
<1>5. \A x, y, z : [id |-> x, cause |-> y, why |-> z] \in E <=>
        \E i \in DOMAIN ts : x = ts[i].id /\ y = ts[i].trigger /\ z = ts[i].why
  BY <1>3 DEF HookOf
<1>6. \A x, z : (\E e \in E : e.id = x /\ e.why = z) <=>
        \E i \in DOMAIN ts : x = ts[i].id /\ z = ts[i].why
  <2>1. \A i \in DOMAIN ts : HookOf(ts[i]).id = ts[i].id /\ HookOf(ts[i]).why = ts[i].why
    BY DEF HookOf
  <2> QED
    BY <1>3, <2>1
<1>7. \A x, y, z : [id |-> x, cause |-> y, why |-> z] \in E <=> \E e \in there : Text(e) = <<x, y, z>>
  <2> DEFINE In(x, y, z) == [id |-> x, cause |-> y, why |-> z] \in E
             Told(x, y, z) == \E e \in there : Text(e) = <<x, y, z>>
             Has(x, y, z) == \E i \in DOMAIN ts :
               x = ts[i].id /\ y = ts[i].trigger /\ z = ts[i].why
  <2>1. \A x, y, z : Told(x, y, z) <=> Has(x, y, z)
    BY <1>2
  <2>2. \A x, y, z : In(x, y, z) <=> Has(x, y, z)
    BY <1>5
  <2> HIDE DEF In, Told, Has
  <2>3. \A x, y, z : In(x, y, z) <=> Told(x, y, z)
    BY <2>1, <2>2
  <2> QED
    BY <2>3 DEF In, Told
<1>8. \A x, z : (\E e \in E : e.id = x /\ e.why = z) <=> \E e \in there : e.id = x /\ e.why = z
  <2> DEFINE In(x, z) == \E e \in E : e.id = x /\ e.why = z
             Told(x, z) == \E e \in there : e.id = x /\ e.why = z
             Has(x, z) == \E i \in DOMAIN ts : x = ts[i].id /\ z = ts[i].why
  <2>1. \A x, z : Told(x, z) <=> Has(x, z)
    BY <1>4
  <2>2. \A x, z : In(x, z) <=> Has(x, z)
    BY <1>6
  <2> HIDE DEF In, Told, Has
  <2>3. \A x, z : In(x, z) <=> Told(x, z)
    BY <2>1, <2>2
  <2> QED
    BY <2>3 DEF In, Told
<1>9. Agrees(items, E, Nil) <=>
        /\ ListIsCurrent(items, TriggerList(ts))
        /\ \A it \in Shown(items) : Nil = it.id => it.marked
  <2> DEFINE list == TriggerList(ts)
  <2>1. there = {e \in Range(list) : e.id # Nil}
    BY <1>0
  <2> HIDE DEF list
  <2>2. Agrees(items, E, Nil) <=>
          ListIsCurrent(items, list) /\ \A it \in Shown(items) : Nil = it.id => it.marked
    <3>1. EntriesOfItems(E, there)
      BY <1>7, <1>8 DEF EntriesOfItems
    <3> QED
      BY <2>1, <3>1, ListAgrees
  <2> QED
    BY <2>2 DEF list
<1>10. \A it \in Shown(items) : it.id # Nil
  BY DEF Shown
<1> QED
  BY <1>9, <1>10 DEF E

(* A fresh list agrees, and its items are apart.                                         *)
LEMMA FreshCauses ==
  ASSUME NEW cs, NEW known, NEW last, CausesInv(cs, known, last)
  PROVE  /\ Agrees(CauseList(cs), EntriesOf(cs), ProximalOf(cs))
         /\ ItemsAreApart(CauseList(cs))
<1>1. /\ DOMAIN CauseList(cs) = DOMAIN cs
      /\ \A i \in DOMAIN cs : CauseList(cs)[i] = toBoundCauseBasic(cs[i])
  BY DEF CauseList
<1> DEFINE items == CauseList(cs)
<1>2. \A i \in DOMAIN cs : /\ items[i].shows = "entry" /\ items[i].id = cs[i].id
                           /\ items[i].of = cs[i].cause /\ items[i].why = cs[i].why
                           /\ items[i].marked = cs[i].proximal
  BY <1>1 DEF toBoundCauseBasic
<1>3. DOMAIN items = DOMAIN cs
  BY <1>1
<1> HIDE DEF items
<1>4. ASSUME NEW i \in DOMAIN items, items[i].id # Nil
      PROVE  /\ [id |-> items[i].id, cause |-> items[i].of, why |-> items[i].why] \in EntriesOf(cs)
             /\ ProximalOf(cs) = items[i].id => items[i].marked
  <2>1. EntryOf(cs[i]) \in EntriesOf(cs)
    BY <1>2, <1>3, <1>4, EntriesMember
  <2>2. ASSUME ProximalOf(cs) = items[i].id PROVE items[i].marked
    <3>1. PICK k \in DOMAIN cs : cs[k].proximal /\ cs[k].id = cs[i].id
      BY <1>2, <1>3, <1>4, <2>2, MarkedCause
    <3>2. k = i
      BY <1>2, <1>3, <1>4, <3>1 DEF CausesInv, DistinctIDs
    <3> QED
      BY <1>2, <1>3, <3>1, <3>2
  <2> QED
    BY <1>2, <1>3, <2>1, <2>2 DEF EntryOf
<1>5. \A e \in EntriesOf(cs) : \E i \in DOMAIN items : e.id \in Offered(items[i])
  <2>1. \A e \in EntriesOf(cs) : \E i \in DOMAIN items : items[i].id = e.id
    BY <1>2, <1>3, EntriesMember DEF EntryOf
  <2> QED
    BY <1>2, <1>3, <2>1 DEF Offered
<1>6. ItemsAreApart(items)
  <2>1. \A i, j \in DOMAIN cs : cs[i].id # Nil /\ cs[i].id = cs[j].id => i = j
    BY DEF CausesInv, DistinctIDs
  <2>2. \A i \in DOMAIN cs : cs[i].id = Nil => cs[i].why = NoWhy
    BY DEF CausesInv, KnownCauses, BlankCause
  <2> QED
    BY <1>2, <1>3, <2>1, <2>2 DEF ItemsAreApart
<1>7. Agrees(items, EntriesOf(cs), ProximalOf(cs))
  BY <1>4, <1>5 DEF Agrees
<1> QED
  BY <1>6, <1>7 DEF items

LEMMA FreshTriggers ==
  ASSUME NEW ts, NEW hooks, NEW last, TriggersInv(ts, hooks, last)
  PROVE  /\ Agrees(TriggerList(ts), HooksOf(ts), Nil)
         /\ ItemsAreApart(TriggerList(ts))
         /\ \A it \in Range(TriggerList(ts)) : \E t \in Range(ts) : it.id = t.id
<1> DEFINE items == TriggerList(ts)
<1>1. /\ DOMAIN items = DOMAIN ts
      /\ \A i \in DOMAIN ts : /\ items[i].shows = "entry" /\ items[i].id = ts[i].id
                              /\ items[i].of = ts[i].trigger /\ items[i].why = ts[i].why
  BY DEF TriggerList, toBoundTriggerBasic
<1>2. \A i \in DOMAIN ts : ts[i].id # Nil
  BY DEF TriggersInv, KnownTriggers
<1> HIDE DEF items
<1>3. \A i \in DOMAIN items :
        [id |-> items[i].id, cause |-> items[i].of, why |-> items[i].why] \in HooksOf(ts)
  BY <1>1 DEF HooksOf, HookOf, Range
<1>4. \A e \in HooksOf(ts) : \E i \in DOMAIN items : e.id \in Offered(items[i])
  BY <1>1 DEF HooksOf, HookOf, Range, Offered
<1>5. ItemsAreApart(items)
  BY <1>1, <1>2 DEF ItemsAreApart, TriggersInv, DistinctIDs
<1>6. \A it \in Range(items) : \E t \in Range(ts) : it.id = t.id
  BY <1>1 DEF Range
<1>7. Agrees(items, HooksOf(ts), Nil)
  BY <1>3, <1>4 DEF Agrees
<1> QED
  BY <1>5, <1>6, <1>7 DEF items

(* An answer that replaces one item keeps the agreement when it says what is now stored of   *)
(* its entry, and the other entries are what they were.                                  *)
LEMMA AgreesAfter ==
  ASSUME NEW items, NEW E, NEW m, Agrees(items, E, m), ItemsAreApart(items),
         NEW i \in DOMAIN items, NEW n, n.id = items[i].id, items[i].shows # "region",
         NEW F, NEW k,
         \A e \in E : e.id # n.id => e \in F,
         \A e \in F : e.why = NoWhy \/ e.id \in Offered(n) \/ (e.id # n.id /\ e \in E),
         \A e \in E : e.id = k /\ e.id # n.id => m = k,
         n.shows \in {"entry", "form"} /\ n.id # Nil =>
           [id |-> n.id, cause |-> n.of, why |-> n.why] \in F /\ (k = n.id => n.marked)
  PROVE  Agrees([items EXCEPT ![i] = n], F, k)
<1> DEFINE new == [items EXCEPT ![i] = n]
<1>1. DOMAIN new = DOMAIN items /\ new[i] = n /\ \A j \in DOMAIN items : j # i => new[j] = items[j]
  OBVIOUS
<1> HIDE DEF new
<1>2. ASSUME NEW j \in DOMAIN new, new[j].shows \in {"entry", "form"}, new[j].id # Nil
      PROVE  /\ [id |-> new[j].id, cause |-> new[j].of, why |-> new[j].why] \in F
             /\ k = new[j].id => new[j].marked
  <2>1. CASE j = i
    BY <1>1, <1>2, <2>1
  <2>2. CASE j # i
    <3> DEFINE e == [id |-> items[j].id, cause |-> items[j].of, why |-> items[j].why]
    <3>1. new[j] = items[j] /\ j \in DOMAIN items
      BY <1>1, <2>2
    <3>2. e \in E /\ (m = items[j].id => items[j].marked) /\ e.id = items[j].id
      BY <1>2, <3>1 DEF Agrees
    <3>3. items[j].id # n.id
      BY <1>2, <2>2, <3>1 DEF ItemsAreApart
    <3> HIDE DEF e
    <3>4. e \in F
      BY <3>2, <3>3
    <3>5. k = items[j].id => m = items[j].id
      BY <3>2, <3>3
    <3> QED
      BY <3>1, <3>2, <3>4, <3>5 DEF e
  <2> QED
    BY <2>1, <2>2
<1>3. ASSUME NEW e \in F, e.why # NoWhy PROVE \E j \in DOMAIN new : e.id \in Offered(new[j])
  <2>1. CASE e.id \in Offered(n)
    BY <1>1, <2>1
  <2>2. CASE e.id # n.id /\ e \in E
    <3>1. PICK j \in DOMAIN items : e.id \in Offered(items[j])
      BY <1>3, <2>2 DEF Agrees
    <3>2. \A id \in Offered(items[i]) : id = n.id
      BY DEF Offered
    <3> QED
      BY <1>1, <2>2, <3>1, <3>2
  <2> QED
    BY <1>3, <2>1, <2>2
<1> QED
  BY <1>2, <1>3 DEF Agrees, new

(* An answer that keeps the item's entry keeps the items apart.                           *)
LEMMA ApartAfter ==
  ASSUME NEW items \in Seq(Item), ItemsAreApart(items), NEW i \in DOMAIN items,
         NEW n \in Item, n.id = items[i].id, n.id = Nil => n.why = NoWhy
  PROVE  LET new == [items EXCEPT ![i] = n] IN
         /\ new \in Seq(Item) /\ ItemsAreApart(new)
         /\ {it.id : it \in Range(new)} = {it.id : it \in Range(items)}
<1> DEFINE new == [items EXCEPT ![i] = n]
<1>1. /\ new \in Seq(Item) /\ DOMAIN new = DOMAIN items /\ new[i] = n
      /\ \A j \in DOMAIN items : j # i => new[j] = items[j]
  OBVIOUS
<1> HIDE DEF new
<1>2. \A j \in DOMAIN items : new[j].id = items[j].id
  BY <1>1
<1>3. ItemsAreApart(new)
  BY <1>1, <1>2 DEF ItemsAreApart
<1>4. \A x : x \in {it.id : it \in Range(new)} <=> x \in {it.id : it \in Range(items)}
  BY <1>1, <1>2 DEF Range
<1> QED
  BY <1>1, <1>3, <1>4 DEF new

-------------------------------------------------------------------------------------
(* What a request that names a stored review leaves there.                               *)
LEMMA StoredLists ==
  ASSUME IInv, NEW id \in DOMAIN reviews
  PROVE  /\ \A cs : Save([reviews[id] EXCEPT !.causes = cs]) =>
              /\ DOMAIN reviews' = DOMAIN reviews
              /\ reviews'[id].causes = cs /\ reviews'[id].triggers = reviews[id].triggers
         /\ \A ts : Save([reviews[id] EXCEPT !.triggers = ts]) =>
              /\ DOMAIN reviews' = DOMAIN reviews
              /\ reviews'[id].causes = reviews[id].causes /\ reviews'[id].triggers = ts
         /\ \A cs : LeaveCauses(id, cs) =>
              /\ DOMAIN reviews' = DOMAIN reviews
              /\ reviews'[id].causes = cs /\ reviews'[id].triggers = reviews[id].triggers
<1>1. reviews[id] \in ReviewType /\ reviews[id].id = id
  BY StoredFacts
<1>2. ASSUME NEW r, r.id = id, Save(r)
      PROVE  /\ DOMAIN reviews' = DOMAIN reviews
             /\ reviews'[id] = UpdateTimestamps(r, clock)
  BY <1>2 DEF Save, Put
<1>3. ASSUME NEW cs, Save([reviews[id] EXCEPT !.causes = cs])
      PROVE  /\ DOMAIN reviews' = DOMAIN reviews
             /\ reviews'[id].causes = cs /\ reviews'[id].triggers = reviews[id].triggers
  <2> DEFINE r == [reviews[id] EXCEPT !.causes = cs]
  <2>1. /\ r.id = id /\ UpdateTimestamps(r, clock).causes = cs
        /\ UpdateTimestamps(r, clock).triggers = reviews[id].triggers
    BY <1>1 DEF UpdateTimestamps, ReviewType
  <2>2. Save(r)
    BY <1>3
  <2> HIDE DEF r
  <2> QED
    BY <1>2, <2>1, <2>2
<1>4. ASSUME NEW ts, Save([reviews[id] EXCEPT !.triggers = ts])
      PROVE  /\ DOMAIN reviews' = DOMAIN reviews
             /\ reviews'[id].causes = reviews[id].causes /\ reviews'[id].triggers = ts
  <2> DEFINE r == [reviews[id] EXCEPT !.triggers = ts]
  <2>1. /\ r.id = id /\ UpdateTimestamps(r, clock).triggers = ts
        /\ UpdateTimestamps(r, clock).causes = reviews[id].causes
    BY <1>1 DEF UpdateTimestamps, ReviewType
  <2>2. Save(r)
    BY <1>4
  <2> HIDE DEF r
  <2> QED
    BY <1>2, <2>1, <2>2
<1>5. ASSUME NEW cs, LeaveCauses(id, cs)
      PROVE  /\ DOMAIN reviews' = DOMAIN reviews
             /\ reviews'[id].causes = cs /\ reviews'[id].triggers = reviews[id].triggers
  BY <1>1, <1>5 DEF LeaveCauses, ReviewType
<1> QED
  BY <1>3, <1>4, <1>5

(* From a list of causes to what a request makes of it: entries other than that under o are     *)
(* what they were, and none of them gets the mark.                                        *)
Spares(cs, new, o) ==
  /\ \A e \in EntriesOf(cs) : e.id # o => e \in EntriesOf(new)
  /\ \A e \in EntriesOf(cs) : e.id = ProximalOf(new) /\ e.id # o => ProximalOf(cs) = ProximalOf(new)

LEMMA NamesOfEntries ==
  ASSUME NEW cs, NEW known, NEW last, CausesInv(cs, known, last)
  PROVE  /\ \A e \in EntriesOf(cs) : e.id # Nil /\ e.id <= last
         /\ ProximalOf(cs) = Nil \/ \E e \in EntriesOf(cs) : e.id = ProximalOf(cs)
<1>1. \A e \in EntriesOf(cs) : e.id # Nil /\ e.id <= last
  BY EntriesMember DEF EntryOf, CausesInv
<1>2. CASE \E i \in DOMAIN cs : cs[i].proximal
  <2>1. PICK i \in DOMAIN cs : cs[i].proximal
    BY <1>2
  <2>2. cs[i].id # Nil /\ ProximalOf(cs) = cs[i].id
    BY <2>1, ProximalNamed
  <2>3. EntryOf(cs[i]) \in EntriesOf(cs) /\ EntryOf(cs[i]).id = cs[i].id
    BY <2>2, EntriesMember DEF EntryOf
  <2> QED
    BY <1>1, <2>2, <2>3
<1>3. CASE \A i \in DOMAIN cs : ~ cs[i].proximal
  BY <1>1, <1>3, ProximalNamed
<1> QED
  BY <1>2, <1>3

(* An entry is known by its id.                                                            *)
LEMMA EntriesApart ==
  ASSUME NEW cs, NEW known, NEW last, CausesInv(cs, known, last),
         NEW d \in EntriesOf(cs), NEW e \in EntriesOf(cs), d.id = e.id
  PROVE  d = e
<1>1. PICK i \in DOMAIN cs : cs[i].id # Nil /\ d = EntryOf(cs[i])
  BY EntriesMember
<1>2. PICK j \in DOMAIN cs : cs[j].id # Nil /\ e = EntryOf(cs[j])
  BY EntriesMember
<1>3. cs[i].id = cs[j].id
  BY <1>1, <1>2 DEF EntryOf
<1>4. i = j
  BY <1>1, <1>3 DEF CausesInv, DistinctIDs
<1> QED
  BY <1>1, <1>2, <1>4

LEMMA BindEffect ==
  ASSUME IInv, IInv', NEW id \in DOMAIN reviews, NEW cause, NEW why \in Whys, NEW proximal \in BOOLEAN,
         BindContributingCause(id, cause, why, proximal)
  PROVE  LET cs == reviews[id].causes  new == reviews'[id].causes IN
         /\ DOMAIN reviews' = DOMAIN reviews /\ reviews'[id].triggers = reviews[id].triggers
         /\ Spares(cs, new, Nil)
         /\ outcome' = "refused" => EntriesOf(new) = EntriesOf(cs)
<1> DEFINE rc == [id |-> Nil, cause |-> cause, why |-> why, proximal |-> proximal]
           cs == reviews[id].causes
           e == EnsureID(rc, NewID)
           new == Bind(cs, rc, NewID)
           left == Rewritten(cs, rc)
<1>1. CASE UNCHANGED reviews
  BY <1>1 DEF Spares
<1>2. ASSUME cause \in causes
      PROVE  /\ CausesInv(cs, causes, lastID) /\ cs \in Seq(BoundCause) /\ rc \in BoundCause
             /\ rc.cause \in causes /\ Nil \notin causes
             /\ lastID \in Nat /\ NewID \in Nat /\ NewID > lastID /\ NewID # Nil
  <2>1. /\ CausesInv(cs, causes, lastID) /\ causes \subseteq 1..lastID /\ lastID \in Nat
        /\ Nil \notin causes
    BY StoredFacts DEF IInv, TypeOK
  <2> QED
    BY <1>2, <2>1 DEF CausesInv, BoundCause, IDs, Nil, NewID
<1>3. CASE /\ cause \in causes /\ ~ BindRefused(cs, rc)
           /\ Save([reviews[id] EXCEPT !.causes = new]) /\ outcome' = "ok"
  <2>1. CausesInv(new, causes', lastID') /\ DOMAIN reviews' = DOMAIN reviews
        /\ reviews'[id].causes = new /\ reviews'[id].triggers = reviews[id].triggers
    <3> HIDE DEF new
    <3> QED
      BY <1>3, SavedCausesInv, StoredLists
  <2>2. e.id = NewID /\ e.id # Nil /\ rc.proximal = proximal
    BY <1>2, <1>3 DEF EnsureID
  <2>3. /\ EntriesOf(new) = EntriesOf(cs) \cup {EntryOf(e)}
        /\ ProximalOf(new) = IF rc.proximal THEN e.id ELSE ProximalOf(cs)
        /\ \A c \in EntriesOf(cs) : ~ SameReason(c, e)
    <3>1. e = EnsureID(rc, NewID)
      OBVIOUS
    <3>2. /\ CausesInv(cs, causes, lastID) /\ rc \in BoundCause /\ ~ BindRefused(cs, rc)
          /\ CausesInv(Bind(cs, rc, NewID), causes', lastID') /\ e.id # Nil
      BY <1>2, <1>3, <2>1, <2>2
    <3> HIDE DEF e, rc, cs
    <3> QED
      BY <3>1, <3>2, BindOnBook
  <2>4. \A x \in EntriesOf(cs) : x.id \in Nat /\ x.id # NewID
    <3>1. \A x \in EntriesOf(cs) : x.id <= lastID
      BY <1>2, <1>3, NamesOfEntries
    <3>2. \A x \in EntriesOf(cs) : x.id \in Nat
      <4>1. cs \in Seq(BoundCause)
        BY <1>2, <1>3
      <4> HIDE DEF cs
      <4>2. \A i \in DOMAIN cs : cs[i].id \in Nat
        BY <4>1, CauseEntries
      <4> QED
        BY <4>2, EntriesMember DEF EntryOf
    <3> QED
      BY <1>2, <1>3, <3>1, <3>2
  <2> HIDE DEF e, rc, new, cs
  <2>5. Spares(cs, new, Nil)
    BY <2>2, <2>3, <2>4 DEF Spares
  <2> QED
    BY <1>3, <2>1, <2>5 DEF cs
<1>4. CASE /\ cause \in causes /\ BindRefused(cs, rc)
           /\ LeaveCauses(id, left) /\ outcome' = "refused"
  <2>1. /\ EntriesOf(left) = EntriesOf(cs)
        /\ ProximalOf(left) \in {Nil, ProximalOf(cs)}
    <3> HIDE DEF cs, rc
    <3> QED
      BY <1>2, <1>4, RefusalOnBook
  <2>2. DOMAIN reviews' = DOMAIN reviews /\ reviews'[id].causes = left
        /\ reviews'[id].triggers = reviews[id].triggers
    <3> HIDE DEF left
    <3> QED
      BY <1>4, StoredLists
  <2>3. \A x \in EntriesOf(cs) : x.id # Nil
    BY <1>2, <1>4, NamesOfEntries
  <2> HIDE DEF left, cs
  <2>4. Spares(cs, left, Nil)
    BY <2>1, <2>3 DEF Spares
  <2> QED
    BY <2>1, <2>2, <2>4 DEF cs
<1> HIDE DEF new, e, left
<1> QED
  BY <1>1, <1>3, <1>4 DEF BindContributingCause, NotFound, new, left, BindResidue

LEMMA RebindEffect ==
  ASSUME IInv, IInv', NEW id \in DOMAIN reviews, NEW o \in BoundCause, o.id # Nil,
         o.cause \in causes, UpdateBoundContributingCause(id, o)
  PROVE  LET cs == reviews[id].causes  new == reviews'[id].causes IN
         /\ DOMAIN reviews' = DOMAIN reviews /\ reviews'[id].triggers = reviews[id].triggers
         /\ Spares(cs, new, o.id)
         /\ \A e \in EntriesOf(new) : e.id = o.id \/ e \in EntriesOf(cs)
         /\ outcome' = "ok" =>
              EntryOf(o) \in EntriesOf(new) /\ (ProximalOf(new) = o.id => o.proximal)
         /\ outcome' # "ok" => \A e \in EntriesOf(new) : e.id # o.id
<1> DEFINE cs == reviews[id].causes
<1>1. CASE UNCHANGED reviews /\ outcome' = "refused" /\ ~ Holds(cs, o.id)
  <2>1. \A e \in EntriesOf(cs) : e.id # o.id
    BY <1>1, EntriesMember DEF Holds, EntryOf
  <2> QED
    BY <1>1, <2>1 DEF Spares
<1>2. ASSUME o.cause \in causes, NEW rest \in Without(cs, o.id)
      PROVE  /\ CausesInv(cs, causes, lastID) /\ cs \in Seq(BoundCause)
             /\ lastID \in Nat /\ NewID # Nil /\ Nil \notin causes
             /\ CausesInv(rest, causes, lastID) /\ rest \in Seq(BoundCause)
             /\ EntriesOf(rest) = {x \in EntriesOf(cs) : x.id # o.id}
             /\ ProximalOf(rest) = IF ProximalOf(cs) = o.id THEN Nil ELSE ProximalOf(cs)
             /\ \A e \in EntriesOf(cs) : e.id # Nil
  <2>1. /\ CausesInv(cs, causes, lastID) /\ cs \in Seq(BoundCause) /\ lastID \in Nat
        /\ NewID # Nil /\ Nil \notin causes
    BY <1>2, StoredFacts DEF CausesInv, Nil, NewID, IInv, TypeOK
  <2> HIDE DEF cs
  <2>2. /\ CausesInv(rest, causes, lastID)
        /\ EntriesOf(rest) = {x \in EntriesOf(cs) : x.id # o.id}
        /\ ProximalOf(rest) = IF ProximalOf(cs) = o.id THEN Nil ELSE ProximalOf(cs)
    BY <1>2, <2>1, WithoutInv, WithoutOnBook
  <2>3. rest \in Seq(BoundCause) /\ \A e \in EntriesOf(cs) : e.id # Nil
    BY <2>1, <2>2, NamesOfEntries DEF CausesInv
  <2> QED
    BY <2>1, <2>2, <2>3
<1>3. ASSUME o.cause \in causes, NEW rest \in Without(cs, o.id), ~ BindRefused(rest, o),
             Save([reviews[id] EXCEPT !.causes = Bind(rest, o, NewID)])
      PROVE  LET new == reviews'[id].causes IN
             /\ DOMAIN reviews' = DOMAIN reviews /\ reviews'[id].triggers = reviews[id].triggers
             /\ Spares(cs, new, o.id)
             /\ \A e \in EntriesOf(new) : e.id = o.id \/ e \in EntriesOf(cs)
             /\ EntryOf(o) \in EntriesOf(new) /\ (ProximalOf(new) = o.id => o.proximal)
  <2> DEFINE new == Bind(rest, o, NewID)
  <2>1. CausesInv(new, causes', lastID') /\ DOMAIN reviews' = DOMAIN reviews
        /\ reviews'[id].causes = new /\ reviews'[id].triggers = reviews[id].triggers
    <3>1. Save([reviews[id] EXCEPT !.causes = new])
      BY <1>3
    <3> HIDE DEF new
    <3> QED
      BY <3>1, SavedCausesInv, StoredLists
  <2>2. o = EnsureID(o, NewID)
    BY DEF EnsureID
  <2>3. /\ EntriesOf(new) = EntriesOf(rest) \cup {EntryOf(o)}
        /\ ProximalOf(new) = IF o.proximal THEN o.id ELSE ProximalOf(rest)
        /\ \A c \in EntriesOf(rest) : ~ SameReason(c, o)
    <3>1. /\ CausesInv(rest, causes, lastID) /\ ~ BindRefused(rest, o)
          /\ CausesInv(Bind(rest, o, NewID), causes', lastID')
      BY <1>2, <1>3, <2>1
    <3>2. o.id # Nil
      OBVIOUS
    <3> HIDE DEF cs
    <3> QED
      BY <2>2, <3>1, <3>2, BindOnBook
  <2>4. /\ EntriesOf(rest) = {x \in EntriesOf(cs) : x.id # o.id}
        /\ ProximalOf(rest) = IF ProximalOf(cs) = o.id THEN Nil ELSE ProximalOf(cs)
        /\ \A e \in EntriesOf(cs) : e.id # Nil
    BY <1>2, <1>3
  <2>5. EntryOf(o).id = o.id
    BY DEF EntryOf
  <2> HIDE DEF new, cs
  <2>6. Spares(cs, new, o.id)
    BY <2>3, <2>4 DEF Spares
  <2>7. \A e \in EntriesOf(new) : e.id = o.id \/ e \in EntriesOf(cs)
    BY <2>3, <2>4, <2>5
  <2>8. EntryOf(o) \in EntriesOf(new) /\ (ProximalOf(new) = o.id => o.proximal)
    BY <2>3, <2>4
  <2> QED
    BY <2>1, <2>6, <2>7, <2>8
<1>4. ASSUME o.cause \in causes, NEW rest \in Without(cs, o.id), BindRefused(rest, o),
             LeaveCauses(id, RebindResidue(cs, rest, o))
      PROVE  LET new == reviews'[id].causes IN
             /\ DOMAIN reviews' = DOMAIN reviews /\ reviews'[id].triggers = reviews[id].triggers
             /\ Spares(cs, new, o.id)
             /\ \A e \in EntriesOf(new) : e.id # o.id /\ e \in EntriesOf(cs)
  <2> DEFINE n == Len(cs)
             old == Rewritten(rest, o)
             left == Padded(old, n)
  <2>0. /\ CausesInv(rest, causes, lastID) /\ rest \in Seq(BoundCause)
        /\ cs \in Seq(BoundCause) /\ lastID \in Nat /\ Nil \notin causes
        /\ EntriesOf(rest) = {x \in EntriesOf(cs) : x.id # o.id}
        /\ ProximalOf(rest) = IF ProximalOf(cs) = o.id THEN Nil ELSE ProximalOf(cs)
        /\ \A e \in EntriesOf(cs) : e.id # Nil
    BY <1>2, <1>4
  <2>1. Len(old) = Len(rest) /\ Len(rest) <= n /\ n \in Nat
    <3> HIDE DEF cs
    <3> QED
      BY <1>4, <2>0, RewrittenKeeps, WithoutShorter DEF n
  <2>2. /\ CausesInv(old, causes, lastID) /\ EntriesOf(old) = EntriesOf(rest)
        /\ ProximalOf(old) \in {Nil, ProximalOf(rest)}
    BY <1>4, <2>0, RewrittenInv, RefusalOnBook
  <2> HIDE DEF n, old
  <2>3. Len(old) <= n
    BY <2>1
  <2>4. EntriesOf(left) = EntriesOf(rest) /\ ProximalOf(left) = ProximalOf(old)
    BY <2>0, <2>1, <2>2, <2>3, PaddedOnBook
  <2>5. LeaveCauses(id, left)
    BY <1>4 DEF RebindResidue, n, old
  <2> HIDE DEF left
  <2>6. DOMAIN reviews' = DOMAIN reviews /\ reviews'[id].causes = left
        /\ reviews'[id].triggers = reviews[id].triggers
    BY <2>5, StoredLists
  <2> HIDE DEF cs
  <2>7. Spares(cs, left, o.id)
    BY <2>0, <2>2, <2>4 DEF Spares
  <2>8. \A e \in EntriesOf(left) : e.id # o.id /\ e \in EntriesOf(cs)
    BY <2>0, <2>4
  <2> QED
    BY <2>6, <2>7, <2>8
<1>5. CASE \E rest \in Without(cs, o.id) :
             /\ o.cause \in causes /\ ~ BindRefused(rest, o) /\ outcome' = "ok"
             /\ Save([reviews[id] EXCEPT !.causes = Bind(rest, o, NewID)])
  BY <1>3, <1>5
<1>6. CASE \E rest \in Without(cs, o.id) :
             /\ o.cause \in causes /\ BindRefused(rest, o) /\ outcome' = "refused"
             /\ LeaveCauses(id, RebindResidue(cs, rest, o))
  BY <1>4, <1>6
<1>7. \/ UNCHANGED reviews /\ outcome' = "refused" /\ ~ Holds(cs, o.id)
      \/ \E rest \in Without(cs, o.id) :
           /\ o.cause \in causes /\ ~ BindRefused(rest, o) /\ outcome' = "ok"
           /\ Save([reviews[id] EXCEPT !.causes = Bind(rest, o, NewID)])
      \/ \E rest \in Without(cs, o.id) :
           /\ o.cause \in causes /\ BindRefused(rest, o) /\ outcome' = "refused"
           /\ LeaveCauses(id, RebindResidue(cs, rest, o))
  BY DEF UpdateBoundContributingCause, NotFound
<1> QED
  BY <1>1, <1>5, <1>6, <1>7

LEMMA HooksMember ==
  ASSUME NEW ts, NEW e
  PROVE  e \in HooksOf(ts) <=> \E t \in Range(ts) : e = HookOf(t)
BY DEF HooksOf

LEMMA BindTriggerEffect ==
  ASSUME IInv, NEW id \in DOMAIN reviews, NEW trigger \in triggers, NEW why \in Whys,
         BindTrigger(id, trigger, why)
  PROVE  /\ DOMAIN reviews' = DOMAIN reviews /\ reviews'[id].causes = reviews[id].causes
         /\ Range(reviews[id].triggers) \subseteq Range(reviews'[id].triggers)
<1> DEFINE ts == reviews[id].triggers
           t == [id |-> NewID, trigger |-> trigger, why |-> why]
<1>1. Save([reviews[id] EXCEPT !.triggers = AddTrigger(ts, NewID, trigger, why)])
  BY DEF BindTrigger, NotFound
<1>2. lastID \in Nat /\ NewID \in Nat /\ trigger \in Nat /\ ts \in Seq(BoundTrigger)
  BY StoredFacts DEF IInv, TypeOK, NewID, TriggersInv
<1>3. t \in BoundTrigger
  BY <1>2 DEF BoundTrigger, IDs
<1>4. AddTrigger(ts, NewID, trigger, why) = Append(ts, t)
  BY DEF AddTrigger
<1> DEFINE new == Append(ts, t)
<1>5. Range(new) = Range(ts) \cup {t}
  BY <1>2, <1>3, AppendRange
<1>6. Save([reviews[id] EXCEPT !.triggers = new])
  BY <1>1, <1>4
<1> HIDE DEF new, t
<1> QED
  BY <1>5, <1>6, StoredLists

LEMMA RebindTriggerEffect ==
  ASSUME IInv, NEW id \in DOMAIN reviews, NEW o \in BoundTrigger, o.trigger \in triggers,
         Holds(reviews[id].triggers, o.id), UpdateBoundTrigger(id, o)
  PROVE  /\ DOMAIN reviews' = DOMAIN reviews /\ reviews'[id].causes = reviews[id].causes
         /\ Range(reviews'[id].triggers) = {t \in Range(reviews[id].triggers) : t.id # o.id} \cup {o}
<1> DEFINE ts == reviews[id].triggers
<1>1. PICK rest \in Without(ts, o.id) :
        Save([reviews[id] EXCEPT !.triggers = ReplaceTrigger(rest, o)])
  BY DEF UpdateBoundTrigger, NotFound
<1>2. ts \in Seq(BoundTrigger)
  BY StoredFacts DEF TriggersInv
<1>3. rest \in Seq(BoundTrigger) /\ Range(rest) = {t \in Range(ts) : t.id # o.id}
  BY <1>1, <1>2, WithoutRange
<1> DEFINE new == Append(rest, o)
<1>4. Range(new) = Range(rest) \cup {o}
  BY <1>3, AppendRange
<1>5. ReplaceTrigger(rest, o) = new
  BY DEF ReplaceTrigger
<1> HIDE DEF new
<1> QED
  BY <1>1, <1>3, <1>4, <1>5, StoredLists

-------------------------------------------------------------------------------------
(* The inductive invariant in the terms of the first part.                                *)
CausesThere == reviews[page.review].causes
TriggersThere == reviews[page.review].triggers

PageGood ==
  /\ PageTypeOK
  /\ page.review = Nil => page.regions = {}
  /\ page.review # Nil => "triggers" \in page.regions
  /\ ItemsAreApart(page.causes) /\ ItemsAreApart(page.triggers)
  /\ "triggers" \in page.regions => \A it \in Range(page.triggers) :
       \E t \in Range(TriggersThere) : it.id = t.id
  /\ current /\ "causes" \in page.regions =>
       Agrees(page.causes, EntriesOf(CausesThere), ProximalOf(CausesThere))
  /\ current /\ "triggers" \in page.regions => Agrees(page.triggers, HooksOf(TriggersThere), Nil)

LEMMA GoodIsInv == IInv => (PageInv <=> PageGood)
<1> SUFFICES ASSUME IInv PROVE PageInv <=> PageGood
  OBVIOUS
<1>1. ASSUME page.review \in DOMAIN reviews
      PROVE  /\ CausesInv(CausesThere, causes, lastID)
             /\ TriggersInv(TriggersThere, triggers, lastID)
             /\ CauseItems(reviews[page.review]) = CauseList(CausesThere)
             /\ TriggerItems(reviews[page.review]) = TriggerList(TriggersThere)
  BY <1>1, StoredFacts DEF CausesThere, TriggersThere, CauseItems, TriggerItems, CauseList, TriggerList
<1> DEFINE Base == /\ PageTypeOK
                   /\ page.review = Nil => page.regions = {}
                   /\ ItemsAreApart(page.causes) /\ ItemsAreApart(page.triggers)
                   /\ "triggers" \in page.regions => \A it \in Range(page.triggers) :
                        \E t \in Range(TriggersThere) : it.id = t.id
           Causes == current /\ "causes" \in page.regions =>
             Agrees(page.causes, EntriesOf(CausesThere), ProximalOf(CausesThere))
           Triggers == current /\ "triggers" \in page.regions =>
             Agrees(page.triggers, HooksOf(TriggersThere), Nil)
           Region == page.review # Nil => "triggers" \in page.regions
<1>2. ASSUME Base PROVE Region /\ Causes /\ Triggers <=> PageIsCurrent /\ ProximalIsMarked
  <2>1. page.regions # {} => page.review \in DOMAIN reviews
    BY <1>2 DEF PageTypeOK
  <2>2. Causes <=>
          (current /\ "causes" \in page.regions =>
             /\ ListIsCurrent(page.causes, CauseItems(reviews[page.review]))
             /\ \A c \in Range(CausesThere), it \in Shown(page.causes) :
                  c.proximal /\ c.id = it.id => it.marked)
    BY <1>1, <2>1, CausesAgree
  <2>3. Triggers <=>
          (current /\ "triggers" \in page.regions =>
             ListIsCurrent(page.triggers, TriggerItems(reviews[page.review])))
    BY <1>1, <2>1, TriggersAgree
  <2> HIDE DEF Causes, Triggers
  <2>4. PageIsCurrent <=>
          /\ Region
          /\ (current /\ "causes" \in page.regions =>
                ListIsCurrent(page.causes, CauseItems(reviews[page.review])))
          /\ (current /\ "triggers" \in page.regions =>
                ListIsCurrent(page.triggers, TriggerItems(reviews[page.review])))
    BY DEF PageIsCurrent
  <2>5. ProximalIsMarked <=>
          (current /\ "causes" \in page.regions =>
             \A c \in Range(CausesThere), it \in Shown(page.causes) :
               c.proximal /\ c.id = it.id => it.marked)
    BY DEF ProximalIsMarked, CausesThere
  <2> QED
    BY <2>2, <2>3, <2>4, <2>5
<1>3. PageInv <=> Base /\ PageIsCurrent /\ ProximalIsMarked
  BY DEF PageInv, TriggersThere
<1>4. PageGood <=> Base /\ Region /\ Causes /\ Triggers
  BY DEF PageGood
<1> HIDE DEF Base, Region, Causes, Triggers
<1> QED
  BY <1>2, <1>3, <1>4

LEMMA PageFacts ==
  ASSUME PageGood
  PROVE  /\ page \in Page /\ current \in BOOLEAN
         /\ page.causes \in Seq(Item) /\ page.triggers \in Seq(Item)
         /\ page.regions \subseteq {"causes", "triggers"}
         /\ page.regions # {} => page.review \in DOMAIN reviews
<1>1. page \in Page /\ current \in BOOLEAN /\ page.review \in {Nil} \cup DOMAIN reviews
  BY DEF PageGood, PageTypeOK
<1>2. /\ page.causes \in Seq(Item) /\ page.triggers \in Seq(Item)
      /\ page.regions \subseteq {"causes", "triggers"}
  BY <1>1 DEF Page
<1> QED
  BY <1>1, <1>2 DEF PageGood

LEMMA NoPageIsGood ==
  ASSUME page' = NoPage, current' \in BOOLEAN
  PROVE  PageGood'
<1>1. /\ page'.review = Nil /\ page'.regions = {} /\ page'.causes = <<>> /\ page'.triggers = <<>>
      /\ page' \in Page
  BY DEF NoPage, Page, IDs, Nil
<1> QED
  BY <1>1 DEF PageGood, PageTypeOK, ItemsAreApart

(* A whole region is answered: the other stays.                                             *)
LEMMA CausesRegionGood ==
  ASSUME IInv', PageGood, "causes" \in page.regions, UNCHANGED current,
         DOMAIN reviews' = DOMAIN reviews, reviews'[page.review].triggers = TriggersThere,
         \/ page' = [page EXCEPT !.regions = @ \ {"causes"}]
         \/ page' = [page EXCEPT !.causes = CauseItems(reviews'[page.review])]
  PROVE  PageGood'
<1> DEFINE id == page.review
           list == CauseList(reviews'[id].causes)
<1>1. /\ page \in Page /\ current \in BOOLEAN /\ id \in DOMAIN reviews
      /\ page.causes \in Seq(Item) /\ page.triggers \in Seq(Item)
  BY PageFacts
<1>2. CausesInv(reviews'[id].causes, causes', lastID') /\ reviews'[id].causes \in Seq(BoundCause)
  BY <1>1 DEF IInv, Stored, CausesInv
<1>3. /\ list \in Seq(Item) /\ ItemsAreApart(list)
      /\ Agrees(list, EntriesOf(reviews'[id].causes), ProximalOf(reviews'[id].causes))
      /\ list = CauseItems(reviews'[id])
  BY <1>2, CauseListTyped, FreshCauses DEF CauseList, CauseItems
<1> HIDE DEF list
<1>4. /\ page' \in Page /\ page'.review = id /\ page'.triggers = page.triggers
      /\ "triggers" \in page'.regions <=> "triggers" \in page.regions
      /\ \/ page'.causes = page.causes /\ "causes" \notin page'.regions
         \/ page'.causes = list
  BY <1>1, <1>3 DEF Page
<1>5. ItemsAreApart(page'.causes) /\ ItemsAreApart(page'.triggers)
  BY <1>3, <1>4 DEF PageGood
<1>6. /\ CausesThere' = reviews'[id].causes /\ TriggersThere' = TriggersThere
      /\ id # Nil
  BY <1>1, <1>4 DEF CausesThere, TriggersThere, PageGood
<1>7. "causes" \in page'.regions =>
        Agrees(page'.causes, EntriesOf(CausesThere'), ProximalOf(CausesThere'))
  BY <1>3, <1>4, <1>6
<1>8. PageTypeOK'
  BY <1>1, <1>4 DEF PageTypeOK
<1>9. /\ "triggers" \in page'.regions => \A it \in Range(page'.triggers) :
           \E t \in Range(TriggersThere') : it.id = t.id
      /\ current' /\ "triggers" \in page'.regions =>
           Agrees(page'.triggers, HooksOf(TriggersThere'), Nil)
  BY <1>4, <1>6 DEF PageGood
<1> QED
  BY <1>4, <1>5, <1>6, <1>7, <1>8, <1>9 DEF PageGood

LEMMA TriggersRegionGood ==
  ASSUME IInv', PageGood, "triggers" \in page.regions, UNCHANGED current,
         DOMAIN reviews' = DOMAIN reviews, reviews'[page.review].causes = CausesThere,
         page' = [page EXCEPT !.triggers = TriggerItems(reviews'[page.review])]
  PROVE  PageGood'
<1> DEFINE id == page.review
           list == TriggerList(reviews'[id].triggers)
<1>1. /\ page \in Page /\ current \in BOOLEAN /\ id \in DOMAIN reviews
      /\ page.causes \in Seq(Item) /\ page.triggers \in Seq(Item)
  BY PageFacts
<1>2. /\ TriggersInv(reviews'[id].triggers, triggers', lastID')
      /\ reviews'[id].triggers \in Seq(BoundTrigger)
  BY <1>1 DEF IInv, Stored, TriggersInv
<1>3. /\ list \in Seq(Item) /\ ItemsAreApart(list)
      /\ Agrees(list, HooksOf(reviews'[id].triggers), Nil)
      /\ \A it \in Range(list) : \E t \in Range(reviews'[id].triggers) : it.id = t.id
      /\ list = TriggerItems(reviews'[id])
  BY <1>2, TriggerListTyped, FreshTriggers DEF TriggerList, TriggerItems
<1> HIDE DEF list
<1>4. /\ page' \in Page /\ page'.review = id /\ page'.causes = page.causes
      /\ page'.regions = page.regions /\ page'.triggers = list
  BY <1>1, <1>3 DEF Page
<1>5. ItemsAreApart(page'.causes) /\ ItemsAreApart(page'.triggers)
  BY <1>3, <1>4 DEF PageGood
<1>6. /\ CausesThere' = CausesThere /\ TriggersThere' = reviews'[id].triggers
      /\ id # Nil
  BY <1>1, <1>4 DEF CausesThere, TriggersThere, PageGood
<1>7. PageTypeOK'
  BY <1>1, <1>4 DEF PageTypeOK
<1>8. current' /\ "causes" \in page'.regions =>
        Agrees(page'.causes, EntriesOf(CausesThere'), ProximalOf(CausesThere'))
  BY <1>4, <1>6 DEF PageGood
<1> QED
  BY <1>3, <1>4, <1>5, <1>6, <1>7, <1>8 DEF PageGood

(* One item is answered: n takes its place.                                                 *)
LEMMA CauseItemGood ==
  ASSUME IInv, IInv', PageGood, "causes" \in page.regions, UNCHANGED current,
         DOMAIN reviews' = DOMAIN reviews, reviews'[page.review].triggers = TriggersThere,
         NEW i \in DOMAIN page.causes, NEW n \in Item, page' = [page EXCEPT !.causes[i] = n],
         n.id = page.causes[i].id, page.causes[i].shows # "region", n.id = Nil => n.why = NoWhy,
         NEW o, o = Nil \/ o = n.id, Spares(CausesThere, reviews'[page.review].causes, o),
         current => LET new == reviews'[page.review].causes IN
           /\ \A e \in EntriesOf(new) :
                e.why = NoWhy \/ e.id \in Offered(n) \/ (e.id # n.id /\ e \in EntriesOf(CausesThere))
           /\ n.shows \in {"entry", "form"} /\ n.id # Nil =>
                /\ [id |-> n.id, cause |-> n.of, why |-> n.why] \in EntriesOf(new)
                /\ ProximalOf(new) = n.id => n.marked
  PROVE  PageGood'
<1> DEFINE id == page.review
           new == reviews'[id].causes
           list == [page.causes EXCEPT ![i] = n]
<1>1. /\ page \in Page /\ current \in BOOLEAN /\ id \in DOMAIN reviews
      /\ page.causes \in Seq(Item) /\ page.triggers \in Seq(Item)
  BY PageFacts
<1>2. CausesInv(CausesThere, causes, lastID)
  BY <1>1, StoredFacts DEF CausesThere
<1>3. \A e \in EntriesOf(CausesThere) : e.id # Nil
  BY <1>2, NamesOfEntries
<1>4. ItemsAreApart(page.causes)
  BY DEF PageGood
<1>5. list \in Seq(Item) /\ ItemsAreApart(list)
  BY <1>1, <1>4, ApartAfter
<1>6. ASSUME current
      PROVE  Agrees(list, EntriesOf(new), ProximalOf(new))
  <2> DEFINE E == EntriesOf(CausesThere)
             F == EntriesOf(new)
             m == ProximalOf(CausesThere)
             k == ProximalOf(new)
  <2>1. Agrees(page.causes, E, m)
    BY <1>6 DEF PageGood
  <2>2. /\ \A e \in E : e.id # n.id => e \in F
        /\ \A e \in E : e.id = k /\ e.id # n.id => m = k
    BY <1>3 DEF Spares
  <2>3. \A e \in F : e.why = NoWhy \/ e.id \in Offered(n) \/ (e.id # n.id /\ e \in E)
    BY <1>6
  <2>4. n.shows \in {"entry", "form"} /\ n.id # Nil =>
          [id |-> n.id, cause |-> n.of, why |-> n.why] \in F /\ (k = n.id => n.marked)
    BY <1>6
  <2> HIDE DEF E, F, m, k
  <2>5. Agrees(list, F, k)
    BY <1>4, <2>1, <2>2, <2>3, <2>4, AgreesAfter
  <2> QED
    BY <2>5 DEF F, k
<1> HIDE DEF list
<1>7. /\ page' \in Page /\ page'.review = id /\ page'.triggers = page.triggers
      /\ page'.regions = page.regions /\ page'.causes = list
  BY <1>1, <1>5 DEF Page, list
<1>8. CausesThere' = new /\ TriggersThere' = TriggersThere
  BY <1>7 DEF CausesThere, TriggersThere
<1>9. PageTypeOK'
  BY <1>1, <1>7 DEF PageTypeOK
<1>10. current' /\ "causes" \in page'.regions =>
         Agrees(page'.causes, EntriesOf(CausesThere'), ProximalOf(CausesThere'))
  BY <1>6, <1>7, <1>8
<1>11. ItemsAreApart(page'.causes) /\ ItemsAreApart(page'.triggers)
  BY <1>5, <1>7 DEF PageGood
<1> HIDE DEF new
<1>12. /\ page'.review = Nil => page'.regions = {}
       /\ "triggers" \in page'.regions => \A it \in Range(page'.triggers) :
            \E t \in Range(TriggersThere') : it.id = t.id
       /\ current' /\ "triggers" \in page'.regions =>
            Agrees(page'.triggers, HooksOf(TriggersThere'), Nil)
  BY <1>7, <1>8 DEF PageGood
<1> QED
  BY <1>9, <1>10, <1>11, <1>12 DEF PageGood

LEMMA TriggerItemGood ==
  ASSUME IInv', PageGood, "triggers" \in page.regions, UNCHANGED current,
         DOMAIN reviews' = DOMAIN reviews, reviews'[page.review].causes = CausesThere,
         NEW i \in DOMAIN page.triggers, NEW n \in Item, page' = [page EXCEPT !.triggers[i] = n],
         n.id = page.triggers[i].id, page.triggers[i].shows # "region", n.id = Nil => n.why = NoWhy,
         \A t \in Range(TriggersThere) : t.id # n.id => t \in Range(reviews'[page.review].triggers),
         \A t \in Range(TriggersThere) : \E u \in Range(reviews'[page.review].triggers) : u.id = t.id,
         \A u \in Range(reviews'[page.review].triggers) :
           u.id \in Offered(n) \/ (u.id # n.id /\ u \in Range(TriggersThere)),
         n.shows \in {"entry", "form"} =>
           [id |-> n.id, cause |-> n.of, why |-> n.why] \in HooksOf(reviews'[page.review].triggers)
  PROVE  PageGood'
<1> DEFINE id == page.review
           new == reviews'[id].triggers
           list == [page.triggers EXCEPT ![i] = n]
<1>1. /\ page \in Page /\ current \in BOOLEAN /\ id \in DOMAIN reviews
      /\ page.causes \in Seq(Item) /\ page.triggers \in Seq(Item)
  BY PageFacts
<1>2. ItemsAreApart(page.triggers)
  BY DEF PageGood
<1>3. /\ list \in Seq(Item) /\ ItemsAreApart(list)
      /\ {it.id : it \in Range(list)} = {it.id : it \in Range(page.triggers)}
  BY <1>1, <1>2, ApartAfter
<1>4. \A it \in Range(list) : \E t \in Range(new) : it.id = t.id
  <2>1. \A it \in Range(page.triggers) : \E t \in Range(new) : it.id = t.id
    BY DEF PageGood
  <2> HIDE DEF list, new
  <2>2. \A it \in Range(list) : \E jt \in Range(page.triggers) : jt.id = it.id
    BY <1>3
  <2> QED
    BY <2>1, <2>2
<1>5. ASSUME current
      PROVE  Agrees(list, HooksOf(new), Nil)
  <2> DEFINE E == HooksOf(TriggersThere)
             F == HooksOf(new)
  <2>1. Agrees(page.triggers, E, Nil)
    BY <1>5 DEF PageGood
  <2>2. \A t : HookOf(t).id = t.id
    BY DEF HookOf
  <2>3. \A e \in E : e.id # n.id => e \in F
    BY <2>2, HooksMember
  <2>4. \A e \in F : e.why = NoWhy \/ e.id \in Offered(n) \/ (e.id # n.id /\ e \in E)
    <3>1. \A e \in F : \E u \in Range(new) : e = HookOf(u)
      BY HooksMember
    <3>2. \A u \in Range(TriggersThere) : HookOf(u) \in E
      BY HooksMember
    <3> HIDE DEF E, F
    <3> QED
      BY <2>2, <3>1, <3>2
  <2>5. /\ n.shows \in {"entry", "form"} /\ n.id # Nil =>
             [id |-> n.id, cause |-> n.of, why |-> n.why] \in F /\ (Nil = n.id => n.marked)
        /\ \A e \in E : e.id = Nil /\ e.id # n.id => Nil = Nil
    BY <1>5
  <2> HIDE DEF E, F
  <2>6. Agrees(list, F, Nil)
    BY <1>2, <2>1, <2>3, <2>4, <2>5, AgreesAfter
  <2> QED
    BY <2>6 DEF F
<1> HIDE DEF list
<1>6. /\ page' \in Page /\ page'.review = id /\ page'.causes = page.causes
      /\ page'.regions = page.regions /\ page'.triggers = list
  BY <1>1, <1>3 DEF Page, list
<1>7. CausesThere' = CausesThere /\ TriggersThere' = new
  BY <1>6 DEF CausesThere, TriggersThere
<1>8. PageTypeOK'
  BY <1>1, <1>6 DEF PageTypeOK
<1>9. current' /\ "triggers" \in page'.regions => Agrees(page'.triggers, HooksOf(TriggersThere'), Nil)
  BY <1>5, <1>6, <1>7
<1>10. ItemsAreApart(page'.causes) /\ ItemsAreApart(page'.triggers)
  BY <1>3, <1>6 DEF PageGood
<1>11. "triggers" \in page'.regions => \A it \in Range(page'.triggers) :
         \E t \in Range(TriggersThere') : it.id = t.id
  BY <1>4, <1>6, <1>7
<1> HIDE DEF new
<1>12. /\ page'.review = Nil => page'.regions = {}
       /\ current' /\ "causes" \in page'.regions =>
            Agrees(page'.causes, EntriesOf(CausesThere'), ProximalOf(CausesThere'))
  BY <1>6, <1>7 DEF PageGood
<1> QED
  BY <1>8, <1>9, <1>10, <1>11, <1>12 DEF PageGood

-------------------------------------------------------------------------------------
(* The steps of the page.                                                                 *)
LEMMA ShowGood ==
  ASSUME IInv, NEW id, Show(id)
  PROVE  IInv' /\ PageGood'
<1>1. IInv' /\ current' \in BOOLEAN /\ reviews' = reviews
  BY NothingStoredInv DEF Show, vars, IInv, TypeOK
<1>2. CASE id \notin DOMAIN reviews
  BY <1>1, <1>2, NoPageIsGood DEF Show
<1>3. CASE id \in DOMAIN reviews
  <2> DEFINE cs == reviews[id].causes
             ts == reviews[id].triggers
             items == CauseList(cs)
             hooks == TriggerList(ts)
  <2>1. /\ CausesInv(cs, causes, lastID) /\ TriggersInv(ts, triggers, lastID)
        /\ reviews[id].id = id /\ id \in 1..lastID /\ lastID \in Nat
    BY <1>3, StoredFacts
  <2>2. items \in Seq(Item) /\ hooks \in Seq(Item)
    BY <2>1, CauseListTyped, TriggerListTyped DEF CausesInv, TriggersInv
  <2>3. /\ Agrees(items, EntriesOf(cs), ProximalOf(cs)) /\ ItemsAreApart(items)
        /\ Agrees(hooks, HooksOf(ts), Nil) /\ ItemsAreApart(hooks)
        /\ \A it \in Range(hooks) : \E t \in Range(ts) : it.id = t.id
    BY <2>1, FreshCauses, FreshTriggers
  <2>4. page' = [review |-> id, regions |-> {"causes", "triggers"}, causes |-> items, triggers |-> hooks]
    BY <1>3, <2>1 DEF Show, convertToHttpObject, CauseItems, TriggerItems, CauseList, TriggerList
  <2> HIDE DEF items, hooks
  <2>5. /\ page' \in Page /\ page'.review = id /\ page'.causes = items /\ page'.triggers = hooks
        /\ id # Nil /\ "triggers" \in page'.regions
    BY <2>1, <2>2, <2>4 DEF Page, IDs, Nil
  <2>6. CausesThere' = cs /\ TriggersThere' = ts
    BY <1>1, <2>5 DEF CausesThere, TriggersThere
  <2>7. PageTypeOK'
    BY <1>1, <1>3, <2>5 DEF PageTypeOK
  <2> HIDE DEF cs, ts
  <2> QED
    BY <1>1, <2>3, <2>5, <2>6, <2>7 DEF PageGood
<1> QED
  BY <1>2, <1>3, <1>1

LEMMA BindCauseFromFormGood ==
  ASSUME IInv, PageGood, NEW why \in Given, NEW proximal \in BOOLEAN, NEW htmx \in BOOLEAN,
         BindCauseFromForm(why, proximal, htmx)
  PROVE  IInv' /\ PageGood'
<1> DEFINE id == page.review
<1>1. PICK cause \in causes : BindContributingCause(id, cause, why, proximal)
  BY DEF BindCauseFromForm
<1>2. /\ why \in Whys /\ "causes" \in page.regions /\ id \in DOMAIN reviews
      /\ UNCHANGED current /\ current \in BOOLEAN
  BY PageFacts DEF BindCauseFromForm, Given
<1>3. IInv'
  BY <1>1, <1>2, BindContributingCauseInv
<1>4. CASE page' = NoPage
  BY <1>2, <1>3, <1>4, NoPageIsGood
<1>5. CASE page' = CausesAnswer(outcome' = "refused")
  <2>1. DOMAIN reviews' = DOMAIN reviews /\ reviews'[id].triggers = reviews[id].triggers
    BY <1>1, <1>2, <1>3, BindEffect
  <2>2. \/ page' = [page EXCEPT !.regions = @ \ {"causes"}]
        \/ page' = [page EXCEPT !.causes = CauseItems(reviews'[page.review])]
    BY <1>5 DEF CausesAnswer
  <2> QED
    BY <1>2, <1>3, <2>1, <2>2, CausesRegionGood DEF TriggersThere
<1> QED
  BY <1>4, <1>5 DEF BindCauseFromForm

LEMMA BindTriggerFromFormGood ==
  ASSUME IInv, PageGood, NEW why \in Given, NEW htmx \in BOOLEAN, BindTriggerFromForm(why, htmx)
  PROVE  IInv' /\ PageGood'
<1> DEFINE id == page.review
<1>1. PICK trigger \in triggers : BindTrigger(id, trigger, why)
  BY DEF BindTriggerFromForm
<1>2. /\ why \in Whys /\ "triggers" \in page.regions /\ id \in DOMAIN reviews
      /\ UNCHANGED current /\ current \in BOOLEAN
  BY PageFacts DEF BindTriggerFromForm, Given
<1>3. IInv'
  BY <1>1, <1>2, BindTriggerInv
<1>4. CASE page' = NoPage
  BY <1>2, <1>3, <1>4, NoPageIsGood
<1>5. CASE page' = [page EXCEPT !.triggers = TriggerItems(reviews'[page.review])]
  <2>1. DOMAIN reviews' = DOMAIN reviews /\ reviews'[id].causes = reviews[id].causes
    BY <1>1, <1>2, BindTriggerEffect
  <2> QED
    BY <1>2, <1>3, <1>5, <2>1, TriggersRegionGood DEF CausesThere
<1> QED
  BY <1>4, <1>5 DEF BindTriggerFromForm

(* The form of an entry that is gone is no form, and that of a blank has no reason.        *)
LEMMA OpenedItem ==
  ASSUME NEW item \in Item, NEW stored \in Seq(Item), ItemsAreApart(stored),
         item.id = Nil => item.why = NoWhy
  PROVE  LET n == Opened(item, stored) IN
         /\ n \in Item /\ n.id = item.id /\ n.shows \in {"form", "nothing"}
         /\ n.id = Nil => n.why = NoWhy
         /\ n.marked = item.marked
         /\ n.shows = "form" =>
              \E e \in Range(stored) : e.id = n.id /\ e.of = n.of /\ e.why = n.why
         /\ n.shows = "nothing" => \A e \in Range(stored) : e.id # n.id
<1>1. CASE \E e \in Range(stored) : e.id = item.id
  <2> DEFINE e == CHOOSE e \in Range(stored) : e.id = item.id
  <2>1. e \in Range(stored) /\ e.id = item.id
    BY <1>1
  <2>2. Opened(item, stored) = [item EXCEPT !.shows = "form", !.of = e.of, !.why = e.why]
    BY <1>1 DEF Opened
  <2> HIDE DEF e
  <2>3. PICK i \in DOMAIN stored : e = stored[i]
    BY <2>1 DEF Range
  <2>4. e \in Item /\ (e.id = Nil => e.why = NoWhy)
    BY <2>3 DEF ItemsAreApart
  <2> QED
    BY <2>1, <2>2, <2>4 DEF Item
<1>2. CASE ~ \E e \in Range(stored) : e.id = item.id
  <2>1. Opened(item, stored) = [item EXCEPT !.shows = "nothing"]
    BY <1>2 DEF Opened
  <2> QED
    BY <1>2, <2>1 DEF Item
<1> QED
  BY <1>1, <1>2

(* What is known of an item of the page.                                                   *)
LEMMA ItemFacts ==
  ASSUME NEW items \in Seq(Item), ItemsAreApart(items), NEW i \in DOMAIN items
  PROVE  /\ items[i] \in Item
         /\ items[i].id \in IDs /\ items[i].of \in IDs /\ items[i].why \in Whys
         /\ items[i].id = Nil => items[i].why = NoWhy
<1>1. items[i] \in Item
  OBVIOUS
<1> QED
  BY <1>1 DEF Item, ItemsAreApart

LEMMA ListedIDs ==
  ASSUME NEW list \in Seq(Item)
  PROVE  {d.id : d \in Range(list)} \subseteq IDs
<1>1. \A d \in Range(list) : d \in Item
  BY DEF Range
<1>2. \A d \in Item : d.id \in IDs
  BY DEF Item
<1> QED
  BY <1>1, <1>2, Zenon

(* What a fresh list shows is what is stored.                                              *)
LEMMA CausesListed ==
  ASSUME NEW cs
  PROVE  /\ \A k \in DOMAIN cs : toBoundCauseBasic(cs[k]) \in Range(CauseList(cs))
         /\ \A d \in Range(CauseList(cs)) : \E k \in DOMAIN cs : d = toBoundCauseBasic(cs[k])
<1> DEFINE L == CauseList(cs)
<1>1. DOMAIN L = DOMAIN cs /\ \A k \in DOMAIN cs : L[k] = toBoundCauseBasic(cs[k])
  BY DEF CauseList
<1> HIDE DEF L
<1>2. /\ \A k \in DOMAIN cs : toBoundCauseBasic(cs[k]) \in Range(L)
      /\ \A d \in Range(L) : \E k \in DOMAIN cs : d = toBoundCauseBasic(cs[k])
  BY <1>1 DEF Range
<1> QED
  BY <1>2 DEF L

LEMMA TriggersListed ==
  ASSUME NEW ts
  PROVE  /\ \A k \in DOMAIN ts : toBoundTriggerBasic(ts[k]) \in Range(TriggerList(ts))
         /\ \A d \in Range(TriggerList(ts)) : \E k \in DOMAIN ts : d = toBoundTriggerBasic(ts[k])
<1> DEFINE L == TriggerList(ts)
<1>1. DOMAIN L = DOMAIN ts /\ \A k \in DOMAIN ts : L[k] = toBoundTriggerBasic(ts[k])
  BY DEF TriggerList
<1> HIDE DEF L
<1>2. /\ \A k \in DOMAIN ts : toBoundTriggerBasic(ts[k]) \in Range(L)
      /\ \A d \in Range(L) : \E k \in DOMAIN ts : d = toBoundTriggerBasic(ts[k])
  BY <1>1 DEF Range
<1> QED
  BY <1>2 DEF L

LEMMA EditCauseGood ==
  ASSUME IInv, PageGood, NEW i \in DOMAIN page.causes, EditBoundContributingCause(i)
  PROVE  IInv' /\ PageGood'
<1> DEFINE cs == CausesThere
           item == page.causes[i]
           n == Opened(item, CauseList(cs))
<1>1. /\ IInv' /\ UNCHANGED <<reviews, current>> /\ "causes" \in page.regions /\ item.shows = "entry"
  BY NothingStoredInv DEF EditBoundContributingCause, vars, IInv, TypeOK
<1>2. page.review \in DOMAIN reviews /\ page.causes \in Seq(Item) /\ ItemsAreApart(page.causes)
  BY <1>1, PageFacts DEF PageGood
<1>3. item \in Item /\ (item.id = Nil => item.why = NoWhy)
  BY <1>2, ItemFacts
<1>4. CausesInv(cs, causes, lastID)
  BY <1>2, StoredFacts DEF CausesThere
<1>5. CauseList(cs) \in Seq(Item) /\ ItemsAreApart(CauseList(cs))
  BY <1>4, CauseListTyped, FreshCauses DEF CausesInv
<1> HIDE DEF cs, item
<1>6. /\ n \in Item /\ n.id = item.id /\ n.shows \in {"form", "nothing"}
      /\ n.id = Nil => n.why = NoWhy
      /\ n.marked = item.marked
      /\ n.shows = "form" =>
           \E e \in Range(CauseList(cs)) : e.id = n.id /\ e.of = n.of /\ e.why = n.why
      /\ n.shows = "nothing" => \A e \in Range(CauseList(cs)) : e.id # n.id
  BY <1>3, <1>5, OpenedItem
<1>7. page' = [page EXCEPT !.causes[i] = n]
  BY DEF EditBoundContributingCause, CauseItems, CauseList, CausesThere, cs, item
<1> HIDE DEF n
<1>8. /\ DOMAIN reviews' = DOMAIN reviews /\ reviews'[page.review].triggers = TriggersThere
      /\ reviews'[page.review].causes = CausesThere
  BY <1>1 DEF TriggersThere, CausesThere
<1>9. Spares(CausesThere, reviews'[page.review].causes, Nil)
  BY <1>8 DEF Spares
<1>10. /\ n.shows # "entry" /\ n.id = page.causes[i].id /\ page.causes[i].shows # "region"
  BY <1>1, <1>6 DEF item
<1>11. /\ \A k \in DOMAIN cs : \E d \in Range(CauseList(cs)) :
            d.id = cs[k].id /\ d.of = cs[k].cause /\ d.why = cs[k].why
       /\ \A d \in Range(CauseList(cs)) : \E k \in DOMAIN cs :
            d.id = cs[k].id /\ d.of = cs[k].cause /\ d.why = cs[k].why
  <2>1. \A c : toBoundCauseBasic(c).id = c.id /\ toBoundCauseBasic(c).of = c.cause
              /\ toBoundCauseBasic(c).why = c.why
    BY DEF toBoundCauseBasic
  <2>2. /\ \A k \in DOMAIN cs : toBoundCauseBasic(cs[k]) \in Range(CauseList(cs))
        /\ \A d \in Range(CauseList(cs)) : \E k \in DOMAIN cs : d = toBoundCauseBasic(cs[k])
    BY CausesListed
  <2> QED
    BY <2>1, <2>2
<1>12. ASSUME current
       PROVE  LET new == reviews'[page.review].causes IN
              /\ \A e \in EntriesOf(new) :
                   e.why = NoWhy \/ e.id \in Offered(n) \/ (e.id # n.id /\ e \in EntriesOf(CausesThere))
              /\ n.shows \in {"entry", "form"} /\ n.id # Nil =>
                   /\ [id |-> n.id, cause |-> n.of, why |-> n.why] \in EntriesOf(new)
                   /\ ProximalOf(new) = n.id => n.marked
  <2>1. reviews'[page.review].causes = cs /\ CausesThere = cs
    BY <1>8 DEF cs
  <2>2. ASSUME NEW e \in EntriesOf(cs), e.id = n.id PROVE e.id \in Offered(n)
    <3>1. PICK k \in DOMAIN cs : e = EntryOf(cs[k])
      BY EntriesMember
    <3>2. \E d \in Range(CauseList(cs)) : d.id = n.id
      BY <1>11, <2>2, <3>1 DEF EntryOf
    <3> QED
      BY <1>6, <2>2, <3>2 DEF Offered
  <2>3. ASSUME n.shows \in {"entry", "form"}, n.id # Nil
        PROVE  /\ [id |-> n.id, cause |-> n.of, why |-> n.why] \in EntriesOf(cs)
               /\ ProximalOf(cs) = n.id => n.marked
    <3>1. PICK d \in Range(CauseList(cs)) : d.id = n.id /\ d.of = n.of /\ d.why = n.why
      BY <1>6, <2>3
    <3>2. PICK k \in DOMAIN cs : n.id = cs[k].id /\ n.of = cs[k].cause /\ n.why = cs[k].why
      BY <1>11, <3>1
    <3>3. EntryOf(cs[k]) \in EntriesOf(cs)
      BY <2>3, <3>2, EntriesMember
    <3>4. Agrees(page.causes, EntriesOf(cs), ProximalOf(cs))
      BY <1>1, <1>12, <2>1 DEF PageGood
    <3>5. ProximalOf(cs) = n.id => n.marked
      BY <1>1, <1>6, <2>3, <3>4 DEF Agrees, item
    <3> QED
      BY <3>2, <3>3, <3>5 DEF EntryOf
  <2> QED
    BY <2>1, <2>2, <2>3
<1>13. PageGood'
  BY <1>1, <1>6, <1>7, <1>8, <1>9, <1>10, <1>12, CauseItemGood
<1> QED
  BY <1>1, <1>13

LEMMA EditTriggerGood ==
  ASSUME IInv, PageGood, NEW i \in DOMAIN page.triggers, EditBoundTrigger(i)
  PROVE  IInv' /\ PageGood'
<1> DEFINE ts == TriggersThere
           item == page.triggers[i]
           n == Opened(item, TriggerList(ts))
<1>1. /\ IInv' /\ UNCHANGED <<reviews, current>> /\ "triggers" \in page.regions /\ item.shows = "entry"
  BY NothingStoredInv DEF EditBoundTrigger, vars, IInv, TypeOK
<1>2. page.review \in DOMAIN reviews /\ page.triggers \in Seq(Item) /\ ItemsAreApart(page.triggers)
  BY <1>1, PageFacts DEF PageGood
<1>3. item \in Item /\ (item.id = Nil => item.why = NoWhy)
  BY <1>2, ItemFacts
<1>4. TriggersInv(ts, triggers, lastID)
  BY <1>2, StoredFacts DEF TriggersThere
<1>5. TriggerList(ts) \in Seq(Item) /\ ItemsAreApart(TriggerList(ts))
  BY <1>4, TriggerListTyped, FreshTriggers DEF TriggersInv
<1> HIDE DEF ts, item
<1>6. /\ n \in Item /\ n.id = item.id /\ n.shows \in {"form", "nothing"}
      /\ n.id = Nil => n.why = NoWhy
      /\ n.shows = "form" =>
           \E e \in Range(TriggerList(ts)) : e.id = n.id /\ e.of = n.of /\ e.why = n.why
      /\ n.shows = "nothing" => \A e \in Range(TriggerList(ts)) : e.id # n.id
  BY <1>3, <1>5, OpenedItem
<1>7. page' = [page EXCEPT !.triggers[i] = n]
  BY DEF EditBoundTrigger, TriggerItems, TriggerList, TriggersThere, ts, item
<1> HIDE DEF n
<1>8. /\ DOMAIN reviews' = DOMAIN reviews /\ reviews'[page.review].causes = CausesThere
      /\ reviews'[page.review].triggers = TriggersThere
  BY <1>1 DEF TriggersThere, CausesThere
<1>9. /\ n.shows # "entry" /\ n.id = page.triggers[i].id /\ page.triggers[i].shows # "region"
  BY <1>1, <1>6 DEF item
<1>10. /\ \A t \in Range(TriggersThere) : t.id # n.id => t \in Range(reviews'[page.review].triggers)
       /\ \A t \in Range(TriggersThere) : \E u \in Range(reviews'[page.review].triggers) : u.id = t.id
  BY <1>8
<1>11. /\ \A t \in Range(ts) : \E d \in Range(TriggerList(ts)) :
            d.id = t.id /\ d.of = t.trigger /\ d.why = t.why
       /\ \A d \in Range(TriggerList(ts)) : \E t \in Range(ts) :
            d.id = t.id /\ d.of = t.trigger /\ d.why = t.why
  <2>1. \A t : toBoundTriggerBasic(t).id = t.id /\ toBoundTriggerBasic(t).of = t.trigger
              /\ toBoundTriggerBasic(t).why = t.why
    BY DEF toBoundTriggerBasic
  <2>2. \A t : t \in Range(ts) <=> \E k \in DOMAIN ts : t = ts[k]
    BY DEF Range
  <2>3. /\ \A k \in DOMAIN ts : toBoundTriggerBasic(ts[k]) \in Range(TriggerList(ts))
        /\ \A d \in Range(TriggerList(ts)) : \E k \in DOMAIN ts : d = toBoundTriggerBasic(ts[k])
    BY TriggersListed
  <2> QED
    BY <2>1, <2>2, <2>3
<1>12. /\ \A u \in Range(reviews'[page.review].triggers) :
            u.id \in Offered(n) \/ (u.id # n.id /\ u \in Range(TriggersThere))
       /\ n.shows \in {"entry", "form"} =>
            [id |-> n.id, cause |-> n.of, why |-> n.why] \in HooksOf(reviews'[page.review].triggers)
  <2>1. reviews'[page.review].triggers = ts /\ TriggersThere = ts
    BY <1>8 DEF ts
  <2>2. ASSUME NEW u \in Range(ts), u.id = n.id PROVE u.id \in Offered(n)
    BY <1>6, <1>11, <2>2 DEF Offered
  <2>3. ASSUME n.shows = "form" PROVE [id |-> n.id, cause |-> n.of, why |-> n.why] \in HooksOf(ts)
    <3>1. PICK t \in Range(ts) : n.id = t.id /\ n.of = t.trigger /\ n.why = t.why
      BY <1>6, <1>11, <2>3
    <3>2. HookOf(t) \in HooksOf(ts)
      BY HooksMember
    <3> QED
      BY <3>1, <3>2 DEF HookOf
  <2> QED
    BY <1>6, <2>1, <2>2, <2>3
<1>13. PageGood'
  BY <1>1, <1>6, <1>7, <1>8, <1>9, <1>10, <1>12, TriggerItemGood
<1> QED
  BY <1>1, <1>13

LEMMA SaveCauseGood ==
  ASSUME IInv, PageGood, NEW i \in DOMAIN page.causes, NEW why \in Given, NEW proximal \in BOOLEAN,
         SaveCauseItem(i, why, proximal)
  PROVE  IInv' /\ PageGood'
<1> DEFINE item == page.causes[i]
           O(cause) == [id |-> item.id, cause |-> cause, why |-> why, proximal |-> proximal]
<1>1. PICK cause \in causes :
        /\ UpdateBoundContributingCause(page.review, O(cause))
        /\ page' = [page EXCEPT !.causes[i] = CauseItemAnswer(@, O(cause), outcome' # "ok")]
  BY DEF SaveCauseItem
<1>2. /\ "causes" \in page.regions /\ item.shows = "form" /\ item.why # NoWhy /\ UNCHANGED current
  BY DEF SaveCauseItem, FormFor
<1>3. page.review \in DOMAIN reviews /\ page.causes \in Seq(Item) /\ ItemsAreApart(page.causes)
  BY <1>2, PageFacts DEF PageGood
<1>4. item \in Item /\ item.id \in IDs /\ item.id # Nil
  BY <1>2, <1>3, ItemFacts
<1>5. cause \in IDs /\ why \in Whys
  BY DEF IInv, TypeOK, IDs, Given
<1> DEFINE o == O(cause)
           n == CauseItemAnswer(item, o, outcome' # "ok")
<1>6. /\ o \in BoundCause /\ o.id = item.id /\ o.cause = cause /\ o.why = why
      /\ o.proximal = proximal
  BY <1>4, <1>5 DEF BoundCause
<1>7. UpdateBoundContributingCause(page.review, o) /\ page' = [page EXCEPT !.causes[i] = n]
  BY <1>1
<1> HIDE DEF o
<1>8. IInv'
  <2>1. o \in [id : IDs, cause : IDs, why : Whys, proximal : BOOLEAN]
    BY <1>6 DEF BoundCause
  <2> QED
    BY <1>7, <2>1, UpdateBoundContributingCauseInv
<1>9. LET new == reviews'[page.review].causes IN
      /\ DOMAIN reviews' = DOMAIN reviews /\ reviews'[page.review].triggers = TriggersThere
      /\ Spares(CausesThere, new, o.id)
      /\ \A e \in EntriesOf(new) : e.id = o.id \/ e \in EntriesOf(CausesThere)
      /\ outcome' = "ok" =>
           EntryOf(o) \in EntriesOf(new) /\ (ProximalOf(new) = o.id => o.proximal)
      /\ outcome' # "ok" => \A e \in EntriesOf(new) : e.id # o.id
  BY <1>3, <1>4, <1>6, <1>7, <1>8, RebindEffect DEF CausesThere, TriggersThere
<1>10. /\ n \in Item /\ n.id = item.id
       /\ n.shows = IF outcome' = "ok" THEN "entry" ELSE "nothing"
       /\ n.shows = "entry" =>
            outcome' = "ok" /\ n.of = o.cause /\ n.why = o.why /\ (o.proximal => n.marked)
  <2>1. CASE outcome' # "ok"
    <3>1. n = [item EXCEPT !.shows = "nothing"]
      BY <2>1 DEF CauseItemAnswer
    <3>2. n \in Item /\ n.id = item.id /\ n.shows = "nothing"
      BY <1>4, <3>1 DEF Item
    <3> HIDE DEF n
    <3> QED
      BY <2>1, <3>2
  <2>2. CASE outcome' = "ok"
    <3>1. n = [shows |-> "entry", id |-> o.id, of |-> o.cause, why |-> o.why,
               marked |-> (o.proximal \/ item.marked), lists |-> {}]
      BY <2>2 DEF CauseItemAnswer, toBoundCauseBasic
    <3>2. item.marked \in BOOLEAN
      BY <1>4 DEF Item
    <3> QED
      BY <1>4, <1>5, <1>6, <2>2, <3>1, <3>2 DEF Item
  <2> QED
    BY <2>1, <2>2
<1> HIDE DEF n
<1>11. LET new == reviews'[page.review].causes IN
       /\ \A e \in EntriesOf(new) :
            e.why = NoWhy \/ e.id \in Offered(n) \/ (e.id # n.id /\ e \in EntriesOf(CausesThere))
       /\ n.shows \in {"entry", "form"} /\ n.id # Nil =>
            /\ [id |-> n.id, cause |-> n.of, why |-> n.why] \in EntriesOf(new)
            /\ ProximalOf(new) = n.id => n.marked
  <2>1. CASE outcome' = "ok"
    <3>1. Offered(n) = {n.id}
      BY <1>10, <2>1 DEF Offered
    <3> QED
      BY <1>6, <1>9, <1>10, <2>1, <3>1 DEF EntryOf
  <2>2. CASE outcome' # "ok"
    BY <1>6, <1>9, <1>10, <2>2
  <2> QED
    BY <2>1, <2>2
<1>12. /\ n.id = page.causes[i].id /\ page.causes[i].shows # "region"
       /\ n.id = Nil => n.why = NoWhy
       /\ o.id = n.id
  BY <1>2, <1>4, <1>6, <1>10
<1> HIDE DEF item
<1>13. /\ DOMAIN reviews' = DOMAIN reviews /\ reviews'[page.review].triggers = TriggersThere
       /\ Spares(CausesThere, reviews'[page.review].causes, o.id)
  BY <1>9
<1>14. PageGood'
  BY <1>2, <1>7, <1>8, <1>10, <1>11, <1>12, <1>13, CauseItemGood
<1> QED
  BY <1>8, <1>14

LEMMA BindCauseFromItemGood ==
  ASSUME IInv, PageGood, NEW i \in DOMAIN page.causes, NEW why \in Given, NEW proximal \in BOOLEAN,
         BindCauseFromItem(i, why, proximal)
  PROVE  IInv' /\ PageGood'
<1> DEFINE item == page.causes[i]
           list == CauseItems(reviews'[page.review])
           n == IF outcome' = "refused" THEN [item EXCEPT !.shows = "nothing"]
                ELSE WithRegion(item, list)
<1>1. PICK cause \in causes : BindContributingCause(page.review, cause, why, proximal)
  BY DEF BindCauseFromItem
<1>2. /\ "causes" \in page.regions /\ item.shows = "form" /\ item.why = NoWhy /\ UNCHANGED current
      /\ page' = [page EXCEPT !.causes[i] = n] /\ why \in Whys
  BY DEF BindCauseFromItem, FormFor, Given
<1>3. page.review \in DOMAIN reviews /\ page.causes \in Seq(Item) /\ ItemsAreApart(page.causes)
  BY <1>2, PageFacts DEF PageGood
<1>4. item \in Item
  BY <1>3, ItemFacts
<1>5. IInv'
  BY <1>1, <1>2, BindContributingCauseInv
<1>6. /\ DOMAIN reviews' = DOMAIN reviews /\ reviews'[page.review].triggers = TriggersThere
      /\ Spares(CausesThere, reviews'[page.review].causes, Nil)
      /\ outcome' = "refused" => EntriesOf(reviews'[page.review].causes) = EntriesOf(CausesThere)
  BY <1>1, <1>2, <1>3, <1>5, BindEffect DEF CausesThere, TriggersThere
<1> DEFINE new == reviews'[page.review].causes
<1>7. /\ CausesInv(new, causes', lastID') /\ list = CauseList(new) /\ list \in Seq(Item)
      /\ CausesInv(CausesThere, causes, lastID)
  <2>1. CausesInv(new, causes', lastID') /\ new \in Seq(BoundCause)
    BY <1>3, <1>5, <1>6 DEF IInv, Stored, CausesInv
  <2>2. CausesInv(CausesThere, causes, lastID)
    BY <1>3, StoredFacts DEF CausesThere
  <2> QED
    BY <2>1, <2>2, CauseListTyped DEF CauseItems, CauseList
<1>8. \A e \in EntriesOf(new) : e.id \in {d.id : d \in Range(list)}
  <2>1. ASSUME NEW e \in EntriesOf(new) PROVE \E d \in Range(list) : d.id = e.id
    <3>1. PICK k \in DOMAIN new : e = EntryOf(new[k])
      BY EntriesMember
    <3>2. k \in DOMAIN list /\ list[k] = toBoundCauseBasic(new[k])
      BY <1>7 DEF CauseList
    <3> QED
      BY <3>1, <3>2 DEF EntryOf, toBoundCauseBasic, Range
  <2> QED
    BY <2>1
<1> HIDE DEF list
<1>9. /\ n \in Item /\ n.id = item.id /\ n.why = NoWhy
      /\ \/ n.shows = "region" /\ outcome' # "refused" /\ n.lists = {d.id : d \in Range(list)}
         \/ n.shows = "nothing" /\ outcome' = "refused"
  <2>1. CASE outcome' = "refused"
    <3>1. n = [item EXCEPT !.shows = "nothing"]
      BY <2>1
    <3>2. n \in Item /\ n.id = item.id /\ n.why = item.why /\ n.shows = "nothing"
      BY <1>4, <3>1 DEF Item
    <3> HIDE DEF n
    <3> QED
      BY <1>2, <2>1, <3>2
  <2>2. CASE outcome' # "refused"
    <3>1. {d.id : d \in Range(list)} \subseteq IDs
      BY <1>7, ListedIDs
    <3>2. n = WithRegion(item, list)
      BY <2>2
    <3>3. /\ n \in Item /\ n.id = item.id /\ n.why = item.why /\ n.shows = "region"
          /\ n.lists = {d.id : d \in Range(list)}
      BY <1>4, <3>1, <3>2 DEF Item, WithRegion
    <3> HIDE DEF n
    <3> QED
      BY <1>2, <2>2, <3>3
  <2> QED
    BY <2>1, <2>2
<1> HIDE DEF n
<1>10. n.id = page.causes[i].id /\ page.causes[i].shows # "region" /\ n.shows \notin {"entry", "form"}
  BY <1>2, <1>9
<1>11. ASSUME current, NEW e \in EntriesOf(new)
       PROVE  e.why = NoWhy \/ e.id \in Offered(n) \/ (e.id # n.id /\ e \in EntriesOf(CausesThere))
  <2>1. CASE outcome' # "refused"
    BY <1>8, <1>9, <2>1 DEF Offered
  <2>2. CASE outcome' = "refused" /\ e.id = n.id
    <3>1. e \in EntriesOf(CausesThere) /\ e.id # Nil
      BY <1>6, <1>7, <2>2, NamesOfEntries
    <3> DEFINE d == [id |-> item.id, cause |-> item.of, why |-> item.why]
    <3>2. d \in EntriesOf(CausesThere)
      BY <1>2, <1>9, <1>11, <2>2, <3>1 DEF PageGood, Agrees
    <3>3. d.id = e.id /\ d.why = NoWhy
      BY <1>2, <1>9, <2>2
    <3> HIDE DEF d
    <3> QED
      BY <1>7, <3>1, <3>2, <3>3, EntriesApart
  <2>3. CASE outcome' = "refused" /\ e.id # n.id
    BY <1>6, <2>3
  <2> QED
    BY <2>1, <2>2, <2>3
<1> HIDE DEF item
<1>12. PageGood'
  BY <1>2, <1>5, <1>6, <1>9, <1>10, <1>11, CauseItemGood
<1> QED
  BY <1>5, <1>12

LEMMA SaveTriggerGood ==
  ASSUME IInv, PageGood, NEW i \in DOMAIN page.triggers, NEW why \in Given, SaveTriggerItem(i, why)
  PROVE  IInv' /\ PageGood'
<1> DEFINE item == page.triggers[i]
           O(trigger) == [id |-> item.id, trigger |-> trigger, why |-> why]
<1>1. PICK trigger \in triggers :
        /\ UpdateBoundTrigger(page.review, O(trigger))
        /\ page' = [page EXCEPT !.triggers[i] = toBoundTriggerBasic(O(trigger))]
  BY DEF SaveTriggerItem
<1>2. /\ "triggers" \in page.regions /\ item.shows = "form" /\ item.why # NoWhy /\ UNCHANGED current
  BY DEF SaveTriggerItem, FormFor
<1>3. page.review \in DOMAIN reviews /\ page.triggers \in Seq(Item) /\ ItemsAreApart(page.triggers)
  BY <1>2, PageFacts DEF PageGood
<1>4. item \in Item /\ item.id \in IDs /\ item.id # Nil
  BY <1>2, <1>3, ItemFacts
<1>5. trigger \in IDs /\ why \in Whys
  BY DEF IInv, TypeOK, IDs, Given
<1> DEFINE o == O(trigger)
           n == toBoundTriggerBasic(o)
<1>6. o \in BoundTrigger /\ o.id = item.id /\ o.trigger = trigger /\ o.why = why
  BY <1>4, <1>5 DEF BoundTrigger
<1>7. UpdateBoundTrigger(page.review, o) /\ page' = [page EXCEPT !.triggers[i] = n]
  BY <1>1
<1>8. Holds(TriggersThere, o.id)
  <2>1. PICK t \in Range(TriggersThere) : item.id = t.id
    BY <1>2 DEF PageGood, Range
  <2> QED
    BY <1>6, <2>1 DEF Holds, Range
<1> HIDE DEF o
<1>9. IInv'
  <2>1. o \in [id : IDs, trigger : IDs, why : Whys]
    BY <1>6 DEF BoundTrigger
  <2> QED
    BY <1>7, <2>1, UpdateBoundTriggerInv
<1>10. /\ DOMAIN reviews' = DOMAIN reviews /\ reviews'[page.review].causes = CausesThere
       /\ Range(reviews'[page.review].triggers) = {t \in Range(TriggersThere) : t.id # o.id} \cup {o}
  BY <1>3, <1>6, <1>7, <1>8, RebindTriggerEffect DEF CausesThere, TriggersThere
<1>11. n \in Item /\ n.id = o.id /\ n.of = o.trigger /\ n.why = o.why /\ n.shows = "entry"
  BY <1>4, <1>5, <1>6 DEF toBoundTriggerBasic, Item
<1> HIDE DEF n
<1>12. [id |-> n.id, cause |-> n.of, why |-> n.why] \in HooksOf(reviews'[page.review].triggers)
  <2>1. HookOf(o) \in HooksOf(reviews'[page.review].triggers)
    BY <1>10, HooksMember
  <2> QED
    BY <1>11, <2>1 DEF HookOf
<1>13. /\ n.id = page.triggers[i].id /\ page.triggers[i].shows # "region"
       /\ n.id = Nil => n.why = NoWhy
  BY <1>2, <1>4, <1>6, <1>11
<1> HIDE DEF item
<1>14. /\ \A t \in Range(TriggersThere) : t.id # n.id => t \in Range(reviews'[page.review].triggers)
       /\ \A t \in Range(TriggersThere) : \E u \in Range(reviews'[page.review].triggers) : u.id = t.id
       /\ \A u \in Range(reviews'[page.review].triggers) :
            u.id \in Offered(n) \/ (u.id # n.id /\ u \in Range(TriggersThere))
  <2>1. Offered(n) = {n.id}
    BY <1>11 DEF Offered
  <2> QED
    BY <1>10, <1>11, <2>1
<1>15. PageGood'
  BY <1>2, <1>7, <1>9, <1>10, <1>11, <1>12, <1>13, <1>14, TriggerItemGood
<1> QED
  BY <1>9, <1>15

LEMMA BindTriggerFromItemGood ==
  ASSUME IInv, PageGood, NEW i \in DOMAIN page.triggers, NEW why \in Given,
         BindTriggerFromItem(i, why)
  PROVE  IInv' /\ PageGood'
<1> DEFINE item == page.triggers[i]
           list == TriggerItems(reviews'[page.review])
           new == reviews'[page.review].triggers
           n == WithRegion(item, list)
<1>1. PICK trigger \in triggers : BindTrigger(page.review, trigger, why)
  BY DEF BindTriggerFromItem
<1>2. /\ "triggers" \in page.regions /\ item.shows = "form" /\ item.why = NoWhy /\ UNCHANGED current
      /\ page' = [page EXCEPT !.triggers[i] = n] /\ why \in Whys
  BY DEF BindTriggerFromItem, FormFor, Given
<1>3. page.review \in DOMAIN reviews /\ page.triggers \in Seq(Item) /\ ItemsAreApart(page.triggers)
  BY <1>2, PageFacts DEF PageGood
<1>4. item \in Item
  BY <1>3, ItemFacts
<1>5. IInv'
  BY <1>1, <1>2, BindTriggerInv
<1>6. /\ DOMAIN reviews' = DOMAIN reviews /\ reviews'[page.review].causes = CausesThere
      /\ Range(TriggersThere) \subseteq Range(reviews'[page.review].triggers)
  BY <1>1, <1>2, <1>3, BindTriggerEffect DEF CausesThere, TriggersThere
<1>7. /\ list \in Seq(Item)
      /\ \A t \in Range(new) : \E d \in Range(list) : d.id = t.id
  <2>1. new \in Seq(BoundTrigger)
    BY <1>3, <1>5, <1>6 DEF IInv, Stored, TriggersInv
  <2>2. list = TriggerList(new)
    BY DEF TriggerItems, TriggerList
  <2>3. list \in Seq(Item)
    BY <2>1, <2>2, TriggerListTyped
  <2>4. \A t \in Range(new) : \E d \in Range(list) : d.id = t.id
    <3>1. \A t : toBoundTriggerBasic(t).id = t.id
      BY DEF toBoundTriggerBasic
    <3>2. \A t : t \in Range(new) <=> \E k \in DOMAIN new : t = new[k]
      BY DEF Range
    <3> HIDE DEF list, new
    <3> QED
      BY <2>2, <3>1, <3>2, TriggersListed, ZenonT(40)
  <2> QED
    BY <2>3, <2>4
<1> HIDE DEF list
<1>8. /\ n \in Item /\ n.id = item.id /\ n.why = NoWhy /\ n.shows = "region"
      /\ Offered(n) = {d.id : d \in Range(list)}
  <2>1. {d.id : d \in Range(list)} \subseteq IDs
    BY <1>7, ListedIDs
  <2> QED
    BY <1>2, <1>4, <2>1 DEF Item, WithRegion, Offered
<1> HIDE DEF n
<1>9. n.id = page.triggers[i].id /\ page.triggers[i].shows # "region" /\ n.shows \notin {"entry", "form"}
  BY <1>2, <1>8
<1> HIDE DEF item
<1>10. /\ \A t \in Range(TriggersThere) : t.id # n.id => t \in Range(reviews'[page.review].triggers)
       /\ \A t \in Range(TriggersThere) : \E u \in Range(reviews'[page.review].triggers) : u.id = t.id
       /\ \A u \in Range(new) : u.id \in Offered(n)
  BY <1>6, <1>7, <1>8
<1>11. PageGood'
  BY <1>2, <1>5, <1>6, <1>8, <1>9, <1>10, TriggerItemGood
<1> QED
  BY <1>5, <1>11

(* What anybody asks of the service: no review goes away, and no trigger of one.            *)
LEMMA TriggersStay ==
  ASSUME IInv, IInv', [Next]_vars, NEW id \in DOMAIN reviews
  PROVE  id \in DOMAIN reviews' /\ BoundTriggerIDs(reviews[id]) \subseteq BoundTriggerIDs(reviews'[id])
<1>1. CASE UNCHANGED reviews
  BY <1>1
<1>2. CASE SavesOne
  BY <1>2, SavedReview DEF Keeps
<1>3. CASE RefusesOne
  BY <1>3, RefusedReview DEF BoundTriggerIDs
<1> QED
  BY <1>1, <1>2, <1>3, NextShape DEF Shape

LEMMA ElsewhereGood ==
  ASSUME IInv, PageGood, Elsewhere
  PROVE  IInv' /\ PageGood'
<1> DEFINE same == page.review \in DOMAIN reviews =>
             /\ reviews'[page.review].causes = CausesThere
             /\ reviews'[page.review].triggers = TriggersThere
<1>1. IInv'
  BY NextInv DEF Elsewhere
<1>2. current' \in BOOLEAN /\ (current' => current /\ same) /\ page' = page
  BY DEF Elsewhere, CausesThere, TriggersThere
<1>3. page \in Page /\ (page.regions # {} => page.review \in DOMAIN reviews)
  BY PageFacts
<1>4. page.review \in DOMAIN reviews =>
        /\ page.review \in DOMAIN reviews'
        /\ BoundTriggerIDs(reviews[page.review]) \subseteq BoundTriggerIDs(reviews'[page.review])
  BY <1>1, TriggersStay DEF Elsewhere
<1>5. PageTypeOK'
  BY <1>2, <1>3, <1>4 DEF PageGood, PageTypeOK
<1>6. CausesThere' = reviews'[page.review].causes /\ TriggersThere' = reviews'[page.review].triggers
  BY <1>2 DEF CausesThere, TriggersThere
<1>7. ASSUME "triggers" \in page.regions, NEW it \in Range(page.triggers)
      PROVE  \E t \in Range(TriggersThere') : it.id = t.id
  <2>1. it.id \in BoundTriggerIDs(reviews[page.review])
    BY <1>7 DEF PageGood, BoundTriggerIDs, TriggersThere
  <2>2. it.id \in BoundTriggerIDs(reviews'[page.review])
    BY <1>3, <1>4, <1>7, <2>1
  <2> QED
    BY <1>6, <2>2 DEF BoundTriggerIDs
<1>8. current' /\ page.regions # {} => CausesThere' = CausesThere /\ TriggersThere' = TriggersThere
  BY <1>2, <1>3, <1>6
<1>9. /\ current' /\ "causes" \in page.regions =>
           Agrees(page.causes, EntriesOf(CausesThere'), ProximalOf(CausesThere'))
      /\ current' /\ "triggers" \in page.regions =>
           Agrees(page.triggers, HooksOf(TriggersThere'), Nil)
  BY <1>2, <1>8 DEF PageGood
<1>10. /\ page.review = Nil => page.regions = {}
       /\ ItemsAreApart(page.causes) /\ ItemsAreApart(page.triggers)
  BY DEF PageGood
<1>11. PageGood'
  BY <1>2, <1>5, <1>7, <1>9, <1>10 DEF PageGood
<1> QED
  BY <1>1, <1>11

LEMMA SameGood ==
  ASSUME IInv, PageGood, UNCHANGED allVars
  PROVE  IInv' /\ PageGood'
<1>1. IInv'
  BY NothingStoredInv DEF allVars, IInv, TypeOK
<1>2. PageGood'
  BY DEF allVars, PageGood, PageTypeOK, CausesThere, TriggersThere
<1> QED
  BY <1>1, <1>2

LEMMA PageStart == PageInit => PageInv
<1> SUFFICES ASSUME PageInit PROVE PageInv
  OBVIOUS
<1>1. IInv /\ page = NoPage /\ current = FALSE
  BY InitInv DEF PageInit
<1>2. /\ page.review = Nil /\ page.regions = {} /\ page.causes = <<>> /\ page.triggers = <<>>
      /\ page \in Page
  BY <1>1 DEF NoPage, Page, IDs, Nil
<1>3. PageTypeOK /\ ~ current
  BY <1>1, <1>2 DEF PageTypeOK
<1>4. ItemsAreApart(page.causes) /\ ItemsAreApart(page.triggers)
  BY <1>2 DEF ItemsAreApart
<1>5. PageGood
  BY <1>2, <1>3, <1>4 DEF PageGood
<1> QED
  BY <1>1, <1>5, GoodIsInv

LEMMA PageStep == IInv /\ PageGood /\ [PageNext]_allVars => IInv' /\ PageGood'
<1> SUFFICES ASSUME IInv, PageGood, [PageNext]_allVars PROVE IInv' /\ PageGood'
  OBVIOUS
<1>1. ASSUME NEW id \in ReviewIDs, Show(id) PROVE IInv' /\ PageGood'
  BY <1>1, ShowGood
<1>2. ASSUME NEW why \in Given, NEW proximal \in BOOLEAN, NEW htmx \in BOOLEAN,
             BindCauseFromForm(why, proximal, htmx)
      PROVE  IInv' /\ PageGood'
  BY <1>2, BindCauseFromFormGood
<1>3. ASSUME NEW i \in DOMAIN page.causes, EditBoundContributingCause(i) PROVE IInv' /\ PageGood'
  BY <1>3, EditCauseGood
<1>4. ASSUME NEW i \in DOMAIN page.causes, NEW why \in Given, NEW proximal \in BOOLEAN,
             SaveCauseItem(i, why, proximal)
      PROVE  IInv' /\ PageGood'
  BY <1>4, SaveCauseGood
<1>5. ASSUME NEW i \in DOMAIN page.causes, NEW why \in Given, NEW proximal \in BOOLEAN,
             BindCauseFromItem(i, why, proximal)
      PROVE  IInv' /\ PageGood'
  BY <1>5, BindCauseFromItemGood
<1>6. ASSUME NEW why \in Given, NEW htmx \in BOOLEAN, BindTriggerFromForm(why, htmx)
      PROVE  IInv' /\ PageGood'
  BY <1>6, BindTriggerFromFormGood
<1>7. ASSUME NEW i \in DOMAIN page.triggers, EditBoundTrigger(i) PROVE IInv' /\ PageGood'
  BY <1>7, EditTriggerGood
<1>8. ASSUME NEW i \in DOMAIN page.triggers, NEW why \in Given, SaveTriggerItem(i, why)
      PROVE  IInv' /\ PageGood'
  BY <1>8, SaveTriggerGood
<1>9. ASSUME NEW i \in DOMAIN page.triggers, NEW why \in Given, BindTriggerFromItem(i, why)
      PROVE  IInv' /\ PageGood'
  BY <1>9, BindTriggerFromItemGood
<1>10. CASE Elsewhere
  BY <1>10, ElsewhereGood
<1>11. CASE UNCHANGED allVars
  BY <1>11, SameGood
<1> QED
  BY <1>1, <1>2, <1>3, <1>4, <1>5, <1>6, <1>7, <1>8, <1>9, <1>10, <1>11 DEF PageNext

-------------------------------------------------------------------------------------
(* The invariant behind the answers of the handlers: every item is that of an entry of its   *)
(* own or of a blank, and the lists agree with the store.                                   *)
THEOREM PageInvariance == PageSpec => []PageInv
<1>1. PageInv => IInv
  BY DEF PageInv
<1>2. PageInit => IInv /\ PageGood
  BY <1>1, PageStart, GoodIsInv
<1>3. PageSpec => [](IInv /\ PageGood)
  BY <1>2, PageStep, PTL DEF PageSpec
<1>4. IInv /\ PageGood => PageInv
  BY GoodIsInv
<1> QED
  BY <1>3, <1>4, PTL

(* In a tab that nobody has overtaken every entry and every form has the text that is stored, *)
(* and each stored entry with a reason is offered by an item (the answers of the bind and edit *)
(* handlers) of a region that is there; that of the triggers always is.  An entry whose reason *)
(* is empty may be missing.                                                                   *)
THEOREM PageAgrees == PageSpec => []PageIsCurrent
<1>1. PageInv => PageIsCurrent
  BY DEF PageInv
<1> QED
  BY <1>1, PageInvariance, PTL

(* The proximal cause of the review bears the mark wherever such a tab shows it              *)
(* (toBoundCauseBasic, the <li> of an edit).                                                *)
THEOREM MarkIsShown == PageSpec => []ProximalIsMarked
<1>1. PageInv => ProximalIsMarked
  BY DEF PageInv
<1> QED
  BY <1>1, PageInvariance, PTL
====================================================================================
