------------------------------- MODULE CatalogProofs -------------------------------
(***********************************************************************************)
(* Proofs about Catalog, for any number of requests, rows and instants.  The        *)
(* invariant CatalogInv ties the order of the ids to the times in them, and what a    *)
(* request holds and shows to what is stored.                                        *)
(***********************************************************************************)
EXTENDS Catalog, FiniteSetTheorems, TLAPS

(* A listing of a finite set holds its members, all of them, in the order of their times. *)
LEMMA ListingsAreComplete ==
  ASSUME NEW S \in SUBSET Row, IsFiniteSet(S), NEW s \in Listings(S)
  PROVE  s \in Seq(Row) /\ Range(s) = S /\ Sorted(s)
<1> DEFINE n == Cardinality(S)
<1>1. n \in Nat
  BY FS_CardinalityType
<1>2. s \in [1..n -> S] /\ \A t \in S : \E i \in 1..n : s[i] = t
  BY DEF Listings, Bijection, Injection, Surjection
<1>3. s \in Seq(Row)
  BY <1>1, <1>2
<1>4. Range(s) = S
  BY <1>2 DEF Range
<1>5. Sorted(s)
  BY DEF Listings, Sorted
<1> QED BY <1>3, <1>4, <1>5

LEMMA SeedsTyped ==
  \A kind \in Kinds :
    [id |-> IF kind = "cause" THEN 1 ELSE 2,
     sorts |-> IF kind = "cause" THEN 1 ELSE SeedSorts, createdAt |-> 1] \in Row
BY CatalogAssumption DEF Row, SeedSorts

LEMMA CatalogInit == Init => CatalogInv
<1> SUFFICES ASSUME Init PROVE CatalogInv
  OBVIOUS
<1> USE CatalogAssumption
<1>1. NoRow \in Row /\ NoRequest \in [kind : Kinds, row : Row] /\ NoPage \in Page
  BY DEF NoRow, NoRequest, NoPage, Page, Row, Kinds
<1>2. TypeOK
  <2>1. rows \in [Kinds -> SUBSET Row]
    BY SeedsTyped DEF Init
  <2>2. \A kind \in Kinds : \A r, s \in rows[kind] : r.createdAt \in 1..clock /\ r = s
    BY DEF Init
  <2>3. pc \in [Goroutines -> {"idle", "save", "list"}] /\ own \in [Goroutines -> [kind : Kinds, row : Row]]
        /\ before \in [Goroutines -> SUBSET Row] /\ page \in [Goroutines -> Page]
    BY <1>1 DEF Init
  <2> QED BY <2>1, <2>2, <2>3 DEF Init, TypeOK
<1>3. \A kind \in Kinds : IsFiniteSet(rows[kind])
  BY FS_Singleton DEF Init
<1>4. MadeInOrder
  <2>1. Pending = {}
    BY DEF Init, Pending
  <2>2. Made = {[id |-> 1, sorts |-> 1, createdAt |-> 1], [id |-> 2, sorts |-> SeedSorts, createdAt |-> 1]}
    BY <2>1 DEF Init, Made, Kinds
  <2> QED BY <2>2 DEF Init, MadeInOrder, SeedSorts
<1>5. OwnIDs /\ Answerable
  BY DEF Init, OwnIDs, Answerable
<1>6. PagesShowRows
  BY DEF Init, PagesShowRows, NoPage, Sorted, Range
<1> QED BY <1>2, <1>3, <1>4, <1>5, <1>6 DEF CatalogInv

-------------------------------------------------------------------------------------
(* What happens to the rows, the pending ids and the pages when nothing of them moves.     *)
LEMMA StoredUnmoved ==
  ASSUME CatalogInv, UNCHANGED <<rows, page>>
  PROVE  PagesShowRows'
BY DEF CatalogInv, PagesShowRows, Sorted

LEMMA ProposeKeeps ==
  ASSUME CatalogInv, NEW p \in Goroutines, NEW kind \in Kinds, Propose(p, kind)
  PROVE  CatalogInv'
<1> DEFINE new == [id |-> lastID + 1, sorts |-> clock, createdAt |-> 0]
<1> USE CatalogAssumption DEF CatalogInv
<1>1. /\ new \in Row /\ new.id = lastID + 1 /\ new.sorts = clock
      /\ own' = [own EXCEPT ![p] = [kind |-> kind, row |-> new]]
      /\ pc' = [pc EXCEPT ![p] = "save"] /\ pc[p] = "idle"
      /\ before' = [before EXCEPT ![p] = rows[kind]]
      /\ lastID' = lastID + 1 /\ UNCHANGED <<rows, page, clock>>
  BY DEF Propose, Goto, TypeOK, Row
<1> HIDE DEF new
<1>2. TypeOK'
  BY <1>1 DEF TypeOK
<1>3. Pending' \subseteq Pending \cup {new}
  <2> SUFFICES ASSUME NEW q \in Goroutines, pc'[q] = "save" PROVE own'[q].row \in Pending \cup {new}
    BY DEF Pending
  <2>1. CASE q = p
    BY <1>1, <2>1 DEF TypeOK
  <2>2. CASE q # p
    BY <1>1, <2>2 DEF TypeOK, Pending
  <2> QED BY <2>1, <2>2
<1>4. MadeInOrder'
  <2>1. Made' \subseteq Made \cup {new}
    BY <1>1, <1>3 DEF Made
  <2>2. \A r \in Made : r.id \in Nat /\ r.sorts \in Nat
    BY DEF TypeOK, Made, Pending, Kinds, Row
  <2>3. clock \in Nat /\ lastID \in Nat /\ SeedSorts' = SeedSorts
    BY DEF TypeOK, SeedSorts
  <2>4. \A r \in Made' : r.id <= lastID' /\ (r.sorts <= clock' \/ r.sorts = SeedSorts)
    BY <1>1, <2>1, <2>2, <2>3 DEF MadeInOrder
  <2>5. ASSUME NEW r \in Made', NEW t \in Made', r.sorts < t.sorts, t.sorts # SeedSorts
        PROVE  r.id < t.id
    <3>1. t.sorts <= clock
      BY <1>1, <2>1, <2>2, <2>3, <2>5 DEF MadeInOrder
    <3>2. r \in Made
      BY <1>1, <2>1, <2>2, <2>3, <2>5, <3>1
    <3> QED BY <1>1, <2>1, <2>2, <2>3, <2>5, <3>2 DEF MadeInOrder
  <2> QED BY <2>3, <2>4, <2>5 DEF MadeInOrder
<1>5. OwnIDs'
  <2>1. \A r \in Made : r.id \in Nat /\ r.id <= lastID
    BY DEF MadeInOrder, TypeOK, Made, Pending, Kinds, Row
  <2>2. \A k \in Kinds : \A r \in rows[k] : r.id \in Nat /\ r.id <= lastID
    BY <2>1 DEF Made, Kinds
  <2>3. \A q \in Goroutines : pc[q] = "save" => own[q].row.id \in Nat /\ own[q].row.id <= lastID
    BY <2>1 DEF Made, Pending
  <2>4. own'[p].row.id = lastID + 1 /\ lastID \in Nat
    BY <1>1 DEF TypeOK
  <2>5. \A q \in Goroutines : q # p => own'[q] = own[q] /\ pc'[q] = pc[q]
    BY <1>1 DEF TypeOK
  <2>6. ASSUME NEW q \in Goroutines, pc'[q] = "save"
        PROVE  /\ \A k \in Kinds : \A r \in rows'[k] : r.id # own'[q].row.id
               /\ \A o \in Goroutines : pc'[o] = "save" /\ own'[o].row.id = own'[q].row.id => q = o
    <3>1. CASE q = p
      BY <1>1, <2>2, <2>3, <2>4, <2>5, <3>1
    <3>2. CASE q # p
      BY <1>1, <2>3, <2>4, <2>5, <2>6, <3>2 DEF OwnIDs
    <3> QED BY <3>1, <3>2
  <2> QED BY <2>6 DEF OwnIDs
<1>6. Answerable'
  BY <1>1 DEF Answerable, TypeOK
<1> QED BY <1>1, <1>2, <1>4, <1>5, <1>6, StoredUnmoved

LEMMA BrowseKeeps ==
  ASSUME CatalogInv, NEW p \in Goroutines, NEW kind \in Kinds, Browse(p, kind)
  PROVE  CatalogInv'
<1> USE DEF CatalogInv
<1>1. /\ own' = [own EXCEPT ![p] = [kind |-> kind, row |-> NoRow]] /\ NoRow \in Row /\ NoRow.id = 0
      /\ pc' = [pc EXCEPT ![p] = "list"]
      /\ before' = [before EXCEPT ![p] = rows[kind]]
      /\ UNCHANGED <<rows, page, lastID, clock>>
  BY DEF Browse, Goto, NoRow, Row
<1>2. TypeOK'
  BY <1>1 DEF TypeOK
<1>3. \A q \in Goroutines : pc'[q] = "save" => pc[q] = "save" /\ own'[q] = own[q]
  BY <1>1 DEF TypeOK
<1>4. Made' \subseteq Made
  BY <1>1, <1>3 DEF Made, Pending
<1>5. MadeInOrder'
  BY <1>1, <1>4 DEF MadeInOrder, SeedSorts
<1>6. OwnIDs'
  BY <1>1, <1>3 DEF OwnIDs
<1>7. Answerable'
  BY <1>1 DEF Answerable, TypeOK
<1> QED BY <1>1, <1>2, <1>5, <1>6, <1>7, StoredUnmoved

(* The end of a request takes nothing away from what is stored or shown.                    *)
LEMMA ReturnKeeps ==
  ASSUME CatalogInv, NEW p \in Goroutines, Return(p), UNCHANGED <<rows, lastID, clock>>,
         page' \in [Goroutines -> Page], PagesShowRows'
  PROVE  CatalogInv'
<1> USE DEF CatalogInv
<1>1. NoRequest \in [kind : Kinds, row : Row]
  BY DEF NoRequest, NoRow, Kinds, Row
<1>2. TypeOK'
  BY <1>1 DEF TypeOK, Return
<1>3. \A q \in Goroutines : pc'[q] = "save" => pc[q] = "save" /\ own'[q] = own[q]
  BY DEF TypeOK, Return
<1>4. Made' \subseteq Made
  BY <1>3 DEF Made, Pending
<1>5. MadeInOrder'
  BY <1>4 DEF MadeInOrder, SeedSorts
<1>6. OwnIDs'
  BY <1>3 DEF OwnIDs
<1>7. Answerable'
  BY DEF Answerable, TypeOK, Return
<1> QED BY <1>2, <1>5, <1>6, <1>7

LEMMA SaveKeeps ==
  ASSUME CatalogInv, NEW p \in Goroutines, Save(p)
  PROVE  CatalogInv'
<1> USE DEF CatalogInv
<1> DEFINE kind == own[p].kind
           r == [own[p].row EXCEPT !.createdAt = clock]
<1>0. CASE Return(p) /\ UNCHANGED rows
  BY <1>0, ReturnKeeps, StoredUnmoved DEF Save, TypeOK
<1>1. CASE rows' = [rows EXCEPT ![kind] = @ \cup {r}] /\ Goto(p, "list") /\ UNCHANGED <<own, before>>
  <2>1. /\ own[p].row \in Row /\ kind \in Kinds /\ clock \in Nat
        /\ r \in Row /\ r.id = own[p].row.id /\ r.sorts = own[p].row.sorts /\ r.createdAt = clock
    BY CatalogAssumption DEF TypeOK, Row
  <2> HIDE DEF r, kind
  <2>2. /\ pc[p] = "save" /\ pc' = [pc EXCEPT ![p] = "list"]
        /\ UNCHANGED <<own, before, page, lastID, clock>>
    BY <1>1 DEF Save, Goto
  <2>3. \A k \in Kinds : rows'[k] \subseteq rows[k] \cup {r} /\ rows[k] \subseteq rows'[k]
    BY <1>1, <2>1 DEF TypeOK
  <2>4. r \in rows'[kind] /\ \A k \in Kinds : k # kind => rows'[k] = rows[k]
    BY <1>1, <2>1 DEF TypeOK
  <2>5. own[p].row \in Pending
    BY <2>2 DEF Pending
  <2>6. TypeOK'
    <3>1. rows' \in [Kinds -> SUBSET Row]
      BY <1>1, <2>1 DEF TypeOK
    <3>2. ASSUME NEW k \in Kinds
          PROVE  /\ \A t \in rows'[k] : t.createdAt \in 1..clock'
                 /\ \A t, u \in rows'[k] : t.id = u.id => t = u
      <4>1. \A t \in rows[k] : t.id # r.id
        BY <2>1, <2>2 DEF OwnIDs
      <4> QED BY <2>1, <2>2, <2>3, <4>1, CatalogAssumption DEF TypeOK
    <3> QED BY <2>2, <3>1, <3>2 DEF TypeOK
  <2>7. \A k \in Kinds : IsFiniteSet(rows'[k])
    <3>1. rows'[kind] = rows[kind] \cup {r}
      BY <1>1, <2>1 DEF TypeOK
    <3>2. IsFiniteSet(rows'[kind])
      BY <2>1, <3>1, FS_AddElement
    <3> QED BY <2>4, <3>2
  <2>8. \A t \in Made' : \E m \in Made : m.id = t.id /\ m.sorts = t.sorts
    <3>1. \A q \in Goroutines : pc'[q] = "save" => pc[q] = "save" /\ own'[q] = own[q]
      BY <2>2 DEF TypeOK
    <3>2. Pending' \subseteq Pending
      BY <3>1 DEF Pending
    <3>3. Made' \subseteq Made \cup {r}
      BY <2>3, <3>2 DEF Made, Kinds
    <3> QED BY <2>1, <2>5, <3>3 DEF Made
  <2>9. MadeInOrder'
    <3>1. \A t \in Made' : t.id <= lastID' /\ (t.sorts <= clock' \/ t.sorts = SeedSorts)
      BY <2>2, <2>8 DEF MadeInOrder
    <3>2. \A t, u \in Made' : t.sorts < u.sorts /\ u.sorts # SeedSorts => t.id < u.id
      <4> SUFFICES ASSUME NEW t \in Made', NEW u \in Made', t.sorts < u.sorts, u.sorts # SeedSorts
                   PROVE  t.id < u.id
        OBVIOUS
      <4>1. PICK m \in Made : m.id = t.id /\ m.sorts = t.sorts
        BY <2>8
      <4>2. PICK n \in Made : n.id = u.id /\ n.sorts = u.sorts
        BY <2>8
      <4> QED BY <4>1, <4>2 DEF MadeInOrder
    <3> QED BY <3>1, <3>2 DEF MadeInOrder, SeedSorts
  <2>10. OwnIDs'
    <3>1. \A q \in Goroutines : pc'[q] = "save" => q # p /\ pc[q] = "save" /\ own'[q] = own[q]
      BY <2>2 DEF TypeOK
    <3> QED BY <2>1, <2>2, <2>3, <3>1 DEF OwnIDs
  <2>11. Answerable'
    <3> SUFFICES ASSUME NEW q \in Goroutines
                 PROVE  /\ pc'[q] # "idle" => before'[q] \subseteq rows'[own'[q].kind]
                        /\ pc'[q] = "list" =>
                             own'[q].row.id \in {0} \cup {t.id : t \in rows'[own'[q].kind]}
      BY DEF Answerable
    <3>1. own[q].kind \in Kinds
      BY DEF TypeOK
    <3>2. CASE q = p
      BY <2>1, <2>2, <2>3, <2>4, <3>1, <3>2 DEF Answerable, kind
    <3>3. CASE q # p
      BY <2>2, <2>3, <3>1, <3>3 DEF Answerable, TypeOK
    <3> QED BY <3>2, <3>3
  <2>12. PagesShowRows'
    <3>1. \A q \in Goroutines : page[q].kind \in Kinds
      BY DEF TypeOK, Page
    <3>2. \A q \in Goroutines : Sorted(page'[q].listed)
      BY <2>2 DEF PagesShowRows, Sorted
    <3>3. \A q \in Goroutines : Range(page'[q].listed) \subseteq rows'[page'[q].kind]
      BY <2>2, <2>3, <3>1 DEF PagesShowRows
    <3> QED BY <3>2, <3>3 DEF PagesShowRows
  <2> QED BY <2>6, <2>7, <2>9, <2>10, <2>11, <2>12
<1> QED BY <1>0, <1>1 DEF Save

LEMMA ListKeeps ==
  ASSUME CatalogInv, NEW p \in Goroutines, List(p)
  PROVE  CatalogInv'
<1> USE DEF CatalogInv
<1> DEFINE kind == own[p].kind
<1>1. PICK listed \in Listings(rows[kind]) :
        page' = [page EXCEPT ![p] = [kind |-> kind, selected |-> own[p].row.id, listed |-> listed]]
  BY DEF List
<1>2. kind \in Kinds /\ own[p].row.id \in Nat
  BY DEF TypeOK, Row
<1>3. listed \in Seq(Row) /\ Range(listed) = rows[kind] /\ Sorted(listed)
  BY <1>2, ListingsAreComplete DEF TypeOK
<1>4. [kind |-> kind, selected |-> own[p].row.id, listed |-> listed] \in Page
  BY <1>2, <1>3 DEF Page
<1>5. page' \in [Goroutines -> Page]
  BY <1>1, <1>4 DEF TypeOK
<1>6. PagesShowRows'
  <2> SUFFICES ASSUME NEW q \in Goroutines
               PROVE  Sorted(page'[q].listed) /\ Range(page'[q].listed) \subseteq rows'[page'[q].kind]
    BY DEF PagesShowRows, Sorted
  <2>1. CASE q = p
    BY <1>1, <1>3, <2>1 DEF TypeOK, List
  <2>2. CASE q # p
    <3>1. page'[q] = page[q] /\ rows' = rows
      BY <1>1, <2>2 DEF TypeOK, List
    <3> QED BY <3>1 DEF PagesShowRows
  <2> QED BY <2>1, <2>2
<1> QED BY <1>5, <1>6, ReturnKeeps DEF List

LEMMA CatalogNext ==
  ASSUME CatalogInv, [Next]_vars
  PROVE  CatalogInv'
<1>1. CASE Tick
  <2> USE DEF CatalogInv
  <2>1. TypeOK'
    BY <1>1, CatalogAssumption DEF Tick, TypeOK
  <2>2. MadeInOrder'
    <3>1. \A r \in Made : r.sorts \in Nat
      BY DEF TypeOK, Made, Pending, Kinds, Row
    <3>2. Made' = Made
      BY <1>1 DEF Tick, Made, Pending
    <3> QED BY <1>1, <3>1, <3>2, CatalogAssumption DEF Tick, MadeInOrder, SeedSorts, TypeOK
  <2>3. OwnIDs' /\ Answerable'
    BY <1>1 DEF Tick, OwnIDs, Answerable
  <2> QED BY <1>1, <2>1, <2>2, <2>3, StoredUnmoved DEF Tick
<1>2. CASE UNCHANGED vars
  <2> USE DEF CatalogInv
  <2>1. UNCHANGED <<rows, pc, own, before, page, lastID, clock>>
    BY <1>2 DEF vars
  <2>2. TypeOK' /\ OwnIDs' /\ Answerable'
    BY <2>1 DEF TypeOK, OwnIDs, Answerable
  <2>3. MadeInOrder'
    <3>1. Made' = Made /\ SeedSorts' = SeedSorts
      BY <2>1 DEF Made, Pending, SeedSorts
    <3> QED BY <2>1, <3>1 DEF MadeInOrder
  <2> QED BY <2>1, <2>2, <2>3, StoredUnmoved
<1> QED BY <1>1, <1>2, ProposeKeeps, BrowseKeeps, SaveKeeps, ListKeeps DEF Next

-------------------------------------------------------------------------------------
(* The invariant of the catalogues, for any number of requests and rows.                    *)
THEOREM CatalogHolds == Spec => []CatalogInv
<1>1. CatalogInv /\ [Next]_vars => CatalogInv'
  BY CatalogNext
<1> QED BY CatalogInit, <1>1, PTL DEF Spec

(* Stored rows have the time of their saving and an identifier of their own.                *)
THEOREM RowsAreTyped == Spec => []TypeOK
<1>1. CatalogInv => TypeOK
  BY DEF CatalogInv
<1> QED BY <1>1, CatalogHolds, PTL

(* Lists show the seeded trigger on top and, below it, rows of different milliseconds with    *)
(* the newest first.                                                                          *)
THEOREM NewestComeFirst == Spec => []NewestFirst
<1>1. ASSUME CatalogInv PROVE NewestFirst
  <2> SUFFICES ASSUME NEW p \in Goroutines, NEW i \in DOMAIN page[p].listed,
                      NEW j \in DOMAIN page[p].listed, i < j,
                      page[p].listed[i].sorts # page[p].listed[j].sorts,
                      page[p].listed[i].sorts # SeedSorts
               PROVE  /\ page[p].listed[j].sorts # SeedSorts
                      /\ page[p].listed[i].id > page[p].listed[j].id
    BY DEF NewestFirst
  <2> DEFINE a == page[p].listed[i]
             b == page[p].listed[j]
  <2>1. a \in Made /\ b \in Made
    <3>1. page[p].kind \in Kinds /\ a \in Range(page[p].listed) /\ b \in Range(page[p].listed)
      BY <1>1 DEF CatalogInv, TypeOK, Page, Range
    <3> QED BY <1>1, <3>1 DEF CatalogInv, PagesShowRows, Made, Kinds
  <2>2. a \in Row /\ b \in Row
    BY <1>1 DEF CatalogInv, TypeOK, Page
  <2>3. a.sorts >= b.sorts
    BY <1>1 DEF CatalogInv, PagesShowRows, Sorted
  <2>4. b.sorts < a.sorts
    BY <2>2, <2>3 DEF Row
  <2>5. a.sorts < SeedSorts /\ b.sorts # SeedSorts
    BY <1>1, <2>1, <2>2, <2>4, CatalogAssumption DEF CatalogInv, MadeInOrder, TypeOK, SeedSorts, Row
  <2> QED BY <1>1, <2>1, <2>2, <2>4, <2>5 DEF CatalogInv, MadeInOrder, Row
<1> QED BY <1>1, CatalogHolds, PTL

(* An answer lists the row it selects and every row that was stored when it was asked for.   *)
THEOREM CompleteAnswers == Spec => AnswersAreComplete
<1>1. ASSUME CatalogInv, [Next]_vars, NEW p \in Goroutines, page'[p] # page[p]
      PROVE  /\ page'[p].selected \in {0} \cup {r.id : r \in Range(page'[p].listed)}
             /\ before[p] \subseteq Range(page'[p].listed)
  <2>1. List(p)
    <3>1. page' # page
      BY <1>1
    <3>2. PICK q \in Goroutines : List(q)
      BY <1>1, <3>1 DEF Next, vars, Propose, Browse, Save, Tick
    <3>3. q = p
      BY <1>1, <3>2 DEF List, CatalogInv, TypeOK
    <3> QED BY <3>2, <3>3
  <2>2. PICK listed \in Listings(rows[own[p].kind]) :
          page' = [page EXCEPT ![p] =
            [kind |-> own[p].kind, selected |-> own[p].row.id, listed |-> listed]]
    BY <2>1 DEF List
  <2>3. own[p].kind \in Kinds
    BY <1>1 DEF CatalogInv, TypeOK
  <2>4. Range(listed) = rows[own[p].kind]
    BY <1>1, <2>3, ListingsAreComplete DEF CatalogInv, TypeOK
  <2>5. page'[p].selected = own[p].row.id /\ page'[p].listed = listed
    BY <1>1, <2>2 DEF CatalogInv, TypeOK
  <2> QED BY <1>1, <2>1, <2>4, <2>5 DEF CatalogInv, Answerable, List
<1>2. CatalogInv /\ [Next]_vars =>
        [\A p \in Goroutines : page'[p] # page[p] =>
           /\ page'[p].selected \in {0} \cup {r.id : r \in Range(page'[p].listed)}
           /\ before[p] \subseteq Range(page'[p].listed)]_vars
  BY <1>1
<1> QED BY <1>2, CatalogHolds, PTL DEF Spec, AnswersAreComplete
====================================================================================
