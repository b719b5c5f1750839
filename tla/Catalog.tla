---------------------------------- MODULE Catalog ----------------------------------
(***********************************************************************************)
(* The two catalogues, contributing causes and triggers: their services, their       *)
(* memory stores, and the handlers that propose a row and answer with the list to    *)
(* choose from.  A request is a goroutine; its steps are making the row, saving it and *)
(* listing.  The time inside an identifier is that of its making in milliseconds, and *)
(* lists are sorted by it.                                                           *)
(***********************************************************************************)
EXTENDS Integers, Sequences, FiniteSets, Functions, TLC

CONSTANTS
  Goroutines,  \* the requests net/http serves at a time
  MaxRows,     \* bound on the rows made, in both catalogues, refused ones included
  MaxClock     \* bound on the milliseconds that pass

ASSUME CatalogAssumption == MaxRows \in Nat /\ MaxClock \in Nat \ {0}

Kinds == {"cause", "trigger"}

VARIABLES
  rows,    \* the stores' maps: kind to the set of rows
  pc,      \* where a goroutine is
  own,     \* its row
  before,  \* the rows that were stored when its request arrived
  page,    \* what a goroutine answered last
  lastID, clock

vars == <<rows, pc, own, before, page, lastID, clock>>

(* id: in the order of NewV7; sorts: what UUID.Time reads in it; createdAt: zero until *)
(* it is saved.                                                                      *)
Row == [id : Nat, sorts : Nat, createdAt : Nat]

NoRow == [id |-> 0, sorts |-> 0, createdAt |-> 0]

NoRequest == [kind |-> "cause", row |-> NoRow]

NoPage == [kind |-> "cause", selected |-> 0, listed |-> <<>>]

Page == [kind : Kinds, selected : Nat, listed : Seq(Row)]

(* The type of the state; every stored row has the time of its saving and an identifier of *)
(* its own.                                                                          *)
TypeOK ==
  /\ rows \in [Kinds -> SUBSET Row]
  /\ \A kind \in Kinds :
       /\ \A r \in rows[kind] : r.createdAt \in 1..clock
       /\ \A r, s \in rows[kind] : r.id = s.id => r = s
  /\ pc \in [Goroutines -> {"idle", "save", "list"}]
  /\ own \in [Goroutines -> [kind : Kinds, row : Row]]
  /\ before \in [Goroutines -> SUBSET Row]
  /\ page \in [Goroutines -> Page]
  /\ lastID \in Nat /\ clock \in 1..MaxClock

(* The seeded trigger's identifier is of version 4: the time that is read in it is beyond *)
(* all others.                                                                       *)
SeedSorts == MaxClock + 1

Init ==
  /\ rows = [kind \in Kinds |->
       {[id |-> IF kind = "cause" THEN 1 ELSE 2,
         sorts |-> IF kind = "cause" THEN 1 ELSE SeedSorts,
         createdAt |-> 1]}]
  /\ pc = [p \in Goroutines |-> "idle"]
  /\ own = [p \in Goroutines |-> NoRequest]
  /\ before = [p \in Goroutines |-> {}]
  /\ page = [p \in Goroutines |-> NoPage]
  /\ lastID = 2 /\ clock = 1

------------------------------------------------------------------------------------
(* Mutant of Listings: the oldest come first.                                        *)
ListingsOldestFirst(S) ==
  {s \in Bijection(1..Cardinality(S), S) :
     \A i, j \in DOMAIN s : i < j => s[i].sorts <= s[j].sorts}

(* MemoryStore.All: the keys come in any order, and those with one time stay in any order. *)
Listings(S) ==
  {s \in Bijection(1..Cardinality(S), S) :
     \A i, j \in DOMAIN s : i < j => s[i].sorts >= s[j].sorts}

(* The end of a request: what the goroutine held is gone.                            *)
Return(p) ==
  /\ pc' = [pc EXCEPT ![p] = "idle"]
  /\ own' = [own EXCEPT ![p] = NoRequest]
  /\ before' = [before EXCEPT ![p] = {}]

Goto(p, label) == pc' = [pc EXCEPT ![p] = label]

(* Create of the handlers.  Without HTMX both write a 404: a trigger's request ends with it *)
(* and changes nothing, a cause's goes on like any other.                            *)
Propose(p, kind) ==
  /\ pc[p] = "idle" /\ lastID < MaxRows
  /\ lastID' = lastID + 1
  /\ own' = [own EXCEPT ![p] =
       [kind |-> kind, row |-> [id |-> lastID + 1, sorts |-> clock, createdAt |-> 0]]]
  /\ before' = [before EXCEPT ![p] = rows[kind]]
  /\ Goto(p, "save")
  /\ UNCHANGED <<rows, page, clock>>

(* The page of a review offers the rows of both catalogues; here a request lists one. *)
Browse(p, kind) ==
  /\ pc[p] = "idle"
  /\ own' = [own EXCEPT ![p] = [kind |-> kind, row |-> NoRow]]
  /\ before' = [before EXCEPT ![p] = rows[kind]]
  /\ Goto(p, "list")
  /\ UNCHANGED <<rows, page, lastID, clock>>

(* Mutant of Save: the map that was there when the request arrived is put back.      *)
SaveStale(p) ==
  LET kind == own[p].kind  r == [own[p].row EXCEPT !.createdAt = clock] IN
  /\ pc[p] = "save"
  /\ rows' = [rows EXCEPT ![kind] = before[p] \cup {r}]
  /\ Goto(p, "list")
  /\ UNCHANGED <<own, before, page, lastID, clock>>

(* Mutant of Save: the row is stored without the time of its saving.                 *)
SaveUnstamped(p) ==
  /\ pc[p] = "save"
  /\ rows' = [rows EXCEPT ![own[p].kind] = @ \cup {own[p].row}]
  /\ Goto(p, "list")
  /\ UNCHANGED <<own, before, page, lastID, clock>>

(* The service's Save: validate, stamp, store; a row that is not valid ends the request. *)
Save(p) ==
  LET kind == own[p].kind  r == [own[p].row EXCEPT !.createdAt = clock] IN
  /\ pc[p] = "save"
  /\ \/ /\ rows' = [rows EXCEPT ![kind] = @ \cup {r}]
        /\ Goto(p, "list")
        /\ UNCHANGED <<own, before>>
     \/ /\ Return(p)
        /\ UNCHANGED rows
  /\ UNCHANGED <<page, lastID, clock>>

(* The handler lists the rows and answers with the one it saved, if any, selected.   *)
List(p) ==
  LET kind == own[p].kind IN
  /\ pc[p] = "list"
  /\ \E listed \in Listings(rows[kind]) :
       page' = [page EXCEPT ![p] =
         [kind |-> kind, selected |-> own[p].row.id, listed |-> listed]]
  /\ Return(p)
  /\ UNCHANGED <<rows, lastID, clock>>

Tick ==
  /\ clock < MaxClock
  /\ clock' = clock + 1
  /\ UNCHANGED <<rows, pc, own, before, page, lastID>>

Next ==
  \/ \E p \in Goroutines :
       \/ \E kind \in Kinds : Propose(p, kind) \/ Browse(p, kind)
       \/ Save(p) \/ List(p)
  \/ Tick

Spec == Init /\ [][Next]_vars

------------------------------------------------------------------------------------
(* The requests are alike. *)
Alike == Permutations(Goroutines)

(* The list that answers a proposal holds the proposed row, which the page selects, and every *)
(* row that was stored when the request arrived, however proposals overlap.          *)
AnswersAreComplete ==
  [][\A p \in Goroutines : page'[p] # page[p] =>
       /\ page'[p].selected \in {0} \cup {r.id : r \in Range(page'[p].listed)}
       /\ before[p] \subseteq Range(page'[p].listed)]_vars

(* "I want them returned with most recent first" (memory.go:58): the seeded trigger stays on  *)
(* top, and below it rows made in different milliseconds come with the newest first.  Rows of *)
(* one millisecond come in any order, one that may differ from list to list.                  *)
NewestFirst ==
  \A p \in Goroutines : LET s == page[p].listed IN
    \A i, j \in DOMAIN s : i < j /\ s[i].sorts # s[j].sorts =>
      \/ s[i].sorts = SeedSorts
      \/ s[j].sorts # SeedSorts /\ s[i].id > s[j].id

(* What makes these hold after every step: rows are made in the order of their ids, an id that *)
(* waits to be saved is nobody else's, rows stay where they are, and pages show stored rows   *)
(* in the order of their times.                                                              *)
Pending == {own[p].row : p \in {q \in Goroutines : pc[q] = "save"}}

Made == rows["cause"] \cup rows["trigger"] \cup Pending

MadeInOrder ==
  /\ \A r \in Made : r.id <= lastID /\ (r.sorts <= clock \/ r.sorts = SeedSorts)
  /\ \A r, s \in Made : r.sorts < s.sorts /\ s.sorts # SeedSorts => r.id < s.id

OwnIDs ==
  \A p \in Goroutines : pc[p] = "save" =>
    /\ \A kind \in Kinds : \A r \in rows[kind] : r.id # own[p].row.id
    /\ \A q \in Goroutines : pc[q] = "save" /\ own[q].row.id = own[p].row.id => p = q

Answerable ==
  \A p \in Goroutines :
    /\ pc[p] # "idle" => before[p] \subseteq rows[own[p].kind]
    /\ pc[p] = "list" => own[p].row.id \in {0} \cup {r.id : r \in rows[own[p].kind]}

Sorted(s) == \A i, j \in DOMAIN s : i < j => s[i].sorts >= s[j].sorts

PagesShowRows ==
  \A p \in Goroutines :
    /\ Sorted(page[p].listed)
    /\ Range(page[p].listed) \subseteq rows[page[p].kind]

CatalogInv ==
  /\ TypeOK /\ \A kind \in Kinds : IsFiniteSet(rows[kind])
  /\ MadeInOrder /\ OwnIDs /\ Answerable /\ PagesShowRows
====================================================================================
