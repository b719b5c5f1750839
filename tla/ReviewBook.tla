-------------------------------- MODULE ReviewBook --------------------------------
(***********************************************************************************)
(* What reviewing.Service promises about the reviews, without slices, stores and   *)
(* lookups: a review has a set of bound causes, at most one of them marked as the  *)
(* proximal cause, and a set of bound triggers.  ReviewService implements it.      *)
(***********************************************************************************)
CONSTANTS
  BookIDs,      \* ids of reviews, entries and the rows of the catalogues
  ValidBodies,  \* what the form fields of a review may hold
  Whys,         \* reasons
  Fold          \* a reason up to letter case and surrounding white space

VARIABLE book   \* the reviews by id

None == 0       \* no entry is the proximal cause

Entry == [id : BookIDs, cause : BookIDs, why : Whys]

BookTrigger == [id : BookIDs, trigger : BookIDs, why : Whys]

BookTypeOK ==
  book \in [DOMAIN book -> [body : ValidBodies, entries : SUBSET Entry,
                            proximal : BookIDs \cup {None},
                            triggers : SUBSET BookTrigger]]

Reasoned(c, e) == c.cause = e.cause /\ Fold[c.why] = Fold[e.why]

BookInit == book = [id \in {} |-> None]

(* A review appears, with nothing bound.                                           *)
Open(id, body) ==
  /\ id \notin DOMAIN book
  /\ book' = [x \in DOMAIN book \cup {id} |->
                IF x = id
                THEN [body |-> body, entries |-> {}, proximal |-> None, triggers |-> {}]
                ELSE book[x]]

(* Its form is edited.                                                             *)
Edit(id, body) == book' = [book EXCEPT ![id].body = body]

(* A cause is bound for a reason no bound cause has; marked as proximal, it takes    *)
(* the mark over.                                                                   *)
BindCause(id, e, proximal) ==
  LET r == book[id] IN
  /\ \A c \in r.entries : c.id # e.id /\ ~ Reasoned(c, e)
  /\ book' = [book EXCEPT ![id] =
       [r EXCEPT !.entries = @ \cup {e},
                 !.proximal = IF proximal THEN e.id ELSE @]]

(* An entry is replaced: its mark is now what the update says.                       *)
ReplaceCause(id, old, e, proximal) ==
  LET r == book[id]  others == r.entries \ {old} IN
  /\ old.id = e.id
  /\ \A c \in others : ~ Reasoned(c, e)
  /\ book' = [book EXCEPT ![id] =
       [r EXCEPT !.entries = others \cup {e},
                 !.proximal = IF proximal THEN e.id
                              ELSE IF @ = old.id THEN None ELSE @]]

(* A bind that is refused because c has its reason may take the mark from another      *)
(* entry.                                                                             *)
RefuseBind(id, c) ==
  LET r == book[id] IN
  /\ r.proximal # c.id
  /\ book' = [book EXCEPT ![id].proximal = None]

(* The update of an entry that is refused because c has its reason loses the entry,    *)
(* and may take the mark from another one, but not from c.                             *)
RefuseReplace(id, old, c, taken) ==
  LET r == book[id] IN
  /\ c # old
  /\ taken => r.proximal # c.id
  /\ book' = [book EXCEPT ![id] =
       [r EXCEPT !.entries = @ \ {old},
                 !.proximal = IF taken \/ @ = old.id THEN None ELSE @]]

AddBookTrigger(id, t) ==
  /\ \A u \in book[id].triggers : u.id # t.id
  /\ book' = [book EXCEPT ![id].triggers = @ \cup {t}]

ReplaceBookTrigger(id, old, t) ==
  /\ old.id = t.id
  /\ book' = [book EXCEPT ![id].triggers = (@ \ {old}) \cup {t}]

BookNext ==
  \/ \E id \in BookIDs, body \in ValidBodies : Open(id, body)
  \/ \E id \in DOMAIN book :
       \/ \E body \in ValidBodies : Edit(id, body)
       \/ \E e \in Entry, proximal \in BOOLEAN : BindCause(id, e, proximal)
       \/ \E old \in book[id].entries, e \in Entry, proximal \in BOOLEAN :
            ReplaceCause(id, old, e, proximal)
       \/ \E c \in book[id].entries : RefuseBind(id, c)
       \/ \E old, c \in book[id].entries, taken \in BOOLEAN :
            RefuseReplace(id, old, c, taken)
       \/ \E t \in BookTrigger : AddBookTrigger(id, t)
       \/ \E old \in book[id].triggers, t \in BookTrigger : ReplaceBookTrigger(id, old, t)

BookSpec == BookInit /\ [][BookNext]_book
====================================================================================
