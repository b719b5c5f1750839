-------------------------------- MODULE ReviewPage --------------------------------
(***********************************************************************************)
(* The page of a review in one tab of a browser, and the handlers that answer its     *)
(* forms (internal/app/web/reviews.go and the templates under reviews/show and       *)
(* partials).  It holds two regions, causes and triggers, each with a form for a new entry    *)
(* and a list.  HTMX swaps an answer into what the form names as its target: the     *)
(* region for a new entry, the inside of one list item for an edit.  Every answer is  *)
(* swapped in, errors with their empty bodies too (layouts/standard.html).            *)
(* The service is that of ReviewService, one request after another, and the requests   *)
(* of all other tabs are steps of its own.                                            *)
(***********************************************************************************)
EXTENDS ReviewService

VARIABLES
  page,    \* what the tab shows
  current  \* no other tab has changed the review since this one loaded it

pageVars == <<page, current>>
allVars == <<reviews, causes, triggers, lastID, clock, outcome, page, current>>

(* A list item shows an entry, the form to edit it, nothing, or a whole region that    *)
(* was swapped into it.  id, of and why are those of its entry.  marked: one of the    *)
(* <li> elements that edits have nested here has the class proximalCause.  lists: the  *)
(* entries that such a region lists.                                                  *)
Item == [shows : {"entry", "form", "nothing", "region"},
         id : IDs, of : IDs, why : Whys, marked : BOOLEAN, lists : SUBSET IDs]

(* regions: those that have not been swapped for the empty body of an error.           *)
Page == [review : IDs, regions : SUBSET {"causes", "triggers"},
         causes : Seq(Item), triggers : Seq(Item)]

NoPage == [review |-> Nil, regions |-> {}, causes |-> <<>>, triggers |-> <<>>]

(* The type of the page; one with a review is that of a stored one.                     *)
PageTypeOK ==
  /\ page \in Page /\ current \in BOOLEAN
  /\ page.review \in {Nil} \cup DOMAIN reviews

PageInit ==
  /\ Init
  /\ page = NoPage
  /\ current = FALSE

-------------------------------------------------------------------------------------
toBoundCauseBasic(c) ==
  [shows |-> "entry", id |-> c.id, of |-> c.cause, why |-> c.why,
   marked |-> c.proximal, lists |-> {}]

toBoundTriggerBasic(t) ==
  [shows |-> "entry", id |-> t.id, of |-> t.trigger, why |-> t.why,
   marked |-> FALSE, lists |-> {}]

CauseItems(r) == [i \in DOMAIN r.causes |-> toBoundCauseBasic(r.causes[i])]
TriggerItems(r) == [i \in DOMAIN r.triggers |-> toBoundTriggerBasic(r.triggers[i])]

convertToHttpObject(r) ==
  [review |-> r.id, regions |-> {"causes", "triggers"},
   causes |-> CauseItems(r), triggers |-> TriggerItems(r)]

(* GET /reviews/{id}; an id that is not stored is answered with one line of text.         *)
Show(id) ==
  /\ page' = IF id \in DOMAIN reviews THEN convertToHttpObject(reviews[id]) ELSE NoPage
  /\ current' = TRUE
  /\ UNCHANGED vars

(* The browser sends a required text field with a text in it.                             *)
Given == Whys \ {NoWhy}

(* The region with the list as it is now stored, or the empty body of a 400.              *)
CausesAnswer(refused) ==
  IF refused THEN [page EXCEPT !.regions = @ \ {"causes"}]
  ELSE [page EXCEPT !.causes = CauseItems(reviews'[page.review])]

(* POST contributing-causes from the form of the region.  Without HTMX the handler writes  *)
(* a 404 and goes on; what the tab then shows is no longer the page.                        *)
BindCauseFromForm(why, proximal, htmx) ==
  /\ "causes" \in page.regions
  /\ \E cause \in causes : BindContributingCause(page.review, cause, why, proximal)
  /\ page' = IF htmx THEN CausesAnswer(outcome' = "refused") ELSE NoPage
  /\ UNCHANGED current

(* Mutant of Opened: the form of the first entry, whatever was asked for.                     *)
OpenedFirst(item, stored) ==
  IF stored = <<>> THEN [item EXCEPT !.shows = "nothing"]
  ELSE [stored[1] EXCEPT !.shows = "form", !.marked = item.marked]

(* GET .../edit of an entry: the form with what is stored under the id, or the empty body    *)
(* of a 500 when the entry is gone.                                                         *)
Opened(item, stored) ==
  IF \E e \in Range(stored) : e.id = item.id
  THEN LET e == CHOOSE e \in Range(stored) : e.id = item.id IN
       [item EXCEPT !.shows = "form", !.of = e.of, !.why = e.why]
  ELSE [item EXCEPT !.shows = "nothing"]

EditBoundContributingCause(i) ==
  /\ "causes" \in page.regions /\ page.causes[i].shows = "entry"
  /\ page' = [page EXCEPT !.causes[i] = Opened(@, CauseItems(reviews[page.review]))]
  /\ UNCHANGED <<vars, current>>

(* An entry without a reason is taken for a new one by the templates of the forms.            *)
FormFor(items, i, new) ==
  items[i].shows = "form" /\ (items[i].why = NoWhy <=> new)

(* Mutant of CauseItemAnswer: the item's mark is what it was.                                *)
CauseItemAnswerUnmarked(item, o, refused) ==
  IF refused THEN [item EXCEPT !.shows = "nothing"]
  ELSE [toBoundCauseBasic(o) EXCEPT !.marked = item.marked]

(* Mutant of CauseItemAnswer: an error is answered with the entry as it was.                  *)
CauseItemAnswerAsItWas(item, o, refused) ==
  IF refused THEN [item EXCEPT !.shows = "entry"]
  ELSE [toBoundCauseBasic(o) EXCEPT !.marked = @ \/ item.marked]

(* The answer is a <li> of its own, inside the one that was there.                           *)
CauseItemAnswer(item, o, refused) ==
  IF refused THEN [item EXCEPT !.shows = "nothing"]
  ELSE [toBoundCauseBasic(o) EXCEPT !.marked = @ \/ item.marked]

(* POST contributing-causes/{id}/edit from a list item                                      *)
SaveCauseItem(i, why, proximal) ==
  /\ "causes" \in page.regions /\ FormFor(page.causes, i, FALSE)
  /\ \E cause \in causes :
       LET o == [id |-> page.causes[i].id, cause |-> cause, why |-> why,
                 proximal |-> proximal] IN
       /\ UpdateBoundContributingCause(page.review, o)
       /\ page' = [page EXCEPT !.causes[i] = CauseItemAnswer(@, o, outcome' # "ok")]
  /\ UNCHANGED current

(* What a form without an entry of its own posts is a binding, and the region that answers   *)
(* ends up in the item; what is done in there is left out.                                   *)
WithRegion(item, stored) ==
  [item EXCEPT !.shows = "region", !.lists = {e.id : e \in Range(stored)}]

BindCauseFromItem(i, why, proximal) ==
  /\ "causes" \in page.regions /\ FormFor(page.causes, i, TRUE)
  /\ \E cause \in causes : BindContributingCause(page.review, cause, why, proximal)
  /\ page' = [page EXCEPT !.causes[i] =
       IF outcome' = "refused" THEN [@ EXCEPT !.shows = "nothing"]
       ELSE WithRegion(@, CauseItems(reviews'[page.review]))]
  /\ UNCHANGED current

-------------------------------------------------------------------------------------
(* POST triggers; a trigger of the catalogue is never refused.                              *)
BindTriggerFromForm(why, htmx) ==
  /\ "triggers" \in page.regions
  /\ \E trigger \in triggers : BindTrigger(page.review, trigger, why)
  /\ page' = IF htmx THEN [page EXCEPT !.triggers = TriggerItems(reviews'[page.review])]
             ELSE NoPage
  /\ UNCHANGED current

EditBoundTrigger(i) ==
  /\ "triggers" \in page.regions /\ page.triggers[i].shows = "entry"
  /\ page' = [page EXCEPT !.triggers[i] = Opened(@, TriggerItems(reviews[page.review]))]
  /\ UNCHANGED <<vars, current>>

SaveTriggerItem(i, why) ==
  /\ "triggers" \in page.regions /\ FormFor(page.triggers, i, FALSE)
  /\ \E trigger \in triggers :
       LET o == [id |-> page.triggers[i].id, trigger |-> trigger, why |-> why] IN
       /\ UpdateBoundTrigger(page.review, o)
       /\ page' = [page EXCEPT !.triggers[i] = toBoundTriggerBasic(o)]
  /\ UNCHANGED current

BindTriggerFromItem(i, why) ==
  /\ "triggers" \in page.regions /\ FormFor(page.triggers, i, TRUE)
  /\ \E trigger \in triggers : BindTrigger(page.review, trigger, why)
  /\ page' = [page EXCEPT !.triggers[i] = WithRegion(@, TriggerItems(reviews'[page.review]))]
  /\ UNCHANGED current

(* Any request of anybody else.                                                             *)
Elsewhere ==
  /\ Next
  /\ current' = (current /\
       (page.review \in DOMAIN reviews =>
          /\ reviews'[page.review].causes = reviews[page.review].causes
          /\ reviews'[page.review].triggers = reviews[page.review].triggers))
  /\ UNCHANGED page

PageNext ==
  \/ \E id \in ReviewIDs : Show(id)
  \/ \E why \in Given, proximal \in BOOLEAN, htmx \in BOOLEAN :
       BindCauseFromForm(why, proximal, htmx)
  \/ \E i \in DOMAIN page.causes :
       \/ EditBoundContributingCause(i)
       \/ \E why \in Given, proximal \in BOOLEAN :
            SaveCauseItem(i, why, proximal) \/ BindCauseFromItem(i, why, proximal)
  \/ \E why \in Given, htmx \in BOOLEAN : BindTriggerFromForm(why, htmx)
  \/ \E i \in DOMAIN page.triggers :
       \/ EditBoundTrigger(i)
       \/ \E why \in Given : SaveTriggerItem(i, why) \/ BindTriggerFromItem(i, why)
  \/ Elsewhere

PageSpec == PageInit /\ [][PageNext]_allVars

-------------------------------------------------------------------------------------
(* The items that show an entry or the form to edit it, and the entries an item offers.       *)
Shown(items) == {it \in Range(items) : it.shows \in {"entry", "form"} /\ it.id # Nil}

Offered(it) ==
  IF it.shows = "region" THEN it.lists ELSE {id \in {it.id} : it.shows \in {"entry", "form"}}

Text(e) == <<e.id, e.of, e.why>>

ListIsCurrent(items, stored) ==
  LET there == {e \in Range(stored) : e.id # Nil} IN
  /\ {Text(it) : it \in Shown(items)} \subseteq {Text(e) : e \in there}
  /\ \A e \in there : e.why # NoWhy => \E it \in Range(items) : e.id \in Offered(it)

(* Whatever was refused or edited in it, a page that nobody else has overtaken shows entries   *)
(* and forms with the text that is stored, and shows every stored entry with a reason: an error *)
(* that empties the item of such an entry has removed it from the store too.  (The form of an    *)
(* entry without a reason posts a new one, and a refusal empties the item of the entry that      *)
(* stays.)  The region of the causes goes away whole with a refused binding, that of the triggers *)
(* never.                                                                                      *)
PageIsCurrent ==
  /\ page.review # Nil => "triggers" \in page.regions
  /\ current =>
       /\ "causes" \in page.regions =>
            ListIsCurrent(page.causes, CauseItems(reviews[page.review]))
       /\ "triggers" \in page.regions =>
            ListIsCurrent(page.triggers, TriggerItems(reviews[page.review]))

(* The proximal cause of the review bears the mark wherever such a page shows it: the items   *)
(* an answer leaves alone never hide it.                                                      *)
ProximalIsMarked ==
  current /\ "causes" \in page.regions =>
    \A c \in Range(reviews[page.review].causes), it \in Shown(page.causes) :
      c.proximal /\ c.id = it.id => it.marked

(* What makes these hold after every step: every item is that of an entry of its own or of a   *)
(* blank, which its forms take for a new entry, and the bound triggers stay.                  *)
ItemsAreApart(items) ==
  /\ \A i, j \in DOMAIN items : items[i].id # Nil /\ items[i].id = items[j].id => i = j
  /\ \A i \in DOMAIN items : items[i].id = Nil => items[i].why = NoWhy

PageInv ==
  /\ IInv /\ PageTypeOK
  /\ page.review = Nil => page.regions = {}
  /\ ItemsAreApart(page.causes) /\ ItemsAreApart(page.triggers)
  /\ "triggers" \in page.regions => \A it \in Range(page.triggers) :
       \E t \in Range(reviews[page.review].triggers) : it.id = t.id
  /\ PageIsCurrent /\ ProximalIsMarked

(* The end-to-end test counts one li.proximalCause in the list after a second proximal cause  *)
(* was chosen (test/reviewing_test.go:178).                                                   *)
OneMarkOnThePage ==
  current /\ "causes" \in page.regions =>
    Cardinality({i \in DOMAIN page.causes : page.causes[i].marked}) <= 1
===================================================================================
