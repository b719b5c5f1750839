# incident-reviewer in TLA+

A verification project for the Go program in this repository: a web application in which
people review an incident, bind contributing causes and triggers to the review, and keep
catalogues of both. Everything lives in memory behind `net/http`, which runs every request
in a goroutine of its own.

## The system

| Part | State | Operations | Talks to |
|---|---|---|---|
| `reviewing.Review`, the aggregate (`internal/reviewing/review.go`) | the seven text fields, the slices `BoundCauses` and `BoundTriggers`, two timestamps | `Update`, `BindContributingCause`, `UpdateBoundContributingCause`, `BindTrigger`, `UpdateBoundTrigger` | called by the service through the action mapper |
| `reviewing.Service` (`review.go`, `serviceactions.go`) | none of its own | `Save`, `Get`, `All`, the two binds, the two updates, the two lookups of an entry | the review store, the two catalogues |
| `storage.MemoryStore` of reviews (`internal/reviewing/storage/memory.go`) | a map from id to `Review`, no lock | `Save`, `Get`, `All` | shares the arrays behind the slices with every caller of `Get` and `Save` |
| Catalogues: `contributing.CauseService`, `normalized.TriggerService` and their memory stores | a map from id to row each, no lock | `Save`, `Get`, `All` | used by the service, by the web handlers and by the start of the program |
| Web handlers (`internal/app/web`) | none; the page in the browser | forms to service calls, results to pages | services, HTMX in the browser |
| `app.Start`, `cmd/incident-reviewer` | listener, HTTP server, signal handling | start, seed, serve, graceful stop | everything above |
| `cmd/local-dev-dependencies` | a daemon process, four channels, a postgres container | start, health poll, stop, kill | the operating system, test containers |
| `platform/action`, `platform/validate` | name to function; a validator | `Add`, `Get`, `All`; `Struct` | the services |

Hard behaviours: one request of the service is a read, a computation on slices that alias
the stored ones, and a write, with nothing that excludes another request in between; a
refused request has already written through the aliased slice; the lists of the stores are
ordered by the timestamp inside the identifiers, which has the resolution of a millisecond;
the development daemon hands its stop through unbuffered channels that two goroutines wait
on; a shutdown with a deadline runs against requests that are being served, and the maps
they share are ones the Go runtime may end the process over.

### What makes each part correct

- *The aggregate and the service*: at most one proximal cause; no cause twice for one reason; an
  id names one entry; entries refer to rows that exist; an accepted request loses nothing; a
  refused one saves nothing; timestamps tell when a review was saved.
- *The stores*: a copy of a review that some request works on never carries writes over to
  another review; a list shows every row, and rows of different milliseconds newest first.
- *The handlers and the page*: what the page shows is what is stored; a form saves what it is
  the form of and nothing else.
- *The server's process*: nobody is served before both catalogues are seeded; a process that ends
  with 0 has answered everybody; a signal ends it in the end; its port is free for the next.
- *The development command*: a graceful stop ends the container first; a start that says it is up
  finds the connection string of its own postgres in the file; nobody waits for ever.

## The modules

| Module | Stands for | Uses |
|---|---|---|
| `Review` | the aggregate's methods as operators: when one is refused, what it returns, what a refused one has written into the slice the store still holds | |
| `ReviewService` | the service over the three stores, one request after another | `Review` |
| `ReviewBook` | the abstract specification: a review with sets of entries and one proximal cause | |
| `ConcurrentReviews` | the service as goroutines over shared arrays, entry by entry | `Review` |
| `SerialReviews` | `ConcurrentReviews` with a memory of the settled state: the refinement to `ReviewService` | `ConcurrentReviews`, `ReviewService` |
| `Catalog` | rows, stamps and lists of the two catalogues under overlapping requests | |
| `ReviewPage` | one tab of a browser and the handlers that answer it, over the service | `ReviewService` |
| `LocalDevDependencies` | the development command, its daemon's goroutines and docker | |
| `ServerLifecycle` | `cmd/incident-reviewer`, `app.Start` and the handlers as accesses to the stores' maps: listening, seeds, signals, shutdown | |
| `ReviewProofs`, `ReviewServiceProofs` | lemmas about the aggregate; the service's invariants, its refinement of `ReviewBook` and its action properties | `Review`; `ReviewService`, `ReviewProofs` |
| `ConcurrentProofs` | the theorems about requests that race | `ConcurrentReviews` |
| `SerialProofs` | the theorem that requests one at a time are `ReviewService` | `SerialReviews`, `ConcurrentProofs`, `ReviewProofs` |
| `ReviewPageProofs` | the theorems about the page | `ReviewPage`, `ReviewServiceProofs` |
| `CatalogProofs`, `LifecycleProofs`, `LocalDevProofs` | the theorems of the module they name | `Catalog`, `ServerLifecycle`, `LocalDevDependencies` |
| `MC*` | case folding and symmetry for TLC | |

### Review and ReviewService

`reviews` is `MemoryStore.data`; a review is a record with the sequences `causes` and
`triggers`. The seven text fields are one `body`, of which `ValidBodies` pass the validator:
they are only ever written together (`Review.Update`). `causes` and `triggers` are the ids in
the two catalogues. `outcome` is what the caller was told: `ok`, `refused` (an error before
anything was saved) or `unexpected` (an error after the save: `UpdateBoundContributingCause` does
not find the entry under the id it was asked for because the binding gave it a new one).

The methods of `Review` take the review by value and still write to the stored review, because
the slices share their arrays. So each has a residue: `BindResidue` is the loop's rewriting of
the entries in front of a clash, `RebindResidue` is that plus the deletion in place, with the
zeroed entry `BlankCause` at the end that `slices.DeleteFunc` leaves. `Without` is `DeleteFunc`,
`Fold` is `strings.EqualFold` of the trimmed texts, any function on the texts.

Every operation of the service is one action with its lookups, its refusal and its save. An id
made for a request that is then refused is seen by nobody and not counted, which keeps `lastID`
bounded. One unknown id stands for all.

### ConcurrentReviews and SerialReviews

Slices are `[array, len]` into `arrays`, and `append` follows Go: it writes behind the end when
the capacity allows and moves to an array of twice the size otherwise. A goroutine's steps are
the read of the review, one comparison or one write of an entry (`Find`, `Shift`, `Load`,
`Store`), one `append`, the validation with the stamp (`Save`), the write of the review into the map
(`Write`) and, for updates, the lookup of the answer. Between `Save` and `Write` another request may
get a later stamp and write first.
Arrays nothing points at are freed (`Swept`), so that behaviours do not use them up;
`ArraysAssumption` says when there are always enough. A read or write of one entry and of one
map slot is taken as one step; Go's data races at a finer grain are left out, and so is here the
runtime's check of unsynchronised map access (`ServerLifecycle` has it), so the properties hold
of the interleavings of whole entries. Unknown ids are left to `ReviewService`. `Overlap` says
whether requests may be under way together.

`HeapInv` is what holds of the shared arrays at every moment of every race: an array that is not
free has entries of one kind and is reached from one list of one review only, by the store and by
any number of copies (`Apart`); each slice lies within its array (`Fits`); stored reviews are
valid; each goroutine has a copy of a review that is still stored and knows of its slice and
indexes what its place in the loops relies on (`KnowsAt`); and there are ids and arrays enough
for the requests under way.

`SerialReviews` shows that with `Overlap = FALSE` this is `ReviewService`. That confirms the
residues: what `ReviewService` says in one operator comes out of the walk over the arrays. A
request counts as served when it gets its stamp or is refused: that is the moment `ReviewService`
stamps and stores. It still has to write, and an update to look up its answer (`Told` is what the
caller will hear), and time may pass before either; nobody else can see the difference, and
`Latest` reads the review from the request that is about to write it. While a request walks, `settled`
keeps what the reviews showed before.

### Catalog

`rows` are the maps of the two stores. `sorts` is what `UUID.Time` reads in an id: the
millisecond of its making, or for the seeded trigger, whose id is of version 4, a time beyond
all others. `Listings` are the results `All` may have: keys of a Go map in any order, sorted by
that time, which leaves ties open. `MemoryStore.All` of the reviews is the same code.
`NewestFirst` states what that gives: the seeded trigger on top, and below it newer milliseconds
in front of older ones; two lists may disagree on rows of one millisecond. `CatalogInv` is the
inductive invariant behind it.

### ReviewPage

A tab holds the regions of causes and triggers. `convertToHttpObject` and its kind are the
handlers' conversions; the answers replace a region (`BindCauseFromForm`,
`BindTriggerFromForm`) or the inside of one list item (`EditBound...`, `Save...Item`), and
answers to errors, which have no body, empty them, because the layout lets HTMX swap every
answer (`TECHDEBT.md` item 1). An update's answer is an `<li>` inside the old one, which keeps its
class: `marked` is whether any of them has it. The forms' templates take an entry without a
reason for a new one (`FormFor`). Every other request in the system is `Elsewhere`, a step of
`ReviewService`. What is done inside a region that ended up in a list item is left out (`lists` is
which entries it shows), and so are the review's text fields and the edit form of them. `PageIsCurrent` says both directions: what
an item shows is stored with that text, and each stored entry with a reason is shown by some item while
its region is there. So an answer that empties an item must have removed the entry from the store.
Two things are exempt because the code does them: a refused binding empties the region of the causes,
and an entry without a reason loses its item, though not its place in the store, when its edit form
posts a binding that is refused (`_form.html` takes it for a new one). `PageInv` is the inductive
invariant behind this, with the type of the page in it.

### LocalDevDependencies

The goroutines of the daemon are fields of `inside`; a hand-over through an unbuffered channel
is one step of both sides. Docker, the operating system and go-daemon are modelled from how the
command uses them. `Stop` is the stop subcommand's look into the pid file, `Kill` the signal, which
ends the daemon wherever it is or fails because it is gone by then, and `Gone` the wait until the pid
file, which is read anew each time, names no daemon that lives; `mine` is the daemon a command started
or kills. `CreateConf` is `os.Create`, which empties `tmp/postgres.conf` (`conf` = 0), and `Record` the
write of the connection string: either may fail, which ends the daemon, and a kill may come between. The channel of signals has capacity `MaxSignals` (8 in go-daemon's code, 2 in
the run), and a signal that finds it full is dropped.

### ServerLifecycle

Several processes on one port, so that one can replace another. `phase` is where `main` is:
`Listen` opens the port or fails when another process has it, `Seed` saves the default cause and
the default trigger in that order, or fails, `Serve` starts the goroutine that accepts, `Notify`
asks for signals. Before that a signal ends the process; afterwards it goes into the channel
of two (`MaxQueue`), and one that finds it full is dropped. After a failed start `main` logs the
error and uses the nil server (`NilServer`), which is a panic: exit code 2.

`Stop` is `Server.Stop`, `http.Server.Shutdown` with the context of ten seconds. The listener
closes. Connections the operating system took but no goroutine has are reset, which is
`dropped`, as against `cut` for a request whose handler was running. Requests that run go
on: their contexts are cancelled first, but no store looks at its context. `Drained` is the return
when all of them have answered, `Deadline` the `os.Exit(1)` when the time is over, which may also
happen just after the last answer. The server sets no timeouts of its own, so nothing makes
clients send their bodies: a handler may stay where it is for ever.

A handler is the sequence of accesses its services make to the three maps (`Handlers`), each
with a beginning (`Enter`) and an end (`Leave`), and an error may end it between two
(`Answer`). When a write overlaps another access to the same map, the Go runtime may end the
process (`MapFault`); it need not notice. Two reads never do. `Kinds` chooses the handlers of an
instance.

## What the runs check

All runs take less than four minutes with two workers.

| Run | Question | Bounds, and why they are enough |
|---|---|---|
| `service_causes` | Do the bound causes of a review stay consistent under every sequence of accepted and refused requests, and does the service implement `ReviewBook`? | one review, three entries, three reasons of which two fold to one: a clash in front of, at and behind a marked entry, after and before refused updates |
| `service_whole` | Do all operations together keep references, validity, timestamps and what is bound? | two reviews, two entries each, two rows in one catalogue or both, two instants, a body that does not validate |
| `serial_service` | Does the walk over arrays do what `ReviewService` says? | one request at a time; three causes and two triggers: arrays with and without spare capacity; two reasons and none (the two are alike: symmetry), two instants, so that time passes between stamp and write |
| `concurrent_races` | What still holds when requests race: are the shared arrays sound, do those for different reviews disturb each other, can a stamp be older than what is stored, does every request come to its end? | two goroutines (alike: symmetry); six ids, two of them the seeds': two reviews that own one entry each, or one that owns more; two causes (an array that is full and one that is not) and one trigger to a review; two instants. All requests but the update of a trigger, which is that of a cause without the loop, and which `serial_service` has |
| `catalog` | Are the lists complete, and newest first? | two requests, two proposed rows beside the seeds, in one millisecond or two (`MaxRows` = 4 rows made) |
| `review_page` | Does the page agree with the store? | one review with two causes and a trigger, two reasons and none: edits that are accepted, that clash, and that post a new entry; any other request in between |
| `local_dev` | Does the daemon hand over its stop without hanging or skipping postgres, is the string there when a start says so, and do start and stop end? | two commands, two daemons, two queued signals: a start that replaces a daemon killed at any step, also between emptying and writing the file, a stop that waits for the other's; deadlock is off because commands end |
| `server_lifecycle` | Who is served, answered or left waiting when processes start, stop and fail? | two processes on one port, two requests, one handler that reads all three maps, one that writes the reviews and one that writes a catalogue: every pair of read and write on one map; deadlock is off because processes end |

Four runs show that the program does not do what the repository says of it:

- `finding_blank_cause`: a refused update of a bound cause leaves a zeroed entry in the stored
  review and the user's entry is gone (`review.go:101`), against `review.go:81`.
- `finding_two_proximal`: two requests for one review leave two proximal causes for good, against
  `review.go:70`. `append` copies an entry another request is about to demote, or has just marked.
- `finding_form_drops`: the form of a review saves the causes and triggers it read at its
  start over what was bound since, against `review.go:42`.
- `finding_page_marks`: after an entry is marked as proximal in its edit form, the page lists two
  proximal causes, against `test/reviewing_test.go:178`.

Four more observations are in the models without a run, because nothing in the repository says otherwise.
An empty reason is bound and saved although the entries' tags require one: the slices have no `dive`
tag. The handlers that bind, and the proposal of a cause, answer a request without HTMX with 404 and
carry it out. A request that has its stamp (`review.go:241`) may write (`review.go:246`) after one
that was stamped later, which dates `UpdatedAt` back; `StampsAreFresh` says that a review is never
dated back in another way. And a daemon that replaces another empties the file an earlier start
reported as written, so that it may be found empty (`local-dev-dependencies/main.go:242`).

Every property has a mutant in its module, an operator marked *Mutant of*, that changes one
definition the way a slip in the code would; TLC finds the property violated with it.

### Fairness

- `ConcurrentReviews` needs none. `RequestsWindDown` is a safety property: each step of a request
  lowers `StepsLeft`, and no step of others raises it. No step of a request waits for another, so with
  a scheduler that runs every goroutine that can run each request ends. That takes for granted that
  the runtime does not end the process because of unsynchronised access to a map; `ServerLifecycle`
  says what happens when it does.
- `ServerLifecycle!FairSpec`: weak fairness of the main goroutine of a process once it was
  started, and of the end of its shutdown, which comes with the ten seconds at the latest. Clients,
  signals and handlers have none.
- `LocalDevDependencies!FairSpec`: weak fairness of each goroutine of the daemon, which includes
  that docker answers. For the start the code sees to that with a context of two minutes; for
  `Terminate`, which runs on `context.Background()`, it is an assumption, without which a graceful stop
  may wait for ever. And of `Poll` and `Gone`, which sit in loops with a sleep, and `Kill`, the next
  call of a command that runs. `Start`, `Stop`, `SendSignal` and the deadline `GiveUp` have none: users
  owe nothing, and `StartsEnd` holds without the deadline.

## What is proved

`tlapm` checks these for every value of the constants that meets the named assumptions
(`BodiesAssumption`, `WhysAssumption`, `BoundsAssumption`; `RequestsAssumption`, `ArraysAssumption`;
`CatalogAssumption`; `ServersAssumption`; `LimitsAssumption`).

- `ReviewServiceProofs`: `Invariance` (`Spec => []IInv`) and from it `TypeCorrectness`,
  `ProximalSafety`, `ReasonSafety`, `IdentitySafety`, `ReferenceSafety`, `StoreSafety`. None of the
  properties is inductive alone: that a binding keeps ids distinct needs the order of ids
  (`id <= lastID`) that makes a new one new; that an update keeps reasons distinct needs that the
  blanks are alike and have no id; that a save is never refused half way needs that the stored body
  is valid. `IInv` is their conjunction with these. `ReviewProofs` has the lemmas about the
  operators, each for sequences of any length: what the rewriting keeps (`RewrittenInv`), what the
  deletion keeps (`WithoutInv`), what the zeroed rest looks like (`PaddedInv`), what a binding
  returns (`BindInv`). Then each action of `Next` preserves `IInv`.
  `ServiceKeepsBook` is `Spec => ImplementsBook`. The refinement mapping forgets
  the order of the slices and the blanks and reads the proximal cause off the marks. On a list that
  meets `CausesInv` the mark is unique, so the mapped value of `proximal` is the marked id
  (`ProximalNamed`), and each method of the aggregate becomes one change of a set: a binding adds
  an entry and takes the mark or leaves it (`BindOnBook`), a refusal at worst takes the mark
  off (`RefusalOnBook`), a deletion takes the entry out (`WithoutOnBook`), blanks do not show
  (`PaddedOnBook`). Then each action of `Next` is a step of the book or a stutter, from `IInv`
  before and after it.
  The four action properties are `NothingIsLost` (`SavesLoseNothing`), `TimesAreTrue`
  (`TimestampsTellSaves`), `RefusalsSaveNothing` (`RefusedSavesNothing`) and `MarksOutlive`
  (`MarkOutlivesOtherRequests`). `NextShape` says that every step leaves the reviews alone, saves
  one that still has what the stored one had, or is a refusal that rewrote one list of causes; the
  four follow from the shapes.
- `ConcurrentProofs`: `HeapHolds` (`Spec => []HeapInv`) and from it the action properties
  `ReviewsIsolated`, `FreshStamps` (`StampsAreFresh`) and `RequestsEnd` (`RequestsWindDown`), for any number of goroutines, reviews and entries. No part of
  the invariant stands alone. That a write stays in its review needs `Apart`; `Apart` survives
  `append` because the array it takes is not pointed at, of which there always is one because no
  goroutine holds more than three (`FreeArray`, from `ArraysAssumption`). That the loops only touch
  entries their array has needs `KnowsAt`, and that nobody swaps the array under a slice: `Carried`
  says so of a step, and `OthersFit` that then all others keep what they know. `MoveKeeps` collects
  what the step of one goroutine has to show; each action shows it. For isolation every step either
  belongs to a request that names the review or leaves its slot and its arrays alone
  (`StaysUnlessNamed`). For the stamps the invariant has that a copy is of a review that is stored and
  was created when it was, and that no stamp is ahead of the clock. For `StepsLeft` it has that the
  indexes of the loops stay within the slice, which no other goroutine can change.
- `SerialProofs`: `SerialImplements`, `SSpec => ImplementsService` when `Overlap` is false. The
  invariant is `SerialInv`: `HeapCore`; at most one request is under way; what is remembered is what
  the store shows, but for the list a request works on (`Remembers`); and of that list `Progress` says
  for each label what the loops have made of it so far. In `shift` the array begins with the entries
  that stay (`Stay` lists their positions) and is untouched from `i` on; in `load` and `store` the
  list is that of `Without`, rewritten in front of `i`, with the zeroed entries behind its end; in
  `append`, `save` and `write` the list is the one `Bind`, `AddTrigger` or `ReplaceTrigger` returns but for its
  last entry, or with it. One lemma for each step of a loop carries `Progress` on (`ShiftEnds`,
  `LoopStores`, `LoopEnds`, `LoopRefused`, `EntryAppended`); `WritesSerially` and `LooksSerially` add
  that all other lists stay, by `Apart`. The stamp is the step of `ReviewService`; the write then puts
  into the map what is already remembered (`WriteServed`), and a refusal
  leaves the array as it is (`RefusalServed`). Stamps and refusals are steps of `ReviewService` (`ServesBind`
  and its kind); all others leave what is remembered as it is. So `ReviewService` stutters while a
  loop runs, and its one operator for each method is shown against every step of the loops, with no
  bound on the lists. Its steps that name an unknown id or make a row do not happen here.
- `ReviewPageProofs`: `PageInvariance` (`PageSpec => []PageInv`) and from it `PageAgrees` and
  `MarkIsShown`. `PageAgrees` has the exemptions stated above. That a list agrees with the store after one of its items was answered needs
  that no two items have one entry, and that an item without an entry has no reason, so that its
  form binds and never updates (`ItemsAreApart`); that a trigger's form is never refused needs
  that its trigger is still bound. `Agrees` states the agreement with sets of entries (`GoodIsInv` is
  the translation), the lemmas on effects say what a request makes of these sets (`BindEffect`,
  `RebindEffect`), and `AgreesAfter` that one answered item suffices. Steps of others are covered by
  `NextShape`: no review and no trigger goes away.
- `CatalogProofs`: `CatalogHolds` (`Spec => []CatalogInv`) and from it `RowsAreTyped`,
  `NewestComeFirst` and the action property `CompleteAnswers`. `NewestFirst` alone is not
  inductive: it needs that rows are made in the order of their ids (`MadeInOrder`), those that wait
  to be saved included; that two rows never share an id needs `OwnIDs`.
- `LifecycleProofs`: `Lifecycle` (`Spec => []LifecycleInv`) and from it `SeedsComeFirst`,
  `GracefulExit`, `PortFreed` and `TypesHold`, for any number of processes
  and requests and any set of handlers. `Placed` says where a request can be while its process is
  where it is; without it nothing would keep a process with running requests from having left.
- `LocalDevProofs`: `TypeCorrect`, `HandOverHolds` (`Spec => []DaemonInv`), `GracefulQuit`,
  `RecordedWhenUp`. `HandOver` relates where the handler of signals is to where `startPostgres` is;
  without it the step of `Cancel` could not be shown to follow docker's answer. `Recorded` relates the
  file to the daemons: it is empty while one is between emptying and writing it, and holds the string
  of the daemon whose health check is true. `GracefulQuit` speaks of the handler of SIGQUIT alone: a
  daemon that is killed, fails or gets the signal before it asks for signals ends without docker.

Only model-checked: the liveness properties, which are out of the prover's reach together with
`ENABLED` and induction over data. All other properties of the passing runs have a theorem.

## Not modelled

- HTML, wording, assets, parsing of forms, logging; the wiring of routes and middleware.
- What the pages of `Index`, `New` and `Edit` show. These handlers change nothing; their accesses to
  the stores are in `ServerLifecycle`.
- Races below one entry of an array, and what a map holds after an unsynchronised write the
  runtime did not notice.
- A request that was answered with 404 and carried out, and is then sent again: a second binding
  of a cause is refused as a repetition; a second trigger is bound, and nothing says it should
  not be.
- `platform/action`: the mapper is filled once, before the first request.
- The schema under `migrations` and the lint rule: no code of the program uses them.
- `Get`, `All` and the two lookups of the service change nothing; `ReviewPage` and `Catalog` use
  what they return.

## Plan

Done: the service and its proofs first, because every other part relies on it; then its
concurrency, the development command, the catalogues, the page and its proofs, the life of the server's
process, and the proof that the walk over the arrays is the service. What is left:

1. The edit form of the text fields on the page, with two tabs whose forms overwrite each other.
