------------------------------ MODULE ServerLifecycle ------------------------------
(***********************************************************************************)
(* cmd/incident-reviewer and app.Start: processes that listen on one address, seed    *)
(* their catalogues, serve requests from goroutines and shut down on a signal.  A     *)
(* handler is the sequence of accesses it makes to the maps of the three stores,      *)
(* which nothing locks: the Go runtime may end a process in which a write overlaps     *)
(* another access to the map.  The shutdown cancels the context of every request,      *)
(* which no store looks at: a request goes on as before.                               *)
(***********************************************************************************)
EXTENDS Integers, Sequences, FiniteSets

CONSTANTS
  Servers,   \* the processes somebody starts, one after another or at once
  Requests,  \* the requests browsers make
  Kinds,     \* the handlers they ask for
  Nobody     \* the port is free; a request has not been made

MaxQueue == 2    \* make(chan os.Signal, 2)

VARIABLES
  phase,    \* how far the main goroutine of a process is
  status,   \* how it ended: the exit code, or by the signal itself
  seeds,    \* the catalogues that hold their seeded row
  queue,    \* signals in the channel
  port,     \* the process whose listener is open
  request   \* where a request is and what its handler has still to do

vars == <<phase, status, seeds, queue, port, request>>

Maps == {"reviews", "causes", "triggers"}

Access == [map : Maps, writes : BOOLEAN]

Read(m) == [map |-> m, writes |-> FALSE]
Write(m) == [map |-> m, writes |-> TRUE]

(* The accesses of each handler, its service's among them; All iterates, which reads.   *)
(* An error of the handler ends it after any of them.                                   *)
renderIndex == <<Read("reviews")>>
Index == renderIndex
Create == <<Write("reviews")>> \o renderIndex
Show == <<Read("reviews"), Read("causes"), Read("triggers")>>
Edit == <<Read("reviews")>>
Update == <<Read("reviews"), Write("reviews")>>

Reload(catalogue) == <<Read("reviews"), Read(catalogue)>>
BindTo(catalogue) ==
  <<Read("reviews"), Read(catalogue), Write("reviews")>> \o Reload(catalogue)
EditBound(catalogue) == <<Read("reviews"), Read(catalogue)>>
UpdateBound(catalogue) == <<Read("reviews"), Read(catalogue), Write("reviews")>>

New == <<>>
CreateRow(catalogue) == <<Write(catalogue), Read(catalogue)>>

Handlers ==
  [Index |-> Index, Create |-> Create, Show |-> Show, Edit |-> Edit, Update |-> Update,
   BindContributingCause |-> BindTo("causes"), BindTrigger |-> BindTo("triggers"),
   EditBoundContributingCause |-> EditBound("causes"),
   EditBoundTrigger |-> EditBound("triggers"),
   UpdateBoundContributingCause |-> UpdateBound("causes"),
   UpdateBoundTrigger |-> UpdateBound("triggers"),
   New |-> New, CreateCause |-> CreateRow("causes"), CreateTrigger |-> CreateRow("triggers")]

ASSUME ServersAssumption == Nobody \notin Servers /\ Kinds \subseteq DOMAIN Handlers

Phases == {"new", "listening", "failed", "serving", "notified", "stopping", "exited"}

(* inside: the handler is in the middle of the first access of todo.  dropped: the        *)
(* connection was reset before a goroutine had it; cut: after.                            *)
Request ==
  [where : {"unsent", "waiting", "running", "answered", "dropped", "cut"}, at : Servers \cup {Nobody},
   todo : Seq(Access), inside : BOOLEAN]

TypeOK ==
  /\ phase \in [Servers -> Phases]
  /\ status \in [Servers -> {"none", "0", "1", "2", "signal"}]
  /\ \A s \in Servers : status[s] = "none" <=> phase[s] # "exited"
  /\ seeds \in [Servers -> SUBSET {"causes", "triggers"}]
  /\ queue \in [Servers -> 0..MaxQueue]
  /\ port \in Servers \cup {Nobody}
  /\ request \in [Requests -> Request]

Init ==
  /\ phase = [s \in Servers |-> "new"] /\ status = [s \in Servers |-> "none"]
  /\ seeds = [s \in Servers |-> {}] /\ queue = [s \in Servers |-> 0]
  /\ port = Nobody
  /\ request = [r \in Requests |->
       [where |-> "unsent", at |-> Nobody, todo |-> <<>>, inside |-> FALSE]]

-------------------------------------------------------------------------------------
Running(s) == {r \in Requests : request[r].at = s /\ request[r].where = "running"}
Waiting(s) == {r \in Requests : request[r].at = s /\ request[r].where = "waiting"}

Becomes(s, p) == phase' = [phase EXCEPT ![s] = p]

Ended(r, end) == [where |-> end, at |-> request[r].at, todo |-> <<>>, inside |-> FALSE]

Reset(s, running) ==
  request' = [r \in Requests |->
    IF r \in Waiting(s) THEN Ended(r, "dropped")
    ELSE IF r \in running THEN Ended(r, "cut") ELSE request[r]]

CloseListener(s) == port' = IF port = s THEN Nobody ELSE port

(* The process ends, with its listener and its connections.                             *)
Exit(s, how) ==
  /\ Becomes(s, "exited") /\ status' = [status EXCEPT ![s] = how]
  /\ queue' = [queue EXCEPT ![s] = 0]
  /\ CloseListener(s)
  /\ Reset(s, Running(s))
  /\ UNCHANGED seeds

(* app.Start: net.Listen                                                                *)
Listen(s) ==
  /\ phase[s] = "new"
  /\ IF port = Nobody
     THEN Becomes(s, "listening") /\ port' = s
     ELSE Becomes(s, "failed") /\ UNCHANGED port
  /\ UNCHANGED <<status, seeds, queue, request>>

(* The default cause and the default trigger are saved, or app.Start gives up.           *)
Seed(s, kind) ==
  /\ phase[s] = "listening" /\ kind \notin seeds[s]
  /\ kind = "triggers" => "causes" \in seeds[s]
  /\ \/ /\ seeds' = [seeds EXCEPT ![s] = @ \cup {kind}]
        /\ UNCHANGED phase
     \/ /\ Becomes(s, "failed")
        /\ UNCHANGED seeds
  /\ UNCHANGED <<status, queue, port, request>>

(* Mutant of Serve: a request may come in before the trigger is there.                   *)
ServeEarly(s) ==
  /\ phase[s] = "listening" /\ "causes" \in seeds[s]
  /\ Becomes(s, "serving")
  /\ UNCHANGED <<status, seeds, queue, port, request>>

(* The goroutine of server.Serve; from now on it accepts.                                *)
Serve(s) ==
  /\ phase[s] = "listening" /\ seeds[s] = {"causes", "triggers"}
  /\ Becomes(s, "serving")
  /\ UNCHANGED <<status, seeds, queue, port, request>>

(* Mutant of NilServer: the address is not looked at and main waits for a signal.         *)
NilServerWaits(s) ==
  /\ phase[s] = "failed"
  /\ UNCHANGED vars

(* After a failed start main logs the error and panics on the nil server.                 *)
NilServer(s) == phase[s] = "failed" /\ Exit(s, "2")

Notify(s) ==
  /\ phase[s] = "serving"
  /\ Becomes(s, "notified")
  /\ UNCHANGED <<status, seeds, queue, port, request>>

(* Mutant of Signal: there is room for every signal.                                       *)
SignalUnbounded(s) ==
  /\ phase[s] \in {"notified", "stopping"} /\ queue[s] <= MaxQueue
  /\ queue' = [queue EXCEPT ![s] = @ + 1]
  /\ UNCHANGED <<phase, status, seeds, port, request>>

(* SIGINT or SIGTERM.  Until main has asked for signals they end the process.             *)
Signal(s) ==
  /\ phase[s] \notin {"new", "exited"}
  /\ IF phase[s] \in {"notified", "stopping"}
     THEN /\ queue[s] < MaxQueue
          /\ queue' = [queue EXCEPT ![s] = @ + 1]
          /\ UNCHANGED <<phase, status, seeds, port, request>>
     ELSE Exit(s, "signal")

(* Mutant of Stop: the listener stays open.                                                *)
StopListening(s) ==
  /\ phase[s] = "notified" /\ queue[s] > 0
  /\ queue' = [queue EXCEPT ![s] = @ - 1]
  /\ Becomes(s, "stopping")
  /\ UNCHANGED <<status, seeds, port, request>>

(* main takes a signal and calls Shutdown: the listener closes.                           *)
Stop(s) ==
  /\ phase[s] = "notified" /\ queue[s] > 0
  /\ queue' = [queue EXCEPT ![s] = @ - 1]
  /\ Becomes(s, "stopping")
  /\ CloseListener(s)
  /\ Reset(s, {})
  /\ UNCHANGED <<status, seeds>>

(* Mutant of Drained: nobody waits for the requests.                                       *)
DrainedAtOnce(s) == phase[s] = "stopping" /\ Exit(s, "0")

(* Shutdown has seen every connection idle, and main returns.                             *)
Drained(s) == phase[s] = "stopping" /\ Running(s) = {} /\ Exit(s, "0")

(* Mutant of Deadline: it only counts while no signal waits.                              *)
DeadlineUnsignalled(s) == phase[s] = "stopping" /\ queue[s] = 0 /\ Exit(s, "1")

(* The ten seconds pass, perhaps just after the last request ended: os.Exit(1).            *)
Deadline(s) == phase[s] = "stopping" /\ Exit(s, "1")

-------------------------------------------------------------------------------------
(* A browser connects to whoever listens ...                                              *)
Connect(r) ==
  /\ request[r].where = "unsent" /\ port # Nobody
  /\ request' = [request EXCEPT ![r].where = "waiting", ![r].at = port]
  /\ UNCHANGED <<phase, status, seeds, queue, port>>

(* ... and its request gets a goroutine.                                                   *)
Accept(r, kind) ==
  /\ request[r].where = "waiting"
  /\ phase[request[r].at] \in {"serving", "notified"}
  /\ request' = [request EXCEPT ![r].where = "running", ![r].todo = Handlers[kind]]
  /\ UNCHANGED <<phase, status, seeds, queue, port>>

Enter(r) ==
  /\ request[r].where = "running" /\ ~ request[r].inside /\ request[r].todo # <<>>
  /\ request' = [request EXCEPT ![r].inside = TRUE]
  /\ UNCHANGED <<phase, status, seeds, queue, port>>

Leave(r) ==
  /\ request[r].where = "running" /\ request[r].inside
  /\ request' = [request EXCEPT ![r].inside = FALSE, ![r].todo = Tail(@)]
  /\ UNCHANGED <<phase, status, seeds, queue, port>>

(* The handler is through, or one of its errors ends it early.                             *)
Answer(r) ==
  /\ request[r].where = "running" /\ ~ request[r].inside
  /\ request' = [request EXCEPT ![r] = Ended(r, "answered")]
  /\ UNCHANGED <<phase, status, seeds, queue, port>>

(* Two goroutines of s are in one map, and one of them writes.                             *)
Collide(p, q) ==
  /\ request[p].inside /\ request[q].inside
  /\ Head(request[p].todo).map = Head(request[q].todo).map
  /\ Head(request[p].todo).writes

Collision(s) == \E p, q \in Running(s) : p # q /\ Collide(p, q)

(* "fatal error: concurrent map read and map write", which nothing recovers from.          *)
MapFault(s) == Collision(s) /\ Exit(s, "2")

-------------------------------------------------------------------------------------
Main(s) ==
  \/ Listen(s) \/ Seed(s, "causes") \/ Seed(s, "triggers") \/ Serve(s) \/ NilServer(s)
  \/ Notify(s) \/ Stop(s)

Shutdown(s) == Drained(s) \/ Deadline(s)

Handler(r) == Enter(r) \/ Leave(r) \/ Answer(r)

Next ==
  \/ \E s \in Servers : Main(s) \/ Shutdown(s) \/ Signal(s) \/ MapFault(s)
  \/ \E r \in Requests :
       Connect(r) \/ (\E kind \in Kinds : Accept(r, kind)) \/ Handler(r)

Spec == Init /\ [][Next]_vars

(* A main goroutine that was started runs, and the ten seconds pass.  Clients owe nothing:    *)
(* the server sets no timeouts, and a body that never comes keeps its handler waiting.        *)
FairSpec ==
  Spec /\ \A s \in Servers : WF_vars(phase[s] # "new" /\ Main(s)) /\ WF_vars(Shutdown(s))

-------------------------------------------------------------------------------------
(* Whoever gets a request in finds the cause and the trigger that Start saves, and no seed    *)
(* is written to a map a handler may be reading: the listener is open before, but Serve is     *)
(* not called.                                                                               *)
RequestsFindTheSeeds ==
  \A r \in Requests : request[r].where = "running" =>
    seeds[request[r].at] = {"causes", "triggers"} /\ phase[request[r].at] # "listening"

(* "Stop will shut down the server safely" (reviewer.go:40): a process that ends with 0        *)
(* has answered every request that got a goroutine, in the shutdown or before.                 *)
GracefulExitAnswersAll ==
  \A r \in Requests : request[r].where \in {"waiting", "running", "cut"} =>
    status[request[r].at] # "0"

(* The port is held by a process that accepts or is about to: one that drains its requests     *)
(* or has ended leaves it to the next.                                                         *)
PortIsHeldByTheLiving ==
  port # Nobody => phase[port] \in {"listening", "failed", "serving", "notified"}

(* What makes these hold after every step: where a request of a process can be while its main    *)
(* goroutine is where it is, and that nobody serves before both rows are saved.                *)
Placed ==
  \A r \in Requests : LET s == request[r].at IN
    /\ request[r].where # "unsent" => s \in Servers
    /\ request[r].where = "waiting" => s = port
    /\ request[r].where = "running" => phase[s] \in {"serving", "notified", "stopping"}
    /\ request[r].where = "cut" => status[s] \in {"1", "2", "signal"}
    /\ request[r].inside => request[r].where = "running" /\ request[r].todo # <<>>

Seeded ==
  \A s \in Servers :
    phase[s] \in {"serving", "notified", "stopping"} => seeds[s] = {"causes", "triggers"}

LifecycleInv == TypeOK /\ Placed /\ Seeded /\ PortIsHeldByTheLiving

(* A start comes to waiting for signals or to its end, also when the port is taken or a seed   *)
(* is refused.                                                                                *)
StartsComeThrough ==
  \A s \in Servers : phase[s] # "new" ~> phase[s] \in {"notified", "stopping", "exited"}

(* A process that has a signal to handle ends, whatever its requests are waiting for.          *)
SignalledServersEnd == \A s \in Servers : queue[s] > 0 ~> phase[s] = "exited"
=====================================================================================
