------------------------------ MODULE LifecycleProofs ------------------------------
(***********************************************************************************)
(* Proofs about ServerLifecycle, for any number of processes and requests and any     *)
(* handlers.  LifecycleInv says where the requests of a process can be while its main  *)
(* goroutine is where it is.                                                          *)
(***********************************************************************************)
EXTENDS ServerLifecycle, TLAPS

LEMMA AccessTyped == ASSUME NEW m \in Maps PROVE Read(m) \in Access /\ Write(m) \in Access
  BY DEF Read, Write, Access

LEMMA HandlersTyped == ASSUME NEW kind \in Kinds PROVE Handlers[kind] \in Seq(Access)
<1>1. {"reviews", "causes", "triggers"} = Maps
  BY DEF Maps
<1>2. renderIndex \in Seq(Access) /\ Index \in Seq(Access) /\ Edit \in Seq(Access)
  BY <1>1, AccessTyped DEF renderIndex, Index, Edit
<1>3. Create \in Seq(Access)
  <2>1. <<Write("reviews")>> \in Seq(Access)
    BY <1>1, AccessTyped
  <2> QED BY <1>2, <2>1 DEF Create
<1>4. Show \in Seq(Access) /\ Update \in Seq(Access) /\ New \in Seq(Access)
  BY <1>1, AccessTyped DEF Show, Update, New
<1>5. ASSUME NEW m \in Maps
      PROVE  /\ EditBound(m) \in Seq(Access) /\ UpdateBound(m) \in Seq(Access)
             /\ CreateRow(m) \in Seq(Access) /\ BindTo(m) \in Seq(Access)
  <2>1. /\ EditBound(m) \in Seq(Access) /\ UpdateBound(m) \in Seq(Access)
        /\ CreateRow(m) \in Seq(Access) /\ Reload(m) \in Seq(Access)
    BY <1>1, AccessTyped DEF EditBound, UpdateBound, CreateRow, Reload
  <2>2. <<Read("reviews"), Read(m), Write("reviews")>> \in Seq(Access)
    BY <1>1, AccessTyped
  <2> QED BY <2>1, <2>2 DEF BindTo
<1>6. kind \in DOMAIN Handlers
  BY ServersAssumption
<1> HIDE DEF Index, Create, Show, Edit, Update, BindTo, EditBound, UpdateBound, New, CreateRow
<1> QED BY <1>1, <1>2, <1>3, <1>4, <1>5, <1>6 DEF Handlers

-------------------------------------------------------------------------------------
(* What the resets of a process's connections do to the requests.                          *)
LEMMA ResetTyped ==
  ASSUME TypeOK, NEW s \in Servers, NEW running \in SUBSET Requests, Reset(s, running)
  PROVE  /\ request' \in [Requests -> Request]
         /\ \A r \in Requests :
              /\ request'[r].at = request[r].at
              /\ request'[r] = request[r] \/ ~ request'[r].inside
              /\ request'[r].where =
                   IF r \in Waiting(s) THEN "dropped"
                   ELSE IF r \in running THEN "cut" ELSE request[r].where
<1>1. request \in [Requests -> Request]
  BY DEF TypeOK
<1>2. ASSUME NEW r \in Requests, NEW end \in {"dropped", "cut"}
      PROVE  /\ Ended(r, end) \in Request /\ Ended(r, end).at = request[r].at
             /\ Ended(r, end).where = end /\ ~ Ended(r, end).inside
  <2>1. request[r] \in Request
    BY <1>1
  <2>2. request[r].at \in Servers \cup {Nobody} /\ <<>> \in Seq(Access)
    BY <2>1 DEF Request
  <2> QED BY <2>2 DEF Ended, Request
<1>3. ASSUME NEW r \in Requests
      PROVE  request'[r] = IF r \in Waiting(s) THEN Ended(r, "dropped")
                           ELSE IF r \in running THEN Ended(r, "cut") ELSE request[r]
  BY DEF Reset
<1>4. request' = [r \in Requests |-> request'[r]]
  BY DEF Reset
<1>5. ASSUME NEW r \in Requests PROVE request'[r] \in Request
  <2>1. request[r] \in Request
    BY <1>1
  <2> QED BY <1>2, <1>3, <2>1
<1> QED BY <1>2, <1>3, <1>4, <1>5

(* The end of a process, whatever it is: nothing of it is left running or waiting.           *)
LEMMA ExitInv ==
  ASSUME LifecycleInv, NEW s \in Servers, NEW how \in {"0", "1", "2", "signal"},
         phase[s] # "exited", Exit(s, how), how = "0" => Running(s) = {}
  PROVE  LifecycleInv'
<1> USE DEF LifecycleInv
<1>1. /\ request' \in [Requests -> Request]
      /\ \A r \in Requests :
           /\ request'[r].at = request[r].at
           /\ request'[r] = request[r] \/ ~ request'[r].inside
           /\ request'[r].where = IF r \in Waiting(s) THEN "dropped"
                                  ELSE IF r \in Running(s) THEN "cut" ELSE request[r].where
  BY ResetTyped DEF Exit, Running
<1>2. /\ phase' = [phase EXCEPT ![s] = "exited"] /\ status' = [status EXCEPT ![s] = how]
      /\ seeds' = seeds /\ queue' = [queue EXCEPT ![s] = 0]
      /\ port' = IF port = s THEN Nobody ELSE port
  BY DEF Exit, Becomes, CloseListener
<1>3. TypeOK'
  BY <1>1, <1>2 DEF TypeOK, Phases, MaxQueue
<1>4. Placed'
  <2> SUFFICES ASSUME NEW r \in Requests
               PROVE  /\ request'[r].where # "unsent" => request'[r].at \in Servers
                      /\ request'[r].where = "waiting" => request'[r].at = port'
                      /\ request'[r].where = "running" =>
                           phase'[request'[r].at] \in {"serving", "notified", "stopping"}
                      /\ request'[r].where = "cut" => status'[request'[r].at] \in {"1", "2", "signal"}
                      /\ request'[r].inside =>
                           request'[r].where = "running" /\ request'[r].todo # <<>>
    BY DEF Placed
  <2>0. request'[r].inside => request'[r].where = "running" /\ request'[r].todo # <<>>
    BY <1>1 DEF Placed
  <2>1. CASE request[r].at = s
    <3>1. status[s] = "none"
      BY DEF TypeOK
    <3>2. request[r].where # "cut"
      BY <2>1, <3>1 DEF Placed
    <3>3. request'[r].where \notin {"waiting", "running"}
      BY <1>1, <2>1 DEF Waiting, Running
    <3>4. request'[r].where = "cut" => how # "0"
      BY <1>1, <3>2
    <3>5. request'[r].where = "cut" => status'[s] \in {"1", "2", "signal"}
      BY <1>2, <3>4 DEF TypeOK
    <3>6. request'[r].where # "unsent" => request'[r].at \in Servers
      BY <1>1, <2>1
    <3> QED BY <1>1, <2>0, <2>1, <3>3, <3>5, <3>6
  <2>2. CASE request[r].at # s
    <3>1. request'[r].where = request[r].where /\ request'[r].at = request[r].at
      BY <1>1, <2>2 DEF Waiting, Running
    <3>2. request[r].where # "unsent" =>
            phase'[request[r].at] = phase[request[r].at] /\ status'[request[r].at] = status[request[r].at]
      BY <1>2, <2>2 DEF Placed, TypeOK
    <3>3. request[r].where = "waiting" => port' = port
      BY <1>2, <2>2 DEF Placed
    <3> QED BY <2>0, <3>1, <3>2, <3>3 DEF Placed
  <2> QED BY <2>1, <2>2
<1>5. Seeded'
  BY <1>2 DEF Seeded, TypeOK
<1>6. PortIsHeldByTheLiving'
  BY <1>2 DEF PortIsHeldByTheLiving, TypeOK
<1> QED BY <1>3, <1>4, <1>5, <1>6

LEMMA LifecycleInit == Init => LifecycleInv
<1> SUFFICES ASSUME Init PROVE LifecycleInv
  OBVIOUS
<1>1. [where |-> "unsent", at |-> Nobody, todo |-> <<>>, inside |-> FALSE] \in Request
  BY DEF Request
<1>2. TypeOK
  BY <1>1 DEF Init, TypeOK, Phases, MaxQueue
<1> QED BY <1>2 DEF Init, LifecycleInv, Placed, Seeded, PortIsHeldByTheLiving

-------------------------------------------------------------------------------------
(* A process goes on with its start and touches no request.                                  *)
LEMMA PhaseInv ==
  ASSUME LifecycleInv, NEW s \in Servers, NEW p \in {"listening", "failed", "serving", "notified"},
         phase[s] # "exited", phase' = [phase EXCEPT ![s] = p],
         UNCHANGED <<status, queue, request>>,
         phase[s] \in {"serving", "notified", "stopping"} => p \in {"serving", "notified"},
         port' = port \/ (port = Nobody /\ port' = s),
         seeds' \in [Servers -> SUBSET {"causes", "triggers"}],
         \A t \in Servers : t # s => seeds'[t] = seeds[t],
         p \in {"serving", "notified"} => seeds'[s] = {"causes", "triggers"}
  PROVE  LifecycleInv'
<1> USE DEF LifecycleInv
<1>1. TypeOK'
  BY DEF TypeOK, Phases
<1>2. Placed'
  BY ServersAssumption DEF Placed, TypeOK
<1>3. Seeded'
  BY DEF Seeded, TypeOK
<1>4. PortIsHeldByTheLiving'
  BY DEF PortIsHeldByTheLiving, TypeOK
<1> QED BY <1>1, <1>2, <1>3, <1>4

LEMMA StartInv ==
  ASSUME LifecycleInv, NEW s \in Servers,
         Listen(s) \/ Seed(s, "causes") \/ Seed(s, "triggers") \/ Serve(s) \/ Notify(s)
  PROVE  LifecycleInv'
<1>1. CASE Listen(s)
  <2>1. seeds' = seeds /\ seeds \in [Servers -> SUBSET {"causes", "triggers"}]
    BY <1>1 DEF Listen, LifecycleInv, TypeOK
  <2>2. CASE port = Nobody
    BY <1>1, <2>1, <2>2, PhaseInv DEF Listen, Becomes
  <2>3. CASE port # Nobody
    BY <1>1, <2>1, <2>3, PhaseInv DEF Listen, Becomes
  <2> QED BY <2>2, <2>3
<1>2. ASSUME NEW kind \in {"causes", "triggers"}, Seed(s, kind) PROVE LifecycleInv'
  <2>1. seeds \in [Servers -> SUBSET {"causes", "triggers"}] /\ phase \in [Servers -> Phases]
    BY DEF LifecycleInv, TypeOK
  <2>2. CASE seeds' = [seeds EXCEPT ![s] = @ \cup {kind}] /\ UNCHANGED phase
    <3>1. phase' = [phase EXCEPT ![s] = "listening"]
      BY <1>2, <2>1, <2>2 DEF Seed
    <3>2. seeds' \in [Servers -> SUBSET {"causes", "triggers"}]
      BY <2>1, <2>2
    <3>3. \A t \in Servers : t # s => seeds'[t] = seeds[t]
      BY <2>1, <2>2
    <3> QED BY <1>2, <3>1, <3>2, <3>3, PhaseInv DEF Seed
  <2>3. CASE Becomes(s, "failed") /\ UNCHANGED seeds
    BY <1>2, <2>1, <2>3, PhaseInv DEF Seed, Becomes
  <2> QED BY <1>2, <2>2, <2>3 DEF Seed
<1>3. CASE Serve(s) \/ Notify(s)
  <2>1. seeds' = seeds /\ seeds \in [Servers -> SUBSET {"causes", "triggers"}]
    BY <1>3 DEF Serve, Notify, LifecycleInv, TypeOK
  <2>2. CASE Serve(s)
    BY <2>1, <2>2, PhaseInv DEF Serve, Becomes
  <2>3. CASE Notify(s)
    <3>1. seeds'[s] = {"causes", "triggers"}
      BY <2>1, <2>3 DEF Notify, LifecycleInv, Seeded
    <3> QED BY <2>1, <2>3, <3>1, PhaseInv DEF Notify, Becomes
  <2> QED BY <1>3, <2>2, <2>3
<1> QED BY <1>1, <1>2, <1>3

(* The shutdown begins: what waits is reset, what runs goes on.                              *)
LEMMA StopInv ==
  ASSUME LifecycleInv, NEW s \in Servers, Stop(s)
  PROVE  LifecycleInv'
<1> USE DEF LifecycleInv
<1>1. /\ request' \in [Requests -> Request]
      /\ \A r \in Requests :
           /\ request'[r].at = request[r].at
           /\ request'[r] = request[r] \/ ~ request'[r].inside
           /\ request'[r].where = IF r \in Waiting(s) THEN "dropped" ELSE request[r].where
  BY ResetTyped DEF Stop
<1>2. /\ phase' = [phase EXCEPT ![s] = "stopping"] /\ phase[s] = "notified"
      /\ UNCHANGED <<status, seeds>> /\ queue' = [queue EXCEPT ![s] = @ - 1] /\ queue[s] > 0
      /\ port' = IF port = s THEN Nobody ELSE port
  BY DEF Stop, Becomes, CloseListener
<1>3. TypeOK'
  <2>1. queue' \in [Servers -> 0..MaxQueue]
    BY <1>2 DEF TypeOK, MaxQueue
  <2> QED BY <1>1, <1>2, <2>1 DEF TypeOK, Phases
<1>4. Placed'
  BY <1>1, <1>2 DEF Placed, TypeOK, Waiting
<1>5. Seeded'
  BY <1>2 DEF Seeded, TypeOK
<1>6. PortIsHeldByTheLiving'
  BY <1>2 DEF PortIsHeldByTheLiving, TypeOK
<1> QED BY <1>3, <1>4, <1>5, <1>6

(* The steps of one request, which change nothing of the processes.                          *)
LEMMA RequestInv ==
  ASSUME LifecycleInv, NEW r \in Requests,
         Connect(r) \/ (\E kind \in Kinds : Accept(r, kind)) \/ Handler(r)
  PROVE  LifecycleInv'
<1> USE DEF LifecycleInv
<1>1. UNCHANGED <<phase, status, seeds, queue, port>>
  BY DEF Connect, Accept, Handler, Enter, Leave, Answer
<1>2. request \in [Requests -> Request] /\ request[r] \in Request
  BY DEF TypeOK
<1>3. \A q \in Requests : q # r => request'[q] = request[q]
  BY <1>2 DEF Connect, Accept, Handler, Enter, Leave, Answer
<1>4. /\ request' \in [Requests -> Request]
      /\ request'[r].where # "unsent" => request'[r].at \in Servers
      /\ request'[r].where = "waiting" => request'[r].at = port
      /\ request'[r].where = "running" =>
           phase[request'[r].at] \in {"serving", "notified", "stopping"}
      /\ request'[r].where # "cut"
      /\ request'[r].inside => request'[r].where = "running" /\ request'[r].todo # <<>>
  <2>1. CASE Connect(r)
    BY <1>2, <2>1 DEF Connect, Request, TypeOK, Placed
  <2>2. ASSUME NEW kind \in Kinds, Accept(r, kind) PROVE <1>4
    <3>1. Handlers[kind] \in Seq(Access)
      BY HandlersTyped
    <3> QED BY <1>2, <2>2, <3>1 DEF Accept, Request, Placed
  <2>3. CASE Enter(r)
    BY <1>2, <2>3 DEF Enter, Request, Placed
  <2>4. CASE Leave(r)
    <3>1. request[r].todo \in Seq(Access) /\ request[r].todo # <<>>
      BY <1>2, <2>4 DEF Leave, Request, Placed
    <3>2. Tail(request[r].todo) \in Seq(Access)
      BY <3>1
    <3>3. request' = [request EXCEPT ![r] =
            [request[r] EXCEPT !.inside = FALSE, !.todo = Tail(request[r].todo)]]
      BY <1>2, <2>4 DEF Leave
    <3>4. [request[r] EXCEPT !.inside = FALSE, !.todo = Tail(request[r].todo)] \in Request
      BY <1>2, <3>2 DEF Request
    <3>5. request' \in [Requests -> Request]
      BY <1>2, <3>3, <3>4
    <3>6. request'[r].where = "running" /\ request'[r].at = request[r].at /\ ~ request'[r].inside
      BY <1>2, <2>4, <3>3 DEF Leave, Request
    <3> QED BY <2>4, <3>5, <3>6 DEF Leave, Placed
  <2>5. CASE Answer(r)
    BY <1>2, <2>5 DEF Answer, Ended, Request, Placed
  <2> QED BY <2>1, <2>2, <2>3, <2>4, <2>5 DEF Handler
<1>5. TypeOK'
  BY <1>1, <1>4 DEF TypeOK
<1>6. Placed'
  BY <1>1, <1>3, <1>4 DEF Placed
<1>7. Seeded' /\ PortIsHeldByTheLiving'
  BY <1>1 DEF Seeded, PortIsHeldByTheLiving
<1> QED BY <1>5, <1>6, <1>7

LEMMA LifecycleNext == ASSUME LifecycleInv, [Next]_vars PROVE LifecycleInv'
<1>1. ASSUME NEW s \in Servers, Main(s) PROVE LifecycleInv'
  <2>1. CASE NilServer(s)
    BY <2>1, ExitInv DEF NilServer
  <2> QED BY <1>1, <2>1, StartInv, StopInv DEF Main
<1>2. ASSUME NEW s \in Servers, Shutdown(s) \/ MapFault(s) PROVE LifecycleInv'
  <2>1. CASE MapFault(s)
    <3>1. PICK r \in Running(s) : TRUE
      BY <2>1 DEF MapFault, Collision
    <3>2. phase[s] # "exited"
      BY <3>1 DEF LifecycleInv, Placed, Running
    <3> QED BY <2>1, <3>2, ExitInv DEF MapFault
  <2> QED BY <1>2, <2>1, ExitInv DEF Shutdown, Drained, Deadline
<1>3. ASSUME NEW s \in Servers, Signal(s) PROVE LifecycleInv'
  <2>1. CASE phase[s] \in {"notified", "stopping"}
    <3>1. /\ queue[s] < MaxQueue /\ queue' = [queue EXCEPT ![s] = @ + 1]
          /\ UNCHANGED <<phase, status, seeds, port, request>>
      BY <1>3, <2>1 DEF Signal
    <3>2. queue' \in [Servers -> 0..MaxQueue]
      BY <3>1 DEF LifecycleInv, TypeOK, MaxQueue
    <3> QED BY <3>1, <3>2 DEF LifecycleInv, TypeOK, Placed, Seeded, PortIsHeldByTheLiving
  <2>2. CASE phase[s] \notin {"notified", "stopping"}
    BY <1>3, <2>2, ExitInv DEF Signal
  <2> QED BY <2>1, <2>2
<1>4. CASE UNCHANGED vars
  BY <1>4 DEF vars, LifecycleInv, TypeOK, Placed, Seeded, PortIsHeldByTheLiving
<1> QED BY <1>1, <1>2, <1>3, <1>4, RequestInv DEF Next

-------------------------------------------------------------------------------------
(* For any number of processes and requests: the requests of a process are where its main      *)
(* goroutine lets them be.                                                                    *)
THEOREM Lifecycle == Spec => []LifecycleInv
  BY LifecycleInit, LifecycleNext, PTL DEF Spec

(* The phases of processes and requests, the exit status, the seeds and the signals in the     *)
(* queue stay what main.go, reviewer.go and net/http can make of them; the queue never          *)
(* overflows, and a process has an exit status exactly when it has exited.                        *)
THEOREM TypesHold == Spec => []TypeOK
<1>1. LifecycleInv => TypeOK
  BY DEF LifecycleInv
<1> QED BY <1>1, Lifecycle, PTL

(* No request runs before the default cause and trigger are saved.                             *)
THEOREM SeedsComeFirst == Spec => []RequestsFindTheSeeds
<1>1. LifecycleInv => RequestsFindTheSeeds
  BY DEF LifecycleInv, Placed, Seeded, RequestsFindTheSeeds
<1> QED BY <1>1, Lifecycle, PTL

(* A process that exits with 0 has answered every request a goroutine had.                     *)
THEOREM GracefulExit == Spec => []GracefulExitAnswersAll
<1>1. LifecycleInv => GracefulExitAnswersAll
  <2> SUFFICES ASSUME LifecycleInv, NEW r \in Requests,
                      request[r].where \in {"waiting", "running", "cut"}
               PROVE  status[request[r].at] # "0"
    BY DEF GracefulExitAnswersAll
  <2>1. request[r].at \in Servers
    BY DEF LifecycleInv, Placed
  <2>2. CASE request[r].where = "waiting"
    <3>1. request[r].at = port /\ phase[port] # "exited"
      BY <2>1, <2>2, ServersAssumption DEF LifecycleInv, Placed, PortIsHeldByTheLiving
    <3> QED BY <2>1, <3>1 DEF LifecycleInv, TypeOK
  <2>3. CASE request[r].where = "running"
    BY <2>1, <2>3 DEF LifecycleInv, TypeOK, Placed
  <2>4. CASE request[r].where = "cut"
    BY <2>4 DEF LifecycleInv, Placed
  <2> QED BY <2>2, <2>3, <2>4
<1> QED BY <1>1, Lifecycle, PTL

(* The port is free for the next process as soon as one drains its requests or has ended.      *)
THEOREM PortFreed == Spec => []PortIsHeldByTheLiving
<1>1. LifecycleInv => PortIsHeldByTheLiving
  BY DEF LifecycleInv
<1> QED BY <1>1, Lifecycle, PTL
====================================================================================
