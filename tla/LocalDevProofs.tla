------------------------------- MODULE LocalDevProofs -------------------------------
(***********************************************************************************)
(* Proofs about LocalDevDependencies, for any number of commands, starts and signals. *)
(* The invariant DaemonInv says where startPostgres is while the handler of a signal   *)
(* waits for it, and that the health check follows the connection string.             *)
(***********************************************************************************)
EXTENDS LocalDevDependencies, TLAPS

LEMMA TypeInit == Init => TypeOK
<1> SUFFICES ASSUME Init PROVE TypeOK
  OBVIOUS
<1>1. pc \in [Commands -> {"idle", "polling", "killing", "waiting"} \cup Ends] /\ inside \in Goroutines
  BY DEF Init, Fresh, Goroutines
<1>2. /\ mine \in [Commands -> 0..starts] /\ refused \in [Commands -> 0..MaxRefused]
      /\ starts \in 0..MaxStarts /\ conf \in 0..starts
  BY LimitsAssumption DEF Init
<1>3. queue \in Seq({"quit", "stop"}) /\ Len(queue) <= MaxSignals
  BY LimitsAssumption DEF Init
<1> QED BY <1>1, <1>2, <1>3 DEF Init, TypeOK

(* The goroutines of a daemon that begins, and of one that ended, are typed.               *)
LEMMA FreshTyped == Fresh \in Goroutines
  BY DEF Fresh, Goroutines

LEMMA ExitTyped ==
  ASSUME Exit
  PROVE  /\ alive' = FALSE /\ inside' \in Goroutines
         /\ queue' \in Seq({"quit", "stop"}) /\ Len(queue') = 0
<1>1. queue' = <<>> /\ inside' = Fresh /\ alive' = FALSE
  BY DEF Exit
<1> QED BY <1>1, FreshTyped

LEMMA TypeNext ==
  ASSUME TypeOK, [Next]_vars
  PROVE  TypeOK'
<1> USE DEF TypeOK, Ends
<1>1. ASSUME NEW c \in Commands, Start(c) PROVE TypeOK'
  <2>1. inside' \in Goroutines /\ queue' \in Seq({"quit", "stop"}) /\ Len(queue') <= MaxSignals
    BY <1>1, FreshTyped, LimitsAssumption DEF Start
  <2>2. pc' \in [Commands -> {"idle", "polling", "killing", "waiting"} \cup Ends]
    BY <1>1 DEF Start, Becomes
  <2>3. starts' \in 0..MaxStarts /\ starts' > 0 /\ conf' \in 0..starts'
        /\ containers' \subseteq 1..starts'
    BY <1>1, LimitsAssumption DEF Start
  <2>4. mine' \in [Commands -> 0..starts'] /\ refused' \in [Commands -> 0..MaxRefused]
    BY <1>1, LimitsAssumption DEF Start
  <2> QED BY <1>1, <2>1, <2>2, <2>3, <2>4 DEF Start
<1>2. ASSUME NEW c \in Commands, AlreadyRunning(c) \/ Poll(c) \/ GiveUp(c) \/ Gone(c) PROVE TypeOK'
  <2>1. pc' \in [Commands -> {"idle", "polling", "killing", "waiting"} \cup Ends]
    BY <1>2 DEF AlreadyRunning, Poll, GiveUp, Gone, Becomes
  <2>2. refused' \in [Commands -> 0..MaxRefused]
    <3>1. CASE Poll(c)
      BY <3>1, LimitsAssumption DEF Poll
    <3> QED BY <1>2, <3>1 DEF AlreadyRunning, GiveUp, Gone
  <2>3. UNCHANGED <<mine, starts, alive, inside, queue, containers, conf>>
    BY <1>2 DEF AlreadyRunning, Poll, GiveUp, Gone
  <2> QED BY <2>1, <2>2, <2>3
<1>3. ASSUME NEW c \in Commands, Stop(c) PROVE TypeOK'
  <2>1. pc' \in [Commands -> {"idle", "polling", "killing", "waiting"} \cup Ends]
    BY <1>3 DEF Stop, Becomes
  <2>2. mine' \in [Commands -> 0..starts]
    <3>1. starts \in 0..starts
      BY LimitsAssumption
    <3>2. mine' = [mine EXCEPT ![c] = starts] \/ mine' = mine
      BY <1>3 DEF Stop
    <3> QED BY <3>1, <3>2
  <2> QED BY <1>3, <2>1, <2>2 DEF Stop
<1>11. ASSUME NEW c \in Commands, Kill(c) PROVE TypeOK'
  <2>1. pc' \in [Commands -> {"idle", "polling", "killing", "waiting"} \cup Ends]
    BY <1>11 DEF Kill, Becomes
  <2>2. /\ alive' \in BOOLEAN /\ inside' \in Goroutines /\ (alive' => starts > 0)
        /\ queue' \in Seq({"quit", "stop"}) /\ Len(queue') <= MaxSignals
    <3>1. CASE Exit
      BY <3>1, ExitTyped, LimitsAssumption
    <3>2. CASE UNCHANGED <<alive, inside, queue>>
      BY <3>2
    <3> QED BY <1>11, <3>1, <3>2 DEF Kill
  <2> QED BY <1>11, <2>1, <2>2 DEF Kill
<1>4. ASSUME NEW sig \in {"quit", "stop"}, SendSignal(sig) PROVE TypeOK'
  <2>1. CASE Exit
    BY <1>4, <2>1, ExitTyped, LimitsAssumption DEF SendSignal
  <2>2. CASE inside.notified /\ Len(queue) < MaxSignals /\ queue' = Append(queue, sig)
             /\ UNCHANGED <<alive, inside>>
    <3>1. queue' \in Seq({"quit", "stop"}) /\ Len(queue') = Len(queue) + 1
      BY <2>2
    <3> QED BY <1>4, <2>2, <3>1, LimitsAssumption DEF SendSignal
  <2> QED BY <1>4, <2>1, <2>2 DEF SendSignal
<1>5. CASE ServeHTTP \/ ServeSignals \/ SendStop \/ Cancel \/ Migrate \/ StartFails \/ Report
  <2>1. UNCHANGED <<pc, mine, refused, starts, alive, queue, containers, conf>>
    BY <1>5 DEF ServeHTTP, ServeSignals, SendStop, Cancel, Migrate, StartFails, Report, Inside
  <2>2. inside' \in Goroutines
    <3>1. CASE ServeHTTP
      BY <3>1 DEF ServeHTTP, Inside, Goroutines
    <3>2. CASE ServeSignals
      BY <3>2 DEF ServeSignals, Inside, Goroutines
    <3>3. CASE SendStop
      BY <3>3 DEF SendStop, Inside, Goroutines
    <3>4. CASE Cancel
      BY <3>4 DEF Cancel, Inside, Goroutines
    <3>5. CASE Migrate
      BY <3>5 DEF Migrate, Inside, Goroutines
    <3>6. CASE StartFails
      BY <3>6 DEF StartFails, Inside, Goroutines
    <3>7. CASE Report
      BY <3>7 DEF Report, Inside, Goroutines
    <3> QED BY <1>5, <3>1, <3>2, <3>3, <3>4, <3>5, <3>6, <3>7
  <2> QED BY <2>1, <2>2
<1>6. CASE HandleSignal
  <2>1. Head(queue) \in {"quit", "stop"} /\ Tail(queue) \in Seq({"quit", "stop"})
        /\ Len(Tail(queue)) <= MaxSignals
    BY <1>6, LimitsAssumption DEF HandleSignal
  <2>2. UNCHANGED <<pc, mine, refused, starts, alive, containers, conf>> /\ queue' = Tail(queue)
    BY <1>6 DEF HandleSignal, Inside
  <2>3. inside' \in Goroutines
    BY <1>6, <2>1 DEF HandleSignal, Inside, Goroutines
  <2> QED BY <2>1, <2>2, <2>3
<1>7. CASE RunContainer \/ Terminate
  <2>1. inside' \in Goroutines
    BY <1>7 DEF RunContainer, Terminate, Inside, Goroutines
  <2>2. containers' \subseteq 1..starts
    BY <1>7, LimitsAssumption DEF RunContainer, Terminate, Inside
  <2> QED BY <1>7, <2>1, <2>2 DEF RunContainer, Terminate, Inside
<1>8. CASE Record \/ CreateConf
  <2>1. CASE Exit /\ UNCHANGED <<pc, mine, refused, starts, containers, conf>>
    BY <2>1, ExitTyped, LimitsAssumption
  <2>2. CASE /\ Inside([inside EXCEPT !.postgres = "running", !.postgresUp = TRUE])
             /\ conf' = starts /\ UNCHANGED <<queue, containers>>
    <3>1. inside' \in Goroutines
      BY <2>2 DEF Inside, Goroutines
    <3> QED BY <2>2, <3>1, LimitsAssumption DEF Inside
  <2>3. CASE /\ Inside([inside EXCEPT !.postgres = "writing"])
             /\ conf' = 0 /\ UNCHANGED <<queue, containers>>
    <3>1. inside' \in Goroutines
      BY <2>3 DEF Inside, Goroutines
    <3> QED BY <2>3, <3>1, LimitsAssumption DEF Inside
  <2> QED BY <1>8, <2>1, <2>2, <2>3 DEF Record, CreateConf
<1>9. CASE MainExits
  BY <1>9, ExitTyped, LimitsAssumption DEF MainExits
<1>10. CASE UNCHANGED vars
  BY <1>10 DEF vars
<1> QED
  BY <1>1, <1>2, <1>3, <1>4, <1>5, <1>6, <1>7, <1>8, <1>9, <1>10, <1>11
     DEF Next, HTTP, Signalling, Postgres

-------------------------------------------------------------------------------------
LEMMA DaemonInit == Init => DaemonInv
  BY DEF Init, DaemonInv, HandOver, Recorded, Fresh

(* A daemon that begins or ends has nothing to hand over, and no file to have written.    *)
LEMMA FreshHandsOver ==
  ASSUME inside' = Fresh
  PROVE  HandOver' /\ ~ inside'.postgresUp
  BY DEF HandOver, Fresh

LEMMA DaemonNext ==
  ASSUME TypeOK, DaemonInv, [Next]_vars
  PROVE  DaemonInv'
<1> /\ starts \in Nat /\ conf \in Nat /\ mine \in [Commands -> Nat]
    /\ pc \in [Commands -> {"idle", "polling", "killing", "waiting"} \cup Ends] /\ inside \in Goroutines
  BY LimitsAssumption DEF TypeOK
<1> USE DEF DaemonInv
<1>1. ASSUME NEW c \in Commands, Start(c) PROVE DaemonInv'
  <2>1. HandOver' /\ ~ inside'.postgresUp /\ inside'.postgres = "starting"
    BY <1>1, FreshHandsOver DEF Start, Fresh
  <2>2. \A d \in Commands :
          /\ mine'[d] <= starts'
          /\ pc'[d] = "up" =>
               mine'[d] < starts' /\ (conf' >= mine'[d] \/ (conf' = 0 /\ mine'[d] < starts'))
    BY <1>1 DEF Start, Becomes, Recorded
  <2> QED BY <1>1, <2>1, <2>2 DEF Start, Recorded
<1>2. ASSUME NEW c \in Commands, Poll(c) PROVE DaemonInv'
  <2>1. UNCHANGED <<mine, starts, alive, inside, containers, conf>>
    BY <1>2 DEF Poll
  <2>2. \A d \in Commands : pc'[d] = "up" =>
          /\ conf >= mine[d] \/ (conf = 0 /\ mine[d] < starts)
          /\ mine[d] = starts /\ alive => inside.postgresUp
    BY <1>2 DEF Poll, Becomes, Answers, Recorded
  <2> QED BY <2>1, <2>2 DEF HandOver, Recorded
<1>3. ASSUME NEW c \in Commands, AlreadyRunning(c) \/ GiveUp(c) \/ Gone(c) PROVE DaemonInv'
  <2>1. \A d \in Commands : pc'[d] = "up" => pc[d] = "up"
    BY <1>3 DEF AlreadyRunning, GiveUp, Gone, Becomes
  <2>2. UNCHANGED <<mine, starts, alive, inside, containers, conf>>
    BY <1>3 DEF AlreadyRunning, GiveUp, Gone
  <2> QED BY <2>1, <2>2 DEF HandOver, Recorded
<1>4. ASSUME NEW c \in Commands, Stop(c) PROVE DaemonInv'
  <2>1. \A d \in Commands :
          mine'[d] <= starts /\ (pc'[d] = "up" => pc[d] = "up" /\ mine'[d] = mine[d])
    BY <1>4 DEF Stop, Becomes, Recorded
  <2>2. UNCHANGED <<starts, alive, inside, containers, conf>>
    BY <1>4 DEF Stop
  <2> QED BY <2>1, <2>2 DEF HandOver, Recorded
<1>5. ASSUME Exit, UNCHANGED <<mine, starts, containers, conf>>,
             \A d \in Commands : pc'[d] = "up" => pc[d] = "up"
      PROVE  DaemonInv'
  <2>1. HandOver' /\ ~ inside'.postgresUp /\ inside'.postgres = "starting" /\ ~ alive'
    BY <1>5, FreshHandsOver DEF Exit, Fresh
  <2> QED BY <1>5, <2>1 DEF Recorded
<1>12. ASSUME NEW c \in Commands, Kill(c) PROVE DaemonInv'
  <2>1. \A d \in Commands : pc'[d] = "up" => pc[d] = "up"
    BY <1>12 DEF Kill, Becomes
  <2>2. UNCHANGED <<mine, starts, containers, conf>>
    BY <1>12 DEF Kill
  <2>3. CASE Exit
    BY <1>5, <2>1, <2>2, <2>3
  <2>4. CASE UNCHANGED <<alive, inside, queue>>
    BY <2>1, <2>2, <2>4 DEF HandOver, Recorded
  <2> QED BY <1>12, <2>3, <2>4 DEF Kill
<1>6. ASSUME NEW sig \in {"quit", "stop"}, SendSignal(sig) PROVE DaemonInv'
  <2>1. CASE Exit
    BY <1>5, <1>6, <2>1 DEF SendSignal
  <2>2. CASE UNCHANGED <<alive, inside>>
    BY <1>6, <2>2 DEF SendSignal, HandOver, Recorded
  <2> QED BY <1>6, <2>1, <2>2 DEF SendSignal
<1>7. CASE ServeHTTP \/ ServeSignals \/ HandleSignal \/ SendStop \/ Cancel \/ Migrate
           \/ StartFails \/ Report
  <2>0. Recorded'
    <3>1. UNCHANGED <<pc, mine, starts, alive, conf>>
      BY <1>7 DEF ServeHTTP, ServeSignals, HandleSignal, SendStop, Cancel, Migrate, StartFails,
                  Report, Inside
    <3>2. /\ inside'.postgresUp = inside.postgresUp
          /\ inside'.postgres # "writing" \/ inside'.postgres = inside.postgres
      BY <1>7 DEF ServeHTTP, ServeSignals, HandleSignal, SendStop, Cancel, Migrate, StartFails,
                  Report, Inside, Goroutines
    <3> QED BY <3>1, <3>2 DEF Recorded
  <2>1. CASE ServeHTTP
    BY <2>0, <2>1 DEF ServeHTTP, Inside, Goroutines, HandOver
  <2>2. CASE ServeSignals
    BY <2>0, <2>2 DEF ServeSignals, Inside, Goroutines, HandOver
  <2>3. CASE HandleSignal
    BY <2>0, <2>3 DEF HandleSignal, Inside, Goroutines, HandOver
  <2>4. CASE SendStop
    BY <2>0, <2>4 DEF SendStop, Inside, Goroutines, HandOver
  <2>5. CASE Cancel
    BY <2>0, <2>5 DEF Cancel, Inside, Goroutines, HandOver
  <2>6. CASE Migrate
    BY <2>0, <2>6 DEF Migrate, Inside, Goroutines, HandOver
  <2>7. CASE StartFails
    BY <2>0, <2>7 DEF StartFails, Inside, Goroutines, HandOver
  <2>8. CASE Report
    BY <2>0, <2>8 DEF Report, Inside, Goroutines, HandOver
  <2> QED BY <1>7, <2>1, <2>2, <2>3, <2>4, <2>5, <2>6, <2>7, <2>8
<1>8. CASE RunContainer \/ Terminate
  <2>1. Recorded'
    <3>1. UNCHANGED <<pc, mine, starts, alive, conf>>
      BY <1>8 DEF RunContainer, Terminate, Inside
    <3>2. /\ inside'.postgresUp = inside.postgresUp
          /\ inside'.postgres # "writing" \/ inside'.postgres = inside.postgres
      BY <1>8 DEF RunContainer, Terminate, Inside, Goroutines
    <3> QED BY <3>1, <3>2 DEF Recorded
  <2>2. CASE RunContainer
    BY <2>1, <2>2 DEF RunContainer, Inside, Goroutines, HandOver
  <2>3. CASE Terminate
    BY <2>1, <2>3 DEF Terminate, Inside, Goroutines, HandOver
  <2> QED BY <1>8, <2>2, <2>3
<1>9. CASE Record \/ CreateConf
  <2>1. CASE Exit /\ UNCHANGED <<pc, mine, refused, starts, containers, conf>>
    BY <1>5, <2>1
  <2>2. CASE /\ inside.postgres = "writing" /\ UNCHANGED containers
             /\ Inside([inside EXCEPT !.postgres = "running", !.postgresUp = TRUE])
             /\ conf' = starts
    BY <2>2 DEF Inside, Goroutines, HandOver, Recorded
  <2>3. CASE /\ inside.postgres = "started" /\ UNCHANGED containers
             /\ Inside([inside EXCEPT !.postgres = "writing"])
             /\ conf' = 0
    <3>1. ~ inside.postgresUp
      BY <2>3 DEF HandOver
    <3>2. \A d \in Commands : pc[d] = "up" => mine[d] < starts
      BY <2>3, <3>1 DEF Inside, Recorded
    <3> QED BY <2>3, <3>1, <3>2 DEF Inside, Goroutines, HandOver, Recorded
  <2> QED BY <1>9, <2>1, <2>2, <2>3 DEF Record, CreateConf
<1>10. CASE MainExits
  BY <1>5, <1>10 DEF MainExits
<1>11. CASE UNCHANGED vars
  BY <1>11 DEF vars, HandOver, Recorded
<1> QED
  BY <1>1, <1>2, <1>3, <1>4, <1>6, <1>7, <1>8, <1>9, <1>10, <1>11, <1>12
     DEF Next, HTTP, Signalling, Postgres

-------------------------------------------------------------------------------------
(* Every variable of the command and the daemon keeps its type.                           *)
THEOREM TypeCorrect == Spec => []TypeOK
<1>1. TypeOK /\ [Next]_vars => TypeOK'
  BY TypeNext
<1> QED BY TypeInit, <1>1, PTL DEF Spec

(* The hand-over between the handler and startPostgres is always in one of its orders, and    *)
(* the health check is never ahead of the connection string.                              *)
THEOREM HandOverHolds == Spec => []DaemonInv
<1>1. TypeOK /\ DaemonInv /\ [Next]_vars => DaemonInv'
  BY DaemonNext
<1> QED BY DaemonInit, <1>1, TypeCorrect, PTL DEF Spec

(* A handler of SIGQUIT that cancels the context does so after docker was told to terminate   *)
(* postgres and answered, for any number of signals and daemons.                          *)
THEOREM GracefulQuit == Spec => []QuitTerminatesPostgres
<1>1. DaemonInv => QuitTerminatesPostgres
  BY DEF DaemonInv, HandOver, QuitTerminatesPostgres
<1> QED BY <1>1, HandOverHolds, PTL

(* A start that reported success finds its connection string as long as its daemon serves its  *)
(* postgres, whatever daemons left behind that were killed between emptying and writing the file. *)
THEOREM RecordedWhenUp == Spec => []UpMeansRecorded
<1>1. DaemonInv => UpMeansRecorded
  BY DEF DaemonInv, HandOver, Recorded, UpMeansRecorded
<1> QED BY <1>1, HandOverHolds, PTL
=====================================================================================
