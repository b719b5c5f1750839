--------------------------- MODULE LocalDevDependencies ---------------------------
(***********************************************************************************)
(* cmd/local-dev-dependencies: a command that starts a daemon, waits until the       *)
(* daemon's postgres is up, and stops the daemon again.  Inside the daemon run the   *)
(* main goroutine, serveHTTP, startPostgres and ServeSignals, which hand over        *)
(* through unbuffered channels: a send and its receive are one step.  One daemon      *)
(* runs at a time, as the locked pid file sees to; the n-th owns the n-th container.  *)
(***********************************************************************************)
EXTENDS Integers, Sequences, FiniteSets

CONSTANTS
  Commands,    \* the invocations of the command without -s
  MaxStarts,   \* bound on the daemons started
  MaxSignals,  \* capacity of the channel ServeSignals listens on
  MaxRefused   \* refused polls in a row after which a start gives up

ASSUME LimitsAssumption == {MaxStarts, MaxSignals, MaxRefused} \subseteq Nat

VARIABLES
  pc,          \* where a command is; "up", "already", "failed" and "stopped" are its ends
  mine,        \* the daemon it started, or killed
  refused,     \* failedConn
  starts,      \* how many daemons were started: the last one's number
  alive,       \* is the last one running?
  inside,      \* the state of its goroutines
  queue,       \* signals its ServeSignals has not handled
  containers,  \* daemons whose container is running
  conf         \* the daemon whose string is in tmp/postgres.conf, 0 if there is none

vars == <<pc, mine, refused, starts, alive, inside, queue, containers, conf>>

(* http: the listener; notified: are the signals ServeSignals' or the runtime's;       *)
(* handler: where ServeSignals is, handling: with which signal; postgres: where         *)
(* startPostgres is; gaveUp: docker did not terminate the container.                   *)
Fresh ==
  [http |-> "closed", notified |-> FALSE, handler |-> "waiting", handling |-> "none",
   postgres |-> "starting", postgresUp |-> FALSE, gaveUp |-> FALSE, cancelled |-> FALSE]

(* Where a command ends.                                                               *)
Ends == {"up", "already", "failed", "stopped"}

Goroutines ==
  [http : {"closed", "serving", "failed"}, notified : BOOLEAN,
   handler : {"waiting", "sending", "awaiting", "done", "ended"},
   handling : {"none", "quit", "stop"},
   postgres : {"starting", "migrating", "started", "failed",
               "writing", "running", "stopping", "reporting", "ended"},
   postgresUp : BOOLEAN, gaveUp : BOOLEAN, cancelled : BOOLEAN]

TypeOK ==
  /\ pc \in [Commands -> {"idle", "polling", "killing", "waiting"} \cup Ends]
  /\ mine \in [Commands -> 0..starts]
  /\ refused \in [Commands -> 0..MaxRefused]
  /\ starts \in 0..MaxStarts /\ alive \in BOOLEAN /\ (alive => starts > 0)
  /\ inside \in Goroutines
  /\ queue \in Seq({"quit", "stop"}) /\ Len(queue) <= MaxSignals
  /\ containers \subseteq 1..starts /\ conf \in 0..starts

Init ==
  /\ pc = [c \in Commands |-> "idle"]
  /\ mine = [c \in Commands |-> 0] /\ refused = [c \in Commands |-> 0]
  /\ starts = 0 /\ alive = FALSE /\ inside = Fresh /\ queue = <<>>
  /\ containers = {} /\ conf = 0

-----------------------------------------------------------------------------------
Becomes(c, label) == pc' = [pc EXCEPT ![c] = label]

(* The daemon's process ends; what docker runs keeps running.                          *)
Exit == alive' = FALSE /\ inside' = Fresh /\ queue' = <<>>

(* The command: Reborn takes the lock and the daemon begins ...                        *)
Start(c) ==
  /\ pc[c] = "idle" /\ ~ alive /\ starts < MaxStarts
  /\ alive' = TRUE /\ inside' = Fresh /\ queue' = <<>>
  /\ starts' = starts + 1
  /\ mine' = [mine EXCEPT ![c] = starts + 1]
  /\ Becomes(c, "polling")
  /\ UNCHANGED <<refused, containers, conf>>

(* ... or somebody else has it, and the command exits at once.                         *)
AlreadyRunning(c) ==
  /\ pc[c] = "idle" /\ alive
  /\ Becomes(c, "already")
  /\ UNCHANGED <<mine, refused, starts, alive, inside, queue, containers, conf>>

(* The health check is asked for; every start has an address of its own.               *)
Answers(c) == alive /\ mine[c] = starts /\ inside.http = "serving"

(* Mutant of Poll: a refused poll is not counted.                                       *)
PollUncounted(c) ==
  /\ pc[c] = "polling"
  /\ IF Answers(c) /\ inside.postgresUp THEN Becomes(c, "up") ELSE UNCHANGED pc
  /\ refused' = [refused EXCEPT ![c] = 0]
  /\ UNCHANGED <<mine, starts, alive, inside, queue, containers, conf>>

Poll(c) ==
  /\ pc[c] = "polling"
  /\ \/ /\ Answers(c) /\ inside.postgresUp
        /\ Becomes(c, "up")
        /\ refused' = [refused EXCEPT ![c] = 0]
     \/ /\ Answers(c) /\ ~ inside.postgresUp
        /\ refused' = [refused EXCEPT ![c] = 0]
        /\ UNCHANGED pc
     \/ /\ ~ Answers(c) /\ refused[c] < MaxRefused
        /\ refused' = [refused EXCEPT ![c] = @ + 1]
        /\ UNCHANGED pc
     \/ /\ ~ Answers(c) /\ refused[c] = MaxRefused
        /\ Becomes(c, "failed")
        /\ UNCHANGED refused
  /\ UNCHANGED <<mine, starts, alive, inside, queue, containers, conf>>

(* The deadline of the polls passes, or a connection breaks.                            *)
GiveUp(c) ==
  /\ pc[c] = "polling"
  /\ Becomes(c, "failed")
  /\ UNCHANGED <<mine, refused, starts, alive, inside, queue, containers, conf>>

(* The stop subcommand looks for the daemon of the pid file ...                           *)
Stop(c) ==
  /\ pc[c] = "idle"
  /\ \/ alive /\ Becomes(c, "killing") /\ mine' = [mine EXCEPT ![c] = starts]
     \/ ~ alive /\ Becomes(c, "stopped") /\ UNCHANGED mine
  /\ UNCHANGED <<refused, starts, alive, inside, queue, containers, conf>>

(* Mutant of Kill: the signal it sends is one a daemon may drop.                          *)
KillPolitely(c) ==
  /\ pc[c] = "killing"
  /\ \/ /\ alive /\ mine[c] = starts
        /\ Exit \/ (inside.notified /\ UNCHANGED <<alive, inside, queue>>)
        /\ Becomes(c, "waiting")
     \/ /\ ~ (alive /\ mine[c] = starts)
        /\ Becomes(c, "failed")
        /\ UNCHANGED <<alive, inside, queue>>
  /\ UNCHANGED <<mine, refused, starts, containers, conf>>

(* ... kills it, wherever its goroutines are, or fails because it has ended since ...      *)
Kill(c) ==
  /\ pc[c] = "killing"
  /\ \/ /\ alive /\ mine[c] = starts
        /\ Exit
        /\ Becomes(c, "waiting")
     \/ /\ ~ (alive /\ mine[c] = starts)
        /\ Becomes(c, "failed")
        /\ UNCHANGED <<alive, inside, queue>>
  /\ UNCHANGED <<mine, refused, starts, containers, conf>>

(* ... and waits until the pid file names no daemon that lives, its own or another.       *)
Gone(c) ==
  /\ pc[c] = "waiting" /\ ~ alive
  /\ Becomes(c, "stopped")
  /\ UNCHANGED <<mine, refused, starts, alive, inside, queue, containers, conf>>

(* Mutant of SendSignal: there is room for every signal.                                 *)
SendSignalAlways(sig) ==
  /\ alive
  /\ \/ ~ inside.notified /\ Exit
     \/ /\ inside.notified
        /\ queue' = Append(queue, sig)
        /\ UNCHANGED <<alive, inside>>
  /\ UNCHANGED <<pc, mine, refused, starts, containers, conf>>

(* -s quit and -s stop.  Without ServeSignals the runtime ends the process; a signal for  *)
(* which the channel has no room is dropped.                                            *)
SendSignal(sig) ==
  /\ alive
  /\ \/ ~ inside.notified /\ Exit
     \/ /\ inside.notified /\ Len(queue) < MaxSignals
        /\ queue' = Append(queue, sig)
        /\ UNCHANGED <<alive, inside>>
  /\ UNCHANGED <<pc, mine, refused, starts, containers, conf>>

-----------------------------------------------------------------------------------
(* The daemon's goroutines: each step changes only what is inside, and docker.           *)
Inside(new) ==
  /\ alive
  /\ inside' = new
  /\ UNCHANGED <<pc, mine, refused, starts, alive>>

(* ListenAndServe; its error, when the address is taken by now, is dropped.              *)
ServeHTTP ==
  /\ inside.http = "closed"
  /\ \E result \in {"serving", "failed"} : Inside([inside EXCEPT !.http = result])
  /\ UNCHANGED <<queue, containers, conf>>

ServeSignals ==
  /\ ~ inside.notified /\ inside.handler = "waiting"
  /\ Inside([inside EXCEPT !.notified = TRUE])
  /\ UNCHANGED <<queue, containers, conf>>

HandleSignal ==
  /\ inside.handler = "waiting" /\ queue # <<>>
  /\ Inside([inside EXCEPT !.handler = "sending", !.handling = Head(queue)])
  /\ queue' = Tail(queue)
  /\ UNCHANGED <<containers, conf>>

(* Mutant of SendStop: it is the fast shutdown that waits.                               *)
SendStopSwapped ==
  /\ inside.handler = "sending" /\ inside.postgres = "running"
  /\ Inside([inside EXCEPT !.postgres = "stopping",
                           !.handler = IF inside.handling = "stop" THEN "awaiting" ELSE "done"])
  /\ UNCHANGED <<queue, containers, conf>>

(* stopChan: the handler's send, for which startPostgres must have come to its receive.   *)
SendStop ==
  /\ inside.handler = "sending" /\ inside.postgres = "running"
  /\ Inside([inside EXCEPT !.postgres = "stopping",
                           !.handler = IF inside.handling = "quit" THEN "awaiting" ELSE "done"])
  /\ UNCHANGED <<queue, containers, conf>>

(* Mutant of Report: nothing is sent on doneChan.                                        *)
ReportNothing ==
  /\ inside.postgres = "reporting"
  /\ Inside([inside EXCEPT !.postgres = "ended"])
  /\ UNCHANGED <<queue, containers, conf>>

(* doneChan                                                                             *)
Report ==
  /\ inside.postgres = "reporting" /\ inside.handler = "awaiting"
  /\ Inside([inside EXCEPT !.postgres = "ended", !.handler = "done"])
  /\ UNCHANGED <<queue, containers, conf>>

(* cancel, and ErrStop makes ServeSignals give the signals back.                          *)
Cancel ==
  /\ inside.handler = "done"
  /\ Inside([inside EXCEPT !.handler = "ended", !.cancelled = TRUE, !.notified = FALSE])
  /\ UNCHANGED <<queue, containers, conf>>

(* startPostgres: the container runs, then its database is migrated ...                   *)
RunContainer ==
  /\ inside.postgres = "starting"
  /\ Inside([inside EXCEPT !.postgres = "migrating"])
  /\ containers' = containers \cup {starts}
  /\ UNCHANGED <<queue, conf>>

Migrate ==
  /\ inside.postgres = "migrating"
  /\ Inside([inside EXCEPT !.postgres = "started"])
  /\ UNCHANGED <<queue, containers, conf>>

(* ... or one of the two fails or takes more than its two minutes; a container that runs   *)
(* is then left behind.                                                                  *)
StartFails ==
  /\ inside.postgres \in {"starting", "migrating"}
  /\ Inside([inside EXCEPT !.postgres = "failed"])
  /\ UNCHANGED <<queue, containers, conf>>

(* os.Create empties tmp/postgres.conf, or log.Fatalf ends the daemon ...                  *)
CreateConf ==
  /\ inside.postgres = "started" /\ alive
  /\ \/ /\ Exit
        /\ UNCHANGED <<pc, mine, refused, starts, conf>>
     \/ /\ Inside([inside EXCEPT !.postgres = "writing"])
        /\ conf' = 0
        /\ UNCHANGED queue
  /\ UNCHANGED containers

(* Mutant of Record: the health check turns true before the string is there.              *)
RecordLater ==
  /\ inside.postgres = "writing"
  /\ \/ /\ ~ inside.postgresUp
        /\ Inside([inside EXCEPT !.postgresUp = TRUE])
        /\ UNCHANGED conf
     \/ /\ inside.postgresUp
        /\ Inside([inside EXCEPT !.postgres = "running"])
        /\ conf' = starts
  /\ UNCHANGED <<queue, containers>>

(* ... and WriteString writes the connection string, or fails, which ends it as well.      *)
Record ==
  /\ inside.postgres = "writing" /\ alive
  /\ \/ /\ Exit
        /\ UNCHANGED <<pc, mine, refused, starts, conf>>
     \/ /\ Inside([inside EXCEPT !.postgres = "running", !.postgresUp = TRUE])
        /\ conf' = starts
        /\ UNCHANGED queue
  /\ UNCHANGED containers

(* done(): Terminate, which waits for docker without a deadline and whose error is logged.   *)
Terminate ==
  /\ inside.postgres = "stopping"
  /\ \/ /\ Inside([inside EXCEPT !.postgres = "reporting"])
        /\ containers' = containers \ {starts}
     \/ /\ Inside([inside EXCEPT !.postgres = "reporting", !.gaveUp = TRUE])
        /\ UNCHANGED containers
  /\ UNCHANGED <<queue, conf>>

(* The select of main: the context is done, or there is an error to receive.              *)
MainExits ==
  /\ alive /\ (inside.cancelled \/ inside.postgres = "failed")
  /\ Exit
  /\ UNCHANGED <<pc, mine, refused, starts, containers, conf>>

-----------------------------------------------------------------------------------
HTTP == ServeHTTP
Signalling == ServeSignals \/ HandleSignal \/ SendStop \/ Cancel
Postgres == RunContainer \/ Migrate \/ StartFails \/ CreateConf \/ Record \/ Terminate \/ Report

Next ==
  \/ \E c \in Commands :
       \/ Start(c) \/ AlreadyRunning(c) \/ Poll(c) \/ GiveUp(c)
       \/ Stop(c) \/ Kill(c) \/ Gone(c)
  \/ \E sig \in {"quit", "stop"} : SendSignal(sig)
  \/ HTTP \/ Signalling \/ Postgres \/ MainExits

Spec == Init /\ [][Next]_vars

(* Each goroutine of the daemon runs, docker answers in the end, and a command that kills,   *)
(* polls or waits goes on.  Nobody has to start or stop anything, and deadlines need not     *)
(* pass.                                                                                 *)
FairSpec ==
  /\ Spec
  /\ WF_vars(HTTP) /\ WF_vars(Signalling) /\ WF_vars(Postgres) /\ WF_vars(MainExits)
  /\ \A c \in Commands : WF_vars(Poll(c)) /\ WF_vars(Kill(c)) /\ WF_vars(Gone(c))

-----------------------------------------------------------------------------------
(* "quit - graceful shutdown" (main.go:31): when the handler of SIGQUIT cancels the          *)
(* context, at which main exits, docker has been told to terminate the container and has      *)
(* answered.  A daemon that is killed, that fails, or that gets the signal before it asks for   *)
(* signals ends without.                                                                  *)
QuitTerminatesPostgres ==
  inside.cancelled /\ inside.handling = "quit" => starts \notin containers \/ inside.gaveUp

(* After a start that reports success tmp/postgres.conf holds the string of its postgres as     *)
(* long as its daemon serves that, and its container runs, whatever daemons that were killed     *)
(* in the middle of writing left behind.  Later the file holds its string or a later daemon's,   *)
(* unless a later one has emptied it, as one does that ends before its string is written.      *)
UpMeansRecorded ==
  \A c \in Commands : pc[c] = "up" =>
    /\ mine[c] = starts /\ inside.postgres = "running" => conf = starts /\ starts \in containers
    /\ conf >= mine[c] \/ (conf = 0 /\ mine[c] < starts)

(* What makes the two hold after every step: which goroutine may be where while the handler   *)
(* of SIGQUIT waits, and that the health check only turns true with the string written.       *)
HandOver ==
  /\ inside.handler = "awaiting" => inside.postgres \in {"stopping", "reporting"}
  /\ inside.handler \in {"done", "ended"} /\ inside.handling = "quit" => inside.postgres = "ended"
  /\ inside.cancelled => inside.handler = "ended"
  /\ inside.postgres \in {"reporting", "ended"} => starts \notin containers \/ inside.gaveUp
  /\ inside.postgres \in {"migrating", "started", "writing", "running", "stopping"} =>
       starts \in containers
  /\ inside.postgres = "running" => inside.postgresUp
  /\ inside.postgresUp => inside.postgres \in {"running", "stopping", "reporting", "ended"}

Recorded ==
  /\ \A c \in Commands :
       /\ mine[c] <= starts
       /\ pc[c] = "up" => conf >= mine[c] \/ (conf = 0 /\ mine[c] < starts)
       /\ pc[c] = "up" /\ mine[c] = starts /\ alive => inside.postgresUp
  /\ inside.postgresUp => conf = starts
  /\ inside.postgres = "writing" => conf = 0
  /\ conf <= starts

DaemonInv == HandOver /\ Recorded

(* A daemon that is asked to quit or to stop, whenever that is, comes to its end: the signal   *)
(* waits for postgres to start, and no goroutine waits for ever on another's channel.        *)
SignalledDaemonEnds == alive /\ inside.notified /\ queue # <<>> ~> ~ alive

(* A start ends: with postgres up, or because the daemon is gone or never listened.           *)
StartsEnd == \A c \in Commands : pc[c] = "polling" ~> pc[c] \in Ends

(* The stop subcommand ends once the daemon it killed is gone, wherever that daemon was, and      *)
(* when there is none left to kill; only another start that comes between can keep it waiting,     *)
(* for it reads the pid file anew.                                                          *)
StopsWaitOnlyForAnother ==
  \A c \in Commands :
    pc[c] \in {"killing", "waiting"} ~> pc[c] \in Ends \/ (alive /\ mine[c] < starts)
====================================================================================
