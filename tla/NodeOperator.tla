---------------------------- MODULE NodeOperator ----------------------------
(***************************************************************************)
(* The operator of a reader node (node-manager/operator) and the           *)
(* superviser of the blockchain process (node-manager/superviser).         *)
(*                                                                         *)
(* Threads: the loop of Operator.Launch, which runs one command at a time; *)
(* the callers that put commands in its channel (HTTP handlers and backup  *)
(* schedules); the process and the goroutine that starts it; the shutdown  *)
(* of the operator and the one of the superviser, which call each other.   *)
(* The loop and the shutdown of the superviser both call Stop, under the   *)
(* lock of the command.                                                    *)
(***************************************************************************)
EXTENDS Integers, Sequences, FiniteSets

CONSTANTS
  Callers,      \* the HTTP requests
  Boot,         \* the operator itself: its first start, its backup schedule
  Names,        \* the commands that the callers may send
  QueueSize,    \* capacity of commandChan
  BackupKind,   \* "none", "online" or "offline": the backup module registered
  MayShutdown,  \* whether the node manager may be shut down from outside
  MaxTicks,     \* bound on scheduled backups
  MaxProcs,     \* bound on processes
  MaxFailures   \* bound on failing operations, process exits included

ASSUME OperatorAssumption ==
  /\ Boot \notin Callers
  /\ Names \subseteq {"maintenance", "restore", "backup", "reload", "resume",
                      "safely_reload", "safely_pause_production"}
  /\ QueueSize \in Nat \ {0} /\ MaxProcs \in Nat
  /\ MaxTicks \in Nat /\ MaxFailures \in Nat
  /\ BackupKind \in {"none", "online", "offline"}
  /\ MayShutdown \in BOOLEAN

VARIABLES
  queue,     \* commandChan
  callers,   \* the stage of each caller
  loop,      \* where Launch is
  cmd,       \* the command that runs
  fatal,     \* whether it returned an error
  watched,   \* the process whose Done channel the select waits for
  procs,     \* the processes
  current,   \* s.cmd, 0 for nil
  lock,      \* cmdLock
  ticks,
  unseen,    \* history: the processes that isRunning has missed
  oTerm,     \* the shutdown of the operator
  sTerm,     \* the shutdown of the superviser
  failures

vars == <<queue, callers, loop, cmd, fatal, watched, procs, current, lock,
          ticks, unseen, oTerm, sTerm, failures>>

Command == [name : Names \cup {"start"}, by : Callers \cup {Boot}]

Init ==
  /\ queue = <<>> /\ callers = [c \in Callers |-> "idle"]
  /\ loop = "boot" /\ cmd = [name |-> "start", by |-> Boot] /\ fatal = FALSE
  /\ watched = 0 /\ procs = [i \in 1 .. MaxProcs |-> "none"] /\ current = 0
  /\ lock = "free" /\ ticks = 0 /\ unseen = {}
  /\ oTerm = "no" /\ sTerm = "no" /\ failures = 0

MayFail == failures < MaxFailures /\ failures' = failures + 1

State(i) == IF i = 0 THEN "none" ELSE procs[i]

\* isRunning: a process that was created and has not started yet is not.
IsRunning == State(current) \in {"running", "stopping"}

Created == {i \in DOMAIN procs : procs[i] = "created"}

\* Whoever reads isRunning under the lock between the creation of the process
\* and its start takes the process for none.
ReadsIsRunning == unseen' = unseen \cup (Created \cap {current})

Alive == {i \in DOMAIN procs : procs[i] \in {"created", "running", "stopping"}}

-----------------------------------------------------------------------------
(* The callers.                                                            *)

\* sendCommandSync: the send waits for room in the channel, and the caller for
\* its answer.  (An asynchronous command is one that nobody waits for.)
Send(c, name) ==
  /\ callers[c] = "idle" /\ Len(queue) < QueueSize
  /\ queue' = Append(queue, [name |-> name, by |-> c])
  /\ callers' = [callers EXCEPT ![c] = "waiting"]
  /\ UNCHANGED <<loop, cmd, fatal, watched, procs, current, lock, ticks, unseen,
                 oTerm, sTerm, failures>>

\* RunEveryPeriod and RunEveryXBlock, while the process runs.
ScheduleBackup ==
  /\ lock = "free" /\ IsRunning /\ "backup" \in Names
  /\ ticks < MaxTicks /\ ticks' = ticks + 1
  /\ Len(queue) < QueueSize
  /\ queue' = Append(queue, [name |-> "backup", by |-> Boot])
  /\ UNCHANGED <<callers, loop, cmd, fatal, watched, procs, current, lock, unseen,
                 oTerm, sTerm, failures>>

-----------------------------------------------------------------------------
(* Launch.                                                                 *)

\* The HTTP server and the schedules run before the bootstrap, which may last;
\* the first start goes through the same channel.
BootEnds ==
  /\ loop = "boot" /\ Len(queue) < QueueSize
  /\ queue' = Append(queue, [name |-> "start", by |-> Boot])
  /\ loop' = "select" /\ watched' = current
  /\ UNCHANGED <<callers, cmd, fatal, procs, current, lock, ticks, unseen,
                 oTerm, sTerm, failures>>

BootFails ==
  /\ loop = "boot" /\ MayFail
  /\ loop' = "returned"
  /\ UNCHANGED <<queue, callers, cmd, fatal, watched, procs, current, lock, ticks, unseen,
                 oTerm, sTerm>>

NeedsStop(name) ==
  \/ name \in {"maintenance", "reload", "safely_reload"}
  \/ name \in {"backup", "restore"} /\ BackupKind = "offline"

WorksAtOnce(name) ==
  CASE name \in {"backup", "restore"} /\ BackupKind # "none" -> "work"
    [] NeedsStop(name) -> "stop"
    [] name \in {"start", "resume"} -> "start"
    [] OTHER -> "return"

\* Where the command goes first, and where it goes after its stop.
FirstStage(name) ==
  CASE NeedsStop(name) -> "stop"
    [] name \in {"backup", "restore"} /\ BackupKind = "online" -> "work"
    [] name \in {"start", "resume"} -> "start"
    [] OTHER -> "return"

AfterStop(name) ==
  CASE name = "maintenance" -> "return"
    [] name \in {"backup", "restore"} -> "work"
    [] OTHER -> "start"

\* safely_reload empties the queue: nobody answers those commands.
TakeCommand ==
  /\ loop = "select" /\ queue # <<>>
  /\ cmd' = Head(queue)
  /\ IF cmd'.name = "safely_reload"
       THEN LET dropped == {queue[i].by : i \in 2 .. Len(queue)}
            IN  /\ queue' = <<>>
                /\ callers' = [c \in Callers |->
                     IF c \in dropped THEN "dropped" ELSE callers[c]]
       ELSE queue' = Tail(queue) /\ UNCHANGED callers
  /\ loop' = FirstStage(cmd'.name)
  /\ UNCHANGED <<fatal, watched, procs, current, lock, ticks, unseen,
                 oTerm, sTerm, failures>>

ExitIgnored ==
  /\ loop = "select" /\ State(watched) = "exited" /\ sTerm # "no"
  /\ loop' = "await"
  /\ UNCHANGED <<queue, callers, cmd, fatal, watched, procs, current, lock, ticks, unseen,
                 oTerm, sTerm, failures>>

\* The process stopped outside of a command.
SelectStopped ==
  /\ loop = "select" /\ State(watched) = "exited"
  /\ IF sTerm # "no"
       THEN loop' = "await" /\ UNCHANGED <<watched, oTerm>>
       ELSE /\ oTerm' = IF oTerm = "no" THEN "begin" ELSE oTerm
            /\ loop' = IF oTerm = "no" THEN "shutdown" ELSE "select"
            /\ watched' = current
  /\ UNCHANGED <<queue, callers, cmd, fatal, procs, current, lock, ticks, unseen,
                 sTerm, failures>>

\* Shutdown has returned: the break only leaves the select.
ShutdownReturns ==
  /\ loop = "shutdown" /\ oTerm = "done"
  /\ loop' = "select" /\ watched' = current
  /\ UNCHANGED <<queue, callers, cmd, fatal, procs, current, lock, ticks, unseen,
                 oTerm, sTerm, failures>>

AwaitTerminating ==
  /\ loop = "await" /\ oTerm # "no"
  /\ loop' = "returned"
  /\ UNCHANGED <<queue, callers, cmd, fatal, watched, procs, current, lock, ticks, unseen,
                 oTerm, sTerm, failures>>

ForgetsCaller ==
  /\ loop = "return"
  /\ loop' = IF fatal THEN "returned" ELSE "select"
  /\ watched' = current
  /\ UNCHANGED <<queue, callers, cmd, fatal, procs, current, lock, ticks, unseen,
                 oTerm, sTerm, failures>>

\* cmd.Return, and the end of Launch when the command failed.
Return ==
  /\ loop = "return"
  /\ callers' = [c \in Callers |->
       IF c = cmd.by THEN "answered" ELSE callers[c]]
  /\ loop' = IF fatal THEN "returned" ELSE "select"
  /\ watched' = current
  /\ UNCHANGED <<queue, cmd, fatal, procs, current, lock, ticks, unseen,
                 oTerm, sTerm, failures>>

CommandFails ==
  /\ MayFail /\ fatal' = TRUE /\ loop' = "return"
  /\ UNCHANGED <<queue, callers, cmd, watched, procs, current, ticks, unseen,
                 oTerm, sTerm>>

\* Backup and Restore of the module.
Work ==
  /\ loop = "work"
  /\ loop' = IF BackupKind = "offline" THEN "start" ELSE "return"
  /\ UNCHANGED <<queue, callers, cmd, fatal, watched, procs, current, lock, ticks, unseen,
                 oTerm, sTerm, failures>>

WorkFails == loop = "work" /\ CommandFails /\ UNCHANGED lock

\* The start command looks at IsRunning, under the lock.
CheckRunning ==
  /\ loop = "start" /\ lock = "free"
  /\ loop' = IF IsRunning THEN "return" ELSE "create"
  /\ ReadsIsRunning
  /\ UNCHANGED <<queue, callers, cmd, fatal, watched, procs, current, lock, ticks,
                 oTerm, sTerm, failures>>

-----------------------------------------------------------------------------
(* The superviser and the process.                                         *)

\* Start: a new process, which a goroutine will start.
Start ==
  /\ loop = "create" /\ lock = "free"
  /\ IF IsRunning
       THEN UNCHANGED <<procs, current>>
       ELSE \E i \in DOMAIN procs :
              /\ procs[i] = "none" /\ \A j \in 1 .. i - 1 : procs[j] # "none"
              /\ procs' = [procs EXCEPT ![i] = "created"] /\ current' = i
  /\ loop' = "return" /\ ReadsIsRunning
  /\ UNCHANGED <<queue, callers, cmd, fatal, watched, lock, ticks,
                 oTerm, sTerm, failures>>

\* The bound on processes: the ones after it cannot be created.
StartFails ==
  /\ loop = "create" /\ lock = "free" /\ fatal' = TRUE /\ loop' = "return"
  /\ ~IsRunning /\ \A i \in DOMAIN procs : procs[i] # "none"
  /\ UNCHANGED <<queue, callers, cmd, watched, procs, current, lock, ticks, unseen,
                 oTerm, sTerm, failures>>

ProcessStarts(i) ==
  /\ procs[i] = "created" /\ procs' = [procs EXCEPT ![i] = "running"]
  /\ UNCHANGED <<queue, callers, loop, cmd, fatal, watched, current, lock, ticks, unseen,
                 oTerm, sTerm, failures>>

ProcessExits(i) ==
  /\ procs[i] = "running" /\ MayFail
  /\ procs' = [procs EXCEPT ![i] = "exited"]
  /\ UNCHANGED <<queue, callers, loop, cmd, fatal, watched, current, lock, ticks, unseen,
                 oTerm, sTerm>>

ProcessStopped(i) ==
  /\ procs[i] = "stopping" /\ procs' = [procs EXCEPT ![i] = "exited"]
  /\ UNCHANGED <<queue, callers, loop, cmd, fatal, watched, current, lock, ticks, unseen,
                 oTerm, sTerm, failures>>

\* Stop, in the loop and in the shutdown of the superviser: nothing to do when
\* the process does not run, else it asks the process to stop and keeps the lock
\* until it has, and its output is read.
StopNothing ==
  /\ lock = "free" /\ ~IsRunning /\ ReadsIsRunning
  /\ UNCHANGED <<procs, current, lock>>

StopBegins(who) ==
  /\ lock = "free" /\ IsRunning
  /\ lock' = who /\ procs' = [procs EXCEPT ![current] = "stopping"]
  /\ UNCHANGED <<current, unseen>>

StopReturnsEarly(who) ==
  /\ lock = who
  /\ lock' = "free" /\ current' = 0 /\ UNCHANGED <<procs, unseen>>

StopKeepsLock(who) ==
  /\ lock = who /\ State(current) = "exited"
  /\ current' = 0 /\ UNCHANGED <<lock, procs, unseen>>

StopEnds(who) ==
  /\ lock = who /\ State(current) = "exited"
  /\ lock' = "free" /\ current' = 0 /\ UNCHANGED <<procs, unseen>>

LoopStops ==
  /\ \/ /\ loop = "stop"
        /\ \/ StopNothing /\ loop' = AfterStop(cmd.name)
           \/ StopBegins("loop") /\ loop' = "stopping"
     \/ loop = "stopping" /\ StopEnds("loop") /\ loop' = AfterStop(cmd.name)
  /\ UNCHANGED <<queue, callers, cmd, fatal, watched, ticks, oTerm, sTerm, failures>>

LoopStopFails ==
  /\ loop = "stop" /\ lock = "free" /\ IsRunning /\ CommandFails
  /\ UNCHANGED lock

LoopStep ==
  \/ BootEnds \/ TakeCommand \/ SelectStopped \/ ShutdownReturns
  \/ AwaitTerminating \/ Return \/ Work \/ CheckRunning \/ Start \/ StartFails
  \/ LoopStops

-----------------------------------------------------------------------------
(* The shutdowns.                                                          *)

\* From outside, or because Launch has returned.
ShutdownOperator ==
  /\ MayShutdown \/ loop = "returned"
  /\ oTerm = "no" /\ oTerm' = "begin"
  /\ UNCHANGED <<queue, callers, loop, cmd, fatal, watched, procs, current,
                 lock, ticks, unseen, sTerm, failures>>

\* A plugin that terminates shuts the superviser down.
PluginFails ==
  /\ sTerm = "no" /\ MayFail /\ sTerm' = "stop"
  /\ UNCHANGED <<queue, callers, loop, cmd, fatal, watched, procs, current,
                 lock, ticks, unseen, oTerm>>

\* OnTerminating of the operator.
OperatorTerminates ==
  /\ \/ /\ oTerm = "begin" /\ oTerm' = "wait"
        /\ sTerm' = IF sTerm = "no" THEN "stop" ELSE sTerm
     \/ /\ oTerm = "wait" /\ sTerm = "done" /\ oTerm' = "done" /\ UNCHANGED sTerm
  /\ UNCHANGED <<queue, callers, loop, cmd, fatal, watched, procs, current,
                 lock, ticks, unseen, failures>>

\* OnTerminating of the superviser, then OnTerminated, which the operator hooks.
SuperviserStops ==
  /\ \/ sTerm = "stop" /\ StopNothing /\ sTerm' = "plugins"
     \/ sTerm = "stop" /\ StopBegins("shutdown") /\ sTerm' = "stopping"
     \/ sTerm = "stopping" /\ StopEnds("shutdown") /\ sTerm' = "plugins"
  /\ UNCHANGED <<queue, callers, loop, cmd, fatal, watched, ticks, oTerm, failures>>

\* A process that cannot be told to stop: the error is logged, and the plugins
\* are ended while it runs.
SuperviserStopFails ==
  /\ sTerm = "stop" /\ lock = "free" /\ IsRunning /\ MayFail /\ sTerm' = "plugins"
  /\ UNCHANGED <<queue, callers, loop, cmd, fatal, watched, procs, current,
                 lock, ticks, unseen, oTerm>>

PluginsEnd ==
  /\ sTerm = "plugins" /\ sTerm' = "done"
  /\ oTerm' = IF oTerm = "no" THEN "begin" ELSE oTerm
  /\ UNCHANGED <<queue, callers, loop, cmd, fatal, watched, procs, current,
                 lock, ticks, unseen, failures>>

ShutdownStep == OperatorTerminates \/ SuperviserStops \/ PluginsEnd

Next ==
  \/ \E c \in Callers, name \in Names : Send(c, name)
  \/ ScheduleBackup \/ LoopStep \/ BootFails \/ WorkFails \/ LoopStopFails
  \/ \E i \in DOMAIN procs :
       ProcessStarts(i) \/ ProcessExits(i) \/ ProcessStopped(i)
  \/ ShutdownOperator \/ PluginFails \/ SuperviserStopFails \/ ShutdownStep

Spec == Init /\ [][Next]_vars

\* Goroutines run, the process starts, and stops when it is told to; Launch that
\* returns shuts the application down.
Fairness ==
  /\ WF_vars(LoopStep) /\ WF_vars(OperatorTerminates)
  /\ SF_vars(SuperviserStops) /\ WF_vars(PluginsEnd)
  /\ WF_vars(loop = "returned" /\ ShutdownOperator)
  /\ \A i \in 1 .. MaxProcs : WF_vars(ProcessStarts(i)) /\ WF_vars(ProcessStopped(i))

FairSpec == Spec /\ Fairness

-----------------------------------------------------------------------------
(* Properties.                                                             *)

\* Every variable has its type.
TypeOK ==
  /\ queue \in Seq(Command) /\ Len(queue) =< QueueSize
  /\ callers \in [Callers -> {"idle", "waiting", "answered", "dropped"}]
  /\ loop \in {"boot", "select", "stop", "stopping", "work", "start", "create",
               "return", "shutdown", "await", "returned"}
  /\ cmd \in Command /\ fatal \in BOOLEAN
  /\ watched \in 0 .. MaxProcs /\ current \in 0 .. MaxProcs
  /\ procs \in [1 .. MaxProcs -> {"none", "created", "running", "stopping", "exited"}]
  /\ ticks \in 0 .. MaxTicks /\ unseen \subseteq 1 .. MaxProcs
  /\ lock \in {"free", "loop", "shutdown"}
  /\ oTerm \in {"no", "begin", "wait", "done"}
  /\ sTerm \in {"no", "stop", "stopping", "plugins", "done"}

\* Two processes never run at once on the same data, and none that runs is lost
\* to the superviser, whatever commands, exits and shutdowns come together,
\* unless a start or a stop came before the goroutine of the last Start and took
\* its process for none.
OneProcess == \A i \in Alive : i = current \/ i \in unseen

\* A backup that requires a stop is taken, and restored, with no process but such
\* a one, which its Stop has missed and which may start in the middle of it.
BackupOffline == loop = "work" /\ BackupKind = "offline" => Alive \subseteq unseen

\* A caller that waits for its command gets an answer, unless the node manager
\* shuts down or safely_reload drops the command.
Answered ==
  \A c \in Callers : callers[c] = "waiting"
                       ~> (callers[c] \in {"answered", "dropped"} \/ oTerm # "no")

\* The exit of the process is noticed, unless a command replaces it first.
ExitNoticed ==
  \A i \in 1 .. MaxProcs :
    procs[i] = "exited" ~> (current # i \/ oTerm # "no")

\* A shutdown of the operator ends, with the one of the superviser, whichever
\* starts first and whatever command runs.
ShutdownCompletes == (oTerm # "no" \/ sTerm # "no") ~> (oTerm = "done")

=============================================================================
