------------------------- MODULE NodeOperatorProofs -------------------------
(***************************************************************************)
(* Proofs about the operator of a reader node and its superviser, for any  *)
(* number of callers, commands, processes, backups and failures.           *)
(***************************************************************************)
EXTENDS NodeOperator, TLAPS

-----------------------------------------------------------------------------
(* Types.                                                                  *)

\* The first command of a queue, what is left of it, and a queue with one more.
LEMMA Queues ==
  ASSUME NEW S, NEW s \in Seq(S), NEW e \in S
  PROVE  /\ Append(s, e) \in Seq(S) /\ Len(Append(s, e)) = Len(s) + 1 /\ Len(s) \in Nat
         /\ s # <<>> => Head(s) \in S /\ Tail(s) \in Seq(S) /\ Len(Tail(s)) =< Len(s)
OBVIOUS

\* The empty queue.
LEMMA Empty == ASSUME NEW S PROVE <<>> \in Seq(S) /\ Len(<<>>) = 0
OBVIOUS

\* Only processes that exist are missed.
LEMMA MissedTypes == TypeOK /\ ReadsIsRunning => unseen' \subseteq 1 .. MaxProcs
BY DEF TypeOK, ReadsIsRunning, Created

\* Stop keeps the types of what it touches.
LEMMA StopTypes ==
  ASSUME TypeOK, NEW who \in {"loop", "shutdown"},
         StopNothing \/ StopBegins(who) \/ StopEnds(who)
  PROVE  /\ lock' \in {"free", "loop", "shutdown"} /\ current' \in 0 .. MaxProcs
         /\ procs' \in [1 .. MaxProcs -> {"none", "created", "running", "stopping", "exited"}]
         /\ unseen' \subseteq 1 .. MaxProcs
<1>1. CASE StopNothing
  BY <1>1, MissedTypes DEF StopNothing, TypeOK
<1>2. CASE StopBegins(who)
  BY <1>2 DEF StopBegins, TypeOK
<1>3. CASE StopEnds(who)
  BY <1>3, OperatorAssumption DEF StopEnds, TypeOK
<1>. QED BY <1>1, <1>2, <1>3

\* A step of the loop keeps the types.
LEMMA LoopTypes == TypeOK /\ (LoopStep \/ BootFails \/ WorkFails \/ LoopStopFails) => TypeOK'
<1>. SUFFICES ASSUME TypeOK, LoopStep \/ BootFails \/ WorkFails \/ LoopStopFails PROVE TypeOK'
  OBVIOUS
<1>. USE OperatorAssumption DEF TypeOK
<1>1. CASE BootEnds
  <2>1. [name |-> "start", by |-> Boot] \in Command
    BY DEF Command
  <2>. QED BY <1>1, <2>1, Queues DEF BootEnds
<1>2. CASE TakeCommand
  <2>1. Head(queue) \in Command /\ Tail(queue) \in Seq(Command) /\ Len(Tail(queue)) =< QueueSize
    BY <1>2, Queues DEF TakeCommand
  <2>2. cmd' \in Command /\ queue' \in Seq(Command) /\ Len(queue') =< QueueSize
    <3>1. cmd' = Head(queue) /\ (queue' = <<>> \/ queue' = Tail(queue))
      BY <1>2 DEF TakeCommand
    <3>2. <<>> \in Seq(Command) /\ Len(<<>>) =< QueueSize
      BY Empty
    <3>. QED BY <2>1, <3>1, <3>2
  <2>3. callers' \in [Callers -> {"idle", "waiting", "answered", "dropped"}]
    BY <1>2 DEF TakeCommand
  <2>4. loop' \in {"stop", "work", "start", "return"}
    BY <1>2 DEF TakeCommand, FirstStage
  <2>. QED BY <1>2, <2>2, <2>3, <2>4 DEF TakeCommand
<1>3. CASE SelectStopped \/ ShutdownReturns \/ AwaitTerminating \/ BootFails
  BY <1>3 DEF SelectStopped, ShutdownReturns, AwaitTerminating, BootFails
<1>4. CASE Return
  <2>1. callers' \in [Callers -> {"idle", "waiting", "answered", "dropped"}]
    BY <1>4 DEF Return
  <2>. QED BY <1>4, <2>1 DEF Return
<1>5. CASE Work \/ WorkFails \/ CheckRunning \/ StartFails \/ LoopStopFails
  BY <1>5, MissedTypes
     DEF Work, WorkFails, CommandFails, CheckRunning, StartFails, LoopStopFails
<1>6. CASE Start
  <2>1. unseen' \subseteq 1 .. MaxProcs
    BY <1>6, MissedTypes DEF Start
  <2>. QED BY <1>6, <2>1 DEF Start
<1>7. CASE LoopStops
  <2>1. loop' \in {"return", "work", "start", "stopping"}
    BY <1>7 DEF LoopStops, AfterStop
  <2>2. /\ lock' \in {"free", "loop", "shutdown"} /\ current' \in 0 .. MaxProcs
        /\ procs' \in [1 .. MaxProcs -> {"none", "created", "running", "stopping", "exited"}]
        /\ unseen' \subseteq 1 .. MaxProcs
    BY <1>7, StopTypes DEF LoopStops
  <2>. QED BY <1>7, <2>1, <2>2 DEF LoopStops
<1>. QED BY <1>1, <1>2, <1>3, <1>4, <1>5, <1>6, <1>7 DEF LoopStep

\* Every variable has its type, and the channel of commands holds no more than its
\* capacity.
THEOREM OperatorTypes == Spec => []TypeOK
<1>. USE OperatorAssumption
<1>1. Init => TypeOK
  <2>. SUFFICES ASSUME Init PROVE TypeOK
    OBVIOUS
  <2>1. queue \in Seq(Command) /\ Len(queue) =< QueueSize
    BY Empty DEF Init
  <2>2. cmd \in Command /\ 0 \in 0 .. MaxProcs /\ 0 \in 0 .. MaxTicks
    BY DEF Init, Command
  <2>. QED BY <2>1, <2>2 DEF Init, TypeOK
<1>2. TypeOK /\ [Next]_vars => TypeOK'
  <2>. SUFFICES ASSUME TypeOK, [Next]_vars PROVE TypeOK'
    OBVIOUS
  <2>1. ASSUME NEW c \in Callers, NEW name \in Names, Send(c, name) PROVE TypeOK'
    <3>1. [name |-> name, by |-> c] \in Command
      BY DEF Command
    <3>2. queue' \in Seq(Command) /\ Len(queue') =< QueueSize
      BY <2>1, <3>1, Queues DEF Send, TypeOK
    <3>. QED BY <2>1, <3>2 DEF Send, TypeOK
  <2>2. CASE ScheduleBackup
    <3>1. [name |-> "backup", by |-> Boot] \in Command
      BY <2>2 DEF Command, ScheduleBackup
    <3>2. queue' \in Seq(Command) /\ Len(queue') =< QueueSize
      BY <2>2, <3>1, Queues DEF ScheduleBackup, TypeOK
    <3>. QED BY <2>2, <3>2 DEF ScheduleBackup, TypeOK
  <2>3. ASSUME NEW i \in DOMAIN procs, ProcessStarts(i) \/ ProcessExits(i) \/ ProcessStopped(i)
        PROVE  TypeOK'
    <3>1. procs' \in [1 .. MaxProcs -> {"none", "created", "running", "stopping", "exited"}]
      BY <2>3 DEF ProcessStarts, ProcessExits, ProcessStopped, TypeOK
    <3>2. UNCHANGED <<queue, callers, loop, cmd, fatal, watched, current, lock, ticks, unseen,
                      oTerm, sTerm>>
      BY <2>3 DEF ProcessStarts, ProcessExits, ProcessStopped
    <3>. QED BY <3>1, <3>2 DEF TypeOK
  <2>4. CASE ShutdownOperator \/ PluginFails \/ OperatorTerminates \/ PluginsEnd
    BY <2>4 DEF ShutdownOperator, PluginFails, OperatorTerminates, PluginsEnd, TypeOK
  <2>7. CASE SuperviserStopFails
    BY <2>7 DEF SuperviserStopFails, TypeOK
  <2>5. CASE SuperviserStops
    BY <2>5, StopTypes DEF SuperviserStops, TypeOK
  <2>6. CASE UNCHANGED vars
    BY <2>6 DEF vars, TypeOK
  <2>. QED BY <2>1, <2>2, <2>3, <2>4, <2>5, <2>6, <2>7, LoopTypes DEF Next, ShutdownStep
<1>. QED BY <1>1, <1>2, PTL DEF Spec

-----------------------------------------------------------------------------
(* The inductive invariant behind OneProcess and BackupOffline.            *)

ProcStates == {"none", "created", "running", "stopping", "exited"}

Procs ==
  /\ procs \in [1 .. MaxProcs -> ProcStates]
  /\ current \in 0 .. MaxProcs
  /\ current # 0 => procs[current] # "none"

\* Who holds the lock of the command is in Stop, and the process it stops is the
\* one of the superviser, until it has let the lock go.
Locked ==
  /\ lock \in {"free", "loop", "shutdown"}
  /\ lock = "loop" <=> loop = "stopping"
  /\ lock = "shutdown" <=> sTerm = "stopping"
  /\ lock # "free" => State(current) \in {"stopping", "exited"}

OInv == Procs /\ Locked /\ OneProcess /\ BackupOffline

\* At the start there is no process, and nobody is in Stop.
LEMMA OStarts == Init => OInv
BY OperatorAssumption DEF Init, OInv, Procs, ProcStates, Locked, OneProcess,
   BackupOffline, Alive

\* A step that leaves the processes and the lock alone: the loop may only go to the
\* work of an offline backup where no process is alive that was not missed.
LEMMA MoveKeeps ==
  ASSUME OInv, UNCHANGED <<procs, current, lock>>, unseen \subseteq unseen',
         sTerm' = "stopping" <=> sTerm = "stopping",
         loop' = "stopping" <=> loop = "stopping",
         loop' = "work" => loop = "work" \/ BackupKind # "offline" \/ Alive \subseteq unseen'
  PROVE  OInv'
BY DEF OInv, Procs, Locked, State, OneProcess, BackupOffline, Alive

\* Who reads isRunning and finds no process to stop has missed every process that
\* is alive: the one of the superviser now, the others before.
LEMMA NoneMissed ==
  ASSUME OInv, ~IsRunning, ReadsIsRunning
  PROVE  Alive \subseteq unseen' /\ unseen \subseteq unseen'
BY DEF OInv, Procs, OneProcess, IsRunning, State, Created, Alive, ReadsIsRunning

\* A process changes its state by itself: it starts when nothing waits for the
\* goroutine that starts it, it exits, or it ends as Stop told it to.
LEMMA ProcessKeeps ==
  ASSUME OInv, NEW i \in DOMAIN procs,
         ProcessStarts(i) \/ ProcessExits(i) \/ ProcessStopped(i)
  PROVE  OInv'
<1>1. /\ i \in 1 .. MaxProcs /\ procs \in [1 .. MaxProcs -> ProcStates]
      /\ UNCHANGED <<current, lock, loop, sTerm, unseen>> /\ i \in Alive
  BY DEF OInv, Procs, Alive, ProcessStarts, ProcessExits, ProcessStopped
<1>2. \E s \in ProcStates \ {"none", "created"} :
        /\ procs' = [procs EXCEPT ![i] = s]
        /\ procs[i] = "stopping" => s = "exited"
        /\ s # "exited" => procs[i] = "created"
  BY DEF ProcessStarts, ProcessExits, ProcessStopped, ProcStates
<1>3. PICK s \in ProcStates \ {"none", "created"} :
        /\ procs' = [procs EXCEPT ![i] = s]
        /\ procs[i] = "stopping" => s = "exited"
        /\ s # "exited" => procs[i] = "created"
  BY <1>2
<1>4. Alive' \subseteq Alive
  BY <1>1, <1>3 DEF Alive
<1>5. Procs'
  BY <1>1, <1>3 DEF OInv, Procs
<1>6. Locked'
  BY <1>1, <1>3 DEF OInv, Locked, State, Alive
<1>7. OneProcess' /\ BackupOffline'
  BY <1>1, <1>4 DEF OInv, OneProcess, BackupOffline
<1>. QED BY <1>5, <1>6, <1>7 DEF OInv

\* A command that is taken goes to its stop before its work, when the work needs it.
LEMMA TakeCommandKeeps == OInv /\ TakeCommand => OInv'
<1>. SUFFICES ASSUME OInv, TakeCommand PROVE OInv'
  OBVIOUS
<1>1. /\ loop' # "stopping" /\ loop # "stopping" /\ unseen' = unseen
      /\ loop' = "work" => BackupKind # "offline"
  BY DEF TakeCommand, FirstStage
<1>. QED BY <1>1, MoveKeeps DEF TakeCommand

\* Start creates a process where none is alive but those it has missed, and it is
\* the one of the superviser.
LEMMA StartKeeps == OInv /\ Start => OInv'
<1>. SUFFICES ASSUME OInv, Start PROVE OInv'
  OBVIOUS
<1>1. unseen \subseteq unseen'
  BY DEF Start, ReadsIsRunning
<1>2. CASE IsRunning
  BY <1>1, <1>2, MoveKeeps DEF Start
<1>3. CASE ~IsRunning
  <2>1. Alive \subseteq unseen'
    BY <1>3, NoneMissed DEF Start
  <2>2. PICK i \in DOMAIN procs :
          procs[i] = "none" /\ procs' = [procs EXCEPT ![i] = "created"] /\ current' = i
    BY <1>3 DEF Start
  <2>3. Procs'
    BY <2>2 DEF OInv, Procs, ProcStates
  <2>4. Locked'
    BY DEF OInv, Locked, Start
  <2>5. OneProcess'
    BY <2>1, <2>2 DEF OInv, Procs, OneProcess, Alive
  <2>. QED BY <2>3, <2>4, <2>5 DEF OInv, BackupOffline, Start
<1>. QED BY <1>2, <1>3

\* Stop that takes the lock, or lets it go when the process has exited: no other is
\* alive then but those that were missed.
LEMMA StopKeepsProcs ==
  ASSUME OInv, NEW who \in {"loop", "shutdown"}, StopBegins(who) \/ StopEnds(who)
  PROVE  /\ Procs' /\ OneProcess' /\ Alive' \subseteq Alive /\ unseen' = unseen
         /\ StopBegins(who) => lock = "free" /\ lock' = who /\ State(current)' = "stopping"
         /\ StopEnds(who) => lock = who /\ lock' = "free" /\ Alive \subseteq unseen
<1>1. CASE StopBegins(who)
  <2>1. /\ lock = "free" /\ lock' = who /\ current' = current /\ current \in 1 .. MaxProcs
        /\ procs[current] \in {"running", "stopping"}
        /\ procs' = [procs EXCEPT ![current] = "stopping"] /\ unseen' = unseen
    BY <1>1 DEF StopBegins, IsRunning, State, OInv, Procs
  <2>2. Procs'
    BY <2>1 DEF OInv, Procs, ProcStates
  <2>3. OneProcess' /\ Alive' \subseteq Alive
    BY <2>1 DEF OInv, Procs, OneProcess, Alive
  <2>4. ~StopEnds(who)
    BY <2>1 DEF StopEnds
  <2>. QED BY <2>1, <2>2, <2>3, <2>4 DEF OInv, Procs, State
<1>2. CASE StopEnds(who)
  <2>1. /\ lock = who /\ lock' = "free" /\ current' = 0 /\ procs' = procs /\ ~StopBegins(who)
        /\ unseen' = unseen
    BY <1>2 DEF StopEnds, StopBegins
  <2>2. Alive \subseteq unseen
    BY <1>2 DEF OInv, Procs, OneProcess, Alive, StopEnds, State
  <2>3. Procs' /\ Alive' = Alive
    BY <2>1, OperatorAssumption DEF OInv, Procs, Alive
  <2>4. OneProcess'
    BY <2>1, <2>2, <2>3 DEF OneProcess
  <2>. QED BY <2>1, <2>2, <2>3, <2>4
<1>. QED BY <1>1, <1>2

\* The loop stops the process before a command that needs it stopped.
LEMMA LoopStopsKeeps == OInv /\ LoopStops => OInv'
<1>. SUFFICES ASSUME OInv, LoopStops PROVE OInv'
  OBVIOUS
<1>1. AfterStop(cmd.name) \in {"return", "work", "start"}
  BY DEF AfterStop
<1>2. CASE loop = "stop" /\ StopNothing /\ loop' = AfterStop(cmd.name)
  <2>1. Alive \subseteq unseen' /\ unseen \subseteq unseen'
    BY <1>2, NoneMissed DEF StopNothing
  <2>. QED BY <1>1, <1>2, <2>1, MoveKeeps DEF LoopStops, StopNothing
<1>3. CASE loop = "stop" /\ StopBegins("loop") /\ loop' = "stopping"
  BY <1>3, StopKeepsProcs DEF OInv, Locked, BackupOffline, LoopStops
<1>4. CASE loop = "stopping" /\ StopEnds("loop") /\ loop' = AfterStop(cmd.name)
  BY <1>1, <1>4, StopKeepsProcs DEF OInv, Locked, BackupOffline, LoopStops
<1>. QED BY <1>2, <1>3, <1>4 DEF LoopStops

\* The shutdown of the superviser stops the process, whatever the loop is at.
LEMMA SuperviserStopsKeeps == OInv /\ SuperviserStops => OInv'
<1>. SUFFICES ASSUME OInv, SuperviserStops PROVE OInv'
  OBVIOUS
<1>1. CASE sTerm = "stop" /\ StopNothing /\ sTerm' = "plugins"
  <2>1. unseen \subseteq unseen'
    BY <1>1 DEF StopNothing, ReadsIsRunning
  <2>. QED BY <1>1, <2>1, MoveKeeps DEF SuperviserStops, StopNothing
<1>2. CASE sTerm = "stop" /\ StopBegins("shutdown") /\ sTerm' = "stopping"
  BY <1>2, StopKeepsProcs DEF OInv, Locked, BackupOffline, SuperviserStops
<1>3. CASE sTerm = "stopping" /\ StopEnds("shutdown") /\ sTerm' = "plugins"
  BY <1>3, StopKeepsProcs DEF OInv, Locked, BackupOffline, SuperviserStops
<1>. QED BY <1>1, <1>2, <1>3 DEF SuperviserStops

\* Every step keeps the invariant.
LEMMA OStep == OInv /\ [Next]_vars => OInv'
<1>. SUFFICES ASSUME OInv, [Next]_vars PROVE OInv'
  OBVIOUS
<1>1. ASSUME NEW c \in Callers, NEW name \in Names, Send(c, name) PROVE OInv'
  BY <1>1, MoveKeeps DEF Send
<1>2. CASE ScheduleBackup \/ ShutdownOperator \/ OperatorTerminates
  BY <1>2, MoveKeeps DEF ScheduleBackup, ShutdownOperator, OperatorTerminates
<1>3. CASE PluginFails \/ PluginsEnd \/ SuperviserStopFails
  BY <1>3, MoveKeeps DEF PluginFails, PluginsEnd, SuperviserStopFails
<1>4. CASE BootEnds \/ BootFails \/ SelectStopped \/ ShutdownReturns \/ AwaitTerminating
  BY <1>4, MoveKeeps
     DEF BootEnds, BootFails, SelectStopped, ShutdownReturns, AwaitTerminating
<1>5. CASE Return \/ Work \/ WorkFails \/ CheckRunning \/ StartFails \/ LoopStopFails
  <2>1. unseen \subseteq unseen'
    BY <1>5 DEF Return, Work, WorkFails, CommandFails, CheckRunning, StartFails,
                LoopStopFails, ReadsIsRunning
  <2>. QED
    BY <1>5, <2>1, MoveKeeps
       DEF Return, Work, WorkFails, CommandFails, CheckRunning, StartFails, LoopStopFails
<1>6. CASE UNCHANGED vars
  BY <1>6, MoveKeeps DEF vars
<1>. QED BY <1>1, <1>2, <1>3, <1>4, <1>5, <1>6, TakeCommandKeeps, StartKeeps, LoopStopsKeeps,
            SuperviserStopsKeeps, ProcessKeeps DEF Next, LoopStep, ShutdownStep

-----------------------------------------------------------------------------
(* The properties.                                                         *)

\* Every process that was created and has not exited is the one that the superviser
\* knows, whatever commands, exits and shutdowns come together, but for one that a
\* start or a stop has taken for none because its goroutine had not run yet: but
\* for that race two never run on the same data, and Stop finds the one that does.
THEOREM OneProcessAtOnce == Spec => []OneProcess
<1>1. OInv => OneProcess
  BY DEF OInv
<1>. QED BY <1>1, OStarts, OStep, PTL DEF Spec

\* A backup module that needs the process stopped takes its backup, or restores
\* one, while no process is alive, but for one that was missed in that way.
THEOREM BackupWithoutProcess == Spec => []BackupOffline
<1>1. OInv => BackupOffline
  BY DEF OInv
<1>. QED BY <1>1, OStarts, OStep, PTL DEF Spec

=============================================================================
