------------------------------- MODULE Reader -------------------------------
(***************************************************************************)
(* The reader of a node: the way of a block from the output of the         *)
(* blockchain process to the store of one-block files.                     *)
(*                                                                         *)
(*   process -> cmd.Stdout -> superviser.start -> LogLine -> lines         *)
(*     -> console reader -> blocks -> consumeReadFlow -> local directory   *)
(*     -> FileUploader -> one-block store                                  *)
(*                                                                         *)
(* Every start of the process launches the plugin again: new lines, a new  *)
(* console reader, new goroutines, while the ones of the last launch still *)
(* live, and find the new channel and the new reader in the fields of the  *)
(* plugin.  The operator and its commands are reduced to a reload; a       *)
(* module of their own (NodeOperator) has the others.  The same plugin     *)
(* also reads the standard input, in an application without superviser.    *)
(*                                                                         *)
(* A line is the number of the block it holds, or Init for the line that   *)
(* announces the protocol.                                                 *)
(***************************************************************************)
EXTENDS Integers, Sequences, FiniteSets

CONSTANTS
  MaxBlock,         \* bound on the chain
  FirstStreamable,  \* GetProtocolFirstStreamableBlock
  StartBlock,       \* startBlock of the archiver
  Stops,            \* the stop blocks of the runs, 0 for none
  Sources,          \* subset of {"process", "stdin"}
  StdoutCap,        \* capacity of cmd.Stdout
  LinesCap,         \* capacity of lines
  BlocksCap,        \* channelCapacity
  MaxLaunches,      \* bound on the launches of the plugin
  MayShutdown,      \* whether the node may be shut down from outside
  MaxFailures,      \* bound on failures, exits of the process included
  MaxRestarts       \* bound on the restarts of the node

ASSUME ReaderAssumption ==
  /\ MaxBlock \in Nat /\ FirstStreamable \in Nat /\ StartBlock \in Nat
  /\ Stops \subseteq Nat /\ Sources \subseteq {"process", "stdin"}
  /\ StdoutCap \in Nat \ {0} /\ LinesCap \in Nat \ {0} /\ BlocksCap \in Nat \ {0}
  /\ MaxLaunches \in Nat \ {0} /\ MayShutdown \in BOOLEAN
  /\ MaxFailures \in Nat /\ MaxRestarts \in Nat

VARIABLES
  source, stop,      \* the application, and its stop block
  proc,              \* the process
  printed,           \* the last block it printed; it keeps its place on disk
  stdout,            \* cmd.Stdout
  launch,            \* what each launch made
  gen,               \* the last launch: p.consumeReadFlowDone is its own
  plugin,            \* the shutdown of the plugin: "up", "asked", "down"
  op,                \* the operator
  sup,               \* the shutdown of the superviser; "dead" after a crash
  lock,              \* cmdLock
  ended,             \* the launch that Stop of the plugin found
  local,             \* the local directory of one-block files
  remote,            \* the store of one-block files
  from, kept,        \* since this start of the node: its first block, the stored
  skipped, mark,     \* the ones that could not be, and printed when Stop returned
  crossed,           \* whether a launch found the last one with something to do
  failures, restarts

setup == <<source, stop>>
node == <<proc, printed, stdout>>
control == <<plugin, op, sup, lock, ended>>
files == <<local, remote>>
history == <<from, kept, skipped, mark, crossed>>
vars == <<setup, node, launch, gen, control, files, history, failures, restarts>>

Blocks == 1 .. MaxBlock
Init_ == 0

Unlaunched ==
  [lines |-> <<>>, closed |-> FALSE, versioned |-> FALSE,  \* the channel, its reader
   pump |-> "off", line |-> 0,                             \* superviser.start, LogLine
   at |-> "off", on |-> 1, block |-> 0,                    \* the reading loop
   blocks |-> <<>>, consumer |-> "off"]                    \* consumeReadFlow

Fresh == [Unlaunched EXCEPT !.at = "pick", !.consumer = "wait"]

Launches == 1 .. MaxLaunches

Init ==
  /\ source \in Sources /\ stop \in Stops
  /\ proc = "none" /\ stdout = <<>>
  /\ launch = [g \in Launches |-> Unlaunched] /\ gen = 0
  /\ plugin = "up" /\ op = "launch" /\ sup = "up" /\ lock = "free" /\ ended = 0
  /\ kept = {} /\ skipped = {} /\ mark = 0 /\ crossed = FALSE
  /\ printed = 0 /\ from = 1 /\ local = {} /\ remote = {}
  /\ failures = 0 /\ restarts = 0

MayFail == failures < MaxFailures /\ failures' = failures + 1

Ask(state) == IF state = "up" THEN "asked" ELSE state

-----------------------------------------------------------------------------
(* The process and the operator.                                           *)

\* Nothing of the last launch is left to do: its reading loop waits for a line.
Quiet ==
  gen > 0 =>
    /\ launch[gen].lines = <<>> /\ launch[gen].pump = "read"
    /\ launch[gen].at = "read" /\ launch[gen].on = gen
    /\ launch[gen].blocks = <<>> /\ launch[gen].consumer = "wait"

\* Superviser.Start launches the plugins first, without any lock.  Launch sets
\* consumeReadFlowDone, then lines, then the console reader, and starts the reading
\* loop with it: the launches whose channel, and whose reader, the fields hold.
LinesOf == IF op = "lines" THEN gen - 1 ELSE gen
ReaderOf == IF op \in {"lines", "reader"} THEN gen - 1 ELSE gen

Launch ==
  /\ op = "launch" /\ gen < MaxLaunches /\ op' = "lines"
  /\ gen' = gen + 1 /\ launch' = [launch EXCEPT ![gen + 1] = Fresh]
  /\ crossed' = (crossed \/ ~Quiet)
  /\ UNCHANGED <<setup, node, plugin, sup, lock, ended, files, from, kept, skipped, mark,
                 failures, restarts>>

LaunchLines ==
  /\ op = "lines" /\ op' = "reader"
  /\ UNCHANGED <<setup, node, launch, gen, plugin, sup, lock, ended, files, history,
                 failures, restarts>>

LaunchReader ==
  /\ op = "reader" /\ op' = "create"
  /\ UNCHANGED <<setup, node, launch, gen, plugin, sup, lock, ended, files, history,
                 failures, restarts>>

Create ==
  /\ op = "create" /\ lock = "free"
  /\ op' = "idle" /\ proc' = "running" /\ stdout' = <<Init_>>
  /\ launch' = [launch EXCEPT ![gen].pump = "read"]
  /\ UNCHANGED <<setup, printed, gen, plugin, sup, lock, ended, files, history,
                 failures, restarts>>

PrintBlock ==
  /\ proc \in {"running", "stopping"} /\ printed < MaxBlock /\ Len(stdout) < StdoutCap
  /\ printed' = printed + 1 /\ stdout' = Append(stdout, printed + 1)
  /\ UNCHANGED <<setup, proc, launch, gen, control, files, history, failures, restarts>>

\* An exit by itself; for the standard input, its end.
ProcessExits ==
  /\ proc = "running" /\ proc' = "exited"
  /\ IF source = "process" THEN MayFail ELSE UNCHANGED failures
  /\ UNCHANGED <<setup, printed, stdout, launch, gen, control, files, history, restarts>>

ProcessStopped ==
  /\ proc = "stopping" /\ proc' = "exited"
  /\ UNCHANGED <<setup, printed, stdout, launch, gen, control, files, history,
                 failures, restarts>>

\* Stop: it asks the process to stop, and keeps the lock.
Reload ==
  /\ source = "process" /\ op = "idle" /\ gen < MaxLaunches
  /\ lock = "free" /\ proc = "running"
  /\ lock' = "op" /\ proc' = "stopping" /\ op' = "stopping"
  /\ UNCHANGED <<setup, printed, stdout, launch, gen, plugin, sup, ended, files, history,
                 failures, restarts>>

StopLeavesOutput(who) ==
  /\ lock = who /\ proc = "exited"
  /\ lock' = "free" /\ proc' = "none"
  /\ UNCHANGED <<printed, stdout>>

\* Stop returns once the process is gone and the channel of its output is
\* empty: the goroutine that reads it may still hold a line.
Drained(who) ==
  /\ lock = who /\ proc = "exited" /\ stdout = <<>>
  /\ lock' = "free" /\ proc' = "none"
  /\ UNCHANGED <<printed, stdout>>

ReloadStopped ==
  /\ Drained("op") /\ op' = "launch"
  /\ UNCHANGED <<setup, launch, gen, plugin, sup, ended, files, history, failures, restarts>>

-----------------------------------------------------------------------------
(* Lines: the goroutine of superviser.start, or the one that scans the     *)
(* standard input.  The lock of the plugins is held from the test of       *)
(* IsTerminating to the end of the send, and by endLogPlugins.             *)

PluginsLocked == sup = "closing" \/ \E g \in Launches : launch[g].pump = "send"

TakeLine ==
  /\ gen > 0 /\ launch[gen].pump = "read" /\ stdout # <<>>
  /\ stdout' = Tail(stdout)
  /\ launch' = [launch EXCEPT ![gen].pump = "line", ![gen].line = Head(stdout)]
  /\ UNCHANGED <<setup, proc, printed, gen, control, files, history, failures, restarts>>

LogLine(g) ==
  /\ launch[g].pump = "line" /\ ~PluginsLocked
  /\ launch' = IF plugin = "down"
                 THEN [launch EXCEPT ![g].pump = "read", ![g].line = 0]
                 ELSE [launch EXCEPT ![g].pump = "send"]
  /\ UNCHANGED <<setup, node, gen, control, files, history, failures, restarts>>

SendUnbounded(g) ==
  /\ launch[g].pump = "send"
  /\ launch' = [launch EXCEPT ![LinesOf].lines = Append(@, launch[g].line),
                              ![g].pump = "read", ![g].line = 0]
  /\ UNCHANGED <<setup, node, gen, control, files, history, failures, restarts>>

\* The send finds the channel of the last launch in p.lines.
SendLine(g) ==
  /\ launch[g].pump = "send" /\ Len(launch[LinesOf].lines) < LinesCap
  /\ launch' = [launch EXCEPT ![LinesOf].lines = Append(@, launch[g].line),
                              ![g].pump = "read", ![g].line = 0]
  /\ UNCHANGED <<setup, node, gen, control, files, history, failures, restarts>>

-----------------------------------------------------------------------------
(* The reading loop of a launch.                                           *)

\* ReadBlock of the console reader that p.consoleReader holds now.
PickReader(g) ==
  /\ launch[g].at = "pick" /\ g =< ReaderOf
  /\ launch' = [launch EXCEPT ![g].at = "read", ![g].on = ReaderOf]
  /\ UNCHANGED <<setup, node, gen, control, files, history, failures, restarts>>

\* The announce of the protocol is read before any block.
ReadLine(g) ==
  LET r == launch[g].on
      line == Head(launch[r].lines)
  IN  /\ launch[g].at = "read" /\ launch[r].lines # <<>>
      /\ \/ line = Init_
         \/ launch[r].versioned
      /\ launch' = [launch EXCEPT
           ![r].lines = Tail(@), ![r].versioned = TRUE,
           ![g].block = IF line < FirstStreamable THEN 0 ELSE line,
           ![g].at = IF line = Init_ THEN "read"
                     ELSE IF line < FirstStreamable THEN "pick" ELSE "push"]
      /\ UNCHANGED <<setup, node, gen, control, files, history, failures, restarts>>

ReadFails(g) ==
  LET r == launch[g].on
  IN  /\ launch[g].at = "read" /\ launch[r].lines # <<>> /\ MayFail
      /\ launch' = [launch EXCEPT ![r].lines = Tail(@), ![g].at = "failed"]
      /\ UNCHANGED <<setup, node, gen, control, files, history, restarts>>

\* A block before the announce, from the process of the last launch.
ReadTooEarly(g) ==
  LET r == launch[g].on
  IN  /\ launch[g].at = "read" /\ launch[r].lines # <<>>
      /\ Head(launch[r].lines) # Init_ /\ ~launch[r].versioned
      /\ launch' = [launch EXCEPT ![r].lines = Tail(@), ![g].at = "failed"]
      /\ UNCHANGED <<setup, node, gen, control, files, history, failures, restarts>>


\* A line that cannot be read shuts the plugin down; the loop then drains the
\* lines that p.lines holds, or LogLine would hold its lock for ever.
FailedLoop(g) ==
  /\ launch[g].at = "failed" /\ plugin' = "down"
  /\ launch' = [launch EXCEPT ![g].at = "drain", ![g].on = LinesOf]
  /\ UNCHANGED <<setup, node, gen, op, sup, lock, ended, files, history, failures, restarts>>

DrainLine(g) ==
  LET r == launch[g].on
  IN  /\ launch[g].at = "drain" /\ launch[r].lines # <<>>
      /\ launch' = [launch EXCEPT ![r].lines = Tail(@)]
      /\ UNCHANGED <<setup, node, gen, control, files, history, failures, restarts>>

\* The end of the lines closes the channel of blocks.
LinesEnd(g) ==
  LET r == launch[g].on
  IN  /\ launch[g].at \in {"read", "drain"}
      /\ launch[r].lines = <<>> /\ launch[r].closed
      /\ launch' = [launch EXCEPT ![g].at = "done"]
      /\ UNCHANGED <<setup, node, gen, control, files, history, failures, restarts>>

DropsWhenFull(g) ==
  /\ launch[g].at = "push"
  /\ launch' = [launch EXCEPT
       ![g].blocks = IF Len(@) < BlocksCap THEN Append(@, launch[g].block) ELSE @,
       ![g].block = 0, ![g].at = "pick"]
  /\ plugin' = IF stop # 0 /\ launch[g].block >= stop THEN Ask(plugin) ELSE plugin
  /\ UNCHANGED <<setup, node, gen, op, sup, lock, ended, files, history, failures, restarts>>

PushBlock(g) ==
  /\ launch[g].at = "push" /\ Len(launch[g].blocks) < BlocksCap
  /\ launch' = [launch EXCEPT ![g].blocks = Append(@, launch[g].block), ![g].block = 0,
                              ![g].at = "pick"]
  /\ plugin' = IF stop # 0 /\ launch[g].block >= stop THEN Ask(plugin) ELSE plugin
  /\ UNCHANGED <<setup, node, gen, op, sup, lock, ended, files, history, failures, restarts>>

-----------------------------------------------------------------------------
(* consumeReadFlow, the archiver and the uploader.                         *)

TakeBlock(g) ==
  /\ launch[g].consumer = "wait" /\ launch[g].blocks # <<>>
  /\ launch' = [launch EXCEPT ![g].blocks = Tail(@)]

\* StoreBlock; blocks below the start block are left out.
StoreBlock(g) ==
  LET stored == {Head(launch[g].blocks)} \ (0 .. StartBlock - 1)
  IN  /\ TakeBlock(g)
      /\ kept' = kept \cup stored /\ local' = local \cup stored
      /\ UNCHANGED <<setup, node, gen, control, remote, from, skipped, mark, crossed,
                     failures, restarts>>

\* The block is given up, and the next ones are still stored.
StoreFails(g) ==
  /\ TakeBlock(g) /\ MayFail
  /\ skipped' = skipped \cup {Head(launch[g].blocks)}
  /\ plugin' = Ask(plugin)
  /\ UNCHANGED <<setup, node, gen, op, sup, lock, ended, files, from, kept, mark, crossed,
                 restarts>>

\* The store returns before it has read the pipe: Write of the pipe, and the
\* goroutine that has the error to give, wait for ever.
StoreHangs(g) ==
  /\ launch[g].consumer = "wait" /\ launch[g].blocks # <<>> /\ MayFail
  /\ launch' = [launch EXCEPT ![g].blocks = Tail(@), ![g].consumer = "hung"]
  /\ UNCHANGED <<setup, node, gen, control, files, history, restarts>>

BlocksEnd(g) ==
  /\ launch[g].consumer = "wait" /\ launch[g].blocks = <<>> /\ launch[g].at = "done"
  /\ launch' = [launch EXCEPT ![g].consumer = "done"]
  /\ UNCHANGED <<setup, node, gen, control, files, history, failures, restarts>>

UploadsNewFiles(b) ==
  /\ ReaderOf > 0 /\ b \in (local \cap kept) \ remote /\ remote' = remote \cup {b}
  /\ UNCHANGED <<setup, node, launch, gen, control, local, history, failures, restarts>>

\* PushLocalFile: the file is copied, then removed.
UploadFile(b) ==
  /\ ReaderOf > 0 /\ b \in local \ remote /\ remote' = remote \cup {b}
  /\ UNCHANGED <<setup, node, launch, gen, control, local, history, failures, restarts>>

RemoveFile(b) ==
  /\ ReaderOf > 0 /\ b \in local \cap remote /\ local' = local \ {b}
  /\ UNCHANGED <<setup, node, launch, gen, control, remote, history, failures, restarts>>

-----------------------------------------------------------------------------
(* Shutdown.                                                               *)

\* go p.Shutdown
PluginTerminates ==
  /\ plugin = "asked" /\ plugin' = "down"
  /\ UNCHANGED <<setup, node, launch, gen, op, sup, lock, ended, files, history,
                 failures, restarts>>

\* From outside.
AskShutdown ==
  /\ MayShutdown /\ sup = "up"
  /\ IF source = "process" THEN sup' = "stop" /\ UNCHANGED plugin
                           ELSE plugin' = "down" /\ UNCHANGED sup
  /\ UNCHANGED <<setup, node, launch, gen, op, lock, ended, files, history, failures,
                 restarts>>

\* The plugin that terminates, or the exit that the operator sees.
SuperviserAsked ==
  /\ source = "process" /\ sup = "up" /\ sup' = "stop"
  /\ plugin = "down" \/ (proc = "exited" /\ op = "idle")
  /\ UNCHANGED <<setup, node, launch, gen, plugin, op, lock, ended, files, history,
                 failures, restarts>>

\* Stop does nothing when the process does not run: its last lines stay in the
\* channel of its output.
SuperviserStops ==
  /\ sup = "stop" /\ lock = "free"
  /\ IF proc = "running"
       THEN lock' = "sup" /\ proc' = "stopping" /\ sup' = "stopping" /\ UNCHANGED mark
       ELSE sup' = "plugins" /\ mark' = printed /\ UNCHANGED <<lock, proc>>
  /\ UNCHANGED <<setup, printed, stdout, launch, gen, plugin, op, ended, files, from,
                 kept, skipped, crossed, failures, restarts>>

SuperviserStopped ==
  /\ Drained("sup") /\ sup' = "plugins" /\ mark' = printed
  /\ UNCHANGED <<setup, launch, gen, plugin, op, ended, files, from, kept, skipped,
                 crossed, failures, restarts>>

EndsUnlocked ==
  /\ sup = "plugins"
  /\ IF LinesOf = 0
       THEN sup' = "done" /\ UNCHANGED <<plugin, launch>>
       ELSE /\ sup' = "closing" /\ plugin' = "down"
            /\ launch' = [launch EXCEPT ![LinesOf].closed = TRUE]
  /\ ended' = gen
  /\ UNCHANGED <<setup, node, gen, op, lock, files, history, failures, restarts>>

\* endLogPlugins, Stop of the plugin: no lines are sent while it holds the lock.
\* Stop works on a copy of the plugin: it closes the lines, and then waits for the
\* read flow, that the fields held when it was called.
EndLogPlugins ==
  /\ sup = "plugins" /\ ~PluginsLocked
  /\ IF LinesOf = 0
       THEN sup' = "done" /\ UNCHANGED <<plugin, launch>>
       ELSE /\ sup' = "closing" /\ plugin' = "down"
            /\ launch' = [launch EXCEPT ![LinesOf].closed = TRUE]
  /\ ended' = gen
  /\ UNCHANGED <<setup, node, gen, op, lock, files, history, failures, restarts>>

ReadFlowDone ==
  /\ sup = "closing" /\ launch[ended].consumer = "done" /\ sup' = "done"
  /\ UNCHANGED <<setup, node, launch, gen, plugin, op, lock, ended, files, history,
                 failures, restarts>>

\* The end of the standard input shuts the plugin down, without Stop.
StdinEnds ==
  /\ source = "stdin" /\ gen > 0 /\ proc = "exited" /\ stdout = <<>>
  /\ launch[gen].pump = "read" /\ plugin # "down" /\ plugin' = "down"
  /\ UNCHANGED <<setup, node, launch, gen, op, sup, lock, ended, files, history,
                 failures, restarts>>

\* The application of the standard input ends with its plugin.
StdinTerminates ==
  /\ source = "stdin" /\ plugin = "down" /\ sup = "up" /\ sup' = "done"
  /\ UNCHANGED <<setup, node, launch, gen, plugin, op, lock, ended, files, history,
                 failures, restarts>>

\* The memory is lost, and the process goes with it.
Forget ==
  /\ proc' = "none" /\ stdout' = <<>>
  /\ launch' = [g \in Launches |-> Unlaunched] /\ gen' = 0
  /\ plugin' = "up" /\ op' = "launch" /\ lock' = "free" /\ ended' = 0
  /\ kept' = {} /\ skipped' = {} /\ mark' = 0 /\ crossed' = FALSE
  /\ UNCHANGED <<setup, files, failures>>

Crash ==
  /\ sup # "done" /\ restarts < MaxRestarts
  /\ Forget /\ sup' = "dead"
  /\ UNCHANGED <<printed, from, restarts>>

\* The directories are still there; the process goes on from a block it has
\* printed, or from the next one.
Restart ==
  /\ sup \in {"done", "dead"} /\ restarts < MaxRestarts
  /\ restarts' = restarts + 1
  /\ Forget /\ sup' = "up"
  /\ printed' \in 0 .. printed /\ from' = printed' + 1

-----------------------------------------------------------------------------

PipelineStep ==
  \/ TakeLine
  \/ \E g \in Launches :
       \/ LogLine(g) \/ SendLine(g)
       \/ PickReader(g) \/ ReadLine(g) \/ ReadTooEarly(g) \/ FailedLoop(g)
       \/ DrainLine(g) \/ LinesEnd(g) \/ PushBlock(g)
       \/ StoreBlock(g) \/ BlocksEnd(g)

ShutdownStep ==
  \/ PluginTerminates \/ SuperviserAsked \/ SuperviserStops \/ SuperviserStopped
  \/ EndLogPlugins \/ ReadFlowDone \/ StdinEnds \/ StdinTerminates

Failure == \E g \in Launches : ReadFails(g) \/ StoreFails(g) \/ StoreHangs(g)

UploadStep == \E b \in Blocks : UploadFile(b) \/ RemoveFile(b)

Next ==
  \/ /\ sup # "dead"
     /\ \/ Launch \/ LaunchLines \/ LaunchReader \/ Create
        \/ PrintBlock \/ ProcessExits \/ ProcessStopped
        \/ Reload \/ ReloadStopped
        \/ PipelineStep \/ Failure \/ UploadStep
        \/ AskShutdown \/ ShutdownStep \/ Crash
  \/ Restart

Spec == Init /\ [][Next]_vars

Alive(A) == sup # "dead" /\ A

\* The goroutines run, the process stops when it is told to, and the node is
\* started again.  The uploader passes while the context of the plugin lives.
Fairness ==
  /\ WF_vars(Alive(Launch \/ LaunchLines \/ LaunchReader)) /\ WF_vars(Alive(Create))
  /\ WF_vars(Alive(ProcessStopped)) /\ WF_vars(Alive(ReloadStopped))
  /\ WF_vars(Alive(TakeLine))
  /\ \A g \in Launches :
       /\ SF_vars(Alive(LogLine(g))) /\ WF_vars(Alive(SendLine(g)))
       /\ WF_vars(Alive(PickReader(g) \/ ReadLine(g) \/ ReadTooEarly(g) \/ FailedLoop(g)
                         \/ DrainLine(g) \/ LinesEnd(g) \/ PushBlock(g)))
       /\ WF_vars(Alive(StoreBlock(g) \/ BlocksEnd(g)))
  /\ \A b \in Blocks : WF_vars(Alive(plugin = "up" /\ (UploadFile(b) \/ RemoveFile(b))))
  /\ WF_vars(Alive(PluginTerminates)) /\ WF_vars(Alive(SuperviserAsked))
  /\ SF_vars(Alive(SuperviserStops)) /\ WF_vars(Alive(SuperviserStopped))
  /\ SF_vars(Alive(EndLogPlugins)) /\ WF_vars(Alive(ReadFlowDone))
  /\ WF_vars(Alive(StdinEnds \/ StdinTerminates))
  /\ WF_vars(Restart)

FairSpec == Spec /\ Fairness

-----------------------------------------------------------------------------
(* Properties.                                                             *)

\* Every variable has its type.
TypeOK ==
  /\ source \in Sources /\ stop \in Stops
  /\ proc \in {"none", "running", "stopping", "exited"}
  /\ printed \in 0 .. MaxBlock /\ stdout \in Seq(0 .. MaxBlock)
  /\ Len(stdout) =< StdoutCap
  /\ gen \in 0 .. MaxLaunches /\ ended \in 0 .. MaxLaunches
  /\ \A g \in Launches :
       /\ launch[g].lines \in Seq(0 .. MaxBlock) /\ Len(launch[g].lines) =< LinesCap
       /\ launch[g].blocks \in Seq(Blocks) /\ Len(launch[g].blocks) =< BlocksCap
       /\ launch[g].closed \in BOOLEAN /\ launch[g].versioned \in BOOLEAN
       /\ launch[g].pump \in {"off", "read", "line", "send"}
       /\ launch[g].at \in {"off", "pick", "read", "push", "failed", "drain",
                         "done"}
       /\ launch[g].on \in Launches
       /\ launch[g].line \in 0 .. MaxBlock /\ launch[g].block \in 0 .. MaxBlock
       /\ launch[g].consumer \in {"off", "wait", "hung", "done"}
  /\ plugin \in {"up", "asked", "down"}
  /\ op \in {"launch", "lines", "reader", "create", "idle", "stopping"}
  /\ sup \in {"up", "stop", "stopping", "plugins", "closing", "done", "dead"}
  /\ lock \in {"free", "op", "sup"}
  /\ local \subseteq Blocks /\ remote \subseteq Blocks
  /\ kept \subseteq Blocks /\ skipped \subseteq Blocks /\ crossed \in BOOLEAN
  /\ from \in 1 .. MaxBlock + 1 /\ mark \in 0 .. MaxBlock
  /\ failures \in 0 .. MaxFailures /\ restarts \in 0 .. MaxRestarts

\* A line is never sent on the channel that the shutdown has closed: the process
\* would panic with lines unread (mindreader.go, LogLine and Stop).
NoSendOnClosed ==
  \A g \in Launches : launch[g].pump = "send" => ~launch[LinesOf].closed

Archived(b) == b >= from /\ b >= StartBlock /\ b >= FirstStreamable

\* The stored blocks have no hole: whatever a shutdown drops, it drops the end
\* of the output, through reloads, failing reads and an exit of the process.
\* Only a block whose write failed is missing below a stored one.  A launch that
\* found lines or blocks of the last one on their way promises nothing.
NoHole ==
  ~crossed => \A b \in kept, a \in Blocks :
                a < b /\ Archived(a) => a \in kept \cup skipped

\* A shutdown without failure stores all that the process printed, up to the
\* stop block, except for one line that superviser.start may hold; again where
\* every launch found the last one with nothing to do.
CleanStopLosesOneLine ==
  sup = "done" /\ source = "process" /\ failures = 0 /\ ~crossed =>
    \A b \in 1 .. mark - 1 :
      Archived(b) /\ (stop = 0 \/ b =< stop) => b \in kept

Hung == \E g \in Launches : launch[g].consumer = "hung"

\* Stop fell into a launch, and waits for a reading loop whose lines nobody closes:
\* Launch had set one of the two channels and not the other, or the loop went on
\* with the console reader of the launch after.
Torn == sup = "closing" /\ ~launch[launch[ended].on].closed

\* A file of the local directory reaches the store, as long as the node is
\* started again: a shutdown does not wait for it.
FileIsUploaded ==
  \A b \in Blocks :
    b \in local ~> (b \in remote \/ (sup \in {"done", "dead"} /\ restarts = MaxRestarts)
                     \/ Hung \/ Torn)

\* The shutdown ends, whatever the lines, the readers and the commands do, unless
\* a store hangs or Stop has fallen into a launch.
ShutdownCompletes ==
  (sup # "up" \/ plugin # "up") ~> (sup \in {"done", "dead"} \/ Hung \/ Torn)

=============================================================================
