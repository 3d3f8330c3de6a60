---------------------------- MODULE Applications ----------------------------
(***************************************************************************)
(* The applications that a process runs, under Launcher and with one       *)
(* InfoServer between them.  An application is of one of these kinds:      *)
(*                                                                         *)
(*   firehose   Run builds a hub and a gRPC server and returns; a          *)
(*              goroutine waits for the hub, then for Init of the info     *)
(*              server, then serves.  The first tier of substreams, which  *)
(*              is external, shares the info server the same way.          *)
(*   relayer    Run waits for its hub, serves, and waits for its end.      *)
(*   merger     Run starts the merger and returns.                         *)
(*   indexer    Run looks for the start block, starts the index builder    *)
(*              and returns.                                               *)
(*                                                                         *)
(* `inner` is what an application runs: the gRPC server, the relayer, the  *)
(* merger, the index builder.  It has a shutter of its own, tied to the    *)
(* application's both ways: each shuts the other down.                     *)
(***************************************************************************)
EXTENDS Launcher, InfoServer

CONSTANTS
    CommandLines, \* what the process may be started with: [args, flags, failures], the last a bound
    Kind          \* the kind of each registered application

\* The clients of the info server are the objects of the launcher.
ASSUME ClientsAssumption == Clients = Slots

\* The bound on the names holds for the lines that are given.
ASSUME CommandLinesAssumption ==
    \A line \in CommandLines :
        /\ line.args \in Seq([op : {"all", "add", "remove"}, app : Errors])
        /\ Len(ParseAppsFromArgs(line.args)) <= MaxSlots
        /\ line.failures \in Nat

VARIABLES
    hub,        \* the hub of each object
    inner,      \* its component
    tied,       \* the application's hook on `inner` was registered in time
    stage,      \* the goroutine that brings the application up
    isReady,    \* a.isReady, r.ready
    budget      \* bound: the failures left of those that the start allows

ownVars == <<hub, inner, tied, stage, isReady, budget>>
vars == <<launcherVars, infoVars, ownVars>>

KindOf(o) == IF o \in DOMAIN names /\ NameOf(o) \in AppRegistry THEN Kind[NameOf(o)] ELSE "none"

Init ==
    /\ \E line \in CommandLines : 
         /\ LauncherInit(line.args) /\ InfoInit(line.flags)
         /\ budget = line.failures
    /\ hub = [o \in Slots |-> "none"]
    /\ inner = [o \in Slots |-> "none"]
    /\ tied = [o \in Slots |-> FALSE]
    /\ stage = [o \in Slots |-> "none"]
    /\ isReady = [o \in Slots |-> FALSE]

-----------------------------------------------------------------------------
MayFail == budget > 0 /\ budget' = budget - 1

\* An application begins to shut down for a reason of its own.
ShutdownItself(o, err) ==
    /\ BeginShutdown(o, err)
    /\ faults' = IF appTerm[o] = "no" THEN faults \cup {<<NameOf(o), err>>} ELSE faults

\* What an application's step leaves to the launcher.
LauncherKeeps == UNCHANGED <<mainVars, shutterVars, run, watch, call, firstApp, signalled>>

\* Hooks registered on a shutter that is already down are not called.
Tie(o) == tied' = [tied EXCEPT ![o] = appTerm[o] = "no"]

\* Run fails before anything runs: a store, a probe, a configuration, a panic.
RunEndsInError(o) ==
    /\ run[o] = "started" /\ stage[o] = "none" /\ MayFail
    /\ RunFails(o)
    /\ UNCHANGED <<infoVars, hub, inner, tied, stage, isReady>>

\* Run of the firehose application: it returns at once.
FirehoseRun(o) ==
    /\ Alive /\ run[o] = "started" /\ KindOf(o) = "firehose"
    /\ run' = [run EXCEPT ![o] = "returned"]
    /\ hub' = [hub EXCEPT ![o] = IF config.live THEN "up" ELSE "none"]
    /\ inner' = [inner EXCEPT ![o] = "built"]
    /\ stage' = [stage EXCEPT ![o] = "wait"]
    /\ Tie(o)
    /\ UNCHANGED <<mainVars, shutterVars, appVars, watch, call, firstApp, signalled>>
    /\ UNCHANGED <<infoVars, isReady, budget>>

\* Run of the relayer: the hub starts, Run waits for it.
RelayerRun(o) ==
    /\ Alive /\ run[o] = "started" /\ KindOf(o) = "relayer"
    /\ run' = [run EXCEPT ![o] = "running"]
    /\ hub' = [hub EXCEPT ![o] = "up"]
    /\ inner' = [inner EXCEPT ![o] = "built"]
    /\ stage' = [stage EXCEPT ![o] = "wait"]
    /\ Tie(o)
    /\ UNCHANGED <<mainVars, shutterVars, appVars, watch, call, firstApp, signalled>>
    /\ UNCHANGED <<infoVars, isReady, budget>>

MergerRun(o) ==
    /\ Alive /\ run[o] = "started" /\ KindOf(o) = "merger"
    /\ run' = [run EXCEPT ![o] = "returned"]
    /\ inner' = [inner EXCEPT ![o] = "serving"]
    /\ stage' = [stage EXCEPT ![o] = "up"]
    /\ Tie(o)
    /\ UNCHANGED <<mainVars, shutterVars, appVars, watch, call, firstApp, signalled>>
    /\ UNCHANGED <<infoVars, hub, isReady, budget>>

\* Run of the index builder: the start block is looked for in a context that the
\* application's shutdown cancels, and only then does the builder start.
ResolveStartBlock(o) ==
    /\ Alive /\ run[o] = "started" /\ KindOf(o) = "indexer" /\ stage[o] = "none"
    /\ stage' = [stage EXCEPT ![o] = "resolve"]
    /\ Tie(o)
    /\ UNCHANGED <<launcherVars, infoVars, hub, inner, isReady, budget>>

IndexerRun(o) ==
    /\ Alive /\ stage[o] = "resolve"
    /\ run' = [run EXCEPT ![o] = "returned"]
    /\ stage' = [stage EXCEPT ![o] = "up"]
    /\ \/ /\ tied[o] /\ appTerm[o] # "no"          \* cancelled: Run returns the error
          /\ call' = [call EXCEPT ![<<"run", o>>] = "once"]
          /\ UNCHANGED <<inner, tied>>
       \/ /\ inner' = [inner EXCEPT ![o] = "serving"]
          /\ Tie(o)
          /\ UNCHANGED call
    /\ UNCHANGED <<mainVars, shutterVars, appVars, watch, firstApp, signalled>>
    /\ UNCHANGED <<infoVars, hub, isReady, budget>>

-----------------------------------------------------------------------------
\* The hub ends: the firehose application goes down with it, the relayer looks later.
HubFails(o) ==
    /\ Alive /\ hub[o] = "up" /\ MayFail
    /\ hub' = [hub EXCEPT ![o] = "down"]
    /\ IF KindOf(o) = "firehose" THEN ShutdownItself(o, NameOf(o)) ELSE UNCHANGED appVars
    /\ LauncherKeeps
    /\ UNCHANGED <<infoVars, inner, tied, stage, isReady>>

\* The firehose goroutine: `select` between the hub, once it is ready, and the application's end.
FirehoseHubReady(o) ==
    /\ Alive /\ stage[o] = "wait" /\ KindOf(o) = "firehose"
    /\ config.live => hub[o] = "up"
    /\ stage' = [stage EXCEPT ![o] = "info"]
    /\ InitCalled(o)
    /\ UNCHANGED <<launcherVars, hub, inner, tied, isReady, budget>>

FirehoseLeaves(o) ==
    /\ Alive /\ stage[o] = "wait" /\ KindOf(o) = "firehose"
    /\ config.live /\ appTerm[o] # "no"
    /\ stage' = [stage EXCEPT ![o] = "gone"]
    /\ UNCHANGED <<launcherVars, infoVars, hub, inner, tied, isReady, budget>>

\* Init failed: the application is shut down, but the goroutine goes on.
InfoRefused(o) ==
    /\ Alive /\ stage[o] = "info" /\ initResult[o] = "failed"
    /\ stage' = [stage EXCEPT ![o] = "refused"]
    /\ ShutdownItself(o, NameOf(o))
    /\ LauncherKeeps
    /\ UNCHANGED <<infoVars, hub, inner, tied, isReady, budget>>

\* a.isReady and firehoseServer.Launch(); a server that was shut down stays down.
FirehoseServe(o) ==
    /\ Alive
    /\ \/ stage[o] = "info" /\ initResult[o] = "ok"
       \/ stage[o] = "refused" /\ appTerm[o] = "terminated"
    /\ stage' = [stage EXCEPT ![o] = "up"]
    /\ isReady' = [isReady EXCEPT ![o] = TRUE]
    /\ inner' = [inner EXCEPT ![o] = IF @ = "built" THEN "serving" ELSE @]
    /\ UNCHANGED <<launcherVars, infoVars, hub, tied, budget>>

\* relayer.Run once its hub is ready, whatever the relayer's shutter says by then: the hook
\* that closes the server comes too late when the relayer is already down.
RelayerHubReady(o) ==
    /\ Alive /\ stage[o] = "wait" /\ KindOf(o) = "relayer" /\ hub[o] = "up"
    /\ stage' = [stage EXCEPT ![o] = "up"]
    /\ isReady' = [isReady EXCEPT ![o] = TRUE]
    /\ inner' = [inner EXCEPT ![o] = "serving"]
    /\ UNCHANGED <<launcherVars, infoVars, hub, tied, budget>>

\* ... and its last two lines: the end of the hub is the end of the relayer.
RelayerSeesHub(o) ==
    /\ Alive /\ stage[o] = "up" /\ KindOf(o) = "relayer" /\ hub[o] = "down"
    /\ run[o] = "running"
    /\ run' = [run EXCEPT ![o] = "returned"]
    /\ inner' = [inner EXCEPT ![o] = IF appTerm[o] = "no" THEN "down" ELSE @]
    /\ ShutdownItself(o, NameOf(o))
    /\ UNCHANGED <<mainVars, shutterVars, watch, call, firstApp, signalled>>
    /\ UNCHANGED <<infoVars, hub, tied, stage, isReady, budget>>

\* A component ends: a server or a worker fails, a worker reaches its stop block.
InnerEnds(o) ==
    /\ Alive /\ inner[o] = "serving"
    /\ inner' = [inner EXCEPT ![o] = "down"]
    /\ \/ /\ MayFail
          /\ ShutdownItself(o, NameOf(o))
       \/ /\ KindOf(o) \in {"merger", "indexer"}
          /\ ShutdownItself(o, NoApp)
          /\ UNCHANGED budget
    /\ LauncherKeeps
    /\ UNCHANGED <<infoVars, hub, tied, stage, isReady>>

\* The hooks of the application's shutter are through.
FinishShutdown(o) ==
    /\ Alive /\ appTerm[o] = "terminating"
    /\ appTerm' = [appTerm EXCEPT ![o] = "terminated"]
    /\ inner' = [inner EXCEPT ![o] = IF tied[o] THEN "down" ELSE @]
    /\ UNCHANGED <<mainVars, shutterVars, appErr, faults, run, watch, call, firstApp, signalled>>
    /\ UNCHANGED <<infoVars, hub, tied, stage, isReady, budget>>

-----------------------------------------------------------------------------
\* Steps that the scheduler takes sooner or later.
AppStep ==
    \E o \in Slots :
        \/ FirehoseRun(o) \/ RelayerRun(o) \/ MergerRun(o) \/ ResolveStartBlock(o) \/ IndexerRun(o)
        \/ FirehoseLeaves(o) \/ InfoRefused(o) \/ FirehoseServe(o)
        \/ RelayerSeesHub(o) \/ FinishShutdown(o)

\* Steps of the environment.
Event ==
    \/ Signal /\ UNCHANGED <<infoVars, ownVars>>
    \/ \E s \in Sources : Alive /\ GetBlock(s) /\ UNCHANGED <<launcherVars, ownVars>>
    \/ \E o \in Slots :
         \/ FirehoseHubReady(o) \/ RelayerHubReady(o) \/ HubFails(o)
         \/ InnerEnds(o) \/ RunEndsInError(o)

LaunchStep == LauncherStep /\ UNCHANGED <<infoVars, ownVars>>
AnswerStep == Alive /\ InfoStep /\ UNCHANGED <<launcherVars, ownVars>>

Next == LaunchStep \/ AnswerStep \/ AppStep \/ Event

Spec == Init /\ [][Next]_vars
FairSpec == Spec /\ WF_vars(LaunchStep) /\ WF_vars(AnswerStep) /\ WF_vars(AppStep)

-----------------------------------------------------------------------------
\* Types; and the channel `ready` of the info server is closed once at most (a second close
\* panics), however many applications call Init.
TypeOK ==
    /\ names \in Seq(Names) /\ Len(names) <= MaxSlots
    /\ pc \in {"check", "create", "run", "watch", "select", "wait", "returned"}
    /\ todo \subseteq Slots /\ hooked \subseteq Slots /\ asked \subseteq hooked
    /\ apps \in [Names -> Slots \cup {0}]
    /\ status \in [Names -> {"NotFound", "Created", "Stopped"}]
    /\ appTerm \in [Slots -> {"no", "terminating", "terminated"}]
    /\ appErr \in [Slots -> Errors]
    /\ run \in [Slots -> {"none", "started", "running", "returned"}]
    /\ watch \in [Slots -> {"none", "waiting", "done"}]
    /\ call \in [Callers -> {"none", "once", "stop", "done"}]
    /\ firstApp \in Errors /\ launchErr \in Errors
    /\ launchTerm \in BOOLEAN /\ signalled \in BOOLEAN /\ closing \in BOOLEAN
    /\ report \in [how : {"none", "refused", "signal", "app"}, app : Errors, err : Errors]
    /\ faults \subseteq Names \X Errors
    /\ infoLock \in Slots \cup {0}
    /\ closed \in 0..1
    /\ initDone \in BOOLEAN /\ initError \in BOOLEAN
    /\ initResult \in [Slots -> {"none", "called", "ok", "failed"}]
    /\ fetch \in [Sources -> {"none", "looking", "found", "gone"}]
    /\ hub \in [Slots -> {"none", "up", "down"}]
    /\ inner \in [Slots -> {"none", "built", "serving", "down"}]
    /\ stage \in [Slots -> {"none", "resolve", "wait", "info", "refused", "up", "gone"}]
    /\ tied \in [Slots -> BOOLEAN] /\ isReady \in [Slots -> BOOLEAN]
    /\ budget \in Nat

\* When start() says that an application brought the process down, that application did end
\* by itself, and the error returned (none for a clean end) is one with which some application
\* ended by itself: not the echo of an application that was only asked to stop
\* (launcher.go:184 and start.go:148).
ExitIsFounded ==
    report.how = "app" =>
        /\ \E f \in faults : f[1] = report.app
        /\ \E f \in faults : f[2] = report.err

\* IsReady of the firehose application, which its health check answers.
IsReady(o) ==
    KindOf(o) = "firehose" /\ isReady[o] /\ appTerm[o] = "no" /\ ~signalled

\* With validation, no application says that it is ready while the endpoint has no answer, an
\* incomplete one, or the name of a chain whose genesis at that height is another block: not
\* after a failed Init, on which its goroutine goes on to set isReady (app.go:194), nor when
\* another application made the only call that looked.
ReadyIsValid ==
    \A o \in Slots : IsReady(o) /\ config.validate =>
        /\ InfoReady /\ Complete(response)
        /\ response.blockId = config.block.id
        /\ ~\E c \in Known : /\ c.name = response.chain
                             /\ c.genesisNum = config.block.num
                             /\ c.genesisId # config.block.id

\* Once an application has ended by itself or a signal came, the process ends: every
\* application gets its shutdown and the wait for them returns.
ProcessEnds == (faults # {} \/ signalled) ~> (pc = "returned")

\* An application that calls Init of the shared info server gets ready or goes down: no
\* caller is left waiting for the one that holds the lock.
InitAnswers ==
    \A o \in Slots : (stage[o] = "info") ~> (stage[o] = "up" \/ appTerm[o] = "terminated" \/ pc = "returned")
=============================================================================
