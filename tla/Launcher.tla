------------------------------ MODULE Launcher ------------------------------
(***************************************************************************)
(* One process of firehose-core: the "start" command and the launcher,     *)
(* which creates the applications named on the command line, runs them,    *)
(* watches them, and stops them all when one ends or a signal arrives.     *)
(*                                                                         *)
(* An application is known here by the interface App (launcher/app.go): a  *)
(* Run that returns, fails or panics, and a shutter.  What runs inside the *)
(* applications is in Applications.tla, which completes the next-state     *)
(* relation.                                                               *)
(*                                                                         *)
(* Each place in the list of names is one object (`Slots`): a name given   *)
(* twice is created twice.  An error is the name of the application it     *)
(* comes from.                                                             *)
(***************************************************************************)
EXTENDS Naturals, Sequences, FiniteSets, SequencesExt

CONSTANTS
    Alphabet,        \* the names that may be given, in alphabetical order
    AppRegistry,     \* the names of the registered applications
    OnRequestOnly,   \* those that "all" leaves out
    NoApp,           \* no application: the empty name, the nil error
    MaxSlots         \* bound: names on a command line

Names == ToSet(Alphabet)

ASSUME LauncherAssumption ==
    /\ OnRequestOnly \subseteq AppRegistry
    /\ AppRegistry \subseteq Names
    /\ NoApp \notin Names
    /\ Alphabet \in Seq(Names)
    /\ MaxSlots \in Nat

Slots == 1..MaxSlots
Errors == Names \cup {NoApp}
Callers == {"run", "watch"} \X Slots

VARIABLES
    names,      \* the applications to start, in order
    pc,         \* the place of the main goroutine
    todo,       \* the objects its current loop has left
    apps,       \* l.apps: the object that stands for a name, 0 if none
    status,     \* l.appStatus
    hooked,     \* the objects that the launcher's shutter is to shut down
    asked,      \* those for which `go app.Shutdown(err)` is started and has not run
    appTerm,    \* the shutter of each object
    appErr,     \* the error it was shut down with
    run,        \* the goroutine that runs an object
    watch,      \* the goroutine that watches it
    call,       \* the place of each goroutine inside shutdownDueToApp
    firstApp,   \* firstShutdownAppID, set inside shutdownDoOnce
    launchTerm, \* the launcher's shutter
    launchErr,  \* its error
    signalled,  \* hasBeenSignaled
    closing,    \* `go launch.Close()` is started and has not run
    report,     \* what start() says of the end
    faults      \* (history) <<name, error>> of the ends that applications caused themselves

mainVars == <<names, pc, todo, apps, status, hooked, closing, report>>
shutterVars == <<asked, launchTerm, launchErr>>
appVars == <<appTerm, appErr, faults>>
launcherVars == <<mainVars, shutterVars, appVars, run, watch, call, firstApp, signalled>>

-----------------------------------------------------------------------------
(* The command line.  An argument is [op, app]; commas only separate them.   *)
(* The list is sorted in the end, so that only how often a name is in it     *)
(* matters until then.                                                       *)

AddArgument(list, arg) ==
    CASE arg.op = "all"    -> [n \in Names |-> list[n] + IF n \in AppRegistry \ OnRequestOnly THEN 1 ELSE 0]
      [] arg.op = "remove" -> [list EXCEPT ![arg.app] = 0]
      [] arg.op = "add"    -> [list EXCEPT ![arg.app] = @ + 1]

Copies(name, times) == [k \in 1..times |-> name]

\* sort.Strings
Sorted(list) ==
    LET upTo[i \in 0..Len(Alphabet)] ==
            IF i = 0 THEN <<>> ELSE upTo[i - 1] \o Copies(Alphabet[i], list[Alphabet[i]])
    IN  upTo[Len(Alphabet)]

ParseAppsFromArgs(args) ==
    LET given == IF args = <<>> THEN <<[op |-> "all", app |-> NoApp]>> ELSE args
        list[i \in 0..Len(given)] ==
            IF i = 0 THEN [n \in Names |-> 0] ELSE AddArgument(list[i - 1], given[i])
    IN  Sorted(list[Len(given)])

-----------------------------------------------------------------------------
Alive == pc # "returned"
NameOf(o) == names[o]
Launched == {apps[n] : n \in Names} \ {0}
NoReport == [how |-> "none", app |-> NoApp, err |-> NoApp]

LauncherInit(args) ==
    /\ names = ParseAppsFromArgs(args)
    /\ pc = "check"
    /\ todo = {}
    /\ apps = [n \in Names |-> 0]
    /\ status = [n \in Names |-> "NotFound"]
    /\ hooked = {}
    /\ asked = {}
    /\ appTerm = [o \in Slots |-> "no"]
    /\ appErr = [o \in Slots |-> NoApp]
    /\ run = [o \in Slots |-> "none"]
    /\ watch = [o \in Slots |-> "none"]
    /\ call = [c \in Callers |-> "none"]
    /\ firstApp = NoApp
    /\ launchTerm = FALSE
    /\ launchErr = NoApp
    /\ signalled = FALSE
    /\ closing = FALSE
    /\ report = NoReport
    /\ faults = {}

\* Launch returns an error, start returns it, and the process ends at once.
Refuse ==
    /\ pc' = "returned"
    /\ report' = [NoReport EXCEPT !.how = "refused"]
    /\ UNCHANGED <<names, todo, apps, status, hooked, closing>>

\* The checks before anything is created.
CheckNames ==
    /\ pc = "check"
    /\ IF names = <<>> \/ ~(ToSet(names) \subseteq AppRegistry)
       THEN Refuse
       ELSE /\ pc' = "create"
            /\ todo' = DOMAIN names
            /\ UNCHANGED <<names, apps, status, hooked, closing, report>>
    /\ UNCHANGED <<shutterVars, appVars, run, watch, call, firstApp, signalled>>

\* One round of the loop that creates: a factory may fail or panic.
CreateApp ==
    /\ pc = "create"
    /\ \E o \in todo :
         /\ \A p \in todo : o <= p
         /\ \/ /\ apps' = [apps EXCEPT ![NameOf(o)] = o]
               /\ status' = [status EXCEPT ![NameOf(o)] = "Created"]
               /\ hooked' = hooked \cup {o}
               /\ todo' = todo \ {o}
               /\ UNCHANGED <<names, pc, closing, report>>
            \/ Refuse
    /\ UNCHANGED <<shutterVars, appVars, run, watch, call, firstApp, signalled>>

\* The end of a loop, by its break once the launcher terminates too.
NextLoop ==
    /\ \/ /\ pc = "create" /\ todo = {}
          /\ pc' = "run" /\ todo' = Launched
       \/ /\ pc = "run" /\ (todo = {} \/ launchTerm)
          /\ pc' = "watch" /\ todo' = Launched
       \/ /\ pc = "watch" /\ (todo = {} \/ launchTerm)
          /\ pc' = "select" /\ todo' = {}
    /\ UNCHANGED <<names, apps, status, hooked, closing, report>>
    /\ UNCHANGED <<shutterVars, appVars, run, watch, call, firstApp, signalled>>

\* The two loops over the map start a goroutine each per application, in any order.
StartRunning(o) ==
    /\ pc = "run" /\ o \in todo /\ ~launchTerm
    /\ todo' = todo \ {o}
    /\ run' = [run EXCEPT ![o] = "started"]
    /\ UNCHANGED <<names, pc, apps, status, hooked, closing, report>>
    /\ UNCHANGED <<shutterVars, appVars, watch, call, firstApp, signalled>>

StartWatching(o) ==
    /\ pc = "watch" /\ o \in todo /\ ~launchTerm
    /\ todo' = todo \ {o}
    /\ watch' = [watch EXCEPT ![o] = "waiting"]
    /\ UNCHANGED <<names, pc, apps, status, hooked, closing, report>>
    /\ UNCHANGED <<shutterVars, appVars, run, call, firstApp, signalled>>

-----------------------------------------------------------------------------
(* Shutting down. *)

\* shutter.Shutdown of an application, the part before its hooks.
BeginShutdown(o, err) ==
    IF appTerm[o] = "no"
    THEN /\ appTerm' = [appTerm EXCEPT ![o] = "terminating"]
         /\ appErr' = [appErr EXCEPT ![o] = err]
    ELSE UNCHANGED <<appTerm, appErr>>

\* shutter.Shutdown of the launcher: its hooks start one goroutine per application.
ShutdownLauncher(err) ==
    IF launchTerm
    THEN UNCHANGED shutterVars
    ELSE /\ launchTerm' = TRUE
         /\ launchErr' = err
         /\ asked' = hooked

\* Run returned an error, or panicked and was recovered: shutdownDueToApp begins.
RunFails(o) ==
    /\ Alive
    /\ run' = [run EXCEPT ![o] = "returned"]
    /\ call' = [call EXCEPT ![<<"run", o>>] = "once"]
    /\ faults' = faults \cup {<<NameOf(o), NameOf(o)>>}
    /\ UNCHANGED <<mainVars, shutterVars, appTerm, appErr, watch, firstApp, signalled>>

\* Mutant: the watcher looks at the error instead of the channel, and misses a clean end.
WatchErrorsOnly(o) ==
    /\ Alive /\ watch[o] = "waiting"
    /\ \/ /\ appErr[o] # NoApp
          /\ call' = [call EXCEPT ![<<"watch", o>>] = "once"]
       \/ /\ launchTerm
          /\ UNCHANGED call
    /\ watch' = [watch EXCEPT ![o] = "done"]
    /\ UNCHANGED <<mainVars, shutterVars, appVars, run, firstApp, signalled>>

\* The watcher's select takes either of two channels that are both closed.
Watch(o) ==
    /\ Alive /\ watch[o] = "waiting"
    /\ \/ /\ appTerm[o] # "no"
          /\ call' = [call EXCEPT ![<<"watch", o>>] = "once"]
       \/ /\ launchTerm
          /\ UNCHANGED call
    /\ watch' = [watch EXCEPT ![o] = "done"]
    /\ UNCHANGED <<mainVars, shutterVars, appVars, run, firstApp, signalled>>

\* Mutant: without the once, the last application wins.
RecordLast(c) ==
    /\ Alive /\ call[c] = "once"
    /\ firstApp' = NameOf(c[2])
    /\ status' = [status EXCEPT ![NameOf(c[2])] = "Stopped"]
    /\ call' = [call EXCEPT ![c] = "stop"]
    /\ UNCHANGED <<names, pc, todo, apps, hooked, closing, report>>
    /\ UNCHANGED <<shutterVars, appVars, run, watch, signalled>>

\* shutdownDueToApp: the once, and the status under its lock ...
RecordFirst(c) ==
    /\ Alive /\ call[c] = "once"
    /\ firstApp' = IF firstApp = NoApp THEN NameOf(c[2]) ELSE firstApp
    /\ status' = [status EXCEPT ![NameOf(c[2])] = "Stopped"]
    /\ call' = [call EXCEPT ![c] = "stop"]
    /\ UNCHANGED <<names, pc, todo, apps, hooked, closing, report>>
    /\ UNCHANGED <<shutterVars, appVars, run, watch, signalled>>

\* ... then the launcher's shutdown, with this application's error.
ErrorOf(c) == IF c[1] = "run" THEN NameOf(c[2]) ELSE appErr[c[2]]

StopLauncher(c) ==
    /\ Alive /\ call[c] = "stop"
    /\ ShutdownLauncher(ErrorOf(c))
    /\ call' = [call EXCEPT ![c] = "done"]
    /\ UNCHANGED <<mainVars, appVars, run, watch, firstApp, signalled>>

\* `go app.Shutdown(err)`, the hook of the launcher's shutter.
AskedToStop(o) ==
    /\ Alive /\ o \in asked
    /\ asked' = asked \ {o}
    /\ BeginShutdown(o, launchErr)
    /\ UNCHANGED <<mainVars, launchTerm, launchErr, faults, run, watch, call, firstApp, signalled>>

-----------------------------------------------------------------------------
(* start(): the signal, the select, and the wait. *)

\* The handler is installed once Launch has returned; past the select nobody reads its channel.
Signal ==
    /\ pc = "select" /\ ~signalled
    /\ signalled' = TRUE
    /\ UNCHANGED <<mainVars, shutterVars, appVars, run, watch, call, firstApp>>

SeeSignal ==
    /\ pc = "select" /\ signalled
    /\ closing' = TRUE
    /\ report' = [NoReport EXCEPT !.how = "signal"]
    /\ pc' = "wait"
    /\ UNCHANGED <<names, todo, apps, status, hooked>>
    /\ UNCHANGED <<shutterVars, appVars, run, watch, call, firstApp, signalled>>

\* launch.Close()
Close ==
    /\ Alive /\ closing
    /\ closing' = FALSE
    /\ ShutdownLauncher(NoApp)
    /\ UNCHANGED <<names, pc, todo, apps, status, hooked, report>>
    /\ UNCHANGED <<appVars, run, watch, call, firstApp, signalled>>

\* The goroutine of Terminating() reads the first application, start reads the error.
SeeTermination ==
    /\ pc = "select" /\ launchTerm
    /\ report' = [how |-> "app", app |-> firstApp, err |-> launchErr]
    /\ pc' = "wait"
    /\ UNCHANGED <<names, todo, apps, status, hooked, closing>>
    /\ UNCHANGED <<shutterVars, appVars, run, watch, call, firstApp, signalled>>

WaitForTermination ==
    /\ pc = "wait"
    /\ \A o \in Launched : appTerm[o] = "terminated"
    /\ pc' = "returned"
    /\ UNCHANGED <<names, todo, apps, status, hooked, closing, report>>
    /\ UNCHANGED <<shutterVars, appVars, run, watch, call, firstApp, signalled>>

\* Every step of the launcher but the signal; what the applications do is not here.
LauncherStep ==
    \/ CheckNames \/ CreateApp \/ NextLoop
    \/ \E o \in Slots : StartRunning(o) \/ StartWatching(o) \/ Watch(o) \/ AskedToStop(o)
    \/ \E c \in Callers : RecordFirst(c) \/ StopLauncher(c)
    \/ SeeSignal \/ Close \/ SeeTermination \/ WaitForTermination
=============================================================================
