------------------------- MODULE ApplicationsProofs -------------------------
(***************************************************************************)
(* Proofs about the applications of one process, for every command line,   *)
(* every set of known chains, every number of applications and failures.   *)
(***************************************************************************)
EXTENDS Applications, WellFoundedInduction, TLAPS

-----------------------------------------------------------------------------
(* The inductive invariant behind ExitIsFounded.                           *)

\* The functions that steps update keep their domains.
Domains ==
  /\ DOMAIN appTerm = Slots /\ DOMAIN appErr = Slots
  /\ DOMAIN run = Slots /\ DOMAIN watch = Slots /\ DOMAIN stage = Slots
  /\ DOMAIN hub = Slots /\ DOMAIN inner = Slots
  /\ DOMAIN call = Callers /\ DOMAIN apps = Names

\* The loops run over objects that the command line names, and what runs is
\* registered: no goroutine of the launcher acts for the empty name.
Registered ==
  /\ pc \notin {"check", "returned"} => \A i \in DOMAIN names : names[i] \in AppRegistry
  /\ pc \in {"create", "run", "watch"} => todo \subseteq DOMAIN names
  /\ \A n \in Names : apps[n] = 0 \/ apps[n] \in DOMAIN names
  /\ \A o \in Slots : run[o] # "none" \/ watch[o] # "none" => NameOf(o) \in AppRegistry
  /\ \A o \in Slots : stage[o] # "none" => run[o] # "none"
  /\ \A k \in {"run", "watch"}, o \in Slots :
       call[<<k, o>>] # "none" => NameOf(o) \in AppRegistry

\* An application that still looks for its start block has nothing that could
\* end by itself: if it ends, the launcher asked it to.
Idle ==
  \A o \in Slots : stage[o] \in {"none", "resolve"} =>
    /\ hub[o] = "none" /\ inner[o] # "serving"
    /\ appTerm[o] # "no" => launchTerm

Early == pc \notin {"wait", "returned"}
Ended(app) == \E f \in faults : f[1] = app
Blamed(err) == \E f \in faults : f[2] = err

\* Until the launcher shuts down, every end has a cause of its own.
Founded ==
  /\ \A o \in Slots : appTerm[o] # "no" => launchTerm \/ <<NameOf(o), appErr[o]>> \in faults
  /\ \A o \in Slots : call[<<"run", o>>] \in {"once", "stop"} =>
       launchTerm \/ <<NameOf(o), NameOf(o)>> \in faults
  /\ \A o \in Slots : call[<<"watch", o>>] \in {"once", "stop"} => appTerm[o] # "no"
  /\ firstApp # NoApp => launchTerm \/ Ended(firstApp)
  /\ \A k \in {"run", "watch"}, o \in Slots :
       call[<<k, o>>] \in {"stop", "done"} => firstApp # NoApp

\* The launcher shuts down, before start() has left its select, only after an
\* application was recorded as the first, and with an error of its own.
Shut ==
  /\ asked # {} => launchTerm
  /\ closing => ~Early
  /\ launchTerm /\ Early => firstApp # NoApp /\ Ended(firstApp) /\ Blamed(launchErr)

ExitInv == Domains /\ Registered /\ Idle /\ Founded /\ Shut /\ ExitIsFounded

\* At the start nothing has run, ended or been reported.
LEMMA ExitInvStarts == Init => ExitInv
BY DEF Init, LauncherInit, NoReport, ExitInv, Domains, Registered, Idle, Founded, Shut,
       ExitIsFounded, Early, Callers

\* A goroutine that enters the once is registered and its end has a cause.
LEMMA RecordFirstKeeps ==
  ASSUME ExitInv, NEW c \in Callers, RecordFirst(c), UNCHANGED ownVars
  PROVE  ExitInv'
<1>. USE DEF ExitInv, Domains, RecordFirst, launcherVars, mainVars, shutterVars, appVars, ownVars
<1>1. PICK k \in {"run", "watch"}, o \in Slots : c = <<k, o>>
  BY DEF Callers
<1>2. NameOf(o) # NoApp
  BY <1>1, LauncherAssumption DEF Registered
<1>3. launchTerm \/ Ended(NameOf(o))
  <2>1. CASE k = "run"
    <3>1. launchTerm \/ <<NameOf(o), NameOf(o)>> \in faults
      BY <1>1, <2>1 DEF Founded
    <3>. QED BY <3>1 DEF Ended
  <2>2. CASE k = "watch"
    <3>1. launchTerm \/ <<NameOf(o), appErr[o]>> \in faults
      BY <1>1, <2>2 DEF Founded
    <3>. QED BY <3>1 DEF Ended
  <2>. QED BY <2>1, <2>2
<1>4. firstApp' # NoApp /\ (firstApp # NoApp => firstApp' = firstApp)
  BY <1>1, <1>2
<1>5. Domains' /\ Registered' /\ Idle' /\ ExitIsFounded'
  BY DEF Callers, Registered, Idle, ExitIsFounded, NameOf
<1>6. Founded'
  <2>1. launchTerm' \/ Ended(firstApp)'
    BY <1>1, <1>3, <1>4 DEF Founded, Ended
  <2>. QED BY <1>4, <2>1 DEF Founded, Callers, NameOf
<1>7. Shut'
  BY <1>4 DEF Shut, Early, Ended, Blamed
<1>. QED BY <1>5, <1>6, <1>7

\* The goroutine that shuts the launcher down hands over an error of its own.
LEMMA StopLauncherKeeps ==
  ASSUME ExitInv, NEW c \in Callers, StopLauncher(c), UNCHANGED ownVars
  PROVE  ExitInv'
<1>. USE DEF ExitInv, Domains, StopLauncher, ShutdownLauncher, launcherVars, mainVars,
             shutterVars, appVars, ownVars
<1>1. PICK k \in {"run", "watch"}, o \in Slots : c = <<k, o>>
  BY DEF Callers
<1>2. launchTerm \/ <<NameOf(o), ErrorOf(c)>> \in faults
  <2>1. CASE k = "run"
    BY <1>1, <2>1 DEF Founded, ErrorOf
  <2>2. CASE k = "watch"
    BY <1>1, <2>2 DEF Founded, ErrorOf
  <2>. QED BY <2>1, <2>2
<1>3. launchTerm \/ Blamed(ErrorOf(c))
  BY <1>2 DEF Blamed
<1>4. firstApp # NoApp /\ (launchTerm \/ Ended(firstApp))
  BY <1>1 DEF Founded
<1>5. Domains' /\ Registered' /\ Idle' /\ ExitIsFounded'
  BY DEF Callers, Registered, Idle, ExitIsFounded, NameOf
<1>6. Founded'
  BY DEF Founded, Callers, NameOf, Ended
<1>7. Shut'
  <2>1. launchTerm' /\ pc' = pc /\ closing' = closing /\ faults' = faults /\ firstApp' = firstApp
    OBVIOUS
  <2>2. launchErr' = IF launchTerm THEN launchErr ELSE ErrorOf(c)
    OBVIOUS
  <2>. QED BY <1>3, <1>4, <2>1, <2>2 DEF Shut, Early, Ended, Blamed
<1>. QED BY <1>5, <1>6, <1>7

\* The other steps of the launcher.
LEMMA LauncherKeepsExit ==
  ASSUME ExitInv, LauncherStep, UNCHANGED ownVars
  PROVE  ExitInv'
<1>. USE LauncherAssumption
     DEF ExitInv, Domains, Registered, Idle, Founded, Shut, ExitIsFounded, Early, Ended, Blamed,
         NameOf, launcherVars, mainVars, shutterVars, appVars, ownVars
<1>1. CASE CheckNames
  BY <1>1 DEF CheckNames, Refuse, ToSet, NoReport
<1>2. CASE CreateApp
  BY <1>2 DEF CreateApp, Refuse, NoReport
<1>3. CASE NextLoop
  BY <1>3 DEF NextLoop, Launched
<1>4. ASSUME NEW o \in Slots, StartRunning(o) PROVE ExitInv'
  BY <1>4 DEF StartRunning
<1>5. ASSUME NEW o \in Slots, StartWatching(o) PROVE ExitInv'
  BY <1>5 DEF StartWatching
<1>6. ASSUME NEW o \in Slots, Watch(o) PROVE ExitInv'
  BY <1>6 DEF Watch, Callers
<1>7. ASSUME NEW o \in Slots, AskedToStop(o) PROVE ExitInv'
  BY <1>7 DEF AskedToStop, BeginShutdown
<1>8. CASE SeeSignal
  BY <1>8 DEF SeeSignal, NoReport
<1>9. CASE Close
  BY <1>9 DEF Close, ShutdownLauncher
<1>10. CASE SeeTermination
  BY <1>10 DEF SeeTermination
<1>11. CASE WaitForTermination
  BY <1>11 DEF WaitForTermination
<1>. QED
  BY <1>1, <1>2, <1>3, <1>4, <1>5, <1>6, <1>7, <1>8, <1>9, <1>10, <1>11,
     RecordFirstKeeps, StopLauncherKeeps DEF LauncherStep

\* The steps of the applications: an end of their own is one more cause.
LEMMA ApplicationKeepsExit ==
  ASSUME ExitInv, NEW o \in Slots,
         \/ FirehoseRun(o) \/ RelayerRun(o) \/ MergerRun(o) \/ ResolveStartBlock(o)
         \/ IndexerRun(o) \/ FirehoseLeaves(o) \/ InfoRefused(o) \/ FirehoseServe(o)
         \/ RelayerSeesHub(o) \/ FinishShutdown(o) \/ FirehoseHubReady(o)
         \/ RelayerHubReady(o) \/ HubFails(o) \/ InnerEnds(o) \/ RunEndsInError(o)
  PROVE  ExitInv'
<1>. USE LauncherAssumption
     DEF ExitInv, Domains, Registered, Idle, Founded, Shut, ExitIsFounded, Early, Ended, Blamed,
         NameOf, launcherVars, mainVars, shutterVars, appVars, LauncherKeeps, ShutdownItself,
         BeginShutdown
<1>1. CASE FirehoseRun(o)
  BY <1>1 DEF FirehoseRun
<1>2. CASE RelayerRun(o)
  BY <1>2 DEF RelayerRun
<1>3. CASE MergerRun(o)
  BY <1>3 DEF MergerRun
<1>4. CASE ResolveStartBlock(o)
  BY <1>4 DEF ResolveStartBlock
<1>5. CASE IndexerRun(o)
  BY <1>5 DEF IndexerRun, Callers
<1>6. CASE FirehoseLeaves(o)
  BY <1>6 DEF FirehoseLeaves
<1>7. CASE InfoRefused(o)
  BY <1>7 DEF InfoRefused
<1>8. CASE FirehoseServe(o)
  BY <1>8 DEF FirehoseServe
<1>9. CASE RelayerSeesHub(o)
  BY <1>9 DEF RelayerSeesHub
<1>10. CASE FinishShutdown(o)
  BY <1>10 DEF FinishShutdown
<1>11. CASE FirehoseHubReady(o)
  BY <1>11 DEF FirehoseHubReady
<1>12. CASE RelayerHubReady(o)
  BY <1>12 DEF RelayerHubReady
<1>13. CASE HubFails(o)
  BY <1>13 DEF HubFails
<1>14. CASE InnerEnds(o)
  BY <1>14 DEF InnerEnds
<1>15. CASE RunEndsInError(o)
  BY <1>15 DEF RunEndsInError, RunFails, Callers
<1>. QED
  BY <1>1, <1>2, <1>3, <1>4, <1>5, <1>6, <1>7, <1>8, <1>9, <1>10, <1>11, <1>12, <1>13, <1>14, <1>15

LEMMA ExitInvKept == ExitInv /\ [Next]_vars => ExitInv'
<1> SUFFICES ASSUME ExitInv, [Next]_vars PROVE ExitInv'
  OBVIOUS
<1>1. ASSUME UNCHANGED <<pc, names, todo, apps, report, closing, shutterVars, appVars, run,
                         watch, call, firstApp, hub, inner, stage>>
      PROVE  ExitInv'
  BY <1>1 DEF ExitInv, Domains, Registered, Idle, Founded, Shut, ExitIsFounded, Early, Ended,
              Blamed, NameOf, shutterVars, appVars
<1>2. CASE LaunchStep
  BY <1>2, LauncherKeepsExit DEF LaunchStep
<1>3. CASE AnswerStep
  BY <1>1, <1>3 DEF AnswerStep, launcherVars, mainVars, ownVars
<1>4. CASE AppStep
  BY <1>4, ApplicationKeepsExit DEF AppStep
<1>5. CASE Event
  <2>1. CASE Signal /\ UNCHANGED <<infoVars, ownVars>>
    BY <1>1, <2>1 DEF Signal, mainVars, ownVars
  <2>2. CASE \E s \in Sources : Alive /\ GetBlock(s) /\ UNCHANGED <<launcherVars, ownVars>>
    BY <1>1, <2>2 DEF launcherVars, mainVars, ownVars
  <2>. QED BY <1>5, <2>1, <2>2, ApplicationKeepsExit DEF Event
<1>6. CASE UNCHANGED vars
  BY <1>1, <1>6 DEF vars, launcherVars, mainVars, ownVars
<1>. QED BY <1>2, <1>3, <1>4, <1>5, <1>6 DEF Next

\* For every command line: the application and the error that start() reports are those of
\* ends that applications caused themselves (launcher.go:184, start.go:148).
THEOREM ReportedEndIsFounded == Spec => []ExitIsFounded
<1>1. ExitInv => ExitIsFounded
  BY DEF ExitInv
<1>. QED BY <1>1, ExitInvStarts, ExitInvKept, PTL DEF Spec

-----------------------------------------------------------------------------
(* The inductive invariant behind ReadyIsValid.                            *)

\* The answer is complete and names no chain that the block contradicts.
ValidAnswer ==
  /\ InfoReady /\ Complete(response)
  /\ response.blockId = config.block.id
  /\ ~\E c \in Known : /\ c.name = response.chain
                       /\ c.genesisNum = config.block.num
                       /\ c.genesisId # config.block.id

AnswerDomains ==
  /\ DOMAIN appTerm = Slots /\ DOMAIN run = Slots /\ DOMAIN stage = Slots
  /\ DOMAIN isReady = Slots /\ DOMAIN initResult = Slots
  /\ DOMAIN response = {"chain", "encoding", "blockId"}
  /\ closed \in Nat

\* An application is brought up once: its goroutine starts with its Run.
BroughtUpOnce ==
  /\ pc \in {"check", "create"} => \A o \in Slots : run[o] = "none"
  /\ pc = "run" => \A o \in todo \cap Slots : run[o] = "none"
  /\ \A o \in Slots : /\ run[o] = "none" => stage[o] = "none"
                      /\ run[o] = "started" => stage[o] \in {"none", "resolve"}
                      /\ isReady[o] => stage[o] = "up"

\* The server of answers: one client looks, once, and its result is kept.
AnsweredOnce ==
  /\ config.validate => filling = "none"
  /\ infoLock # 0 => /\ infoLock \in Slots /\ initResult[infoLock] = "called"
                     /\ ~initDone /\ config.validate
  /\ \A o \in Slots : initResult[o] = "ok" => initDone /\ (config.validate => ~initError)
  /\ config.validate /\ initDone /\ ~initError => ValidAnswer

\* A firehose application is ready on a good answer, or it is going down.
ReadyOrDown ==
  \A o \in Slots : KindOf(o) = "firehose" /\ isReady[o] =>
    initResult[o] = "ok" \/ appTerm[o] # "no"

AnswerInv == AnswerDomains /\ BroughtUpOnce /\ AnsweredOnce /\ ReadyOrDown

\* At the start nobody has called Init and nothing is ready.
LEMMA AnswerInvStarts == Init => AnswerInv
<1> SUFFICES ASSUME Init PROVE AnswerInv
  OBVIOUS
<1>1. closed = 0 /\ DOMAIN response = {"chain", "encoding", "blockId"}
  BY DEF Init, InfoInit
<1>2. /\ DOMAIN appTerm = Slots /\ DOMAIN run = Slots /\ DOMAIN stage = Slots
      /\ DOMAIN isReady = Slots /\ DOMAIN initResult = Slots
  BY ClientsAssumption DEF Init, LauncherInit, InfoInit
<1>3. AnswerDomains
  BY <1>1, <1>2 DEF AnswerDomains
<1>4. BroughtUpOnce /\ AnsweredOnce /\ ReadyOrDown
  BY ClientsAssumption
     DEF Init, LauncherInit, InfoInit, BroughtUpOnce, AnsweredOnce, ReadyOrDown
<1>. QED BY <1>3, <1>4 DEF AnswerInv

\* Filling keeps the fields of an answer.
LEMMA FilledDomain ==
  ASSUME NEW resp, NEW blk, NEW v, DOMAIN resp = {"chain", "encoding", "blockId"}
  PROVE  DOMAIN Filled(resp, blk, v) = {"chain", "encoding", "blockId"}
BY DEF Filled, Named

\* An answer that passes both checks of the filler names the block it was filled from, and
\* no known chain with another genesis block at that height.
LEMMA FilledIsValid ==
  ASSUME NEW resp, NEW blk, DOMAIN resp = {"chain", "encoding", "blockId"},
         Consistent(resp, blk), Complete(Filled(resp, blk, TRUE))
  PROVE  /\ Filled(resp, blk, TRUE).blockId = blk.id
         /\ ~\E c \in Known : /\ c.name = Filled(resp, blk, TRUE).chain
                              /\ c.genesisNum = blk.num
                              /\ c.genesisId # blk.id
<1>. DEFINE seen == [resp EXCEPT !.blockId = blk.id,
                       !.encoding = IF {p \in Protocols : p.blockType = blk.type} = {} THEN @
                         ELSE (CHOOSE p \in {p \in Protocols : p.blockType = blk.type} : TRUE).encoding]
            found == IF resp.chain = "" THEN ChainByGenesisBlock(blk.num, blk.id)
                                        ELSE ChainByName(resp.chain)
<1>1. Filled(resp, blk, TRUE) = Named(seen, found)
  BY DEF Filled
<1>2. DOMAIN seen = {"chain", "encoding", "blockId"} /\ seen.blockId = blk.id /\ seen.chain = resp.chain
  OBVIOUS
<1>. HIDE DEF seen
<1>3. CASE found = {}
  <2>1. Named(seen, found) = seen
    BY <1>3 DEF Named
  <2>2. resp.chain # ""
    BY <1>1, <1>2, <2>1 DEF Complete
  <2>3. \A c \in Known : c.name # resp.chain
    BY <1>3, <2>2 DEF ChainByName
  <2>. QED BY <1>1, <1>2, <2>1, <2>3
<1>4. CASE found # {}
  <2>1. PICK d \in found : Named(seen, found) = [seen EXCEPT !.chain = d.name]
    BY <1>4 DEF Named
  <2>2. d \in Known /\ (d.genesisNum = blk.num => d.genesisId = blk.id)
    BY DEF ChainByGenesisBlock, ChainByName, Consistent
  <2>3. Filled(resp, blk, TRUE).chain = d.name /\ Filled(resp, blk, TRUE).blockId = blk.id
    BY <1>1, <1>2, <2>1
  <2>4. \A c \in Known : c.name = d.name => c = d
    BY <2>2, InfoAssumption
  <2>. QED BY <2>2, <2>3, <2>4
<1>. QED BY <1>3, <1>4

\* A block ends the call that holds the lock.
LEMMA ReceiveBlockKeeps ==
  ASSUME AnswerInv, NEW s \in Sources, ReceiveBlock(s), UNCHANGED <<launcherVars, ownVars>>
  PROVE  AnswerInv'
<1>. DEFINE ok == Consistent(response, config.block) /\ Complete(response')
<1>0. DOMAIN response = {"chain", "encoding", "blockId"}
  BY DEF AnswerInv, AnswerDomains
<1>1. /\ infoLock \in Slots /\ initResult[infoLock] = "called" /\ ~initDone /\ config.validate
      /\ filling = "none" /\ \A o \in Slots : initResult[o] # "ok"
  BY DEF AnswerInv, AnsweredOnce, ReceiveBlock
<1>2. /\ response' = Filled(response, config.block, TRUE)
      /\ EndInit(ok) /\ UNCHANGED <<config, filling>>
  BY DEF ReceiveBlock
<1>. HIDE DEF ok
<1>3. AnswerDomains'
  <2>1. DOMAIN Filled(response, config.block, TRUE) = {"chain", "encoding", "blockId"}
    BY FilledDomain DEF AnswerInv, AnswerDomains
  <2>2. DOMAIN initResult' = DOMAIN initResult /\ closed' \in {closed, closed + 1}
    BY <1>2 DEF EndInit
  <2>3. UNCHANGED <<appTerm, run, stage, isReady>>
    BY DEF launcherVars, appVars, ownVars
  <2>4. closed \in Nat /\ closed' \in Nat
    BY <2>2 DEF AnswerInv, AnswerDomains
  <2>5. DOMAIN response' = {"chain", "encoding", "blockId"}
    BY <1>2, <2>1
  <2>. QED BY <2>2, <2>3, <2>4, <2>5 DEF AnswerInv, AnswerDomains
<1>4. BroughtUpOnce'
  BY DEF AnswerInv, BroughtUpOnce, launcherVars, mainVars, ownVars
<1>5. ok => ValidAnswer'
  <2> SUFFICES ASSUME ok PROVE ValidAnswer'
    OBVIOUS
  <2>1. InfoReady'
    BY <1>2 DEF EndInit, InfoReady, AnswerInv, AnswerDomains
  <2>2. Consistent(response, config.block) /\ Complete(Filled(response, config.block, TRUE))
    BY <1>2 DEF ok
  <2>3. config' = config /\ Complete(response')
    BY <1>2, <2>2
  <2>4. /\ Filled(response, config.block, TRUE).blockId = config.block.id
        /\ ~\E c \in Known : /\ c.name = Filled(response, config.block, TRUE).chain
                             /\ c.genesisNum = config.block.num
                             /\ c.genesisId # config.block.id
    BY <2>2, <1>0, FilledIsValid
  <2>. QED BY <1>2, <2>1, <2>3, <2>4 DEF ValidAnswer, Complete
<1>6. AnsweredOnce'
  BY <1>1, <1>2, <1>5 DEF AnswerInv, AnswerDomains, AnsweredOnce, EndInit
<1>7. ReadyOrDown'
  BY <1>1, <1>2 DEF AnswerInv, AnswerDomains, ReadyOrDown, EndInit, KindOf, NameOf,
                    launcherVars, mainVars, appVars, ownVars
<1>. QED BY <1>3, <1>4, <1>6, <1>7 DEF AnswerInv

\* The other steps of the info server.
LEMMA InfoKeepsAnswer ==
  ASSUME AnswerInv, InfoStep \/ \E s \in Sources : GetBlock(s), UNCHANGED <<launcherVars, ownVars>>
  PROVE  AnswerInv'
<1>0. closed \in Nat /\ closed + 1 \in Nat
  BY DEF AnswerInv, AnswerDomains
<1>. USE ClientsAssumption
     DEF AnswerInv, AnswerDomains, BroughtUpOnce, AnsweredOnce, ReadyOrDown, ValidAnswer,
         InfoReady, Complete, KindOf, NameOf, launcherVars, mainVars, appVars, ownVars
<1>1. ASSUME NEW o \in Clients, LaterInit(o) PROVE AnswerInv'
  BY <1>1 DEF LaterInit
<1>2. ASSUME NEW o \in Clients, FirstInit(o) PROVE AnswerInv'
  <2>1. o # 0
    BY InfoAssumption
  <2>2. CASE config.validate /\ infoLock' = o /\ UNCHANGED <<initDone, initResult, filling>>
    BY <1>2, <2>1, <2>2 DEF FirstInit
  <2>3. CASE ~config.validate /\ initDone' = TRUE /\ UNCHANGED infoLock
             /\ initResult' = [initResult EXCEPT ![o] = "ok"]
    BY <1>2, <2>3 DEF FirstInit
  <2>. QED BY <1>2, <2>2, <2>3 DEF FirstInit
<1>3. CASE InitTimesOut
  BY <1>3 DEF InitTimesOut, EndInit
<1>4. CASE FillBlock
  <2>1. ~config.validate
    BY <1>4 DEF FillBlock
  <2>2. DOMAIN response' = {"chain", "encoding", "blockId"}
    BY <1>4, FilledDomain DEF FillBlock
  <2>3. /\ UNCHANGED <<config, infoLock, initDone, initError, initResult>>
        /\ filling' = "done" /\ closed' = closed + 1
    BY <1>4 DEF FillBlock
  <2>. QED BY <1>0, <2>1, <2>2, <2>3
<1>5. ASSUME NEW s \in Sources, GetBlock(s) PROVE AnswerInv'
  BY <1>5 DEF GetBlock
<1>. QED BY <1>1, <1>2, <1>3, <1>4, <1>5, ReceiveBlockKeeps DEF InfoStep

\* The steps of the launcher.
\* A shutter goes one way.
LEMMA ShutterForward ==
  ASSUME DOMAIN appTerm = Slots, NEW o \in Slots, NEW err, BeginShutdown(o, err)
  PROVE  /\ DOMAIN appTerm' = Slots
         /\ \A p \in Slots : appTerm[p] # "no" => appTerm'[p] # "no"
BY DEF BeginShutdown

\* A step that only moves shutters forward and brings applications up leaves the
\* answer as it is, and the applications that were going down still are.
LEMMA AnswerOutlivesShutdown ==
  ASSUME AnswerInv, BroughtUpOnce', UNCHANGED <<infoVars, names, isReady>>,
         DOMAIN run' = Slots, DOMAIN stage' = Slots, DOMAIN appTerm' = Slots,
         \A p \in Slots : appTerm[p] # "no" => appTerm'[p] # "no"
  PROVE  AnswerInv'
<1>1. AnswerDomains'
  BY DEF AnswerInv, AnswerDomains, infoVars
<1>2. AnsweredOnce'
  <2>1. UNCHANGED <<config, infoLock, initDone, initError, initResult, filling, response, closed>>
    BY DEF infoVars
  <2>2. ValidAnswer' <=> ValidAnswer
    BY <2>1 DEF ValidAnswer, InfoReady, Complete
  <2>. QED BY <2>1, <2>2 DEF AnswerInv, AnsweredOnce
<1>3. ReadyOrDown'
  <2>1. UNCHANGED <<initResult, isReady, names>>
    BY DEF infoVars
  <2>. QED BY <2>1 DEF AnswerInv, ReadyOrDown, KindOf, NameOf
<1>. QED BY <1>1, <1>2, <1>3 DEF AnswerInv

LEMMA LauncherKeepsAnswer ==
  ASSUME AnswerInv, LauncherStep \/ Signal, UNCHANGED <<infoVars, ownVars>>
  PROVE  AnswerInv'
<1>. USE DEF AnswerInv, AnswerDomains, BroughtUpOnce, AnsweredOnce, ReadyOrDown, ValidAnswer,
             InfoReady, Complete, KindOf, NameOf, mainVars, shutterVars, appVars,
             infoVars, ownVars
<1>1. CASE CheckNames
  BY <1>1 DEF CheckNames, Refuse
<1>2. CASE CreateApp
  BY <1>2 DEF CreateApp, Refuse
<1>3. CASE NextLoop
  BY <1>3 DEF NextLoop
<1>4. ASSUME NEW o \in Slots, StartRunning(o) PROVE AnswerInv'
  BY <1>4 DEF StartRunning
<1>5. ASSUME NEW o \in Slots, StartWatching(o) \/ Watch(o) PROVE AnswerInv'
  <2>1. /\ UNCHANGED <<infoVars, ownVars, names, pc, appTerm, run>>
        /\ todo' \subseteq todo
    BY <1>5 DEF StartWatching, Watch
  <2>2. /\ BroughtUpOnce' /\ UNCHANGED <<names, isReady>>
        /\ DOMAIN run' = Slots /\ DOMAIN stage' = Slots /\ DOMAIN appTerm' = Slots
        /\ \A p \in Slots : appTerm[p] # "no" => appTerm'[p] # "no"
    BY <2>1
  <2>. HIDE DEF AnswerInv
  <2>. QED BY <2>2, AnswerOutlivesShutdown
<1>6. ASSUME NEW o \in Slots, AskedToStop(o) PROVE AnswerInv'
  <2>1. DOMAIN appTerm' = Slots /\ \A p \in Slots : appTerm[p] # "no" => appTerm'[p] # "no"
    BY <1>6, ShutterForward DEF AskedToStop
  <2>2. /\ BroughtUpOnce' /\ UNCHANGED <<names, isReady>>
        /\ DOMAIN run' = Slots /\ DOMAIN stage' = Slots
    BY <1>6 DEF AskedToStop
  <2>. HIDE DEF AnswerInv
  <2>. QED BY <2>1, <2>2, AnswerOutlivesShutdown
<1>7. ASSUME NEW c \in Callers, RecordFirst(c) \/ StopLauncher(c) PROVE AnswerInv'
  <2>1. UNCHANGED <<infoVars, ownVars, names, pc, todo, appTerm, run>>
    BY <1>7 DEF RecordFirst, StopLauncher
  <2>2. /\ BroughtUpOnce' /\ UNCHANGED <<names, isReady>>
        /\ DOMAIN run' = Slots /\ DOMAIN stage' = Slots /\ DOMAIN appTerm' = Slots
        /\ \A p \in Slots : appTerm[p] # "no" => appTerm'[p] # "no"
    BY <2>1
  <2>. HIDE DEF AnswerInv
  <2>. QED BY <2>2, AnswerOutlivesShutdown
<1>8. CASE SeeSignal \/ Close \/ SeeTermination \/ WaitForTermination \/ Signal
  BY <1>8 DEF SeeSignal, Close, SeeTermination, WaitForTermination, Signal
<1>. QED BY <1>1, <1>2, <1>3, <1>4, <1>5, <1>6, <1>7, <1>8 DEF LauncherStep

\* The steps that shut an application down.
LEMMA ShutdownKeepsAnswer ==
  ASSUME AnswerInv, NEW o \in Slots,
         InfoRefused(o) \/ RelayerSeesHub(o) \/ HubFails(o) \/ InnerEnds(o)
  PROVE  AnswerInv'
<1>1. DOMAIN appTerm = Slots /\ DOMAIN run = Slots /\ DOMAIN stage = Slots
  BY DEF AnswerInv, AnswerDomains
<1>2. DOMAIN appTerm' = Slots /\ \A p \in Slots : appTerm[p] # "no" => appTerm'[p] # "no"
  <2>1. CASE \E err : BeginShutdown(o, err)
    BY <1>1, <2>1, ShutterForward
  <2>2. CASE UNCHANGED appTerm
    BY <1>1, <2>2
  <2>3. (\E err : BeginShutdown(o, err)) \/ UNCHANGED appTerm
    BY DEF InfoRefused, RelayerSeesHub, HubFails, InnerEnds, ShutdownItself, appVars
  <2>. QED BY <2>1, <2>2, <2>3
<1>3. UNCHANGED <<infoVars, names, isReady, pc, todo>>
  BY DEF InfoRefused, RelayerSeesHub, HubFails, InnerEnds, LauncherKeeps, mainVars
<1>4. \/ /\ stage[o] = "info" /\ stage' = [stage EXCEPT ![o] = "refused"]
         /\ run' = run
      \/ /\ run[o] = "running" /\ run' = [run EXCEPT ![o] = "returned"]
         /\ stage' = stage
      \/ UNCHANGED <<run, stage>>
  BY DEF InfoRefused, RelayerSeesHub, HubFails, InnerEnds, LauncherKeeps
<1>5. BroughtUpOnce' /\ DOMAIN run' = Slots /\ DOMAIN stage' = Slots
  BY <1>1, <1>3, <1>4 DEF AnswerInv, BroughtUpOnce
<1>. QED BY <1>2, <1>3, <1>5, AnswerOutlivesShutdown

\* The steps of the applications.
LEMMA ApplicationKeepsAnswer ==
  ASSUME AnswerInv, NEW o \in Slots,
         \/ FirehoseRun(o) \/ RelayerRun(o) \/ MergerRun(o) \/ ResolveStartBlock(o)
         \/ IndexerRun(o) \/ FirehoseLeaves(o) \/ InfoRefused(o) \/ FirehoseServe(o)
         \/ RelayerSeesHub(o) \/ FinishShutdown(o) \/ FirehoseHubReady(o)
         \/ RelayerHubReady(o) \/ HubFails(o) \/ InnerEnds(o) \/ RunEndsInError(o)
  PROVE  AnswerInv'
<1>. USE ClientsAssumption
     DEF AnswerInv, AnswerDomains, BroughtUpOnce, AnsweredOnce, ReadyOrDown, ValidAnswer,
         InfoReady, Complete, KindOf, NameOf, launcherVars, mainVars, appVars, infoVars
<1>1. CASE FirehoseRun(o)
  BY <1>1 DEF FirehoseRun
<1>2. CASE RelayerRun(o)
  BY <1>2 DEF RelayerRun
<1>3. CASE MergerRun(o)
  BY <1>3 DEF MergerRun
<1>4. CASE ResolveStartBlock(o)
  BY <1>4 DEF ResolveStartBlock
<1>5. CASE IndexerRun(o)
  BY <1>5 DEF IndexerRun
<1>6. CASE FirehoseLeaves(o)
  BY <1>6 DEF FirehoseLeaves
<1>7. CASE InfoRefused(o) \/ RelayerSeesHub(o) \/ HubFails(o) \/ InnerEnds(o)
  <2>. HIDE DEF AnswerInv
  <2>. QED BY <1>7, ShutdownKeepsAnswer
<1>8. CASE FirehoseServe(o)
  BY <1>8 DEF FirehoseServe
<1>9. CASE FinishShutdown(o)
  BY <1>9 DEF FinishShutdown
<1>10. CASE FirehoseHubReady(o)
  BY <1>10 DEF FirehoseHubReady, InitCalled
<1>11. CASE RelayerHubReady(o)
  BY <1>11 DEF RelayerHubReady
<1>12. CASE RunEndsInError(o)
  BY <1>12 DEF RunEndsInError, RunFails
<1>. QED
  BY <1>1, <1>2, <1>3, <1>4, <1>5, <1>6, <1>7, <1>8, <1>9, <1>10, <1>11, <1>12

LEMMA AnswerInvKept == AnswerInv /\ [Next]_vars => AnswerInv'
<1> SUFFICES ASSUME AnswerInv, [Next]_vars PROVE AnswerInv'
  OBVIOUS
<1>1. CASE LaunchStep
  BY <1>1, LauncherKeepsAnswer DEF LaunchStep
<1>2. CASE AnswerStep
  BY <1>2, InfoKeepsAnswer DEF AnswerStep
<1>3. CASE AppStep
  BY <1>3, ApplicationKeepsAnswer DEF AppStep
<1>4. CASE Event
  BY <1>4, LauncherKeepsAnswer, InfoKeepsAnswer, ApplicationKeepsAnswer DEF Event
<1>5. CASE UNCHANGED vars
  BY <1>5 DEF AnswerInv, AnswerDomains, BroughtUpOnce, AnsweredOnce, ReadyOrDown, ValidAnswer,
              InfoReady, Complete, KindOf, NameOf, vars, launcherVars, mainVars, appVars,
              infoVars, ownVars
<1>. QED BY <1>1, <1>2, <1>3, <1>4, <1>5 DEF Next

\* For every set of known chains with distinct names: with validation, an application that
\* says it is ready serves a complete answer that its block does not contradict
\* (app.go:194, endpoint_info.go:81).
THEOREM ReadyAnswerIsValid == Spec => []ReadyIsValid
<1>1. AnswerInv => ReadyIsValid
  <2> SUFFICES ASSUME AnswerInv, NEW o \in Slots, IsReady(o), config.validate PROVE ValidAnswer
    BY DEF ReadyIsValid, ValidAnswer
  <2>1. initResult[o] = "ok"
    BY DEF AnswerInv, ReadyOrDown, IsReady
  <2>. QED BY <2>1 DEF AnswerInv, AnsweredOnce
<1>. QED BY <1>1, AnswerInvStarts, AnswerInvKept, PTL DEF Spec

-----------------------------------------------------------------------------
(* Recursive functions, such as those that read the command line.          *)

Less == {p \in Nat \X Nat : p[1] < p[2]}

\* A non-empty set of numbers has a least one.
LEMMA LeastNumber ==
  ASSUME NEW T, T \subseteq Nat, T # {}
  PROVE  \E k \in T : \A j \in T : k =< j
<1>1. IsWellFoundedOn(Less, Nat)
  BY NatLessThanWellFounded DEF OpToRel, Less
<1>2. PICK k \in T : \A j \in T : ~(<<j, k>> \in Less)
  BY <1>1, WFMin
<1>3. ASSUME NEW j \in T PROVE k =< j
  <2>1. j \in Nat /\ k \in Nat
    OBVIOUS
  <2>2. j < k => <<j, k>> \in Less
    BY <2>1 DEF Less
  <2>. QED BY <1>2, <2>1, <2>2
<1>. QED BY <1>3

\* What a recursive function keeps in a set step by step is in it.
LEMMA KeptIn ==
  ASSUME NEW n \in Nat, NEW f, NEW S, f[0] \in S,
         \A i \in 1..n : f[i - 1] \in S => f[i] \in S
  PROVE  \A i \in 0..n : f[i] \in S
<1> DEFINE T == {i \in 0..n : f[i] \notin S}
<1> SUFFICES ASSUME T # {} PROVE FALSE
  OBVIOUS
<1>1. PICK k \in T : \A j \in T : k =< j
  <2>1. T \subseteq Nat
    OBVIOUS
  <2>. HIDE DEF T
  <2>. QED BY <2>1, LeastNumber
<1>2. k \in 1..n
  OBVIOUS
<1>3. k - 1 \in 0..n /\ k - 1 \notin T
  BY <1>1, <1>2
<1>. QED BY <1>2, <1>3

\* A recursion along 1..n whose step stays in a set has a solution.
Solves(f, n, base, F) == f = [i \in 0..n |-> IF i = 0 THEN base ELSE F[<<f[i - 1], i>>]]

LEMMA RecursionExists ==
  ASSUME NEW n \in Nat, NEW base, NEW F
  PROVE  \E f : Solves(f, n, base, F)
<1> DEFINE T == {k \in Nat : ~ \E f : Solves(f, k, base, F)}
<1> SUFFICES ASSUME T # {} PROVE FALSE
  OBVIOUS
<1>1. PICK k \in T : \A j \in T : k =< j
  <2>1. T \subseteq Nat
    OBVIOUS
  <2>. HIDE DEF T
  <2>. QED BY <2>1, LeastNumber
<1>2. k # 0
  <2>1. Solves([i \in 0..0 |-> base], 0, base, F)
    BY DEF Solves
  <2>. QED BY <2>1
<1>3. k - 1 \in Nat /\ k - 1 \notin T
  BY <1>1, <1>2
<1>4. PICK f : Solves(f, k - 1, base, F)
  BY <1>3
<1> DEFINE g == [i \in 0..k |-> IF i = 0 THEN base ELSE F[<<f[i - 1], i>>]]
<1>5. \A i \in 0..k - 1 : g[i] = f[i]
  BY <1>4, <1>3 DEF Solves
<1>6. Solves(g, k, base, F)
  <2>1. \A i \in 0..k : i # 0 => g[i - 1] = f[i - 1]
    BY <1>5, <1>3
  <2>. QED BY <2>1 DEF Solves
<1>. QED BY <1>6



\* One whose step stays in a set has a solution in it, and so is every solution.
LEMMA RecursionIn ==
  ASSUME NEW n \in Nat, NEW S, NEW base \in S, NEW F,
         \A x \in S, i \in 1..n : F[<<x, i>>] \in S
  PROVE  /\ \E f : Solves(f, n, base, F) /\ \A i \in 0..n : f[i] \in S
<1>1. PICK f : Solves(f, n, base, F)
  BY RecursionExists
<1>2. f[0] \in S
  BY <1>1 DEF Solves
<1>3. \A i \in 1..n : f[i - 1] \in S => f[i] \in S
  <2> SUFFICES ASSUME NEW i \in 1..n, f[i - 1] \in S PROVE f[i] \in S
    OBVIOUS
  <2>1. f[i] = F[<<f[i - 1], i>>]
    BY <1>1 DEF Solves
  <2>. QED BY <2>1
<1>. QED BY <1>1, <1>2, <1>3, KeptIn

-----------------------------------------------------------------------------
Arguments == [op : {"all", "add", "remove"}, app : Errors]

\* An argument makes a list of a list.
LEMMA ArgumentTyped ==
  ASSUME NEW list \in [Names -> Nat], NEW arg \in Arguments
  PROVE  AddArgument(list, arg) \in [Names -> Nat]
<1>1. CASE arg.op = "all"
  <2>1. AddArgument(list, arg) = [n \in Names |-> list[n] + IF n \in AppRegistry \ OnRequestOnly THEN 1 ELSE 0]
    BY <1>1 DEF AddArgument
  <2>. QED BY <2>1
<1>2. CASE arg.op = "remove"
  BY <1>2 DEF AddArgument
<1>3. CASE arg.op = "add"
  <2>1. AddArgument(list, arg) = [list EXCEPT ![arg.app] = list[arg.app] + 1]
    BY <1>3 DEF AddArgument
  <2>2. CASE arg.app \in Names
    <3>1. list[arg.app] + 1 \in Nat
      BY <2>2
    <3>. QED BY <2>1, <3>1
  <2>3. CASE arg.app \notin Names
    <3>1. [list EXCEPT ![arg.app] = list[arg.app] + 1] = list
      BY <2>3
    <3>. QED BY <2>1, <3>1
  <2>. QED BY <2>2, <2>3
<1>. QED BY <1>1, <1>2, <1>3 DEF Arguments

LEMMA CopiesTyped ==
  ASSUME NEW S, NEW name \in S, NEW times \in Nat PROVE Copies(name, times) \in Seq(S)
<1>1. [k \in 1..times |-> name] \in [1..times -> S]
  OBVIOUS
<1>. QED BY <1>1 DEF Copies

\* The names that a line means are names, however its arguments add and remove them.
LEMMA SortedTyped ==
  ASSUME NEW list \in [Names -> Nat] PROVE Sorted(list) \in Seq(Names)
<1> DEFINE n == Len(Alphabet)
           S == Seq(Names)
           more(i) == Copies(Alphabet[i], list[Alphabet[i]])
           step(s, i) == s \o more(i)
           F == [p \in S \X (1..n) |-> step(p[1], p[2])]
           Is(f) == f = [i \in 0..n |-> IF i = 0 THEN <<>> ELSE step(f[i - 1], i)]
           upTo == CHOOSE f : Is(f)
<1>0. n \in Nat /\ <<>> \in S
  BY LauncherAssumption
<1>1. ASSUME NEW s \in S, NEW i \in 1..n PROVE step(s, i) \in S
  <2>1. Alphabet[i] \in Names
    BY LauncherAssumption
  <2>2. more(i) \in S
    BY <2>1, CopiesTyped
  <2>. HIDE DEF more
  <2>. QED BY <2>2
<1>2. \E f : Is(f)
  <2>. HIDE DEF n, S, step
  <2>1. \A x \in S, i \in 1..n : F[<<x, i>>] = step(x, i)
    OBVIOUS
  <2>2. \A x \in S, i \in 1..n : F[<<x, i>>] \in S
    BY <1>1, <2>1
  <2>. HIDE DEF F
  <2>3. PICK f : Solves(f, n, <<>>, F) /\ \A i \in 0..n : f[i] \in S
    BY <1>0, <2>2, RecursionIn
  <2>4. \A i \in 1..n : F[<<f[i - 1], i>>] = step(f[i - 1], i)
    <3>1. \A i \in 1..n : i - 1 \in 0..n
      BY <1>0
    <3>. QED BY <2>1, <2>3, <3>1
  <2>5. Is(f)
    BY <1>0, <2>3, <2>4 DEF Solves
  <2>. QED BY <2>5
<1>3. Is(upTo)
  <2>. HIDE DEF Is
  <2>. QED BY <1>2
<1>4. upTo[n] \in S
  <2>. HIDE DEF upTo, n, S, step
  <2>1. upTo[0] \in S
    BY <1>0, <1>3
  <2>2. \A i \in 1..n : upTo[i - 1] \in S => upTo[i] \in S
    BY <1>0, <1>1, <1>3
  <2>3. \A i \in 0..n : upTo[i] \in S
    BY <1>0, <2>1, <2>2, KeptIn
  <2>. QED BY <1>0, <2>3
<1>. QED BY <1>4 DEF Sorted

LEMMA NamesTyped ==
  ASSUME NEW args \in Seq(Arguments) PROVE ParseAppsFromArgs(args) \in Seq(Names)
<1> DEFINE given == IF args = <<>> THEN <<[op |-> "all", app |-> NoApp]>> ELSE args
           n == Len(given)
           S == [Names -> Nat]
           none == [m \in Names |-> 0]
           F == [p \in S \X (1..n) |-> AddArgument(p[1], given[p[2]])]
           Is(f) == f = [i \in 0..n |-> IF i = 0 THEN none ELSE AddArgument(f[i - 1], given[i])]
           list == CHOOSE f : Is(f)
<1>0. n \in Nat /\ none \in S /\ \A i \in 1..n : given[i] \in Arguments
  <2>1. [op |-> "all", app |-> NoApp] \in Arguments
    BY DEF Arguments, Errors
  <2>2. given \in Seq(Arguments)
    BY <2>1
  <2>. HIDE DEF given
  <2>. QED BY <2>2
<1>1. ASSUME NEW s \in S, NEW i \in 1..n PROVE AddArgument(s, given[i]) \in S
  BY <1>0, ArgumentTyped
<1>2. \E f : Is(f)
  <2>. HIDE DEF n, S, given, none
  <2>1. \A x \in S, i \in 1..n : F[<<x, i>>] = AddArgument(x, given[i])
    OBVIOUS
  <2>2. \A x \in S, i \in 1..n : F[<<x, i>>] \in S
    BY <1>1, <2>1
  <2>. HIDE DEF F
  <2>3. PICK f : Solves(f, n, none, F) /\ \A i \in 0..n : f[i] \in S
    BY <1>0, <2>2, RecursionIn
  <2>4. \A i \in 1..n : F[<<f[i - 1], i>>] = AddArgument(f[i - 1], given[i])
    <3>1. \A i \in 1..n : i - 1 \in 0..n
      BY <1>0
    <3>. QED BY <2>1, <2>3, <3>1
  <2>5. Is(f)
    BY <1>0, <2>3, <2>4 DEF Solves
  <2>. QED BY <2>5
<1>3. Is(list)
  <2>. HIDE DEF Is
  <2>. QED BY <1>2
<1>4. list[n] \in S
  <2>. HIDE DEF list, n, S, given, none
  <2>1. list[0] \in S
    BY <1>0, <1>3
  <2>2. \A i \in 1..n : list[i - 1] \in S => list[i] \in S
    BY <1>0, <1>1, <1>3
  <2>3. \A i \in 0..n : list[i] \in S
    BY <1>0, <2>1, <2>2, KeptIn
  <2>. QED BY <1>0, <2>3
<1>5. ParseAppsFromArgs(args) = Sorted(list[n])
  BY DEF ParseAppsFromArgs
<1>. QED BY <1>4, <1>5, SortedTyped

-----------------------------------------------------------------------------
(* The types of the variables, from both invariants.                       *)

LauncherTypes ==
  /\ names \in Seq(Names) /\ Len(names) <= MaxSlots
  /\ pc \in {"check", "create", "run", "watch", "select", "wait", "returned"}
  /\ todo \subseteq Slots /\ hooked \subseteq Slots /\ asked \subseteq hooked
  /\ apps \in [Names -> Slots \cup {0}]
  /\ status \in [Names -> {"NotFound", "Created", "Stopped"}]
  /\ appTerm \in [Slots -> {"no", "terminating", "terminated"}]
  /\ appErr \in [Slots -> Errors]
  /\ run \in [Slots -> {"none", "started", "running", "returned"}]
  /\ watch \in [Slots -> {"none", "waiting", "done"}]
  /\ call \in [Callers -> {"none", "once", "stop", "done"}]
  /\ firstApp \in Errors /\ launchErr \in Errors
  /\ launchTerm \in BOOLEAN /\ signalled \in BOOLEAN /\ closing \in BOOLEAN
  /\ report \in [how : {"none", "refused", "signal", "app"}, app : Errors, err : Errors]
  /\ faults \subseteq Names \X Errors

InfoTypes ==
  /\ infoLock \in Slots \cup {0}
  /\ closed \in 0..1
  /\ initDone \in BOOLEAN /\ initError \in BOOLEAN
  /\ initResult \in [Slots -> {"none", "called", "ok", "failed"}]
  /\ fetch \in [Sources -> {"none", "looking", "found", "gone"}]

OwnTypes ==
  /\ hub \in [Slots -> {"none", "up", "down"}]
  /\ inner \in [Slots -> {"none", "built", "serving", "down"}]
  /\ stage \in [Slots -> {"none", "resolve", "wait", "info", "refused", "up", "gone"}]
  /\ tied \in [Slots -> BOOLEAN] /\ isReady \in [Slots -> BOOLEAN]
  /\ budget \in Nat

LEMMA TypesAre == TypeOK <=> LauncherTypes /\ InfoTypes /\ OwnTypes
BY DEF TypeOK, LauncherTypes, InfoTypes, OwnTypes

\* `ready` is open until the only call that looks has ended, or its goroutine has.
FilledOnce ==
  /\ initDone \/ (closed = 0 /\ filling = "none")
  /\ filling = "waiting" => closed = 0

\* An error begins as the name of an application.
LEMMA NamesAreErrors == /\ NoApp \in Errors /\ Names \subseteq Errors /\ AppRegistry \subseteq Errors
                        /\ AppRegistry \subseteq Names
BY LauncherAssumption DEF Errors

\* The slots that the command line names
LEMMA SlotsNamed ==
  ASSUME names \in Seq(Names), Len(names) <= MaxSlots
  PROVE  DOMAIN names \subseteq Slots /\ \A o \in DOMAIN names : names[o] \in Names
BY LauncherAssumption DEF Slots

LEMMA TypesStart == Init => TypeOK /\ FilledOnce
<1> SUFFICES ASSUME Init PROVE TypeOK /\ FilledOnce
  OBVIOUS
<1>1. PICK line \in CommandLines : LauncherInit(line.args) /\ InfoInit(line.flags) /\ budget = line.failures
  BY DEF Init
<1>2. /\ names \in Seq(Names) /\ Len(names) <= MaxSlots /\ budget \in Nat
  <2>1. names = ParseAppsFromArgs(line.args)
    BY <1>1 DEF LauncherInit
  <2>2. line.args \in Seq(Arguments) /\ Len(ParseAppsFromArgs(line.args)) <= MaxSlots /\ line.failures \in Nat
    BY CommandLinesAssumption DEF Arguments
  <2>. QED BY <1>1, <2>1, <2>2, NamesTyped
<1>3. LauncherTypes
  BY <1>1, <1>2, NamesAreErrors DEF LauncherInit, LauncherTypes, NoReport
<1>4. InfoTypes /\ FilledOnce
  <2>1. /\ infoLock = 0 /\ initDone = FALSE /\ initError = FALSE /\ closed = 0 /\ filling = "none"
        /\ initResult = [o \in Slots |-> "none"] /\ fetch = [s \in Sources |-> "none"]
    BY <1>1, ClientsAssumption DEF InfoInit
  <2>2. initResult \in [Slots -> {"none", "called", "ok", "failed"}]
    BY <2>1
  <2>3. fetch \in [Sources -> {"none", "looking", "found", "gone"}]
    BY <2>1
  <2>4. closed \in 0..1 /\ infoLock \in Slots \cup {0}
    BY <2>1
  <2>5. InfoTypes
    BY <2>1, <2>2, <2>3, <2>4, Zenon DEF InfoTypes
  <2>6. FilledOnce
    BY <2>1 DEF FilledOnce
  <2>. QED BY <2>5, <2>6
<1>5. OwnTypes
  BY <1>2 DEF Init, OwnTypes
<1>. QED BY <1>3, <1>4, <1>5, TypesAre

\* The steps of the launcher.
LEMMA LauncherKeepsTypes ==
  ASSUME LauncherTypes, ExitInv, LauncherStep \/ Signal PROVE LauncherTypes'
<1>. USE NamesAreErrors, SlotsNamed
     DEF LauncherTypes, mainVars, shutterVars, appVars
<1>1. CASE CheckNames
  BY <1>1 DEF CheckNames, Refuse, NoReport
<1>2. CASE CreateApp
  BY <1>2 DEF CreateApp, Refuse, NoReport
<1>3. CASE NextLoop
  BY <1>3 DEF NextLoop, Launched
<1>4. ASSUME NEW o \in Slots, StartRunning(o) PROVE LauncherTypes'
  BY <1>4 DEF StartRunning
<1>5. ASSUME NEW o \in Slots, StartWatching(o) PROVE LauncherTypes'
  BY <1>5 DEF StartWatching
<1>6. ASSUME NEW o \in Slots, Watch(o) PROVE LauncherTypes'
  BY <1>6 DEF Watch, Callers
<1>7. ASSUME NEW o \in Slots, AskedToStop(o) PROVE LauncherTypes'
  BY <1>7 DEF AskedToStop, BeginShutdown
<1>8. ASSUME NEW c \in Callers, RecordFirst(c) PROVE LauncherTypes'
  <2>1. NameOf(c[2]) \in Errors
    BY <1>8 DEF RecordFirst, Callers, ExitInv, Registered
  <2>. QED BY <1>8, <2>1 DEF RecordFirst
<1>9. ASSUME NEW c \in Callers, StopLauncher(c) PROVE LauncherTypes'
  <2>1. c[2] \in Slots /\ ErrorOf(c) \in Errors
    BY <1>9 DEF StopLauncher, ErrorOf, Callers, ExitInv, Registered
  <2>. QED BY <1>9, <2>1 DEF StopLauncher, ShutdownLauncher
<1>10. CASE SeeSignal
  BY <1>10 DEF SeeSignal, NoReport
<1>11. CASE Close
  BY <1>11 DEF Close, ShutdownLauncher
<1>12. CASE SeeTermination
  BY <1>12 DEF SeeTermination
<1>13. CASE WaitForTermination \/ Signal
  BY <1>13 DEF WaitForTermination, Signal
<1>. QED BY <1>1, <1>2, <1>3, <1>4, <1>5, <1>6, <1>7, <1>8, <1>9, <1>10, <1>11, <1>12, <1>13 DEF LauncherStep

\* The steps of the info server: the channel is closed by the one call that looked, or by the
\* one goroutine that it started.
LEMMA InfoKeepsTypes ==
  ASSUME InfoTypes, FilledOnce, AnswerInv, InfoStep \/ \E s \in Sources : GetBlock(s)
  PROVE  InfoTypes' /\ FilledOnce'
<1>. USE ClientsAssumption DEF InfoTypes, FilledOnce
<1>1. ASSUME NEW o \in Clients, LaterInit(o) PROVE InfoTypes' /\ FilledOnce'
  BY <1>1 DEF LaterInit
<1>2. ASSUME NEW o \in Clients, FirstInit(o) PROVE InfoTypes' /\ FilledOnce'
  BY <1>2 DEF FirstInit
<1>3. ASSUME NEW ok \in BOOLEAN, EndInit(ok), infoLock # 0, UNCHANGED filling PROVE InfoTypes' /\ FilledOnce'
  <2>1. infoLock \in Slots /\ closed = 0 /\ filling = "none"
    BY <1>3 DEF AnswerInv, AnsweredOnce
  <2>. QED BY <1>3, <2>1 DEF EndInit, ContextDone
<1>4. ASSUME NEW s \in Sources, ReceiveBlock(s) PROVE InfoTypes' /\ FilledOnce'
  <2>1. (Consistent(response, config.block) /\ Complete(response')) \in BOOLEAN
    BY DEF Consistent, Complete
  <2>. QED BY <1>3, <1>4, <2>1 DEF ReceiveBlock
<1>5. CASE InitTimesOut
  BY <1>3, <1>5 DEF InitTimesOut
<1>6. CASE FillBlock
  BY <1>6 DEF FillBlock, ContextDone
<1>7. ASSUME NEW s \in Sources, GetBlock(s) PROVE InfoTypes' /\ FilledOnce'
  BY <1>7 DEF GetBlock
<1>. QED BY <1>1, <1>2, <1>4, <1>5, <1>6, <1>7 DEF InfoStep

\* The steps of the applications.
LEMMA ApplicationKeepsTypes ==
  ASSUME TypeOK, FilledOnce, ExitInv, NEW o \in Slots,
         \/ FirehoseRun(o) \/ RelayerRun(o) \/ MergerRun(o) \/ ResolveStartBlock(o)
         \/ IndexerRun(o) \/ FirehoseLeaves(o) \/ InfoRefused(o) \/ FirehoseServe(o)
         \/ RelayerSeesHub(o) \/ FinishShutdown(o) \/ FirehoseHubReady(o)
         \/ RelayerHubReady(o) \/ HubFails(o) \/ InnerEnds(o) \/ RunEndsInError(o)
  PROVE  TypeOK' /\ FilledOnce'
<1>0. \/ run[o] = "none" /\ stage[o] = "none" /\ hub[o] = "none" /\ inner[o] # "serving"
      \/ NameOf(o) \in Names
  BY NamesAreErrors DEF ExitInv, Registered, Idle
<1>t. LauncherTypes /\ InfoTypes /\ OwnTypes
  BY TypesAre
<1>n. NameOf(o) \in Names => NameOf(o) \in Errors
  BY NamesAreErrors
<1>e. NoApp \in Errors
  BY NamesAreErrors
<1>p. (LauncherTypes' /\ InfoTypes' /\ OwnTypes') => TypeOK'
  BY DEF TypeOK, LauncherTypes, InfoTypes, OwnTypes
<1>i. ASSUME UNCHANGED infoVars PROVE InfoTypes' /\ FilledOnce'
  BY <1>i, <1>t DEF infoVars, InfoTypes, FilledOnce
<1>b. ASSUME MayFail PROVE budget' \in Nat
  BY <1>b, <1>t DEF MayFail, OwnTypes
<1>s. ASSUME NameOf(o) \in Names, NEW err \in Errors, ShutdownItself(o, err)
      PROVE  /\ appTerm' \in [Slots -> {"no", "terminating", "terminated"}]
             /\ appErr' \in [Slots -> Errors] /\ faults' \subseteq Names \X Errors
  <2>1. /\ appTerm' \in [Slots -> {"no", "terminating", "terminated"}]
        /\ appErr' \in [Slots -> Errors]
    BY <1>s, <1>t DEF ShutdownItself, BeginShutdown, LauncherTypes
  <2>2. faults' \in {faults, faults \cup {<<NameOf(o), err>>}}
    BY <1>s DEF ShutdownItself
  <2>3. <<NameOf(o), err>> \in Names \X Errors /\ faults \subseteq Names \X Errors
    BY <1>s, <1>t DEF LauncherTypes
  <2>. QED BY <2>1, <2>2, <2>3, Zenon
<1>c. tied' \in [Slots -> BOOLEAN] \/ ~Tie(o)
  BY <1>t DEF Tie, OwnTypes
<1>1. CASE FirehoseRun(o)
  BY <1>1, <1>t, <1>p, <1>i, <1>c DEF FirehoseRun, LauncherTypes, OwnTypes, mainVars, shutterVars, appVars
<1>2. CASE RelayerRun(o)
  BY <1>2, <1>t, <1>p, <1>i, <1>c DEF RelayerRun, LauncherTypes, OwnTypes, mainVars, shutterVars, appVars
<1>3. CASE MergerRun(o)
  BY <1>3, <1>t, <1>p, <1>i, <1>c DEF MergerRun, LauncherTypes, OwnTypes, mainVars, shutterVars, appVars
<1>4. CASE ResolveStartBlock(o)
  BY <1>4, <1>t, <1>p, <1>i, <1>c DEF ResolveStartBlock, LauncherTypes, OwnTypes, launcherVars, mainVars, shutterVars, appVars
<1>5. CASE IndexerRun(o)
  BY <1>5, <1>t, <1>p, <1>i, <1>c DEF IndexerRun, LauncherTypes, OwnTypes, mainVars, shutterVars, appVars, Callers
<1>6. CASE FirehoseLeaves(o)
  BY <1>6, <1>t, <1>p, <1>i DEF FirehoseLeaves, LauncherTypes, OwnTypes, launcherVars, mainVars, shutterVars, appVars
<1>7. CASE InfoRefused(o)
  BY <1>7, <1>0, <1>n, <1>s, <1>t, <1>p, <1>i DEF InfoRefused, LauncherKeeps, LauncherTypes, OwnTypes, mainVars, shutterVars
<1>8. CASE FirehoseServe(o)
  BY <1>8, <1>t, <1>p, <1>i DEF FirehoseServe, LauncherTypes, OwnTypes, launcherVars, mainVars, shutterVars, appVars
<1>9. CASE RelayerSeesHub(o)
  BY <1>9, <1>0, <1>n, <1>s, <1>t, <1>p, <1>i DEF RelayerSeesHub, LauncherTypes, OwnTypes, mainVars, shutterVars
<1>10. CASE FinishShutdown(o)
  BY <1>10, <1>t, <1>p, <1>i DEF FinishShutdown, LauncherTypes, OwnTypes, mainVars, shutterVars
<1>11. CASE FirehoseHubReady(o)
  <2>1. InfoTypes' /\ FilledOnce'
    BY <1>11, <1>t DEF FirehoseHubReady, InitCalled, InfoTypes, FilledOnce
  <2>. QED BY <1>11, <2>1, <1>t, <1>p DEF FirehoseHubReady, LauncherTypes, OwnTypes, launcherVars, mainVars, shutterVars, appVars
<1>12. CASE RelayerHubReady(o)
  BY <1>12, <1>t, <1>p, <1>i DEF RelayerHubReady, LauncherTypes, OwnTypes, launcherVars, mainVars, shutterVars, appVars
<1>13. CASE HubFails(o)
  BY <1>13, <1>0, <1>n, <1>s, <1>b, <1>t, <1>p, <1>i DEF HubFails, LauncherKeeps, LauncherTypes, OwnTypes, mainVars, shutterVars, appVars
<1>14. CASE InnerEnds(o)
  BY <1>14, <1>0, <1>n, <1>e, <1>s, <1>b, <1>t, <1>p, <1>i DEF InnerEnds, LauncherKeeps, LauncherTypes, OwnTypes, mainVars, shutterVars
<1>15. CASE RunEndsInError(o)
  BY <1>15, <1>0, <1>n, <1>b, <1>t, <1>p, <1>i DEF RunEndsInError, RunFails, LauncherTypes, OwnTypes, mainVars, shutterVars, Callers
<1>. QED
  BY <1>1, <1>2, <1>3, <1>4, <1>5, <1>6, <1>7, <1>8, <1>9, <1>10, <1>11, <1>12, <1>13, <1>14, <1>15

TypeInv == TypeOK /\ FilledOnce /\ ExitInv /\ AnswerInv

LEMMA TypeInvKept == TypeInv /\ [Next]_vars => TypeInv'
<1> SUFFICES ASSUME TypeInv, [Next]_vars PROVE TypeOK' /\ FilledOnce'
  BY ExitInvKept, AnswerInvKept DEF TypeInv
<1>t. TypeOK /\ FilledOnce /\ ExitInv /\ AnswerInv
  BY DEF TypeInv
<1>l. ASSUME UNCHANGED launcherVars PROVE LauncherTypes'
  BY <1>l, <1>t, TypesAre DEF launcherVars, mainVars, shutterVars, appVars, LauncherTypes
<1>i. ASSUME UNCHANGED infoVars PROVE InfoTypes' /\ FilledOnce'
  BY <1>i, <1>t, TypesAre DEF infoVars, InfoTypes, FilledOnce
<1>o. ASSUME UNCHANGED ownVars PROVE OwnTypes'
  BY <1>o, <1>t, TypesAre DEF ownVars, OwnTypes
<1>p. LauncherTypes' /\ InfoTypes' /\ OwnTypes' => TypeOK'
  BY DEF TypeOK, LauncherTypes, InfoTypes, OwnTypes
<1>1. CASE LaunchStep
  BY <1>1, <1>t, <1>i, <1>o, <1>p, LauncherKeepsTypes, TypesAre DEF LaunchStep
<1>2. CASE AnswerStep
  BY <1>2, <1>t, <1>l, <1>o, <1>p, InfoKeepsTypes, TypesAre DEF AnswerStep
<1>3. CASE AppStep
  BY <1>3, <1>t, ApplicationKeepsTypes DEF AppStep
<1>4. CASE Event
  <2>1. CASE Signal /\ UNCHANGED <<infoVars, ownVars>>
    BY <2>1, <1>t, <1>i, <1>o, <1>p, LauncherKeepsTypes, TypesAre
  <2>2. CASE \E s \in Sources : Alive /\ GetBlock(s) /\ UNCHANGED <<launcherVars, ownVars>>
    BY <2>2, <1>t, <1>l, <1>o, <1>p, InfoKeepsTypes, TypesAre
  <2>. QED BY <1>4, <1>t, <2>1, <2>2, ApplicationKeepsTypes DEF Event
<1>5. CASE UNCHANGED vars
  BY <1>5, <1>l, <1>i, <1>o, <1>p DEF vars
<1>. QED BY <1>1, <1>2, <1>3, <1>4, <1>5 DEF Next

\* For every command line within the bound on its names: the variables keep their types; what
\* ends, is reported or is blamed is always a named application; and `ready` is closed once at
\* most, by the one Init that looked or by the goroutine it left behind (endpoint_info.go:81).
THEOREM ApplicationTypes == Spec => []TypeOK
<1>1. Init => TypeInv
  BY TypesStart, ExitInvStarts, AnswerInvStarts DEF TypeInv
<1>2. TypeInv => TypeOK
  BY DEF TypeInv
<1>. QED BY <1>1, <1>2, TypeInvKept, PTL DEF Spec

=============================================================================
