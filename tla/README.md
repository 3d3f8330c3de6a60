# A TLA+ verification of firehose-core

`firehose-core` is the chain-agnostic part of a Firehose stack: it supervises a blockchain node, turns what the node
prints (or what an RPC endpoint answers) into block files, merges these files in bundles, and serves streams of blocks
from them.  This directory holds TLA+ modules that model the parts of it whose correctness depends on interleavings,
failures and restarts, the configurations with which TLC checks them on small instances, and proofs, checked by TLAPS,
of what matters most about them: the merger and the archive it implements, the bundle reader, the block poller, the operator,
the reader of a node, the life of the applications in one process and the merged files that the tools write.

Contents: [The system](#the-system) ·
[Modules](#modules) ·
[Runs](#runs) ·
[Fairness](#fairness) ·
[Proofs](#proofs) ·
[Where code and documentation disagree](#where-code-and-documentation-disagree) ·
[What the runs do not cover](#what-the-runs-do-not-cover) ·
[What is not modelled](#what-is-not-modelled) ·
[Plan](#plan)

## The system

    node process --stdout--> superviser --LogLine--> mindreader plugin --one-block files--> local dir --uploader--> one-block store
         ^                       ^                        |                                                          |     |
         |                       | start / stop           +--block stream server--> relayer --> firehose             |     |
         +---------------- operator <--HTTP, schedules                                                               |     |
                                                                                                                     v     |
    RPC endpoint --> block poller --stdout (as a node process)                                              merger --+     |
                                                                                                              |            |
                                            merged store <--merge goroutine, bundle reader--------------------+            |
                                            forked store <--MoveForkedBlocks--+                                            |
                                            merged + one-block stores --> hub (relayer, firehose, index builder) <---------+

All the applications (`reader-node`, `merger`, `relayer`, `firehose`, ...) can run in one process under the launcher.
They talk to each other through the object stores and gRPC only; inside an application the components share memory.

External to the repository, and modelled here from how the code uses it: `bstream` (blocks, `forkdb`, `forkable`, hub),
`dstore` (object stores), `shutter` (one-shot shutdowns with hooks), `overseer` (a child process), `dhammer` (a bounded
pool that keeps order), `derr` (retries).

### Inventory

| Component (source) | State | Operations | Hard behaviour | What makes it correct |
|---|---|---|---|---|
| Merger (`merger/`) | stores of one-block, merged and forked files; `Bundler`: base, irreversible and seen blocks, boundary flag, `inProcess`, `bundleError`; the forkable; deleter queue | `run`, `ProcessBlock`, the goroutine that merges, `MoveForkedBlocks`, two pruners, the deleter's workers, `OnTerminating` | the base moves on before the merge is done; the pruners read it under another lock; merge errors arrive a bundle later; crash between write and move; empty ranges; files out of order; a second writer | every final block in exactly one merged file; nothing pruned or moved before it is merged; the archive has no hole; it catches up after a crash; the end at the stop block waits for the last merge |
| Bundle reader (`merger/bundlereader.go`, `merger_io.go` `MergeAndStore`) | per attempt: goroutine, data channel (1), error channel (1), reader's buffer; per file: memoised bytes | `NewBundleReader`, `downloadAll`, `Read`/`fillBuffer`, retries, pre-downloads | error and end of data race in a `select`; goroutines of failed attempts go on | what is stored is a beginning of the bundle in order; the call ends |
| Block poller (`blockpoller/`) | forkdb with fired flags, cursor state machine, map of polled blocks, `fetching`, state file | `Run`, `requestBlock`, `loadNextBlocks`, `fetchBlockWithHash`, `processBlock`, `fire`, `saveState`, `initState` | unlocked map and flag, several loaders, stale polled blocks after a reorg, panic below the LIB, torn state file, restarts | parents printed first; nothing printed twice by a process; follows the head |
| Operator (`node-manager/operator/`) | command queue, `lastStartCommand`, backup schedules, HTTP callers | `Launch`, `runCommand` for each command, `RunBackupSchedules`, HTTP handlers | the loop reads its own queue; full queue; commands dropped; shutdown in the middle of a command | one process; callers answered; offline backups without process; shutdown ends |
| Superviser (`node-manager/superviser/`) | current `overseer` command, its lock, log plugins | `Start`, `Stop`, `start`'s goroutine, `endLogPlugins` | `isRunning` is late; output drained by polling; plugin list lock held while a plugin blocks | exit noticed; no process lost; plugins end after the output |
| Mindreader (`node-manager/mindreader/`) | line channel, console reader and block channel per launch; stop block; local directory; uploader | `Launch`, `LogLine`, `readOneMessage`, `storeBlocksFlow`, archiver, uploader, `Stop` | three goroutines per launch and bounded channels; old loops survive a reload; send on a channel that is closed; shutdown reached from both sides; pipe between writer and store | stored blocks have no hole; nothing is sent on a closed channel; files end up in the store; shutdown ends |
| Console reader (`consolereader.go`) | line channel, protocol version, last block | `ReadBlock`, `readInit`, `readBlock` | a line that cannot be parsed ends the launch | in `Reader` |
| Standard input reader (`node-manager/app/node_reader_stdin`) | the same plugin without superviser | `Run` | `Shutdown`, not `Stop`, at the end of the input | in `Reader` |
| Log plugins (`node-manager/log_plugin`) | ring buffer of lines, keep-last-lines filter | `LogLine`, `LastLines` | wrap-around | the last N lines in order |
| Relayer (`relayer/`) | hub, sources, ready flag | `Run`, `StartRelayer`, gRPC server | waits for its hub without an eye on the shutdown; ends when the hub does | its process ends; readiness (in `Applications`) |
| Firehose server (`firehose/server`, `rate`, `app`) | per stream: request, place in the blocks; limiter's tokens; application: hub, `isReady` | `Blocks`, `stepToProto`, `Take`/`Return`/drip, `Run`, `IsReady` | a failed stream resumed without a cursor; a limiter that fills by itself; a goroutine that goes on after a failed `Init` | every stream that has an end comes to it; the bucket is never above its size |
| Firehose clients (`cmd/tools/firehose`) | download: writer, last height, retries; client: a queue of promises | the download's loop, receive loop, one goroutine per response, printer | goroutines finish in any order; the queue is full; a retry in the middle of a bundle | output in order; whole files; the command ends |
| Info server (`firehose/info`) | answer, lock, first result, ready channel | `Init`, `getBlockFrom...`, `Info`, the filler | several applications share one `Init`; three sources race; flags against the detected chain | no application ready on a wrong answer; every caller of `Init` is answered |
| Launcher (`launcher/`, `cmd/apps/start.go`) | apps, statuses, hooks, first application, error | the command line, `Launch`, watchers, `shutdownDueToApp`, signal, `WaitForTermination` | several applications fail at once; failures between the loops that run and that watch; a signal that races an end | what `start` reports did happen; the process ends |
| Index builder (`index-builder/`) | range, context | `Run`, `Launch` | shutdown while it looks for the start block | its process ends (in `Applications`) |
| Writer of merged files (`merged_blocks_writer.go`) | base, blocks of the bundle, files | `ProcessBlock`, `writeBundle` | zero means unset; a block far above the bundle; a stop inside a bundle | one file per bundle, which starts at its boundary |
| Block ranges (`types/`) | none: pure | parse, bounds, `Split`, `WalkBlockPrefix` | open ends, zero, inclusive against exclusive | what walks and checks with it is right |
| Tools (`cmd/tools/{check,mergeblock,fix,compare,print}`) | per walk: expected base, heights, links, bundle; the stores they leave | check, batch check, forks, merge, unmerge, fix, legacy, upgrade, compare, print | holes at the edges of bundles; a store that fails, a command killed and run again over what it left | written files are whole; what a check says is true; a command that ends without error has written all |
| Bootstrap, commands, flags, chain, JSON, protobuf registry, metering, RPC clients | configuration | - | rotation of RPC clients | - |

`PROJECT.json` lists the same parts with what is modelled of each, and 40 places (`hazards`) where this code can go
wrong in a way that a unit test would hardly reach, with the properties that would catch it.

## Modules

Every definition that stands for code is listed with its lines in `PROJECT.json` (`map`).  Names of the source are kept
where TLA+ allows it.

### Merger

* `Merger.tla`: the merger.  The final chain is a set of heights (`chain`), a fork is a second one-block file of a height
  (`forks`); the readers upload the files one by one, at most `Reorder` places out of order.  `phase` is the place of the run loop:
  `poll` (top of the loop, `NextBundle`), `walk` (`WalkOneBlockFiles`), `emit` (the forkable calls `ProcessBlock`
  with the next final block), `lock` (waiting for `inProcess`), `skip` (the loop over empty ranges), `returned`,
  `down`.  `job` is the goroutine that merges: `write`, `move`, `report`.  A shutdown is two actions: the hook of merger.go:67, which
  takes `inProcess` and lets it go (`OnTerminating`, `hooked`), and the end of the process (`Exit`) at any time after it, wherever the run loop is and
  whether or not it has begun another merge.  A merge writes the whole bundle, fails, or, after a lost download, stores a beginning of it
  as if it were all (`MergeCutShort`; `shortened` remembers the bases).  The two pruners are one action each and
  read the base under `inProcess`, as `BaseBlockNum` does; the deleter's workers are `DeleteFile`.  `Crash` may come
  between any two steps; `Restart` starts again from the stores.
* `MergedArchive.tla`: what the merger promises to the readers of the stores, without threads, forkable or restarts: the
  archive grows one file at a time without a hole, a file holds exactly the final blocks of its range and is never
  rewritten, and a one-block file is reclaimed only when its block is in the archive.  `Merger!Archive` is the refinement
  mapping and `ArchiveSpec` the property.
* `BundleReader.tla`: inside one `MergeAndStore`.  `Merger` writes a merged file, whole or cut short, in one step; this module has the goroutine
  of each attempt, its channels and the reader that the store pulls from.
* `MergerProofs.tla`, `MergedArchiveProofs.tla`, `BundleReaderProofs.tla`: theorems, see [Proofs](#proofs).
* `MCMerger.tla`, `MCBundleReader.tla`: the small chains and bundles.

### Block poller

* `BlockPoller.tla`: the node is a tree of blocks with a head that may move to another branch above what is `settled`;
  `polled`, `fetching` and `loaders` are the unlocked map, flag and goroutines of `loadNextBlocks`; `links`, `lib`,
  `fired` are the forkdb; `segState`, `incomplete` the cursor; `segment` the blocks being fired.  `phase` is the place of
  `run`.  The state file is `none`, `bad` (a crash while it is written) or `good`.
* `MCBlockPoller.tla`: two branches over height 1, `1a-2a-4a` (which skips height 3) and `1a-2b-3b-5b` (which skips height 4), and a
  tree with a wide gap, `1-5a` against `1-2b-3b-4b`.
* `BlockPollerProofs.tla`: theorems.

### Node manager and reader

* `NodeOperator.tla`: the command queue and its loop, synchronous callers (HTTP), backup schedules, the superviser's
  lock, the processes it creates, and the two shutdowns (`oTerm`, `sTerm`) which call each other.  A process is `created` until the goroutine
  of superviser.go:210 runs, and the operator takes commands meanwhile; `unseen` remembers the processes that a start or a stop took for
  none at such a moment.
* `Reader.tla`: from the output of the process to the store.  Each launch of the plugin has its record: channel of lines,
  the superviser's goroutine (`pump`) that hands lines to `LogLine`, the reading loop, the channel of blocks, the
  consumer.  `gen` is the last launch, whose channels the plugin's fields point to.  `op`, `sup`, `plugin` are the
  places of the command, the superviser's shutdown and the plugin's; `lock` is the superviser's lock.  A launch is three steps with anything in
  between (`Launch`, `LaunchLines`, `LaunchReader`: mindreader.go sets `consumeReadFlowDone`, the channel of lines and the console reader one after
  another, without a lock); `LinesOf` and `ReaderOf` are the launches that these fields come from, and `crossed` remembers that a launch found the
  one before with a line or a block on its way.  `source`
  tells a supervised process from standard input.
* The two overlap on purpose: `NodeOperator` has all commands and no lines, `Reader` all the lines and one command
  (reload), so that each stays checkable.
* `NodeOperatorProofs.tla`, `ReaderProofs.tla`: theorems.

### Applications of one process

* `Launcher.tla`: `start` and the launcher.  The command line is parsed (`ParseAppsFromArgs`); `pc` is the place of the main
  goroutine: `check`, the loops `create`, `run` and `watch`, `select`, `wait`, `returned`.  Every place in the list of names is an
  object (`Slots`), so a name given twice is created twice and the map of applications keeps the last.  `run`, `watch` and
  `call` are the goroutines of an object and their place in `shutdownDueToApp`; `asked` are the goroutines of the hooks.
* `InfoServer.tla`: `Init` and its lock, one goroutine per source of the first streamable block, the filler with its checks against
  the known chains (`Filled`, `Consistent`), with and without validation.
* `Applications.tla`: both composed.  It adds what runs inside an application (the firehose's hub and server, the relayer, the
  merger, the index builder) as far as it touches the launcher, the info server and readiness: `stage` is the
  goroutine that brings it up, `inner` its component, `tied` says that the component's hook was registered before the
  shutdown.
* `ApplicationsProofs.tla`: theorems.  `MCApplications.tla`: eight command lines.

### Stores, endpoint and tools

* `BlockRanges.tla`: the ranges of `types/` as operators: parsing in each form, bounds, splits, the bundle of a height, the
  common prefix that narrows a walk.  Heights are small numbers with digits in base `Radix`.
* `MergedBlocksWriter.tla`: `ProcessBlock` and `WriteBundle` of the writer that the tools share, as operators from a writer to the set of
  writers it may become (a store may fail).
* `StoreTools.tla`: each command of `cmd/tools` that walks a store, as the function it calls on each file.  What the call may
  change is a record (`Frame`), and the functions yield the set of frames that may come out, with `end` the reason why a walk stops.
* `Endpoint.tla`: one stream of the Firehose server to the client, from the limiter to its status, and the limiter with its
  drip; other clients take tokens too.  `Feed` is what the stream of `bstream` hands over.
* `FirehoseClient.tla`: `firehose-client` with its queue of promises and one goroutine for each response.
* `Tools.tla`: an operator's series of commands, of the modules above and the download with its retries and its
  sequence check, each run to its end or killed, over what the ones before it left, with stores and streams that fail.
  `MCTools.tla`: the chain, the stores and the plans.
* `ToolsProofs.tla`: theorems.

## Runs

Thirty-nine properties are checked by ten passing runs; each is also shown, in `PROJECT.json` (`mutants`), to be violated when one
definition is changed the way a plausible bug would.  Deadlock checking is off everywhere: the chain, the tree and
the output are finite and the processes may stop.

| Run | What it asks | Bounds |
|---|---|---|
| `merger_safe` | with stores that answer and one writer: no block lost by the mover, the base moves only over what is merged, stop block, refinement of `MergedArchive`, shutdown ends | `BundleSize` 2, finality 1, chains 0..5 and {0,1,5,6,7} (an empty range inside), forks none or {1}, one file out of order, stop block 4, shutdown, 1 restart; 50,480 states |
| `merger_hostile` | what still holds when writes and downloads fail, the process crashes or exits in a merge and another merger writes: a merged file misses blocks only at its end, and only where a download was lost; the base never passes the LIB | the same and the chain {0,1,4..7} with a block on the boundary after an empty range; 2 failures, 1 restart, 1 foreign file; 1,821,613 states |
| `merger_live` | no panic, and every settled block gets merged | chains that start late or have single holes, 2 restarts; 3,112 states |
| `merger_prunes` | the finding of the merger | one chain, 1 failure |
| `bundle_reader` | prefix in order, short only after a failed download, the call ends | 3 files, 3 attempts, 3 failures, any corrupt set; 75,047 states |
| `poller` | parents first, once, the head gets printed, a shutdown ends | the tree above, start block 0 (below the first block), batches of 2, finality 3, 1 loader, 1 move of the head, 1 failure, 1 restart, shutdown; 165,729 states |
| `poller_panics` | the finding of the poller | the tree with the wide gap, one batch of 5, finality 2, 1 move of the head, no failure, no restart |
| `node_operator` | one process and offline backups, but for a process that was missed before its goroutine ran; callers answered, exits noticed, shutdowns end | 2 callers, queue of 3, 1 tick of the schedule, 2 processes, 1 failure; 505,828 states |
| `reader_safe` | no send on a closed channel; no hole, and a clean stop loses one line at most, until a launch finds the last one at work | 3 blocks, start block 2, stop block none or 2, both sources, channels of capacity 1, 2 launches, 1 failure, no restart; 1,988,784 states |
| `reader_live` | a shutdown ends unless it falls into a launch, a local file is uploaded | 1 block, a process, no stop block, 1 restart, else the same; 247,121 states |
| `applications` | what is reported happened, readiness is right, the process ends, callers of `Init` are answered | 8 command lines of at most two applications: two servers on one info server (right and wrong chain), a server alone (no chain given), server and merger (no validation), relayer and index builder, a name twice, an unknown name, nothing left; 0 or 1 failure; 314,496 states |
| `tools` | files, checks, writes and output of the tools are right, commands end | a chain 0..7 without block 3, bundles of 2, five scenarios of two or three commands over whole, bloated, damaged and disordered stores and an endpoint; 2 troubles (store, stream, kill, other client); 68,446 states |

Why these bounds are enough for what can go wrong here.  *Merger*: everything `ProcessBlock` decides, it decides on one block
against the base, the base plus one bundle and the last block flowed, so a bundle size of 2 (first and last height of a
range differ) and three or four bundles show a base that moves while the previous merge runs and the one after it waits;
empty ranges in the middle, at the beginning and before a boundary are in the chains.  Two failures are the fewest
for a second failed merge to find `bundleError` full.  *Poller*: the hazards are about two heights polled from
different branches; a reorg deep enough to replace a polled batch, a skipped height on each branch, and a finality that
makes the LIB move within the tree.  One loader is enough for stale blocks: it goes on while `run` fetches by
hash and replaces the map.  Several at once are left to the two theorems, which hold for any number (`FollowsHead` fails with two, see below).  *Bundle reader*: three files over channels of one
make the goroutine wait with one file sent and one in hand; the third attempt meets two leaked goroutines.  *Node operator*: two
callers and one tick of a schedule, so that a command waits behind another that drops it (safely-reload) or stops the process; two processes, so that a
second start meets a first whose goroutine has not run.
*Applications*: the launcher treats its applications alike, so what can happen
between them happens between two (one that ends and one that is asked to stop, two that end at once, two on one info server).  One
failure is enough for two ends at once: the merger and the index builder may end cleanly beside it, and one `Init` refuses both servers.  *Tools*: bundles of two have a first and a last
height; four of them leave room for a missing file in the middle, ranges that begin and end inside a bundle and segments of two bundles; two
troubles make a retry that fails again, or a failed command whose repetition is killed.  *Reader*: a channel of capacity one fills up as soon as one goroutine is late, as one of 10,000 does after a
long delay; two launches are enough because a launch only ever meets the fields of the last one.  A restart begins a process with
nothing but the local directory and the stores, which is what `reader_live` has it for; the theorems about the stored blocks hold for any number.

### What each property says

Merger.

* `BundleComplete`: in hostile conditions too, a merged file holds a beginning of its range in a row, and all of it unless a download was lost while the
  file was written, which the code stores as a success (bundlereader.go:104).  Where `ArchiveSpec` is checked, a file is its range.  `NothingBelowBase`: `ProcessBlock` is never given a block of a bundle already left, over resets, retries
  and restarts.
* `BaseIsMerged`: the comment on `BaseBlockNum` (bundler.go:79).  `PrunedIsMerged`: a one-block file leaves the store
  only when its block is merged (or was cut from a file that a lost download shortened).  `ForkedStoreOnlyForks`: what is moved as a fork is one.
* `StopMeansMerged`: a process that its stop block ended has merged everything below it, although the hook only passes through `inProcess` and the
  process may die at any moment after.  One that was asked to shut down before it came to the stop block promises nothing: its last merge may be cut.
* `NoPanic`, `ChainGetsMerged`, `ShutdownCompletes`: no nil block or empty list is dereferenced, but for a file from which a lost download has cut
  every block; settled blocks get merged through crashes; a shutdown ends.
* `ArchiveSpec`: every step is a step of `MergedArchive` or leaves it unchanged.

Bundle reader: `StoredPrefix`, `ShortOnlyAfterError`, `CallEnds`.

Block poller: `ParentFirst` and `PrintedOnce` say that the printed stream is a sequence of branches without holes or
repetitions, whatever branch the node was on at each fetch (only where a stream starts may a block come without its parent: at the
LIB, or above a LIB that was reorged away before it was printed); `FollowsHead` that stale polled blocks do not keep the
poller from the head; `ShutdownCompletes` that a shutdown ends it.  `NeverBelowLib`, that the panic of poller.go:147 is not reached, is what the message there
claims of a node that honours its finality; `poller_panics` refutes it.

Node operator.

* `OneProcess`: a process that is alive is the superviser's current one, and `BackupOffline`: none is alive during an offline backup or restore.  Both
  but for `unseen`: a start or a stop that comes before the goroutine of superviser.go:210 has run takes the process for none, and
  leaves it running.  That this is the only way is the claim.
* `Answered`, `ExitNoticed`, `ShutdownCompletes`: a caller is answered, an exit noticed, and a shutdown ends.

Reader.

* `NoSendOnClosed`: no line is sent on a channel that `Stop` has closed.
* `NoHole`: what is stored follows one another without a hole, and `CleanStopLosesOneLine`: a stop without failure stores all but the line in a hand.  Both
  until a launch finds the one before with lines or blocks on their way (`crossed`): a reading loop that is still at work then goes on with the new console
  reader (mindreader.go:308), and the lines in its own channel are lost.
* `FileIsUploaded`, `ShutdownCompletes`: a file of the local directory reaches the store after a restart, and a shutdown ends, unless a store hangs
  (`Hung`) or `Stop` waits for a loop whose lines nobody closes (`Torn`, [below](#what-the-runs-do-not-cover)).

Applications.

* `ExitIsFounded`: when `start` says that an application brought the process down, that application ended by itself, and the error it
  returns is one that an application ended with; an application that was merely asked to stop is never blamed.
* `ReadyIsValid`: with validation, no application answers ready without a complete answer that agrees with the first streamable
  block, although the goroutine of the firehose application sets `isReady` after a failed `Init` too.
* `ProcessEnds`: an application's end or a signal ends the process, whichever loop of `Launch` it falls into.
* `InitAnswers`: no caller of the shared `Init` waits for ever.  `TypeOK`: `ready`, which must be closed once, is.

Tools.

* `FilesInOrder`: a merged file that fix, legacy, a download or a merge above block 0 wrote has only blocks of its bundle, one
  for each height, in order.  No retry, failure, kill or command run again puts a block in another file, twice, or after a later one.
* `ChecksAreRight`: what `check`, its details, the batch check, `compare` and the search for forks say of the stores is what is in them,
  by definitions that look at the whole stores at once.
* `WritesAreComplete`: what a download, an upgrade or a rewriting leaves is the chain's bundle exactly, so that none of them leaves
  half a bundle under a final name (`FilesWhole`), and a writing tool that ends without error has written each bundle and each
  block it should have (`WroteAll`).
* `PrintedInOrder`: the client prints in the order it received, although its goroutines finish in any.
* `CommandEnds`: every command that has an end comes to it; no goroutine waits for one that has gone.  `TypeOK`: the limiter's
  bucket never has more tokens than its size.

## Fairness

Fairness is assumed of what Go's scheduler and the environment do give, never of a failure, a crash, a shutdown request
or an operator's command.

* *Merger*: weak fairness of the run loop, of the goroutine that merges, of the hook and of the exit once it has returned, of the restart
  (the orchestrator's) and of the uploads (the readers').
* *Block poller*: weak fairness of `run`, of each loader and of the restart; strong fairness of `RequestHit`, because the
  request goroutine looks every 100 ms and the map is replaced only after it has looked in vain, so it does not miss
  the block for ever; weak fairness of the failing fetch by hash that ends a fetch which can only fail.
* *Bundle reader*: the store reads on, the goroutines run.
* *Node operator*: weak fairness of the loop, of the start and the exit of a process that is told to stop, of the hooks;
  strong fairness of `SuperviserStops`, which waits for a lock that the loop takes again and again.  `Launch`, when
  it returns, shuts the application down.
* *Reader*: weak fairness of each goroutine; strong fairness of `LogLine`, `SuperviserStops` and `EndLogPlugins`, which
  compete for a lock; uploads are fair only while the plugin's context lives; the restart is fair.
* *Applications*: weak fairness of the launcher as a whole, of the info server and of the applications' goroutines as a whole:
  each of them does something as long as it can.  A source of blocks that comes up, a failure, a clean end and a signal are
  never fair (`Event`).
* *Tools*: weak fairness of the command, of the limiter's drip and of the endpoint; never of a failure, a kill or another client.

## Proofs

TLAPS (1.4.5) proves, for every value of the constants that satisfies the named assumptions of the modules:

| Theorem | States | Hypotheses |
|---|---|---|
| `MergerProofs!MergerTypes` | `Spec => []TypeOK`: in particular `bundleError` holds one error at most | |
| `MergerProofs!MergedFilesComplete` | `[]BundleComplete`: a merged file holds a beginning of its range, all of it unless a download was lost while it was written, and reaches no further than the boundary block, for any failures, crashes, exits and foreign files | |
| `MergerProofs!NeverBelowBase` | `[]NothingBelowBase`: the early return of `ProcessBlock` for an old block is never taken | |
| `MergerProofs!NeverPanics` | `[]NoPanic`: for any failures, crashes and foreign files, the only panic is on a file that a lost download has emptied | `NoEmptyBundle` |
| `MergerProofs!BaseMerged` | `[]BaseIsMerged`: while `inProcess` is free, everything below the base is in a merged file | `StoresAnswer` |
| `MergerProofs!PrunedMerged` | `[]PrunedIsMerged`: a pruned one-block file is in a merged file | `StoresAnswer` |
| `MergerProofs!StoppedIsMerged` | `[]StopMeansMerged`: everything below the stop block is merged when the process has ended for it, and nobody had asked it to shut down before | `StoresAnswer` |
| `MergerProofs!OnlyForksMoved` | `[]ForkedStoreOnlyForks`: no final block is moved as a fork | `StoresAnswer`, `SingleMerger` |
| `MergerProofs!MergerRefinesArchive` | `Spec => ArchiveSpec`: the merger implements `MergedArchive` | `StoresAnswer`, `SingleMerger`, `RegularChains` |
| `MergerProofs!MergerLeavesNoHole` | `[]Archive!NoHole`: the merged files in the merger's store follow one another from the first | the same three |
| `MergerProofs!MergerDuplicatesNothing` | `[]Archive!NoDuplicate`: no two merged files in the merger's store share a block | the same three |
| `MergedArchiveProofs!ArchiveLosesNothing` | in the archive, a received block can always be read from one of the two stores | `BundleAssumption` |
| `MergedArchiveProofs!ArchiveHasNoHole` | its files follow one another from the first | `BundleAssumption` |
| `MergedArchiveProofs!ArchiveHasNoDuplicate` | no two files share a block | `BundleAssumption` |
| `BundleReaderProofs!StoredIsPrefix` | `[]StoredPrefix`: what is stored is a beginning of the bundle, in order | |
| `BundleReaderProofs!ShortNeedsError` | `[]ShortOnlyAfterError`: a short object comes from an attempt in which a download failed | |
| `BlockPollerProofs!NothingPrintedTwice` | `[]PrintedOnce` | |
| `BlockPollerProofs!ParentsFirst` | `Spec => ParentFirst`: the action property on what is printed | |
| `NodeOperatorProofs!OperatorTypes` | `[]TypeOK` | |
| `NodeOperatorProofs!OneProcessAtOnce` | `[]OneProcess`: no process is alive next to the superviser's, but one that was missed before its goroutine ran | |
| `NodeOperatorProofs!BackupWithoutProcess` | `[]BackupOffline`, with the same exception | |
| `ReaderProofs!ReaderTypes` | `[]TypeOK` | |
| `ReaderProofs!ClosedIsNotSentOn` | `[]NoSendOnClosed`: nobody sends on the channel of lines that `Stop` has closed | |
| `ReaderProofs!StoredWithoutHole` | `[]NoHole`: until a launch finds the last one at work, the stored blocks follow one another | |
| `ReaderProofs!CleanStopIsComplete` | `[]CleanStopLosesOneLine`, until then | |
| `ApplicationsProofs!ApplicationTypes` | `[]TypeOK`: what `ParseAppsFromArgs` yields fits, `ready` is closed once at most | |
| `ApplicationsProofs!ReportedEndIsFounded` | `[]ExitIsFounded`, for every list of applications, command line and number of failures | |
| `ApplicationsProofs!ReadyAnswerIsValid` | `[]ReadyIsValid`, for every set of known chains and every configuration | |
| `ToolsProofs!PrintsInOrder` | `[]PrintedInOrder`, for every stream, queue size and order of the encoding goroutines | |
| `ToolsProofs!PromisesAreKept` | what the printer waits for, and what is in its queue, is encoded or offered by a goroutine | |
| `ToolsProofs!BucketKept` | the limiter's tokens stay between none and the size of the bucket, for any number of handlers | |
| `ToolsProofs!ToolTypes` | `[]TypeOK`, for every chain, stores and plan of commands | |
| `ToolsProofs!ToolsKeepOrder` | `[](Linkable(scenario) => FilesInOrder)`, for every chain, stores, plan, failing stores and streams, and kills | `Linkable` |

Assumptions on the constants are as weak as the code allows (a positive bundle size, natural numbers, chains of
heights, a tree of blocks, command lines of at most `MaxSlots` names, files of whole bundles), named, and evaluated by TLC in each run.  One is a limit of the model and not of the code: merge-blocks takes
any low boundary, and `ScenariosAssumption` lets the operator give the base of a bundle only, since a file with another base has a name
that no other tool expects.  The hypotheses of the table are not assumptions of a module:
each is a condition under which the property is meant, is met by the run that checks it, and without it the property is false
of the code ([What the runs do not cover](#what-the-runs-do-not-cover) says how):

* `StoresAnswer`: no write of a merged or a forked file fails, and no download is lost.  It says nothing of how the process ends: crashes, shutdowns and foreign writers are still arbitrary.  `merger_prunes` and
  `PrunedMerged` are the two sides of one statement: with one failed write TLC finds it violated, without one it is a theorem.
* `SingleMerger`: nobody else writes merged files.
* `NoEmptyBundle`: the chain has a block in each bundle below its highest one.  `RegularChains` is weaker: a block *on* a boundary does not follow an
  empty range, since such a block is stored in two files (bundler.go:214) and the archive's files share none.
* `Linkable`: among the blocks that stores, one-block files and endpoint of a scenario have, each has an id, and a child is above its parent, at most one
  bundle further, and leaves bundle 0 only from its last block.  Forks, blocks out of order, holes and broken files in the stores are all allowed.  Four
  of the five scenarios of the run `tools` are so (TLC was asked; in the fifth, `disordered`, a block has no id).
  Without it `FilesInOrder` is false of the code: the writer moves on by one bundle for any block beyond its own, and takes a low
  boundary of 0 as unset (merged_blocks_writer.go:36 and 44); and after a block without id the checks of the sequence let any block pass
  (tools_download_from_firehose.go:161, tools_fix_bloated_merged_blocks.go:102).

**The merger.**  None of the invariants is inductive alone: that a file written misses nothing depends on
what the goroutine was handed, which depends on what the run loop had collected, which depends on where the forkable
stands.  `IInv`, which holds in all conditions, adds to `TypeOK` and `BundleComplete`:

* `JobInv`: the blocks handed to the goroutine include its bundle, are final, and end at the boundary at the latest;
* `FlowInv`: while the loop polls, walks and flows, `irreversible` has every final block from the base to the last one
  flowed (`Collected`), unless the bundler still looks for its first boundary, and the blocks still to flow are not below
  the base.  There is one exception: a restart above a file that was cut short takes its LIB from the last block that is left, so the forkable lacks
  a block that no walk gives it any more, and nothing flows (`AfterCut`);
* `LockInv`: the block waiting for `inProcess` is beyond the bundle, which is complete;
* `SkipInv`: the same while empty ranges are skipped.

The proof has one lemma per phase of the run loop (down, poll, walk, emit, the bundle left) and one for the writers; the goroutine, the
pruners, the deleter, crashes and uploads leave most conjuncts unchanged.  The key lemma is that the next block of the forkable is the
lowest final block above the last, so that what lies between them is empty.

*Panics.*  `PlaceInv`: the base, the job and every merged file are on boundaries that the chain goes beyond.  A file of such a range has a block when no
range is empty and the file is whole (`IInv`), or cut short but not to nothing, so the LIB read at a restart exists; the bundle that is closed has one since
it is handed over whole.  `PanicInv` is what remains: who has panicked is down, and has met a file with nothing in it.

*Pruners and shutdown.*  `CoverInv` is `IInv` and: who finds `inProcess` free finds no merge under way, and no error is pending (`CalmInv`); a block
below the base is in a file, or in the bundle that is being written (`BaseInv`); what is queued for the deleter, what the mover has left to move, and what is gone
from the store is a fork or is in a file (`FilesInv`); `StopInv` follows the stop block from the return of the run loop to the end of the process: the loop starts no merge after it has
returned, so what the hook waited for is the last one (`HookInv`: there is no hook without a shutdown).  The pruners read the base under the lock but queue files that the deleter takes later: `FilesInv` is what survives in between,
because files are never rewritten with less.

*Forks.*  That the mover takes no final block needs, over a `Reset`, that nothing the bundler remembers is below the base it moved to.  `LoneInv`
has: merged files without a gap, all below the base when the bundler is at work (`LineInv`); what was walked was uploaded (`UploadInv`); the walk's
cursor is beyond every final block that the forkable still holds (`CursorInv`), so that a block enters `seenBlockFiles` only at or above the base (`SeenInv`).

*The refinement.*  `ExactInv` adds that files have no block beyond their range (`StrictInv`) and that what flows or is written was uploaded
(`KnownInv`).  Then each write of a merged file maps to `Append` of the archive, an upload to `Receive`, a deletion or a move of a final block's file to `Reclaim`,
and every other step to a stutter.  What `MergedArchiveProofs` shows of the archive then holds of the merger's own stores: `MergerLeavesNoHole` and
`MergerDuplicatesNothing` are the theorems of the archive, instantiated under the refinement mapping.  All these
invariants were checked with TLC before, on six instances besides those of the runs.

**The archive.**  `IInv` is `BundleAssumption`, `TypeOK`, `Exact` (a file is its range), `Aligned` (bases differ by multiples of
the size: two ranges that meet are the same), `NothingLost` and `NoHole`.  The constants' assumption is an explicit
hypothesis of these theorems (`BundleAssumption /\ Spec => ...`) because `FirstBase` is given by an expression where
`Merger` instantiates the module.

**The bundle reader.**  `StoredPrefix` looks at the object at the end; `IInv` follows the stream.  The files read and the one on the channel are together the
ones the goroutine of this attempt is past (`Streamed`); its channel is closed at the end of the bundle or next to an error
(`Closed`); and an attempt starts with channels of its own (`Fresh`), which is why the goroutines of failed attempts, still running, cannot
mix into the next object.

**The block poller.**  A block that comes back after a reorg, or out of a stale batch, must be recognised, although the forkdb is purged.  `PInv`: what is marked as fired was
printed (`Marked`); what was printed and is unknown to the forkdb is below all that it knows and below the LIB (`Purged`); what it knows below the LIB
came from the state file and is fired (`OldFired`); the LIB is printed or nothing above it is missing (`StartsAt`); an incomplete segment does not reach the
LIB (`Open`), the one that is fired does and holds the block that completed it (`Firing`); and the state file keeps this (`Saved`).  No line of it is about the
polled map, the flag or the loaders: whatever they deliver, the stream is right.  The lemmas about the tree (a branch is a
line, an ancestor's ancestors are ancestors) are inductions over heights, see below.

**The operator.**  `OInv`: what the processes are (`Procs`); the lock is held by who is in `Stop`, and the process that is being stopped is the superviser's
(`Locked`); and the two properties themselves.  A `Start` or a `Stop` that goes on because nothing runs finds its process ended or `created`, and in
the second case that process joins `unseen`, whatever the loop does next.

**The reader.**  `ClosedIsNotSentOn` needs only `Closes`: the shutdown closes the channel with the lock of the plugins, and whoever takes that lock later finds
the plugin down.  For `NoHole` every block is followed from the output of the process to the store: `InOrder` says that the stages (stored, queued, to be pushed, lines, in a
hand, output) hold ascending blocks, each stage below the next; `NoGaps` that nothing is missing below any of them as long as its
reader goes on; `Own` that the launches before the last have nothing left, and that a launch in progress has neither a process nor a loop that has chosen
its console reader.  All this holds until a launch crosses the last one (`InFlow`, `Cleanly`: `~crossed => ...`), and again after a crash or a restart,
the only steps that begin anew (`Crossing`).  For the clean stop, `Clean` adds what a node without a failure has (`Calm`), where the
announce of the protocol is (`Announced`), that only the stop block ends the plugin first (`StopReached`), and that what is due at the end of `Stop` goes on to
the store (`DueStored`).

**The applications.**  `ExitIsFounded` looks at one moment, when `start` leaves its `select`; what it needs is a chain of
causes.  `ExitInv` has it: until the launcher shuts down, every shutter that is not `no` has its cause in `faults`, a goroutine of
`shutdownDueToApp` that is past its first step comes from such an end, and `firstApp` names one (`Founded`); the launcher shuts down, before the
`select` is left, only with such a goroutine's error (`Shut`).  `Registered` is needed because the empty name stands for "no
application": what runs is registered, so it is never recorded as the first.  `Idle` says that an index
builder that looks for its start block has nothing else that could end, so an end there is the launcher's.  `ReadyIsValid` rests on
`AnswerInv`: one client looks, once, and its result is kept (`AnsweredOnce`); an application is brought up once (`BroughtUpOnce`);
and one that is ready without a good `Init` is going down (`ReadyOrDown`), because the goroutine that refuses calls `Shutdown`
before it goes on.  That an answer which passed the checks names no chain that the block contradicts is `FilledIsValid`, the
only place that needs that names of known chains are unique (`InfoAssumption`).

*Types.*  `ApplicationTypes` rests on the other two invariants (an ending is a cause, `Init` looks once) and on what the command line yields.  `ParseAppsFromArgs` is a
fold over the arguments that counts names, followed by a sort that is a fold over the alphabet.  That such a recursive function exists and stays in a set is shown by a least
counterexample, for the counts (`[Names -> Nat]`) and for the list (`Seq(Names)`); the bound on its length is `CommandLinesAssumption`.
That `ready` is closed once needs `FilledOnce`: as long as nobody has looked, it is open, and so it is as long as a goroutine that `Init` left behind may still close it.

**The client and the limiter.**  `PrintedInOrder` speaks of two sequences; what lies between them is the account of
`PrinterInv`: every response is printed, held by the printer, in the queue or about to enter it, and the numbers of the promises go on
where the printed lines end (`Numbered`), so that the one the printer waits for is the next line whichever goroutine comes first; each of
them is a goroutine's (`Served`); the queue is closed with nothing about to enter it, and without lines there are no promises (`Emptied`).
Nothing is said of the connection, since the order is that of what arrives.  The lemmas on sequences of any elements
(`IsSequence`) are what a step adds or takes at one end.

**The tools.**  A call of a walk is a fold over the blocks of a file, and a walk is a sort.  `RecursionExists` says that the equations of a recursive function over the first n
numbers have a solution, and `RecursionIn` that it stays in a set that each step keeps, both by a least counterexample.  So each command's call is typed by what one block does to its accumulator.

*Types.*  `ToolsInv`: every store holds known blocks of the scenario (`Known`: in its stores, its one-block files or the feed) under bases of bundles, so does the writer, whose low boundary
is a multiple of the bundle size (`Kept`); a walk names files of the store that it goes over, and a merge one-block files at or above its start
(`WalkKept`); the batch check's reference is typed (`Referring`); a merge that still holds blocks holds them of a bundle that has a name (`InNames`),
so that the bundle written at the end of the walk has one too.  Each call yields a `GoodFrame`, one lemma per command.

*Order.*  `FilesInOrder` needs to know what the writer will be handed next.  `After(w, num)`: its blocks are in its bundle, ascending, none above `num`, and `num` is in
the bundle or just below it.  `ProcessOrdered` is the lemma on the writer: handed a block above `num` and below the next-but-one bundle, it writes only files in
order and is `After` that block, unless it failed.  Two kinds of callers provide it.  Those that follow parents (a rewriting inside one file, a
download across failed and repeated streams) hand it the child of the last block, which `Linkable` puts there (`LinkAt`).  A merge hands it
one-block files in the order of their names, from its start to one bundle further (`MergeAt`, `InTurn`), which needs that a walk is sorted and that a duplicate is
skipped.  `Placed` joins them: files in order, the writer of the command at work, and its place.  A kill or an error leaves the files and no writer.  A merge from block 0 is left out of
`FilesInOrder`, and an upgrade, which takes what a file has.

Every invariant above was checked with TLC before it was proved.

*Only model-checked*:

* liveness (`ShutdownCompletes`, `ChainGetsMerged`, `FollowsHead`, `CallEnds`, `Answered`, `ExitNoticed`, `FileIsUploaded`, `ProcessEnds`, `InitAnswers`,
  `CommandEnds`), which needs fairness and `ENABLED` and is out of the prover's reach;
* `ChecksAreRight` and `WritesAreComplete` of the tools: they compare what a command accumulated with sets computed from whole stores (`Max` of bases, ranges of
  sequences, `SelectSeq` of the chain).  The library defines these by recursion over the data and states no theorem on them that can be cited; each would need
  inductions of its own, and so would what every command accumulates.  TLC's scenarios are all that is claimed of them.

The library's induction theorems cannot be used here, since they take an operator as a parameter.  Where a proof needs an induction over heights or lengths
(ancestors in a tree, a least height of a set, a fold over a file) it takes a counterexample of least height instead (`WFMin`, which takes a set).  No module declares a recursive operator.

## Where code and documentation disagree

**The base runs ahead of a failed merge** (`merger_prunes`, bundler.go:196 against the comment at bundler.go:79).  The
error of a merge is looked at before `inProcess` is taken, so a failure in between lets the base move on, and the
pruner deletes one-block files that no merged file holds.

**The panic below the LIB is reached although the node undoes nothing final** (`poller_panics`, poller.go:147 against its own message and the
comment at poller.go:175).  The heights of a batch are fetched in parallel: with a reorg in between, block 5 comes from the branch that is left, where 2 to 4 are
skipped, and 2 to 4 from the new one.  These are processed first, and the LIB moves to 2; then 5 is linked, its parent, 1, is unknown, and
is fetched, below the LIB.  It takes a branch that skips at least as many heights as the finality; a restart clears it, since the polled blocks
are only in memory.

Met while modelling, without a run of their own:

*Merger and readers*

* the forced finality of the poller (CHANGELOG.md:445) is only applied to blocks fetched by hash (poller.go:355), not to
  those of `loadNextBlocks`; the model has it where the code has;
* bundler.go:217 returns with `inProcess` and the bundler's lock held;
* mindreader.go:241 says that the shutdown waits for the uploads; it cancels their context (mindreader.go:169) and does not wait;
* a launch of the plugin sets `consumeReadFlowDone`, the channel of lines and the console reader one after the other (mindreader.go:174-184), and `Stop`
  (lines 211-219) reads the first two without a lock in between: it may close the lines of one launch and wait for the loop of another;
* merger.go:67 waits for the merge that runs when the shutdown begins; the run loop looks at the shutdown only at merger.go:174, so it may begin
  another, which the end of the process cuts off;
* the `break` at operator.go:164 leaves the `select` only: a command that is queued still runs after the shutdown;
* a block right after an empty range is stored twice (bundler.go:214): the loop that skips empty ranges runs while
  `obf.Num > base + size`, so a block *at* `base + size` ends it one range early and is written both in that range's file and in its own;
* a failed download may give a short merged file (bundlereader.go:104; the test at bundlereader_test.go:151 expects an error, and accepts
  `io.EOF` as one).

*Applications*

* launcher.go:180-183 lets the first application that ends choose the error; the once and `l.shutter.Shutdown` are two steps, so the
  application reported and the error returned may belong to two applications (`ExitIsFounded` is stated to allow that and no more);
* an application may be told to stop before its `Run` has registered its hooks: its component is then never told (`tied`);
* the relayer waits for its hub without looking at its shutdown; the firehose application goes on after a failed `Init`;
* the filler does not check the genesis block of a chain that is named when that chain begins at another height.

*Tools*

* the writer takes a low boundary of 0 as unset (merged_blocks_writer.go:36): on a chain whose last block of the first bundle is
  missing, the first file is lost; an empty bundle shifts the files that follow (line 44 moves on once);
* merge-blocks writes the block that ends its walk alone in the next file (tools_merge_blocks.go:74), skips block 0 (line 69), and
  reports an error after the bundle was written (lines 109-116);
* the download forgets what it holds of the last bundle (tools_download_from_firehose.go:91), and a retry after a received block
  fails its own sequence check (line 161), since no cursor is sent;
* fix-bloated never writes a bundle without a block at its last height; fix, legacy and unmerge dereference a nil block when a file
  cannot be read to its end;
* types/utils.go:41 says that a single number is a closed range; line 76 makes it an open one;
* check without details calls a range complete although the file of its last block is missing; the batch check does not mark a
  bad block that follows the last height of its bundle (merged_batch.go:106); a check that compares shares one `err` among its goroutines
  (`lost` in the model).

## What the runs do not cover

Each of these is a condition of a run or an exception that a property above names; without it the property does not hold of the code.

* *Failing stores and the merger.*  `BaseIsMerged`, `PrunedIsMerged`, `StopMeansMerged` and
  `ShutdownCompletes` are checked with stores that answer.  With one failing write each fails: the error is seen a bundle later, or not at
  all after the stop block, a fork that was not copied is deleted all the same (merger_io.go:296), and bundler.go:217 leaves locks
  held.  `merger_hostile` and the proofs say what remains true.
* *A short merged file.*  After a lost download a merged file may lack the end of its range (`shortened`).  A merger that restarts above it takes its LIB
  from the last block left, below the base, and waits for ever for blocks that no walk gives it; if nothing is left, it panics
  (merger_io.go:283) at each restart.  `ChainGetsMerged` is checked with stores that answer.
* *A shutdown before the stop block.*  A merger that is asked to shut down and then reaches its stop block returns from its loop like any other, but the
  hook may have gone through `inProcess` before the last merge began.  `StopMeansMerged` is about a process that nobody had asked.
* *Foreign writers.*  `ForkedStoreOnlyForks` needs a single merger: blocks skipped by a `Reset` linger in `seenBlockFiles`.
* *An empty last file.*  `NoPanic` and `ChainGetsMerged` are checked on chains where no bundle is empty: with one, a
  restart reads the LIB from a file that has no block (merger_io.go:283), panics, and does so after each restart.
* *A tail out of order.*  The forkable ignores a file it has seen; on a finite chain an out-of-order tail waits for a block that
  never comes, so the liveness run has files in order.
* *Stop block at a restart.*  A merger restarted at or after its stop block merges one more bundle before it stops.
* *Two loaders for ever.*  `FollowsHead` fails with two loaders, each replacing the map the other fills; the code does not
  exclude it, although the 100 ms pause makes it unlikely.  `PrintedOnce` and `ParentFirst` are proved for any number.
* *A node that stays behind.*  `fetchBlockWithHash` and the loaders retry without looking at the shutdown; the poller's
  `ShutdownCompletes` assumes that the node ends on the highest block.
* *Below the LIB.*  Besides the gap of `poller_panics`, two things reach the panic of poller.go:147.  A reorg of the very start block, or
  deeper than the finality.  And a LIB that goes back: after a restart the forkdb has blocks below the LIB again (the whole last segment is in the state
  file), so a block fetched by hash in a reorg, whose own LIB is lower, moves it down; the state that is saved then starts above its LIB, and the
  next process that restores it asks for height 0 (a restored block does not know the number of its parent) and panics, as will each one after it.  This one needs two restarts, and that
  `SetLIB` of `bstream` lets a LIB go back, which is how it is modelled here.
* *A late start.*  If the goroutine of superviser.go:210 has not run when the next command is taken, a second start makes a second process, and a stop
  or a backup goes on beside one that is about to run.  The model has this; `OneProcess` and `BackupOffline` allow it (`unseen`) and say that nothing else
  leads there.
* *A full queue.*  `Launch` puts the first start in the queue that it alone reads; with as many callers waiting as the queue
  has places (ten), it blocks for ever.
* *A reload over a launch that still has lines.*  A reading loop of the previous launch takes the new console reader (mindreader.go:308), and the lines
  in its own channel are lost.  The model has this too; `NoHole` and `CleanStopLosesOneLine` hold until it comes to that (`crossed`).
* *A shutdown in a launch.*  `Stop` then closes the lines of the last launch and waits for the loop of the new one, or the loop of the last one has
  gone on with the new console reader; in both cases it waits for ever.  `FileIsUploaded` and `ShutdownCompletes` except it (`Torn`).  The loop's
  goroutine takes `consumeReadFlowDone` from the plugin when it starts; the model lets that be no later than the next launch.
* *A store that does not read its pipe to the end* (archiver.go:106) blocks the write of a block; the reader's liveness
  excepts that (`Hung`).
* *Standard input* at its end calls `Shutdown`, not `Stop`: what is buffered is dropped, so `CleanStopLosesOneLine` is about a
  supervised process.

* *Chains without the last block of the first bundle*, and empty bundles: `FilesInOrder` and `WritesAreComplete` of the tools are
  checked on a chain that has neither (`Linkable` says what the first needs), see the writer above.
* *A merge from block 0.*  The writer does not know that bundle 0 has begun (0 means unset), so blocks of it that are not followed by its last one go into the next
  file: `FilesInOrder` is about merges above it.
* *A merge from the middle of a bundle.*  The command takes any low boundary and names the file after it; the model's plans start where a bundle does.
* *A range that starts below zero* where the tools walk a store, and a download with a relative start: the server resolves it, and
  what comes is the same as an absolute one.
* *Streams without end*: `CommandEnds` excepts those that follow the chain, and an upgrade that waits for a file that does not exist.
* *A nil block* from a source whose context ends while `Init` waits, which the filler would dereference.

## What is not modelled

* The stores' own semantics (listing that lags behind, partial objects): a write is atomic except in `BundleReader`, a
  listing is exact.  Bytes, names, hashes, time and logging are abstracted everywhere.
* In `Merger`: the deleter's queue is unbounded (a full queue only delays the pruner), a pruner's walk is one step, `MergeAndStore`
  is one step.
* In `BlockPoller`: a replaced map and a write to it are atomic although the code does one of them without the lock; the
  retries of one fetch are one failure.
* In `NodeOperator`: production commands of a chain's superviser (none is in this repository), health, statistics.
* In `Reader`: the text of lines, the block stream server's push, readiness and head metrics, callbacks.
* In `Applications`: subscribers of statuses (none in this repository), an `InitFunc` that fails (none does), what flows through the
  hubs.  `bstream` has hub, sources, cursors and block stream server: the relayer and the index builder only hand them to each other.
* In `Tools`: a kill falls between two calls of a walk's function, not inside one; the contents of a block are one value; formats,
  colours and JSON; the single-block requests, the local pipe (no command opens it) and the v1 proxy.
* The components listed as `not_modelled` in `PROJECT.json`, each with its reason: log plugins, other backup modules and start options,
  the search for a block number over the names in the stores, bootstrap, commands and flags, conversions and RPC clients.  They
  are sequential, or pure input/output, configuration and formatting, and keep no state that another component reads.

## Plan

Every part with a behaviour of its own has a module, and every safety property of a passing run but `ChecksAreRight` and `WritesAreComplete` has a
theorem.  What would come next:

1. `WritesAreComplete` for a download alone: what `Linkable` gives for the order (`LinkAt`) would have to say that nothing of the chain is between two
   blocks, which needs lemmas on `SelectSeq` in place of the library's definition.
2. A bound on gaps under which `NeverBelowLib` holds for every tree: below the finality, and on trees where a LIB does not go back at a restart.
