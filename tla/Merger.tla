------------------------------- MODULE Merger -------------------------------
(***************************************************************************)
(* The merger (merger/merger.go, merger/bundler.go, merger/merger_io.go):  *)
(* a process that reads one-block files, keeps the final blocks, and       *)
(* writes them in merged files of BundleSize heights.                      *)
(*                                                                         *)
(* Threads: the run loop (Merger.run, which calls Bundler.ProcessBlock     *)
(* through the forkable), the goroutine that ProcessBlock starts for each  *)
(* merge, the two pruners, the deleter's workers and the shutdown handler. *)
(* They meet on the mutex inProcess, on the channel bundleError (capacity  *)
(* 1) and on the three stores, which outlive the process.                  *)
(*                                                                         *)
(* A file is a block: its height and whether it is on the final chain or   *)
(* on a fork.  The forkable of the bstream library is external: it is      *)
(* given files and hands the final blocks of the chain back in order.      *)
(***************************************************************************)
EXTENDS Integers, FiniteSets

CONSTANTS
  BundleSize,       \* heights per merged file (100 in merger/app/merger/app.go)
  FirstStreamable,  \* first height of the chain
  StopBlock,        \* --merger-stop-block, 0 for none
  PruningDistance,  \* --merger-prune-forked-blocks-after
  WalkAttempts,     \* attempts of run's Retry around a walk (12)
  Chains,           \* the final chains to consider: sets of heights
  ForkChoices,      \* the sets of heights at which a fork exists
  FinalityDepth,    \* a block makes its ancestors this far below it final
  Reorder,          \* how far ahead of a missing file an upload may come
  MayShutdown,      \* whether the operator may ask for a shutdown
  MaxFailures,      \* bound on failing reads and writes of the stores
  MaxRestarts,      \* bound on restarts of the process
  MaxExternal       \* bound on merged files written by another process

ASSUME SizeAssumption == BundleSize \in Nat \ {0} /\ FirstStreamable \in Nat

ASSUME ChainAssumption ==
  \A c \in Chains :
    /\ c \subseteq Nat
    /\ FirstStreamable \in c
    /\ \A n \in c : FirstStreamable =< n

ASSUME ForkAssumption == \A k \in ForkChoices : k \subseteq Nat

ASSUME OptionAssumption ==
  /\ StopBlock \in Nat /\ PruningDistance \in Nat
  /\ WalkAttempts \in Nat \ {0}
  /\ FinalityDepth \in Nat \ {0} /\ Reorder \in Nat /\ MayShutdown \in BOOLEAN
  /\ MaxFailures \in Nat /\ MaxRestarts \in Nat /\ MaxExternal \in Nat

VARIABLES
  chain, forks,     \* heights of the final chain, heights that have a fork
  uploaded,         \* one-block files the readers have written so far
  oneBlocks,        \* one-block store
  merged,           \* merged store: base height -> heights in the file
  forkedBlocks,     \* forked store
  phase,            \* where the run loop is
  result,           \* what ended the process, or is ending it
  terminating,      \* the shutter is shutting down
  hooked,           \* and its OnTerminating callback has returned
  base,             \* Bundler.baseBlockNum
  irreversible,     \* Bundler.irreversibleBlocks
  seen,             \* Bundler.seenBlockFiles
  enforce,          \* Bundler.enforceNextBlockOnBoundary
  fLib, fTarget,    \* the forkable: last height flowed, height known final
  fBlocks,          \*   and the heights in its forkdb
  cursor,           \* next file name of the walk
  attempts,         \* failed attempts of the walk
  flowing,          \* the final block ProcessBlock is working on
  inProcess,        \* who holds Bundler.inProcess
  job,              \* the goroutine that merges a bundle
  bundleError,      \* errors buffered in Bundler.bundleError
  deletions,        \* files queued in the deleter
  failures, restarts, externals,
  shortened         \* history: the bundles that a lost download cut short

chainVars   == <<chain, forks>>
storeVars   == <<uploaded, oneBlocks, merged, forkedBlocks>>
forkdbVars  == <<fLib, fTarget, fBlocks>>
bundleVars  == <<base, irreversible, seen, enforce>>
walkVars    == <<cursor, attempts>>
mergeVars   == <<inProcess, job, bundleError>>
endVars     == <<result, terminating, hooked>>
boundVars   == <<failures, restarts, externals, shortened>>

vars == <<chainVars, storeVars, forkdbVars, bundleVars, walkVars, mergeVars,
          endVars, boundVars, phase, flowing, deletions>>

NoLib == -1

File(n, f) == [num |-> n, forked |-> f]
Files == [num : Nat, forked : BOOLEAN]

\* The file names sort by height; a fork after the final block of its height.
Name(f) == 2 * f.num + (IF f.forked THEN 1 ELSE 0)

toBaseNum(n) == (n \div BundleSize) * BundleSize

FirstBase == toBaseNum(FirstStreamable)

NoJob == [state |-> "idle", base |-> 0, blocks |-> {}, forks |-> {}]

Bundle(b) == {n \in chain : b =< n /\ n < b + BundleSize}

-----------------------------------------------------------------------------
(* The process starts: NewBundler.                                         *)

ProcessInit ==
  /\ terminating = FALSE /\ hooked = FALSE
  /\ base = FirstBase /\ irreversible = {} /\ seen = {} /\ enforce = TRUE
  /\ fLib = NoLib /\ fTarget = NoLib /\ fBlocks = {}
  /\ cursor = 0 /\ attempts = 0 /\ flowing = 0
  /\ inProcess = "free" /\ job = NoJob /\ bundleError = 0
  /\ deletions = {}

Init ==
  /\ chain \in Chains /\ forks \in ForkChoices
  /\ uploaded = {} /\ oneBlocks = {} /\ forkedBlocks = {}
  /\ merged = [b \in {} |-> {}]
  /\ phase = "poll" /\ result = "none"
  /\ ProcessInit
  /\ failures = 0 /\ restarts = 0 /\ externals = 0 /\ shortened = {}

Up == phase # "down"

\* inProcess, its users and its only holder that lets it go.
LockIgnored == TRUE

CanLock == inProcess = "free"

UnlockForgotten == UNCHANGED inProcess

Unlock == inProcess' = "free"

\* The memory of the process is gone; the stores stay.
GoDown(r) ==
  /\ phase' = "down"
  /\ result' = r
  /\ terminating' = FALSE /\ hooked' = FALSE
  /\ base' = FirstBase /\ irreversible' = {} /\ seen' = {} /\ enforce' = TRUE
  /\ fLib' = NoLib /\ fTarget' = NoLib /\ fBlocks' = {}
  /\ cursor' = 0 /\ attempts' = 0 /\ flowing' = 0
  /\ inProcess' = "free" /\ job' = NoJob /\ bundleError' = 0
  /\ deletions' = {}

\* run returns and Merger.Run calls Shutdown with its error, which only counts
\* when nobody has called Shutdown before.
RunReturns(r) ==
  /\ phase' = "returned"
  /\ terminating' = TRUE
  /\ result' = IF terminating THEN result ELSE r
  /\ UNCHANGED hooked

\* An inclusive LIB flows again only when the walk finds its file.
LibFlowed(b, lib) == IF lib >= b THEN lib - 1 ELSE lib

Reset(b, lib) ==
  /\ base' = b
  /\ irreversible' = {}
  /\ enforce' = (lib = NoLib)
  /\ fLib' = LibFlowed(b, lib)
  /\ fTarget' = lib
  /\ fBlocks' = {}

-----------------------------------------------------------------------------
(* The run loop: NextBundle, then a walk over the one-block files.         *)

\* NextBundle reads consecutive merged files from base on and stops at the
\* first height b that none of them holds.
Covered(n) == \E b \in DOMAIN merged : b =< n /\ n < b + BundleSize

NextBundle(b) ==
  /\ base =< b
  /\ b = base \/ b - BundleSize \in DOMAIN merged
  /\ b \notin DOMAIN merged
  /\ \A n \in base .. (b - 1) : Covered(n)

BundleEnds == {base} \cup {b + BundleSize : b \in DOMAIN merged}

StartWalk(b) ==
  /\ phase' = "walk"
  /\ cursor' = Name(File(b, FALSE))
  /\ attempts' = 0

\* IsTerminating at the top of the loop.
PollTerminating ==
  /\ phase = "poll" /\ terminating
  /\ phase' = "returned"
  /\ UNCHANGED <<chainVars, storeVars, forkdbVars, bundleVars, walkVars,
                 mergeVars, endVars, boundVars, flowing, deletions>>

\* Nothing new in the merged store: walk from the same base.
PollSame ==
  /\ phase = "poll" /\ ~terminating
  /\ NextBundle(base)
  /\ StartWalk(base)
  /\ UNCHANGED <<chainVars, storeVars, forkdbVars, bundleVars, mergeVars,
                 endVars, boundVars, flowing, deletions>>

\* Merged files were found from base on: restart above the last of them, with
\* the last block of that file as LIB.
PollReset ==
  /\ phase = "poll" /\ ~terminating
  /\ \E b \in BundleEnds :
       /\ NextBundle(b) /\ b > base
       /\ \E lib \in merged[b - BundleSize] :
            /\ \A n \in merged[b - BundleSize] : n =< lib
            /\ Reset(b, lib)
       /\ StartWalk(b)
  /\ UNCHANGED <<chainVars, storeVars, seen, mergeVars, endVars, boundVars,
                 flowing, deletions>>

\* readLastBlockFromMerged on a merged file without a block: lastBlock returns
\* nil and last.Timestamp dereferences it.
PollPanic ==
  /\ phase = "poll" /\ ~terminating
  /\ \E b \in BundleEnds :
       NextBundle(b) /\ b > base /\ merged[b - BundleSize] = {}
  /\ GoDown("panic")
  /\ UNCHANGED <<chainVars, storeVars, boundVars>>

\* The block whose number a block of height n carries as its LIB.
LibNum(n) ==
  IF n - FinalityDepth < FirstStreamable THEN FirstStreamable
                                         ELSE n - FinalityDepth

\* The chain between low and the block of height n is in the forkdb.
Linked(low, n) == \A m \in chain : low < m /\ m < n => m \in fBlocks

\* Without a LIB the first one is the first streamable block itself, or the
\* LIB of a block that links down to it.
FirstLib(n, lib) ==
  \/ n = FirstStreamable /\ lib = n
  \/ /\ n # FirstStreamable
     /\ lib \in fBlocks /\ lib =< LibNum(n)
     /\ \A m \in chain : lib < m => m > LibNum(n)
     /\ Linked(lib, n)

NextFile(f) ==
  /\ f \in oneBlocks /\ cursor =< Name(f)
  /\ \A g \in oneBlocks : cursor =< Name(g) => Name(f) =< Name(g)

\* HandleBlockFile: remember the file and give it to the forkable, which may
\* then have final blocks to flow.
WalkFile ==
  /\ phase = "walk"
  /\ \E f \in oneBlocks :
       /\ NextFile(f)
       /\ cursor' = Name(f) + 1
       /\ seen' = seen \cup {f}
       /\ IF f.forked \/ f.num \in fBlocks
            THEN UNCHANGED <<forkdbVars, phase>>
            ELSE /\ fBlocks' = fBlocks \cup {f.num}
                 /\ \/ /\ fLib = NoLib
                       /\ \E lib \in fBlocks \cup {f.num} :
                            /\ FirstLib(f.num, lib)
                            /\ fLib' = lib - 1 /\ fTarget' = lib
                       /\ phase' = "emit"
                    \/ /\ fLib = NoLib
                       /\ ~\E lib \in fBlocks \cup {f.num} : FirstLib(f.num, lib)
                       /\ UNCHANGED <<fLib, fTarget, phase>>
                    \/ /\ fLib # NoLib
                       /\ Linked(fLib, f.num)
                       /\ fTarget' = IF LibNum(f.num) > fTarget
                                       THEN LibNum(f.num) ELSE fTarget
                       /\ phase' = "emit"
                       /\ UNCHANGED fLib
                    \/ /\ fLib # NoLib
                       /\ ~Linked(fLib, f.num)
                       /\ UNCHANGED <<fLib, fTarget, phase>>
  /\ UNCHANGED <<chainVars, storeVars, base, irreversible, enforce, attempts,
                 mergeVars, endVars, boundVars, flowing, deletions>>

\* No file is left: sleep, then poll again.
WalkDone ==
  /\ phase = "walk"
  /\ \A f \in oneBlocks : Name(f) < cursor
  /\ phase' = "poll"
  /\ UNCHANGED <<chainVars, storeVars, forkdbVars, bundleVars, walkVars,
                 mergeVars, endVars, boundVars, flowing, deletions>>

-----------------------------------------------------------------------------
(* Bundler.ProcessBlock, once per block that the forkable flows.  Its early *)
(* return for a block below the base has no action: NothingBelowBase says  *)
(* that the forkable never flows one.                                      *)

NextFinal(n) ==
  /\ n \in chain /\ fLib < n /\ n =< fTarget
  /\ \A m \in chain : fLib < m => n =< m

OnBoundaryOnly(n) == n = base

OnBoundary(n) == n = base \/ n = FirstStreamable

\* ErrFirstBlockAfterInitialStreamableBlock: reset and walk again, a bounded
\* number of times.
FinalRefused ==
  /\ phase = "emit"
  /\ \E n \in chain :
       NextFinal(n) /\ n >= base /\ enforce /\ ~OnBoundary(n)
  /\ IF attempts + 1 < WalkAttempts
       THEN /\ Reset(base, NoLib)
            /\ phase' = "walk" /\ cursor' = Name(File(base, FALSE))
            /\ attempts' = attempts + 1
            /\ UNCHANGED endVars
       ELSE /\ RunReturns("error")
            /\ UNCHANGED <<base, irreversible, enforce, forkdbVars, walkVars>>
  /\ UNCHANGED <<chainVars, storeVars, seen, mergeVars, boundVars, flowing,
                 deletions>>

Accepted(n) ==
  /\ NextFinal(n) /\ n >= base
  /\ enforce => OnBoundary(n)

\* The block belongs to the bundle being filled.
FinalKept ==
  /\ phase = "emit"
  /\ \E n \in chain :
       /\ Accepted(n) /\ n < base + BundleSize
       /\ irreversible' = irreversible \cup {n}
       /\ fLib' = n
  /\ enforce' = FALSE
  /\ UNCHANGED <<chainVars, storeVars, base, seen, walkVars, mergeVars,
                 endVars, boundVars, fTarget, fBlocks, phase, flowing,
                 deletions>>

\* The bundle is complete, but an earlier merge has failed in the meantime.
FinalSeesError ==
  /\ phase = "emit" /\ bundleError > 0
  /\ \E n \in chain : Accepted(n) /\ n >= base + BundleSize
  /\ bundleError' = bundleError - 1
  /\ enforce' = FALSE
  /\ RunReturns("error")
  /\ UNCHANGED <<chainVars, storeVars, forkdbVars, base, irreversible, seen,
                 walkVars, inProcess, job, boundVars, flowing, deletions>>

LeftoversOffByOne ==
  {f \in seen : /\ f.num =< base + BundleSize
                /\ ~(f.num \in irreversible /\ ~f.forked)}

\* forkedBlocksInCurrentBundle: what is left below the end of the bundle once
\* the final blocks are taken out.
Leftovers ==
  {f \in seen : /\ f.num < base + BundleSize
                /\ ~(f.num \in irreversible /\ ~f.forked)}

\* The bundle is complete and no error is pending: on to the lock.
FinalCompletes ==
  /\ phase = "emit" /\ bundleError = 0
  /\ \E n \in chain :
       /\ Accepted(n) /\ n >= base + BundleSize
       /\ flowing' = n
  /\ enforce' = FALSE
  /\ phase' = "lock"
  /\ UNCHANGED <<chainVars, storeVars, forkdbVars, base, irreversible, seen,
                 walkVars, mergeVars, endVars, boundVars, deletions>>

FlowDone ==
  /\ phase = "emit"
  /\ ~\E n \in chain : NextFinal(n)
  /\ phase' = "walk"
  /\ UNCHANGED <<chainVars, storeVars, forkdbVars, bundleVars, walkVars,
                 mergeVars, endVars, boundVars, flowing, deletions>>

\* inProcess is taken on behalf of the goroutine, which merges what was
\* collected; the last block is kept for the next bundle.
StartMerge ==
  /\ phase = "lock" /\ CanLock /\ irreversible # {}
  /\ inProcess' = "merge"
  /\ job' = [state |-> "write", base |-> base, blocks |-> irreversible,
             forks |-> Leftovers]
  /\ seen' = {f \in seen : f.num >= base + BundleSize
                             /\ ~(f.num \in irreversible /\ ~f.forked)}
  /\ \E last \in irreversible :
       /\ \A n \in irreversible : n =< last
       /\ irreversible' = {last, flowing}
  /\ base' = base + BundleSize
  /\ phase' = "skip"
  /\ UNCHANGED <<chainVars, storeVars, forkdbVars, enforce, walkVars,
                 bundleError, endVars, boundVars, flowing, deletions>>

\* irreversibleBlocks[len(irreversibleBlocks)-1] of an empty list.
EmptyBundlePanic ==
  /\ phase = "lock" /\ CanLock /\ irreversible = {}
  /\ GoDown("panic")
  /\ UNCHANGED <<chainVars, storeVars, boundVars>>

StoredOffByOne(b, blocks) ==
  [c \in DOMAIN merged \cup {b} |->
     IF c = b THEN {n \in blocks : n > b} ELSE merged[c]]

\* MergeAndStore keeps the blocks that are not below the bundle and writes
\* the file, over an earlier one if there is one.
Stored(b, blocks) ==
  [c \in DOMAIN merged \cup {b} |->
     IF c = b THEN {n \in blocks : n >= b} ELSE merged[c]]

SkipsNothing == FALSE

SkipsTooFar == flowing >= base

SkipsBundle == flowing > base + BundleSize

\* The bundle between the two blocks is empty: its file is written by the run
\* loop itself, from the last block of the previous bundle.
SkipStored ==
  /\ phase = "skip" /\ SkipsBundle /\ CanLock
  /\ merged' = Stored(base, irreversible \ {flowing})
  /\ base' = base + BundleSize
  /\ UNCHANGED <<chainVars, uploaded, oneBlocks, forkedBlocks, forkdbVars,
                 irreversible, seen, enforce, walkVars, mergeVars, endVars,
                 boundVars, phase, flowing, deletions>>

\* The write fails and ProcessBlock returns without unlocking.
SkipFails ==
  /\ phase = "skip" /\ SkipsBundle /\ CanLock
  /\ failures < MaxFailures /\ failures' = failures + 1
  /\ inProcess' = "leaked"
  /\ RunReturns("error")
  /\ UNCHANGED <<chainVars, storeVars, forkdbVars, bundleVars, walkVars, job,
                 bundleError, restarts, externals, shortened, flowing,
                 deletions>>

\* The rest of ProcessBlock: the stop block.
SkipDone ==
  /\ phase = "skip" /\ ~SkipsBundle
  /\ fLib' = flowing /\ flowing' = 0
  /\ IF StopBlock # 0 /\ base >= StopBlock
       THEN RunReturns("stop")
       ELSE phase' = "emit" /\ UNCHANGED endVars
  /\ UNCHANGED <<chainVars, storeVars, bundleVars, walkVars, mergeVars,
                 boundVars, fTarget, fBlocks, deletions>>

RunStep ==
  \/ PollTerminating \/ PollSame \/ PollReset \/ PollPanic
  \/ WalkFile \/ WalkDone
  \/ FinalRefused \/ FinalKept \/ FinalSeesError
  \/ FinalCompletes \/ FlowDone
  \/ StartMerge \/ EmptyBundlePanic \/ SkipStored \/ SkipFails \/ SkipDone

-----------------------------------------------------------------------------
(* The goroutine that merges a bundle.                                     *)

MergeStored ==
  /\ job.state = "write"
  /\ merged' = Stored(job.base, job.blocks)
  /\ job' = [job EXCEPT !.state = "move"]
  /\ UNCHANGED <<chainVars, uploaded, oneBlocks, forkedBlocks, forkdbVars,
                 bundleVars, walkVars, inProcess, bundleError, endVars,
                 boundVars, phase, flowing, deletions>>

\* The download of block cut fails and Read takes the closed channel of the
\* data before the error: WriteObject returns nil on the blocks before it.
\* The first of the blocks has given the header and is not downloaded again.
MergeCutShort ==
  /\ job.state = "write"
  /\ failures < MaxFailures /\ failures' = failures + 1
  /\ \E cut \in job.blocks :
       /\ cut >= job.base
       /\ \E first \in job.blocks : first < cut
       /\ merged' = Stored(job.base, {n \in job.blocks : n < cut})
  /\ shortened' = shortened \cup {job.base}
  /\ job' = [job EXCEPT !.state = "move"]
  /\ UNCHANGED <<chainVars, uploaded, oneBlocks, forkedBlocks, forkdbVars,
                 bundleVars, walkVars, inProcess, bundleError, endVars,
                 restarts, externals, phase, flowing, deletions>>

MergeFails ==
  /\ job.state = "write"
  /\ failures < MaxFailures /\ failures' = failures + 1
  /\ job' = [job EXCEPT !.state = "report"]
  /\ UNCHANGED <<chainVars, storeVars, forkdbVars, bundleVars, walkVars,
                 inProcess, bundleError, endVars, restarts, externals,
                 shortened, phase, flowing, deletions>>

CanReportAlways == TRUE

CanReport == bundleError < 1

\* The send on bundleError, which blocks when one is buffered; then Unlock.
MergeReports ==
  /\ job.state = "report" /\ CanReport
  /\ bundleError' = bundleError + 1
  /\ job' = NoJob /\ Unlock
  /\ UNCHANGED <<chainVars, storeVars, forkdbVars, bundleVars, walkVars,
                 endVars, boundVars, phase, flowing, deletions>>

CopyEnds(copied) == copied = job.forks \cap oneBlocks \/ failures < MaxFailures

\* MoveForkedBlocks: copy what can be copied, hand all of it to the deleter.
MoveForks(copied) ==
  /\ job.state = "move"
  /\ CopyEnds(copied)
  /\ failures' = IF copied = job.forks \cap oneBlocks
                   THEN failures ELSE failures + 1
  /\ forkedBlocks' = forkedBlocks \cup copied
  /\ deletions' = deletions \cup job.forks
  /\ job' = NoJob /\ Unlock
  /\ UNCHANGED <<chainVars, uploaded, oneBlocks, merged, forkdbVars,
                 bundleVars, walkVars, bundleError, endVars, restarts,
                 externals, shortened, phase, flowing>>

MergeStep ==
  \/ MergeStored \/ MergeCutShort \/ MergeFails \/ MergeReports
  \/ \E copied \in SUBSET (job.forks \cap oneBlocks) : MoveForks(copied)

-----------------------------------------------------------------------------
(* The pruners and the deleter.                                            *)

\* pruningTarget, from a BaseBlockNum that waits for inProcess.
PruningTarget(distance) == IF distance > base THEN 0 ELSE base - distance

Prunable == {f \in oneBlocks : /\ FirstStreamable =< f.num
                               /\ f.num < PruningTarget(BundleSize)}

PruneOldFiles ==
  /\ Up /\ CanLock
  /\ PruningTarget(BundleSize) # 0
  /\ ~Prunable \subseteq deletions
  /\ deletions' = deletions \cup Prunable
  /\ UNCHANGED <<chainVars, storeVars, forkdbVars, bundleVars, walkVars,
                 mergeVars, endVars, boundVars, phase, flowing>>

\* DeleteForkedBlocksAsync: the bound is inclusive.
PruneForkedBlocks ==
  LET old == {f \in forkedBlocks : f.num =< PruningTarget(PruningDistance)}
  IN  /\ Up /\ CanLock
      /\ old # {}
      /\ forkedBlocks' = forkedBlocks \ old
      /\ UNCHANGED <<chainVars, uploaded, oneBlocks, merged, forkdbVars,
                     bundleVars, walkVars, mergeVars, endVars, boundVars,
                     phase, flowing, deletions>>

\* processDeletions: a worker deletes a file, or finds it gone.
DeleteFile(f) ==
  /\ f \in deletions
  /\ deletions' = deletions \ {f}
  /\ oneBlocks' = oneBlocks \ {f}
  /\ UNCHANGED <<chainVars, uploaded, merged, forkedBlocks, forkdbVars,
                 bundleVars, walkVars, mergeVars, endVars, boundVars, phase,
                 flowing>>

-----------------------------------------------------------------------------
(* The end of the process, and its environment.                            *)

RequestShutdown ==
  /\ MayShutdown /\ Up /\ ~terminating
  /\ terminating' = TRUE /\ result' = "asked"
  /\ UNCHANGED <<chainVars, storeVars, forkdbVars, bundleVars, walkVars,
                 mergeVars, hooked, boundVars, phase, flowing, deletions>>

\* OnTerminating takes inProcess and releases it at once.  A run loop that has
\* not returned goes on, and may take it again for another merge.
OnTerminating ==
  /\ Up /\ terminating /\ ~hooked /\ CanLock
  /\ hooked' = TRUE
  /\ UNCHANGED <<chainVars, storeVars, forkdbVars, bundleVars, walkVars,
                 mergeVars, result, terminating, boundVars, phase, flowing,
                 deletions>>

\* The process dies some time after the callback, wherever it is.
Exit ==
  /\ Up /\ hooked
  /\ GoDown(result)
  /\ UNCHANGED <<chainVars, storeVars, boundVars>>

Crash ==
  /\ Up /\ restarts < MaxRestarts
  /\ GoDown("killed")
  /\ UNCHANGED <<chainVars, storeVars, boundVars>>

Restart ==
  /\ phase = "down" /\ restarts < MaxRestarts
  /\ restarts' = restarts + 1
  /\ phase' = "poll" /\ result' = "none"
  /\ UNCHANGED <<chainVars, storeVars, forkdbVars, bundleVars, walkVars,
                 mergeVars, terminating, hooked, failures, externals,
                 shortened, flowing, deletions>>

AllFiles == {File(n, FALSE) : n \in chain} \cup {File(n, TRUE) : n \in forks}

\* A reader uploads a file; files may arrive out of order, but not far.
Upload(f) ==
  /\ f \in AllFiles \ uploaded
  /\ \A m \in chain : m + Reorder < f.num => File(m, FALSE) \in uploaded
  /\ uploaded' = uploaded \cup {f}
  /\ oneBlocks' = oneBlocks \cup {f}
  /\ UNCHANGED <<chainVars, merged, forkedBlocks, forkdbVars, bundleVars,
                 walkVars, mergeVars, endVars, boundVars, phase, flowing,
                 deletions>>

\* Another merger that reprocesses the chain writes the bundle of height n.
ExternalMerge(n) ==
  LET b == toBaseNum(n)
  IN  /\ externals < MaxExternal /\ externals' = externals + 1
      /\ b \notin DOMAIN merged
      /\ \A m \in Bundle(b) : File(m, FALSE) \in uploaded
      /\ \E m \in chain : m >= b + BundleSize /\ File(m, FALSE) \in uploaded
      /\ merged' = Stored(b, Bundle(b))
      /\ UNCHANGED <<chainVars, uploaded, oneBlocks, forkedBlocks, forkdbVars,
                     bundleVars, walkVars, mergeVars, endVars, failures,
                     restarts, shortened, phase, flowing, deletions>>

Next ==
  \/ RunStep
  \/ MergeStep
  \/ PruneOldFiles \/ PruneForkedBlocks
  \/ \E f \in deletions : DeleteFile(f)
  \/ RequestShutdown \/ OnTerminating \/ Exit \/ Crash \/ Restart
  \/ \E f \in AllFiles : Upload(f)
  \/ \E n \in chain : ExternalMerge(n)

Spec == Init /\ [][Next]_vars

\* Go's scheduler runs every goroutine that can run; the stores answer; the
\* readers upload what they read; the orchestrator restarts the process.
Fairness ==
  /\ WF_vars(RunStep)
  /\ WF_vars(MergeStep)
  /\ WF_vars(OnTerminating)
  /\ WF_vars(Exit)
  /\ WF_vars(Restart)
  /\ WF_vars(\E f \in AllFiles : Upload(f))

FairSpec == Spec /\ Fairness

-----------------------------------------------------------------------------
(* Properties.                                                             *)

Phases == {"down", "poll", "walk", "emit", "lock", "skip", "returned"}

Results == {"none", "asked", "stop", "error", "panic", "killed"}

Jobs == [state  : {"idle", "write", "move", "report"},
         base   : Nat,
         blocks : SUBSET Nat,
         forks  : SUBSET Files]

\* Every variable has its type.
TypeOK ==
  /\ chain \in Chains /\ forks \in ForkChoices
  /\ uploaded \subseteq Files /\ oneBlocks \subseteq Files
  /\ forkedBlocks \subseteq Files
  /\ DOMAIN merged \subseteq Nat
  /\ merged \in [DOMAIN merged -> SUBSET Nat]
  /\ phase \in Phases /\ result \in Results
  /\ terminating \in BOOLEAN /\ hooked \in BOOLEAN
  /\ base \in Nat /\ irreversible \subseteq Nat
  /\ seen \subseteq Files /\ enforce \in BOOLEAN
  /\ fLib \in Nat \cup {NoLib} /\ fTarget \in Nat \cup {NoLib}
  /\ fBlocks \subseteq Nat
  /\ cursor \in Nat /\ attempts \in Nat /\ flowing \in Nat
  /\ inProcess \in {"free", "merge", "leaked"}
  /\ job \in Jobs /\ bundleError \in {0, 1}
  /\ deletions \subseteq Files
  /\ failures \in Nat /\ restarts \in Nat /\ externals \in Nat
  /\ shortened \subseteq Nat

Archived(n) == \E b \in DOMAIN merged : n \in merged[b]

\* Whatever fails, crashes, arrives late or is written by others, a merged
\* file holds only blocks of the final chain, from its base to the next one,
\* in a row from the first of its range: none is missing between two others,
\* and none at the end unless a download was lost while it was written.
BundleComplete ==
  \A b \in DOMAIN merged :
    /\ merged[b] \subseteq chain
    /\ \A n \in merged[b] : b =< n /\ n =< b + BundleSize
    /\ \A n \in merged[b] : \A m \in Bundle(b) : m < n => m \in merged[b]
    /\ b \notin shortened => Bundle(b) \subseteq merged[b]

\* The forkable never flows a block that belongs to a bundle already left: the
\* base never runs ahead of the LIB, over resets, retries and restarts.
NothingBelowBase ==
  phase = "emit" => \A n \in chain : NextFinal(n) => n >= base

\* The comment of BaseBlockNum: while inProcess is locked by the caller, all
\* blocks below the base are actually merged.  The pruners rely on it.
BaseIsMerged ==
  Up /\ inProcess = "free" => \A n \in chain : n < base => Archived(n)

\* The one-block file of a final block leaves the store only once the block
\* is in a merged file, or was lost at the end of one that was cut short: the
\* pruner and the mover lose no block.
PrunedIsMerged ==
  \A n \in chain :
    File(n, FALSE) \in uploaded \ oneBlocks =>
      Archived(n) \/ toBaseNum(n) \in shortened

\* A process that its stop block ended has merged every final block below it:
\* the shutdown waits for the merge that is running.  One that was asked to
\* shut down before it came to its stop block promises nothing.
StopMeansMerged ==
  phase = "down" /\ result = "stop" =>
    \A n \in chain : n < StopBlock => Archived(n)

\* The forked store, and what the mover takes out of the one-block store,
\* never hold a block of the final chain.
ForkedStoreOnlyForks == \A f \in forkedBlocks : f.forked

\* NextBundle finds the last block of the bundle it restarts from, and the
\* bundler a last block to keep: the run loop only panics on a file from which
\* a lost download has cut every block.
NoPanic == result = "panic" => \E b \in shortened : merged[b] = {}

\* A shutdown, asked for or caused by an error of run, comes to its end.
ShutdownCompletes == terminating ~> ~Up

\* A block of the chain whose range is followed by a final block.
Settled(n) ==
  /\ n \in chain
  /\ \E m, h \in chain : /\ m >= toBaseNum(n) + BundleSize
                         /\ h - FinalityDepth >= m

\* Every settled block ends up in a merged file, through crashes.
ChainGetsMerged == \A n \in UNION Chains : Settled(n) ~> Archived(n)

\* The merger implements the archive that its stores promise, as long as no
\* store write fails and no block follows an empty range on its boundary.
Archive ==
  INSTANCE MergedArchive WITH
    received <- {n \in chain : File(n, FALSE) \in uploaded},
    files    <- {n \in chain : File(n, FALSE) \in oneBlocks},
    archive  <- merged

ArchiveSpec == Archive!Spec

=============================================================================
