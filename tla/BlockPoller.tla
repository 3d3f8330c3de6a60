---------------------------- MODULE BlockPoller -----------------------------
(***************************************************************************)
(* The block poller (blockpoller/poller.go, state_file.go, cursor.go): it  *)
(* polls a node by height, links what it gets in a forkdb, and prints the  *)
(* blocks of a segment that reaches the LIB, parents first, over reorgs of *)
(* the node, restarts and an unreliable state file.                        *)
(*                                                                         *)
(* Threads: the loop of run, with the goroutine of requestBlock it waits   *)
(* for; the loaders (loadNextBlocks) that goroutine starts, which fetch a  *)
(* batch of heights optimistically; and the shutdown.  They share the map  *)
(* of polled blocks and the flag fetching, which no lock protects.         *)
(*                                                                         *)
(* The node and the forkdb of the bstream library are external.            *)
(***************************************************************************)
EXTENDS Integers, FiniteSets

CONSTANTS
  Blocks,         \* the blocks of all branches
  NoBlock,        \* no block
  Number,         \* Blocks -> height
  Parent,         \* Blocks -> the parent, NoBlock for the root
  StartNum,       \* start block of Run, and the gate below which none is fired
  BatchSize,      \* blockFetchBatchSize
  MaxReorg,       \* how many heights a reorg of the node may undo
  NodeFinality,   \* distance of the LIB that the node's blocks carry
  ForceFinality,  \* FORCE_FINALITY_AFTER_BLOCKS
  IgnoreCursor,   \* option of the poller
  MayShutdown,    \* whether the operator may ask for a shutdown
  FirstHeads,     \* heads of the node when the poller first starts
  Loaders,        \* bound on loaders at the same time
  MaxMoves,       \* bound on moves of the node's head
  MaxFailures,    \* bound on failing fetches and handlers
  MaxRestarts     \* bound on restarts of the process

ASSUME TreeAssumption ==
  /\ NoBlock \notin Blocks
  /\ Number \in [Blocks -> Nat] /\ Parent \in [Blocks -> Blocks \cup {NoBlock}]
  /\ \A b \in Blocks : Parent[b] # NoBlock => Number[Parent[b]] < Number[b]
  /\ FirstHeads \subseteq Blocks

ASSUME PollerAssumption ==
  /\ StartNum \in Nat /\ BatchSize \in Nat \ {0}
  /\ MaxReorg \in Nat /\ NodeFinality \in Nat /\ ForceFinality \in Nat
  /\ MaxReorg =< NodeFinality /\ MaxReorg =< ForceFinality
  /\ IgnoreCursor \in BOOLEAN /\ MayShutdown \in BOOLEAN
  /\ MaxMoves \in Nat /\ MaxFailures \in Nat /\ MaxRestarts \in Nat

VARIABLES
  head, settled,     \* the node: its head, the block no reorg undoes any more
  stateFile,         \* cursor.json
  out,               \* the blocks ever printed
  printed,           \* those printed, or known as printed, by this process
  phase,             \* where run is
  terminating,
  target,            \* blockToFetch
  fetched,           \* the block to process and its LibNum
  links,             \* forkDB: the blocks linked,
  lib,               \*   its LIB,
  fired,             \*   the blocks whose object is marked as fired,
  restored,          \*   and those whose object comes from the state file
  segState,          \* cursor.state
  incomplete,        \* cursor.currentIncompleteSeg
  segment,           \* the segment being fired
  polled,            \* optimisticallyPolledBlocks
  fetching,
  loaders,           \* the goroutines of loadNextBlocks
  moves, failures, restarts

nodeVars   == <<head, settled, moves>>
forkdbVars == <<links, lib, fired, restored>>
cursorVars == <<segState, incomplete>>
pollVars   == <<polled, fetching, loaders>>
boundVars  == <<failures, restarts>>

vars == <<nodeVars, stateFile, out, printed, phase, terminating, target,
          fetched, forkdbVars, cursorVars, segment, pollVars, boundVars>>

Skip == "skip"

Idle == [stage |-> "idle", from |-> 0, todo |-> {}, got |-> [n \in {} |-> Skip]]

NoFile == [kind |-> "none", lib |-> NoBlock, last |-> NoBlock, blocks |-> {}]

BadFile == [NoFile EXCEPT !.kind = "bad"]

-----------------------------------------------------------------------------
(* The tree of blocks and the node.                                        *)

Ancestry[b \in Blocks] ==
  {b} \cup (IF Parent[b] = NoBlock THEN {} ELSE Ancestry[Parent[b]])

\* The highest block of a set that lies on one branch.
Highest(s) == CHOOSE b \in s : \A c \in s : Number[c] =< Number[b]

Lowest(s) == CHOOSE b \in s : \A c \in s : Number[b] =< Number[c]

\* The last block of the branch of b at least d heights below it, or its root.
Behind(b, d) ==
  LET old == {a \in Ancestry[b] : Number[a] + d =< Number[b]}
  IN  IF old = {} THEN Lowest(Ancestry[b]) ELSE Highest(old)

Available(n) == n =< Number[head]

\* What the node answers at an available height: a block, or that it is skipped.
Answer(n) ==
  LET at == {b \in Ancestry[head] : Number[b] = n}
  IN  IF at = {} THEN Skip ELSE CHOOSE b \in at : TRUE

\* The node grows or changes branch, above what is settled.
MoveHead(b) ==
  /\ moves < MaxMoves /\ moves' = moves + 1
  /\ b # head /\ settled \in Ancestry[b]
  /\ head' = b
  /\ settled' = Highest({settled, Behind(b, MaxReorg)})
  /\ UNCHANGED <<stateFile, out, printed, phase, terminating, target, fetched,
                 forkdbVars, cursorVars, segment, pollVars, boundVars>>

\* The LIB that the node's blocks carry, and the one forced on a block.
LibNumOf(b) == Number[Behind(b, NodeFinality)]

TweakBlockFinality(b) ==
  IF Number[b] >= ForceFinality /\ Number[b] - LibNumOf(b) >= ForceFinality
    THEN Number[b] - ForceFinality
    ELSE LibNumOf(b)

-----------------------------------------------------------------------------
(* The forkdb.                                                             *)

\* The blocks of the branch of b that follow each other in the forkdb.
Chain(b, known) ==
  {a \in known \cap Ancestry[b] :
     \A c \in Ancestry[b] : Number[c] >= Number[a] => c \in known}

\* CompleteSegment: the blocks down to the LIB, and whether it is reached.
ReachesLib(b, known) ==
  /\ lib \in Ancestry[b]
  /\ \A c \in Ancestry[b] : Number[c] > Number[lib] => c \in known

CompleteSegment(b, known) == {a \in Chain(b, known) : Number[a] >= Number[lib]}

\* SetLIB: the block at that height on the branch of b; when there is none the
\* LIB stays, or goes to the block above.
LibChoices(b, n) ==
  LET line == Chain(b, links) \cup ({lib} \cap Ancestry[b])
      at   == {a \in line : Number[a] = n}
      up   == {a \in line : Number[a] > n}
  IN  IF at # {} THEN at ELSE {lib} \cup (IF up = {} THEN {} ELSE {Lowest(up)})

-----------------------------------------------------------------------------
(* Run and the state file.                                                 *)

ProcessInit ==
  /\ printed = {} /\ terminating = FALSE /\ target = StartNum
  /\ fetched = [blk |-> NoBlock, lib |-> 0]
  /\ links = {} /\ lib = NoBlock /\ fired = {} /\ restored = {}
  /\ segState = "CONTINUOUS" /\ incomplete = NoBlock /\ segment = {}
  /\ polled = [n \in {} |-> Skip] /\ fetching = FALSE
  /\ loaders = [l \in Loaders |-> Idle]

Init ==
  /\ head \in FirstHeads /\ settled = Behind(head, MaxReorg) /\ moves = 0
  /\ stateFile = NoFile /\ out = {}
  /\ phase = "resolve"
  /\ ProcessInit
  /\ failures = 0 /\ restarts = 0

\* Run: the first block at or above the start block.
ResolveSkip ==
  /\ phase = "resolve" /\ Available(target) /\ Answer(target) = Skip
  /\ target' = target + 1
  /\ UNCHANGED <<nodeVars, stateFile, out, printed, phase, terminating,
                 fetched, forkdbVars, cursorVars, segment, pollVars, boundVars>>

\* A state file that is missing or cannot be decoded is ignored.
RestoresState == stateFile.kind = "good" /\ ~IgnoreCursor

\* initState.
ResolveStart ==
  /\ phase = "resolve" /\ Available(target) /\ Answer(target) # Skip
  /\ IF RestoresState
       THEN /\ lib' = stateFile.lib
            /\ links' = stateFile.blocks /\ fired' = stateFile.blocks
            /\ restored' = stateFile.blocks /\ printed' = stateFile.blocks
            /\ target' = Number[stateFile.last]
       ELSE /\ lib' = Answer(target)
            /\ UNCHANGED <<links, fired, restored, printed, target>>
  /\ phase' = "request"
  /\ UNCHANGED <<nodeVars, stateFile, out, terminating, fetched, cursorVars,
                 segment, pollVars, boundVars>>

\* The fetch of the start block is not retried.
ResolveFails ==
  /\ phase = "resolve"
  /\ failures < MaxFailures /\ failures' = failures + 1
  /\ phase' = "returned"
  /\ UNCHANGED <<nodeVars, stateFile, out, printed, terminating, target,
                 fetched, forkdbVars, cursorVars, segment, pollVars, restarts>>

-----------------------------------------------------------------------------
(* requestBlock and loadNextBlocks.                                        *)

MissesForever ==
  /\ phase = "request" /\ target \notin DOMAIN polled
  /\ phase' = "missed"
  /\ UNCHANGED <<nodeVars, stateFile, out, printed, terminating, target,
                 fetched, forkdbVars, cursorVars, segment, pollVars, boundVars>>

RequestMiss ==
  /\ phase = "request" /\ ~terminating /\ target \notin DOMAIN polled
  /\ phase' = "missed"
  /\ UNCHANGED <<nodeVars, stateFile, out, printed, terminating, target,
                 fetched, forkdbVars, cursorVars, segment, pollVars, boundVars>>

\* The flag is read after the map, without the lock, and the loader sets it
\* itself: several may start, for a block that has come in between.
SpawnLoader(l) ==
  /\ phase = "missed" /\ ~fetching /\ loaders[l].stage = "idle"
  /\ loaders' = [loaders EXCEPT ![l] = [Idle EXCEPT !.stage = "start", !.from = target]]
  /\ phase' = "request"
  /\ UNCHANGED <<nodeVars, stateFile, out, printed, terminating, target,
                 fetched, forkdbVars, cursorVars, segment, polled, fetching,
                 boundVars>>

\* Somebody is fetching, or the bound on loaders is reached: look again later.
LookAgain ==
  /\ phase = "missed"
  /\ fetching \/ \A l \in Loaders : loaders[l].stage # "idle"
  /\ phase' = "request"
  /\ UNCHANGED <<nodeVars, stateFile, out, printed, terminating, target,
                 fetched, forkdbVars, cursorVars, segment, pollVars, boundVars>>

RequestHit ==
  /\ phase = "request" /\ ~terminating /\ target \in DOMAIN polled
  /\ IF polled[target] = Skip
       THEN target' = target + 1 /\ UNCHANGED <<fetched, phase>>
       ELSE /\ fetched' = [blk |-> polled[target], lib |-> LibNumOf(polled[target])]
            /\ phase' = "process" /\ UNCHANGED target
  /\ UNCHANGED <<nodeVars, stateFile, out, printed, terminating, forkdbVars,
                 cursorVars, segment, pollVars, boundVars>>

\* The channel is closed and run returns without an error.
RequestQuits ==
  /\ phase = "request" /\ terminating
  /\ phase' = "returned"
  /\ UNCHANGED <<nodeVars, stateFile, out, printed, terminating, target,
                 fetched, forkdbVars, cursorVars, segment, pollVars, boundVars>>

\* A new map, and one height after the other as long as it is available; the
\* requested height in any case.
LoaderStart(l) ==
  /\ loaders[l].stage = "start"
  /\ polled' = [n \in {} |-> Skip]
  /\ fetching' = TRUE
  /\ LET n == loaders[l].from
         batch == {m \in n .. (n + BatchSize - 1) : Available(m)}
     IN  loaders' = [loaders EXCEPT ![l].stage = "load", ![l].todo = batch \cup {n}]
  /\ UNCHANGED <<nodeVars, stateFile, out, printed, phase, terminating, target,
                 fetched, forkdbVars, cursorVars, segment, boundVars>>

LoaderFetch(l, n) ==
  /\ loaders[l].stage = "load"
  /\ n \in loaders[l].todo \ DOMAIN loaders[l].got
  /\ Available(n)
  /\ loaders' = [loaders EXCEPT ![l].got =
                   [m \in DOMAIN @ \cup {n} |-> IF m = n THEN Answer(n) ELSE @[m]]]
  /\ UNCHANGED <<nodeVars, stateFile, out, printed, phase, terminating, target,
                 fetched, forkdbVars, cursorVars, segment, polled, fetching,
                 boundVars>>

\* Into the map of the moment, which may not be the one the loader made.
LoaderDeliver(l, n) ==
  /\ n \in loaders[l].todo \cap DOMAIN loaders[l].got
  /\ polled' = [m \in DOMAIN polled \cup {n} |->
                  IF m = n THEN loaders[l].got[n] ELSE polled[m]]
  /\ loaders' = [loaders EXCEPT ![l].todo = @ \ {n}]
  /\ UNCHANGED <<nodeVars, stateFile, out, printed, phase, terminating, target,
                 fetched, forkdbVars, cursorVars, segment, fetching, boundVars>>

LoaderStaysFetching(l) ==
  /\ loaders[l].stage = "load" /\ loaders[l].todo = {}
  /\ loaders' = [loaders EXCEPT ![l] = Idle]
  /\ UNCHANGED <<nodeVars, stateFile, out, printed, phase, terminating, target,
                 fetched, forkdbVars, cursorVars, segment, polled, fetching,
                 boundVars>>

LoaderDone(l) ==
  /\ loaders[l].stage = "load" /\ loaders[l].todo = {}
  /\ fetching' = FALSE
  /\ loaders' = [loaders EXCEPT ![l] = Idle]
  /\ UNCHANGED <<nodeVars, stateFile, out, printed, phase, terminating, target,
                 fetched, forkdbVars, cursorVars, segment, polled, boundVars>>

\* The retries are exhausted: the loader shuts the poller down.
LoaderFails(l) ==
  /\ loaders[l].stage = "load" /\ loaders[l].todo # {}
  /\ failures < MaxFailures /\ failures' = failures + 1
  /\ fetching' = FALSE /\ terminating' = TRUE
  /\ loaders' = [loaders EXCEPT ![l] = Idle]
  /\ UNCHANGED <<nodeVars, stateFile, out, printed, phase, target, fetched,
                 forkdbVars, cursorVars, segment, polled, restarts>>

LoaderStep(l) ==
  \/ LoaderStart(l)
  \/ \E n \in loaders[l].todo : LoaderFetch(l, n) \/ LoaderDeliver(l, n)
  \/ LoaderDone(l)

-----------------------------------------------------------------------------
(* processBlock.                                                           *)

\* "There should be no re-org above the current LIB num": the code panics.
BelowLib == Number[fetched.blk] < Number[lib]

\* cursor.addBlk and getBlkSegmentNum: an incomplete segment is looked at from
\* its top until a block comes that is known and whose parent is known.
ResumesSegment ==
  /\ segState = "INCOMPLETE"
  /\ ~(fetched.blk \in links /\ Parent[fetched.blk] \in links)

SegmentNum == IF ResumesSegment THEN incomplete ELSE fetched.blk

FiresUnlinked ==
  /\ phase = "process" /\ ~BelowLib
  /\ links' = links \cup {fetched.blk}
  /\ segment' = CompleteSegment(SegmentNum, links')
  /\ phase' = "fire"
  /\ segState' = "CONTINUOUS" /\ incomplete' = NoBlock
  /\ UNCHANGED <<nodeVars, stateFile, out, printed, terminating, target, polled,
                 fetched, lib, fired, restored, fetching, loaders, boundVars>>

\* AddLink, addBlk and CompleteSegment; then either the segment is fired, or
\* the block below it is fetched next, by its number only.
AddBlock ==
  /\ phase = "process" /\ ~BelowLib
  /\ LET known == links \cup {fetched.blk}
         top == SegmentNum
     IN  \/ /\ ReachesLib(top, known)
            /\ links' = known /\ segment' = CompleteSegment(top, known)
            /\ phase' = "fire"
            /\ segState' = "CONTINUOUS" /\ incomplete' = NoBlock
            /\ UNCHANGED <<target, polled>>
         \/ /\ ~ReachesLib(top, known)
            /\ links' = known
            /\ LET low == Lowest(Chain(top, known))
               IN  target' = IF low \in restored \/ Parent[low] = NoBlock
                               THEN 0 ELSE Number[Parent[low]]
            /\ phase' = "hash" /\ polled' = [n \in {} |-> Skip]
            /\ segState' = "INCOMPLETE"
            /\ incomplete' = top
            /\ UNCHANGED segment
  /\ UNCHANGED <<nodeVars, stateFile, out, printed, terminating, fetched, lib,
                 fired, restored, fetching, loaders, boundVars>>

\* fetchBlockWithHash: the hash is not used.
HashFetched ==
  /\ phase = "hash" /\ Available(target) /\ Answer(target) # Skip
  /\ fetched' = [blk |-> Answer(target), lib |-> TweakBlockFinality(Answer(target))]
  /\ phase' = "process"
  /\ UNCHANGED <<nodeVars, stateFile, out, printed, terminating, target,
                 forkdbVars, cursorVars, segment, pollVars, boundVars>>

\* The height is skipped, or the retries are exhausted: run returns an error.
HashFails ==
  /\ phase = "hash"
  /\ \/ Available(target) /\ Answer(target) = Skip /\ UNCHANGED failures
     \/ failures < MaxFailures /\ failures' = failures + 1
  /\ phase' = "returned"
  /\ UNCHANGED <<nodeVars, stateFile, out, printed, terminating, target,
                 fetched, forkdbVars, cursorVars, segment, pollVars, restarts>>

FiresAgain == {b \in segment : Number[b] >= StartNum}

\* What fireCompleteSegment still has to print.
ToFire == {b \in segment \ fired : Number[b] >= StartNum}

\* fire: the lowest one first.
FireBlock ==
  /\ phase = "fire" /\ ToFire # {}
  /\ LET b == Lowest(ToFire)
     IN  /\ fired' = fired \cup {b}
         /\ printed' = printed \cup {b} /\ out' = out \cup {b}
  /\ UNCHANGED <<nodeVars, stateFile, phase, terminating, target, fetched,
                 links, lib, restored, cursorVars, segment, pollVars, boundVars>>

\* The handler refuses a block: run returns its error.
FireFails ==
  /\ phase = "fire" /\ ToFire # {}
  /\ failures < MaxFailures /\ failures' = failures + 1
  /\ phase' = "returned"
  /\ UNCHANGED <<nodeVars, stateFile, out, printed, terminating, target,
                 fetched, forkdbVars, cursorVars, segment, pollVars, restarts>>

\* SetLIB and PurgeBeforeLIB, once the whole segment is printed.
FireDone ==
  /\ phase = "fire" /\ ToFire = {}
  /\ lib' \in LibChoices(fetched.blk, fetched.lib)
  /\ links' = {b \in links : Number[b] >= Number[lib']}
  /\ fired' = fired \cap links' /\ restored' = restored \cap links'
  /\ phase' = "save"
  /\ UNCHANGED <<nodeVars, stateFile, out, printed, terminating, target,
                 fetched, cursorVars, segment, pollVars, boundVars>>

\* saveState, then the height above the segment.
SaveState ==
  /\ phase = "save"
  /\ stateFile' = [kind |-> "good", lib |-> lib, last |-> Highest(segment),
                   blocks |-> segment]
  /\ target' = Number[Highest(segment)] + 1
  /\ phase' = "request" /\ segment' = {}
  /\ UNCHANGED <<nodeVars, out, printed, terminating, fetched, forkdbVars,
                 cursorVars, pollVars, boundVars>>

RunStep ==
  \/ ResolveSkip \/ ResolveStart
  \/ RequestMiss \/ \E l \in Loaders : SpawnLoader(l)
  \/ LookAgain \/ RequestHit \/ RequestQuits
  \/ AddBlock \/ HashFetched
  \/ FireBlock \/ FireDone \/ SaveState

Failure ==
  \/ ResolveFails \/ HashFails \/ FireFails
  \/ \E l \in Loaders : LoaderFails(l)

-----------------------------------------------------------------------------
(* The end of the process.                                                 *)

Running == phase \notin {"returned", "down"}

RequestShutdown ==
  /\ MayShutdown /\ Running /\ ~terminating
  /\ terminating' = TRUE
  /\ UNCHANGED <<nodeVars, stateFile, out, printed, phase, target, fetched,
                 forkdbVars, cursorVars, segment, pollVars, boundVars>>

\* The process is killed; in the middle of os.WriteFile the file is cut.
Crash ==
  /\ Running /\ restarts < MaxRestarts
  /\ phase' = "down"
  /\ stateFile' \in IF phase = "save" THEN {stateFile, BadFile} ELSE {stateFile}
  /\ UNCHANGED <<nodeVars, out, printed, terminating, target, fetched,
                 forkdbVars, cursorVars, segment, pollVars, boundVars>>

Restart ==
  /\ ~Running /\ restarts < MaxRestarts
  /\ restarts' = restarts + 1
  /\ phase' = "resolve"
  /\ printed' = {} /\ terminating' = FALSE /\ target' = StartNum
  /\ fetched' = [blk |-> NoBlock, lib |-> 0]
  /\ links' = {} /\ lib' = NoBlock /\ fired' = {} /\ restored' = {}
  /\ segState' = "CONTINUOUS" /\ incomplete' = NoBlock /\ segment' = {}
  /\ polled' = [n \in {} |-> Skip] /\ fetching' = FALSE
  /\ loaders' = [l \in Loaders |-> Idle]
  /\ UNCHANGED <<nodeVars, stateFile, out, failures>>

Next ==
  \/ RunStep
  \/ \E l \in Loaders : Running /\ LoaderStep(l)
  \/ Running /\ Failure
  \/ \E b \in Blocks : MoveHead(b)
  \/ RequestShutdown \/ Crash \/ Restart

Spec == Init /\ [][Next]_vars

\* Every goroutine that can run does; fetches end; the process is restarted.
\* The request goroutine looks every 100 ms and a map is replaced only after it
\* looked in vain, so it does not miss every moment the block is there.
Fairness ==
  /\ WF_vars(RunStep) /\ SF_vars(RequestHit)
  /\ \A l \in Loaders : WF_vars(Running /\ LoaderStep(l))
  /\ WF_vars(HashFails) /\ WF_vars(Restart)

FairSpec == Spec /\ Fairness

-----------------------------------------------------------------------------
(* Properties.                                                             *)

Phases == {"resolve", "request", "process", "hash", "fire", "save",
           "missed", "returned", "down"}

\* Every variable has its type.
TypeOK ==
  /\ head \in Blocks /\ settled \in Blocks
  /\ stateFile.kind \in {"none", "bad", "good"} /\ stateFile.blocks \subseteq Blocks
  /\ out \subseteq Blocks /\ printed \subseteq Blocks
  /\ phase \in Phases /\ terminating \in BOOLEAN /\ target \in Nat
  /\ fetched.blk \in Blocks \cup {NoBlock} /\ fetched.lib \in Nat
  /\ links \subseteq Blocks /\ lib \in Blocks \cup {NoBlock}
  /\ fired \subseteq links /\ restored \subseteq links
  /\ segState \in {"CONTINUOUS", "INCOMPLETE"}
  /\ incomplete \in Blocks \cup {NoBlock} /\ segment \subseteq Blocks
  /\ DOMAIN polled \subseteq Nat
  /\ \A n \in DOMAIN polled : polled[n] \in Blocks \cup {Skip}
  /\ fetching \in BOOLEAN
  /\ \A l \in Loaders : loaders[l].stage \in {"idle", "start", "load"}

\* A block is printed after its parent, by this process or by the one whose
\* state it restored, whatever branch the node was on when each height was
\* fetched: the stream has no hole above the block it starts from, which is the
\* first LIB, and which a reorg may keep from being printed itself.
ParentFirst ==
  [][\A b \in printed' \ printed :
       phase = "fire" =>
         \/ Parent[b] = NoBlock \/ Parent[b] \in printed
         \/ Number[Parent[b]] < StartNum
         \/ lib \in {b, Parent[b]} /\ \A c \in printed : Number[lib] < Number[c]]_vars

\* A process never prints a block twice: the forkdb remembers what was fired
\* as long as the block can come back.
PrintedOnce == phase = "fire" /\ ToFire # {} => Lowest(ToFire) \notin printed

\* No block comes from below the LIB, which the panic of processBlock takes for
\* granted.  A reorg in the middle of a batch breaks it, on a branch that skips
\* more heights than the finality.
NeverBelowLib == phase = "process" => ~BelowLib

\* The node ends up on the highest block of all.
Tip == {b \in Blocks : \A c \in Blocks \ {b} : Number[c] < Number[b]}

\* The block the node settles on gets printed by a process that keeps running,
\* whatever stale blocks the loader had polled before.
FollowsHead == <>[](head \in Tip /\ Running) => <>(Tip \subseteq out)

\* A shutdown ends the process, in the middle of a reorg too, unless the node
\* stays below a height it had before: the fetch of run waits for that height
\* and does not look at the shutdown.
ShutdownCompletes == <>[](head \in Tip) => (terminating ~> ~Running)

=============================================================================
