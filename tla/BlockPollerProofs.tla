------------------------- MODULE BlockPollerProofs --------------------------
(***************************************************************************)
(* Proofs about the block poller, for every tree of blocks, every start    *)
(* block and finality, and any number of loaders, reorgs of the node,      *)
(* failures and restarts.                                                  *)
(***************************************************************************)
EXTENDS BlockPoller, WellFoundedInduction, TLAPS

-----------------------------------------------------------------------------
(* The tree of blocks.                                                     *)

NatLess == {ss \in Nat \X Nat : ss[1] < ss[2]}

\* Every set of blocks has one of least height.  A property of every block is
\* proved from it: a counterexample of least height is not one.
LEMMA LeastBlock ==
  ASSUME NEW S \in SUBSET Blocks, S # {}
  PROVE  \E b \in S : \A c \in S : Number[b] =< Number[c]
<1>1. IsWellFoundedOn(NatLess, Nat)
  BY NatLessThanWellFounded DEF OpToRel, NatLess
<1>. DEFINE T == {Number[b] : b \in S}
<1>2. T \in SUBSET Nat /\ T # {}
  BY TreeAssumption
<1>3. PICK n \in T : \A m \in T : ~(<<m, n>> \in NatLess)
  <2>. HIDE DEF T
  <2>. QED BY <1>1, <1>2, WFMin
<1>4. \A m \in T : n =< m
  <2>1. ASSUME NEW m \in T PROVE n =< m
    <3>. HIDE DEF T
    <3>1. m \in Nat /\ n \in Nat
      BY <1>2
    <3>2. m < n => <<m, n>> \in NatLess
      BY <3>1 DEF NatLess
    <3>. QED BY <1>3, <3>1, <3>2
  <2>. QED BY <2>1
<1>. QED BY <1>4

\* The lowest of a set of blocks is one of them, and no other is below it.
LEMMA LowestIs ==
  ASSUME NEW S \in SUBSET Blocks, S # {}
  PROVE  Lowest(S) \in S /\ \A c \in S : Number[Lowest(S)] =< Number[c]
BY LeastBlock DEF Lowest

\* A set of blocks that holds the parents of its blocks.
Closed(S) ==
  S \subseteq Blocks /\ \A x \in S : Parent[x] # NoBlock => Parent[x] \in S

\* The recursive definition of Ancestry has a solution: what every closed set
\* that holds b holds as well.
LEMMA AncestryEquation ==
  \A b \in Blocks : Ancestry[b] =
    {b} \cup (IF Parent[b] = NoBlock THEN {} ELSE Ancestry[Parent[b]])
<1>. DEFINE F(f) == [b \in Blocks |->
                      {b} \cup (IF Parent[b] = NoBlock THEN {} ELSE f[Parent[b]])]
            Anc(b) == {a \in Blocks : \A S \in SUBSET Blocks : Closed(S) /\ b \in S => a \in S}
            g == [b \in Blocks |-> Anc(b)]
<1>0. \A b \in Blocks : Parent[b] \in Blocks \cup {NoBlock}
  BY TreeAssumption
<1>1. ASSUME NEW b \in Blocks
      PROVE  Anc(b) = {b} \cup (IF Parent[b] = NoBlock THEN {} ELSE Anc(Parent[b]))
  <2>. DEFINE S0 == {b} \cup (IF Parent[b] = NoBlock THEN {} ELSE Anc(Parent[b]))
  <2>1. Parent[b] \in Blocks \cup {NoBlock}
    BY TreeAssumption
  <2>2. S0 \subseteq Anc(b)
    BY <2>1 DEF Closed
  <2>3. Closed(S0) /\ b \in S0 /\ S0 \in SUBSET Blocks
    <3>1. S0 \subseteq Blocks /\ b \in S0
      OBVIOUS
    <3>2. ASSUME NEW x \in S0, Parent[x] # NoBlock PROVE Parent[x] \in S0
      <4>1. CASE x = b
        BY <2>1, <3>2, <4>1
      <4>2. CASE x # b
        <5>1. Parent[b] # NoBlock /\ x \in Anc(Parent[b])
          BY <4>2
        <5>2. Parent[x] \in Anc(Parent[b])
          BY <3>2, <5>1, <1>0 DEF Closed
        <5>. QED BY <5>1, <5>2
      <4>. QED BY <4>1, <4>2
    <3>. QED BY <3>1, <3>2 DEF Closed
  <2>4. Anc(b) \subseteq S0
    BY <2>3
  <2>. QED BY <2>2, <2>4
<1>3. g = F(g)
  <2>1. ASSUME NEW b \in Blocks
        PROVE  g[b] = {b} \cup (IF Parent[b] = NoBlock THEN {} ELSE g[Parent[b]])
    BY <1>0, <1>1
  <2>. HIDE DEF Anc
  <2>. QED BY <2>1
<1>. HIDE DEF Anc, g
<1>4. Ancestry = CHOOSE f : f = F(f)
  BY DEF Ancestry
<1>5. \E f : f = F(f)
  BY <1>3
<1>6. Ancestry = F(Ancestry)
  BY <1>4, <1>5
<1>. QED BY <1>6


\* A block is on its own branch, and the rest of the branch is lower than it.
LEMMA AncestryType ==
  ASSUME NEW b \in Blocks
  PROVE  /\ b \in Ancestry[b] /\ Ancestry[b] \subseteq Blocks
         /\ \A a \in Ancestry[b] : a = b \/ Number[a] < Number[b]
         /\ Parent[b] # NoBlock => Parent[b] \in Ancestry[b]
<1>. USE TreeAssumption
<1>. DEFINE P(x) == /\ Ancestry[x] \subseteq Blocks
                    /\ \A a \in Ancestry[x] : a = x \/ Number[a] < Number[x]
            S == {x \in Blocks : ~P(x)}
<1>1. ASSUME NEW x \in Blocks, \A y \in Blocks : Number[y] < Number[x] => P(y)
      PROVE  P(x)
  <2>1. CASE Parent[x] = NoBlock
    <3>1. Ancestry[x] = {x}
      BY <2>1, AncestryEquation
    <3>. QED BY <3>1
  <2>2. CASE Parent[x] # NoBlock
    <3>1. /\ Parent[x] \in Blocks /\ Number[Parent[x]] < Number[x]
          /\ Ancestry[x] = {x} \cup Ancestry[Parent[x]]
      BY <2>2, AncestryEquation
    <3>2. P(Parent[x])
      BY <1>1, <3>1
    <3>. QED BY <3>1, <3>2
  <2>. QED BY <2>1, <2>2
<1>2. S = {}
  <2>. SUFFICES ASSUME S # {} PROVE FALSE
    OBVIOUS
  <2>1. PICK x \in S : \A y \in S : Number[x] =< Number[y]
    <3>. HIDE DEF P
    <3>. QED BY LeastBlock
  <2>2. \A y \in Blocks : Number[y] < Number[x] => P(y)
    <3>. HIDE DEF P
    <3>. QED BY <2>1
  <2>. HIDE DEF P
  <2>. QED BY <1>1, <2>1, <2>2
<1>3. P(b)
  BY <1>2
<1>4. b \in Ancestry[b]
  BY AncestryEquation
<1>5. Parent[b] # NoBlock => Parent[b] \in Ancestry[b]
  <2>. SUFFICES ASSUME Parent[b] # NoBlock PROVE Parent[b] \in Ancestry[b]
    OBVIOUS
  <2>1. Parent[b] \in Blocks /\ Ancestry[b] = {b} \cup Ancestry[Parent[b]]
    BY AncestryEquation
  <2>2. Parent[b] \in Ancestry[Parent[b]]
    BY <2>1, AncestryEquation
  <2>. QED BY <2>1, <2>2
<1>. QED BY <1>3, <1>4, <1>5

\* What is on the branch of a block of a branch is on that branch.
LEMMA AncestryOfAncestor ==
  ASSUME NEW b \in Blocks, NEW c \in Ancestry[b]
  PROVE  c \in Blocks /\ Ancestry[c] \subseteq Ancestry[b]
<1>. USE TreeAssumption
<1>. DEFINE P(x) == \A y \in Ancestry[x] : Ancestry[y] \subseteq Ancestry[x]
            S == {x \in Blocks : ~P(x)}
<1>1. ASSUME NEW x \in Blocks, \A y \in Blocks : Number[y] < Number[x] => P(y)
      PROVE  P(x)
  <2>1. CASE Parent[x] = NoBlock
    <3>1. Ancestry[x] = {x}
      BY <2>1, AncestryEquation
    <3>. QED BY <3>1
  <2>2. CASE Parent[x] # NoBlock
    <3>1. /\ Parent[x] \in Blocks /\ Number[Parent[x]] < Number[x]
          /\ Ancestry[x] = {x} \cup Ancestry[Parent[x]]
      BY <2>2, AncestryEquation
    <3>2. P(Parent[x])
      BY <1>1, <3>1
    <3>. QED BY <3>1, <3>2
  <2>. QED BY <2>1, <2>2
<1>2. S = {}
  <2>. SUFFICES ASSUME S # {} PROVE FALSE
    OBVIOUS
  <2>. HIDE DEF P
  <2>1. PICK x \in S : \A y \in S : Number[x] =< Number[y]
    BY LeastBlock
  <2>2. \A y \in Blocks : Number[y] < Number[x] => P(y)
    BY <2>1
  <2>. QED BY <1>1, <2>1, <2>2
<1>3. P(b)
  BY <1>2
<1>. QED BY <1>3, AncestryType

\* A branch is a line: of two of its blocks the lower one is on the branch of
\* the other.
LEMMA AncestryIsLine ==
  ASSUME NEW b \in Blocks, NEW a \in Ancestry[b], NEW c \in Ancestry[b],
         Number[a] =< Number[c]
  PROVE  a \in Ancestry[c]
<1>. USE TreeAssumption
<1>. DEFINE P(x) == \A y \in Ancestry[x], z \in Ancestry[x] :
                      Number[y] =< Number[z] => y \in Ancestry[z]
            S == {x \in Blocks : ~P(x)}
<1>1. ASSUME NEW x \in Blocks, \A y \in Blocks : Number[y] < Number[x] => P(y)
      PROVE  P(x)
  <2>. SUFFICES ASSUME NEW y \in Ancestry[x], NEW z \in Ancestry[x], Number[y] =< Number[z]
                PROVE  y \in Ancestry[z]
    OBVIOUS
  <2>0. y \in Blocks /\ z \in Blocks
    BY AncestryType
  <2>1. CASE z = x
    BY <2>1
  <2>2. CASE z # x
    <3>1. /\ Parent[x] \in Blocks /\ Number[Parent[x]] < Number[x]
          /\ Ancestry[x] = {x} \cup Ancestry[Parent[x]]
      BY <2>2, AncestryEquation
    <3>2. y # x
      BY <2>0, <2>2, AncestryType
    <3>. QED BY <1>1, <2>2, <3>1, <3>2
  <2>. QED BY <2>1, <2>2
<1>2. S = {}
  <2>. SUFFICES ASSUME S # {} PROVE FALSE
    OBVIOUS
  <2>. HIDE DEF P
  <2>1. PICK x \in S : \A y \in S : Number[x] =< Number[y]
    BY LeastBlock
  <2>2. \A y \in Blocks : Number[y] < Number[x] => P(y)
    BY <2>1
  <2>. QED BY <1>1, <2>1, <2>2
<1>3. P(b)
  BY <1>2
<1>. QED BY <1>3

\* A branch has one block at a height, and what is above one of its blocks has
\* its parent on the branch, not below that block.
LEMMA AncestryHeights ==
  ASSUME NEW b \in Blocks, NEW a \in Ancestry[b], NEW c \in Ancestry[b]
  PROVE  /\ a \in Blocks /\ c \in Blocks
         /\ Number[a] = Number[c] => a = c
         /\ Parent[c] # NoBlock => Parent[c] \in Ancestry[b]
         /\ Number[a] < Number[c] =>
              Parent[c] # NoBlock /\ Number[a] =< Number[Parent[c]]
<1>. USE TreeAssumption
<1>1. a \in Blocks /\ c \in Blocks /\ Number[a] \in Nat /\ Number[c] \in Nat
  BY AncestryType
<1>2. Number[a] = Number[c] => a = c
  <2>1. Number[a] = Number[c] => a \in Ancestry[c]
    BY <1>1, AncestryIsLine
  <2>. QED BY <1>1, <2>1, AncestryType
<1>3. Parent[c] # NoBlock => Parent[c] \in Ancestry[b]
  <2>1. Ancestry[c] \subseteq Ancestry[b]
    BY AncestryOfAncestor
  <2>. QED BY <1>1, <2>1, AncestryType
<1>4. Number[a] < Number[c] => Parent[c] # NoBlock /\ Number[a] =< Number[Parent[c]]
  <2>. SUFFICES ASSUME Number[a] < Number[c]
                PROVE  Parent[c] # NoBlock /\ Number[a] =< Number[Parent[c]]
    OBVIOUS
  <2>1. a \in Ancestry[c] /\ a # c
    BY <1>1, AncestryIsLine
  <2>2. Parent[c] # NoBlock
    BY <1>1, <2>1, AncestryEquation
  <2>3. Parent[c] \in Blocks /\ a \in Ancestry[Parent[c]]
    BY <1>1, <2>1, <2>2, AncestryEquation
  <2>. QED BY <1>1, <2>2, <2>3, AncestryType
<1>. QED BY <1>1, <1>2, <1>3, <1>4


-----------------------------------------------------------------------------
(* The inductive invariant behind PrintedOnce and ParentFirst.             *)

\* The run has a LIB: it has resolved its start and has not ended.
Started == phase \notin {"resolve", "returned", "down"}

Got == Blocks \cup {Skip}

\* What the loaders have is what the node answered.
Polls ==
  /\ \A n \in DOMAIN polled : polled[n] \in Got
  /\ DOMAIN loaders = Loaders
  /\ \A l \in Loaders :
       /\ "got" \in DOMAIN loaders[l]
       /\ \A n \in DOMAIN loaders[l].got : loaders[l].got[n] \in Got

\* The types, as far as the printed stream depends on them.
Typed ==
  /\ head \in Blocks /\ Polls
  /\ lib \in Blocks \cup {NoBlock} /\ (Started => lib \in Blocks)
  /\ printed \subseteq Blocks /\ links \subseteq Blocks /\ segment \subseteq Blocks
  /\ phase = "process" => fetched.blk \in Blocks
  /\ segState \in {"CONTINUOUS", "INCOMPLETE"}
  /\ segState = "INCOMPLETE" => incomplete \in Blocks

\* The forkdb knows only what was printed as fired, and nothing at the start.
Marked ==
  /\ fired \subseteq links /\ fired \subseteq printed
  /\ phase = "resolve" => printed = {} /\ links = {} /\ segState = "CONTINUOUS"

\* What was printed and is no longer known to the forkdb is below all it knows.
Purged ==
  \A b \in printed \ fired :
    /\ \A a \in links : Number[b] < Number[a]
    /\ lib # NoBlock => Number[b] < Number[lib]

\* Below the LIB the forkdb has only blocks that were printed, out of a state file.
OldFired == \A a \in links : Number[a] < Number[lib] => a \in fired

\* l is printed, or below the start block, or below everything in the set p.
StartsAt(l, known, p) ==
  l \in known \/ Number[l] < StartNum \/ \A c \in p : Number[l] < Number[c]

\* The cursor holds a segment that does not reach the LIB yet.
Open == segState = "INCOMPLETE" => ~ReachesLib(incomplete, links)

\* The segment being fired reaches the LIB, and the block that came last is in it.
Firing ==
  phase = "fire" =>
    /\ segState = "CONTINUOUS"
    /\ \E top \in Blocks :
         /\ ReachesLib(top, links) /\ segment = CompleteSegment(top, links)
         /\ fetched.blk \in links \cap Ancestry[top]

\* The state file, and the state about to be saved.
Saved ==
  /\ phase = "save" => StartsAt(lib, segment, segment)
  /\ stateFile.kind = "good" =>
       /\ stateFile.lib \in Blocks /\ stateFile.blocks \subseteq Blocks
       /\ StartsAt(stateFile.lib, stateFile.blocks, stateFile.blocks)

PInv ==
  /\ Typed /\ Marked /\ Purged /\ Saved
  /\ Started => OldFired /\ StartsAt(lib, fired, printed) /\ Open /\ Firing


\* At the start nothing is printed, known or polled.
LEMMA PStarts == Init => PInv
<1>. SUFFICES ASSUME Init PROVE PInv
  OBVIOUS
<1>. USE TreeAssumption
<1>1. Polls
  BY DEF Init, ProcessInit, Polls, Idle
<1>. QED BY <1>1 DEF Init, ProcessInit, NoFile, PInv, Typed, Marked, Purged, Saved, Started

\* What the node answers is a block or that the height is skipped.
LEMMA AnswerType ==
  ASSUME head \in Blocks, NEW n
  PROVE  Answer(n) \in Got
BY AncestryType DEF Answer, Got

\* A step that leaves the forkdb, the cursor and what was printed alone, and goes
\* on polling, comes with a block to process, or ends the run.
LEMMA QuietKeeps ==
  ASSUME PInv, UNCHANGED <<printed, links, lib, fired, segState, incomplete, segment>>,
         stateFile' = stateFile \/ stateFile'.kind # "good",
         head' \in Blocks, Polls',
         \/ phase' = phase /\ fetched' = fetched
         \/ phase' \in {"request", "missed"} /\ Started
         \/ phase' \in {"returned", "down"}
         \/ phase' = "process" /\ Started /\ fetched'.blk \in Blocks
  PROVE  PInv'
<1>. USE DEF PInv, Started
<1>1. Typed'
  BY DEF Typed
<1>2. Marked' /\ Purged'
  BY DEF Marked, Purged
<1>3. Saved'
  BY DEF Saved, StartsAt
<1>4. (Started => OldFired /\ StartsAt(lib, fired, printed) /\ Open)'
  BY DEF OldFired, StartsAt, Open, ReachesLib
<1>5. (Started => Firing)'
  BY DEF Firing, ReachesLib, CompleteSegment, Chain
<1>. QED BY <1>1, <1>2, <1>3, <1>4, <1>5

\* The node moves, and the run resolves, requests and fetches, without the forkdb.
LEMMA RequestKeeps ==
  ASSUME PInv,
         \/ \E b \in Blocks : MoveHead(b)
         \/ ResolveSkip \/ ResolveFails \/ RequestMiss \/ LookAgain
         \/ RequestHit \/ RequestQuits \/ HashFetched \/ HashFails \/ FireFails
         \/ RequestShutdown \/ Crash
  PROVE  PInv'
<1>. USE DEF nodeVars, pollVars, forkdbVars, cursorVars
<1>1. head \in Blocks /\ Polls
  BY DEF PInv, Typed
<1>2. CASE \E b \in Blocks : MoveHead(b)
  BY <1>1, <1>2, QuietKeeps DEF MoveHead, Polls
<1>3. CASE ResolveSkip \/ RequestMiss \/ LookAgain \/ RequestQuits
  BY <1>1, <1>3, QuietKeeps DEF ResolveSkip, RequestMiss, LookAgain, RequestQuits, Polls, Started
<1>4. CASE ResolveFails \/ HashFails \/ FireFails \/ RequestShutdown
  BY <1>1, <1>4, QuietKeeps DEF ResolveFails, HashFails, FireFails, RequestShutdown, Polls
<1>5. CASE RequestHit
  <2>1. polled[target] # Skip => polled[target] \in Blocks
    BY <1>1, <1>5 DEF RequestHit, Polls, Got
  <2>. QED BY <1>1, <1>5, <2>1, QuietKeeps DEF RequestHit, Polls, Started
<1>6. CASE HashFetched
  <2>1. Answer(target) \in Blocks
    BY <1>1, <1>6, AnswerType DEF HashFetched, Got
  <2>. QED BY <1>1, <1>6, <2>1, QuietKeeps DEF HashFetched, Polls, Started
<1>7. CASE Crash
  <2>1. BadFile.kind # "good"
    BY DEF BadFile, NoFile
  <2>. QED BY <1>1, <1>7, <2>1, QuietKeeps DEF Crash, Polls
<1>. QED BY <1>2, <1>3, <1>4, <1>5, <1>6, <1>7

\* A loader asks the node, and writes into whatever map is there.
LEMMA LoaderKeeps ==
  ASSUME PInv, NEW l \in Loaders, SpawnLoader(l) \/ LoaderStep(l) \/ LoaderFails(l)
  PROVE  PInv'
<1>. USE DEF nodeVars, pollVars, forkdbVars, cursorVars
<1>1. /\ head \in Blocks /\ DOMAIN loaders = Loaders /\ Polls
      /\ \A k \in Loaders : "got" \in DOMAIN loaders[k]
  BY DEF PInv, Typed, Polls
<1>2. CASE SpawnLoader(l)
  <2>1. Polls'
    BY <1>1, <1>2 DEF SpawnLoader, Polls, Idle
  <2>. QED BY <1>1, <1>2, <2>1, QuietKeeps DEF SpawnLoader, Started
<1>3. CASE LoaderStart(l)
  <2>1. Polls'
    BY <1>1, <1>3 DEF LoaderStart, Polls
  <2>. QED BY <1>1, <1>3, <2>1, QuietKeeps DEF LoaderStart
<1>4. ASSUME NEW n, LoaderFetch(l, n) PROVE PInv'
  <2>1. Answer(n) \in Got
    BY <1>1, AnswerType
  <2>2. Polls'
    BY <1>1, <1>4, <2>1 DEF LoaderFetch, Polls
  <2>. QED BY <1>1, <1>4, <2>2, QuietKeeps DEF LoaderFetch
<1>5. ASSUME NEW n, LoaderDeliver(l, n) PROVE PInv'
  <2>1. Polls'
    BY <1>1, <1>5 DEF LoaderDeliver, Polls
  <2>. QED BY <1>1, <1>5, <2>1, QuietKeeps DEF LoaderDeliver
<1>6. CASE LoaderDone(l) \/ LoaderFails(l)
  <2>1. Polls'
    BY <1>1, <1>6 DEF LoaderDone, LoaderFails, Polls, Idle
  <2>. QED BY <1>1, <1>6, <2>1, QuietKeeps DEF LoaderDone, LoaderFails
<1>. QED BY <1>2, <1>3, <1>4, <1>5, <1>6 DEF LoaderStep


\* The run starts from the block that the node answers, or from the state file,
\* whose blocks count as printed.
LEMMA ResolveStartKeeps == PInv /\ ResolveStart => PInv'
<1>. SUFFICES ASSUME PInv, ResolveStart PROVE PInv'
  OBVIOUS
<1>. USE DEF PInv, Started, nodeVars, cursorVars, pollVars
<1>1. /\ head \in Blocks /\ Polls /\ printed = {} /\ links = {} /\ fired = {}
      /\ segState = "CONTINUOUS" /\ segment \subseteq Blocks /\ phase' = "request"
      /\ UNCHANGED <<head, polled, loaders, segState, segment, stateFile>>
  BY DEF ResolveStart, Typed, Marked
<1>2. Polls'
  BY <1>1 DEF Polls
<1>3. CASE RestoresState
  <2>1. /\ lib' = stateFile.lib /\ links' = stateFile.blocks /\ fired' = stateFile.blocks
        /\ printed' = stateFile.blocks /\ stateFile.kind = "good"
    BY <1>3 DEF ResolveStart, RestoresState
  <2>2. lib' \in Blocks /\ links' \subseteq Blocks /\ StartsAt(lib', fired', printed')
    BY <2>1 DEF Saved
  <2>. QED BY <1>1, <1>2, <2>1, <2>2
           DEF Typed, Marked, Purged, Saved, OldFired, StartsAt, Open, Firing
<1>4. CASE ~RestoresState
  <2>1. /\ lib' = Answer(target) /\ Answer(target) # Skip
        /\ UNCHANGED <<links, fired, printed>>
    BY <1>4 DEF ResolveStart
  <2>2. lib' \in Blocks
    BY <1>1, <2>1, AnswerType DEF Got
  <2>. QED BY <1>1, <1>2, <2>1, <2>2
           DEF Typed, Marked, Purged, Saved, OldFired, StartsAt, Open, Firing
<1>. QED BY <1>3, <1>4

\* A block is linked.  The one that completes the segment of the cursor is on its
\* branch: the segment did not reach the LIB without it.
LEMMA AddBlockKeeps == PInv /\ AddBlock => PInv'
<1>. SUFFICES ASSUME PInv, AddBlock PROVE PInv'
  OBVIOUS
<1>. USE DEF PInv, Started, nodeVars, pollVars
<1>. DEFINE f == fetched.blk
            known == links \cup {f}
<1>0. PICK top \in Blocks : top = SegmentNum
  BY DEF AddBlock, SegmentNum, ResumesSegment, Typed
<1>1. /\ phase = "process" /\ f \in Blocks /\ lib \in Blocks /\ Number[lib] =< Number[f]
      /\ Number[f] \in Nat /\ Number[lib] \in Nat /\ \A b \in Blocks : Number[b] \in Nat
  BY TreeAssumption DEF AddBlock, BelowLib, Typed
<1>2. links' = known /\ UNCHANGED <<head, loaders, stateFile, printed, lib, fired, fetched>>
  BY DEF AddBlock
<1>3. Polls'
  <2>1. polled' = polled \/ polled' = [n \in {} |-> Skip]
    BY DEF AddBlock
  <2>. QED BY <1>2, <2>1 DEF Typed, Polls
<1>4. Purged'
  <2>. SUFFICES ASSUME NEW b \in printed, b \notin fired
                PROVE  Number[b] < Number[lib] /\ \A a \in known : Number[b] < Number[a]
    BY <1>2 DEF Purged
  <2>1. Number[b] < Number[lib] /\ Number[b] \in Nat /\ \A a \in links : Number[b] < Number[a]
    BY <1>1, TreeAssumption DEF Purged, Typed
  <2>. QED BY <1>1, <2>1
<1>5. OldFired' /\ StartsAt(lib, fired, printed)'
  BY <1>1, <1>2 DEF OldFired, StartsAt
<1>6. CASE ReachesLib(top, known) /\ phase' = "fire"
  <2>1. /\ segment' = CompleteSegment(top, known) /\ segState' = "CONTINUOUS"
    BY <1>0, <1>6 DEF AddBlock
  <2>2. segment' \subseteq known
    BY <2>1 DEF CompleteSegment, Chain
  <2>3. f \in Ancestry[top]
    <3>1. CASE top = f
      BY <1>1, <3>1, AncestryType
    <3>2. CASE top # f
      <4>1. top = incomplete /\ segState = "INCOMPLETE"
        BY <1>0, <3>2 DEF SegmentNum, ResumesSegment
      <4>2. ~ReachesLib(top, links)
        BY <1>1, <4>1 DEF Open
      <4>3. PICK c \in Ancestry[top] : c \in known /\ c \notin links
        BY <1>6, <4>2 DEF ReachesLib
      <4>. QED BY <4>3
    <3>. QED BY <3>1, <3>2
  <2>4. Firing'
    <3>1. ReachesLib(top, links)'
      BY <1>2, <1>6 DEF ReachesLib
    <3>. QED BY <1>2, <1>6, <2>1, <2>3, <3>1 DEF Firing, ReachesLib, CompleteSegment, Chain
  <2>5. Typed'
    BY <1>1, <1>2, <1>3, <1>6, <2>1, <2>2 DEF Typed
  <2>6. Marked' /\ Saved' /\ Open'
    BY <1>1, <1>2, <1>6, <2>1 DEF Marked, Saved, StartsAt, Open
  <2>. QED BY <1>4, <1>5, <2>4, <2>5, <2>6
<1>7. CASE ~ReachesLib(top, known) /\ phase' = "hash"
  <2>1. segState' = "INCOMPLETE" /\ incomplete' = top /\ segment' = segment
    BY <1>0, <1>7 DEF AddBlock
  <2>2. Typed'
    BY <1>1, <1>2, <1>3, <1>7, <2>1 DEF Typed
  <2>3. Open'
    BY <1>2, <1>7, <2>1 DEF Open, ReachesLib
  <2>4. Marked' /\ Saved' /\ Firing'
    BY <1>1, <1>2, <1>7 DEF Marked, Saved, StartsAt, Firing
  <2>. QED BY <1>4, <1>5, <2>2, <2>3, <2>4
<1>. QED BY <1>0, <1>6, <1>7 DEF AddBlock

\* The segment being fired: the branch of its top down to the LIB, which is in it
\* when the forkdb knows it.
LEMMA SegmentIs ==
  ASSUME PInv, phase = "fire"
  PROVE  /\ segment \subseteq links /\ links \subseteq Blocks /\ lib \in Blocks
         /\ fetched.blk \in Blocks
         /\ \A b \in Blocks : Number[b] \in Nat
         /\ \A a \in segment : a = lib \/ Number[lib] < Number[a]
         /\ lib \in links => lib \in segment
         /\ \A a \in Ancestry[fetched.blk] : Number[lib] < Number[a] => a \in segment
         /\ \A a \in segment : Parent[a] # NoBlock => Parent[a] \in Blocks
         /\ \A a \in segment : Number[lib] < Number[a] =>
              /\ Parent[a] # NoBlock
              /\ Parent[a] = lib \/ Parent[a] \in segment
<1>. USE TreeAssumption
<1>1. PICK top \in Blocks :
        /\ ReachesLib(top, links) /\ segment = CompleteSegment(top, links)
        /\ fetched.blk \in links \cap Ancestry[top]
  BY DEF PInv, Started, Firing
<1>2. /\ lib \in Blocks /\ links \subseteq Blocks /\ lib \in Ancestry[top]
      /\ Ancestry[top] \subseteq Blocks
      /\ \A c \in Ancestry[top] : Number[c] > Number[lib] => c \in links
  BY <1>1, AncestryType DEF PInv, Started, Typed, ReachesLib
<1>3. \A a \in Ancestry[top] : Number[a] = Number[lib] => a = lib
  BY <1>2, AncestryHeights
<1>4. segment = {a \in links \cap Ancestry[top] : Number[a] >= Number[lib]}
  <2>1. ASSUME NEW a \in links \cap Ancestry[top], Number[a] >= Number[lib]
        PROVE  a \in segment
    <3>1. \A c \in Ancestry[top] : Number[c] >= Number[a] => c \in links
      BY <1>2, <1>3, <2>1
    <3>. QED BY <1>1, <2>1, <3>1 DEF CompleteSegment, Chain
  <2>. QED BY <1>1, <2>1 DEF CompleteSegment, Chain
<1>5. \A a \in segment : a = lib \/ Number[lib] < Number[a]
  BY <1>2, <1>3, <1>4
<1>6. lib \in links => lib \in segment
  BY <1>2, <1>4
<1>7. Ancestry[fetched.blk] \subseteq Ancestry[top]
  BY <1>1, AncestryOfAncestor
<1>8. \A a \in Ancestry[fetched.blk] : Number[lib] < Number[a] => a \in segment
  BY <1>2, <1>4, <1>7
<1>9. ASSUME NEW a \in segment, Number[lib] < Number[a]
      PROVE  Parent[a] # NoBlock /\ (Parent[a] = lib \/ Parent[a] \in segment)
  <2>1. /\ Parent[a] # NoBlock /\ Parent[a] \in Ancestry[top]
        /\ Number[lib] =< Number[Parent[a]]
    BY <1>1, <1>2, <1>4, <1>9, AncestryHeights
  <2>. QED BY <1>2, <1>3, <1>4, <2>1
<1>. QED BY <1>1, <1>2, <1>4, <1>5, <1>6, <1>8, <1>9

\* What is printed next is in the segment, and nothing left to print is below it.
LEMMA NextToFire ==
  ASSUME PInv, phase = "fire", ToFire # {}
  PROVE  /\ Lowest(ToFire) \in segment \ fired /\ Number[Lowest(ToFire)] >= StartNum
         /\ \A c \in ToFire : Number[Lowest(ToFire)] =< Number[c]
<1>1. ToFire \in SUBSET Blocks
  BY SegmentIs DEF ToFire
<1>2. Lowest(ToFire) \in ToFire /\ \A c \in ToFire : Number[Lowest(ToFire)] =< Number[c]
  BY <1>1, LowestIs
<1>. QED BY <1>2 DEF ToFire

\* The lowest block left of the segment is printed.
LEMMA FireBlockKeeps == PInv /\ FireBlock => PInv'
<1>. SUFFICES ASSUME PInv, FireBlock PROVE PInv'
  OBVIOUS
<1>. USE DEF PInv, Started, nodeVars, pollVars, cursorVars
<1>. DEFINE b == Lowest(ToFire)
<1>1. /\ phase = "fire" /\ b \in segment \ fired /\ segment \subseteq links
      /\ links \subseteq Blocks /\ (b = lib \/ Number[lib] < Number[b])
  BY NextToFire, SegmentIs DEF FireBlock
<1>2. /\ fired' = fired \cup {b} /\ printed' = printed \cup {b}
      /\ UNCHANGED <<head, stateFile, phase, fetched, links, lib, segState, incomplete,
                     segment, polled, loaders>>
  BY DEF FireBlock
<1>. HIDE DEF b
<1>3. Typed'
  BY <1>1, <1>2 DEF Typed, Polls
<1>4. Marked' /\ Purged'
  BY <1>1, <1>2 DEF Marked, Purged
<1>5. Saved' /\ OldFired'
  BY <1>1, <1>2 DEF Saved, OldFired, StartsAt
<1>6. StartsAt(lib, fired, printed)'
  BY <1>1, <1>2 DEF StartsAt
<1>7. Open' /\ Firing'
  BY <1>1, <1>2 DEF Open, Firing, ReachesLib, CompleteSegment, Chain
<1>. QED BY <1>3, <1>4, <1>5, <1>6, <1>7

\* SetLIB moves the LIB to a block of the branch, or leaves it.
LEMMA LibChoicesAre ==
  ASSUME PInv, phase = "fire", NEW n, NEW x \in LibChoices(fetched.blk, n)
  PROVE  x \in Blocks /\ (x = lib \/ x \in links \cap Ancestry[fetched.blk])
<1>. DEFINE b == fetched.blk
            line == Chain(b, links) \cup ({lib} \cap Ancestry[b])
            up == {a \in line : Number[a] > n}
<1>1. /\ line \subseteq Blocks
      /\ \A a \in line : a = lib \/ a \in links \cap Ancestry[b]
  BY SegmentIs DEF Chain
<1>2. up # {} => Lowest(up) \in up
  <2>. HIDE DEF line
  <2>. QED BY <1>1, LowestIs
<1>3. x \in line \/ x = lib \/ (up # {} /\ x = Lowest(up))
  BY DEF LibChoices
<1>. QED BY <1>1, <1>2, <1>3, SegmentIs

\* The LIB moves when the whole segment is printed, and what is below it goes.
LEMMA FireDoneKeeps == PInv /\ FireDone => PInv'
<1>. SUFFICES ASSUME PInv, FireDone PROVE PInv'
  OBVIOUS
<1>. USE DEF PInv, Started, nodeVars, pollVars, cursorVars
<1>1. /\ phase = "fire" /\ ToFire = {} /\ phase' = "save"
      /\ lib' \in LibChoices(fetched.blk, fetched.lib)
      /\ links' = {b \in links : Number[b] >= Number[lib']}
      /\ fired' = fired \cap links'
      /\ UNCHANGED <<head, stateFile, printed, fetched, segState, incomplete, segment,
                     polled, loaders>>
  BY DEF FireDone
<1>2. lib' \in Blocks /\ (lib' = lib \/ lib' \in links \cap Ancestry[fetched.blk])
  BY <1>1, LibChoicesAre
<1>3. /\ segment \subseteq links /\ links \subseteq Blocks /\ lib \in Blocks
      /\ \A b \in Blocks : Number[b] \in Nat
      /\ \A a \in segment : a = lib \/ Number[lib] < Number[a]
      /\ lib \in links => lib \in segment
      /\ \A a \in Ancestry[fetched.blk] : Number[lib] < Number[a] => a \in segment
      /\ fired \subseteq links /\ fired \subseteq printed /\ printed \subseteq Blocks
  BY <1>1, SegmentIs DEF Marked, Typed
<1>4. \A a \in segment : a \in fired \/ Number[a] < StartNum
  BY <1>1, <1>3, PollerAssumption DEF ToFire
<1>5. Typed'
  BY <1>1, <1>2 DEF Typed, Polls, Firing
<1>6. Marked'
  BY <1>1, <1>3 DEF Marked
<1>7. Purged'
  <2>. SUFFICES ASSUME NEW b \in printed, b \notin fired'
                PROVE  /\ \A a \in links' : Number[b] < Number[a]
                       /\ Number[b] < Number[lib']
    BY <1>1 DEF Purged
  <2>1. CASE b \in fired
    <3>1. b \in Blocks /\ ~(Number[b] >= Number[lib'])
      BY <1>1, <1>3, <2>1
    <3>2. Number[b] < Number[lib']
      BY <1>2, <1>3, <3>1
    <3>3. ASSUME NEW a \in links' PROVE Number[b] < Number[a]
      <4>1. a \in Blocks /\ Number[a] >= Number[lib']
        BY <1>1, <1>3
      <4>. QED BY <1>2, <1>3, <3>1, <3>2, <4>1
    <3>. QED BY <3>2, <3>3
  <2>2. CASE b \notin fired
    <3>1. Number[b] < Number[lib] /\ \A a \in links : Number[b] < Number[a]
      BY <1>3, <2>2, TreeAssumption DEF Purged, Typed
    <3>. QED BY <1>1, <1>2, <3>1
  <2>. QED BY <2>1, <2>2
<1>8. OldFired'
  BY <1>1, <1>2, <1>3 DEF OldFired
<1>9. StartsAt(lib, fired, printed)' /\ StartsAt(lib', segment, segment)
  <2>1. CASE lib' = lib
    <3>1. StartsAt(lib, fired, printed)'
      BY <1>1, <1>3, <2>1 DEF StartsAt
    <3>2. StartsAt(lib', segment, segment)
      BY <1>3, <2>1 DEF StartsAt
    <3>. QED BY <3>1, <3>2
  <2>2. CASE lib' # lib /\ Number[lib'] > Number[lib]
    <3>1. lib' \in segment
      BY <1>2, <1>3, <2>2
    <3>2. lib' \in fired' \/ Number[lib'] < StartNum
      BY <1>1, <1>2, <1>3, <1>4, <3>1
    <3>. QED BY <3>1, <3>2 DEF StartsAt
  <2>3. CASE lib' # lib /\ Number[lib'] = Number[lib]
    <3>1. FALSE
      <4>1. lib' \in links \cap Ancestry[fetched.blk]
        BY <1>2, <2>3
      <4>2. \E top \in Blocks : lib \in Ancestry[top] /\ fetched.blk \in Ancestry[top]
        BY <1>1 DEF Firing, ReachesLib
      <4>3. PICK top \in Blocks : lib \in Ancestry[top] /\ fetched.blk \in Ancestry[top]
        BY <4>2
      <4>4. lib' \in Ancestry[top]
        BY <4>1, <4>3, AncestryOfAncestor
      <4>. QED BY <2>3, <4>3, <4>4, AncestryHeights
    <3>. QED BY <3>1
  <2>4. CASE lib' # lib /\ Number[lib'] < Number[lib]
    <3>1. lib' \in fired
      BY <1>1, <1>2, <2>4 DEF OldFired
    <3>2. lib' \in fired'
      BY <1>1, <1>2, <1>3, <3>1
    <3>3. \A c \in segment : Number[lib'] < Number[c]
      BY <1>2, <1>3, <2>4
    <3>. QED BY <3>2, <3>3 DEF StartsAt
  <2>. QED BY <1>2, <1>3, <2>1, <2>2, <2>3, <2>4
<1>10. Saved'
  BY <1>1, <1>9 DEF Saved, StartsAt
<1>11. Open' /\ Firing'
  BY <1>1 DEF Open, Firing
<1>. QED BY <1>1, <1>5, <1>6, <1>7, <1>8, <1>9, <1>10, <1>11

\* The state is saved with the LIB that the segment starts from.
LEMMA SaveStateKeeps == PInv /\ SaveState => PInv'
<1>. SUFFICES ASSUME PInv, SaveState PROVE PInv'
  OBVIOUS
<1>. USE DEF PInv, Started, nodeVars, pollVars, cursorVars, forkdbVars
<1>1. /\ phase = "save" /\ phase' = "request" /\ segment' = {}
      /\ stateFile'.lib = lib /\ stateFile'.blocks = segment
      /\ UNCHANGED <<head, printed, fetched, links, lib, fired, segState, incomplete,
                     polled, loaders>>
  BY DEF SaveState
<1>2. Typed' /\ Marked' /\ Purged'
  BY <1>1 DEF Typed, Polls, Marked, Purged
<1>3. Saved'
  BY <1>1 DEF Saved, StartsAt, Typed
<1>4. OldFired' /\ StartsAt(lib, fired, printed)' /\ Open' /\ Firing'
  BY <1>1 DEF OldFired, StartsAt, Open, Firing, ReachesLib
<1>. QED BY <1>1, <1>2, <1>3, <1>4

\* A new process keeps only the state file.
LEMMA RestartKeeps == PInv /\ Restart => PInv'
<1>. SUFFICES ASSUME PInv, Restart PROVE PInv'
  OBVIOUS
<1>. USE DEF PInv, Started, nodeVars
<1>1. Polls'
  BY DEF Restart, Polls, Idle
<1>2. Typed'
  BY <1>1 DEF Restart, Typed
<1>3. Marked' /\ Purged' /\ Saved'
  BY DEF Restart, Marked, Purged, Saved, StartsAt
<1>. QED BY <1>2, <1>3 DEF Restart

\* Every step keeps the invariant.
LEMMA PStep == PInv /\ [Next]_vars => PInv'
<1>1. ASSUME PInv, UNCHANGED vars PROVE PInv'
  <2>. USE <1>1 DEF vars, nodeVars, forkdbVars, cursorVars, pollVars, boundVars
  <2>1. Polls'
    BY DEF PInv, Typed, Polls
  <2>. QED BY <2>1, QuietKeeps DEF PInv, Typed
<1>. QED BY <1>1, RequestKeeps, LoaderKeeps, ResolveStartKeeps, AddBlockKeeps, FireBlockKeeps,
            FireDoneKeeps, SaveStateKeeps, RestartKeeps DEF Next, RunStep, Failure

-----------------------------------------------------------------------------
(* The properties.                                                         *)

\* A process never prints a block twice: what it has printed is marked as fired
\* in the forkdb, or lies below all that a segment can still hold.  This takes in
\* the blocks of the state file it started from.
THEOREM NothingPrintedTwice == Spec => []PrintedOnce
<1>1. PInv => PrintedOnce
  <2>. SUFFICES ASSUME PInv, phase = "fire", ToFire # {}
                PROVE  Lowest(ToFire) \notin printed
    BY DEF PrintedOnce
  <2>1. Lowest(ToFire) \in links /\ Lowest(ToFire) \notin fired
    BY NextToFire, SegmentIs
  <2>2. Number[Lowest(ToFire)] \in Nat
    BY <2>1, SegmentIs
  <2>. QED BY <2>1, <2>2 DEF PInv, Purged
<1>. QED BY <1>1, PStarts, PStep, PTL DEF Spec

\* A block is printed after its parent, unless the parent is below the start
\* block or the block is the one the stream starts from, or stands on it.
THEOREM ParentsFirst == Spec => ParentFirst
<1>. DEFINE A == \A b \in printed' \ printed :
       phase = "fire" =>
         \/ Parent[b] = NoBlock \/ Parent[b] \in printed
         \/ Number[Parent[b]] < StartNum
         \/ lib \in {b, Parent[b]} /\ \A c \in printed : Number[lib] < Number[c]
<1>1. PInv /\ [Next]_vars => [A]_vars
  <2>. SUFFICES ASSUME PInv, [Next]_vars, NEW b \in printed' \ printed, phase = "fire"
                PROVE  \/ Parent[b] = NoBlock \/ Parent[b] \in printed
                       \/ Number[Parent[b]] < StartNum
                       \/ /\ lib \in {b, Parent[b]}
                          /\ \A c \in printed : Number[lib] < Number[c]
    OBVIOUS
  <2>1. ToFire # {} /\ b = Lowest(ToFire)
    <3>1. ~UNCHANGED printed
      OBVIOUS
    <3>2. FireBlock
      BY <3>1
         DEF Next, RunStep, Failure, LoaderStep, vars, nodeVars, forkdbVars, cursorVars, pollVars,
             boundVars, ResolveSkip, ResolveStart, RequestMiss, SpawnLoader, LookAgain, RequestHit,
             RequestQuits, AddBlock, HashFetched, FireDone, SaveState, LoaderStart, LoaderFetch,
             LoaderDeliver, LoaderDone, ResolveFails, HashFails, FireFails, LoaderFails, MoveHead,
             RequestShutdown, Crash, Restart, Running
    <3>. QED BY <3>2 DEF FireBlock
  <2>2. /\ b \in segment \ fired /\ Number[b] >= StartNum
        /\ \A c \in ToFire : Number[b] =< Number[c]
    BY <2>1, NextToFire
  <2>3. StartsAt(lib, fired, printed) /\ fired \subseteq links /\ fired \subseteq printed
    BY DEF PInv, Started, Marked
  <2>4. CASE b = lib
    BY <2>2, <2>3, <2>4, SegmentIs, PollerAssumption DEF StartsAt
  <2>5. CASE Number[lib] < Number[b]
    <3>1. /\ Parent[b] # NoBlock /\ (Parent[b] = lib \/ Parent[b] \in segment)
          /\ Parent[b] \in Blocks /\ Number[Parent[b]] < Number[b] /\ b \in Blocks
      BY <2>2, <2>5, SegmentIs, TreeAssumption
    <3>2. CASE Parent[b] \in segment
      <4>1. Parent[b] \notin ToFire
        BY <2>2, <3>1, TreeAssumption
      <4>. QED BY <2>3, <3>1, <3>2, <4>1, TreeAssumption, PollerAssumption DEF ToFire
    <3>3. CASE Parent[b] = lib
      BY <2>3, <3>3 DEF StartsAt
    <3>. QED BY <3>1, <3>2, <3>3
  <2>. QED BY <2>2, <2>4, <2>5, SegmentIs
<1>. QED BY <1>1, PStarts, PStep, PTL DEF Spec, ParentFirst

=============================================================================
