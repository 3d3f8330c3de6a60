---------------------------- MODULE MergerProofs ----------------------------
(***************************************************************************)
(* Proofs about the merger: for every chain, bundle size, number of        *)
(* failures, crashes and foreign merged files, what its merged files hold; *)
(* where the stores answer, what its pruners and its shutdown may rely on; *)
(* and for a merger alone, that it implements the archive.                 *)
(***************************************************************************)
EXTENDS Merger, WellFoundedInduction, TLAPS

\* The base of a height is a height, not above it.
LEMMA BaseNum ==
  ASSUME NEW n \in Nat
  PROVE  toBaseNum(n) \in Nat /\ toBaseNum(n) =< n /\ n < toBaseNum(n) + BundleSize
BY SizeAssumption DEF toBaseNum

\* A file name is a natural number, and File gives files.
LEMMA NameType ==
  /\ \A f \in Files : Name(f) \in Nat
  /\ \A n \in Nat, b \in BOOLEAN : File(n, b) \in Files
BY DEF Name, File, Files

\* Writing a merged file keeps the type of the merged store.
LEMMA StoredType ==
  ASSUME TypeOK, NEW b \in Nat, NEW blocks \in SUBSET Nat,
         merged' = Stored(b, blocks)
  PROVE  /\ DOMAIN merged' = DOMAIN merged \cup {b}
         /\ DOMAIN merged' \subseteq Nat
         /\ merged' \in [DOMAIN merged' -> SUBSET Nat]
         /\ merged'[b] = {n \in blocks : n >= b}
         /\ \A c \in DOMAIN merged : c # b => merged'[c] = merged[c]
<1>1. DOMAIN merged' = DOMAIN merged \cup {b}
  BY DEF Stored
<1>2. \A c \in DOMAIN merged' :
        merged'[c] = IF c = b THEN {n \in blocks : n >= b} ELSE merged[c]
  BY DEF Stored
<1>3. \A c \in DOMAIN merged' : merged'[c] \in SUBSET Nat
  BY <1>1, <1>2 DEF TypeOK
<1>4. merged' = [c \in DOMAIN merged' |-> merged'[c]]
  BY DEF Stored
<1>. QED BY <1>1, <1>2, <1>3, <1>4 DEF TypeOK

\* The constants, as the proofs use them.
LEMMA ConstantTypes ==
  /\ FirstBase \in Nat /\ FirstBase =< FirstStreamable
  /\ \A c \in Chains : c \subseteq Nat /\ \A n \in c : FirstBase =< n
<1>1. FirstBase \in Nat /\ FirstBase =< FirstStreamable
  BY BaseNum, SizeAssumption DEF FirstBase
<1>. QED BY <1>1, ChainAssumption, SizeAssumption

\* What goes down is well typed.
LEMMA DownType ==
  ASSUME TypeOK, NEW r \in Results, GoDown(r),
         UNCHANGED <<chainVars, storeVars, boundVars>>
  PROVE  TypeOK'
<1>1. NoJob \in Jobs
  BY DEF NoJob, Jobs
<1>. QED BY <1>1, ConstantTypes
         DEF TypeOK, GoDown, Phases, NoLib, chainVars, storeVars, boundVars

\* A walk starts at a file name.
LEMMA WalkStart ==
  ASSUME NEW b \in Nat
  PROVE  Name(File(b, FALSE)) \in Nat
BY DEF Name, File

\* Every step of the run loop keeps the types.
LEMMA RunType == TypeOK /\ RunStep => TypeOK'
<1> SUFFICES ASSUME TypeOK, RunStep PROVE TypeOK'
  OBVIOUS
<1>. USE SizeAssumption
     DEF TypeOK, Phases, Results, NoLib, chainVars, storeVars, forkdbVars,
         bundleVars, walkVars, mergeVars, endVars, boundVars
<1>1. CASE PollTerminating
  BY <1>1 DEF PollTerminating
<1>2. CASE PollSame
  BY <1>2, WalkStart DEF PollSame, StartWalk
<1>3. CASE PollReset
  <2>1. PICK b \in BundleEnds :
          /\ NextBundle(b) /\ b > base
          /\ \E lib \in merged[b - BundleSize] : Reset(b, lib)
          /\ StartWalk(b)
    BY <1>3 DEF PollReset
  <2>2. b \in Nat /\ b - BundleSize \in DOMAIN merged
    BY <2>1 DEF BundleEnds, NextBundle
  <2>3. PICK lib \in merged[b - BundleSize] : Reset(b, lib)
    BY <2>1
  <2>4. lib \in Nat
    BY <2>2, <2>3
  <2>5. cursor' \in Nat
    BY <2>1, <2>2, WalkStart DEF StartWalk
  <2>6. fLib' \in Nat \cup {NoLib} /\ fTarget' \in Nat \cup {NoLib}
    BY <2>2, <2>3, <2>4 DEF Reset, LibFlowed
  <2>. QED BY <1>3, <2>1, <2>2, <2>3, <2>4, <2>5, <2>6
           DEF PollReset, StartWalk, Reset
<1>4. CASE PollPanic
  BY <1>4, DownType DEF PollPanic
<1>5. CASE WalkFile
  <2>1. PICK f \in oneBlocks :
          /\ cursor' = Name(f) + 1 /\ seen' = seen \cup {f}
          /\ fBlocks' \in {fBlocks, fBlocks \cup {f.num}}
          /\ \/ UNCHANGED <<fLib, fTarget>>
             \/ \E lib \in fBlocks \cup {f.num} : fLib' = lib - 1 /\ fTarget' = lib
             \/ fLib' = fLib /\ fTarget' \in {fTarget, LibNum(f.num)}
          /\ phase' \in {phase, "emit"}
    BY <1>5 DEF WalkFile
  <2>2. f \in Files /\ f.num \in Nat /\ Name(f) \in Nat
    BY NameType DEF Files
  <2>3. LibNum(f.num) \in Nat
    BY <2>2, OptionAssumption DEF LibNum
  <2>4. fLib' \in Nat \cup {NoLib} /\ fTarget' \in Nat \cup {NoLib}
    BY <2>1, <2>2, <2>3
  <2>5. fBlocks' \subseteq Nat /\ cursor' \in Nat /\ seen' \subseteq Files
    BY <2>1, <2>2
  <2>6. phase' \in Phases
    BY <2>1
  <2>. QED BY <1>5, <2>4, <2>5, <2>6 DEF WalkFile
<1>6. CASE WalkDone
  BY <1>6 DEF WalkDone
<1>7. CASE FinalRefused
  <2>1. CASE attempts + 1 < WalkAttempts
    <3>1. Reset(base, NoLib) /\ phase' = "walk" /\ attempts' = attempts + 1
          /\ cursor' = Name(File(base, FALSE)) /\ UNCHANGED endVars
      BY <1>7, <2>1 DEF FinalRefused
    <3>2. cursor' \in Nat
      BY <3>1, WalkStart
    <3>3. enforce' \in BOOLEAN /\ fTarget' = NoLib
      BY <3>1 DEF Reset
    <3>5. fLib' = NoLib
      BY <3>1 DEF Reset, LibFlowed
    <3>4. base' = base /\ irreversible' = {} /\ fBlocks' = {}
      BY <3>1 DEF Reset
    <3>6. UNCHANGED <<chainVars, storeVars, seen, mergeVars, boundVars, flowing,
                      deletions>>
      BY <1>7 DEF FinalRefused
    <3>7. attempts' \in Nat /\ phase' \in Phases /\ UNCHANGED endVars
      BY <3>1
    <3>. QED BY <3>2, <3>3, <3>4, <3>5, <3>6, <3>7
  <2>2. CASE ~(attempts + 1 < WalkAttempts)
    BY <1>7, <2>2 DEF FinalRefused, RunReturns
  <2>. QED BY <2>1, <2>2
<1>8. CASE FinalKept
  <2>1. PICK n \in chain : /\ n < base + BundleSize /\ fLib' = n
                           /\ irreversible' = irreversible \cup {n}
    BY <1>8 DEF FinalKept
  <2>2. n \in Nat
    BY ConstantTypes
  <2>3. irreversible' \subseteq Nat /\ fLib' \in Nat \cup {NoLib}
    BY <2>1, <2>2
  <2>. QED BY <1>8, <2>3 DEF FinalKept
<1>9. CASE FinalSeesError
  <2>1. bundleError' \in {0, 1}
    BY <1>9 DEF FinalSeesError
  <2>. QED BY <1>9, <2>1 DEF FinalSeesError, RunReturns
<1>10. CASE FinalCompletes
  BY <1>10, ConstantTypes DEF FinalCompletes, Accepted, NextFinal
<1>11. CASE FlowDone
  BY <1>11 DEF FlowDone
<1>12. CASE StartMerge
  BY <1>12 DEF StartMerge, CanLock, Jobs, Leftovers
<1>13. CASE EmptyBundlePanic
  BY <1>13, DownType DEF EmptyBundlePanic
<1>14. CASE SkipStored
  <2>1. irreversible \ {flowing} \in SUBSET Nat
        /\ merged' = Stored(base, irreversible \ {flowing})
    BY <1>14 DEF SkipStored
  <2>2. DOMAIN merged' \subseteq Nat /\ merged' \in [DOMAIN merged' -> SUBSET Nat]
    BY <2>1, StoredType
  <2>3. base' \in Nat
    BY <1>14 DEF SkipStored
  <2>. QED BY <1>14, <2>2, <2>3 DEF SkipStored
<1>15. CASE SkipFails
  BY <1>15 DEF SkipFails, RunReturns
<1>16. CASE SkipDone
  BY <1>16 DEF SkipDone, RunReturns
<1>. QED
  BY <1>1, <1>2, <1>3, <1>4, <1>5, <1>6, <1>7, <1>8, <1>9, <1>10, <1>11,
     <1>12, <1>13, <1>14, <1>15, <1>16 DEF RunStep

\* Every step of the other threads and of the environment keeps the types.
LEMMA OtherType == TypeOK /\ [Next]_vars /\ ~RunStep => TypeOK'
<1> SUFFICES ASSUME TypeOK, [Next]_vars, ~RunStep PROVE TypeOK'
  OBVIOUS
<1>. USE SizeAssumption
     DEF TypeOK, chainVars, storeVars, forkdbVars, bundleVars, walkVars,
         mergeVars, endVars, boundVars
<1>0. NoJob \in Jobs
  BY DEF NoJob, Jobs
<1>1. CASE MergeStored
  BY <1>1, StoredType DEF MergeStored, Jobs
<1>2. CASE MergeFails
  BY <1>2 DEF MergeFails, Jobs
<1>15. CASE MergeCutShort
  <2>1. PICK cut \in job.blocks :
          merged' = Stored(job.base, {n \in job.blocks : n < cut})
    BY <1>15 DEF MergeCutShort
  <2>2. job.base \in Nat /\ {n \in job.blocks : n < cut} \in SUBSET Nat
    BY DEF Jobs
  <2>3. DOMAIN merged' \subseteq Nat /\ merged' \in [DOMAIN merged' -> SUBSET Nat]
    BY <2>1, <2>2, StoredType
  <2>4. job' \in Jobs /\ shortened' \subseteq Nat /\ failures' \in Nat
    BY <1>15, <2>2 DEF MergeCutShort, Jobs
  <2>. QED BY <1>15, <2>3, <2>4 DEF MergeCutShort
<1>3. CASE MergeReports
  BY <1>0, <1>3 DEF MergeReports, CanReport, Unlock
<1>4. ASSUME NEW copied \in SUBSET (job.forks \cap oneBlocks), MoveForks(copied)
      PROVE  TypeOK'
  BY <1>0, <1>4 DEF MoveForks, Unlock, Jobs
<1>5. CASE PruneOldFiles
  BY <1>5 DEF PruneOldFiles, Prunable
<1>6. CASE PruneForkedBlocks
  BY <1>6 DEF PruneForkedBlocks
<1>7. ASSUME NEW f \in deletions, DeleteFile(f) PROVE TypeOK'
  BY <1>7 DEF DeleteFile
<1>8. CASE RequestShutdown \/ OnTerminating
  BY <1>8 DEF RequestShutdown, OnTerminating, Results
<1>9. CASE Exit
  BY <1>9, DownType DEF Exit
<1>10. CASE Crash
  BY <1>10, DownType DEF Crash, Results
<1>11. CASE Restart
  BY <1>11 DEF Restart, Phases, Results
<1>12. ASSUME NEW f \in AllFiles, Upload(f) PROVE TypeOK'
  <2>1. f \in Files
    <3>1. chain \subseteq Nat /\ forks \subseteq Nat
      BY ConstantTypes, ForkAssumption
    <3>. QED BY <3>1, NameType DEF AllFiles
  <2>. QED BY <1>12, <2>1 DEF Upload
<1>13. ASSUME NEW n \in chain, ExternalMerge(n) PROVE TypeOK'
  <2>1. n \in Nat /\ chain \subseteq Nat
    BY ConstantTypes
  <2>2. toBaseNum(n) \in Nat /\ Bundle(toBaseNum(n)) \in SUBSET Nat
    BY <2>1, BaseNum DEF Bundle
  <2>3. merged' = Stored(toBaseNum(n), Bundle(toBaseNum(n)))
    BY <1>13 DEF ExternalMerge
  <2>4. DOMAIN merged' \subseteq Nat /\ merged' \in [DOMAIN merged' -> SUBSET Nat]
    BY <2>2, <2>3, StoredType
  <2>. QED BY <1>13, <2>4 DEF ExternalMerge
<1>14. CASE UNCHANGED vars
  BY <1>14 DEF vars
<1>. QED
  BY <1>1, <1>2, <1>3, <1>4, <1>5, <1>6, <1>7, <1>8, <1>9, <1>10, <1>11,
     <1>12, <1>13, <1>14, <1>15 DEF Next, MergeStep

\* The initial state is well typed.
LEMMA MergerInitType == Init => TypeOK
<1> SUFFICES ASSUME Init PROVE TypeOK
  OBVIOUS
<1>1. NoJob \in Jobs
  BY DEF NoJob, Jobs
<1>2. DOMAIN merged = {} /\ merged \in [DOMAIN merged -> SUBSET Nat]
  BY DEF Init
<1>3. /\ base \in Nat /\ irreversible \subseteq Nat
      /\ seen \subseteq Files /\ enforce \in BOOLEAN
      /\ fLib = NoLib /\ fTarget = NoLib
      /\ fBlocks \subseteq Nat
      /\ cursor \in Nat /\ attempts \in Nat /\ flowing \in Nat
      /\ inProcess \in {"free", "merge", "leaked"}
      /\ job \in Jobs /\ bundleError \in {0, 1}
      /\ deletions \subseteq Files /\ terminating \in BOOLEAN /\ hooked \in BOOLEAN
  BY <1>1, ConstantTypes DEF Init, ProcessInit
<1>4. /\ chain \in Chains /\ forks \in ForkChoices
      /\ uploaded \subseteq Files /\ oneBlocks \subseteq Files
      /\ forkedBlocks \subseteq Files
      /\ phase \in Phases /\ result \in Results
      /\ failures \in Nat /\ restarts \in Nat /\ externals \in Nat
      /\ shortened \subseteq Nat
  BY DEF Init, Phases, Results
<1>. QED BY <1>2, <1>3, <1>4 DEF TypeOK

\* Every variable keeps its type, whatever the constants.
THEOREM MergerTypes == Spec => []TypeOK
<1>1. TypeOK /\ [Next]_vars => TypeOK'
  BY RunType, OtherType
<1>. QED BY <1>1, MergerInitType, PTL DEF Spec

-----------------------------------------------------------------------------
(* The contents of the merged files.  The invariant follows a block from   *)
(* the forkable to its file: what was flowed is collected (FlowInv), what  *)
(* completes a bundle is still collected (LockInv), what the goroutine was *)
(* given is a whole bundle (JobInv), and the ranges skipped are empty but  *)
(* for the last block kept (SkipInv).  After a restart above a file that a *)
(* lost download has cut short, the forkable lacks a block that no walk    *)
(* gives it any more (AfterCut): nothing flows.                            *)

JobInv ==
  job.state = "write" =>
    /\ Bundle(job.base) \subseteq job.blocks
    /\ job.blocks \subseteq chain
    /\ \A n \in job.blocks : n =< job.base + BundleSize

Collected(low, high) ==
  \A n \in chain : low =< n /\ n < high => n \in irreversible

AfterCut ==
  /\ phase \in {"poll", "walk"} /\ fLib # NoLib
  /\ \A n \in fBlocks : n >= base
  /\ phase = "walk" => cursor >= 2 * base
  /\ \E m \in chain : fLib < m /\ m < base

FlowInv ==
  phase \in {"down", "poll", "walk", "emit", "lock"} =>
    /\ irreversible \subseteq chain
    /\ \A n \in irreversible : n =< base + BundleSize
    /\ ~enforce => Collected(base, fLib + 1)
    /\ fLib = NoLib => enforce
    /\ enforce => base = FirstBase
    /\ (\A n \in chain : n > fLib => n >= base) \/ AfterCut

LockInv ==
  phase = "lock" =>
    /\ flowing \in chain /\ flowing >= base + BundleSize
    /\ ~enforce
    /\ Collected(base, flowing)

SkipInv ==
  phase = "skip" =>
    /\ irreversible \subseteq chain
    /\ flowing \in irreversible /\ flowing >= base
    /\ ~enforce
    /\ \A n \in irreversible : n =< base \/ n = flowing
    /\ Collected(base, flowing)

IInv == TypeOK /\ BundleComplete /\ JobInv /\ FlowInv /\ LockInv /\ SkipInv

\* A file that holds a whole bundle of the chain, or the beginning of one that
\* is cut short, keeps the archive complete.
LEMMA StoredComplete ==
  ASSUME TypeOK, BundleComplete, UNCHANGED chain, shortened \subseteq shortened',
         NEW b \in Nat, NEW blocks \in SUBSET Nat, blocks \subseteq chain,
         Bundle(b) \subseteq blocks \/ b \in shortened',
         \A n \in blocks : \A m \in Bundle(b) : m < n => m \in blocks,
         \A n \in blocks : n =< b + BundleSize,
         merged' = Stored(b, blocks)
  PROVE  BundleComplete'
<1>1. /\ DOMAIN merged' = DOMAIN merged \cup {b}
      /\ merged'[b] = {n \in blocks : n >= b}
      /\ \A c \in DOMAIN merged : c # b => merged'[c] = merged[c]
  BY StoredType
<1>2. \A c : Bundle(c)' = Bundle(c)
  BY DEF Bundle
<1>3. /\ b \notin shortened' => Bundle(b) \subseteq merged'[b]
      /\ merged'[b] \subseteq chain
      /\ \A n \in merged'[b] : \A m \in Bundle(b) : m < n => m \in merged'[b]
      /\ \A n \in merged'[b] : b =< n /\ n =< b + BundleSize
  BY <1>1, SizeAssumption, ConstantTypes DEF Bundle, TypeOK
<1>. QED BY <1>1, <1>2, <1>3 DEF BundleComplete

\* The process that goes down leaves the stores and nothing to follow.
LEMMA DownComplete ==
  ASSUME IInv, TypeOK', NEW r, GoDown(r),
         UNCHANGED <<chainVars, storeVars, boundVars>>
  PROVE  IInv'
<1>1. UNCHANGED <<chain, merged, shortened>>
  BY DEF chainVars, storeVars, boundVars
<1>2. BundleComplete'
  BY <1>1 DEF IInv, BundleComplete, Bundle
<1>3. JobInv' /\ LockInv' /\ SkipInv'
  BY DEF GoDown, JobInv, LockInv, SkipInv, NoJob
<1>4. FlowInv'
  BY <1>1, ConstantTypes, SizeAssumption
     DEF GoDown, FlowInv, NoLib, IInv, TypeOK
<1>. QED BY <1>2, <1>3, <1>4 DEF IInv

\* The poll: NextBundle restarts right above the last block of a whole file.
LEMMA PollComplete ==
  ASSUME IInv, TypeOK', PollTerminating \/ PollSame \/ PollReset \/ PollPanic
  PROVE  IInv'
<1>. USE DEF chainVars, storeVars, forkdbVars, bundleVars, mergeVars, boundVars
<1>1. CASE PollTerminating
  BY <1>1 DEF PollTerminating, IInv, BundleComplete, Bundle, JobInv, FlowInv,
              LockInv, SkipInv
<1>2. CASE PollSame
  <2>1. /\ phase = "poll" /\ phase' = "walk"
        /\ cursor' = Name(File(base, FALSE))
        /\ UNCHANGED <<chain, merged, shortened, job, base, irreversible,
                       enforce, fLib, fBlocks>>
    BY <1>2 DEF PollSame, StartWalk
  <2>2. cursor' >= 2 * base
    BY <2>1 DEF IInv, TypeOK, Name, File
  <2>3. AfterCut => AfterCut'
    BY <2>1, <2>2 DEF AfterCut
  <2>4. FlowInv'
    BY <2>1, <2>3 DEF IInv, FlowInv, Collected
  <2>. QED BY <2>1, <2>4 DEF IInv, BundleComplete, Bundle, JobInv, LockInv, SkipInv
<1>3. CASE PollReset
  <2>1. PICK b \in BundleEnds :
          /\ NextBundle(b) /\ b > base
          /\ \E lib \in merged[b - BundleSize] :
               /\ \A n \in merged[b - BundleSize] : n =< lib
               /\ Reset(b, lib)
          /\ StartWalk(b)
    BY <1>3 DEF PollReset
  <2>2. PICK lib \in merged[b - BundleSize] :
          /\ \A n \in merged[b - BundleSize] : n =< lib
          /\ Reset(b, lib)
    BY <2>1
  <2>3. base \in Nat /\ b \in Nat /\ b - BundleSize \in DOMAIN merged
        /\ b - BundleSize \in Nat
    BY <2>1, SizeAssumption DEF BundleEnds, NextBundle, IInv, TypeOK
  <2>4. lib \in chain /\ b - BundleSize =< lib /\ lib =< b
    BY <2>2, <2>3, SizeAssumption DEF IInv, BundleComplete, TypeOK
  <2>5. UNCHANGED <<chain, merged, shortened, job>> /\ chain \subseteq Nat
    BY <1>3, ConstantTypes DEF PollReset, IInv, TypeOK
  <2>6. BundleComplete' /\ JobInv'
    BY <2>5 DEF IInv, BundleComplete, Bundle, JobInv
  <2>7. phase' = "walk"
    BY <2>1 DEF StartWalk
  <2>8. /\ base' = b /\ irreversible' = {} /\ enforce' = FALSE
        /\ fLib' = (IF lib >= b THEN lib - 1 ELSE lib) /\ fBlocks' = {}
    <3>1. lib \in Nat
      BY <2>4, <2>5
    <3>2. lib # NoLib
      BY <3>1 DEF NoLib
    <3>. QED BY <2>2, <3>2 DEF Reset, LibFlowed
  <2>10. fLib' < b /\ fLib' # NoLib /\ fLib' \in Int
    BY <2>1, <2>3, <2>4, <2>5, <2>8 DEF NoLib
  <2>9. (\A n \in chain : n > fLib' => n >= b) \/ AfterCut'
    <3>1. ASSUME NEW n \in chain, n > fLib', ~(n >= b) PROVE AfterCut'
      <4>1. cursor' >= 2 * base'
        BY <2>1, <2>3, <2>8 DEF StartWalk, Name, File
      <4>2. fLib' < n /\ n < base'
        BY <2>3, <2>5, <2>8, <2>10, <3>1
      <4>. QED BY <2>5, <2>7, <2>8, <2>10, <4>1, <4>2 DEF AfterCut
    <3>. QED BY <3>1
  <2>11. FlowInv'
    BY <2>5, <2>8, <2>9, <2>10, <2>3 DEF FlowInv, Collected, NoLib
  <2>. QED BY <2>6, <2>7, <2>11 DEF IInv, LockInv, SkipInv
<1>4. CASE PollPanic
  BY <1>4, DownComplete DEF PollPanic
<1>. QED BY <1>1, <1>2, <1>3, <1>4

\* A walk from the base on does not give the block that the forkable lacks.
LEMMA CutStays ==
  ASSUME TypeOK, AfterCut, WalkFile
  PROVE  fLib' = fLib /\ AfterCut'
<1>1. PICK f \in oneBlocks :
        /\ NextFile(f) /\ cursor' = Name(f) + 1
        /\ fBlocks' \in {fBlocks, fBlocks \cup {f.num}}
        /\ \/ UNCHANGED <<forkdbVars, phase>>
           \/ UNCHANGED <<fLib, fTarget, phase>>
           \/ Linked(fLib, f.num)
  <2>1. fLib # NoLib
    BY DEF AfterCut
  <2>. QED BY <2>1 DEF WalkFile, forkdbVars
<1>2. /\ phase = "walk" /\ UNCHANGED <<chain, base>>
      /\ cursor \in Nat /\ base \in Nat /\ f.num \in Nat
      /\ chain \subseteq Nat /\ fLib \in Nat
  BY ConstantTypes DEF WalkFile, TypeOK, AfterCut, Files, chainVars
<1>3. cursor =< Name(f) /\ cursor >= 2 * base
  BY <1>1, <1>2 DEF NextFile, AfterCut
<1>4. f.num >= base /\ cursor' >= 2 * base
  BY <1>1, <1>2, <1>3 DEF Name
<1>5. PICK m \in chain : fLib < m /\ m < base
  BY DEF AfterCut
<1>6. ~Linked(fLib, f.num)
  BY <1>2, <1>4, <1>5 DEF Linked, AfterCut
<1>7. fLib' = fLib /\ phase' = "walk"
  BY <1>1, <1>2, <1>6 DEF forkdbVars
<1>8. \A n \in fBlocks' : n >= base
  BY <1>1, <1>2, <1>4 DEF AfterCut
<1>. QED BY <1>2, <1>4, <1>5, <1>7, <1>8 DEF AfterCut

\* The walk: the forkable learns of blocks, the bundler collects none.
LEMMA WalkComplete ==
  ASSUME IInv, TypeOK', WalkFile \/ WalkDone
  PROVE  IInv'
<1>. USE DEF chainVars, storeVars, forkdbVars, bundleVars, mergeVars, boundVars
<1>1. CASE WalkFile
  <2>1. UNCHANGED <<chain, merged, shortened, job, base, irreversible, enforce>>
    BY <1>1 DEF WalkFile
  <2>2. phase = "walk" /\ phase' \in {"walk", "emit"}
    BY <1>1 DEF WalkFile
  <2>3. \/ fLib' = fLib
        \/ fLib = NoLib /\ \E lib \in Nat : fLib' = lib - 1
    <3>1. \A f \in oneBlocks : f.num \in Nat
      BY DEF IInv, TypeOK, Files
    <3>. QED BY <1>1, <3>1 DEF WalkFile, IInv, TypeOK
  <2>4. chain \subseteq Nat /\ \A n \in chain : FirstBase =< n
    BY ConstantTypes DEF IInv, TypeOK
  <2>5. BundleComplete' /\ JobInv' /\ LockInv' /\ SkipInv'
    BY <2>1, <2>2 DEF IInv, BundleComplete, Bundle, JobInv, LockInv, SkipInv
  <2>7. AfterCut => fLib' = fLib /\ AfterCut'
    BY <1>1, CutStays DEF IInv
  <2>6. FlowInv'
    <3>1. CASE fLib' = fLib
      BY <2>1, <2>2, <2>7, <3>1 DEF IInv, FlowInv, Collected
    <3>2. CASE fLib = NoLib /\ \E lib \in Nat : fLib' = lib - 1
      <4>1. enforce /\ base = FirstBase
        BY <2>2, <3>2 DEF IInv, FlowInv
      <4>2. fLib' # NoLib \/ enforce
        BY <4>1
      <4>. QED BY <2>1, <2>2, <2>4, <3>2, <4>1 DEF IInv, FlowInv, Collected
    <3>. QED BY <2>3, <3>1, <3>2
  <2>. QED BY <2>5, <2>6 DEF IInv
<1>2. CASE WalkDone
  BY <1>2 DEF WalkDone, IInv, BundleComplete, Bundle, JobInv, FlowInv,
              LockInv, SkipInv, Collected, AfterCut
<1>. QED BY <1>1, <1>2

\* Only the first bundle is checked against the boundary.
LEMMA CompletesUnenforced ==
  ASSUME IInv, phase = "emit", NEW n \in chain, Accepted(n), n >= base + BundleSize
  PROVE  ~enforce
<1>1. n \in Nat /\ base \in Nat
  BY ConstantTypes DEF IInv, TypeOK
<1>2. enforce => base = FirstBase /\ OnBoundary(n)
  BY DEF IInv, FlowInv, Accepted
<1>3. FirstStreamable < FirstBase + BundleSize
  BY BaseNum, SizeAssumption DEF FirstBase
<1>. QED BY <1>1, <1>2, <1>3, SizeAssumption DEF OnBoundary

\* What is below an accepted block has been collected.
LEMMA CollectedBelow ==
  ASSUME IInv, phase = "emit", NEW n \in chain, Accepted(n)
  PROVE  Collected(base, n)
<1>1. n \in Nat /\ base \in Nat /\ chain \subseteq Nat
      /\ fLib \in Nat \cup {NoLib}
  BY ConstantTypes DEF IInv, TypeOK
<1>2. CASE enforce
  <2>1. n = base \/ n = FirstStreamable
    BY <1>2 DEF Accepted, OnBoundary
  <2>2. \A m \in chain : FirstStreamable =< m
    BY ChainAssumption DEF IInv, TypeOK
  <2>. QED BY <1>1, <2>1, <2>2, SizeAssumption DEF Collected
<1>3. CASE ~enforce
  <2>1. Collected(base, fLib + 1)
    BY <1>3 DEF IInv, FlowInv
  <2>2. \A m \in chain : fLib < m => n =< m
    BY DEF Accepted, NextFinal
  <2>. QED BY <1>1, <2>1, <2>2 DEF Collected, NoLib
<1>. QED BY <1>2, <1>3

\* ProcessBlock up to the lock: each final block is collected or completes
\* the bundle.
LEMMA EmitComplete ==
  ASSUME IInv, TypeOK',
         \/ FinalRefused \/ FinalKept \/ FinalSeesError
         \/ FinalCompletes \/ FlowDone
  PROVE  IInv'
<1>. USE DEF chainVars, storeVars, forkdbVars, bundleVars, mergeVars, boundVars
<1>1. UNCHANGED <<chain, merged, shortened, job>> /\ phase = "emit"
  BY DEF FinalRefused, FinalKept, FinalSeesError, FinalCompletes, FlowDone
<1>2. BundleComplete' /\ JobInv'
  BY <1>1 DEF IInv, BundleComplete, Bundle, JobInv
<1>3. chain \subseteq Nat /\ base \in Nat /\ \A n \in chain : FirstBase =< n
  BY ConstantTypes DEF IInv, TypeOK
<1>4. CASE FinalRefused
  <2>1. CASE attempts + 1 < WalkAttempts
    <3>1. Reset(base, NoLib) /\ phase' = "walk"
      BY <1>4, <2>1 DEF FinalRefused
    <3>2. base' = base /\ irreversible' = {} /\ enforce' = TRUE
      BY <3>1 DEF Reset
    <3>3. enforce
      BY <1>4 DEF FinalRefused
    <3>4. base = FirstBase
      BY <1>1, <3>3 DEF IInv, FlowInv
    <3>5. FlowInv'
      BY <1>1, <1>3, <3>2, <3>4 DEF FlowInv
    <3>. QED BY <1>2, <3>1, <3>5 DEF IInv, LockInv, SkipInv
  <2>2. CASE ~(attempts + 1 < WalkAttempts)
    <3>1. phase' = "returned"
      BY <1>4, <2>2 DEF FinalRefused, RunReturns
    <3>. QED BY <1>2, <3>1 DEF IInv, FlowInv, LockInv, SkipInv
  <2>. QED BY <2>1, <2>2
<1>5. CASE FinalKept
  <2>1. PICK n \in chain : /\ Accepted(n) /\ n < base + BundleSize
                           /\ irreversible' = irreversible \cup {n}
                           /\ fLib' = n
    BY <1>5 DEF FinalKept
  <2>2. phase' = "emit" /\ enforce' = FALSE /\ base' = base
    BY <1>1, <1>5 DEF FinalKept
  <2>3. Collected(base, n)
    BY <1>1, <2>1, CollectedBelow
  <2>4. n \in Nat /\ n >= base
    BY <1>3, <2>1 DEF Accepted
  <2>5. irreversible \subseteq chain /\ \A m \in irreversible : m =< base + BundleSize
    BY <1>1 DEF IInv, FlowInv
  <2>6. Collected(base, fLib + 1)'
    <3>1. \A m \in chain : base =< m /\ m < n + 1 => m \in irreversible'
      BY <1>3, <2>1, <2>3, <2>4 DEF Collected
    <3>. QED BY <1>1, <2>1, <2>2, <3>1 DEF Collected
  <2>7. \A m \in irreversible' : m =< base + BundleSize
    BY <1>3, <2>1, <2>4, <2>5, SizeAssumption
  <2>8. \A m \in chain : m > n => m >= base
    BY <1>3, <2>4
  <2>9. irreversible' \subseteq chain /\ fLib' # NoLib
    BY <2>1, <2>4, <2>5 DEF NoLib
  <2>10. FlowInv'
    BY <1>1, <2>1, <2>2, <2>6, <2>7, <2>8, <2>9 DEF FlowInv
  <2>. QED BY <1>2, <2>2, <2>10 DEF IInv, LockInv, SkipInv
<1>6. CASE FinalSeesError
  <2>1. phase' = "returned"
    BY <1>6 DEF FinalSeesError, RunReturns
  <2>. QED BY <1>2, <2>1 DEF IInv, FlowInv, LockInv, SkipInv
<1>7. CASE FinalCompletes
  <2>1. PICK n \in chain : /\ Accepted(n) /\ n >= base + BundleSize
                           /\ flowing' = n
    BY <1>7 DEF FinalCompletes
  <2>2. /\ phase' = "lock" /\ enforce' = FALSE
        /\ UNCHANGED <<base, irreversible, fLib>>
    BY <1>7 DEF FinalCompletes
  <2>3. ~enforce
    BY <1>1, <2>1, CompletesUnenforced
  <2>4. Collected(base, n)
    BY <1>1, <2>1, CollectedBelow
  <2>5. LockInv'
    BY <1>1, <2>1, <2>2, <2>4 DEF LockInv, Collected
  <2>6. FlowInv'
    BY <1>1, <2>2, <2>3 DEF IInv, FlowInv, Collected, AfterCut
  <2>. QED BY <1>2, <2>2, <2>5, <2>6 DEF IInv, SkipInv
<1>8. CASE FlowDone
  <2>1. phase' = "walk" /\ UNCHANGED <<base, irreversible, enforce, fLib>>
    BY <1>8 DEF FlowDone
  <2>2. FlowInv'
    BY <1>1, <2>1 DEF IInv, FlowInv, Collected, AfterCut
  <2>. QED BY <1>2, <2>1, <2>2 DEF IInv, LockInv, SkipInv
<1>. QED BY <1>4, <1>5, <1>6, <1>7, <1>8

\* The lock and the skipped ranges: a bundle that is left was whole.
LEMMA BundleLeft ==
  ASSUME IInv, TypeOK',
         \/ StartMerge \/ EmptyBundlePanic
         \/ SkipStored \/ SkipFails \/ SkipDone
  PROVE  IInv'
<1>. USE DEF chainVars, storeVars, forkdbVars, bundleVars, mergeVars, boundVars
<1>1. UNCHANGED chain /\ chain \subseteq Nat /\ base \in Nat
      /\ irreversible \subseteq Nat
  BY ConstantTypes
     DEF StartMerge, EmptyBundlePanic, SkipStored, SkipFails, SkipDone, IInv,
         TypeOK
<1>2. CASE StartMerge
  <2>1. PICK last \in irreversible : /\ \A n \in irreversible : n =< last
                                     /\ irreversible' = {last, flowing}
    BY <1>2 DEF StartMerge
  <2>2. /\ phase = "lock" /\ phase' = "skip"
        /\ base' = base + BundleSize
        /\ job' = [state |-> "write", base |-> base, blocks |-> irreversible,
                   forks |-> Leftovers]
        /\ UNCHANGED <<merged, shortened, enforce, flowing>>
    BY <1>2 DEF StartMerge
  <2>3. /\ flowing \in chain /\ flowing >= base + BundleSize /\ ~enforce
        /\ Collected(base, flowing)
        /\ irreversible \subseteq chain
        /\ \A n \in irreversible : n =< base + BundleSize
    BY <2>2 DEF IInv, LockInv, FlowInv
  <2>4. BundleComplete'
    BY <1>1, <2>2 DEF IInv, BundleComplete, Bundle
  <2>5. JobInv'
    <3>1. Bundle(base) \subseteq irreversible
      <4>1. flowing \in Nat
        BY <1>1, <2>3
      <4>2. ASSUME NEW n \in Bundle(base) PROVE n \in irreversible
        <5>1. n \in chain /\ base =< n /\ n < base + BundleSize
          BY <4>2 DEF Bundle
        <5>2. n < flowing
          BY <1>1, <2>3, <4>1, <5>1, SizeAssumption
        <5>. QED BY <2>3, <5>1, <5>2 DEF Collected
      <4>. QED BY <4>2
    <3>4. job'.base = base /\ job'.blocks = irreversible
      BY <2>2
    <3>. QED BY <1>1, <2>3, <3>1, <3>4 DEF JobInv, Bundle
  <2>6. SkipInv'
    <3>1. \A n \in irreversible' : n =< base' \/ n = flowing
      BY <2>1, <2>2, <2>3
    <3>2. \A n \in chain : base' =< n /\ n < flowing => n \in irreversible'
      BY <1>1, <2>1, <2>2, <2>3, SizeAssumption DEF Collected
    <3>3. Collected(base, flowing)'
      BY <1>1, <2>2, <3>2 DEF Collected
    <3>4. irreversible' \subseteq chain /\ flowing \in irreversible'
      BY <2>1, <2>3
    <3>. QED BY <1>1, <2>2, <2>3, <3>1, <3>3, <3>4 DEF SkipInv
  <2>. QED BY <2>2, <2>4, <2>5, <2>6 DEF IInv, FlowInv, LockInv
<1>3. CASE EmptyBundlePanic
  BY <1>3, DownComplete DEF EmptyBundlePanic
<1>4. CASE SkipStored
  <2>1. /\ phase = "skip" /\ phase' = "skip"
        /\ flowing > base + BundleSize
        /\ merged' = Stored(base, irreversible \ {flowing})
        /\ base' = base + BundleSize
        /\ UNCHANGED <<irreversible, enforce, job, flowing, shortened>>
    BY <1>4 DEF SkipStored, SkipsBundle
  <2>2. /\ irreversible \subseteq chain /\ flowing \in irreversible /\ ~enforce
        /\ \A n \in irreversible : n =< base \/ n = flowing
        /\ Collected(base, flowing)
    BY <2>1 DEF IInv, SkipInv
  <2>3. BundleComplete'
    <3>1. Bundle(base) \subseteq irreversible \ {flowing}
      <4>1. flowing \in Nat
        BY <1>1, <2>2
      <4>2. ASSUME NEW n \in Bundle(base) PROVE n \in irreversible \ {flowing}
        <5>1. n \in chain /\ base =< n /\ n < base + BundleSize
          BY <4>2 DEF Bundle
        <5>2. n < flowing
          BY <1>1, <2>1, <4>1, <5>1, SizeAssumption
        <5>3. n \in irreversible
          BY <2>2, <5>1, <5>2 DEF Collected
        <5>. QED BY <1>1, <4>1, <5>1, <5>2, <5>3
      <4>. QED BY <4>2
    <3>2. irreversible \ {flowing} \subseteq chain
      BY <2>2
    <3>3. \A n \in irreversible \ {flowing} : n =< base + BundleSize
      BY <1>1, <2>2, SizeAssumption
    <3>4. irreversible \ {flowing} \in SUBSET Nat /\ TypeOK /\ BundleComplete
      BY <1>1 DEF IInv
    <3>5. \A n \in irreversible \ {flowing} : \A m \in Bundle(base) :
            m < n => m \in irreversible \ {flowing}
      BY <3>1
    <3>. QED BY <1>1, <2>1, <3>1, <3>2, <3>3, <3>4, <3>5, StoredComplete
  <2>4. JobInv'
    BY <1>1, <2>1 DEF IInv, JobInv, Bundle
  <2>5. SkipInv'
    <3>1. flowing \in Nat
      BY <1>1, <2>2
    <3>2. \A n \in chain : base' =< n /\ n < flowing => n \in irreversible'
      BY <1>1, <2>1, <2>2, SizeAssumption DEF Collected
    <3>3. Collected(base, flowing)'
      BY <1>1, <2>1, <3>2 DEF Collected
    <3>4. \A n \in irreversible' : n =< base' \/ n = flowing
      BY <1>1, <2>1, <2>2, SizeAssumption
    <3>5. flowing >= base'
      BY <1>1, <2>1, <3>1, SizeAssumption
    <3>. QED BY <1>1, <2>1, <2>2, <3>3, <3>4, <3>5 DEF SkipInv
  <2>. QED BY <2>1, <2>3, <2>4, <2>5 DEF IInv, FlowInv, LockInv
<1>5. CASE SkipFails
  <2>1. phase' = "returned" /\ UNCHANGED <<merged, shortened, job>>
    BY <1>5 DEF SkipFails, RunReturns
  <2>. QED BY <1>1, <2>1
           DEF IInv, BundleComplete, Bundle, JobInv, FlowInv, LockInv, SkipInv
<1>6. CASE SkipDone
  <2>1. /\ phase = "skip" /\ phase' \in {"emit", "returned"}
        /\ ~(flowing > base + BundleSize)
        /\ fLib' = flowing
        /\ UNCHANGED <<merged, shortened, job, base, irreversible, enforce>>
    BY <1>6 DEF SkipDone, SkipsBundle, RunReturns
  <2>2. /\ irreversible \subseteq chain /\ flowing \in irreversible /\ ~enforce
        /\ \A n \in irreversible : n =< base \/ n = flowing
        /\ Collected(base, flowing) /\ flowing >= base
    BY <2>1 DEF IInv, SkipInv
  <2>3. BundleComplete' /\ JobInv'
    BY <1>1, <2>1 DEF IInv, BundleComplete, JobInv, Bundle
  <2>4. FlowInv'
    <3>1. flowing \in Nat /\ fLib' # NoLib
      BY <1>1, <2>1, <2>2 DEF NoLib
    <3>2. \A n \in irreversible : n =< base + BundleSize
      BY <1>1, <2>1, <2>2, <3>1, SizeAssumption
    <3>3. \A n \in chain : base =< n /\ n < flowing + 1 => n \in irreversible
      BY <1>1, <2>2, <3>1 DEF Collected
    <3>4. Collected(base, fLib + 1)'
      BY <1>1, <2>1, <3>3 DEF Collected
    <3>5. \A n \in chain : n > flowing => n >= base
      BY <1>1, <2>2, <3>1
    <3>. QED BY <1>1, <2>1, <2>2, <3>1, <3>2, <3>4, <3>5 DEF FlowInv
  <2>. QED BY <2>1, <2>3, <2>4 DEF IInv, LockInv, SkipInv
<1>. QED BY <1>2, <1>3, <1>4, <1>5, <1>6

\* The steps that write no merged file and leave the bundler alone.
LEMMA OthersComplete ==
  ASSUME IInv, TypeOK',
         chain' = chain, base' = base, irreversible' = irreversible,
         enforce' = enforce, merged' = merged, fLib' = fLib,
         flowing' = flowing, fBlocks' = fBlocks, cursor' = cursor,
         shortened' = shortened,
         job' = job \/ job'.state # "write",
         phase' = phase \/ (phase = "down" /\ phase' = "poll")
  PROVE  IInv'
<1>1. BundleComplete'
  BY DEF IInv, BundleComplete, Bundle
<1>2. JobInv'
  BY DEF IInv, JobInv, Bundle
<1>3. FlowInv'
  BY DEF IInv, FlowInv, Collected, AfterCut
<1>4. LockInv' /\ SkipInv'
  BY DEF IInv, LockInv, SkipInv, Collected
<1>. QED BY <1>1, <1>2, <1>3, <1>4 DEF IInv

\* Another merged file, whole or cut short, leaves the process alone.
LEMMA WriterComplete ==
  ASSUME IInv, TypeOK',
         chain' = chain, base' = base, irreversible' = irreversible,
         enforce' = enforce, fLib' = fLib, flowing' = flowing, phase' = phase,
         fBlocks' = fBlocks, cursor' = cursor, shortened \subseteq shortened',
         job' = job \/ job'.state # "write",
         NEW b \in Nat, NEW blocks \in SUBSET Nat, blocks \subseteq chain,
         Bundle(b) \subseteq blocks \/ b \in shortened',
         \A n \in blocks : \A m \in Bundle(b) : m < n => m \in blocks,
         \A n \in blocks : n =< b + BundleSize,
         merged' = Stored(b, blocks)
  PROVE  IInv'
<1>1. BundleComplete'
  BY StoredComplete DEF IInv
<1>2. JobInv'
  BY DEF IInv, JobInv, Bundle
<1>3. FlowInv'
  BY DEF IInv, FlowInv, Collected, AfterCut
<1>4. LockInv' /\ SkipInv'
  BY DEF IInv, LockInv, SkipInv, Collected
<1>. QED BY <1>1, <1>2, <1>3, <1>4 DEF IInv

\* The inductive step.
LEMMA IInvKept == IInv /\ [Next]_vars => IInv'
<1> SUFFICES ASSUME IInv, [Next]_vars PROVE IInv'
  OBVIOUS
<1>. USE DEF chainVars, storeVars, forkdbVars, bundleVars, walkVars, mergeVars,
             boundVars
<1>1. TypeOK'
  BY RunType, OtherType DEF IInv
<1>2. CASE RunStep
  BY <1>1, <1>2, PollComplete, WalkComplete, EmitComplete, BundleLeft
     DEF RunStep
<1>3. CASE MergeStored
  <2>1. /\ Bundle(job.base) \subseteq job.blocks /\ job.blocks \subseteq chain
        /\ \A n \in job.blocks : n =< job.base + BundleSize
        /\ merged' = Stored(job.base, job.blocks)
    BY <1>3 DEF MergeStored, IInv, JobInv
  <2>2. job.base \in Nat /\ job.blocks \in SUBSET Nat /\ job'.state # "write"
    BY <1>3 DEF MergeStored, IInv, TypeOK, Jobs
  <2>3. UNCHANGED <<chain, base, irreversible, enforce, fLib, flowing, phase,
                    fBlocks, cursor, shortened>>
    BY <1>3 DEF MergeStored
  <2>4. \A n \in job.blocks : \A m \in Bundle(job.base) : m < n => m \in job.blocks
    BY <2>1
  <2>. QED BY <1>1, <2>1, <2>2, <2>3, <2>4, WriterComplete
<1>17. CASE MergeCutShort
  <2>1. PICK cut \in job.blocks :
          merged' = Stored(job.base, {n \in job.blocks : n < cut})
    BY <1>17 DEF MergeCutShort
  <2> DEFINE kept == {n \in job.blocks : n < cut}
  <2>2. /\ Bundle(job.base) \subseteq job.blocks /\ job.blocks \subseteq chain
        /\ \A n \in job.blocks : n =< job.base + BundleSize
    BY <1>17 DEF MergeCutShort, IInv, JobInv
  <2>3. job.base \in Nat /\ job.blocks \in SUBSET Nat /\ job'.state # "write"
    BY <1>17 DEF MergeCutShort, IInv, TypeOK, Jobs
  <2>4. /\ UNCHANGED <<chain, base, irreversible, enforce, fLib, flowing, phase,
                       fBlocks, cursor>>
        /\ shortened \subseteq shortened' /\ job.base \in shortened'
    BY <1>17 DEF MergeCutShort
  <2>5. kept \in SUBSET Nat /\ kept \subseteq chain
        /\ \A n \in kept : n =< job.base + BundleSize
    BY <2>2, <2>3
  <2>6. \A n \in kept : \A m \in Bundle(job.base) : m < n => m \in kept
    BY <2>2, <2>3
  <2>. QED BY <1>1, <2>1, <2>3, <2>4, <2>5, <2>6, WriterComplete
<1>4. CASE MergeFails
  <2>1. job'.state # "write"
    BY <1>4 DEF MergeFails, IInv, TypeOK, Jobs
  <2>. QED BY <1>1, <1>4, <2>1, OthersComplete DEF MergeFails
<1>5. CASE MergeReports
  BY <1>1, <1>5, OthersComplete DEF MergeReports, NoJob
<1>6. ASSUME NEW copied \in SUBSET (job.forks \cap oneBlocks), MoveForks(copied)
      PROVE  IInv'
  BY <1>1, <1>6, OthersComplete DEF MoveForks, NoJob
<1>7. CASE PruneOldFiles
  BY <1>1, <1>7, OthersComplete DEF PruneOldFiles
<1>8. CASE PruneForkedBlocks
  BY <1>1, <1>8, OthersComplete DEF PruneForkedBlocks
<1>9. ASSUME NEW f \in deletions, DeleteFile(f) PROVE IInv'
  BY <1>1, <1>9, OthersComplete DEF DeleteFile
<1>10. CASE RequestShutdown \/ OnTerminating
  BY <1>1, <1>10, OthersComplete DEF RequestShutdown, OnTerminating
<1>11. CASE Exit
  BY <1>1, <1>11, DownComplete DEF Exit
<1>12. CASE Crash
  BY <1>1, <1>12, DownComplete DEF Crash
<1>13. CASE Restart
  BY <1>1, <1>13, OthersComplete DEF Restart
<1>14. ASSUME NEW f \in AllFiles, Upload(f) PROVE IInv'
  BY <1>1, <1>14, OthersComplete DEF Upload
<1>15. ASSUME NEW n \in chain, ExternalMerge(n) PROVE IInv'
  <2>1. chain \subseteq Nat
    BY ConstantTypes DEF IInv, TypeOK
  <2>2. toBaseNum(n) \in Nat
    BY <2>1, BaseNum
  <2>3. Bundle(toBaseNum(n)) \in SUBSET Nat /\ Bundle(toBaseNum(n)) \subseteq chain
    BY <2>1 DEF Bundle
  <2>5. \A m \in Bundle(toBaseNum(n)) : m =< toBaseNum(n) + BundleSize
    BY <2>1, <2>2, SizeAssumption DEF Bundle
  <2>4. /\ merged' = Stored(toBaseNum(n), Bundle(toBaseNum(n)))
        /\ UNCHANGED <<chain, base, irreversible, enforce, fLib, flowing, phase,
                       fBlocks, cursor, shortened, job>>
    BY <1>15 DEF ExternalMerge
  <2>6. \A h \in Bundle(toBaseNum(n)) :
          \A m \in Bundle(toBaseNum(n)) : m < h => m \in Bundle(toBaseNum(n))
    OBVIOUS
  <2>. QED BY <1>1, <2>2, <2>3, <2>4, <2>5, <2>6, WriterComplete
<1>16. CASE UNCHANGED vars
  BY <1>1, <1>16, OthersComplete DEF vars
<1>. QED
  BY <1>2, <1>3, <1>4, <1>5, <1>6, <1>7, <1>8, <1>9, <1>10, <1>11, <1>12,
     <1>13, <1>14, <1>15, <1>16, <1>17 DEF Next, MergeStep

\* The invariant holds at the start.
LEMMA IInvStarts == Init => IInv
<1> SUFFICES ASSUME Init PROVE IInv
  OBVIOUS
<1>1. TypeOK
  BY MergerInitType
<1>2. BundleComplete
  BY DEF Init, BundleComplete
<1>3. JobInv /\ LockInv /\ SkipInv
  BY DEF Init, ProcessInit, NoJob, JobInv, LockInv, SkipInv
<1>4. FlowInv
  BY ConstantTypes, <1>1 DEF Init, ProcessInit, FlowInv, TypeOK
<1>. QED BY <1>1, <1>2, <1>3, <1>4 DEF IInv

\* For every chain, bundle size, crash, failure and foreign writer: a merged
\* file holds the blocks of its range in a row from the first one, nothing
\* beyond its bounds, and all of them unless a download was lost.
THEOREM MergedFilesComplete == Spec => []BundleComplete
<1>1. IInv => BundleComplete
  BY DEF IInv
<1>. QED BY <1>1, IInvStarts, IInvKept, PTL DEF Spec

\* The early return of ProcessBlock for a block below the base is never taken.
THEOREM NeverBelowBase == Spec => []NothingBelowBase
<1>1. IInv => NothingBelowBase
  <2> SUFFICES ASSUME IInv, phase = "emit", NEW n \in chain, NextFinal(n)
               PROVE  n >= base
    BY DEF NothingBelowBase
  <2>1. \A m \in chain : m > fLib => m >= base
    BY DEF IInv, FlowInv, AfterCut
  <2>2. n \in Nat /\ fLib \in Int
    BY ConstantTypes DEF IInv, TypeOK, NoLib
  <2>. QED BY <2>1, <2>2 DEF NextFinal
<1>. QED BY <1>1, IInvStarts, IInvKept, PTL DEF Spec

-----------------------------------------------------------------------------
(* The pruners and the shutdown, when no store write fails.  They meet the *)
(* goroutine that merges on inProcess only: who finds it free finds no     *)
(* merge under way (CalmInv), so that all below the base is in a file      *)
(* (BaseInv), whatever the pruner and the mover have queued (FilesInv).    *)

\* The stores answer: no write of a merged or forked file fails.
StoresAnswer == MaxFailures = 0

CalmInv ==
  /\ failures = 0 /\ bundleError = 0 /\ shortened = {}
  /\ job.state \in {"idle", "write", "move"}
  /\ inProcess # "leaked"
  /\ inProcess = "free" => job.state = "idle"

Merging(n) == job.state = "write" /\ job.base =< n /\ n < job.base + BundleSize

BaseInv == \A n \in chain : n < base => Covered(n) \/ Merging(n)

Spare(f) == f.forked \/ f.num \notin chain \/ Covered(f.num)

FilesInv ==
  /\ \A f \in deletions : Spare(f)
  /\ \A f \in job.forks : Spare(f)
  /\ \A n \in chain : File(n, FALSE) \in uploaded \ oneBlocks => Covered(n)

HookInv == hooked => terminating

StopInv ==
  result = "stop" =>
    \/ /\ phase = "returned" /\ base >= StopBlock
       /\ hooked => \A n \in chain : n < StopBlock => Covered(n)
    \/ phase = "down" /\ \A n \in chain : n < StopBlock => Covered(n)

CoverInv ==
  IInv /\ CalmInv /\ BaseInv /\ FilesInv /\ HookInv /\ StopInv

\* The run loop, the bundler and the stores but for one file: no other step
\* takes a merged file away, and the chain is what it is.
LEMMA MergedGrows ==
  ASSUME TypeOK, [Next]_vars
  PROVE  chain' = chain /\ DOMAIN merged \subseteq DOMAIN merged'
<1>. USE DEF chainVars, storeVars, Stored, GoDown
<1>1. CASE RunStep
  BY <1>1 DEF RunStep, PollTerminating, PollSame, PollReset, PollPanic,
     WalkFile, WalkDone, FinalRefused, FinalKept, FinalSeesError,
     FinalCompletes, FlowDone, StartMerge, EmptyBundlePanic, SkipStored,
     SkipFails, SkipDone
<1>2. CASE MergeStep
  BY <1>2 DEF MergeStep, MergeStored, MergeCutShort, MergeFails, MergeReports,
     MoveForks
<1>3. ASSUME NEW n \in chain, ExternalMerge(n)
      PROVE  chain' = chain /\ DOMAIN merged \subseteq DOMAIN merged'
  BY <1>3 DEF ExternalMerge
<1>4. ASSUME \/ PruneOldFiles \/ PruneForkedBlocks
             \/ \E f \in deletions : DeleteFile(f)
             \/ RequestShutdown \/ OnTerminating \/ Exit \/ Crash \/ Restart
             \/ \E f \in AllFiles : Upload(f)
             \/ UNCHANGED vars
      PROVE  chain' = chain /\ DOMAIN merged \subseteq DOMAIN merged'
  BY <1>4 DEF PruneOldFiles, PruneForkedBlocks, DeleteFile, RequestShutdown,
     OnTerminating,
     Exit, Crash, Restart, Upload, vars
<1>. QED BY <1>1, <1>2, <1>3, <1>4 DEF Next

\* A height that a merged file covers stays covered.
LEMMA CoveredStays ==
  ASSUME TypeOK, [Next]_vars, NEW n, Covered(n) PROVE Covered(n)'
BY MergedGrows DEF Covered

\* A block of the chain that is covered is in the file that covers it.
LEMMA CoveredIsArchived ==
  ASSUME BundleComplete, shortened = {}, NEW n \in chain, Covered(n)
  PROVE  Archived(n)
BY DEF BundleComplete, Covered, Archived, Bundle

\* The lock is free only when no merge is under way, and no merge fails.
LEMMA CalmKept ==
  ASSUME StoresAnswer, TypeOK, CalmInv, [Next]_vars PROVE CalmInv'
<1>. USE DEF CalmInv, mergeVars, boundVars, CanLock, Unlock
<1>1. CASE RunStep
  <2>1. CASE StartMerge
    BY <2>1 DEF StartMerge
  <2>2. CASE PollPanic \/ EmptyBundlePanic
    BY <2>2 DEF PollPanic, EmptyBundlePanic, GoDown, NoJob
  <2>3. CASE SkipFails
    BY <2>3 DEF SkipFails, StoresAnswer
  <2>4. CASE FinalSeesError
    BY <2>4 DEF FinalSeesError
  <2>5. ASSUME ~StartMerge, ~PollPanic, ~EmptyBundlePanic, ~SkipFails, ~FinalSeesError
        PROVE  UNCHANGED <<failures, shortened, bundleError, job, inProcess>>
    BY <1>1, <2>5 DEF RunStep, PollTerminating, PollSame, PollReset, WalkFile,
       WalkDone, FinalRefused, FinalKept, FinalCompletes, FlowDone, SkipStored,
       SkipDone
  <2>. QED BY <2>1, <2>2, <2>3, <2>4, <2>5
<1>2. CASE MergeStored
  <2>1. /\ job'.state = "move"
        /\ UNCHANGED <<failures, shortened, bundleError, inProcess>>
    BY <1>2 DEF MergeStored, TypeOK, Jobs
  <2>2. inProcess # "free"
    BY <1>2 DEF MergeStored
  <2>. QED BY <2>1, <2>2
<1>3. CASE MergeCutShort \/ MergeFails
  BY <1>3 DEF MergeCutShort, MergeFails, StoresAnswer
<1>4. CASE MergeReports
  BY <1>4 DEF MergeReports
<1>5. ASSUME NEW copied \in SUBSET (job.forks \cap oneBlocks), MoveForks(copied)
      PROVE  CalmInv'
  BY <1>5 DEF MoveForks, CopyEnds, StoresAnswer, NoJob
<1>6. ASSUME Exit \/ Crash PROVE CalmInv'
  BY <1>6 DEF Exit, Crash, GoDown, NoJob
<1>7. ASSUME \/ PruneOldFiles \/ PruneForkedBlocks
             \/ \E f \in deletions : DeleteFile(f)
             \/ RequestShutdown \/ OnTerminating \/ Restart
             \/ \E f \in AllFiles : Upload(f)
             \/ \E n \in chain : ExternalMerge(n)
             \/ UNCHANGED vars
      PROVE  UNCHANGED <<failures, shortened, bundleError, job, inProcess>>
  BY <1>7 DEF PruneOldFiles, PruneForkedBlocks, DeleteFile, RequestShutdown,
     OnTerminating,
     Restart, Upload, ExternalMerge, vars
<1>. QED BY <1>1, <1>2, <1>3, <1>4, <1>5, <1>6, <1>7 DEF Next, MergeStep

\* The steps that leave the base and the job alone.
BaseSame == UNCHANGED <<base, job>>

\* A block below the base is covered, or the goroutine is about to write it.
LEMMA BaseKept ==
  ASSUME StoresAnswer, IInv, CalmInv, BaseInv, [Next]_vars PROVE BaseInv'
<1>. USE DEF BaseInv, mergeVars, bundleVars, CanLock
<1>1. TypeOK /\ chain' = chain /\ chain \subseteq Nat /\ base \in Nat
  BY MergedGrows, ConstantTypes DEF IInv, TypeOK
<1>2. \A n \in chain : Covered(n) => Covered(n)'
  BY <1>1, CoveredStays
<1>3. ASSUME BaseSame PROVE BaseInv'
  BY <1>1, <1>2, <1>3 DEF BaseSame, Merging
<1>4. ASSUME NEW r, GoDown(r) PROVE BaseInv'
  BY <1>1, <1>4, ConstantTypes DEF GoDown, TypeOK
<1>5. ASSUME inProcess = "free" PROVE \A n \in chain : n < base => Covered(n)
  BY <1>5 DEF CalmInv, Merging
<1>6. CASE RunStep
  <2>1. CASE PollReset
    <3>1. PICK b \in BundleEnds : /\ NextBundle(b) /\ b > base
                                 /\ \E lib : Reset(b, lib)
      BY <2>1 DEF PollReset
    <3>2. b \in Int
      BY <1>1, <3>1, SizeAssumption DEF BundleEnds, TypeOK
    <3>3. base' = b /\ job' = job
      BY <2>1, <3>1 DEF PollReset, Reset
    <3>4. \A n \in chain : base =< n /\ n < b => Covered(n)
      BY <1>1, <3>1, <3>2 DEF NextBundle
    <3>. QED BY <1>1, <1>2, <3>2, <3>3, <3>4 DEF Merging
  <2>2. CASE StartMerge
    <3>1. base' = base + BundleSize /\ job'.state = "write" /\ job'.base = base
      BY <2>2 DEF StartMerge
    <3>2. \A n \in chain : n < base => Covered(n)
      BY <1>5, <2>2 DEF StartMerge
    <3>. QED BY <1>1, <1>2, <3>1, <3>2, SizeAssumption DEF Merging
  <2>3. CASE SkipStored
    <3>1. base' = base + BundleSize /\ base \in DOMAIN merged'
      BY <2>3 DEF SkipStored, Stored
    <3>2. \A n \in chain : n < base => Covered(n)
      BY <1>5, <2>3 DEF SkipStored
    <3>3. \A n \in chain : base =< n /\ n < base + BundleSize => Covered(n)'
      BY <3>1 DEF Covered
    <3>. QED BY <1>1, <1>2, <3>1, <3>2, <3>3, SizeAssumption
  <2>4. ASSUME ~PollReset, ~StartMerge, ~SkipStored, ~PollPanic, ~EmptyBundlePanic
        PROVE  BaseSame
    BY <1>6, <2>4 DEF BaseSame, RunStep, PollTerminating, PollSame, WalkFile,
       WalkDone, FinalRefused, Reset, FinalKept, FinalSeesError, FinalCompletes,
       FlowDone, SkipFails, SkipDone
  <2>. QED BY <1>3, <1>4, <2>1, <2>2, <2>3, <2>4 DEF PollPanic, EmptyBundlePanic
<1>7. CASE MergeStored
  <2>1. job.base \in DOMAIN merged' /\ base' = base
    BY <1>7 DEF MergeStored, Stored
  <2>2. \A n \in chain : Merging(n) => Covered(n)'
    BY <2>1 DEF Merging, Covered
  <2>. QED BY <1>1, <1>2, <2>1, <2>2
<1>8. CASE MergeCutShort \/ MergeFails \/ MergeReports
  BY <1>8 DEF MergeCutShort, MergeFails, MergeReports, CalmInv, StoresAnswer
<1>9. ASSUME NEW copied \in SUBSET (job.forks \cap oneBlocks), MoveForks(copied)
      PROVE  BaseInv'
  BY <1>1, <1>2, <1>9 DEF MoveForks, Merging
<1>10. ASSUME Exit \/ Crash PROVE BaseInv'
  BY <1>4, <1>10 DEF Exit, Crash
<1>11. ASSUME \/ PruneOldFiles \/ PruneForkedBlocks
              \/ \E f \in deletions : DeleteFile(f)
              \/ RequestShutdown \/ OnTerminating \/ Restart
              \/ \E f \in AllFiles : Upload(f)
              \/ \E n \in chain : ExternalMerge(n)
              \/ UNCHANGED vars
       PROVE  BaseSame
  BY <1>11 DEF BaseSame, PruneOldFiles, PruneForkedBlocks, DeleteFile,
     RequestShutdown, OnTerminating, Restart, Upload, ExternalMerge, vars
<1>. QED BY <1>3, <1>6, <1>7, <1>8, <1>9, <1>10, <1>11 DEF Next, MergeStep

\* What leaves the collected blocks without being final is no block of the
\* chain, unless a file covers it already.
LEMMA LeftoversSpare ==
  ASSUME IInv, BaseInv, CalmInv, phase = "lock", CanLock
  PROVE  \A f \in Leftovers : Spare(f)
<1> SUFFICES ASSUME NEW f \in Leftovers, ~f.forked, f.num \in chain
             PROVE  Covered(f.num)
  BY DEF Spare
<1>1. chain \subseteq Nat /\ base \in Nat
  BY ConstantTypes DEF IInv, TypeOK
<1>2. f.num < base + BundleSize /\ f.num \notin irreversible
  BY DEF Leftovers
<1>3. flowing \in chain /\ flowing >= base + BundleSize /\ Collected(base, flowing)
  BY DEF IInv, LockInv
<1>4. f.num \in Nat /\ flowing \in Nat /\ BundleSize \in Nat
  BY <1>1, <1>3, SizeAssumption
<1>5. base =< f.num => f.num < flowing
  BY <1>1, <1>2, <1>3, <1>4
<1>6. f.num < base
  BY <1>1, <1>2, <1>3, <1>4, <1>5 DEF Collected
<1>. QED BY <1>6 DEF BaseInv, CalmInv, CanLock, Merging

\* No file of the chain is deleted, or queued, before it is covered.
LEMMA FilesKept ==
  ASSUME StoresAnswer, IInv, CalmInv, BaseInv, FilesInv, [Next]_vars
  PROVE  FilesInv'
<1>. USE DEF FilesInv, mergeVars, storeVars, CanLock
<1>1. TypeOK /\ chain' = chain /\ chain \subseteq Nat /\ base \in Nat
  BY MergedGrows, ConstantTypes DEF IInv, TypeOK
<1>2. \A n \in chain : Covered(n) => Covered(n)'
  BY <1>1, CoveredStays
<1>3. \A f : Spare(f) => Spare(f)'
  BY <1>1, <1>2 DEF Spare
<1>4. ASSUME deletions' \subseteq deletions, job'.forks \subseteq job.forks,
             UNCHANGED <<uploaded, oneBlocks>>
      PROVE  FilesInv'
  BY <1>1, <1>2, <1>3, <1>4
<1>5. ASSUME NEW r, GoDown(r), UNCHANGED storeVars PROVE FilesInv'
  <2>1. deletions' = {} /\ job'.forks = {}
    BY <1>5 DEF GoDown, NoJob
  <2>. QED BY <1>4, <1>5, <2>1
<1>6. CASE RunStep
  <2>1. CASE StartMerge
    <3>1. job'.forks = Leftovers /\ UNCHANGED <<deletions, uploaded, oneBlocks>>
      BY <2>1 DEF StartMerge
    <3>2. \A f \in Leftovers : Spare(f)
      BY <2>1, LeftoversSpare DEF StartMerge
    <3>. QED BY <1>1, <1>2, <1>3, <3>1, <3>2
  <2>2. ASSUME ~StartMerge, ~PollPanic, ~EmptyBundlePanic
        PROVE  UNCHANGED <<deletions, job, uploaded, oneBlocks>>
    BY <1>6, <2>2 DEF RunStep, PollTerminating, PollSame, PollReset, WalkFile,
       WalkDone, FinalRefused, FinalKept, FinalSeesError, FinalCompletes,
       FlowDone, SkipStored, SkipFails, SkipDone
  <2>. QED BY <1>4, <1>5, <2>1, <2>2 DEF PollPanic, EmptyBundlePanic
<1>7. CASE MergeStored \/ MergeCutShort \/ MergeFails \/ MergeReports
  <2>1. job'.forks \in {job.forks, {}} /\ UNCHANGED <<deletions, uploaded, oneBlocks>>
    BY <1>1, <1>7 DEF MergeStored, MergeCutShort, MergeFails, MergeReports,
       NoJob, TypeOK, Jobs
  <2>. QED BY <1>4, <2>1
<1>8. ASSUME NEW copied \in SUBSET (job.forks \cap oneBlocks), MoveForks(copied)
      PROVE  FilesInv'
  <2>1. /\ deletions' = deletions \cup job.forks /\ job'.forks = {}
        /\ UNCHANGED <<uploaded, oneBlocks>>
    BY <1>8 DEF MoveForks, NoJob
  <2>. QED BY <1>1, <1>2, <1>3, <2>1
<1>9. CASE PruneOldFiles
  <2>1. /\ deletions' = deletions \cup Prunable /\ inProcess = "free"
        /\ UNCHANGED <<job, uploaded, oneBlocks>>
    BY <1>9 DEF PruneOldFiles
  <2>2. ASSUME NEW f \in Prunable, f.num \in chain PROVE Covered(f.num)
    <3>1. f.num \in Nat /\ f.num < PruningTarget(BundleSize)
      BY <1>1, <2>2 DEF Prunable
    <3>2. f.num < base
      BY <1>1, <3>1, SizeAssumption DEF PruningTarget
    <3>. QED BY <2>1, <2>2, <3>2 DEF BaseInv, CalmInv, Merging
  <2>. QED BY <1>1, <1>2, <1>3, <2>1, <2>2 DEF Spare
<1>10. ASSUME NEW f \in deletions, DeleteFile(f) PROVE FilesInv'
  <2>1. /\ deletions' = deletions \ {f} /\ oneBlocks' = oneBlocks \ {f}
        /\ UNCHANGED <<job, uploaded>>
    BY <1>10 DEF DeleteFile
  <2>2. \A n \in chain : f = File(n, FALSE) => Covered(n)
    BY DEF Spare, File
  <2>. QED BY <1>1, <1>2, <1>3, <2>1, <2>2
<1>11. ASSUME NEW f \in AllFiles, Upload(f) PROVE FilesInv'
  <2>1. /\ uploaded' = uploaded \cup {f} /\ oneBlocks' = oneBlocks \cup {f}
        /\ UNCHANGED <<job, deletions>>
    BY <1>11 DEF Upload
  <2>. QED BY <1>1, <1>2, <1>3, <2>1
<1>12. ASSUME Exit \/ Crash PROVE FilesInv'
  BY <1>5, <1>12 DEF Exit, Crash
<1>13. ASSUME \/ PruneForkedBlocks \/ RequestShutdown \/ OnTerminating \/ Restart
              \/ \E n \in chain : ExternalMerge(n)
              \/ UNCHANGED vars
       PROVE  UNCHANGED <<deletions, job, uploaded, oneBlocks>>
  BY <1>13 DEF PruneForkedBlocks, RequestShutdown, OnTerminating, Restart,
     ExternalMerge, vars
<1>. QED BY <1>4, <1>6, <1>7, <1>8, <1>9, <1>10, <1>11, <1>12, <1>13
         DEF Next, MergeStep

\* The callback of the shutdown runs once the shutdown has begun.
LEMMA HookKept == ASSUME HookInv, [Next]_vars PROVE HookInv'
<1>. USE DEF HookInv, endVars
<1>1. CASE RunStep
  BY <1>1 DEF RunStep, PollTerminating, PollSame, PollReset, PollPanic,
     WalkFile, WalkDone, FinalRefused, FinalKept, FinalSeesError,
     FinalCompletes, FlowDone, StartMerge, EmptyBundlePanic, SkipStored,
     SkipFails, SkipDone, RunReturns, GoDown
<1>2. CASE OnTerminating
  BY <1>2 DEF OnTerminating
<1>3. CASE Exit \/ Crash
  BY <1>3 DEF Exit, Crash, GoDown
<1>4. ASSUME \/ MergeStep \/ PruneOldFiles \/ PruneForkedBlocks
             \/ \E f \in deletions : DeleteFile(f)
             \/ RequestShutdown \/ Restart
             \/ \E f \in AllFiles : Upload(f)
             \/ \E n \in chain : ExternalMerge(n)
             \/ UNCHANGED vars
      PROVE  HookInv'
  BY <1>4 DEF MergeStep, MergeStored, MergeCutShort, MergeFails, MergeReports,
     MoveForks, PruneOldFiles, PruneForkedBlocks, DeleteFile, RequestShutdown,
     Restart, Upload, ExternalMerge, vars
<1>. QED BY <1>1, <1>2, <1>3, <1>4 DEF Next

\* The process that its stop block ends has no merge under way once the
\* callback of its shutdown has had inProcess, and starts none any more.
LEMMA StopKept ==
  ASSUME StoresAnswer, IInv, CalmInv, BaseInv, HookInv, StopInv, [Next]_vars
  PROVE  StopInv'
<1>. USE DEF StopInv, endVars, bundleVars, CanLock
<1>1. TypeOK /\ chain' = chain /\ chain \subseteq Nat /\ base \in Nat
      /\ StopBlock \in Nat
  BY MergedGrows, ConstantTypes, OptionAssumption DEF IInv, TypeOK
<1>2. \A n \in chain : Covered(n) => Covered(n)'
  BY <1>1, CoveredStays
<1>3. ASSUME UNCHANGED <<base, result, hooked>>, phase' = phase PROVE StopInv'
  BY <1>1, <1>2, <1>3
<1>4. CASE RunStep
  <2>1. CASE PollPanic \/ EmptyBundlePanic
    BY <2>1 DEF PollPanic, EmptyBundlePanic, GoDown
  <2>2. CASE FinalRefused \/ FinalSeesError \/ SkipFails
    BY <2>2 DEF FinalRefused, FinalSeesError, SkipFails, RunReturns
  <2>3. CASE SkipDone
    <3>1. phase = "skip" /\ base' = base
      BY <2>3 DEF SkipDone
    <3>2. CASE terminating
      BY <2>3, <3>1, <3>2 DEF SkipDone, RunReturns
    <3>3. CASE ~terminating
      <4>1. ~hooked
        BY <3>3 DEF HookInv
      <4>. QED BY <2>3, <3>1, <4>1 DEF SkipDone, RunReturns
    <3>. QED BY <3>2, <3>3
  <2>4. ASSUME ~PollPanic, ~EmptyBundlePanic, ~FinalRefused, ~FinalSeesError,
               ~SkipFails, ~SkipDone
        PROVE  result' = result /\ phase \notin {"returned", "down"}
    BY <1>4, <2>4 DEF RunStep, PollTerminating, PollSame, PollReset, WalkFile,
       WalkDone, FinalKept, FinalCompletes, FlowDone, StartMerge, SkipStored
  <2>. QED BY <2>1, <2>2, <2>3, <2>4
<1>5. CASE Exit
  <2>1. phase' = "down" /\ result' = result /\ phase # "down" /\ hooked
    BY <1>5 DEF Exit, GoDown, Up
  <2>. QED BY <1>1, <1>2, <2>1
<1>6. CASE Crash \/ Restart
  BY <1>6 DEF Crash, GoDown, Restart
<1>8. CASE RequestShutdown
  BY <1>8 DEF RequestShutdown
<1>9. CASE OnTerminating
  <2>1. UNCHANGED <<base, result, phase>> /\ inProcess = "free"
    BY <1>9 DEF OnTerminating
  <2>2. \A n \in chain : n < base => Covered(n)
    BY <2>1 DEF BaseInv, CalmInv, Merging
  <2>3. base >= StopBlock => \A n \in chain : n < StopBlock => Covered(n)
    BY <1>1, <2>2
  <2>. QED BY <1>1, <1>2, <2>1, <2>3
<1>7. ASSUME \/ MergeStep \/ PruneOldFiles \/ PruneForkedBlocks
             \/ \E f \in deletions : DeleteFile(f)
             \/ \E f \in AllFiles : Upload(f)
             \/ \E n \in chain : ExternalMerge(n)
             \/ UNCHANGED vars
      PROVE  UNCHANGED <<base, result, hooked>> /\ phase' = phase
  BY <1>7 DEF MergeStep, MergeStored, MergeCutShort, MergeFails, MergeReports,
     MoveForks, PruneOldFiles, PruneForkedBlocks, DeleteFile, Upload,
     ExternalMerge, vars
<1>. QED BY <1>3, <1>4, <1>5, <1>6, <1>7, <1>8, <1>9 DEF Next

\* The inductive step of all of these.
LEMMA CoverInvKept == ASSUME StoresAnswer PROVE CoverInv /\ [Next]_vars => CoverInv'
BY IInvKept, CalmKept, BaseKept, FilesKept, HookKept, StopKept DEF CoverInv, IInv

\* It holds at the start, where there is no file yet.
LEMMA CoverInvStarts == Init => CoverInv
<1> SUFFICES ASSUME Init PROVE CoverInv
  OBVIOUS
<1>1. IInv
  BY IInvStarts
<1>2. CalmInv
  BY DEF Init, ProcessInit, CalmInv, NoJob
<1>3. BaseInv
  BY ConstantTypes DEF Init, ProcessInit, BaseInv
<1>4. FilesInv /\ HookInv /\ StopInv
  BY DEF Init, ProcessInit, FilesInv, HookInv, StopInv, NoJob
<1>. QED BY <1>1, <1>2, <1>3, <1>4 DEF CoverInv

\* It is an invariant as long as the stores answer.
LEMMA CoverInvHolds == ASSUME StoresAnswer PROVE Spec => []CoverInv
<1>. QED BY CoverInvStarts, CoverInvKept, PTL DEF Spec

\* While inProcess is free all blocks below the base are in a merged file: what
\* the comment of bundler.go:79 says, and the pruners rely on, is true as long
\* as the stores answer, with any number of crashes and foreign writers.
THEOREM BaseMerged == ASSUME StoresAnswer PROVE Spec => []BaseIsMerged
<1>1. CoverInv => BaseIsMerged
  BY CoveredIsArchived DEF CoverInv, IInv, CalmInv, BaseInv, BaseIsMerged, Merging
<1>. QED BY <1>1, CoverInvHolds, PTL

\* No one-block file of a final block leaves the store before the block is in a
\* merged file, as long as the stores answer.
THEOREM PrunedMerged == ASSUME StoresAnswer PROVE Spec => []PrunedIsMerged
<1>1. CoverInv => PrunedIsMerged
  BY CoveredIsArchived DEF CoverInv, IInv, CalmInv, FilesInv, PrunedIsMerged
<1>. QED BY <1>1, CoverInvHolds, PTL

\* A merger that its stop block has ended has merged all below it: the run loop
\* starts no merge any more, and OnTerminating waits for inProcess, and so for
\* the last merge, before the process may end.
THEOREM StoppedIsMerged == ASSUME StoresAnswer PROVE Spec => []StopMeansMerged
<1>1. CoverInv => StopMeansMerged
  BY CoveredIsArchived DEF CoverInv, IInv, CalmInv, StopInv, StopMeansMerged
<1>. QED BY <1>1, CoverInvHolds, PTL

-----------------------------------------------------------------------------
(* Where bundles begin.                                                    *)

\* A multiple of a bundle above another one is a whole bundle above it.
LEMMA Multiples ==
  ASSUME NEW s \in Nat \ {0}, NEW i \in Nat, NEW j \in Nat
  PROVE  /\ i * s \in Nat /\ j * s \in Nat
         /\ i < j => i * s + s =< j * s
         /\ i * s < j * s => i < j
<1>1. ASSUME NEW k \in Nat PROVE k * s \in Nat
  OBVIOUS
<1>2. ASSUME NEW k \in Nat, NEW l \in Nat, k < l PROVE k * s + s =< l * s
  <2>1. PICK d \in Nat : l = k + 1 + d
    <3>1. l - k - 1 \in Nat /\ l = k + 1 + (l - k - 1)
      BY <1>2
    <3>. QED BY <3>1
  <2>2. l * s = k * s + s + d * s
    BY <2>1
  <2>. QED BY <1>1, <2>2
<1>3. ASSUME i * s < j * s PROVE i < j
  <2>1. CASE i = j
    BY <1>1, <1>3, <2>1
  <2>2. CASE j < i
    BY <1>1, <1>2, <1>3, <2>2
  <2>. QED BY <2>1, <2>2
<1>. QED BY <1>1, <1>2, <1>3

\* A height at which a bundle begins.
Boundary(b) == \E k \in Nat : b = FirstBase + k * BundleSize

\* The first bundle begins on one.
LEMMA FirstBoundary == FirstBase \in Nat /\ Boundary(FirstBase)
<1>1. FirstBase \in Nat /\ FirstBase = FirstBase + 0 * BundleSize
  BY ConstantTypes, SizeAssumption
<1>. QED BY <1>1 DEF Boundary

\* Where a bundle ends the next one begins.
LEMMA NextBoundary ==
  ASSUME NEW b, Boundary(b) PROVE b \in Nat /\ Boundary(b + BundleSize)
<1>1. PICK k \in Nat : b = FirstBase + k * BundleSize
  BY DEF Boundary
<1>2. FirstBase \in Nat /\ BundleSize \in Nat /\ k * BundleSize \in Nat
  BY FirstBoundary, SizeAssumption, Multiples
<1>3. (k + 1) * BundleSize = k * BundleSize + BundleSize
  BY <1>2
<1>. QED BY <1>1, <1>2, <1>3 DEF Boundary

\* Two boundaries are a bundle apart.
LEMMA BoundariesApart ==
  ASSUME NEW b, NEW c, Boundary(b), Boundary(c), c < b
  PROVE  c + BundleSize =< b
<1>1. PICK j \in Nat : b = FirstBase + j * BundleSize
  BY DEF Boundary
<1>2. PICK i \in Nat : c = FirstBase + i * BundleSize
  BY DEF Boundary
<1>3. /\ i * BundleSize \in Nat /\ j * BundleSize \in Nat
      /\ i < j => i * BundleSize + BundleSize =< j * BundleSize
      /\ i * BundleSize < j * BundleSize => i < j
  BY Multiples, SizeAssumption
<1>. QED BY <1>1, <1>2, <1>3, FirstBoundary, SizeAssumption

\* The bundle of a height of the chain begins on a boundary.
LEMMA HeightBoundary ==
  ASSUME NEW n \in Nat, FirstStreamable =< n PROVE Boundary(toBaseNum(n))
<1> DEFINE p == FirstStreamable \div BundleSize
           q == n \div BundleSize
<1>1. p \in Nat /\ q \in Nat /\ FirstBase = p * BundleSize /\ toBaseNum(n) = q * BundleSize
  BY SizeAssumption DEF FirstBase, toBaseNum
<1>2. FirstBase =< FirstStreamable /\ n < toBaseNum(n) + BundleSize
  BY BaseNum, ConstantTypes
<1>. HIDE DEF p, q
<1>3. ~(q < p)
  <2> SUFFICES ASSUME q < p PROVE FALSE
    OBVIOUS
  <2>1. q * BundleSize \in Nat /\ p * BundleSize \in Nat
        /\ q * BundleSize + BundleSize =< p * BundleSize
    BY <1>1, Multiples, SizeAssumption
  <2>. QED BY <1>1, <1>2, <2>1, SizeAssumption
<1>4. q - p \in Nat /\ q = p + (q - p)
  BY <1>1, <1>3
<1>5. PICK d \in Nat : q = p + d
  BY <1>4
<1>6. q * BundleSize = p * BundleSize + d * BundleSize
  BY <1>1, <1>5, SizeAssumption
<1>. QED BY <1>1, <1>6 DEF Boundary

-----------------------------------------------------------------------------
(* The panics of the run loop, when no range is empty.  A merged file of   *)
(* an empty range, and a bundle without a block, would make it panic; each *)
(* file, and each bundle the bundler closes, begins on a boundary that the *)
(* chain goes beyond (PlaceInv), and is complete (IInv).                   *)

\* The chain has a block in each bundle below its highest block.
NoEmptyBundle ==
  \A c \in Chains : \A n \in c, b \in Nat :
    Boundary(b) /\ b =< n => \E m \in c : b =< m /\ m < b + BundleSize

Reached(b) == Boundary(b) /\ \E n \in chain : b =< n

PlaceInv ==
  /\ Boundary(base)
  /\ job.state = "write" => Reached(job.base)
  /\ \A b \in DOMAIN merged : Reached(b)

\* The base, the job and the merged files are on boundaries.
LEMMA PlaceKept ==
  ASSUME IInv, PlaceInv, [Next]_vars PROVE PlaceInv'
<1>. USE DEF PlaceInv, mergeVars, bundleVars, storeVars
<1>1. TypeOK /\ chain' = chain /\ chain \subseteq Nat
  BY MergedGrows, ConstantTypes DEF IInv, TypeOK
<1>2. \A b : Reached(b) => Reached(b)'
  BY <1>1 DEF Reached, Boundary
<1>3. \A b : Boundary(b) => Boundary(b)'
  BY DEF Boundary
<1>4. ASSUME UNCHANGED <<base, merged>>, job' = job \/ job'.state # "write"
      PROVE  PlaceInv'
  BY <1>2, <1>3, <1>4
<1>5. ASSUME NEW r, GoDown(r), UNCHANGED storeVars PROVE PlaceInv'
  BY <1>2, <1>3, <1>5, FirstBoundary DEF GoDown, NoJob
<1>6. CASE RunStep
  <2>1. CASE PollReset
    <3>1. PICK b \in BundleEnds : NextBundle(b) /\ \E lib : Reset(b, lib)
      BY <2>1 DEF PollReset
    <3>2. Boundary(b)
      BY <3>1, NextBoundary DEF BundleEnds, Reached
    <3>3. base' = b /\ UNCHANGED <<job, merged>>
      BY <2>1, <3>1 DEF PollReset, Reset
    <3>. QED BY <1>2, <1>3, <3>2, <3>3
  <2>2. CASE StartMerge
    <3>1. /\ base' = base + BundleSize /\ job'.base = base /\ merged' = merged
          /\ phase = "lock"
      BY <2>2 DEF StartMerge
    <3>2. flowing \in chain /\ flowing >= base
      BY <1>1, <3>1, SizeAssumption DEF IInv, LockInv, TypeOK
    <3>3. Reached(base) /\ Boundary(base + BundleSize)
      BY <1>1, <3>2, NextBoundary DEF Reached, TypeOK
    <3>. QED BY <1>2, <1>3, <3>1, <3>3
  <2>3. CASE SkipStored
    <3>1. /\ base' = base + BundleSize /\ job' = job /\ phase = "skip"
          /\ DOMAIN merged' = DOMAIN merged \cup {base}
      BY <2>3 DEF SkipStored, Stored
    <3>2. flowing \in chain /\ flowing >= base
      BY <3>1 DEF IInv, SkipInv
    <3>3. Reached(base) /\ Boundary(base + BundleSize)
      BY <1>1, <3>2, NextBoundary DEF Reached, TypeOK
    <3>. QED BY <1>2, <1>3, <3>1, <3>3
  <2>4. ASSUME ~PollReset, ~StartMerge, ~SkipStored, ~PollPanic, ~EmptyBundlePanic
        PROVE  UNCHANGED <<base, merged, job>>
    BY <1>6, <2>4 DEF RunStep, PollTerminating, PollSame, WalkFile, WalkDone,
       FinalRefused, Reset, FinalKept, FinalSeesError, FinalCompletes, FlowDone,
       SkipFails, SkipDone
  <2>. QED BY <1>4, <1>5, <2>1, <2>2, <2>3, <2>4 DEF PollPanic, EmptyBundlePanic
<1>7. CASE MergeStored \/ MergeCutShort
  <2>1. /\ DOMAIN merged' = DOMAIN merged \cup {job.base} /\ base' = base
        /\ job.state = "write" /\ job'.state = "move"
    BY <1>1, <1>7 DEF MergeStored, MergeCutShort, Stored, TypeOK, Jobs
  <2>. QED BY <1>2, <1>3, <2>1
<1>8. CASE MergeFails \/ MergeReports
  BY <1>1, <1>4, <1>8 DEF MergeFails, MergeReports, NoJob, TypeOK, Jobs
<1>9. ASSUME NEW copied \in SUBSET (job.forks \cap oneBlocks), MoveForks(copied)
      PROVE  PlaceInv'
  BY <1>4, <1>9 DEF MoveForks, NoJob
<1>10. ASSUME Exit \/ Crash PROVE PlaceInv'
  BY <1>5, <1>10 DEF Exit, Crash
<1>11. ASSUME NEW n \in chain, ExternalMerge(n) PROVE PlaceInv'
  <2>1. /\ DOMAIN merged' = DOMAIN merged \cup {toBaseNum(n)}
        /\ UNCHANGED <<base, job>>
    BY <1>11 DEF ExternalMerge, Stored
  <2>2. n \in Nat /\ FirstStreamable =< n
    BY <1>1, ChainAssumption DEF TypeOK
  <2>3. Reached(toBaseNum(n))
    BY <2>2, BaseNum, HeightBoundary DEF Reached
  <2>. QED BY <1>2, <1>3, <2>1, <2>3
<1>12. ASSUME \/ PruneOldFiles \/ PruneForkedBlocks
              \/ \E f \in deletions : DeleteFile(f)
              \/ RequestShutdown \/ OnTerminating \/ Restart
              \/ \E f \in AllFiles : Upload(f)
              \/ UNCHANGED vars
       PROVE  UNCHANGED <<base, merged, job>>
  BY <1>12 DEF PruneOldFiles, PruneForkedBlocks, DeleteFile, RequestShutdown,
     OnTerminating,
     Restart, Upload, vars
<1>. QED BY <1>4, <1>6, <1>7, <1>8, <1>9, <1>10, <1>11, <1>12
         DEF Next, MergeStep

\* The bundler starts at the first bundle.
LEMMA PlaceStarts == Init => PlaceInv
BY FirstBoundary DEF Init, ProcessInit, PlaceInv, NoJob

\* Who has panicked is down, and has met a file without a block that a lost
\* download has emptied.
PanicInv ==
  result = "panic" =>
    /\ phase = "down" /\ job.state = "idle"
    /\ \E b \in shortened : b \in DOMAIN merged /\ merged[b] = {}

\* No other step of the run loop panics.
LEMMA PanicKept ==
  ASSUME NoEmptyBundle, IInv, PlaceInv, PanicInv, [Next]_vars PROVE PanicInv'
<1>. USE DEF PanicInv, endVars
<1>1. TypeOK /\ chain \in Chains /\ chain \subseteq Nat /\ base \in Nat
  BY ConstantTypes DEF IInv, TypeOK
<1>2. ASSUME NEW b \in Nat, Reached(b) PROVE Bundle(b) # {}
  BY <1>1, <1>2 DEF NoEmptyBundle, Reached, Bundle
<1>3. CASE PollPanic
  <2>1. PICK b \in BundleEnds :
          /\ NextBundle(b) /\ b > base /\ merged[b - BundleSize] = {}
    BY <1>3 DEF PollPanic
  <2>2. b - BundleSize \in DOMAIN merged
    BY <1>1, <2>1 DEF NextBundle
  <2>3. b - BundleSize \in Nat /\ Bundle(b - BundleSize) # {}
    BY <1>1, <1>2, <2>2 DEF TypeOK, PlaceInv
  <2>4. b - BundleSize \in shortened
    BY <2>1, <2>2, <2>3 DEF IInv, BundleComplete
  <2>5. phase' = "down" /\ job'.state = "idle" /\ UNCHANGED <<merged, shortened>>
    BY <1>3 DEF PollPanic, GoDown, NoJob, storeVars, boundVars
  <2>. QED BY <2>1, <2>2, <2>4, <2>5
<1>4. CASE EmptyBundlePanic
  <2>1. phase = "lock" /\ irreversible = {}
    BY <1>4 DEF EmptyBundlePanic
  <2>2. flowing \in chain /\ flowing >= base + BundleSize /\ Collected(base, flowing)
    BY <2>1 DEF IInv, LockInv
  <2>3. flowing \in Nat /\ BundleSize \in Nat
    BY <1>1, <2>2, SizeAssumption
  <2>4. Reached(base)
    BY <1>1, <2>2, <2>3 DEF Reached, PlaceInv
  <2>5. PICK m \in Bundle(base) : TRUE
    BY <1>1, <1>2, <2>4
  <2>6. m \in irreversible
    BY <1>1, <2>2, <2>3, <2>5 DEF Bundle, Collected
  <2>. QED BY <2>1, <2>6
<1>5. CASE RunStep /\ ~PollPanic /\ ~EmptyBundlePanic
  <2>1. phase # "down" /\ result # "panic"
    BY <1>5 DEF RunStep, PollTerminating, PollSame, PollReset, WalkFile, WalkDone,
       FinalRefused, FinalKept, FinalSeesError, FinalCompletes, FlowDone,
       StartMerge, SkipStored, SkipFails, SkipDone
  <2>2. result' \in {result, "error", "stop"}
    BY <1>5 DEF RunStep, PollTerminating, PollSame, PollReset, WalkFile, WalkDone,
       FinalRefused, FinalKept, FinalSeesError, FinalCompletes, FlowDone,
       StartMerge, SkipStored, SkipFails, SkipDone, RunReturns
  <2>. QED BY <2>1, <2>2
<1>6. CASE Exit \/ Crash \/ Restart
  BY <1>6 DEF Exit, Crash, Restart, GoDown, Up
<1>8. CASE RequestShutdown
  BY <1>8 DEF RequestShutdown
<1>9. ASSUME NEW n \in chain, ExternalMerge(n) PROVE PanicInv'
  <2>1. /\ UNCHANGED <<result, phase, job, shortened>>
        /\ toBaseNum(n) \notin DOMAIN merged
        /\ merged' = Stored(toBaseNum(n), Bundle(toBaseNum(n)))
    BY <1>9 DEF ExternalMerge, mergeVars
  <2>2. \A c \in DOMAIN merged : c \in DOMAIN merged' /\ merged'[c] = merged[c]
    BY <2>1 DEF Stored
  <2>. QED BY <2>1, <2>2
<1>10. CASE MergeStep
  <2>1. job.state # "idle" /\ result' = result
    BY <1>10 DEF MergeStep, MergeStored, MergeCutShort, MergeFails, MergeReports,
       MoveForks
  <2>. QED BY <2>1
<1>7. ASSUME \/ PruneOldFiles \/ PruneForkedBlocks
             \/ \E f \in deletions : DeleteFile(f)
             \/ OnTerminating
             \/ \E f \in AllFiles : Upload(f)
             \/ UNCHANGED vars
      PROVE  UNCHANGED <<result, phase, job, merged, shortened>>
  BY <1>7 DEF mergeVars, storeVars, boundVars, PruneOldFiles, PruneForkedBlocks,
     DeleteFile, OnTerminating, Upload, vars
<1>. QED BY <1>3, <1>4, <1>5, <1>6, <1>7, <1>8, <1>9, <1>10 DEF Next

\* On a chain without an empty bundle the run loop only panics on a file that a
\* lost download has emptied, whatever else fails, crashes or is written by
\* others (merger_io.go:283, bundler.go:211).
THEOREM NeverPanics == ASSUME NoEmptyBundle PROVE Spec => []NoPanic
<1> DEFINE Inv == IInv /\ PlaceInv /\ PanicInv
<1>1. Init => Inv
  BY IInvStarts, PlaceStarts DEF Init, PanicInv
<1>2. Inv /\ [Next]_vars => Inv'
  BY IInvKept, PlaceKept, PanicKept
<1>3. Inv => NoPanic
  BY DEF PanicInv, NoPanic
<1>. QED BY <1>1, <1>2, <1>3, PTL DEF Spec

-----------------------------------------------------------------------------
(* A merger alone with its stores.  Its files have no hole (LineInv), its  *)
(* walk has passed what the forkable flows (CursorInv), so that what it    *)
(* remembers is not below its base (SeenInv) and the mover takes only      *)
(* forks.                                                                  *)

\* No other process writes merged files.
SingleMerger == MaxExternal = 0

Above == \A b \in DOMAIN merged : b < base

InLine(b) == b = FirstBase \/ b - BundleSize \in DOMAIN merged

NoGap ==
  \A b \in DOMAIN merged, c \in Nat : Boundary(c) /\ c < b => c \in DOMAIN merged

LineInv ==
  /\ NoGap
  /\ InLine(base) \/ (job.state = "write" /\ base = job.base + BundleSize)
  /\ job.state = "write" =>
       /\ InLine(job.base)
       /\ \A b \in DOMAIN merged : b < job.base
       /\ job.base < base
  /\ phase \in {"walk", "emit", "lock", "skip"} => Above
  /\ phase \in {"poll", "down"} => Above \/ seen = {}

\* The next file in line leaves no gap.
LEMMA NoGapGrows ==
  ASSUME TypeOK, PlaceInv, NoGap, NEW b \in Nat, Boundary(b), InLine(b),
         DOMAIN merged' = DOMAIN merged \cup {b}
  PROVE  NoGap'
<1>1. ASSUME NEW c \in Nat, Boundary(c), c < b PROVE c \in DOMAIN merged
  <2>1. FirstBase \in Nat /\ BundleSize \in Nat
    BY FirstBoundary, SizeAssumption
  <2>2. FirstBase =< c
    <3>1. PICK k \in Nat : c = FirstBase + k * BundleSize
      BY <1>1 DEF Boundary
    <3>2. k * BundleSize \in Nat
      BY Multiples, SizeAssumption
    <3>. QED BY <2>1, <3>1, <3>2
  <2>3. b - BundleSize \in DOMAIN merged
    BY <1>1, <2>1, <2>2 DEF InLine
  <2>4. b - BundleSize \in Nat /\ Boundary(b - BundleSize)
    BY <2>3 DEF PlaceInv, Reached, TypeOK
  <2>5. c + BundleSize =< b
    BY <1>1, BoundariesApart
  <2>6. c = b - BundleSize \/ c < b - BundleSize
    BY <1>1, <2>1, <2>5
  <2>. QED BY <1>1, <2>3, <2>4, <2>6 DEF NoGap
<1>2. \A c : Boundary(c)' => Boundary(c)
  BY DEF Boundary
<1>. QED BY <1>1, <1>2 DEF NoGap

\* Where the poll finds no file, there is none beyond.
LEMMA BundleIsLast ==
  ASSUME TypeOK, PlaceInv, NoGap, NEW b \in Nat, Boundary(b), b \notin DOMAIN merged
  PROVE  \A c \in DOMAIN merged : c < b
<1> SUFFICES ASSUME NEW c \in DOMAIN merged, ~(c < b) PROVE FALSE
  OBVIOUS
<1>1. c \in Nat /\ b < c
  BY DEF TypeOK
<1>. QED BY <1>1 DEF NoGap

\* The files of a merger alone follow one another, in the order of its bases.
LEMMA LineKept ==
  ASSUME StoresAnswer, SingleMerger, IInv, CalmInv, PlaceInv, LineInv, [Next]_vars
  PROVE  LineInv'
<1>. USE DEF LineInv, mergeVars, bundleVars, storeVars, CanLock
<1>1. TypeOK /\ base \in Nat /\ DOMAIN merged \subseteq Nat /\ BundleSize \in Nat \ {0}
      /\ Boundary(base)
  BY SizeAssumption DEF IInv, TypeOK, PlaceInv
<1>2. \A b : Boundary(b)' <=> Boundary(b)
  BY DEF Boundary
<1>3. ASSUME UNCHANGED <<merged, base>>, job' = job \/ job'.state # "write",
             job.state = "write" => job' = job \/ InLine(base),
             phase' = phase \/ phase' = "returned"
               \/ {phase, phase'} \subseteq {"walk", "emit", "lock", "skip"},
             seen' = seen \/ phase' \notin {"poll", "down"}
      PROVE  LineInv'
  BY <1>2, <1>3 DEF Above, InLine, NoGap
<1>4. ASSUME NEW r, GoDown(r), merged' = merged PROVE LineInv'
  BY <1>2, <1>4 DEF GoDown, NoJob, Above, InLine, NoGap
<1>5. CASE RunStep
  <2>1. CASE PollSame
    <3>1. Above
      BY <1>1, <2>1, BundleIsLast DEF PollSame, NextBundle, Above
    <3>2. phase' = "walk" /\ UNCHANGED <<merged, base, job>>
      BY <2>1 DEF PollSame, StartWalk
    <3>. QED BY <1>2, <3>1, <3>2 DEF Above, InLine, NoGap
  <2>2. CASE PollReset
    <3>1. PICK b \in BundleEnds : /\ NextBundle(b) /\ b > base /\ StartWalk(b)
                                  /\ \E lib : Reset(b, lib)
      BY <2>2 DEF PollReset
    <3>2. b - BundleSize \in DOMAIN merged /\ b \notin DOMAIN merged
      BY <1>1, <3>1 DEF NextBundle
    <3>3. b \in Nat /\ Boundary(b)
      BY <1>1, <3>1, NextBoundary DEF BundleEnds, PlaceInv, Reached
    <3>4. \A c \in DOMAIN merged : c < b
      BY <1>1, <3>2, <3>3, BundleIsLast
    <3>5. base' = b /\ phase' = "walk" /\ UNCHANGED <<merged, job>>
      BY <2>2, <3>1 DEF PollReset, Reset, StartWalk
    <3>6. job.state = "write" => job.base \in Nat /\ job.base < b
      BY <1>1, <3>1, <3>3 DEF TypeOK, Jobs
    <3>. QED BY <1>2, <3>2, <3>4, <3>5, <3>6 DEF Above, InLine, NoGap
  <2>3. CASE StartMerge
    <3>1. /\ phase = "lock" /\ phase' = "skip" /\ base' = base + BundleSize
          /\ merged' = merged /\ job'.state = "write" /\ job'.base = base
          /\ job.state = "idle"
      BY <2>3 DEF StartMerge, CalmInv
    <3>2. InLine(base) /\ Above
      BY <3>1
    <3>3. base < base' /\ Above'
      BY <1>1, <3>1, <3>2 DEF Above
    <3>. QED BY <1>2, <3>1, <3>2, <3>3 DEF Above, InLine, NoGap
  <2>4. CASE SkipStored
    <3>1. /\ phase = "skip" /\ phase' = "skip" /\ base' = base + BundleSize
          /\ DOMAIN merged' = DOMAIN merged \cup {base}
          /\ job' = job /\ job.state = "idle"
      BY <2>4 DEF SkipStored, Stored, CalmInv
    <3>2. InLine(base) /\ Above
      BY <3>1
    <3>3. NoGap'
      BY <1>1, <3>1, <3>2, NoGapGrows
    <3>4. Above' /\ InLine(base)'
      BY <1>1, <3>1, <3>2 DEF Above, InLine
    <3>. QED BY <3>1, <3>3, <3>4
  <2>5. ASSUME ~PollSame, ~PollReset, ~StartMerge, ~SkipStored, ~PollPanic,
               ~EmptyBundlePanic
        PROVE  /\ UNCHANGED <<merged, base, job>>
               /\ \/ phase' = "returned"
                  \/ {phase, phase'} \subseteq {"walk", "emit", "lock", "skip"}
                  \/ phase = "walk" /\ phase' = "poll"
    BY <1>5, <2>5 DEF RunStep, PollTerminating, WalkFile, WalkDone,
       FinalRefused, Reset, FinalKept, FinalSeesError, FinalCompletes, FlowDone,
       SkipFails, SkipDone, RunReturns
  <2>6. ASSUME UNCHANGED <<merged, base, job>>, phase = "walk", phase' = "poll"
        PROVE  LineInv'
    BY <1>2, <2>6 DEF Above, InLine, NoGap
  <2>. QED BY <1>3, <1>4, <2>1, <2>2, <2>3, <2>4, <2>5, <2>6
           DEF PollPanic, EmptyBundlePanic
<1>6. CASE MergeStored
  <2>1. /\ DOMAIN merged' = DOMAIN merged \cup {job.base}
        /\ job.state = "write" /\ job'.state = "move"
        /\ UNCHANGED <<base, seen>> /\ phase' = phase
    BY <1>1, <1>6 DEF MergeStored, Stored, TypeOK, Jobs
  <2>2. job.base \in Nat /\ Boundary(job.base) /\ InLine(job.base)
    BY <1>1, <2>1 DEF TypeOK, Jobs, PlaceInv, Reached
  <2>3. NoGap'
    BY <1>1, <2>1, <2>2, NoGapGrows
  <2>4. InLine(base)'
    BY <1>1, <2>1, <2>2 DEF InLine
  <2>5. Above => Above'
    BY <2>1 DEF Above
  <2>. QED BY <2>1, <2>3, <2>4, <2>5
<1>7. CASE MergeCutShort \/ MergeFails \/ MergeReports
  BY <1>7 DEF MergeCutShort, MergeFails, MergeReports, CalmInv, StoresAnswer
<1>8. ASSUME NEW copied \in SUBSET (job.forks \cap oneBlocks), MoveForks(copied)
      PROVE  LineInv'
  BY <1>3, <1>8 DEF MoveForks, NoJob
<1>9. ASSUME Exit \/ Crash PROVE LineInv'
  BY <1>4, <1>9 DEF Exit, Crash
<1>10. CASE Restart
  BY <1>2, <1>10 DEF Restart, Above, InLine, NoGap
<1>11. ASSUME NEW n \in chain, ExternalMerge(n) PROVE LineInv'
  BY <1>11 DEF ExternalMerge, SingleMerger, IInv, TypeOK
<1>12. ASSUME \/ PruneOldFiles \/ PruneForkedBlocks
              \/ \E f \in deletions : DeleteFile(f)
              \/ RequestShutdown \/ OnTerminating
              \/ \E f \in AllFiles : Upload(f)
              \/ UNCHANGED vars
       PROVE  UNCHANGED <<merged, base, job, seen>> /\ phase' = phase
  BY <1>12 DEF PruneOldFiles, PruneForkedBlocks, DeleteFile, RequestShutdown,
     OnTerminating,
     Upload, vars
<1>. QED BY <1>3, <1>5, <1>6, <1>7, <1>8, <1>9, <1>10, <1>11, <1>12
         DEF Next, MergeStep

UploadInv ==
  oneBlocks \subseteq uploaded /\ uploaded \subseteq AllFiles /\ seen \subseteq uploaded

\* What is in the one-block store, or was walked, was uploaded by a reader.
LEMMA UploadKept == ASSUME IInv, UploadInv, [Next]_vars PROVE UploadInv'
<1>. USE DEF UploadInv, storeVars, bundleVars, chainVars
<1>1. AllFiles' = AllFiles
  <2>1. UNCHANGED <<chain, forks>>
    <3>1. CASE RunStep
      BY <3>1 DEF RunStep, PollTerminating, PollSame, PollReset, PollPanic,
         WalkFile, WalkDone, FinalRefused, FinalKept, FinalSeesError,
         FinalCompletes, FlowDone, StartMerge, EmptyBundlePanic, SkipStored,
         SkipFails, SkipDone
    <3>2. CASE ~RunStep
      BY <3>2 DEF Next, MergeStep, MergeStored, MergeCutShort, MergeFails,
         MergeReports, MoveForks,
         PruneOldFiles, PruneForkedBlocks, DeleteFile, RequestShutdown,
         OnTerminating, Exit,
         Crash, Restart, Upload, ExternalMerge, vars
    <3>. QED BY <3>1, <3>2
  <2>. QED BY <2>1 DEF AllFiles
<1>2. CASE RunStep
  <2>1. UNCHANGED <<uploaded, oneBlocks>>
    BY <1>2 DEF RunStep, PollTerminating, PollSame, PollReset, PollPanic,
       WalkFile, WalkDone, FinalRefused, FinalKept, FinalSeesError,
       FinalCompletes, FlowDone, StartMerge, EmptyBundlePanic, SkipStored,
       SkipFails, SkipDone
  <2>2. seen' \subseteq seen \cup oneBlocks
    BY <1>2 DEF RunStep, PollTerminating, PollSame, PollReset, PollPanic,
       WalkFile, WalkDone, FinalRefused, FinalKept, FinalSeesError,
       FinalCompletes, FlowDone, StartMerge, EmptyBundlePanic, SkipStored,
       SkipFails, SkipDone, GoDown, Reset
  <2>. QED BY <1>1, <2>1, <2>2
<1>3. ASSUME NEW f \in AllFiles, Upload(f) PROVE UploadInv'
  BY <1>1, <1>3 DEF Upload
<1>4. ASSUME NEW f \in deletions, DeleteFile(f) PROVE UploadInv'
  BY <1>1, <1>4 DEF DeleteFile
<1>5. CASE Exit \/ Crash
  BY <1>1, <1>5 DEF Exit, Crash, GoDown
<1>6. ASSUME \/ MergeStep \/ PruneOldFiles \/ PruneForkedBlocks
             \/ RequestShutdown \/ OnTerminating \/ Restart
             \/ \E n \in chain : ExternalMerge(n)
             \/ UNCHANGED vars
      PROVE  UNCHANGED <<uploaded, oneBlocks, seen>>
  BY <1>6 DEF MergeStep, MergeStored, MergeCutShort, MergeFails, MergeReports,
     MoveForks,
     PruneOldFiles, PruneForkedBlocks, RequestShutdown, OnTerminating, Restart,
     ExternalMerge, vars
<1>. QED BY <1>1, <1>2, <1>3, <1>4, <1>5, <1>6 DEF Next

Pending(n) == fLib < n /\ n =< fTarget

CursorInv ==
  /\ phase \in {"poll", "walk"} => \A n \in chain : Pending(n) => n =< base
  /\ phase \in {"walk", "emit", "lock", "skip"} => 2 * base =< cursor
  /\ phase \in {"emit", "lock", "skip"} =>
       \A n \in chain : Pending(n) => 2 * n < cursor
  /\ phase \in {"lock", "skip"} => fLib < flowing /\ 2 * flowing < cursor
  /\ phase = "down" => fTarget = NoLib /\ fLib = NoLib

\* A set of heights has a least one.
LEMMA LeastHeight ==
  ASSUME NEW S \in SUBSET Nat, S # {} PROVE \E n \in S : \A m \in S : n =< m
<1> DEFINE Less == {ss \in Nat \X Nat : ss[1] < ss[2]}
<1>1. IsWellFoundedOn(Less, Nat)
  BY NatLessThanWellFounded DEF OpToRel
<1>2. PICK n \in S : \A m \in S : ~(<<m, n>> \in Less)
  <2>. HIDE DEF Less
  <2>. QED BY <1>1, WFMin
<1>3. ASSUME NEW m \in S PROVE n =< m
  <2>1. m \in Nat /\ n \in Nat
    OBVIOUS
  <2>2. m < n => <<m, n>> \in Less
    BY <2>1
  <2>. QED BY <1>2, <2>1, <2>2
<1>. QED BY <1>3

\* Where the forkable has no next block, none is pending.
LEMMA NextIsPending ==
  ASSUME TypeOK, NEW n \in chain, Pending(n) PROVE \E m \in chain : NextFinal(m)
<1> DEFINE S == {m \in chain : fLib < m}
<1>1. chain \subseteq Nat /\ S \in SUBSET Nat /\ n \in S /\ S # {}
      /\ fTarget \in Int /\ fLib \in Int
  BY ConstantTypes DEF TypeOK, Pending, NoLib
<1>2. PICK m \in S : \A k \in S : m =< k
  <2>. HIDE DEF S
  <2>. QED BY <1>1, LeastHeight
<1>3. m =< n /\ n =< fTarget
  BY <1>1, <1>2 DEF Pending
<1>. QED BY <1>1, <1>2, <1>3 DEF NextFinal

\* The cursor of the walk is beyond the blocks to flow, and so beyond the base.
LEMMA CursorKept ==
  ASSUME IInv, UploadInv, CursorInv, [Next]_vars PROVE CursorInv'
<1>. USE DEF CursorInv, walkVars, bundleVars, forkdbVars
<1>1. TypeOK /\ chain' = chain /\ chain \subseteq Nat /\ base \in Nat
      /\ BundleSize \in Nat \ {0} /\ cursor \in Nat
      /\ fLib \in Int /\ fTarget \in Int /\ flowing \in Nat
  BY MergedGrows, ConstantTypes, SizeAssumption DEF IInv, TypeOK, NoLib
<1>2. ASSUME UNCHANGED <<base, forkdbVars, cursor, flowing>>,
             phase' = phase \/ phase' = "returned"
      PROVE  CursorInv'
  BY <1>1, <1>2 DEF Pending
<1>3. ASSUME NEW r, GoDown(r) PROVE CursorInv'
  BY <1>3 DEF GoDown
<1>4. \A n \in Nat : Name(File(n, FALSE)) = 2 * n
  BY DEF Name, File
<1>5. CASE RunStep
  <2>1. CASE PollSame
    <3>1. phase = "poll" /\ phase' = "walk" /\ cursor' = 2 * base
          /\ UNCHANGED <<base, fLib, fTarget>>
      BY <1>1, <1>4, <2>1 DEF PollSame, StartWalk
    <3>. QED BY <1>1, <3>1 DEF Pending
  <2>2. CASE PollReset
    <3>1. PICK b \in BundleEnds, lib \in Nat :
            /\ StartWalk(b) /\ Reset(b, lib) /\ b - BundleSize \in DOMAIN merged
            /\ lib \in merged[b - BundleSize]
      BY <1>1, <2>2 DEF PollReset, NextBundle, TypeOK
    <3>2. b \in Nat /\ lib =< b
      BY <1>1, <3>1 DEF IInv, BundleComplete, TypeOK, BundleEnds
    <3>3. phase' = "walk" /\ cursor' = 2 * b /\ base' = b /\ fTarget' = lib
      BY <1>4, <3>1, <3>2 DEF StartWalk, Reset
    <3>. QED BY <1>1, <3>2, <3>3 DEF Pending
  <2>3. CASE WalkFile
    <3>1. PICK f \in oneBlocks :
            /\ cursor =< Name(f) /\ cursor' = Name(f) + 1
            /\ \/ UNCHANGED <<fLib, fTarget, phase>>
               \/ /\ phase' = "emit" /\ ~f.forked
                  /\ \E lib \in fBlocks \cup {f.num} :
                       /\ FirstLib(f.num, lib)
                       /\ fLib' = lib - 1 /\ fTarget' = lib
               \/ /\ phase' = "emit" /\ ~f.forked /\ fLib' = fLib
                  /\ fTarget' = IF LibNum(f.num) > fTarget
                                  THEN LibNum(f.num) ELSE fTarget
      BY <2>3 DEF WalkFile, NextFile
    <3>2. f.num \in Nat /\ f.forked \in BOOLEAN /\ Name(f) \in Nat /\ 2 * f.num =< Name(f)
      BY <1>1 DEF TypeOK, Files, Name
    <3>3. phase = "walk" /\ base' = base
      BY <2>3 DEF WalkFile
    <3>4. ASSUME ~f.forked PROVE f.num >= FirstStreamable
      <4>1. f.num \in chain
        BY <3>4 DEF UploadInv, AllFiles, File
      <4>. QED BY <4>1, ChainAssumption DEF IInv, TypeOK
    <3>5. ASSUME ~f.forked PROVE LibNum(f.num) \in Nat /\ LibNum(f.num) =< f.num
      BY <3>2, <3>4, <3>5, OptionAssumption, SizeAssumption DEF LibNum
    <3>6. CASE UNCHANGED <<fLib, fTarget, phase>>
      BY <1>1, <3>1, <3>2, <3>3, <3>6 DEF Pending
    <3>7. ASSUME phase' = "emit", ~f.forked, NEW lib \in fBlocks \cup {f.num},
                 FirstLib(f.num, lib), fLib' = lib - 1, fTarget' = lib
          PROVE  CursorInv'
      <4>1. lib \in Nat /\ lib =< f.num
        BY <1>1, <3>2, <3>5, <3>7 DEF FirstLib, IInv, TypeOK
      <4>. QED BY <1>1, <3>1, <3>2, <3>3, <3>7, <4>1 DEF Pending
    <3>8. ASSUME phase' = "emit", ~f.forked, fLib' = fLib,
                 fTarget' \in {fTarget, LibNum(f.num)}
          PROVE  CursorInv'
      <4>1. \A n \in chain : Pending(n) => 2 * n =< Name(f)
        BY <1>1, <3>1, <3>2, <3>3
      <4>2. ASSUME NEW n \in chain, Pending(n)' PROVE 2 * n < cursor'
        <5>1. Pending(n) \/ n =< f.num
          BY <1>1, <3>2, <3>5, <3>8, <4>2 DEF Pending
        <5>. QED BY <1>1, <3>1, <3>2, <4>1, <5>1
      <4>3. 2 * base' =< cursor'
        BY <1>1, <3>1, <3>2, <3>3
      <4>. QED BY <1>1, <3>8, <4>2, <4>3
    <3>. QED BY <3>1, <3>6, <3>7, <3>8
  <2>4. CASE FinalRefused
    <3>1. \/ phase' = "returned"
          \/ /\ phase' = "walk" /\ cursor' = 2 * base /\ base' = base
             /\ fTarget' = NoLib
      BY <1>1, <1>4, <2>4 DEF FinalRefused, Reset, RunReturns
    <3>. QED BY <1>1, <3>1 DEF Pending, NoLib
  <2>5. CASE FinalKept
    <3>1. PICK n \in chain : NextFinal(n) /\ fLib' = n
      BY <2>5 DEF FinalKept, Accepted
    <3>2. phase = "emit" /\ UNCHANGED <<base, cursor, fTarget, flowing>> /\ phase' = phase
      BY <2>5 DEF FinalKept
    <3>. QED BY <1>1, <3>1, <3>2 DEF Pending, NextFinal
  <2>6. CASE FinalCompletes
    <3>1. PICK n \in chain : NextFinal(n) /\ flowing' = n
      BY <2>6 DEF FinalCompletes, Accepted
    <3>2. phase = "emit" /\ phase' = "lock" /\ UNCHANGED <<base, cursor, fTarget, fLib>>
      BY <2>6 DEF FinalCompletes
    <3>. QED BY <1>1, <3>1, <3>2 DEF Pending, NextFinal
  <2>7. CASE FlowDone
    <3>1. phase = "emit" /\ phase' = "walk" /\ UNCHANGED <<base, cursor, fTarget, fLib>>
      BY <2>7 DEF FlowDone
    <3>2. \A n \in chain : ~Pending(n)
      BY <1>1, <2>7, NextIsPending DEF FlowDone
    <3>. QED BY <1>1, <3>1, <3>2 DEF Pending
  <2>8. CASE StartMerge
    <3>1. /\ phase = "lock" /\ phase' = "skip" /\ base' = base + BundleSize
          /\ UNCHANGED <<cursor, fTarget, fLib, flowing>>
      BY <2>8 DEF StartMerge
    <3>2. flowing >= base + BundleSize
      BY <3>1 DEF IInv, LockInv
    <3>. QED BY <1>1, <3>1, <3>2 DEF Pending
  <2>9. CASE SkipStored
    <3>1. /\ phase = "skip" /\ phase' = "skip" /\ base' = base + BundleSize
          /\ UNCHANGED <<cursor, fTarget, fLib, flowing>>
          /\ flowing > base + BundleSize
      BY <2>9 DEF SkipStored, SkipsBundle
    <3>. QED BY <1>1, <3>1 DEF Pending
  <2>10. CASE SkipDone
    <3>1. /\ phase = "skip" /\ phase' \in {"emit", "returned"}
          /\ fLib' = flowing /\ UNCHANGED <<cursor, fTarget, base>>
      BY <2>10 DEF SkipDone, RunReturns
    <3>. QED BY <1>1, <3>1 DEF Pending
  <2>11. CASE WalkDone
    <3>1. phase = "walk" /\ phase' = "poll" /\ UNCHANGED <<base, fTarget, fLib>>
      BY <2>11 DEF WalkDone
    <3>. QED BY <1>1, <3>1 DEF Pending
  <2>12. CASE PollTerminating \/ FinalSeesError \/ SkipFails
    BY <2>12 DEF PollTerminating, FinalSeesError, SkipFails, RunReturns
  <2>. QED BY <1>3, <1>5, <2>1, <2>2, <2>3, <2>4, <2>5, <2>6, <2>7, <2>8, <2>9,
              <2>10, <2>11, <2>12 DEF RunStep, PollPanic, EmptyBundlePanic
<1>6. ASSUME Exit \/ Crash PROVE CursorInv'
  BY <1>3, <1>6 DEF Exit, Crash
<1>7. CASE Restart
  <2>1. /\ phase = "down" /\ phase' = "poll" /\ UNCHANGED <<base, fTarget, fLib>>
    BY <1>7 DEF Restart
  <2>. QED BY <1>1, <2>1 DEF Pending, NoLib
<1>8. ASSUME \/ MergeStep \/ PruneOldFiles \/ PruneForkedBlocks
             \/ \E f \in deletions : DeleteFile(f)
             \/ RequestShutdown \/ OnTerminating
             \/ \E f \in AllFiles : Upload(f)
             \/ \E n \in chain : ExternalMerge(n)
             \/ UNCHANGED vars
      PROVE  UNCHANGED <<base, forkdbVars, cursor, flowing>> /\ phase' = phase
  BY <1>8 DEF MergeStep, MergeStored, MergeCutShort, MergeFails, MergeReports,
     MoveForks,
     PruneOldFiles, PruneForkedBlocks, DeleteFile, RequestShutdown,
     OnTerminating, Upload,
     ExternalMerge, vars
<1>. QED BY <1>2, <1>5, <1>6, <1>7, <1>8 DEF Next

SeenInv ==
  /\ phase # "returned" => \A f \in seen : f.forked \/ f.num >= base
  /\ phase = "skip" => \A f \in seen : f.forked \/ f.num >= flowing
  /\ \A f \in job.forks : f.forked
  /\ ForkedStoreOnlyForks

\* The bundler remembers no final block below its base, and hands none to the
\* mover.
LEMMA SeenKept ==
  ASSUME IInv, PlaceInv, LineInv, UploadInv, CursorInv, SeenInv, [Next]_vars
  PROVE  SeenInv'
<1>. USE DEF SeenInv, bundleVars, mergeVars, storeVars, ForkedStoreOnlyForks
<1>1. TypeOK /\ chain \subseteq Nat /\ base \in Nat /\ BundleSize \in Nat \ {0}
      /\ flowing \in Nat
  BY ConstantTypes, SizeAssumption DEF IInv, TypeOK
<1>2. \A f \in oneBlocks \cup seen : f.num \in Nat /\ (f.forked \/ f.num \in chain)
  BY DEF UploadInv, AllFiles, File, IInv, TypeOK, Files
<1>3. ASSUME UNCHANGED <<seen, base, flowing, forkedBlocks>>, job'.forks \subseteq job.forks,
             phase' = phase \/ (phase # "returned" /\ phase' # "skip")
      PROVE  SeenInv'
  BY <1>3
<1>4. ASSUME NEW r, GoDown(r), UNCHANGED forkedBlocks PROVE SeenInv'
  BY <1>4 DEF GoDown, NoJob
<1>5. CASE RunStep
  <2>1. CASE PollReset
    <3>1. PICK b \in BundleEnds : NextBundle(b) /\ b > base
      BY <2>1 DEF PollReset
    <3>2. Covered(base)
      <4>1. b \in Nat
        BY <1>1, <3>1, NextBoundary DEF BundleEnds, PlaceInv, Reached
      <4>. QED BY <1>1, <3>1, <4>1 DEF NextBundle
    <3>3. PICK c \in DOMAIN merged : c =< base /\ base < c + BundleSize
      BY <3>2 DEF Covered
    <3>4. ~Above
      <4>1. ASSUME c < base PROVE FALSE
        <5>1. c + BundleSize =< base /\ c \in Nat
          BY <1>1, <4>1, BoundariesApart DEF PlaceInv, Reached, TypeOK
        <5>. QED BY <1>1, <3>3, <5>1
      <4>. QED BY <4>1 DEF Above
    <3>5. seen = {} /\ phase' = "walk" /\ UNCHANGED <<seen, job, forkedBlocks>>
      BY <2>1, <3>4 DEF PollReset, StartWalk, LineInv
    <3>. QED BY <3>5
  <2>2. CASE WalkFile
    <3>1. PICK f \in oneBlocks : cursor =< Name(f) /\ seen' = seen \cup {f}
      BY <2>2 DEF WalkFile, NextFile
    <3>2. phase = "walk" /\ phase' # "skip" /\ UNCHANGED <<base, job, forkedBlocks>>
      BY <2>2 DEF WalkFile
    <3>3. 2 * base =< cursor /\ cursor \in Nat
      BY <1>1, <3>2 DEF CursorInv, TypeOK
    <3>4. f.forked \/ f.num >= base
      BY <1>1, <1>2, <3>1, <3>3 DEF Name
    <3>. QED BY <3>1, <3>2, <3>4
  <2>3. CASE StartMerge
    <3>1. /\ phase = "lock" /\ phase' = "skip" /\ base' = base + BundleSize
          /\ job'.forks = Leftovers /\ UNCHANGED <<flowing, forkedBlocks>>
          /\ seen' = {f \in seen : f.num >= base + BundleSize
                                     /\ ~(f.num \in irreversible /\ ~f.forked)}
      BY <2>3 DEF StartMerge
    <3>2. flowing >= base + BundleSize /\ Collected(base, flowing)
      BY <3>1 DEF IInv, LockInv
    <3>3. ASSUME NEW f \in seen, ~f.forked, f.num \notin irreversible
          PROVE  f.num >= flowing
      <4>1. f.num \in chain /\ f.num \in Nat /\ f.num >= base
        BY <1>2, <3>1, <3>3
      <4>. QED BY <1>1, <3>2, <3>3, <4>1 DEF Collected
    <3>4. \A f \in Leftovers : f.forked
      <4>1. ASSUME NEW f \in Leftovers, ~f.forked PROVE FALSE
        <5>1. f \in seen /\ f.num < base + BundleSize /\ f.num \notin irreversible
          BY <4>1 DEF Leftovers
        <5>2. f.num >= flowing /\ f.num \in Nat
          BY <1>2, <3>3, <4>1, <5>1
        <5>. QED BY <1>1, <3>2, <5>1, <5>2
      <4>. QED BY <4>1
    <3>. QED BY <3>1, <3>3, <3>4
  <2>4. CASE SkipStored
    <3>1. /\ phase = "skip" /\ phase' = "skip" /\ base' = base + BundleSize
          /\ flowing > base + BundleSize
          /\ UNCHANGED <<seen, flowing, job, forkedBlocks>>
      BY <2>4 DEF SkipStored, SkipsBundle
    <3>. QED BY <1>1, <1>2, <3>1
  <2>5. ASSUME ~PollReset, ~WalkFile, ~StartMerge, ~SkipStored, ~PollPanic,
               ~EmptyBundlePanic
        PROVE  /\ UNCHANGED <<seen, base, job, forkedBlocks>>
               /\ phase # "returned" /\ phase' # "skip"
    BY <1>5, <2>5 DEF RunStep, PollTerminating, PollSame, StartWalk, WalkDone,
       FinalRefused, Reset, FinalKept, FinalSeesError, FinalCompletes, FlowDone,
       SkipFails, SkipDone, RunReturns
  <2>. QED BY <1>4, <2>1, <2>2, <2>3, <2>4, <2>5 DEF PollPanic, EmptyBundlePanic
<1>6. CASE MergeStored \/ MergeCutShort \/ MergeFails \/ MergeReports
  BY <1>1, <1>3, <1>6 DEF MergeStored, MergeCutShort, MergeFails, MergeReports,
     NoJob, TypeOK, Jobs
<1>7. ASSUME NEW copied \in SUBSET (job.forks \cap oneBlocks), MoveForks(copied)
      PROVE  SeenInv'
  BY <1>7 DEF MoveForks, NoJob
<1>8. CASE PruneForkedBlocks
  BY <1>8 DEF PruneForkedBlocks
<1>9. ASSUME Exit \/ Crash PROVE SeenInv'
  BY <1>4, <1>9 DEF Exit, Crash
<1>10. CASE Restart
  BY <1>10 DEF Restart
<1>11. ASSUME \/ PruneOldFiles
              \/ \E f \in deletions : DeleteFile(f)
              \/ RequestShutdown \/ OnTerminating
              \/ \E f \in AllFiles : Upload(f)
              \/ \E n \in chain : ExternalMerge(n)
              \/ UNCHANGED vars
       PROVE  UNCHANGED <<seen, base, flowing, forkedBlocks, job>> /\ phase' = phase
  BY <1>11 DEF PruneOldFiles, DeleteFile, RequestShutdown, OnTerminating,
     Upload, ExternalMerge, vars
<1>. QED BY <1>3, <1>5, <1>6, <1>7, <1>8, <1>9, <1>10, <1>11 DEF Next, MergeStep

LoneInv == CoverInv /\ PlaceInv /\ LineInv /\ UploadInv /\ CursorInv /\ SeenInv

\* The inductive step for a merger alone.
LEMMA LoneKept ==
  ASSUME StoresAnswer, SingleMerger PROVE LoneInv /\ [Next]_vars => LoneInv'
BY CoverInvKept, PlaceKept, LineKept, UploadKept, CursorKept, SeenKept DEF
   LoneInv, CoverInv

\* It holds of a process that starts with empty stores.
LEMMA LoneStarts == Init => LoneInv
<1> SUFFICES ASSUME Init PROVE LoneInv
  OBVIOUS
<1>1. CoverInv /\ PlaceInv
  BY CoverInvStarts, PlaceStarts
<1>2. LineInv
  BY DEF Init, ProcessInit, LineInv, NoGap, InLine, NoJob
<1>3. UploadInv
  BY DEF Init, ProcessInit, UploadInv
<1>4. CursorInv
  BY ConstantTypes DEF Init, ProcessInit, CursorInv, Pending, NoLib
<1>5. SeenInv
  BY DEF Init, ProcessInit, SeenInv, NoJob, ForkedStoreOnlyForks
<1>. QED BY <1>1, <1>2, <1>3, <1>4, <1>5 DEF LoneInv

\* It is an invariant of a merger alone with stores that answer.
LEMMA LoneHolds == ASSUME StoresAnswer, SingleMerger PROVE Spec => []LoneInv
<1>. QED BY LoneStarts, LoneKept, PTL DEF Spec

\* The mover takes no final block out of the one-block store: as long as the
\* stores answer and no other merger writes, the forked store has forks only.
THEOREM OnlyForksMoved ==
  ASSUME StoresAnswer, SingleMerger PROVE Spec => []ForkedStoreOnlyForks
<1>1. LoneInv => ForkedStoreOnlyForks
  BY DEF LoneInv, SeenInv
<1>. QED BY <1>1, LoneHolds, PTL

-----------------------------------------------------------------------------
(* The refinement of the archive.  A block on a boundary after an empty    *)
(* range is written twice (bundler.go:214); on the chains without one the  *)
(* files are exact (StrictInv), and what is written was uploaded           *)
(* (KnownInv), so that each write is the archive's Append.                 *)

\* No block of a chain on a boundary follows an empty range.
RegularChains ==
  \A c \in Chains : \A n \in c :
    n > FirstStreamable /\ Boundary(n) => \E m \in c : n - BundleSize =< m /\ m < n

StrictInv ==
  /\ \A b \in DOMAIN merged : \A n \in merged[b] : n < b + BundleSize
  /\ job.state = "write" => \A n \in job.blocks : n < job.base + BundleSize
  /\ phase \in {"down", "poll", "walk", "emit", "lock"} =>
       \A n \in irreversible : n < base + BundleSize
  /\ phase = "skip" => \A n \in irreversible : n < base \/ n = flowing

\* Writing the blocks of one range keeps the files exact.
LEMMA StoredStrict ==
  ASSUME TypeOK, StrictInv, NEW b \in Nat, NEW blocks \in SUBSET Nat,
         \A n \in blocks : n < b + BundleSize, merged' = Stored(b, blocks)
  PROVE  \A c \in DOMAIN merged' : \A n \in merged'[c] : n < c + BundleSize
<1>1. /\ DOMAIN merged' = DOMAIN merged \cup {b}
      /\ merged'[b] = {n \in blocks : n >= b}
      /\ \A c \in DOMAIN merged : c # b => merged'[c] = merged[c]
  BY StoredType
<1>. QED BY <1>1 DEF StrictInv

\* The bundle that was left ends below the block that completed it.
LEMMA StrictKept ==
  ASSUME RegularChains, IInv, PlaceInv, StrictInv, [Next]_vars PROVE StrictInv'
<1>. USE DEF StrictInv, bundleVars, mergeVars, storeVars
<1>1. TypeOK /\ chain' = chain /\ chain \in Chains /\ chain \subseteq Nat
      /\ base \in Nat /\ BundleSize \in Nat \ {0} /\ irreversible \subseteq Nat
      /\ flowing \in Nat
  BY MergedGrows, ConstantTypes, SizeAssumption DEF IInv, TypeOK
<1>2. ASSUME UNCHANGED <<merged, base, irreversible, flowing>>,
             job' = job \/ job'.state # "write",
             phase' = phase \/ phase' = "returned"
               \/ {phase, phase'} \subseteq {"down", "poll", "walk", "emit", "lock"}
      PROVE  StrictInv'
  BY <1>2
<1>3. ASSUME NEW r, GoDown(r), merged' = merged PROVE StrictInv'
  BY <1>3 DEF GoDown, NoJob
<1>4. CASE RunStep
  <2>1. CASE PollReset \/ FinalRefused
    <3>1. /\ UNCHANGED <<merged, job>>
          /\ \/ phase' = "walk" /\ irreversible' = {}
             \/ phase' = "returned"
      BY <2>1 DEF PollReset, StartWalk, FinalRefused, Reset, RunReturns
    <3>. QED BY <3>1
  <2>2. CASE FinalKept
    <3>1. PICK n \in chain : n < base + BundleSize /\ irreversible' = irreversible \cup {n}
      BY <2>2 DEF FinalKept
    <3>2. phase = "emit" /\ phase' = phase /\ UNCHANGED <<merged, base, job>>
      BY <2>2 DEF FinalKept
    <3>. QED BY <1>1, <3>1, <3>2
  <2>3. CASE FinalCompletes
    <3>1. phase = "emit" /\ phase' = "lock" /\ UNCHANGED <<merged, base, irreversible, job>>
      BY <2>3 DEF FinalCompletes
    <3>. QED BY <3>1
  <2>4. CASE StartMerge
    <3>1. /\ phase = "lock" /\ phase' = "skip" /\ base' = base + BundleSize
          /\ UNCHANGED <<merged, flowing>>
          /\ job'.blocks = irreversible /\ job'.base = base
      BY <2>4 DEF StartMerge
    <3>2. PICK last \in irreversible : irreversible' = {last, flowing}
      BY <2>4 DEF StartMerge
    <3>3. \A n \in irreversible : n < base + BundleSize
      BY <3>1
    <3>4. \A n \in irreversible' : n < base' \/ n = flowing'
      BY <3>1, <3>2, <3>3
    <3>. QED BY <3>1, <3>3, <3>4
  <2>5. CASE SkipStored
    <3>1. /\ phase = "skip" /\ phase' = "skip" /\ base' = base + BundleSize
          /\ UNCHANGED <<flowing, irreversible, job>>
          /\ merged' = Stored(base, irreversible \ {flowing})
      BY <2>5 DEF SkipStored
    <3>2. \A n \in irreversible \ {flowing} : n < base + BundleSize
      BY <1>1, <3>1
    <3>3. irreversible \ {flowing} \in SUBSET Nat
      BY <1>1
    <3>4. \A c \in DOMAIN merged' : \A n \in merged'[c] : n < c + BundleSize
      BY <1>1, <3>1, <3>2, <3>3, StoredStrict
    <3>5. \A n \in irreversible' : n < base' \/ n = flowing'
      BY <1>1, <3>1
    <3>. QED BY <3>1, <3>4, <3>5
  <2>6. CASE SkipDone
    <3>1. /\ phase = "skip" /\ phase' \in {"emit", "returned"}
          /\ ~(flowing > base + BundleSize)
          /\ UNCHANGED <<merged, base, irreversible, job>>
      BY <2>6 DEF SkipDone, SkipsBundle, RunReturns
    <3>2. flowing \in irreversible /\ irreversible \subseteq chain /\ Collected(base, flowing)
      BY <3>1 DEF IInv, SkipInv
    <3>3. flowing # base + BundleSize
      <4>1. SUFFICES ASSUME flowing = base + BundleSize PROVE FALSE
        OBVIOUS
      <4>2. Boundary(flowing)
        BY <4>1, NextBoundary DEF PlaceInv
      <4>3. flowing > FirstStreamable
        <5>1. PICK k \in Nat : base = FirstBase + k * BundleSize
          BY DEF PlaceInv, Boundary
        <5>2. k * BundleSize \in Nat /\ FirstBase \in Nat /\ FirstStreamable \in Nat
              /\ FirstStreamable < FirstBase + BundleSize
          BY Multiples, FirstBoundary, BaseNum, SizeAssumption DEF FirstBase
        <5>. QED BY <1>1, <4>1, <5>1, <5>2
      <4>4. PICK m \in chain : flowing - BundleSize =< m /\ m < flowing
        BY <1>1, <3>2, <4>2, <4>3 DEF RegularChains
      <4>5. m \in irreversible /\ m \in Nat /\ base =< m
        BY <1>1, <3>2, <4>1, <4>4 DEF Collected
      <4>. QED BY <1>1, <3>1, <4>4, <4>5
    <3>4. \A n \in irreversible : n < base + BundleSize
      BY <1>1, <3>1, <3>3
    <3>. QED BY <3>1, <3>4
  <2>7. ASSUME ~PollReset, ~FinalRefused, ~FinalKept, ~FinalCompletes, ~StartMerge,
               ~SkipStored, ~SkipDone, ~PollPanic, ~EmptyBundlePanic
        PROVE  /\ UNCHANGED <<merged, base, irreversible, flowing, job>>
               /\ \/ phase' = "returned"
                  \/ {phase, phase'} \subseteq {"down", "poll", "walk", "emit", "lock"}
    BY <1>4, <2>7 DEF RunStep, PollTerminating, PollSame, StartWalk, WalkFile,
       WalkDone, FinalSeesError, FlowDone, SkipFails, RunReturns
  <2>. QED BY <1>2, <1>3, <2>1, <2>2, <2>3, <2>4, <2>5, <2>6, <2>7
           DEF PollPanic, EmptyBundlePanic
<1>5. CASE MergeStored
  <2>1. /\ merged' = Stored(job.base, job.blocks) /\ job.state = "write"
        /\ job'.state = "move" /\ job.base \in Nat /\ job.blocks \in SUBSET Nat
        /\ UNCHANGED <<base, irreversible, flowing>> /\ phase' = phase
    BY <1>1, <1>5 DEF MergeStored, TypeOK, Jobs
  <2>2. \A c \in DOMAIN merged' : \A n \in merged'[c] : n < c + BundleSize
    BY <1>1, <2>1, StoredStrict
  <2>. QED BY <2>1, <2>2
<1>11. CASE MergeCutShort
  <2>1. PICK cut \in job.blocks :
          merged' = Stored(job.base, {n \in job.blocks : n < cut})
    BY <1>11 DEF MergeCutShort
  <2>2. /\ job.state = "write" /\ job'.state = "move" /\ job.base \in Nat
        /\ job.blocks \in SUBSET Nat
        /\ UNCHANGED <<base, irreversible, flowing>> /\ phase' = phase
    BY <1>1, <1>11 DEF MergeCutShort, TypeOK, Jobs
  <2>3. \A c \in DOMAIN merged' : \A n \in merged'[c] : n < c + BundleSize
    BY <1>1, <2>1, <2>2, StoredStrict
  <2>. QED BY <2>2, <2>3
<1>6. CASE MergeFails \/ MergeReports
  BY <1>1, <1>2, <1>6 DEF MergeFails, MergeReports, NoJob, TypeOK, Jobs
<1>7. ASSUME NEW copied \in SUBSET (job.forks \cap oneBlocks), MoveForks(copied)
      PROVE  StrictInv'
  BY <1>2, <1>7 DEF MoveForks, NoJob
<1>8. ASSUME Exit \/ Crash PROVE StrictInv'
  BY <1>3, <1>8 DEF Exit, Crash
<1>9. ASSUME NEW n \in chain, ExternalMerge(n) PROVE StrictInv'
  <2>1. n \in Nat /\ toBaseNum(n) \in Nat
    BY <1>1, BaseNum
  <2>2. /\ merged' = Stored(toBaseNum(n), Bundle(toBaseNum(n)))
        /\ UNCHANGED <<base, irreversible, flowing, job>> /\ phase' = phase
    BY <1>9 DEF ExternalMerge
  <2>3. /\ Bundle(toBaseNum(n)) \in SUBSET Nat
        /\ \A m \in Bundle(toBaseNum(n)) : m < toBaseNum(n) + BundleSize
    BY <1>1 DEF Bundle
  <2>4. \A c \in DOMAIN merged' : \A m \in merged'[c] : m < c + BundleSize
    BY <1>1, <2>1, <2>2, <2>3, StoredStrict
  <2>. QED BY <2>2, <2>4
<1>10. ASSUME \/ PruneOldFiles \/ PruneForkedBlocks
              \/ \E f \in deletions : DeleteFile(f)
              \/ RequestShutdown \/ OnTerminating \/ Restart
              \/ \E f \in AllFiles : Upload(f)
              \/ UNCHANGED vars
       PROVE  /\ UNCHANGED <<merged, base, irreversible, flowing, job>>
              /\ phase' = phase \/ (phase = "down" /\ phase' = "poll")
  BY <1>10 DEF PruneOldFiles, PruneForkedBlocks, DeleteFile, RequestShutdown,
     OnTerminating,
     Restart, Upload, vars
<1>. QED BY <1>2, <1>4, <1>5, <1>6, <1>7, <1>8, <1>9, <1>10, <1>11 DEF Next, MergeStep

\* The heights of the final chain whose one-block file was uploaded.
Received == {n \in chain : File(n, FALSE) \in uploaded}

KnownInv ==
  /\ irreversible \subseteq Received /\ fBlocks \subseteq Received
  /\ \A n \in chain : Pending(n) => n \in fBlocks
  /\ phase \in {"lock", "skip"} => flowing \in Received
  /\ job.state = "write" =>
       /\ job.blocks \subseteq Received
       /\ \E n \in Received : n >= job.base + BundleSize

\* What the forkable flows, and the merge writes, was uploaded.
LEMMA KnownKept ==
  ASSUME IInv, UploadInv, CursorInv, StrictInv, KnownInv, [Next]_vars
  PROVE  KnownInv'
<1>. USE DEF KnownInv, bundleVars, mergeVars, forkdbVars
<1>1. TypeOK /\ chain' = chain /\ chain \subseteq Nat
      /\ fLib \in Int /\ fTarget \in Int /\ flowing \in Nat
  BY MergedGrows, ConstantTypes DEF IInv, TypeOK, NoLib
<1>2. uploaded \subseteq uploaded'
  <2>1. CASE RunStep
    BY <2>1 DEF storeVars, RunStep, PollTerminating, PollSame, PollReset,
       PollPanic, WalkFile, WalkDone, FinalRefused, FinalKept, FinalSeesError,
       FinalCompletes, FlowDone, StartMerge, EmptyBundlePanic, SkipStored,
       SkipFails, SkipDone
  <2>2. CASE ~RunStep
    BY <2>2 DEF storeVars, Next, MergeStep, MergeStored, MergeCutShort, MergeFails,
       MergeReports, MoveForks, PruneOldFiles, PruneForkedBlocks, DeleteFile,
       RequestShutdown, OnTerminating, Exit, Crash, Restart, Upload,
       ExternalMerge, vars
  <2>. QED BY <2>1, <2>2
<1>3. Received \subseteq Received'
  BY <1>1, <1>2 DEF Received
<1>4. ASSUME UNCHANGED <<irreversible, forkdbVars, flowing>>,
             job' = job \/ job'.state # "write",
             phase' = phase \/ phase' \notin {"lock", "skip"}
      PROVE  KnownInv'
  BY <1>1, <1>3, <1>4 DEF Pending
<1>5. ASSUME NEW r, GoDown(r) PROVE KnownInv'
  BY <1>1, <1>5 DEF GoDown, NoJob, Pending, NoLib
<1>6. CASE RunStep
  <2>1. CASE PollReset
    <3>1. PICK b \in BundleEnds, lib \in Nat :
            /\ Reset(b, lib) /\ b - BundleSize \in DOMAIN merged
            /\ lib \in merged[b - BundleSize]
      BY <1>1, <2>1 DEF PollReset, NextBundle, TypeOK
    <3>2. b \in Nat /\ lib < b
      <4>1. b \in Nat /\ b - BundleSize \in Nat
        BY <1>1, <3>1, SizeAssumption DEF BundleEnds, TypeOK
      <4>. QED BY <3>1, <4>1, SizeAssumption DEF StrictInv
    <3>3. fLib' = lib /\ fTarget' = lib /\ fBlocks' = {} /\ irreversible' = {}
      BY <3>1, <3>2 DEF Reset, LibFlowed
    <3>4. phase' = "walk" /\ job' = job
      BY <2>1 DEF PollReset, StartWalk
    <3>. QED BY <1>1, <1>3, <3>1, <3>3, <3>4 DEF Pending
  <2>2. CASE WalkFile
    <3>1. PICK f \in oneBlocks :
            \/ UNCHANGED <<fLib, fTarget, phase>> /\ fBlocks' = fBlocks
            \/ /\ UNCHANGED <<fLib, fTarget, phase>> /\ ~f.forked
               /\ fBlocks' = fBlocks \cup {f.num}
            \/ /\ phase' = "emit" /\ ~f.forked /\ fBlocks' = fBlocks \cup {f.num}
               /\ \E lib \in fBlocks \cup {f.num} : fLib' = lib - 1 /\ fTarget' = lib
            \/ /\ phase' = "emit" /\ ~f.forked /\ fBlocks' = fBlocks \cup {f.num}
               /\ fLib' = fLib /\ Linked(fLib, f.num)
               /\ fTarget' \in {fTarget, LibNum(f.num)}
      BY <2>2 DEF WalkFile
    <3>2. phase = "walk" /\ UNCHANGED <<irreversible, job, flowing>>
      BY <2>2 DEF WalkFile
    <3>3. ASSUME ~f.forked PROVE f.num \in Received /\ f.num \in Nat
      <4>1. f \in uploaded /\ f \in AllFiles
        BY DEF UploadInv
      <4>2. PICK n \in chain : f = File(n, FALSE)
        BY <3>3, <4>1 DEF AllFiles, File
      <4>3. f.num = n
        BY <4>2 DEF File
      <4>. QED BY <1>1, <4>1, <4>2, <4>3 DEF Received
    <3>4. fBlocks \subseteq Nat
      BY <1>1 DEF TypeOK
    <3>5. CASE UNCHANGED <<fLib, fTarget, phase>>
      BY <1>1, <1>3, <3>1, <3>2, <3>3, <3>5 DEF Pending
    <3>6. ASSUME phase' = "emit", ~f.forked, fBlocks' = fBlocks \cup {f.num},
                 NEW lib \in fBlocks \cup {f.num}, fLib' = lib - 1, fTarget' = lib
          PROVE  KnownInv'
      <4>1. \A n \in chain : Pending(n)' => n = lib
        BY <1>1, <3>3, <3>4, <3>6 DEF Pending
      <4>. QED BY <1>1, <1>3, <3>2, <3>3, <3>6, <4>1
    <3>7. ASSUME phase' = "emit", ~f.forked, fBlocks' = fBlocks \cup {f.num},
                 fLib' = fLib, Linked(fLib, f.num),
                 fTarget' \in {fTarget, LibNum(f.num)}
          PROVE  KnownInv'
      <4>1. f.num \in Nat /\ FirstStreamable =< f.num
        BY <1>1, <3>3, <3>7, ChainAssumption DEF Received, TypeOK
      <4>2. LibNum(f.num) \in Nat /\ LibNum(f.num) =< f.num
        BY <4>1, OptionAssumption, SizeAssumption DEF LibNum
      <4>3. ASSUME NEW n \in chain, Pending(n)' PROVE n \in fBlocks'
        <5>1. Pending(n) \/ n =< f.num
          BY <1>1, <3>7, <4>1, <4>2, <4>3 DEF Pending
        <5>2. fLib < n
          BY <3>7, <4>3 DEF Pending
        <5>3. n =< f.num => n = f.num \/ n < f.num
          BY <1>1, <4>1
        <5>. QED BY <3>7, <5>1, <5>2, <5>3 DEF Linked
      <4>. QED BY <1>1, <1>3, <3>2, <3>3, <3>7, <4>3
    <3>. QED BY <3>1, <3>5, <3>6, <3>7
  <2>3. CASE FinalRefused
    <3>1. \/ phase' = "returned" /\ UNCHANGED <<irreversible, fLib, fTarget, fBlocks>>
          \/ /\ phase' = "walk" /\ irreversible' = {} /\ fBlocks' = {}
             /\ fTarget' = NoLib
      BY <2>3 DEF FinalRefused, Reset, RunReturns
    <3>2. job' = job
      BY <2>3 DEF FinalRefused
    <3>3. \A n \in chain : Pending(n)' => n \in fBlocks'
      BY <1>1, <3>1 DEF Pending, NoLib
    <3>. QED BY <1>1, <1>3, <3>1, <3>2, <3>3
  <2>4. CASE FinalKept
    <3>1. PICK n \in chain : /\ NextFinal(n) /\ irreversible' = irreversible \cup {n}
                             /\ fLib' = n
      BY <2>4 DEF FinalKept, Accepted
    <3>2. phase = "emit" /\ phase' = phase /\ UNCHANGED <<job, fTarget, fBlocks, flowing>>
      BY <2>4 DEF FinalKept
    <3>3. n \in Received
      BY <3>1 DEF NextFinal, Pending
    <3>4. \A m \in chain : Pending(m)' => Pending(m)
      BY <1>1, <3>1, <3>2 DEF Pending, NextFinal
    <3>. QED BY <1>1, <1>3, <3>1, <3>2, <3>3, <3>4
  <2>5. CASE FinalCompletes
    <3>1. PICK n \in chain : NextFinal(n) /\ flowing' = n
      BY <2>5 DEF FinalCompletes, Accepted
    <3>2. UNCHANGED <<irreversible, job, fLib, fTarget, fBlocks>>
      BY <2>5 DEF FinalCompletes
    <3>3. n \in Received
      BY <3>1 DEF NextFinal, Pending
    <3>. QED BY <1>1, <1>3, <3>1, <3>2, <3>3 DEF Pending
  <2>6. CASE StartMerge
    <3>1. /\ phase = "lock" /\ job'.blocks = irreversible /\ job'.base = base
          /\ UNCHANGED <<fLib, fTarget, fBlocks, flowing>>
      BY <2>6 DEF StartMerge
    <3>2. PICK last \in irreversible : irreversible' = {last, flowing}
      BY <2>6 DEF StartMerge
    <3>3. flowing >= base + BundleSize /\ flowing \in Received
      BY <3>1 DEF IInv, LockInv
    <3>. QED BY <1>1, <1>3, <3>1, <3>2, <3>3 DEF Pending
  <2>7. CASE SkipStored
    <3>1. UNCHANGED <<irreversible, job, fLib, fTarget, fBlocks, flowing>> /\ phase' = phase
      BY <2>7 DEF SkipStored
    <3>. QED BY <1>4, <3>1
  <2>8. CASE SkipDone
    <3>1. /\ phase = "skip" /\ phase' \in {"emit", "returned"} /\ fLib' = flowing
          /\ UNCHANGED <<irreversible, job, fTarget, fBlocks>>
      BY <2>8 DEF SkipDone, RunReturns
    <3>2. \A m \in chain : Pending(m)' => Pending(m)
      BY <1>1, <3>1 DEF Pending, CursorInv
    <3>. QED BY <1>1, <1>3, <3>1, <3>2
  <2>9. ASSUME ~PollReset, ~WalkFile, ~FinalRefused, ~FinalKept, ~FinalCompletes,
               ~StartMerge, ~SkipStored, ~SkipDone, ~PollPanic, ~EmptyBundlePanic
        PROVE  /\ UNCHANGED <<irreversible, forkdbVars, flowing, job>>
               /\ phase' \notin {"lock", "skip"}
    BY <1>6, <2>9 DEF RunStep, PollTerminating, PollSame, StartWalk, WalkDone,
       FinalSeesError, FlowDone, SkipFails, RunReturns
  <2>. QED BY <1>4, <1>5, <2>1, <2>2, <2>3, <2>4, <2>5, <2>6, <2>7, <2>8, <2>9
           DEF PollPanic, EmptyBundlePanic
<1>7. CASE MergeStored \/ MergeCutShort \/ MergeFails \/ MergeReports
  BY <1>1, <1>4, <1>7 DEF MergeStored, MergeCutShort, MergeFails, MergeReports,
     NoJob, TypeOK, Jobs
<1>8. ASSUME NEW copied \in SUBSET (job.forks \cap oneBlocks), MoveForks(copied)
      PROVE  KnownInv'
  BY <1>4, <1>8 DEF MoveForks, NoJob
<1>9. ASSUME Exit \/ Crash PROVE KnownInv'
  BY <1>5, <1>9 DEF Exit, Crash
<1>10. ASSUME \/ PruneOldFiles \/ PruneForkedBlocks
              \/ \E f \in deletions : DeleteFile(f)
              \/ RequestShutdown \/ OnTerminating \/ Restart
              \/ \E f \in AllFiles : Upload(f)
              \/ \E n \in chain : ExternalMerge(n)
              \/ UNCHANGED vars
       PROVE  /\ UNCHANGED <<irreversible, forkdbVars, flowing, job>>
              /\ phase' = phase \/ (phase = "down" /\ phase' = "poll")
  BY <1>10 DEF PruneOldFiles, PruneForkedBlocks, DeleteFile, RequestShutdown,
     OnTerminating,
     Restart, Upload, ExternalMerge, vars
<1>. QED BY <1>4, <1>6, <1>7, <1>8, <1>9, <1>10 DEF Next, MergeStep

ExactInv == LoneInv /\ StrictInv /\ KnownInv

\* The inductive step on regular chains.
LEMMA ExactKept ==
  ASSUME StoresAnswer, SingleMerger, RegularChains
  PROVE  ExactInv /\ [Next]_vars => ExactInv'
BY LoneKept, StrictKept, KnownKept DEF ExactInv, LoneInv, CoverInv

\* It holds at the start.
LEMMA ExactStarts == Init => ExactInv
<1> SUFFICES ASSUME Init PROVE ExactInv
  OBVIOUS
<1>1. LoneInv
  BY LoneStarts
<1>2. StrictInv
  BY DEF Init, ProcessInit, StrictInv, NoJob
<1>3. KnownInv
  BY ConstantTypes DEF Init, ProcessInit, KnownInv, Pending, NoLib, NoJob
<1>. QED BY <1>1, <1>2, <1>3 DEF ExactInv

\* The heights of the final chain whose one-block file is in the store.
Filed == {n \in chain : File(n, FALSE) \in oneBlocks}

\* A block of the chain that is covered is held by the archive.
LEMMA HeldByArchive ==
  ASSUME BundleComplete, shortened = {}, NEW n \in chain, Covered(n)
  PROVE  Archive!Held(n)
BY CoveredIsArchived DEF Archived, Archive!Held

\* A bundle that is written in line is appended to the archive.
LEMMA WriteAppends ==
  ASSUME LoneInv, chain' = chain, uploaded' = uploaded, oneBlocks' = oneBlocks,
         NEW b \in Nat, NEW blocks \in SUBSET Nat, InLine(b), b \notin DOMAIN merged,
         Bundle(b) \subseteq blocks, blocks \subseteq Received,
         \A n \in blocks : n < b + BundleSize,
         \E n \in Received : n >= b + BundleSize,
         merged' = Stored(b, blocks)
  PROVE  Archive!Next
<1>1. {n \in blocks : n >= b} = Archive!Range(b)
  BY DEF Archive!Range, Bundle, Received, LoneInv, CoverInv, IInv, TypeOK
<1>2. merged' = [c \in DOMAIN merged \cup {b} |->
                   IF c = b THEN Archive!Range(b) ELSE merged[c]]
  BY <1>1 DEF Stored
<1>3. Archive!NextInLine(b)
  BY DEF Archive!NextInLine, InLine
<1>4. Archive!Range(b) \subseteq Received
  BY <1>1
<1>5. Archive!Append(b)
  BY <1>2, <1>3, <1>4 DEF Archive!Append, Received
<1>6. b \in {FirstBase} \cup {c + BundleSize : c \in DOMAIN merged}
  <2>1. CASE b = FirstBase
    BY <2>1
  <2>2. CASE b - BundleSize \in DOMAIN merged
    <3>1. b = (b - BundleSize) + BundleSize
      BY SizeAssumption
    <3>. QED BY <2>2, <3>1
  <2>. QED BY <2>1, <2>2 DEF InLine
<1>. QED BY <1>5, <1>6 DEF Archive!Next

\* Every step of the merger is a step of the archive, or changes nothing of it.
LEMMA StepRefines ==
  ASSUME StoresAnswer, SingleMerger, ExactInv, [Next]_vars
  PROVE  [Archive!Next]_(Archive!vars)
<1>1. /\ IInv /\ TypeOK /\ CalmInv /\ PlaceInv /\ LineInv /\ UploadInv /\ StrictInv
      /\ KnownInv /\ BundleComplete /\ chain' = chain /\ chain \subseteq Nat
      /\ FilesInv /\ LoneInv
  BY MergedGrows, ConstantTypes DEF ExactInv, LoneInv, CoverInv, IInv, TypeOK
<1>2. ASSUME UNCHANGED <<chain, uploaded, oneBlocks, merged>>
      PROVE  UNCHANGED Archive!vars
  BY <1>2 DEF Archive!vars
<1>3. CASE SkipStored
  <2>1. /\ phase = "skip" /\ job.state = "idle" /\ flowing > base + BundleSize
        /\ merged' = Stored(base, irreversible \ {flowing})
        /\ UNCHANGED <<uploaded, oneBlocks>>
    BY <1>1, <1>3 DEF SkipStored, SkipsBundle, CanLock, CalmInv
  <2>2. /\ base \in Nat /\ BundleSize \in Nat \ {0} /\ flowing \in Nat
        /\ irreversible \in SUBSET Nat
    BY <1>1, SizeAssumption DEF TypeOK
  <2>3. InLine(base) /\ Above /\ base \notin DOMAIN merged
    BY <1>1, <2>1, <2>2 DEF LineInv, Above
  <2>4. Collected(base, flowing) /\ \A n \in irreversible : n < base \/ n = flowing
    BY <1>1, <2>1 DEF IInv, SkipInv, StrictInv
  <2>5. Bundle(base) \subseteq irreversible \ {flowing}
    <3>1. ASSUME NEW n \in Bundle(base) PROVE n \in irreversible \ {flowing}
      <4>1. n \in chain /\ n \in Nat /\ base =< n /\ n < base + BundleSize
        BY <1>1, <3>1 DEF Bundle
      <4>2. n < flowing
        BY <2>1, <2>2, <4>1
      <4>. QED BY <2>2, <2>4, <4>1, <4>2 DEF Collected
    <3>. QED BY <3>1
  <2>6. \A n \in irreversible \ {flowing} : n < base + BundleSize
    BY <2>2, <2>4
  <2>7. irreversible \ {flowing} \subseteq Received /\ flowing \in Received
    BY <1>1, <2>1 DEF KnownInv
  <2>8. irreversible \ {flowing} \in SUBSET Nat /\ flowing >= base + BundleSize
    BY <2>1, <2>2
  <2>9. Archive!Next
    BY <1>1, <2>1, <2>2, <2>3, <2>5, <2>6, <2>7, <2>8, WriteAppends
  <2>. QED BY <2>9
<1>4. CASE RunStep /\ ~SkipStored
  <2>1. UNCHANGED <<uploaded, oneBlocks, merged>>
    BY <1>4 DEF storeVars, RunStep, PollTerminating, PollSame, PollReset,
       PollPanic, WalkFile, WalkDone, FinalRefused, FinalKept, FinalSeesError,
       FinalCompletes, FlowDone, StartMerge, EmptyBundlePanic, SkipFails, SkipDone
  <2>. QED BY <1>1, <1>2, <2>1
<1>5. CASE MergeStored
  <2>1. /\ job.state = "write" /\ merged' = Stored(job.base, job.blocks)
        /\ job.base \in Nat /\ job.blocks \in SUBSET Nat
        /\ UNCHANGED <<uploaded, oneBlocks>>
    BY <1>1, <1>5 DEF MergeStored, TypeOK, Jobs
  <2>2. /\ InLine(job.base) /\ job.base \notin DOMAIN merged /\ job.base < base
        /\ Bundle(job.base) \subseteq job.blocks /\ job.blocks \subseteq Received
        /\ \A n \in job.blocks : n < job.base + BundleSize
        /\ \E n \in Received : n >= job.base + BundleSize
    BY <1>1, <2>1 DEF LineInv, IInv, JobInv, StrictInv, KnownInv
  <2>3. Archive!Next
    BY <1>1, <2>1, <2>2, WriteAppends
  <2>. QED BY <2>3
<1>6. ASSUME NEW f \in deletions, DeleteFile(f) PROVE [Archive!Next]_(Archive!vars)
  <2>1. oneBlocks' = oneBlocks \ {f} /\ UNCHANGED <<uploaded, merged>>
    BY <1>6 DEF DeleteFile
  <2>2. ASSUME NEW n \in chain, f = File(n, FALSE), f \in oneBlocks
        PROVE  Archive!Next
    <3>1. Covered(n)
      BY <1>1, <2>2 DEF FilesInv, Spare, File
    <3>2. Archive!Held(n)
      BY <1>1, <3>1, HeldByArchive DEF CalmInv
    <3>3. Filed' = Filed \ {n} /\ n \in Filed
      BY <1>1, <2>1, <2>2 DEF Filed, File
    <3>4. Archive!Reclaim(n)
      BY <1>1, <2>1, <3>2, <3>3 DEF Archive!Reclaim, Filed
    <3>. QED BY <3>3, <3>4 DEF Archive!Next, Filed
  <2>3. ASSUME \A n \in chain : f # File(n, FALSE) \/ f \notin oneBlocks
        PROVE  UNCHANGED Archive!vars
    <3>1. Filed' = Filed
      BY <1>1, <2>1, <2>3 DEF Filed
    <3>. QED BY <1>1, <2>1, <3>1 DEF Archive!vars, Filed
  <2>. QED BY <2>2, <2>3
<1>7. ASSUME NEW f \in AllFiles, Upload(f) PROVE [Archive!Next]_(Archive!vars)
  <2>1. /\ f \notin uploaded /\ uploaded' = uploaded \cup {f}
        /\ oneBlocks' = oneBlocks \cup {f} /\ UNCHANGED merged
    BY <1>7 DEF Upload
  <2>2. ASSUME NEW n \in chain, f = File(n, FALSE) PROVE Archive!Next
    <3>1. /\ Received' = Received \cup {n} /\ n \notin Received
          /\ Filed' = Filed \cup {n}
      BY <1>1, <2>1, <2>2 DEF Received, Filed, File
    <3>2. Archive!Receive(n)
      BY <1>1, <2>1, <3>1 DEF Archive!Receive, Received, Filed
    <3>. QED BY <3>2 DEF Archive!Next
  <2>3. ASSUME \A n \in chain : f # File(n, FALSE) PROVE UNCHANGED Archive!vars
    <3>1. Received' = Received /\ Filed' = Filed
      BY <1>1, <2>1, <2>3 DEF Received, Filed
    <3>. QED BY <1>1, <2>1, <3>1 DEF Archive!vars, Received, Filed
  <2>. QED BY <2>2, <2>3
<1>8. ASSUME NEW n \in chain, ExternalMerge(n) PROVE FALSE
  BY <1>1, <1>8 DEF ExternalMerge, SingleMerger, TypeOK
<1>10. ASSUME MergeCutShort PROVE FALSE
  BY <1>1, <1>10 DEF MergeCutShort, StoresAnswer, CalmInv
<1>9. ASSUME \/ MergeFails \/ MergeReports
             \/ \E copied \in SUBSET (job.forks \cap oneBlocks) : MoveForks(copied)
             \/ PruneOldFiles \/ PruneForkedBlocks
             \/ RequestShutdown \/ OnTerminating \/ Exit \/ Crash \/ Restart
             \/ UNCHANGED vars
      PROVE  UNCHANGED <<uploaded, oneBlocks, merged>>
  BY <1>9 DEF storeVars, MergeFails, MergeReports, MoveForks, PruneOldFiles,
     PruneForkedBlocks, RequestShutdown, OnTerminating, Exit, Crash, Restart, vars
<1>. QED BY <1>1, <1>2, <1>3, <1>4, <1>5, <1>6, <1>7, <1>8, <1>9, <1>10
         DEF Next, MergeStep

\* The merger implements the archive: as long as the stores answer and no other
\* merger writes, on chains without a block on a boundary after an empty range,
\* the merged store grows by the exact ranges, one after the other, and a file
\* is reclaimed when its block is in it, over all crashes, restarts and shutdowns.
THEOREM MergerRefinesArchive ==
  ASSUME StoresAnswer, SingleMerger, RegularChains PROVE Spec => ArchiveSpec
<1>1. Init => Archive!Init
  <2> SUFFICES ASSUME Init PROVE Archive!Init
    OBVIOUS
  <2>1. chain \subseteq Nat /\ \A n \in chain : FirstBase =< n
    BY ConstantTypes DEF Init
  <2>2. uploaded = {} /\ oneBlocks = {} /\ merged = [b \in {} |-> {}]
    BY DEF Init
  <2>. QED BY <2>1, <2>2 DEF Archive!Init
<1>2. ExactInv /\ [Next]_vars => [Archive!Next]_(Archive!vars)
  BY StepRefines
<1>. QED BY <1>1, <1>2, ExactStarts, ExactKept, PTL DEF Spec, ArchiveSpec,
   Archive!Spec

-----------------------------------------------------------------------------
(* What is proved of the archive, said of the merger's stores.             *)

\* The theorems of the archive, for the received blocks, the one-block files
\* and the merged files of the merger.
Proved ==
  INSTANCE MergedArchiveProofs WITH
    received <- {n \in chain : File(n, FALSE) \in uploaded},
    files    <- {n \in chain : File(n, FALSE) \in oneBlocks},
    archive  <- merged

\* They are about the behaviours that the merger implements.
LEMMA ProvedArchive ==
  ASSUME StoresAnswer, SingleMerger, RegularChains PROVE Spec => Proved!Spec
<1>1. Archive!Init => Proved!Init
  BY DEF Archive!Init, Proved!Init
<1>2. [Archive!Next]_(Archive!vars) => [Proved!Next]_(Proved!vars)
  BY DEF Archive!Next, Proved!Next, Archive!vars, Proved!vars,
         Archive!Receive, Proved!Receive, Archive!Append, Proved!Append,
         Archive!Reclaim, Proved!Reclaim, Archive!Range, Proved!Range,
         Archive!Held, Proved!Held, Archive!NextInLine, Proved!NextInLine
<1>. QED BY <1>1, <1>2, MergerRefinesArchive, PTL
         DEF ArchiveSpec, Archive!Spec, Proved!Spec

LEMMA ProvedAssumption == Proved!BundleAssumption
BY ConstantTypes, SizeAssumption DEF Proved!BundleAssumption

\* The merged files follow one another without a hole, over all crashes, restarts,
\* resets and skipped ranges: a reader that goes from file to file never waits for
\* one that will not come (bundler.go:131-196).
THEOREM MergerLeavesNoHole ==
  ASSUME StoresAnswer, SingleMerger, RegularChains PROVE Spec => []Archive!NoHole
<1>1. Proved!NoHole => Archive!NoHole
  BY DEF Proved!NoHole, Archive!NoHole
<1>2. Proved!BundleAssumption => (Proved!Spec => []Proved!NoHole)
  BY Proved!ArchiveHasNoHole
<1>. QED BY <1>1, <1>2, ProvedAssumption, ProvedArchive, PTL

\* No block is in two merged files, whatever was merged again after a crash.
THEOREM MergerDuplicatesNothing ==
  ASSUME StoresAnswer, SingleMerger, RegularChains PROVE Spec => []Archive!NoDuplicate
<1>1. Proved!NoDuplicate => Archive!NoDuplicate
  BY DEF Proved!NoDuplicate, Archive!NoDuplicate
<1>2. Proved!BundleAssumption => (Proved!Spec => []Proved!NoDuplicate)
  BY Proved!ArchiveHasNoDuplicate
<1>. QED BY <1>1, <1>2, ProvedAssumption, ProvedArchive, PTL

=============================================================================
