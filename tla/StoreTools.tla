------------------------------ MODULE StoreTools ------------------------------
(***************************************************************************)
(* The tools that work on stores of blocks: merge, unmerge, fix, legacy,   *)
(* upgrade, check (holes, batch, forks), compare and print.                *)
(*                                                                         *)
(* One command runs at a time.  A command lists the files of a store and   *)
(* calls a function on each; `Visit` is one such call.  Everything the     *)
(* call changes is in a frame                                              *)
(*                                                                         *)
(*   [writer, ones, marks, local, end, trouble]                            *)
(*                                                                         *)
(* whose `end` is "go", or what ended the walk.  `trouble` says that a     *)
(* store failed in the call.                                               *)
(*                                                                         *)
(* A block is [num, id, parent, body]; the id 0 stands for the empty one.  *)
(* A merged file is [blocks, broken, by]: reading a broken one ends with   *)
(* an error instead of EOF.                                                *)
(***************************************************************************)
EXTENDS MergedBlocksWriter, FiniteSets, SequencesExt, FiniteSetsExt

CONSTANT SegmentSize   \* blocks of a segment of compare-blocks (100000 in the code)

ASSUME SegmentAssumption == SegmentSize \in Nat \ {0}

VARIABLES
    source,   \* the store of merged files the tools read
    writer,   \* the shared writer; writer.files is the store the tools write
    ones,     \* the store of one-block files: [blk, suffix]
    marks,    \* what check merged-blocks-batch wrote: [base, kind]
    command,  \* the command that runs, Idle if none: [op, on, range]
    walk,     \* the files its walk still has to visit
    local     \* its local variables

storeVars == <<source, writer, ones, marks, command, walk, local>>

Idle == [op |-> "idle", on |-> "source", range |-> OpenRange(0)]
MaxUint == MaxBlockNum
NoId == 0

NoLocals == [expected |-> 0, lowest |-> MaxUint, highest |-> 0, hole |-> FALSE,
             added |-> {}, linked |-> 0, refHash |-> NoId, refNum |-> 0,
             seg |-> 1, total |-> 0, diff |-> 0, missing |-> 0, said |-> {},
             links |-> <<>>, prev |-> 0, shown |-> <<>>, lost |-> FALSE]

Frame == [writer |-> writer, ones |-> ones, marks |-> marks, local |-> local,
          end |-> "go", trouble |-> FALSE]

Wanted == command.range
Files(cmd) == IF cmd.on = "source" THEN source ELSE writer.files
File(base) == Files(command)[base]

Heights(blocks) == {blocks[i].num : i \in DOMAIN blocks}
EndOf(base) == base + BundleSize - 1

-----------------------------------------------------------------------------
(* The lists of files *)

\* The elements of S, each time the one that `low` takes of those left
Drawn(S, low) ==
    LET left[i \in 0..Cardinality(S)] == IF i = 0 THEN S ELSE left[i - 1] \ {low[left[i - 1]]}
    IN  [i \in 1..Cardinality(S) |-> low[left[i - 1]]]

\* In order: each time one that has none below it
Sorted(S, Lower(_, _)) == Drawn(S, [T \in SUBSET S |-> CHOOSE x \in T : \A y \in T : ~Lower(y, x)])

Ascending(bases) == Sorted({[base |-> b] : b \in bases}, LAMBDA f, g : f.base < g.base)

\* One-block files sort by height, then by id and suffix.
OneFileBefore(f, g) ==
    \/ f.blk.num < g.blk.num
    \/ f.blk.num = g.blk.num /\ f.blk.id < g.blk.id
    \/ f.blk = g.blk /\ f.suffix = "extracted" /\ g.suffix # "extracted"

WalkOf(cmd) ==
    LET bases == DOMAIN Files(cmd)
    IN  CASE cmd.op \in {"check", "stats", "unmerge", "fix", "legacy", "compare"} ->
                Ascending({b \in bases : HasPrefix(b, WalkBlockPrefix(cmd.range))})
          [] cmd.op = "batch" ->
                Ascending({b \in bases : b >= RoundToBundleStartBlock(cmd.range.start)})
          [] cmd.op = "merge" ->
                Sorted({f \in ones : f.blk.num >= cmd.range.start}, OneFileBefore)
          [] cmd.op = "one" ->
                Sorted({f \in ones : f.blk.num = cmd.range.start}, OneFileBefore)
          [] cmd.op \in {"show", "upgrade"} -> Ascending({RoundToBundleStartBlock(cmd.range.start)})
          [] OTHER -> <<>>

-----------------------------------------------------------------------------
(* merge-blocks *)

MergeFile(f, file) ==
    LET num == file.blk.num
    IN  IF num = f.local.prev THEN {f}
        ELSE IF num > Wanted.start + BundleSize THEN {[f EXCEPT !.end = "stop"]}
        ELSE {[f EXCEPT !.writer = w, !.local.prev = num,
                        !.end = IF w.err = "none" THEN "go" ELSE "error",
                        !.trouble = w.err = "store"]
              : w \in ProcessBlock(f.writer, file.blk)}

\* After the walk, what is left in the writer is written.
MergeEnd(f) ==
    {[f EXCEPT !.writer = w, !.end = IF w.err = "none" THEN "ok" ELSE "error",
               !.trouble = w.err = "store"] : w \in WriteBundle(f.writer)}

-----------------------------------------------------------------------------
(* unmerge-blocks, fix-bloated-merged-blocks, legacy_2_block_any *)

\* The test of the three on the name of a file
RangeTest(base) ==
    IF base > StopOr(Wanted, MaxUint) THEN "past" ELSE IF Before(base + BundleSize, Wanted) THEN "before" ELSE "in"

\* A read error leaves no block, and the next line looks at its number.
AfterRead(base) == IF File(base).broken THEN "panic" ELSE "go"

\* The loop of unmerge ends at the first block above the stop, that of the next file starts anew.
UnmergeFile(f, base) ==
    LET blocks == File(base).blocks
        past == {i \in DOMAIN blocks : ~Before(blocks[i].num, Wanted) /\ blocks[i].num > StopOr(Wanted, MaxUint)}
        upTo == IF past = {} THEN Len(blocks) ELSE Min(past) - 1
        Written(k) == {[blk |-> blocks[i], suffix |-> "extracted"]
                       : i \in {j \in 1..k : ~Before(blocks[j].num, Wanted)}}
    IN  {[f EXCEPT !.ones = @ \cup Written(upTo), !.end = IF past = {} THEN AfterRead(base) ELSE "go"]}
        \cup {[f EXCEPT !.ones = @ \cup Written(k), !.end = "error", !.trouble = TRUE] : k \in 0..upTo - 1}

\* One block of the rewriting loop; st is [writer, seen, last, end].
RewriteBlock(st, base, blk) ==
    IF st.end # "go" \/ blk.num < base THEN {st}
    ELSE IF blk.num > StopOr(Wanted, MaxUint) THEN {[st EXCEPT !.end = "break"]}
    ELSE IF blk.id \in st.seen THEN {st}
    ELSE IF st.last # NoId /\ blk.parent # st.last THEN {[st EXCEPT !.end = "error"]}
    ELSE {[writer |-> w, seen |-> st.seen \cup {blk.id}, last |-> blk.id,
           end |-> IF w.err = "none" THEN "go" ELSE "error"] : w \in ProcessBlock(st.writer, blk)}

\* Each file has a writer of its own, which nothing flushes.
RewriteFile(f, base) ==
    LET start == [writer |-> NewWriter(f.writer.files, 0, 0, FALSE, command),
                  seen |-> {}, last |-> NoId, end |-> "go"]
        blocks == File(base).blocks
        upTo[i \in 0..Len(blocks)] ==
            IF i = 0 THEN {start} ELSE UNION {RewriteBlock(st, base, blocks[i]) : st \in upTo[i - 1]}
    IN  {[f EXCEPT !.writer = st.writer, !.trouble = st.writer.err = "store",
                   !.end = CASE st.end = "error" -> "error"
                             [] st.end = "break" -> "go"
                             [] OTHER -> AfterRead(base)] : st \in upTo[Len(blocks)]}

LegacyFile(f, base) == RewriteFile(f, base)

RangedFile(f, base) ==
    CASE RangeTest(base) = "past" -> {[f EXCEPT !.end = "stop"]}
      [] RangeTest(base) = "before" -> {f}
      [] command.op = "unmerge" -> UnmergeFile(f, base)
      [] command.op = "legacy" -> LegacyFile(f, base)
      [] OTHER -> RewriteFile(f, base)

-----------------------------------------------------------------------------
(* upgrade-merged-blocks: a stream of the files, which waits for one that is not there *)

UpgradeFile(f, base) ==
    LET blocks == File(base).blocks
        Processed(w, blk) == IF w.err = "none" /\ blk.num >= Wanted.start THEN ProcessBlock(w, blk) ELSE {w}
        upTo[i \in 0..Len(blocks)] ==
            IF i = 0 THEN {f.writer} ELSE UNION {Processed(w, blocks[i]) : w \in upTo[i - 1]}
    IN  {[f EXCEPT !.writer = w, !.trouble = w.err = "store",
                   !.end = CASE w.err = "EOF" -> "ok"
                             [] w.err # "none" \/ File(base).broken -> "error"
                             [] OTHER -> "go"] : w \in upTo[Len(blocks)]}

-----------------------------------------------------------------------------
(* check merged-blocks, with details ("stats") or without *)

\* validateBlockSegment: a block links when its parent did, the first by itself.
SegmentBlock(l, blk) ==
    LET links == l.added = {} \/ blk.parent \in l.added
    IN  [l EXCEPT !.lowest = IF blk.num < @ THEN blk.num ELSE @,
                  !.highest = IF blk.num > @ THEN blk.num ELSE @,
                  !.added = IF links THEN @ \cup {blk.id} ELSE @,
                  !.linked = IF links THEN blk.num ELSE @]

ValidateSegment(l, base) ==
    LET blocks == SelectSeq(File(base).blocks, LAMBDA b : ~Before(b.num, Wanted))
        past == {i \in DOMAIN blocks : blocks[i].num > StopOr(Wanted, MaxUint)}
        read == IF past = {} THEN blocks ELSE SubSeq(blocks, 1, Min(past) - 1)
    IN  FoldLeft(SegmentBlock, l, read)

\* The end of a range that stops at 0 is never reached: Stop - 1 wraps around.
CheckFile(f, base) ==
    LET l == [f.local EXCEPT !.hole = @ \/ base # f.local.expected,
                             !.expected = base + BundleSize]
        seen == IF command.op = "stats" THEN ValidateSegment(l, base)
                ELSE [l EXCEPT !.lowest = IF base < @ THEN base ELSE @,
                               !.highest = IF base + BundleSize > @ THEN base + BundleSize ELSE @]
        last == Wanted.stop # 0 /\ ~IsOpen(Wanted) /\ RoundToBundleEndBlock(base) >= Wanted.stop - 1
    IN  IF Before(EndOf(base), Wanted) THEN {f}
        ELSE {[f EXCEPT !.local = seen, !.end = IF last THEN "stop" ELSE "go"]}

\* The summary of the command
Incomplete(rng, l) ==
    /\ ~IsOpen(rng)
    /\ rng.stop = 0 \/ l.highest < rng.stop - 1 \/ (l.lowest > rng.start /\ l.lowest > FirstStreamable)

-----------------------------------------------------------------------------
(* check merged-blocks-batch *)

Unset(ref) == ref.hash = NoId /\ ref.num = 0

\* checkMergedBlockFileBroken on one block; the reference is [hash, num, broken].
BrokenBlock(ref, blk) ==
    LET last == IF Unset(ref) THEN [ref EXCEPT !.hash = blk.parent, !.num = IF blk.num # 0 THEN blk.num - 1 ELSE 0]
                ELSE ref
        again == blk.id = last.hash /\ blk.num = last.num
    IN  IF ref.broken THEN ref
        ELSE IF blk.id = NoId THEN [ref EXCEPT !.broken = TRUE]
        ELSE IF blk.parent # last.hash THEN [last EXCEPT !.broken = ~again]
        ELSE [last EXCEPT !.hash = blk.id, !.num = blk.num]

\* What the check of a file leaves, from the reference after its last block
BatchFrames(f, base, ref) ==
    LET missing == {b \in f.local.expected .. base - 1 : (b - f.local.expected) % BundleSize = 0}
        since == IF Unset(ref) THEN base ELSE RoundToBundleStartBlock(ref.num + 1)
        broken == IF ~ref.broken THEN {}
                  ELSE {b \in since .. base : (b - since) % BundleSize = 0}
        last == RoundToBundleEndBlock(base) >= Wanted.stop - 1
        read == ~File(base).broken \/ ref.broken
        new == {[base |-> b, kind |-> "missing"] : b \in missing}
               \cup {[base |-> b, kind |-> "broken"] : b \in broken}
        seen == [f EXCEPT !.marks = @ \cup new,
                          !.local.refHash = IF ref.broken THEN NoId ELSE ref.hash,
                          !.local.refNum = IF ref.broken THEN 0 ELSE ref.num,
                          !.local.expected = IF last THEN @ ELSE base + BundleSize,
                          !.end = IF ~read THEN "error" ELSE IF last THEN "stop" ELSE "go"]
        \* Only the loop over a range of broken files looks at the result of a write.
        Looked(m) == m.kind = "broken" /\ ~Unset(ref)
        Unwritten(m) == {m} \cup {n \in new : Looked(m) /\ n.kind = "broken" /\ n.base > m.base}
    IN  {seen}
        \cup {[seen EXCEPT !.marks = f.marks \cup (new \ Unwritten(m)), !.trouble = TRUE, !.local.lost = TRUE,
                           !.end = IF Looked(m) THEN "error" ELSE @] : m \in new}

BatchFile(f, base) ==
    LET blocks == File(base).blocks
        upTo[i \in 0..Len(blocks)] ==
            IF i = 0 THEN [hash |-> f.local.refHash, num |-> f.local.refNum, broken |-> FALSE]
            ELSE BrokenBlock(upTo[i - 1], blocks[i])
    IN  BatchFrames(f, base, upTo[Len(blocks)])

-----------------------------------------------------------------------------
(* compare-blocks *)

Segments == Sorted(Split(Wanted, SegmentSize), LAMBDA a, b : a.start < b.start)

Verdict(l) == IF l.total = 0 THEN "none"
              ELSE IF l.diff = 0 /\ l.missing = 0 THEN "same" ELSE "different"

Said(l) == [l EXCEPT !.said = @ \cup {[seg |-> Segments[l.seg], verdict |-> Verdict(l)]}]

\* Mutant: a new segment goes on with the differences of the one before it.
ProcessNoReset(l, num, isDifferent, isMissing) ==
    LET next == {i \in l.seg .. Len(Segments) : Holds(Segments[i], num)}
        at == IF Holds(Segments[l.seg], num) THEN l
              ELSE [Said(l) EXCEPT !.seg = IF next = {} THEN @ ELSE Max(next)]
    IN  [at EXCEPT !.total = @ + 1,
                   !.missing = IF isMissing THEN @ + 1 ELSE @,
                   !.diff = IF ~isMissing /\ isDifferent THEN @ + 1 ELSE @]

\* process: the total of blocks runs through all segments.
Process(l, num, isDifferent, isMissing) ==
    LET next == {i \in l.seg .. Len(Segments) : Holds(Segments[i], num)}
        at == IF Holds(Segments[l.seg], num) THEN l
              ELSE [Said(l) EXCEPT !.seg = IF next = {} THEN @ ELSE Max(next), !.diff = 0, !.missing = 0]
    IN  [at EXCEPT !.total = @ + 1,
                   !.missing = IF isMissing THEN @ + 1 ELSE @,
                   !.diff = IF ~isMissing /\ isDifferent THEN @ + 1 ELSE @]

\* readBundle, when it can read
ReadBundle(file, base) ==
    LET blocks == SelectSeq(file.blocks, LAMBDA b : b.num >= base)
        past == {i \in DOMAIN blocks : blocks[i].num >= Wanted.stop}
    IN  IF past = {} THEN blocks ELSE SubSeq(blocks, 1, Min(past) - 1)

\* The blocks of the reference against those of the other store
CompareBlocks(l, reference, current) ==
    LET Twin(b) == {c \in Range(current) : c.id = b.id}
    IN  FoldLeft(LAMBDA k, b : Process(k, b.num, \E c \in Twin(b) : c.body # b.body, Twin(b) = {}),
                 l, reference)

\* Two goroutines read the two files and share one error: that of the first to fail can be
\* overwritten by the success of the other before it is looked at.
CompareFile(f, base) ==
    LET Read(files) == IF base \in DOMAIN files /\ ~files[base].broken THEN {ReadBundle(files[base], base)} ELSE {}
        reference == Read(source)
        current == Read(writer.files)
        Blocks(bundle) == IF bundle = {} THEN <<>> ELSE CHOOSE b \in bundle : TRUE
        compared == [f EXCEPT !.local = CompareBlocks(@, Blocks(reference), Blocks(current))]
    IN  IF Wanted.stop <= base THEN {[f EXCEPT !.end = "stop"]}
        ELSE IF ~Holds(Wanted, base) THEN {f}
        ELSE IF reference # {} /\ current # {} THEN {compared}
        ELSE {[f EXCEPT !.end = "error"]}
             \cup (IF reference = {} /\ current = {} THEN {} ELSE {[compared EXCEPT !.local.lost = TRUE]})

-----------------------------------------------------------------------------
(* print merged-blocks and print one-block *)

ShowFile(f, base) ==
    IF base \notin DOMAIN Files(command) THEN {[f EXCEPT !.end = "error"]}
    ELSE {[f EXCEPT !.local.shown = File(base).blocks,
                    !.end = IF File(base).broken THEN "error" ELSE "ok"]}

ShowOne(f, file) == {[f EXCEPT !.local.shown = Append(@, file.blk)]}

-----------------------------------------------------------------------------
(* check forks: one link of the map moves to its parent; the order of a map is any. *)

Parents(id) == {f.blk.id : f \in {g \in ones : \E h \in ones : h.blk.id = id /\ h.blk.parent = g.blk.id}}

NewLinks == [id \in {f.blk.id : f \in ones} |-> <<id>>]

Movable(links) == {id \in DOMAIN links : Parents(id) # {}}

MoveLink(links, id) ==
    LET parent == CHOOSE p \in Parents(id) : TRUE
    IN  [k \in (DOMAIN links \ {id}) \cup {parent} |->
            IF k = parent THEN <<parent>> \o links[id] ELSE links[k]]

ForksSteps(f) == {[f EXCEPT !.local.links = MoveLink(@, id)] : id \in Movable(f.local.links)}
=============================================================================
