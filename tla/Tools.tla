-------------------------------- MODULE Tools --------------------------------
(***************************************************************************)
(* The tools of an operator on one machine: a series of commands on stores *)
(* of blocks and on a Firehose endpoint, each run to its end or killed,    *)
(* over what the ones before it left.                                      *)
(***************************************************************************)
EXTENDS StoreTools, FirehoseClient

CONSTANTS
    Scenarios,    \* stores at the start and a plan: [source, dest, ones, plan]; the n-th
                  \* command is one of plan[n], each [op, on, arg]
    MaxTroubles,  \* bound: failures of stores and streams, kills, other clients
    Chain         \* the blocks of the chain, in order

\* What the stores hold at the start: heights that the names have room for, files of whole bundles
HeldBlocks == [num : 0..MaxBlockNum - 1, id : Nat, parent : Nat, body : Nat]
HeldFiles == [blocks : Seq(HeldBlocks), broken : BOOLEAN, by : {Idle}]
IsStore(files) == /\ files \in [DOMAIN files -> HeldFiles]
                  /\ \A b \in DOMAIN files : b \in 0..MaxBlockNum /\ b % BundleSize = 0

\* What an operator types
Sides == [kind : {"blank", "junk", "number"}, plus : BOOLEAN, value : Int]
Operations == {"merge", "unmerge", "fix", "legacy", "upgrade", "check", "stats", "batch", "forks", "compare",
               "show", "one", "download", "print", "cursors"}
Commands == [op : Operations, on : {"source", "dest"}, arg : [before : Sides, colon : BOOLEAN, after : Sides]]

\* The batch check's error for a file of another base than its bundle's is not modelled: a merge
\* names the base of a bundle.
ASSUME ScenariosAssumption ==
    /\ MaxTroubles \in Nat /\ MaxBlockNum \in Nat
    /\ Feed \in Seq([num : 0..MaxBlockNum - 1, id : Nat, parent : Nat, steps : SUBSET {"new", "undo", "irreversible"}])
    /\ \A n \in DOMAIN Scenarios :
          LET s == Scenarios[n]
          IN  /\ IsStore(s.source) /\ IsStore(s.dest)
              /\ IsFiniteSet(s.ones) /\ s.ones \subseteq [blk : HeldBlocks, suffix : {"mind", "extracted"}]
              /\ s.plan \in Seq(SUBSET Commands)
              /\ \A i \in DOMAIN s.plan : \A c \in s.plan[i] :
                    c.op = "merge" => \A g \in ParseBlockRange(c.arg, OpenRange(-1)) : g.start % BundleSize = 0

VARIABLES
    scenario,  \* the one that is run
    report,    \* how the last command ended: [command, result, local]
    started,   \* commands run so far
    troubles

vars == <<storeVars, endpointVars, printer, scenario, report, started, troubles>>

NoReport == [command |-> Idle, result |-> "none", local |-> NoLocals]

Init ==
    /\ scenario \in DOMAIN Scenarios
    /\ LET s == Scenarios[scenario]
       IN  /\ source = s.source /\ ones = s.ones
           /\ writer = NewWriter(s.dest, 0, 0, FALSE, Idle)
    /\ marks = {} /\ command = Idle /\ walk = <<>> /\ local = NoLocals
    /\ EndpointInit /\ printer = NewPrinter(FALSE)
    /\ report = NoReport /\ started = 0 /\ troubles = 0

storesKept == <<source, ones, marks>>
Trouble == troubles < MaxTroubles /\ troubles' = troubles + 1

\* The command is over: its connection is closed.
Ends(result, loc) ==
    /\ report' = [command |-> command, result |-> result, local |-> loc]
    /\ command' = Idle /\ walk' = <<>> /\ local' = NoLocals
    /\ printer' = NewPrinter(FALSE)

-----------------------------------------------------------------------------
(* Start of a command *)

DefaultRange(op) == IF op \in {"check", "stats"} THEN OpenRange(0) ELSE OpenRange(-1)
NeedsResolved == {"batch", "compare", "merge", "upgrade", "show", "one"}
Streaming == {"download", "print", "cursors"}

\* The request of both clients
RequestOf(range, final) == [start |-> range.start, stop |-> StopOr(range, 0), final |-> final]

FirstWriter(cmd) ==
    CASE cmd.op = "merge" -> NewWriter(writer.files, cmd.range.start, 0, FALSE, cmd)
      [] cmd.op = "upgrade" ->
            NewWriter(writer.files, RoundToBundleStartBlock(cmd.range.start), cmd.range.stop, TRUE, cmd)
      [] OTHER -> NewWriter(writer.files, 0, 0, FALSE, cmd)

FirstLocals(cmd) ==
    CASE cmd.op \in {"check", "stats", "batch"} ->
            [NoLocals EXCEPT !.expected = RoundToBundleStartBlock(cmd.range.start)]
      [] cmd.op = "forks" -> [NoLocals EXCEPT !.links = NewLinks]
      [] OTHER -> NoLocals

Start ==
    /\ command = Idle /\ started < Len(Scenarios[scenario].plan)
    /\ started' = started + 1
    /\ \E c \in Scenarios[scenario].plan[started + 1] :
          LET range == ParseBlockRange(c.arg, DefaultRange(c.op))
              cmd == [op |-> c.op, on |-> c.on, range |-> CHOOSE g \in range : TRUE]
          IN  IF range = {} \/ (c.op \in NeedsResolved /\ \E g \in range : ~IsResolved(g))
              THEN /\ report' = [NoReport EXCEPT !.result = "refused"]
                   /\ UNCHANGED <<writer, command, walk, local, conn, printer>>
              ELSE /\ command' = cmd
                   /\ writer' = FirstWriter(cmd) /\ local' = FirstLocals(cmd) /\ walk' = WalkOf(cmd)
                   /\ conn' = IF cmd.op \in Streaming
                              THEN [NoConn EXCEPT !.phase = "asked", !.req = RequestOf(cmd.range, cmd.op = "download")]
                              ELSE conn
                   /\ printer' = NewPrinter(cmd.op = "cursors")
                   /\ report' = NoReport
    /\ UNCHANGED <<storesKept, tokens, others, scenario, troubles>>

-----------------------------------------------------------------------------
(* Tools on stores *)

VisitFile(f, file) ==
    CASE command.op = "merge" -> MergeFile(f, file)
      [] command.op = "one" -> ShowOne(f, file)
      [] command.op = "show" -> ShowFile(f, file.base)
      [] command.op = "upgrade" -> UpgradeFile(f, file.base)
      [] command.op \in {"check", "stats"} -> CheckFile(f, file.base)
      [] command.op = "batch" -> BatchFile(f, file.base)
      [] command.op = "compare" -> CompareFile(f, file.base)
      [] OTHER -> RangedFile(f, file.base)

\* The end of a walk that was not an error
Closing(f) ==
    CASE command.op = "merge" -> MergeEnd(f)
      [] command.op = "compare" -> {[f EXCEPT !.local = Said(@), !.end = "ok"]}
      [] OTHER -> {[f EXCEPT !.end = "ok"]}

Becomes(f) ==
    /\ f.trouble => troubles < MaxTroubles
    /\ troubles' = IF f.trouble THEN troubles + 1 ELSE troubles
    /\ writer' = f.writer /\ ones' = f.ones /\ marks' = f.marks
    /\ UNCHANGED <<source, scenario, started, endpointVars>>

Over(f) == Becomes(f) /\ Ends(f.end, f.local)

\* One call of the function of a walk.  A stream of files goes on to the next one.
Visit ==
    /\ command.op \notin Streaming \cup {"idle", "forks"} /\ walk # <<>>
    /\ command.op = "upgrade" => Head(walk).base \in DOMAIN Files(command)
    /\ \E f \in VisitFile(Frame, Head(walk)) :
          \/ /\ f.end = "go"
             /\ Becomes(f)
             /\ local' = f.local
             /\ walk' = IF command.op = "upgrade" THEN Ascending({Head(walk).base + BundleSize}) ELSE Tail(walk)
             /\ UNCHANGED <<command, printer, report>>
          \/ f.end = "stop" /\ \E g \in Closing(f) : Over(g)
          \/ f.end \notin {"go", "stop"} /\ Over(f)

WalkEnds ==
    /\ command.op \notin Streaming \cup {"idle", "forks"} /\ walk = <<>>
    /\ \E f \in Closing(Frame) : Over(f)

MoveFork ==
    /\ command.op = "forks"
    /\ \E f \in ForksSteps(Frame) : Becomes(f) /\ local' = f.local
    /\ UNCHANGED <<command, walk, printer, report>>

ForksEnd ==
    /\ command.op = "forks" /\ Movable(local.links) = {}
    /\ Over([Frame EXCEPT !.end = "ok"])

-----------------------------------------------------------------------------
(* download-from-firehose *)

\* Mutant: the order of the blocks of a new stream is not looked at.
FollowsAny(blk) == TRUE

\* A block must be the child of the last one, whichever stream that came by.
Follows(blk) == local.prev = NoId \/ blk.parent = local.prev

\* A response
DownloadBlock ==
    /\ command.op = "download" /\ conn.wire # <<>>
    /\ LET resp == Head(conn.wire)
           blk == [num |-> resp.num, id |-> resp.id, parent |-> resp.parent, body |-> 0]
           next == [Frame EXCEPT !.local.prev = blk.id]
           Written(w) == [next EXCEPT !.writer = w, !.trouble = w.err = "store",
                                      !.end = IF w.err = "none" THEN "go" ELSE "error"]
       IN  \E f \in IF Follows(blk) THEN {Written(w) : w \in ProcessBlock(writer, blk)}
                    ELSE {[Frame EXCEPT !.end = "error"]} :
              /\ f.trouble => troubles < MaxTroubles
              /\ troubles' = IF f.trouble THEN troubles + 1 ELSE troubles
              /\ writer' = f.writer
              /\ IF f.end = "go"
                 THEN /\ local' = f.local /\ conn' = [conn EXCEPT !.wire = Tail(@)]
                      /\ UNCHANGED <<tokens, others, command, walk, printer, report>>
                 ELSE Ends(f.end, f.local) /\ Disconnect
    /\ UNCHANGED <<storesKept, scenario, started>>

\* The end of a stream: EOF ends the command, and the blocks of an unfinished bundle are not
\* written; after an error the same request is sent again.
DownloadStatus ==
    /\ command.op = "download" /\ conn.wire = <<>> /\ conn.phase = "closed"
    /\ \/ conn.status = "EOF" /\ Ends("ok", local) /\ Disconnect
       \/ /\ conn.status = "error" /\ Ask(conn.req)
          /\ UNCHANGED <<command, walk, local, printer, report>>
    /\ UNCHANGED <<storesKept, writer, scenario, started, troubles>>

-----------------------------------------------------------------------------
(* firehose-client *)

PrintStep ==
    /\ command.op \in {"print", "cursors"}
    /\ ClientStep
    /\ UNCHANGED <<storeVars, scenario, report, started, troubles>>

PrintEnds ==
    /\ command.op \in {"print", "cursors"} /\ ~Working
    /\ Ends(IF printer.phase = "done" THEN "ok" ELSE "error", local)
    /\ Disconnect
    /\ UNCHANGED <<storesKept, writer, scenario, started, troubles>>

-----------------------------------------------------------------------------
(* The endpoint, and what can go wrong *)

Serve ==
    /\ EndpointStep \/ OtherEnds
    /\ UNCHANGED <<storeVars, printer, scenario, report, started, troubles>>

StreamTrouble ==
    /\ StreamFails \/ OtherTakes
    /\ Trouble
    /\ UNCHANGED <<storeVars, printer, scenario, report, started>>

Kill ==
    /\ command # Idle /\ Trouble
    /\ Ends("killed", local)
    /\ Disconnect
    /\ UNCHANGED <<storesKept, writer, scenario, started>>

ToolStep == Visit \/ WalkEnds \/ MoveFork \/ ForksEnd
            \/ DownloadBlock \/ DownloadStatus \/ PrintStep \/ PrintEnds

Next == Start \/ ToolStep \/ Serve \/ StreamTrouble \/ Kill

Fairness ==
    /\ WF_vars(ToolStep)
    /\ WF_vars(Drip /\ UNCHANGED <<storeVars, printer, scenario, report, started, troubles>>)
    /\ WF_vars((EndpointStep /\ ~Drip) /\ UNCHANGED <<storeVars, printer, scenario, report, started, troubles>>)

Spec == Init /\ [][Next]_vars /\ Fairness

-----------------------------------------------------------------------------
(* Properties *)

Blocks == Range(Chain)
ChainIn(lo, hi) == SelectSeq(Chain, LAMBDA b : b.num \in lo..hi)
Bases(lo, hi) == {b \in lo..hi : b % BundleSize = 0}
Exact(files, b) == ~files[b].broken /\ files[b].blocks = ChainIn(b, EndOf(b))

(* The variables keep their types. *)
TypeOK ==
    /\ tokens \in 0..BucketSize /\ others \in Nat
    /\ conn.phase \in {"none", "asked", "open", "closed"} /\ Len(conn.wire) <= WireSize
    /\ Len(printer.queue) <= QueueSize
    /\ printer.phase \in {"receiving", "closing", "done", "failed"}
    /\ DOMAIN writer.files \subseteq 0..MaxBlockNum /\ \A f \in ones : f.suffix \in {"mind", "extracted"}
    /\ \A m \in marks : m.base \in Bases(0, MaxBlockNum) /\ m.kind \in {"missing", "broken"}
    /\ started \in 0..Len(Scenarios[scenario].plan) /\ troubles \in 0..MaxTroubles
    /\ report.result \in {"none", "refused", "ok", "error", "panic", "killed"}

\* What a command promises of a file it writes: all of a bundle that starts at its beginning.
PromisesWhole(b, by) ==
    CASE by.op \in {"fix", "legacy"} -> Range(ChainIn(b, EndOf(b))) \subseteq Range(source[b].blocks)
      [] by.op = "download" -> by.range.start % BundleSize = 0
      [] by.op = "upgrade" -> by.range.start % BundleSize = 0 /\ \A c \in DOMAIN source : Exact(source, c)
      [] OTHER -> FALSE

\* The commands that write blocks as they link, or by height.  An upgrade takes what is in the file;
\* the writer of a merge from block 0 does not know that bundle 0 has begun, and puts its blocks in
\* the next file when no block ends it.
Orders(by) == by.op \in {"fix", "legacy", "download"} \/ (by.op = "merge" /\ by.range.start > 0)

(* A merged file that such a command wrote holds blocks of its own bundle only, one for each      *)
(* height and in order: no retry of a stream, failure of a store, killed command or command run    *)
(* again puts a block into the file of another bundle, twice, or after a later one.                *)
FilesInOrder ==
    \A b \in DOMAIN writer.files :
        LET blocks == writer.files[b].blocks
        IN  Orders(writer.files[b].by) =>
                  /\ Heights(blocks) \subseteq b..EndOf(b)
                  /\ \A i, j \in DOMAIN blocks : i < j => blocks[i].num < blocks[j].num

FilesWhole ==
    \A b \in DOMAIN writer.files :
        PromisesWhole(b, writer.files[b].by) => writer.files[b].blocks = ChainIn(b, EndOf(b))

\* The bases that a check of a range visits
Visited(range, files) ==
    {b \in DOMAIN files : ~Before(EndOf(b), range)
                          /\ (IsOpen(range) \/ b <= RoundToBundleStartBlock(range.stop - 1))}

\* A hole is said when a file is missing before the last one of the range, and only then; a
\* complete range without hole has the files of all its blocks, the last one excepted.
HolesSaid(range, files, loc) ==
    LET bases == Visited(range, files)
        first == RoundToBundleStartBlock(range.start)
    IN  /\ loc.hole <=> bases # {} /\ Bases(first, Max(bases)) \ bases # {}
        /\ ~loc.hole /\ ~IsOpen(range) /\ ~Incomplete(range, loc) /\ report.command.op = "check" =>
              Bases(first, range.stop - 2) \subseteq bases

\* With details, blocks that do not link to the first one are noticed.
ForksSaid(range, files, loc) ==
    LET bases == Visited(range, files)
    IN  (\A b \in bases : Exact(files, b)) /\ bases # {} =>
            (loc.linked < loc.highest <=> Bases(Min(bases), Max(bases)) \ bases # {})

\* The first block of a file that is not the child of the one before it
FirstUnlinked(blocks) ==
    {i \in 2..Len(blocks) :
        /\ blocks[i] # blocks[i - 1] /\ blocks[i].parent # blocks[i - 1].id
        /\ \A j \in 2..i - 1 : blocks[j] = blocks[j - 1] \/ blocks[j].parent = blocks[j - 1].id}

\* The batch marks every missing file, and every file with a block that does not follow the one
\* before it, unless that one ends the bundle.
BatchMarks(range, files) ==
    LET bases == Visited(range, files)
        Marked(b, kind) == [base |-> b, kind |-> kind] \in marks
    IN  bases # {} =>
            /\ \A b \in Bases(RoundToBundleStartBlock(range.start), Max(bases)) \ bases : Marked(b, "missing")
            /\ \A b \in bases :
                  (\E i \in FirstUnlinked(files[b].blocks) : files[b].blocks[i - 1].num < EndOf(b))
                  => Marked(b, "broken")

\* A segment has no differences when all blocks of the reference in it are in the other store, in
\* the file of the same name and with the same content.
CompareSays(range, loc) ==
    LET compared == {b \in DOMAIN source : Holds(range, b)}
        Read(b) == LET blocks == source[b].blocks
                   IN  {blocks[i] : i \in {k \in DOMAIN blocks : \A j \in 1..k : blocks[j].num < range.stop}}
        Reference(seg) == UNION {{<<b, x>> : x \in {y \in Read(b) : y.num >= b /\ Holds(seg, y.num)}} : b \in compared}
    IN  \A s \in loc.said :
            IF s.verdict = "none" THEN Reference(s.seg) = {}
            ELSE s.verdict = "same" <=>
                    \A w \in Reference(s.seg) : w[1] \in DOMAIN writer.files
                                              /\ w[2] \in Range(writer.files[w[1]].blocks)

\* A fork is a path of parents from a block without one in the store to a block without child.
ForksArePaths(links) ==
    \A id \in DOMAIN links :
        LET link == links[id]
        IN  /\ link[1] = id /\ Parents(id) = {}
            /\ \A i \in 1..Len(link) - 1 : link[i] \in Parents(link[i + 1])
            /\ \A f \in ones : link[Len(link)] \notin Parents(f.blk.id)

(* What a checking tool says of the stores is true of them, whatever the commands before it did. *)
ChecksAreRight ==
    report.result = "ok" /\ ~report.local.lost =>
        LET cmd == report.command
            range == cmd.range
        IN  /\ cmd.op \in {"check", "stats"} /\ range.start >= 0 => HolesSaid(range, Files(cmd), report.local)
            /\ cmd.op = "stats" /\ range.start >= 0 => ForksSaid(range, Files(cmd), report.local)
            /\ cmd.op = "batch" => BatchMarks(range, Files(cmd))
            /\ cmd.op = "compare" => CompareSays(range, report.local)
            /\ cmd.op = "forks" => ForksArePaths(report.local.links)

\* What a command has written when it ends without error
WroteAll ==
    report.result = "ok" =>
        LET cmd == report.command
            range == cmd.range
            first == RoundToBundleStartBlock(range.start)
            EndSeen(b, stop) == \E x \in Blocks : x.num \in EndOf(b)..stop
            present == DOMAIN writer.files
        IN  /\ cmd.op = "download" => \A b \in Bases(first, range.stop) : EndSeen(b, range.stop) => b \in present
            /\ cmd.op = "upgrade" => \A b \in Bases(first, range.stop) : EndOf(b) < range.stop => b \in present
            /\ cmd.op \in {"fix", "legacy"} /\ range.start >= 0 =>
                  \A b \in DOMAIN Files(cmd) :
                      Exact(Files(cmd), b) /\ b \in first..StopOr(range, MaxUint) /\ EndSeen(b, EndOf(b))
                      /\ EndOf(b) <= StopOr(range, MaxUint) => b \in present
            /\ cmd.op = "unmerge" /\ range.start >= 0 =>
                  \A b \in Visited(range, Files(cmd)) : Exact(Files(cmd), b) =>
                      \A x \in Range(Files(cmd)[b].blocks) :
                          x.num \in range.start..StopOr(range, MaxUint) => \E f \in ones : f.blk = x
            /\ cmd.op = "merge" /\ range.start > 0 /\ range.start \in present
               /\ writer.files[range.start].by = cmd =>
                  Heights(writer.files[range.start].blocks)
                      = {f.blk.num : f \in ones} \cap (range.start .. EndOf(range.start))

(* A file that is downloaded, upgraded or rewritten from one that has all of its blocks holds      *)
(* exactly the chain's: nothing leaves half a bundle under a final name.  And a writing tool that  *)
(* ends without error has written all that it should have: every bundle of the range of which it   *)
(* saw the end, every block of the range.                                                          *)
WritesAreComplete == FilesWhole /\ WroteAll

(* firehose-client prints the responses in the order it received them, whatever the order the     *)
(* goroutines encode them in, and all of them when the stream ends without error.                  *)
PrintedInOrder ==
    /\ IsPrefix(printer.printed, printer.got)
    /\ printer.phase = "done" => printer.printed = printer.got

\* A stream of a range without end, or with one that the chain has not reached, goes on; an upgrade
\* waits for a file that does not exist.
HasEnd(cmd) ==
    CASE cmd.op \in Streaming -> StopReached(RequestOf(cmd.range, FALSE))
      [] cmd.op = "upgrade" -> /\ \A b \in DOMAIN source : Exact(source, b)
                               /\ \E x \in Blocks : x.num >= cmd.range.stop
                               /\ \A x \in Blocks : RoundToBundleStartBlock(x.num) \in DOMAIN source
      [] OTHER -> TRUE

(* Every command comes to an end: no walk, retry or goroutine of it goes on for ever or waits for *)
(* another that has gone, unless it was asked to follow the chain.                                 *)
CommandEnds == (command # Idle /\ HasEnd(command)) ~> (command = Idle)
=============================================================================
