------------------------------- MODULE MCTools -------------------------------
(***************************************************************************)
(* A chain without block 3 in bundles of two, the stores that a tool may   *)
(* find, and the commands with the ranges that matter.                     *)
(***************************************************************************)
EXTENDS Tools

Blk(num, id, parent) == [num |-> num, id |-> id, parent |-> parent, body |-> 0]

MCChain == <<Blk(0, 1, 0), Blk(1, 2, 1), Blk(2, 3, 2), Blk(4, 5, 3), Blk(5, 6, 5), Blk(6, 7, 6), Blk(7, 8, 7)>>
Fork4 == Blk(4, 14, 3)
Fork6 == Blk(6, 16, 6)
Fork7 == Blk(7, 17, 16)

Step(b, steps) == [num |-> b.num, id |-> b.id, parent |-> b.parent, steps |-> steps]
Both == {"new", "irreversible"}
MCFeed == [i \in 1..5 |-> Step(MCChain[i], Both)]
          \o <<Step(Fork6, {"new"}), Step(Fork6, {"undo"}), Step(MCChain[6], Both), Step(MCChain[7], Both)>>

MergedFile(blocks) == [blocks |-> blocks, broken |-> FALSE, by |-> Idle]
Store(bases) == [b \in bases |-> MergedFile(ChainIn(b, EndOf(b)))]
Whole == Store({0, 2, 4, 6})
NoFiles == Store({})

\* Extra blocks, doubled blocks, and a fork after the last block of a bundle
Bloated == [Whole EXCEPT ![4].blocks = <<MCChain[3], MCChain[4], MCChain[4], MCChain[5]>>,
                         ![6].blocks = <<MCChain[6], MCChain[7], Fork6>>]
\* A file is missing, another cannot be read to its end.
Damaged == [Store({0, 4, 6}) EXCEPT ![6].broken = TRUE]
\* A block without id, a block out of place, and a store that begins late
Disordered == [Store({2, 4, 6}) EXCEPT ![4].blocks = <<Blk(4, 0, 3), MCChain[5]>>,
                                       ![6].blocks = <<Fork6, MCChain[7]>>]
\* Another content of block 1
Other == [Store({0, 2}) EXCEPT ![0].blocks[2].body = 1]

OneBlock(b) == [blk |-> b, suffix |-> "mind"]
Ones == {OneBlock(b) : b \in {MCChain[3], MCChain[4], MCChain[5], Fork4, Fork6, MCChain[6], Fork7}}

Do(op, on, arg) == [op |-> op, on |-> on, arg |-> arg]
All == Pair(Number(0), Blank)
N(n, m) == Pair(Number(n), Number(m))
Each(ops, on, args) == {Do(op, on, arg) : op \in ops, arg \in args}

Rewriting == Each({"fix", "unmerge"}, "source", {All, N(2, 5)})
             \cup Each({"upgrade"}, "source", {N(0, 7), N(5, 6)})
             \cup {Do("legacy", "source", Pair(Blank, Plus(5)))}
Checking == Each({"check", "stats"}, "source", {All, N(2, 5), N(0, 0)}) \cup Each({"batch"}, "source", {N(0, 8), N(4, 7)})
Refused == {Do("check", "source", N(3, 2)), Do("fix", "source", Pair(Plus(1), Blank)), Do("batch", "source", All)}
Looking == {Do("show", "source", N(5, 5)), Do("one", "source", N(4, 4)), Do("forks", "source", Single(Blank)),
            Do("check", "source", Pair(Number(-1), Plus(1)))}
Merging == Each({"merge"}, "source", {N(0, 0), N(2, 2), N(4, 4)})
Comparing == Each({"compare"}, "source", {N(0, 6), N(0, 8), N(2, 7)})
Verifying == Each({"check", "stats", "unmerge"}, "dest", {Single(Blank)}) \cup Each({"batch"}, "dest", {N(0, 8)})
Downloading == Each({"download"}, "source", {N(0, 5), N(2, 4), All})
Printing == Each({"print"}, "source", {N(4, 6), All}) \cup Each({"cursors"}, "source", {N(5, 6)})

Scenario(src, dst, files, plan) == [source |-> src, dest |-> dst, ones |-> files, plan |-> plan]
MCScenarios ==
    [whole      |-> Scenario(Whole, NoFiles, {}, <<Rewriting \cup Refused, Merging \cup Comparing \cup Verifying>>),
     bloated    |-> Scenario(Bloated, Other, Ones,
                             <<Rewriting \cup Merging \cup Checking \cup Looking, Merging \cup Verifying \cup {Do("compare", "source", N(0, 6))}>>),
     damaged    |-> Scenario(Damaged, NoFiles, Ones,
                             <<Rewriting \cup Merging \cup Checking \cup Looking, Comparing \cup Verifying>>),
     disordered |-> Scenario(Disordered, Store({0, 2}), {}, <<Rewriting \cup Checking, Comparing \cup Verifying>>),
     network    |-> Scenario(Whole, NoFiles, {},
                             <<Downloading \cup Printing, Downloading, Comparing \cup Verifying>>)]
=============================================================================
