------------------------------ MODULE MCMerger ------------------------------
(***************************************************************************)
(* Instances of Merger for TLC: bundles of two heights.                    *)
(***************************************************************************)
EXTENDS Merger

\* Every height has a block.
Dense == 0 .. 5

\* A chain that starts inside a bundle, with a missing height.
Sparse == {1, 2, 5, 6, 7}

\* The range 2..3 is empty and the next block is not on a boundary.
Skipping == {0, 1, 5, 6, 7}

\* The range 2..3 is empty and the next block, 4, is on a boundary.
OntoBoundary == {0, 1, 4, 5, 6, 7}

DenseChain    == {Dense}
RegularChains == {Dense, Skipping}
AllChains     == {Dense, Skipping, OntoBoundary}
LateChains    == {Sparse, 1 .. 6}

NoForks == {{}}
SomeForks == {{}, {1}}

=============================================================================
