------------------------- MODULE MergedBlocksWriter -------------------------
(***************************************************************************)
(* The writer of merged files that the tools share                         *)
(* (merged_blocks_writer.go).  Operators only: a writer is the record      *)
(*                                                                         *)
(*   low        the base of the bundle being filled, 0 when not yet set    *)
(*   stop       the stop block, 0 for none                                 *)
(*   blocks     the blocks kept for the bundle                             *)
(*   files      the store it writes to, base -> [blocks, broken, by]               *)
(*   overwrite  whether the store replaces a file that exists              *)
(*   by         the command that writes                                    *)
(*   err        the error that ended it, "none" so far                     *)
(*                                                                         *)
(* and an operation yields the set of writers it may leave behind.         *)
(***************************************************************************)
EXTENDS BlockRanges

NewWriter(files, low, stop, overwrite, by) ==
    [low |-> low, stop |-> stop, blocks |-> <<>>, files |-> files,
     overwrite |-> overwrite, by |-> by, err |-> "none"]

Stored(w) ==
    IF w.low \in DOMAIN w.files /\ ~w.overwrite
    THEN w.files
    ELSE [b \in DOMAIN w.files \cup {w.low} |->
            IF b = w.low THEN [blocks |-> w.blocks, broken |-> FALSE, by |-> w.by] ELSE w.files[b]]

\* The store may fail; the writer has moved on in any case.
WriteBundle(w) ==
    LET next == [w EXCEPT !.low = @ + BundleSize, !.blocks = <<>>]
    IN  IF w.blocks = <<>> THEN {[w EXCEPT !.err = "no blocks"]}
        ELSE {[next EXCEPT !.files = Stored(w)], [next EXCEPT !.err = "store"]}

\* A block above the bundle ends it, the last block of the bundle too.  `low` = 0 stands for
\* "no block yet", whether the first bundle was begun or not.
ProcessBlock(w, blk) ==
    LET initial == w.low = 0 /\ blk.num >= BundleSize
        start == IF initial THEN [w EXCEPT !.low = RoundToBundleStartBlock(blk.num)] ELSE w
        ready == IF blk.num >= start.low + BundleSize THEN WriteBundle(start) ELSE {start}
        Keep(t) == [t EXCEPT !.blocks = Append(@, blk)]
        Take(t) ==
            IF t.err # "none" THEN {t}
            ELSE IF t.stop > 0 /\ blk.num >= t.stop THEN {[t EXCEPT !.err = "EOF"]}
            ELSE IF blk.num = t.low + BundleSize - 1 THEN WriteBundle(Keep(t))
            ELSE {Keep(t)}
    IN  IF initial /\ blk.num % BundleSize # 0 /\ blk.num # FirstStreamable
        THEN {[w EXCEPT !.err = "not a boundary"]}
        ELSE UNION {Take(t) : t \in ready}

=============================================================================
