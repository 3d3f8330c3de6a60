--------------------------- MODULE MCBlockPoller ----------------------------
(***************************************************************************)
(* Instances of BlockPoller for TLC: two branches above height 1, the      *)
(* first of which skips height 3, and two of which one skips more heights  *)
(* than the finality.                                                      *)
(***************************************************************************)
EXTENDS BlockPoller, TLC

TreeBlocks == {"1a", "2a", "4a", "2b", "3b", "5b"}

TreeNumber ==
  "1a" :> 1 @@ "2a" :> 2 @@ "4a" :> 4 @@ "2b" :> 2 @@ "3b" :> 3 @@ "5b" :> 5

TreeParent ==
  "1a" :> "none" @@ "2a" :> "1a" @@ "4a" :> "2a" @@ "2b" :> "1a" @@ "3b" :> "2b"
    @@ "5b" :> "3b"

StartHeads == {"2a", "2b"}

GapBlocks == {"1", "5a", "2b", "3b", "4b"}

GapNumber == "1" :> 1 @@ "5a" :> 5 @@ "2b" :> 2 @@ "3b" :> 3 @@ "4b" :> 4

GapParent == "1" :> "none" @@ "5a" :> "1" @@ "2b" :> "1" @@ "3b" :> "2b" @@ "4b" :> "3b"

GapHead == {"5a"}

=============================================================================
