--------------------------- MODULE MCNodeOperator ---------------------------
(***************************************************************************)
(* Instances of NodeOperator for TLC: two callers.                         *)
(***************************************************************************)
EXTENDS NodeOperator

CONSTANTS c1, c2

TwoCallers == {c1, c2}

SomeNames ==
  {"maintenance", "backup", "reload", "resume", "safely_reload"}

=============================================================================
