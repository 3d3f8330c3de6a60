------------------------------ MODULE MCReader ------------------------------
(***************************************************************************)
(* Instances of Reader for TLC.                                            *)
(***************************************************************************)
EXTENDS Reader

BothSources == {"process", "stdin"}
OnlyProcess == {"process"}

=============================================================================
