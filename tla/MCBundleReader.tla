--------------------------- MODULE MCBundleReader ---------------------------
(***************************************************************************)
(* Instances of BundleReader for TLC: a bundle of three files, some        *)
(* of which may be corrupt.                                                *)
(***************************************************************************)
EXTENDS BundleReader

ThreeFiles == <<"f1", "f2", "f3">>

MaybeCorrupt == {{}, {"f1"}, {"f3"}}

=============================================================================
