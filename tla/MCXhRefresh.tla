----------------------------- MODULE MCXhRefresh -----------------------------
(***************************************************************************)
(* Instance of XhRefresh for TLC: two libraries to hook and one not to.    *)
(***************************************************************************)
EXTENDS XhRefresh, TLC

LibrarySymmetry == Permutations(Needed)
=============================================================================
