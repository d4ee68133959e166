------------------------------- MODULE MCPaging -------------------------------
(***************************************************************************)
(* TLC instances of Paging.                                                *)
(***************************************************************************)
EXTENDS Paging, TLC

\* Nothing looks at what a page holds.
ContentSymmetry == Permutations(Contents)

===============================================================================
