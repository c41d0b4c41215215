----------------------------- MODULE MCPageMap -----------------------------
(***************************************************************************)
(* PageMap with few pages, all of them, the environments and the indices   *)
(* interchangeable.                                                        *)
(***************************************************************************)
EXTENDS PageMap, TLC

Symmetry == Permutations(Pages) \cup Permutations(Envs) \cup Permutations(Pts)
=============================================================================
