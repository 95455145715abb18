---------------------------- MODULE MCAttrCache ----------------------------
(***************************************************************************)
(* The attribute cache with two threads, a directory and a file in it.     *)
(***************************************************************************)
EXTENDS AttrCache, TLC

CONSTANTS Dir, FileA

MCParent == [p \in {Dir, FileA} |-> Dir]
Symmetry == Permutations(Thread)

============================================================================
