---------------------------- MODULE MCAtomicFile ----------------------------
(***************************************************************************)
(* Small instances of AtomicFile: inodes and texts are interchangeable.    *)
(***************************************************************************)
EXTENDS AtomicFile, TLC

Symmetry == Permutations(Inodes) \cup Permutations(Values)
=============================================================================
