----------------------------- MODULE MCDiskCache -----------------------------
(* Instances of DiskCache for TLC. *)
EXTENDS DiskCache, TLC

Symmetry == Permutations(Slot) \union Permutations(Image)
=============================================================================
