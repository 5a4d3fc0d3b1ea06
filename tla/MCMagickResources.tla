------------------------- MODULE MCMagickResources -------------------------
(* Small instances of MagickResources for TLC.                             *)
EXTENDS MagickResources, TLC

ThreadSymmetry == Permutations(Threads)
=============================================================================
