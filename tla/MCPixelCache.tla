--------------------------- MODULE MCPixelCache ---------------------------
(* Small instances of PixelCache for TLC.                                  *)
EXTENDS PixelCache, TLC

(* Owners and pixel values are interchangeable.  The memory for images and *)
(* caches is not permuted: FreshImage and FreshCache choose from it.       *)
OwnerSymmetry == Permutations(Owners) \union Permutations(Vals)
=============================================================================
