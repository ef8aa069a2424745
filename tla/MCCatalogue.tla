---------------------------- MODULE MCCatalogue ----------------------------
(* Instances of Catalogue for TLC: interchangeable images. *)
EXTENDS Catalogue, TLC

CONSTANTS i1, i2

Alike == Permutations(Images)

=============================================================================
