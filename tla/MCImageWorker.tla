--------------------------- MODULE MCImageWorker ---------------------------
(* Instances of ImageWorker for TLC. *)
EXTENDS ImageWorker

CONSTANTS j1, j2, j3, w1, w2

=============================================================================
