---------------------------- MODULE MCCheckpoint ----------------------------
(* Instances of Checkpoint for TLC.                                         *)
EXTENDS Checkpoint, TLC

CONSTANTS r1, r2

RankSymmetry == Permutations({r1, r2})
=============================================================================
