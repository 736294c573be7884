------------------------------ MODULE MCBatch -------------------------------
(* Two games, two seeds, one way to play a turn. *)
EXTENDS Batch

MCSeeds == 0 .. 1
=============================================================================
