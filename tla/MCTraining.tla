----------------------------- MODULE MCTraining -----------------------------
(***************************************************************************)
(* Four epochs with a patience of two, so that a run may stop early, stop  *)
(* at its last epoch, and improve late; two totals and NaN, so that totals *)
(* tie and diverge; two PPO updates; each trainer is started twice, the    *)
(* second time over the files of the first.                                *)
(***************************************************************************)
EXTENDS Training
=============================================================================
