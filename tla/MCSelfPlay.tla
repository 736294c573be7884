----------------------------- MODULE MCSelfPlay -----------------------------
(***************************************************************************)
(* Three games in two chunks, of three days of two turns, managed from     *)
(* the second day on: two games in lockstep share their batches, the third *)
(* plays alone; budgets that end a game before its last day, and buffers   *)
(* that are too small for the run.                                         *)
(***************************************************************************)
EXTENDS SelfPlay

CastingsC == {<<"candidate_vs_frozen", "frozen_vs_candidate", "candidate_vs_frozen">>,
              <<"e_vs_e", "candidate_vs_frozen", "e_vs_e">>}
EstimatesC == [d \in Dates |-> d + 1]
HirersC == {<<1, 0>>, <<2, 1>>}
=============================================================================
