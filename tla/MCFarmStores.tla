---------------------------- MODULE MCFarmStores ----------------------------
(***************************************************************************)
(* A farmer and a hand who hand goods to each other through the shed, with *)
(* the masks they were told at the beginning of the turn.                  *)
(***************************************************************************)
EXTENDS MCFarm, Masks
=============================================================================
