----------------------------- MODULE MCPosture ------------------------------
(* Small instances of Posture for TLC.                                       *)
EXTENDS Posture, TLC

(* No definition tells one region, zone or resource group from another. *)
PlaceSymmetry == Permutations(Places)
=============================================================================
