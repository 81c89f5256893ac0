----------------------------- MODULE MCEngines ------------------------------
(* Small instances of Engines for TLC.                                       *)
EXTENDS Engines, TLC

SessionSymmetry == Permutations(Sessions)
=============================================================================
