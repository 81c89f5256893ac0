------------------------------ MODULE MCAccess ------------------------------
(* Small instances of Access for TLC.                                        *)
EXTENDS Access, TLC

Interchangeable == Permutations(Sessions) \cup Permutations(Conns)
                     \cup Permutations(Orgs)
=============================================================================
