---------------------------- MODULE MCAuditChain ----------------------------
(* Small instances of AuditChain for TLC. No definition tells two writers,   *)
(* two organisations or two contents apart, so permuting them is a symmetry. *)
EXTENDS AuditChain, TLC

NoEvents  == {}
AllEvents == {"purge", "edit", "delete"}
PurgeOnly == {"purge"}
EditsOnly == {"edit"}

Symmetry == Permutations(Orgs) \cup Permutations(Writers) \cup Permutations(Contents)

=============================================================================
