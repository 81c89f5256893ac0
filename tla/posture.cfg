\* Two regions; accounts at their safest, at the second step and at their
\* weakest; three of: changes, faults, audits and decisions.
CONSTANTS
  Places = {east, west}
  NoFault = NoFault
  Levels = {1, 2, 7}
  Triaged = {"aws_rds_public_access", "azure_vm_disk_encryption", "gcp_bucket_public", "prowler_check"}
  MaxChanges = 1
  MaxFaults = 1
  MaxAudits = 2
  MaxTriages = 1
  MaxSteps = 3
SPECIFICATION Spec
SYMMETRY PlaceSymmetry
INVARIANTS TypeOK OffendersKeptApart EveryFindingCounts CriticalBlocksBuild
PROPERTIES HardeningNeverAddsFindings FaultsAreLoud ImprovesOnlyByTriage
CHECK_DEADLOCK FALSE
