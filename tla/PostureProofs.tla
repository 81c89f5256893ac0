--------------------------- MODULE PostureProofs ----------------------------
(***************************************************************************)
(* Proofs about Posture, for any finite number of regions, zones or        *)
(* resource groups, any faults, changes and decisions, and any number of   *)
(* audits.                                                                 *)
(***************************************************************************)
EXTENDS Posture, FiniteSetTheorems, TLAPS

(* What an audit finds and what is stored of it, as types. A check's         *)
(* findings, unless it failed, are either all critical or none is; and but   *)
(* for the checks named in NamedInPart they name the place they are in.      *)

CriticalChecks ==
  {"aws_iam_root_mfa", "aws_rds_public_access", "azure_storage_public_blob",
   "gcp_bucket_public", "K8S-001", "IAC-001", "IAC-003", "IAC-004"}

FileChecks ==
  {"K8S-001", "K8S-002", "K8S-003", "K8S-004",
   "IAC-001", "IAC-002", "IAC-003", "IAC-004", "IAC-005"}

Spots == Places \cup {"global", "all", "demo", "line 12", "provider",
                      "resource", "critical", "unknown"}

Findings(ids) ==
  [check : ids, severity : Severities, place : Spots, resource : Spots,
   error : BOOLEAN]

Described(found, ids) ==
  \A f \in found :
    /\ f \in Findings(ids)
    /\ f.error => f.place = "all" /\ f.severity = "info"
    /\ ~f.error => (f.severity = "critical" <=> f.check \in CriticalChecks)
    /\ ~f.error /\ f.check \notin NamedInPart => f.place = f.resource

RowSet ==
  [check : Mapped \cup {"prowler_check"}, error : BOOLEAN,
   severity : Severities, resource : Spots, status : Statuses]

Clouds == {"aws", "azure", "gcp"}

Shape ==
  /\ provider \in Providers
  /\ DOMAIN cloud = Settings
  /\ \A s \in Settings :
       /\ DOMAIN cloud[s] = PlacesOf(s)
       /\ \A p \in PlacesOf(s) : cloud[s][p] \in InRange(s)
  /\ fault # NoFault => /\ fault.call \in Calls
                        /\ fault.kind \in Kinds
                        /\ fault.place \in Places \cup {"global"}

RowsShape ==
  /\ rows \subseteq RowSet
  /\ \A r \in rows : ~r.error /\ r.check \in CriticalChecks
                       => r.severity = "critical"

IInv == Shape /\ RowsShape /\ scanned.score \in 0..1000

----------------------------------------------------------------------------
(* The settings of each provider. *)

LEMMA ValuesAre ==
  /\ Providers = {"aws", "azure", "gcp", "kubernetes", "terraform"}
  /\ provider = "aws" => Values = AwsValues
  /\ provider = "azure" => Values = AzureValues
  /\ provider = "gcp" => Values = GcpValues
  /\ provider = "kubernetes" => Values = KubernetesValues
  /\ provider = "terraform" => Values = TerraformValues
  BY DEF Providers, ValuesOf, Values

LEMMA AwsSettings ==
  DOMAIN AwsValues =
    {"root_mfa", "password_length", "access_key", "user_admin", "user_mfa",
     "bucket_block", "bucket_crypt", "bucket_versions", "bucket_logging",
     "trail", "trail_validated", "ingress", "imds", "db_public",
     "db_encrypted", "db_backup_days", "db_protected", "key_rotates",
     "detector", "ebs_default", "volume_crypt", "vpc_flow_log",
     "secret_rotates"}
  BY DEF AwsValues

LEMMA AzureSettings ==
  DOMAIN AzureValues = {"https_only", "blob_public", "min_tls", "nsg_rule",
                        "sql_audited", "vm_crypt", "vault"}
  BY DEF AzureValues

LEMMA GcpSettings ==
  DOMAIN GcpValues = {"bucket_member", "bucket_uniform", "firewall",
                      "external_ip", "oldest_key", "sql_ipv4", "audit_config"}
  BY DEF GcpValues

LEMMA FileSettings ==
  /\ DOMAIN KubernetesValues = {"submitted", "pod", "role"}
  /\ DOMAIN TerraformValues = {"ingress_line", "encrypted_line",
                               "secret_line", "public_line"}
  BY DEF KubernetesValues, TerraformValues

LEMMA GcpEntries ==
  /\ GcpValues["bucket_member"] = <<"owner", "allAuthenticatedUsers", "allUsers">>
  /\ GcpValues["bucket_uniform"] = <<TRUE, FALSE>>
  /\ GcpValues["firewall"] =
       <<Firewall(FALSE, TRUE, {"22"}), Firewall(TRUE, FALSE, {"22"}),
         Firewall(TRUE, TRUE, {"443"}), Firewall(TRUE, TRUE, {"22", "443"}),
         Firewall(TRUE, TRUE, {}), OpenRange>>
  /\ GcpValues["external_ip"] = <<FALSE, TRUE>>
  /\ GcpValues["oldest_key"] = <<89, 90>>
  /\ GcpValues["sql_ipv4"] = <<FALSE, TRUE>>
  /\ GcpValues["audit_config"] = <<TRUE, FALSE>>
  BY Zenon DEF GcpValues

\* Every setting has a value, so that an account has a first state.
LEMMA SomeValue ==
  ASSUME provider \in Providers, NEW s \in Settings
  PROVE  Len(Values[s]) \in Nat \ {0}
  <1>1. \A q \in DOMAIN AwsValues : Len(AwsValues[q]) \in Nat \ {0}
    BY DEF AwsValues
  <1>2. \A q \in DOMAIN AzureValues : Len(AzureValues[q]) \in Nat \ {0}
    BY SMTT(30) DEF AzureValues
  <1>3. \A q \in DOMAIN GcpValues : Len(GcpValues[q]) \in Nat \ {0}
    <2>1. /\ Len(GcpValues["bucket_member"]) = 3
          /\ Len(GcpValues["bucket_uniform"]) = 2
          /\ Len(GcpValues["external_ip"]) = 2
          /\ Len(GcpValues["oldest_key"]) = 2
          /\ Len(GcpValues["sql_ipv4"]) = 2
          /\ Len(GcpValues["audit_config"]) = 2
      BY GcpEntries
    <2>2. Len(GcpValues["firewall"]) = 6
      BY GcpEntries
    <2>3. 2 \in Nat \ {0} /\ 3 \in Nat \ {0} /\ 6 \in Nat \ {0}
      OBVIOUS
    <2>4. QED
      BY <2>1, <2>2, <2>3, GcpSettings, Zenon
  <1>4. \A q \in DOMAIN KubernetesValues : Len(KubernetesValues[q]) \in Nat \ {0}
    BY DEF KubernetesValues
  <1>5. \A q \in DOMAIN TerraformValues : Len(TerraformValues[q]) \in Nat \ {0}
    BY DEF TerraformValues
  <1>6. \/ Values = AwsValues \/ Values = AzureValues \/ Values = GcpValues
        \/ Values = KubernetesValues \/ Values = TerraformValues
    BY ValuesAre
  <1>7. s \in DOMAIN Values
    BY DEF Settings
  <1>8. QED
    BY <1>1, <1>2, <1>3, <1>4, <1>5, <1>6, <1>7

----------------------------------------------------------------------------
(* What a check finds. *)

LEMMA PlacesAreSpots ==
  ASSUME Shape
  PROVE  /\ \A s \in Settings : PlacesOf(s) \subseteq Spots
         /\ \A s \in Settings : \A unsafe : Offenders(s, unsafe) \subseteq Spots
         /\ \A call : FailsIn(call) \subseteq Spots
  BY DEF Shape, PlacesOf, Spots, Offenders, FailsIn, Fails

LEMMA FailedDescribed ==
  ASSUME NEW ids, NEW check \in ids
  PROVE  Described(Failed(check), ids)
  <1> DEFINE f == [check |-> check, severity |-> "info", place |-> "all",
                   resource |-> "provider", error |-> TRUE]
  <1>1. "info" \in Severities /\ "all" \in Spots /\ "provider" \in Spots
    BY DEF Severities, Spots
  <1>2. f \in Findings(ids)
    BY <1>1 DEF Findings
  <1>3. f.error /\ f.place = "all" /\ f.severity = "info"
    OBVIOUS
  <1>4. Failed(check) = {f}
    BY DEF Failed
  <1> HIDE DEF f
  <1>5. QED
    BY <1>2, <1>3, <1>4 DEF Described

LEMMA FindingDescribed ==
  ASSUME NEW ids, NEW check \in ids, NEW severity \in Severities,
         severity = "critical" <=> check \in CriticalChecks,
         NEW place \in Spots, NEW resource \in Spots,
         check \notin NamedInPart => place = resource
  PROVE  Described({Finding(check, severity, place, resource)}, ids)
  <1> DEFINE f == Finding(check, severity, place, resource)
  <1>1. f \in Findings(ids)
    BY DEF Finding, Findings
  <1>2. /\ ~f.error
        /\ f.check = check /\ f.severity = severity
        /\ f.place = place /\ f.resource = resource
    BY DEF Finding
  <1> HIDE DEF f
  <1>3. Described({f}, ids)
    BY <1>1, <1>2 DEF Described
  <1>4. QED
    BY <1>3 DEF f

LEMMA AtDescribed ==
  ASSUME NEW ids, NEW check \in ids, NEW severity \in Severities,
         severity = "critical" <=> check \in CriticalChecks,
         NEW places \in SUBSET Spots
  PROVE  Described(At(check, severity, places), ids)
  <1>1. ASSUME NEW p \in places
        PROVE  Described({Finding(check, severity, p, p)}, ids)
    BY FindingDescribed
  <1>2. QED
    BY <1>1 DEF Described, At, Qualified

LEMMA AttemptDescribed ==
  ASSUME NEW ids, NEW check \in ids, NEW raises, NEW found, Described(found, ids)
  PROVE  Described(Attempt(check, raises, found), ids)
  BY FailedDescribed DEF Attempt

LEMMA CheckDescribed ==
  ASSUME Shape, NEW ids, NEW check \in ids, NEW severity \in Severities,
         severity = "critical" <=> check \in CriticalChecks,
         NEW calls, NEW setting \in Settings, NEW unsafe
  PROVE  Described(Check(check, severity, calls, setting, unsafe), ids)
  BY PlacesAreSpots, AtDescribed, AttemptDescribed DEF Check

LEMMA CheckByNameDescribed ==
  ASSUME Shape, NEW ids, NEW check \in ids \cap NamedInPart,
         NEW severity \in Severities \ {"critical"}, check \notin CriticalChecks,
         NEW calls, NEW setting \in Settings, NEW unsafe
  PROVE  Described(CheckByName(check, severity, calls, setting, unsafe), ids)
  <1> DEFINE found == {Finding(check, severity, p, Bare(p)) :
                         p \in Offenders(setting, unsafe)}
  <1>1. ASSUME NEW p \in Offenders(setting, unsafe)
        PROVE  Described({Finding(check, severity, p, Bare(p))}, ids)
    <2>1. p \in Spots /\ Bare(p) \in Spots
      BY PlacesAreSpots DEF Bare, Spots
    <2>2. QED
      BY <2>1, FindingDescribed
  <1>2. Described(found, ids)
    BY <1>1 DEF Described
  <1>3. QED
    BY <1>2, AttemptDescribed DEF CheckByName

LEMMA BucketDescribed ==
  ASSUME Shape, NEW ids, NEW check \in ids, NEW severity \in Severities,
         severity = "critical" <=> check \in CriticalChecks,
         NEW call, NEW raises, NEW setting \in Settings, NEW unsafe
  PROVE  Described(BucketCheck(check, severity, call, raises, setting, unsafe), ids)
  <1>1. Offenders(setting, unsafe) \cup FailsIn(call) \subseteq Spots
    BY PlacesAreSpots
  <1>2. QED
    BY <1>1, AtDescribed, AttemptDescribed DEF BucketCheck

LEMMA UnionDescribed ==
  ASSUME NEW ids, NEW S, \A found \in S : Described(found, ids)
  PROVE  Described(UNION S, ids)
  BY DEF Described

LEMMA AwsDescribed ==
  ASSUME Shape, provider = "aws"
  PROVE  Described(aws_run_all, Mapped)
  <1> USE DEF Mapped, AwsMapped, GcpMapped, AzureMapped, CriticalChecks,
              Severities
  <1>0. Settings = DOMAIN AwsValues
    BY ValuesAre, AwsSettings DEF Settings
  <1> USE AwsSettings
  <1>1. Described(check_iam_root_mfa, Mapped)
    BY <1>0, CheckDescribed DEF check_iam_root_mfa
  <1>2. Described(check_iam_password_policy, Mapped)
    <2>1. Offenders("password_length", 0..13) \in SUBSET Spots
      BY PlacesAreSpots, <1>0
    <2>2. {"global"} \in SUBSET Spots
      BY DEF Spots
    <2>3. Described(At("aws_iam_password_policy", "high", {"global"}), Mapped)
      BY <2>2, AtDescribed
    <2>4. Described(At("aws_iam_password_policy", "medium",
                       Offenders("password_length", 0..13)), Mapped)
      BY <2>1, AtDescribed
    <2>5. QED
      BY <2>3, <2>4, AttemptDescribed DEF check_iam_password_policy
  <1>3. Described(check_iam_access_key_age, Mapped)
    BY <1>0, CheckDescribed DEF check_iam_access_key_age
  <1>4. Described(check_iam_wildcard_policies, Mapped)
    BY <1>0, CheckDescribed DEF check_iam_wildcard_policies
  <1>5. Described(check_iam_user_mfa, Mapped)
    BY <1>0, CheckDescribed DEF check_iam_user_mfa
  <1>6. Described(check_s3_public_access, Mapped)
    BY <1>0, BucketDescribed DEF check_s3_public_access
  <1>7. Described(check_s3_encryption, Mapped)
    BY <1>0, BucketDescribed DEF check_s3_encryption
  <1>8. Described(check_s3_versioning, Mapped)
    BY <1>0, BucketDescribed DEF check_s3_versioning
  <1>9. Described(check_s3_access_logging, Mapped)
    BY <1>0, BucketDescribed DEF check_s3_access_logging
  <1>10. Described(check_security_groups_open_ssh_rdp, Mapped)
    BY <1>0, CheckDescribed DEF check_security_groups_open_ssh_rdp
  <1>11. Described(check_ec2_imdsv2, Mapped)
    BY <1>0, CheckDescribed DEF check_ec2_imdsv2
  <1>12. Described(check_rds_public_access, Mapped)
    BY <1>0, CheckDescribed DEF check_rds_public_access
  <1>13. Described(check_rds_encryption, Mapped)
    BY <1>0, CheckDescribed DEF check_rds_encryption
  <1>14. Described(check_rds_backup_retention, Mapped)
    BY <1>0, CheckDescribed DEF check_rds_backup_retention
  <1>15. Described(check_rds_deletion_protection, Mapped)
    BY <1>0, CheckDescribed DEF check_rds_deletion_protection
  <1>16. Described(check_cloudtrail_enabled, Mapped)
    BY <1>0, CheckDescribed DEF check_cloudtrail_enabled
  <1>17. Described(check_cloudtrail_log_validation, Mapped)
    BY <1>0, CheckDescribed DEF check_cloudtrail_log_validation
  <1>18. Described(check_guardduty_enabled, Mapped)
    BY <1>0, CheckDescribed DEF check_guardduty_enabled
  <1>19. Described(check_ebs_volume_encryption, Mapped)
    BY <1>0, CheckDescribed DEF check_ebs_volume_encryption
  <1>20. Described(check_kms_key_rotation, Mapped)
    <2>1. Offenders("key_rotates", {FALSE}) \ FailsIn("GetKeyRotationStatus")
            \in SUBSET Spots
      BY PlacesAreSpots, <1>0
    <2>2. QED
      BY <2>1, AtDescribed, AttemptDescribed DEF check_kms_key_rotation
  <1>21. Described(check_ebs_encryption_by_default, Mapped)
    <2>1. Offenders("ebs_default", {FALSE}) \ FailsIn("GetEbsEncryptionByDefault")
            \in SUBSET Spots
      BY PlacesAreSpots, <1>0
    <2>2. QED
      BY <2>1, AtDescribed DEF check_ebs_encryption_by_default
  <1>22. Described(check_vpc_flow_logs, Mapped)
    <2>1. Offenders("vpc_flow_log", {FALSE}) \ (FailsIn("DescribeVpcs") \cup FailsIn("DescribeFlowLogs"))
            \in SUBSET Spots
      BY PlacesAreSpots, <1>0
    <2>2. QED
      BY <2>1, AtDescribed DEF check_vpc_flow_logs
  <1>23. Described(check_secretsmanager_rotation, Mapped)
    <2>1. Offenders("secret_rotates", {FALSE}) \ FailsIn("ListSecrets")
            \in SUBSET Spots
      BY PlacesAreSpots, <1>0
    <2>2. QED
      BY <2>1, AtDescribed DEF check_secretsmanager_rotation
  <1>24. \A found \in
    {check_iam_root_mfa, check_iam_password_policy,
     check_iam_access_key_age, check_iam_wildcard_policies,
     check_iam_user_mfa, check_s3_public_access, check_s3_encryption,
     check_s3_versioning, check_s3_access_logging,
     check_security_groups_open_ssh_rdp, check_ec2_imdsv2,
     check_rds_public_access, check_rds_encryption,
     check_rds_backup_retention, check_rds_deletion_protection,
     check_cloudtrail_enabled, check_cloudtrail_log_validation,
     check_guardduty_enabled, check_ebs_volume_encryption,
     check_kms_key_rotation, check_ebs_encryption_by_default,
     check_vpc_flow_logs, check_secretsmanager_rotation} :
            Described(found, Mapped)
    BY <1>1, <1>2, <1>3, <1>4, <1>5, <1>6, <1>7, <1>8, <1>9, <1>10, <1>11,
       <1>12, <1>13, <1>14, <1>15, <1>16, <1>17, <1>18, <1>19, <1>20,
       <1>21, <1>22, <1>23
  <1>25. QED
    BY <1>24, UnionDescribed DEF aws_run_all

LEMMA AzureDescribed ==
  ASSUME Shape, provider = "azure"
  PROVE  Described(azure_run_all, Mapped)
  <1> USE DEF Mapped, AwsMapped, GcpMapped, AzureMapped, CriticalChecks,
              Severities, NamedInPart
  <1>0. Settings = DOMAIN AzureValues
    BY ValuesAre, AzureSettings DEF Settings
  <1> USE AzureSettings
  <1>1. Described(check_storage_https_only, Mapped)
    BY <1>0, CheckDescribed DEF check_storage_https_only
  <1>2. Described(check_storage_public_blob, Mapped)
    BY <1>0, CheckDescribed DEF check_storage_public_blob
  <1>3. Described(check_storage_min_tls, Mapped)
    BY <1>0, CheckDescribed DEF check_storage_min_tls
  <1>4. Described(check_nsg_open_management, Mapped)
    BY <1>0, CheckByNameDescribed DEF check_nsg_open_management
  <1>5. Described(check_sql_auditing, Mapped)
    BY <1>0, CheckDescribed DEF check_sql_auditing
  <1>6. Described(check_vm_disk_encryption, Mapped)
    BY <1>0, CheckByNameDescribed DEF check_vm_disk_encryption
  <1>7. Described(check_keyvault_soft_delete, Mapped)
    BY <1>0, CheckDescribed DEF check_keyvault_soft_delete
  <1>8. \A found \in
    {check_storage_https_only, check_storage_public_blob,
     check_storage_min_tls, check_nsg_open_management, check_sql_auditing,
     check_vm_disk_encryption, check_keyvault_soft_delete} :
            Described(found, Mapped)
    BY <1>1, <1>2, <1>3, <1>4, <1>5, <1>6, <1>7
  <1>9. QED
    BY <1>8, UnionDescribed DEF azure_run_all

LEMMA GcpDescribed ==
  ASSUME Shape, provider = "gcp"
  PROVE  Described(gcp_run_all, Mapped)
  <1> USE DEF Mapped, AwsMapped, GcpMapped, AzureMapped, CriticalChecks,
              Severities, NamedInPart
  <1>0. Settings = DOMAIN GcpValues
    BY ValuesAre, GcpSettings DEF Settings
  <1> USE GcpSettings
  <1>1. Described(check_bucket_public_access, Mapped)
    BY <1>0, CheckDescribed DEF check_bucket_public_access
  <1>2. Described(check_bucket_uniform_access, Mapped)
    BY <1>0, CheckDescribed DEF check_bucket_uniform_access
  <1>3. Described(check_firewall_open_ingress, Mapped)
    BY <1>0, CheckDescribed DEF check_firewall_open_ingress
  <1>4. Described(check_instance_public_ip, Mapped)
    BY <1>0, CheckByNameDescribed DEF check_instance_public_ip
  <1>5. Described(check_sa_key_rotation, Mapped)
    BY <1>0, CheckDescribed DEF check_sa_key_rotation
  <1>6. Described(check_sql_public_ip, Mapped)
    BY <1>0, CheckDescribed DEF check_sql_public_ip
  <1>7. Described(check_audit_logging, Mapped)
    BY <1>0, CheckDescribed DEF check_audit_logging
  <1>8. \A found \in
    {check_bucket_public_access, check_bucket_uniform_access,
     check_firewall_open_ingress, check_instance_public_ip,
     check_sa_key_rotation, check_sql_public_ip, check_audit_logging} :
            Described(found, Mapped)
    BY <1>1, <1>2, <1>3, <1>4, <1>5, <1>6, <1>7
  <1>9. QED
    BY <1>8, UnionDescribed DEF gcp_run_all

LEMMA FileChecksDescribed ==
  ASSUME Shape
  PROVE  /\ provider = "kubernetes" => Described(audit_kubernetes_cluster, FileChecks)
         /\ provider = "terraform" => Described(scan_iac_file, FileChecks)
  <1> USE DEF FileChecks, CriticalChecks, Severities
  <1>1. ASSUME provider = "kubernetes"
        PROVE  Described(audit_kubernetes_cluster, FileChecks)
    <2>1. \A s \in {"pod", "role"} : \A unsafe :
            Offenders(s, unsafe) \in SUBSET Spots
      BY <1>1, ValuesAre, FileSettings, PlacesAreSpots DEF Settings
    <2>2. Described(At("K8S-001", "critical", Offenders("pod", {"privileged"})),
                    FileChecks)
      BY <2>1, AtDescribed
    <2>3. Described(At("K8S-002", "high", Offenders("role", {"wildcard"})),
                    FileChecks)
      BY <2>1, AtDescribed
    <2>4. /\ Described({Finding("K8S-001", "critical", "demo", "demo")}, FileChecks)
          /\ Described({Finding("K8S-002", "high", "demo", "demo")}, FileChecks)
          /\ Described({Finding("K8S-003", "medium", "demo", "demo")}, FileChecks)
          /\ Described({Finding("K8S-004", "high", "demo", "demo")}, FileChecks)
      BY FindingDescribed DEF Spots
    <2>5. Described(DemoFindings, FileChecks)
      BY <2>4 DEF DemoFindings, Described
    <2>6. QED
      BY <2>2, <2>3, <2>5 DEF audit_kubernetes_cluster, Described
  <1>2. ASSUME provider = "terraform"
        PROVE  Described(scan_iac_file, FileChecks)
    <2>1. \A s \in DOMAIN TerraformValues : \A unsafe :
            Offenders(s, unsafe) \in SUBSET Spots
      BY <1>2, ValuesAre, PlacesAreSpots DEF Settings
    <2> USE FileSettings
    <2>2. Described(At("IAC-001", "critical",
            Offenders("ingress_line", {"0.0.0.0/0:8022", "0.0.0.0/0:22"})), FileChecks)
      BY <2>1, AtDescribed
    <2>3. Described(At("IAC-002", "high", Offenders("encrypted_line", {FALSE})),
                    FileChecks)
      BY <2>1, AtDescribed
    <2>4. Described(At("IAC-003", "critical", Offenders("secret_line", {"literal"})),
                    FileChecks)
      BY <2>1, AtDescribed
    <2>5. Described(At("IAC-004", "critical", Offenders("public_line", {TRUE})),
                    FileChecks)
      BY <2>1, AtDescribed
    <2>6. Described(LineIssues, FileChecks)
      BY <2>2, <2>3, <2>4, <2>5 DEF LineIssues, Described
    <2>7. Described(At("IAC-005", "medium", {"line 12"}), FileChecks)
      BY AtDescribed DEF Spots
    <2>8. QED
      BY <2>6, <2>7 DEF scan_iac_file
  <1>3. QED
    BY <1>1, <1>2

LEMMA RunAllDescribed ==
  ASSUME Shape
  PROVE  /\ Described(run_all, Mapped \cup FileChecks)
         /\ provider \in Clouds => Described(run_all, Mapped)
  <1>1. \/ provider \in Clouds /\ Described(run_all, Mapped)
        \/ provider \notin Clouds /\ Described(run_all, FileChecks)
    BY AwsDescribed, AzureDescribed, GcpDescribed, FileChecksDescribed, ValuesAre
    DEF Shape, run_all, Clouds
  <1>2. QED
    BY <1>1 DEF Described, Findings

----------------------------------------------------------------------------
(* Finite sets: what the scores and the gate count. *)

LEMMA UnionBounded ==
  ASSUME NEW S, IsFiniteSet(S), NEW T, IsFiniteSet(T), NEW m \in Nat, NEW n \in Nat,
         Cardinality(S) <= m, Cardinality(T) <= n, NEW k \in Nat, m + n <= k
  PROVE  IsFiniteSet(S \cup T) /\ Cardinality(S \cup T) <= k
  <1>1. S \cap T \in SUBSET S
    OBVIOUS
  <1>2. /\ Cardinality(S) \in Nat /\ Cardinality(T) \in Nat
        /\ Cardinality(S \cap T) \in Nat
    BY <1>1, FS_Subset, FS_CardinalityType
  <1>3. /\ IsFiniteSet(S \cup T)
        /\ Cardinality(S \cup T) =
             Cardinality(S) + Cardinality(T) - Cardinality(S \cap T)
    BY FS_Union
  <1>4. QED
    BY <1>2, <1>3

LEMMA Enumerated ==
  ASSUME NEW a, NEW b, NEW c, NEW d, NEW e
  PROVE  IsFiniteSet({a, b, c, d, e}) /\ Cardinality({a, b, c, d, e}) <= 8
  <1> DEFINE P == {a} \cup {b}
             Q == {c} \cup {d}
             R == P \cup Q
  <1>1. \A x : IsFiniteSet({x}) /\ Cardinality({x}) = 1
    BY FS_Singleton
  <1>2. ASSUME NEW x, NEW y
        PROVE  IsFiniteSet({x} \cup {y}) /\ Cardinality({x} \cup {y}) <= 2
    <2> DEFINE S == {x}
               T == {y}
    <2>1. /\ IsFiniteSet(S) /\ Cardinality(S) <= 1
          /\ IsFiniteSet(T) /\ Cardinality(T) <= 1
      BY <1>1
    <2> HIDE DEF S, T
    <2>2. IsFiniteSet(S \cup T) /\ Cardinality(S \cup T) <= 2
      BY <2>1, UnionBounded
    <2>3. QED
      BY <2>2 DEF S, T
  <1>3. /\ IsFiniteSet(P) /\ Cardinality(P) <= 2
        /\ IsFiniteSet(Q) /\ Cardinality(Q) <= 2
    BY <1>2
  <1> DEFINE E == {e} \cup {e}
  <1>4. IsFiniteSet(E) /\ Cardinality(E) <= 2
    BY <1>2
  <1>5. {a, b, c, d, e} = R \cup (E \cup E)
    OBVIOUS
  <1> HIDE DEF E, P, Q
  <1>6. IsFiniteSet(P \cup Q) /\ Cardinality(P \cup Q) <= 4
    BY <1>3, UnionBounded
  <1>7. IsFiniteSet(E \cup E) /\ Cardinality(E \cup E) <= 4
    BY <1>4, UnionBounded
  <1> DEFINE F == E \cup E
  <1>8. /\ IsFiniteSet(R) /\ Cardinality(R) <= 4
        /\ IsFiniteSet(F) /\ Cardinality(F) <= 4
    BY <1>6, <1>7
  <1> HIDE DEF R, F
  <1>9. IsFiniteSet(R \cup F) /\ Cardinality(R \cup F) <= 8
    BY <1>8, UnionBounded
  <1>10. QED
    BY <1>5, <1>9 DEF F

LEMMA MappedFinite == IsFiniteSet(Mapped) /\ Cardinality(Mapped) <= 64
  <1> DEFINE
        A == {"aws_iam_root_mfa", "aws_iam_password_policy",
              "aws_iam_access_key_age", "aws_iam_wildcard_policies",
              "aws_s3_public_access_block"}
        B == {"aws_s3_encryption", "aws_sg_open_ssh_rdp", "aws_ec2_imdsv2",
              "aws_rds_public_access", "aws_rds_encryption"}
        C == {"aws_cloudtrail_enabled", "aws_kms_key_rotation",
              "aws_guardduty_enabled", "aws_s3_versioning",
              "aws_s3_access_logging"}
        D == {"aws_ebs_default_encryption", "aws_ebs_volume_encryption",
              "aws_iam_user_mfa", "aws_cloudtrail_log_validation",
              "aws_vpc_flow_logs"}
        E == {"aws_rds_backup_retention", "aws_rds_deletion_protection",
              "aws_secretsmanager_rotation", "gcp_bucket_public",
              "gcp_bucket_ubla"}
        F == {"gcp_firewall_open", "gcp_instance_public_ip", "gcp_sa_key_age",
              "gcp_sql_public_ip", "gcp_audit_logging"}
        G == {"azure_storage_https", "azure_storage_public_blob",
              "azure_storage_min_tls", "azure_nsg_open_mgmt",
              "azure_sql_auditing"}
        H == {"azure_vm_disk_encryption", "azure_vm_disk_encryption",
              "azure_vm_disk_encryption", "azure_vm_disk_encryption",
              "azure_keyvault_protection"}
  <1>1. Mapped = ((A \cup B) \cup (C \cup D)) \cup ((E \cup F) \cup (G \cup H))
    BY DEF Mapped, AwsMapped, GcpMapped, AzureMapped
  <1>2. /\ IsFiniteSet(A) /\ Cardinality(A) <= 8
        /\ IsFiniteSet(B) /\ Cardinality(B) <= 8
    BY Enumerated
  <1>3. /\ IsFiniteSet(C) /\ Cardinality(C) <= 8
        /\ IsFiniteSet(D) /\ Cardinality(D) <= 8
    BY Enumerated
  <1>4. /\ IsFiniteSet(E) /\ Cardinality(E) <= 8
        /\ IsFiniteSet(F) /\ Cardinality(F) <= 8
    BY Enumerated
  <1>5. /\ IsFiniteSet(G) /\ Cardinality(G) <= 8
        /\ IsFiniteSet(H) /\ Cardinality(H) <= 8
    BY Enumerated
  <1> HIDE DEF A, B, C, D, E, F, G, H
  <1>6. ASSUME NEW S, IsFiniteSet(S), Cardinality(S) <= 8,
               NEW T, IsFiniteSet(T), Cardinality(T) <= 8
        PROVE  IsFiniteSet(S \cup T) /\ Cardinality(S \cup T) <= 16
    BY <1>6, UnionBounded
  <1>7. ASSUME NEW S, IsFiniteSet(S), Cardinality(S) <= 16,
               NEW T, IsFiniteSet(T), Cardinality(T) <= 16
        PROVE  IsFiniteSet(S \cup T) /\ Cardinality(S \cup T) <= 32
    BY <1>7, UnionBounded
  <1>8. ASSUME NEW S, IsFiniteSet(S), Cardinality(S) <= 32,
               NEW T, IsFiniteSet(T), Cardinality(T) <= 32
        PROVE  IsFiniteSet(S \cup T) /\ Cardinality(S \cup T) <= 64
    BY <1>8, UnionBounded
  <1> DEFINE AB == A \cup B
             CD == C \cup D
             EF == E \cup F
             GH == G \cup H
  <1>9. /\ IsFiniteSet(AB) /\ Cardinality(AB) <= 16
        /\ IsFiniteSet(CD) /\ Cardinality(CD) <= 16
        /\ IsFiniteSet(EF) /\ Cardinality(EF) <= 16
        /\ IsFiniteSet(GH) /\ Cardinality(GH) <= 16
    BY <1>2, <1>3, <1>4, <1>5, <1>6
  <1>10. Mapped = (AB \cup CD) \cup (EF \cup GH)
    BY <1>1
  <1> HIDE DEF AB, CD, EF, GH
  <1> DEFINE W == AB \cup CD
             X == EF \cup GH
  <1>11. /\ IsFiniteSet(W) /\ Cardinality(W) <= 32
         /\ IsFiniteSet(X) /\ Cardinality(X) <= 32
    BY <1>7, <1>9
  <1>12. Mapped = W \cup X
    BY <1>10
  <1> HIDE DEF W, X
  <1>13. QED
    BY <1>8, <1>11, <1>12

LEMMA TypesFinite ==
  /\ IsFiniteSet(Mapped \cup FileChecks) /\ IsFiniteSet(Mapped \cup {"prowler_check"})
  /\ IsFiniteSet(Severities) /\ IsFiniteSet(Spots) /\ IsFiniteSet(BOOLEAN)
  /\ IsFiniteSet(Statuses)
  <1>1. IsFiniteSet({"K8S-001", "K8S-002", "K8S-003", "K8S-004", "IAC-001"})
    BY Enumerated
  <1>2. IsFiniteSet({"IAC-001", "IAC-002", "IAC-003", "IAC-004", "IAC-005"})
    BY Enumerated
  <1>3. FileChecks = {"K8S-001", "K8S-002", "K8S-003", "K8S-004", "IAC-001"}
          \cup {"IAC-001", "IAC-002", "IAC-003", "IAC-004", "IAC-005"}
    BY DEF FileChecks
  <1>4. IsFiniteSet(FileChecks)
    BY <1>1, <1>2, <1>3, FS_Union
  <1>5. IsFiniteSet(Mapped \cup FileChecks)
    BY <1>4, MappedFinite, FS_Union
  <1>6. IsFiniteSet(Mapped \cup {"prowler_check"})
    BY MappedFinite, FS_AddElement
  <1>7. IsFiniteSet(Severities)
    BY Enumerated DEF Severities
  <1>8. IsFiniteSet({"global", "all", "demo", "line 12", "provider"})
    BY Enumerated
  <1>9. IsFiniteSet({"provider", "provider", "resource", "critical", "unknown"})
    BY Enumerated
  <1>10. Spots = (Places \cup {"global", "all", "demo", "line 12", "provider"})
                   \cup {"provider", "provider", "resource", "critical", "unknown"}
    BY DEF Spots
  <1>11. IsFiniteSet(Spots)
    BY <1>8, <1>9, <1>10, PostureAssumption, FS_Union
  <1>12. IsFiniteSet({FALSE, FALSE, FALSE, FALSE, TRUE})
    BY Enumerated
  <1>13. BOOLEAN = {FALSE, FALSE, FALSE, FALSE, TRUE}
    OBVIOUS
  <1>14. IsFiniteSet({"open", "open", "open", "accepted_risk", "resolved"})
    BY Enumerated
  <1>15. Statuses = {"open", "open", "open", "accepted_risk", "resolved"}
    BY DEF Statuses
  <1>16. QED
    BY <1>5, <1>6, <1>7, <1>11, <1>12, <1>13, <1>14, <1>15

LEMMA ProductsFinite ==
  ASSUME NEW A, IsFiniteSet(A), NEW B, IsFiniteSet(B), NEW C, IsFiniteSet(C),
         NEW D, IsFiniteSet(D), NEW E, IsFiniteSet(E)
  PROVE  IsFiniteSet(((A \X B) \X (C \X D)) \X E)
  <1>1. IsFiniteSet(A \X B) /\ IsFiniteSet(C \X D)
    BY FS_Product
  <1> DEFINE P == A \X B
             Q == C \X D
  <1>2. IsFiniteSet(P) /\ IsFiniteSet(Q)
    BY <1>1
  <1> HIDE DEF P, Q
  <1>3. IsFiniteSet(P \X Q)
    BY <1>2, FS_Product
  <1> DEFINE R == P \X Q
  <1>4. IsFiniteSet(R)
    BY <1>3
  <1> HIDE DEF R
  <1>5. IsFiniteSet(R \X E)
    BY <1>4, FS_Product
  <1>6. QED
    BY <1>5 DEF P, Q, R

LEMMA FindingsFinite ==
  ASSUME NEW ids, IsFiniteSet(ids)
  PROVE  IsFiniteSet(Findings(ids))
  <1> DEFINE T == ((ids \X Severities) \X (Spots \X Spots)) \X BOOLEAN
             f == [t \in T |->
                     [check |-> t[1][1][1], severity |-> t[1][1][2],
                      place |-> t[1][2][1], resource |-> t[1][2][2],
                      error |-> t[2]]]
  <1>1. IsFiniteSet(T)
    BY TypesFinite, ProductsFinite
  <1>2. f \in Surjection(T, Findings(ids))
    <2>1. ASSUME NEW t \in T PROVE f[t] \in Findings(ids)
      BY DEF Findings
    <2>2. ASSUME NEW x \in Findings(ids) PROVE \E t \in T : f[t] = x
      <3> DEFINE t == <<<<<<x.check, x.severity>>, <<x.place, x.resource>>>>, x.error>>
      <3>1. t \in T
        BY DEF Findings
      <3>2. f[t] = [check |-> x.check, severity |-> x.severity,
                    place |-> x.place, resource |-> x.resource, error |-> x.error]
        BY <3>1
      <3>3. f[t] = x
        BY <3>2 DEF Findings
      <3>4. QED
        BY <3>1, <3>3
    <2>3. QED
      BY <2>1, <2>2 DEF Surjection
  <1> HIDE DEF T, f
  <1>3. QED
    BY <1>1, <1>2, FS_Surjection

LEMMA RowSetFinite == IsFiniteSet(RowSet)
  <1> DEFINE ids == Mapped \cup {"prowler_check"}
             T == ((ids \X BOOLEAN) \X (Severities \X Spots)) \X Statuses
             f == [t \in T |->
                     [check |-> t[1][1][1], error |-> t[1][1][2],
                      severity |-> t[1][2][1], resource |-> t[1][2][2],
                      status |-> t[2]]]
  <1>0. IsFiniteSet(ids)
    BY TypesFinite
  <1>1. IsFiniteSet(T)
    <2> HIDE DEF ids
    <2>1. QED
      BY <1>0, TypesFinite, ProductsFinite
  <1>2. f \in Surjection(T, RowSet)
    <2>1. RowSet = [check : ids, error : BOOLEAN, severity : Severities,
                    resource : Spots, status : Statuses]
      BY DEF RowSet
    <2> HIDE DEF ids
    <2>2. ASSUME NEW t \in T PROVE f[t] \in RowSet
      BY <2>1
    <2>3. ASSUME NEW x \in RowSet PROVE \E t \in T : f[t] = x
      <3> DEFINE t == <<<<<<x.check, x.error>>, <<x.severity, x.resource>>>>, x.status>>
      <3>1. t \in T
        BY <2>1
      <3>2. f[t] = [check |-> x.check, error |-> x.error, severity |-> x.severity,
                    resource |-> x.resource, status |-> x.status]
        BY <3>1
      <3>3. f[t] = x
        BY <2>1, <3>2
      <3>4. QED
        BY <3>1, <3>3
    <2>4. QED
      BY <2>2, <2>3 DEF Surjection
  <1> HIDE DEF T, f
  <1>3. QED
    BY <1>1, <1>2, FS_Surjection

LEMMA RunAllFinite == ASSUME Shape PROVE IsFiniteSet(run_all)
  <1>1. run_all \in SUBSET Findings(Mapped \cup FileChecks)
    BY RunAllDescribed DEF Described
  <1>2. QED
    BY <1>1, TypesFinite, FindingsFinite, FS_Subset

----------------------------------------------------------------------------
(* State properties. *)

\* But for the resources named in part, a finding's place follows from its
\* dedup hash: findings and hashes correspond one to one.
LEMMA HashTellsPlace ==
  ASSUME Shape
  PROVE  OffendersKeptApart
  <1> DEFINE found  == {f \in run_all : f.check \notin NamedInPart}
             hashes == {dedup_hash(f) : f \in found}
             placed == {<<f.place, dedup_hash(f)>> : f \in found}
             h == [f \in found |-> dedup_hash(f)]
             b == [x \in hashes |-> <<IF x[2] THEN "all" ELSE x[3], x>>]
  <1>1. IsFiniteSet(hashes)
    <2>1. found \in SUBSET run_all
      OBVIOUS
    <2>2. IsFiniteSet(found)
      BY <2>1, RunAllFinite, FS_Subset
    <2>3. h \in Surjection(found, hashes)
      BY DEF Surjection
    <2> HIDE DEF h, found, hashes
    <2>4. QED
      BY <2>2, <2>3, FS_Surjection
  <1>2. \A f \in found : b[dedup_hash(f)] = <<f.place, dedup_hash(f)>>
    <2> SUFFICES ASSUME NEW f \in found
                 PROVE  (IF dedup_hash(f)[2] THEN "all" ELSE dedup_hash(f)[3]) = f.place
      OBVIOUS
    <2>1. /\ f.error \in BOOLEAN
          /\ f.error => f.place = "all"
          /\ ~f.error => f.place = f.resource
      BY RunAllDescribed DEF Described, Findings
    <2>2. dedup_hash(f)[2] = f.error /\ dedup_hash(f)[3] = f.resource
      BY DEF dedup_hash
    <2>3. QED
      BY <2>1, <2>2
  <1>3. b \in Bijection(hashes, placed)
    <2>1. b \in [hashes -> placed]
      BY <1>2
    <2>2. \A x, y \in hashes : b[x] = b[y] => x = y
      OBVIOUS
    <2>3. \A z \in placed : \E x \in hashes : b[x] = z
      BY <1>2
    <2> HIDE DEF b, hashes, placed
    <2>4. QED
      BY <2>1, <2>2, <2>3 DEF Bijection, Injection, Surjection, IsInjective
  <1>4. Cardinality(placed) = Cardinality(hashes)
    <2>1. ExistsBijection(hashes, placed)
      BY <1>3 DEF ExistsBijection
    <2> HIDE DEF hashes, placed
    <2>2. QED
      BY <1>1, <2>1, FS_Bijection
  <1>5. QED
    BY <1>4 DEF OffendersKeptApart

LEMMA SomethingCounted ==
  ASSUME NEW S, IsFiniteSet(S), NEW x \in S
  PROVE  Cardinality(S) \in Nat /\ ~(Cardinality(S) <= 0)
  BY FS_CardinalityType, FS_EmptySet

LEMMA OpenFinite ==
  ASSUME RowsShape
  PROVE  IsFiniteSet(rows) /\ IsFiniteSet(Open)
  <1>1. rows \in SUBSET RowSet /\ Open \in SUBSET RowSet
    BY DEF RowsShape, Open
  <1>2. QED
    BY <1>1, RowSetFinite, FS_Subset

LEMMA GateClosed ==
  ASSUME Shape, RowsShape
  PROVE  CriticalBlocksBuild
  <1> SUFFICES ASSUME evaluate_pipeline_gate(Open),
                      NEW f \in run_all, f.severity = "critical", Stored(f)
               PROVE  \E r \in rows : dedup_hash(r) = dedup_hash(f) /\ r.status # "open"
    BY DEF CriticalBlocksBuild
  <1>1. PICK r \in rows : dedup_hash(r) = dedup_hash(f)
    BY DEF Stored
  <1>2. ~f.error /\ f.check \in CriticalChecks
    BY RunAllDescribed DEF Described
  <1>3. r.check = f.check /\ r.error = f.error
    BY <1>1 DEF dedup_hash
  <1>4. r.severity = "critical"
    BY <1>2, <1>3 DEF RowsShape
  <1>5. CASE r.status = "open"
    <2> DEFINE critical == {q \in Open : q.severity = "critical"}
    <2>1. r \in critical
      BY <1>4, <1>5 DEF Open
    <2>2. critical \in SUBSET Open
      OBVIOUS
    <2>3. IsFiniteSet(critical)
      BY <2>2, OpenFinite, FS_Subset
    <2>4. Cardinality(critical) <= 0
      BY DEF evaluate_pipeline_gate
    <2> HIDE DEF critical
    <2>5. FALSE
      BY <2>1, <2>3, <2>4, SomethingCounted
    <2>6. QED
      BY <2>5
  <1>6. QED
    BY <1>1, <1>5

----------------------------------------------------------------------------
(* Scores. *)

\* Tenths of a percent, rounded: with fewer than 2000 checks in a framework,
\* one open finding is never rounded away.
LEMMA Rounding ==
  ASSUME NEW a \in Nat \ {0}, NEW p \in Nat
  PROVE  /\ p = a => (2000 * p + a) \div (2 * a) = 1000
         /\ p < a /\ a < 2000 => (2000 * p + a) \div (2 * a) < 1000
  <1>1. p = a => (2000 * p + a) \div (2 * a) = 1000
    OBVIOUS
  <1>2. ASSUME p < a, a < 2000
        PROVE  (2000 * p + a) \div (2 * a) < 1000
    BY <1>2
  <1>3. QED
    BY <1>1, <1>2

LEMMA RoundingMonotone ==
  ASSUME NEW a \in Nat \ {0}, NEW p \in Nat, NEW q \in Nat, p <= q
  PROVE  (2000 * p + a) \div (2 * a) <= (2000 * q + a) \div (2 * a)
  OBVIOUS

LEMMA FrameworkSizes ==
  ASSUME NEW fw \in FRAMEWORKS
  PROVE  /\ SEED_MAPPINGS[fw] \subseteq Mapped
         /\ IsFiniteSet(SEED_MAPPINGS[fw])
         /\ Cardinality(SEED_MAPPINGS[fw]) \in Nat \ {0}
         /\ Cardinality(SEED_MAPPINGS[fw]) < 2000
  <1>1. fw \in {"cis_aws_v2", "cis_gcp_v2", "cis_azure_v2", "soc2", "iso27001",
                "pci_dss_v4"}
    BY DEF FRAMEWORKS, SEED_MAPPINGS
  <1>2. SEED_MAPPINGS[fw] \in {AwsMapped \ {"aws_rds_deletion_protection"},
          GcpMapped, AzureMapped, Mapped, IsoMapped, AwsMapped \ NotPciMapped}
    BY <1>1 DEF SEED_MAPPINGS
  <1>3. IsoMapped \subseteq AwsMapped
    BY DEF IsoMapped, AwsMapped
  <1>4. SEED_MAPPINGS[fw] \in SUBSET Mapped
    BY <1>2, <1>3 DEF Mapped
  <1>5. \E check : check \in SEED_MAPPINGS[fw]
    <2>1. "aws_iam_root_mfa" \in AwsMapped \ {"aws_rds_deletion_protection"}
      BY DEF AwsMapped
    <2>2. "aws_iam_root_mfa" \in AwsMapped \ NotPciMapped
      BY DEF AwsMapped, NotPciMapped
    <2>3. "aws_iam_root_mfa" \in IsoMapped /\ "gcp_bucket_public" \in GcpMapped
      BY DEF IsoMapped, GcpMapped
    <2>4. "azure_storage_https" \in AzureMapped /\ "azure_storage_https" \in Mapped
      BY DEF AzureMapped, Mapped
    <2>5. QED
      BY <1>2, <2>1, <2>2, <2>3, <2>4
  <1> DEFINE S == SEED_MAPPINGS[fw]
  <1>6. IsFiniteSet(S) /\ Cardinality(S) <= Cardinality(Mapped)
    BY <1>4, MappedFinite, FS_Subset
  <1>7. Cardinality(S) \in Nat /\ Cardinality(Mapped) \in Nat
    BY <1>6, MappedFinite, FS_CardinalityType
  <1>8. Cardinality(S) # 0
    BY <1>5, <1>6, FS_EmptySet
  <1>9. QED
    BY <1>4, <1>6, <1>7, <1>8, MappedFinite

LEMMA ScoreOf ==
  ASSUME NEW fw \in FRAMEWORKS, NEW failed
  PROVE  /\ SEED_MAPPINGS[fw] \cap failed = {} => compute_scores(failed)[fw] = 1000
         /\ SEED_MAPPINGS[fw] \cap failed # {} => compute_scores(failed)[fw] < 1000
         /\ \A more : failed \subseteq more =>
              compute_scores(more)[fw] <= compute_scores(failed)[fw]
  <1> DEFINE S == SEED_MAPPINGS[fw]
             a == Cardinality(S)
             passed(these) == Cardinality(S \ these)
  <1>1. IsFiniteSet(S) /\ a \in Nat \ {0} /\ a < 2000
    BY FrameworkSizes
  <1>2. \A these : compute_scores(these)[fw] = (2000 * passed(these) + a) \div (2 * a)
    BY DEF compute_scores
  <1> HIDE DEF S
  <1>3. ASSUME NEW these
        PROVE  /\ IsFiniteSet(S \ these) /\ passed(these) \in Nat
               /\ passed(these) <= a
               /\ passed(these) = a => S \ these = S
    <2>1. S \ these \in SUBSET S
      OBVIOUS
    <2>2. /\ IsFiniteSet(S \ these) /\ passed(these) <= a
          /\ a = passed(these) => S = S \ these
      BY <1>1, <2>1, FS_Subset
    <2>3. passed(these) \in Nat
      BY <2>2, FS_CardinalityType
    <2>4. QED
      BY <2>2, <2>3
  <1>4. ASSUME S \cap failed = {} PROVE compute_scores(failed)[fw] = 1000
    <2>1. S \ failed = S
      BY <1>4
    <2>2. passed(failed) = a
      BY <2>1
    <2> HIDE DEF a, passed
    <2>3. QED
      BY <1>1, <1>2, <1>3, <2>2, Rounding
  <1>5. ASSUME S \cap failed # {} PROVE compute_scores(failed)[fw] < 1000
    <2>1. S \ failed # S
      BY <1>5
    <2>2. passed(failed) # a
      BY <1>3, <2>1
    <2>3. passed(failed) \in Nat /\ passed(failed) <= a
      BY <1>3
    <2> HIDE DEF a, passed
    <2>4. passed(failed) < a
      BY <1>1, <2>2, <2>3
    <2>5. QED
      BY <1>1, <1>2, <2>3, <2>4, Rounding
  <1>6. ASSUME NEW more, failed \subseteq more
        PROVE  compute_scores(more)[fw] <= compute_scores(failed)[fw]
    <2>1. S \ more \in SUBSET (S \ failed)
      BY <1>6
    <2>2. IsFiniteSet(S \ failed)
      BY <1>3
    <2>3. passed(more) <= passed(failed)
      BY <2>1, <2>2, FS_Subset
    <2>4. passed(more) \in Nat /\ passed(failed) \in Nat
      BY <1>3
    <2> HIDE DEF a, passed
    <2>5. (2000 * passed(more) + a) \div (2 * a)
            <= (2000 * passed(failed) + a) \div (2 * a)
      BY <1>1, <2>3, <2>4, RoundingMonotone
    <2>6. QED
      BY <1>2, <2>5
  <1>7. QED
    BY <1>4, <1>5, <1>6 DEF S

LEMMA ScoreIsNumber ==
  ASSUME NEW fw \in FRAMEWORKS, NEW failed
  PROVE  compute_scores(failed)[fw] \in Int
  <1> DEFINE S == SEED_MAPPINGS[fw]
  <1>1. Cardinality(S) \in Nat \ {0} /\ IsFiniteSet(S)
    BY FrameworkSizes
  <1>2. S \ failed \in SUBSET S
    OBVIOUS
  <1>3. IsFiniteSet(S \ failed)
    BY <1>1, <1>2, FS_Subset
  <1>4. Cardinality(S \ failed) \in Nat
    BY <1>3, FS_CardinalityType
  <1>5. QED
    BY <1>1, <1>4 DEF compute_scores

LEMMA FindingsCount ==
  ASSUME RowsShape
  PROVE  EveryFindingCounts
  <1> DEFINE failed == _failed_check_ids
             scores == compute_scores(failed)
  <1>1. failed \subseteq Mapped \cup {"prowler_check"}
    BY DEF _failed_check_ids, Open, RowsShape, RowSet
  <1> HIDE DEF failed
  <1>2. ASSUME failed \ {"prowler_check"} # {} PROVE scores["soc2"] < 1000
    <2>1. "soc2" \in FRAMEWORKS /\ SEED_MAPPINGS["soc2"] = Mapped
      BY DEF FRAMEWORKS, SEED_MAPPINGS
    <2>2. Mapped \cap failed # {}
      BY <1>1, <1>2
    <2>3. QED
      BY <2>1, <2>2, ScoreOf
  <1>3. ASSUME NEW fw \in FRAMEWORKS
        PROVE  LET lines == evidence_report(fw, failed)
               IN  /\ \A check \in failed : check \in DOMAIN lines => lines[check] = "fail"
                   /\ scores[fw] = 1000 <=> \A check \in DOMAIN lines : lines[check] = "pass"
    <2> DEFINE lines == evidence_report(fw, failed)
    <2>1. /\ DOMAIN lines = SEED_MAPPINGS[fw]
          /\ \A check \in DOMAIN lines :
               lines[check] = IF check \in failed THEN "fail" ELSE "pass"
      BY DEF evidence_report
    <2>2. scores[fw] = 1000 <=> SEED_MAPPINGS[fw] \cap failed = {}
      <3>1. SEED_MAPPINGS[fw] \cap failed = {} => scores[fw] = 1000
        BY ScoreOf
      <3>2. SEED_MAPPINGS[fw] \cap failed # {} => scores[fw] < 1000
        BY ScoreOf
      <3>3. scores[fw] < 1000 => scores[fw] # 1000
        BY ScoreIsNumber
      <3>4. QED
        BY <3>1, <3>2, <3>3
    <2> HIDE DEF lines, scores
    <2>3. QED
      BY <2>1, <2>2 DEF lines
  <1>4. QED
    BY <1>2, <1>3 DEF EveryFindingCounts, failed

----------------------------------------------------------------------------
(* The inductive invariant. *)

LEMMA ShapeKept ==
  ASSUME Shape, UNCHANGED <<provider, cloud, fault>>
  PROVE  Shape'
  BY DEF Shape, Settings, Values, InRange, Calls

LEMMA InitEstablishes == Init => IInv
  <1> SUFFICES ASSUME Init PROVE IInv
    OBVIOUS
  <1>1. Shape
    <2>1. PICK i \in Levels : cloud = Uniform(i)
      BY DEF Init
    <2>2. ASSUME NEW s \in Settings
          PROVE  /\ DOMAIN cloud[s] = PlacesOf(s)
                 /\ \A p \in PlacesOf(s) : cloud[s][p] \in InRange(s)
      <3> DEFINE n == Len(Values[s])
                 j == IF i <= n THEN i ELSE n
      <3>1. n \in Nat \ {0} /\ i \in Nat \ {0}
        BY SomeValue, PostureAssumption DEF Init
      <3>2. j \in 1..n
        BY <3>1
      <3>3. cloud[s] = [p \in PlacesOf(s) |-> Values[s][j]]
        BY <2>1 DEF Uniform
      <3> HIDE DEF j
      <3>4. QED
        BY <3>2, <3>3 DEF InRange
    <2>3. DOMAIN cloud = Settings
      BY <2>1 DEF Uniform
    <2>4. QED
      BY <2>2, <2>3 DEF Shape, Init
  <1>2. RowsShape
    BY DEF Init, RowsShape
  <1>3. QED
    BY <1>1, <1>2 DEF Init, IInv

\* What is stored of findings that are described is described.
LEMMA PersistedShape ==
  ASSUME RowsShape, NEW found, rows' = Persisted(found),
         \A f \in found :
           /\ f.check \in Mapped \cup {"prowler_check"} /\ f.error \in BOOLEAN
           /\ f.severity \in Severities /\ f.resource \in Spots
           /\ ~f.error /\ f.check \in CriticalChecks => f.severity = "critical"
  PROVE  RowsShape'
  <1>1. ASSUME NEW f \in found
        PROVE  /\ Row(f) \in RowSet
               /\ ~Row(f).error /\ Row(f).check \in CriticalChecks
                    => Row(f).severity = "critical"
    <2>1. "open" \in Statuses
      BY DEF Statuses
    <2>2. Row(f) \in RowSet
      BY <2>1 DEF Row, RowSet
    <2>3. /\ Row(f).error = f.error /\ Row(f).check = f.check
          /\ Row(f).severity = f.severity
      BY DEF Row
    <2>4. QED
      BY <2>2, <2>3
  <1>2. QED
    BY <1>1 DEF RowsShape, Persisted

LEMMA AuditKeeps ==
  ASSUME IInv, Audit
  PROVE  IInv'
  <1>1. /\ Described(run_all, Mapped) /\ rows' = Persisted(run_all)
        /\ UNCHANGED <<provider, cloud, fault, scanned>>
    BY RunAllDescribed DEF IInv, Audit, Clouds
  <1>2. \A f \in run_all :
          /\ f.check \in Mapped \cup {"prowler_check"} /\ f.error \in BOOLEAN
          /\ f.severity \in Severities /\ f.resource \in Spots
          /\ ~f.error /\ f.check \in CriticalChecks => f.severity = "critical"
    BY <1>1 DEF Described, Findings
  <1>3. QED
    BY <1>1, <1>2, ShapeKept, PersistedShape DEF IInv

LEMMA IngestKeeps ==
  ASSUME IInv, NEW severity \in {"critical", "unknown"},
         Ingest([failed : BOOLEAN, severity : {severity}])
  PROVE  IInv'
  <1> DEFINE results == [failed : BOOLEAN, severity : {severity}]
             found == parse_prowler_json(results)
  <1>1. rows' = Persisted(found) /\ UNCHANGED <<provider, cloud, fault, scanned>>
    BY DEF Ingest
  <1>2. ASSUME NEW f \in found
        PROVE  /\ f.check = "prowler_check" /\ f.error = FALSE
               /\ f.severity \in {"critical", "medium"}
               /\ f.resource \in {"critical", "unknown"}
    <2>1. PICK r \in results :
            f = Finding("prowler_check", IF r.severity = "unknown" THEN "medium"
                                         ELSE r.severity, "all", r.severity)
      BY DEF parse_prowler_json
    <2>2. r.severity = severity
      OBVIOUS
    <2>3. QED
      BY <2>1, <2>2 DEF Finding
  <1>3. \A f \in found :
          /\ f.check \in Mapped \cup {"prowler_check"} /\ f.error \in BOOLEAN
          /\ f.severity \in Severities /\ f.resource \in Spots
          /\ ~f.error /\ f.check \in CriticalChecks => f.severity = "critical"
    BY <1>2 DEF Severities, Spots, CriticalChecks
  <1> HIDE DEF found
  <1>4. QED
    BY <1>1, <1>3, ShapeKept, PersistedShape DEF IInv

LEMMA TriageKeeps ==
  ASSUME IInv, NEW r \in rows, NEW status \in Statuses, Triage(r, status)
  PROVE  IInv'
  <1> DEFINE new == [r EXCEPT !.status = status]
  <1>1. r \in RowSet
    BY DEF IInv, RowsShape
  <1>2. /\ new \in RowSet /\ new.error = r.error /\ new.check = r.check
        /\ new.severity = r.severity
    BY <1>1 DEF RowSet
  <1>3. rows' = (rows \ {r}) \cup {new}
    BY DEF Triage
  <1> HIDE DEF new
  <1>4. RowsShape'
    BY <1>2, <1>3 DEF IInv, RowsShape
  <1>5. QED
    BY <1>4, ShapeKept DEF IInv, Triage

LEMMA ChangeKeeps ==
  ASSUME IInv, NEW s \in Settings, NEW p \in PlacesOf(s), NEW v \in InRange(s),
         Change(s, p, v)
  PROVE  IInv'
  <1>1. /\ cloud' = [cloud EXCEPT ![s][p] = v]
        /\ UNCHANGED <<provider, fault, rows, scanned>>
    BY DEF Change
  <1>2. DOMAIN cloud' = DOMAIN cloud
    BY <1>1
  <1>3. ASSUME NEW q \in Settings
        PROVE  /\ DOMAIN cloud'[q] = PlacesOf(q)
               /\ \A x \in PlacesOf(q) : cloud'[q][x] \in InRange(q)
    BY <1>1 DEF IInv, Shape
  <1>4. Shape'
    BY <1>1, <1>2, <1>3 DEF IInv, Shape, Settings, Values, InRange, Calls
  <1>5. QED
    BY <1>1, <1>4 DEF IInv, RowsShape

LEMMA BreakKeeps ==
  ASSUME IInv, NEW call \in Calls, NEW kind \in Kinds,
         NEW p \in IF call \in AwsGlobalCalls THEN {"global"} ELSE Places,
         Break(call, p, kind)
  PROVE  IInv'
  <1>1. /\ fault' = [call |-> call, place |-> p, kind |-> kind]
        /\ UNCHANGED <<provider, cloud, rows, scanned>>
    BY DEF Break
  <1>2. p \in Places \cup {"global"}
    OBVIOUS
  <1>3. Shape'
    BY <1>1, <1>2 DEF IInv, Shape, Settings, Values, InRange, Calls
  <1>4. QED
    BY <1>1, <1>3 DEF IInv, RowsShape

LEMMA ScanKeeps ==
  ASSUME IInv, ScanFile
  PROVE  IInv'
  <1>1. UNCHANGED <<provider, cloud, fault, rows>>
    BY DEF ScanFile
  <1>2. scanned'.score \in 0..1000
    <2>1. CASE provider = "kubernetes"
      <3>1. scanned'.score = KubernetesScore
        BY <2>1 DEF ScanFile
      <3>2. TotalIssues \in Nat
        <4>1. run_all = audit_kubernetes_cluster
          BY <2>1 DEF run_all
        <4>2. Cardinality(audit_kubernetes_cluster) \in Nat
          BY <4>1, RunAllFinite, FS_CardinalityType DEF IInv
        <4>3. QED
          BY <4>2 DEF TotalIssues
      <3>3. QED
        BY <3>1, <3>2 DEF KubernetesScore
    <2>2. CASE provider # "kubernetes"
      BY <2>2 DEF ScanFile
    <2>3. QED
      BY <2>1, <2>2
  <1>3. QED
    BY <1>1, <1>2, ShapeKept DEF IInv, RowsShape

LEMMA StepKeeps == IInv /\ [Next]_vars => IInv'
  <1> SUFFICES ASSUME IInv, [Next]_vars PROVE IInv'
    OBVIOUS
  <1>1. CASE Repair
    BY <1>1 DEF Repair, IInv, Shape, RowsShape, Settings, Values, InRange, Calls
  <1>2. CASE UNCHANGED vars
    BY <1>2, ShapeKept DEF vars, IInv, RowsShape
  <1>3. QED
    BY <1>1, <1>2, AuditKeeps, IngestKeeps, TriageKeeps, ChangeKeeps, BreakKeeps,
       ScanKeeps
    DEF Next

\* The inductive invariant: every setting has one of its values in each of its
\* places, what fails is a call of the provider's auditor, and what is stored
\* has the severity of its check. (AWSAuditor, AzureAuditor, GCPAuditor,
\* _persist_findings, parse_prowler_json and update_finding.)
THEOREM PostureInvariant == Spec => []IInv
  <1>1. QED
    BY InitEstablishes, StepKeeps, PTL DEF Spec

\* Settings, faults, scores of clusters and stored rows keep their types.
THEOREM TypeCorrect == Spec => []TypeOK
  <1>1. IInv => TypeOK
    BY DEF IInv, Shape, RowsShape, RowSet, TypeOK
  <1>2. QED
    BY <1>1, PostureInvariant, PTL

\* Whatever the settings and the number of places, two resources that offend
\* against one check differ in dedup hash, but for the resources named in
\* part. (dedup_hash, _persist_findings and the names the checks give.)
THEOREM OffendersDistinguished == Spec => []OffendersKeptApart
  <1>1. IInv => OffendersKeptApart
    BY HashTellsPlace DEF IInv
  <1>2. QED
    BY <1>1, PostureInvariant, PTL

\* Scores and evidence count every open finding: rounding hides none, as no
\* framework has 2000 checks, and every check of an auditor is mapped.
\* (compute_scores, evidence_report and SEED_MAPPINGS.)
THEOREM FindingsPaidFor == Spec => []EveryFindingCounts
  <1>1. IInv => EveryFindingCounts
    BY FindingsCount DEF IInv
  <1>2. QED
    BY <1>1, PostureInvariant, PTL

\* While the gate is open, a critical finding of an audit that is stored was
\* triaged: the stored row has the severity of its check, whenever it was
\* stored. (evaluate_pipeline_gate, _persist_findings and dedup_hash.)
THEOREM CriticalsBlock == Spec => []CriticalBlocksBuild
  <1>1. IInv => CriticalBlocksBuild
    BY GateClosed DEF IInv
  <1>2. QED
    BY <1>1, PostureInvariant, PTL

----------------------------------------------------------------------------
(* Rows are only added, but for triage. *)

LEMMA MoreRowsWorse ==
  ASSUME RowsShape, RowsShape', rows \subseteq rows'
  PROVE  /\ \A fw \in FRAMEWORKS : Scores'[fw] <= Scores[fw]
         /\ evaluate_pipeline_gate(Open)' => evaluate_pipeline_gate(Open)
  <1>1. Open \subseteq Open'
    BY DEF Open
  <1>2. _failed_check_ids \subseteq _failed_check_ids'
    BY <1>1 DEF _failed_check_ids
  <1>3. ASSUME NEW fw \in FRAMEWORKS PROVE Scores'[fw] <= Scores[fw]
    BY <1>2, ScoreOf DEF Scores
  <1>4. ASSUME NEW severity, NEW n \in Nat,
               Cardinality({r \in Open' : r.severity = severity}) <= n
        PROVE  Cardinality({r \in Open : r.severity = severity}) <= n
    <2> DEFINE S == {r \in Open : r.severity = severity}
               T == {r \in Open' : r.severity = severity}
    <2>1. S \in SUBSET T /\ T \in SUBSET Open'
      BY <1>1
    <2>2. IsFiniteSet(Open')
      <3>1. Open' \in SUBSET RowSet
        BY DEF RowsShape, Open
      <3>2. QED
        BY <3>1, RowSetFinite, FS_Subset
    <2>3. IsFiniteSet(T)
      BY <2>1, <2>2, FS_Subset
    <2> HIDE DEF S, T
    <2>4. IsFiniteSet(S) /\ Cardinality(S) <= Cardinality(T)
      BY <2>1, <2>3, FS_Subset
    <2>5. Cardinality(S) \in Nat /\ Cardinality(T) \in Nat
      BY <2>3, <2>4, FS_CardinalityType
    <2>6. Cardinality(T) <= n
      BY <1>4 DEF T
    <2>7. Cardinality(S) <= n
      BY <2>4, <2>5, <2>6
    <2>8. QED
      BY <2>7 DEF S
  <1>5. ASSUME evaluate_pipeline_gate(Open)' PROVE evaluate_pipeline_gate(Open)
    <2>1. /\ Cardinality({r \in Open' : r.severity = "critical"}) <= 0
          /\ Cardinality({r \in Open' : r.severity = "high"}) <= 2
      BY <1>5 DEF evaluate_pipeline_gate
    <2>2. /\ Cardinality({r \in Open : r.severity = "critical"}) <= 0
          /\ Cardinality({r \in Open : r.severity = "high"}) <= 2
      BY <1>4, <2>1
    <2>3. QED
      BY <2>2 DEF evaluate_pipeline_gate
  <1>6. QED
    BY <1>3, <1>5

\* Only a reviewer's decision raises a score or opens the gate: not a check
\* that failed, was not run, or found less than before. (_persist_findings,
\* compute_scores, evaluate_pipeline_gate and update_finding.)
THEOREM OnlyTriageImproves == Spec => ImprovesOnlyByTriage
  <1>1. IInv /\ IInv' /\ [Next]_vars =>
          [rows' # rows =>
             \/ LET before == Scores
                    after  == Scores' IN
                /\ \A fw \in FRAMEWORKS : after[fw] <= before[fw]
                /\ evaluate_pipeline_gate(Open)' => evaluate_pipeline_gate(Open)
             \/ \E r \in rows, status \in Statuses : Triage(r, status)]_vars
    <2> SUFFICES ASSUME IInv, IInv', Next, rows' # rows,
                        ~\E r \in rows, status \in Statuses : Triage(r, status)
                 PROVE  /\ \A fw \in FRAMEWORKS : Scores'[fw] <= Scores[fw]
                        /\ evaluate_pipeline_gate(Open)' => evaluate_pipeline_gate(Open)
      OBVIOUS
    <2>1. rows \subseteq rows'
      BY DEF Next, Change, Break, Repair, Audit, ScanFile, Ingest, Persisted
    <2>2. QED
      BY <2>1, MoreRowsWorse DEF IInv
  <1>2. QED
    BY <1>1, PostureInvariant, PTL DEF Spec, ImprovesOnlyByTriage

----------------------------------------------------------------------------
(* What is found before and after a step, check by check. *)

\* What is found after is said before: as found, or by an error of the check.
Loud(after, before) ==
  \A f \in after :
    \/ f.check \in BestEffort
    \/ \E e \in before : e.check = f.check /\ (e.error \/ e.place = f.place)

\* What is found after was found before, in the same place.
Covered(after, before) ==
  \A f \in after : f.check # "IAC-005" =>
    \E e \in before : e.check = f.check /\ e.place = f.place

LEMMA UnionLoud ==
  ASSUME NEW S, NEW T, \A A \in S : \E B \in T : Loud(A, B)
  PROVE  Loud(UNION S, UNION T)
  BY DEF Loud

LEMMA UnionCovered ==
  ASSUME NEW S, NEW T, \A A \in S : \E B \in T : Covered(A, B)
  PROVE  Covered(UNION S, UNION T)
  BY DEF Covered

LEMMA AtParts ==
  ASSUME NEW check, NEW severity, NEW places
  PROVE  /\ \A f \in At(check, severity, places) :
              f.check = check /\ f.place \in places
         /\ \A p \in places : \E f \in At(check, severity, places) :
              f.check = check /\ f.place = p
  <1>1. \A p : /\ Finding(check, severity, p, p).check = check
               /\ Finding(check, severity, p, p).place = p
    BY DEF Finding
  <1>2. At(check, severity, places) = {Finding(check, severity, p, p) : p \in places}
    BY DEF At, Qualified
  <1>3. QED
    BY <1>1, <1>2

LEMMA AtFewer ==
  ASSUME NEW check, NEW severity, NEW other, NEW few, NEW many, few \subseteq many
  PROVE  /\ Loud(At(check, severity, few), At(check, other, many))
         /\ Covered(At(check, severity, few), At(check, other, many))
  BY AtParts DEF Loud, Covered

LEMMA FailedIsLoud ==
  ASSUME NEW check, NEW found, \A f \in found : f.check = check
  PROVE  Loud(found, Failed(check))
  BY DEF Loud, Failed

LEMMA AttemptLoud ==
  ASSUME NEW check, NEW raised, NEW found, NEW before, Loud(found, before),
         \A f \in found : f.check = check
  PROVE  Loud(Attempt(check, FALSE, found), Attempt(check, raised, before))
  BY FailedIsLoud DEF Attempt

LEMMA SameLoud ==
  ASSUME NEW check, NEW severity, NEW raised, NEW places
  PROVE  Loud(Attempt(check, FALSE, At(check, severity, places)),
              Attempt(check, raised, At(check, severity, places)))
  <1> DEFINE found == At(check, severity, places)
  <1>1. Loud(found, found)
    BY AtFewer
  <1>2. \A f \in found : f.check = check
    BY AtParts
  <1> HIDE DEF found
  <1>3. QED
    BY <1>1, <1>2, AttemptLoud DEF found

LEMMA AttemptCovered ==
  ASSUME NEW check, NEW raises, NEW found, NEW before, Covered(found, before)
  PROVE  Covered(Attempt(check, raises, found), Attempt(check, raises, before))
  <1>1. Covered(Failed(check), Failed(check))
    BY DEF Covered
  <1>2. QED
    BY <1>1 DEF Attempt

\* The two AWS checks that look at ages and ports, by the values they report.
StaleKeysOnlyCheck ==
  Check("aws_iam_access_key_age", "medium", {"ListUsers", "ListAccessKeys"},
        "access_key", {[active |-> TRUE, age |-> 91]})

OpenPortsOnlyCheck ==
  Check("aws_sg_open_ssh_rdp", "high", {"DescribeSecurityGroups"}, "ingress",
        {Perm(22, 22, TRUE), Perm(20, 3389, TRUE)})

LEMMA AwsEntries ==
  /\ AwsValues["access_key"] =
       <<[active |-> FALSE, age |-> 91], [active |-> TRUE, age |-> 90],
         [active |-> TRUE, age |-> 91], [active |-> TRUE, age |-> NoDate]>>
  /\ AwsValues["ingress"] =
       <<[from |-> 22, to |-> 22, world |-> FALSE],
         [from |-> 23, to |-> 3388, world |-> TRUE],
         [from |-> 22, to |-> 22, world |-> TRUE],
         [from |-> 20, to |-> 3389, world |-> TRUE],
         [from |-> 0, to |-> 0, world |-> TRUE]>>
  BY Zenon DEF AwsValues, Perm, AllTraffic

LEMMA IngressValues ==
  ASSUME NEW v \in {AwsValues["ingress"][i] : i \in 1..Len(AwsValues["ingress"])}
  PROVE  v \in {[from |-> 22, to |-> 22, world |-> FALSE],
                [from |-> 23, to |-> 3388, world |-> TRUE],
                [from |-> 22, to |-> 22, world |-> TRUE],
                [from |-> 20, to |-> 3389, world |-> TRUE],
                [from |-> 0, to |-> 0, world |-> TRUE]}
  BY AwsEntries

LEMMA StaleKeysOnly ==
  Shape /\ provider = "aws" => check_iam_access_key_age = StaleKeysOnlyCheck
  <1> SUFFICES ASSUME Shape, provider = "aws"
               PROVE  check_iam_access_key_age = StaleKeysOnlyCheck
    OBVIOUS
  <1> DEFINE unsafe == {key \in Seen("access_key") : key.active /\ key.age > 90}
             stale  == {[active |-> TRUE, age |-> 91]}
  <1>1. ASSUME NEW p \in DOMAIN cloud["access_key"]
        PROVE  cloud["access_key"][p] \in unsafe <=> cloud["access_key"][p] \in stale
    <2> DEFINE key == cloud["access_key"][p]
    <2>1. key \in {AwsValues["access_key"][i] : i \in 1..Len(AwsValues["access_key"])}
      BY <1>1, ValuesAre, AwsSettings DEF Shape, Settings, InRange
    <2>2. key \in {[active |-> FALSE, age |-> 91], [active |-> TRUE, age |-> 90],
                   [active |-> TRUE, age |-> 91], [active |-> TRUE, age |-> NoDate]}
      BY <2>1, AwsEntries
    <2>3. key \in Seen("access_key")
      BY DEF Seen
    <2>4. key \in unsafe <=> key.active /\ key.age > 90
      BY <2>3
    <2> HIDE DEF key, unsafe
    <2>5. key.active /\ key.age > 90 <=> key \in stale
      BY <2>2 DEF NoDate
    <2>6. QED
      BY <2>4, <2>5 DEF key
  <1> HIDE DEF unsafe, stale
  <1>2. Offenders("access_key", unsafe) = Offenders("access_key", stale)
    BY <1>1 DEF Offenders
  <1>3. QED
    BY <1>2 DEF check_iam_access_key_age, StaleKeysOnlyCheck, Check, unsafe, stale

LEMMA OpenPortsOnly ==
  Shape /\ provider = "aws"
    => check_security_groups_open_ssh_rdp = OpenPortsOnlyCheck
  <1> SUFFICES ASSUME Shape, provider = "aws"
               PROVE  check_security_groups_open_ssh_rdp = OpenPortsOnlyCheck
    OBVIOUS
  <1> DEFINE unsafe ==
        {perm \in Seen("ingress") :
           perm.world /\ \E port \in {22, 3389} : perm.from <= port /\ port <= perm.to}
             open == {Perm(22, 22, TRUE), Perm(20, 3389, TRUE)}
  <1>1. ASSUME NEW p \in DOMAIN cloud["ingress"]
        PROVE  cloud["ingress"][p] \in unsafe <=> cloud["ingress"][p] \in open
    <2> DEFINE perm == cloud["ingress"][p]
               bad  == perm.world /\ \E port \in {22, 3389} :
                                        perm.from <= port /\ port <= perm.to
    <2>1. perm \in {AwsValues["ingress"][i] : i \in 1..Len(AwsValues["ingress"])}
      BY <1>1, ValuesAre, AwsSettings DEF Shape, Settings, InRange
    <2>2. perm \in {[from |-> 22, to |-> 22, world |-> FALSE],
                    [from |-> 23, to |-> 3388, world |-> TRUE],
                    [from |-> 22, to |-> 22, world |-> TRUE],
                    [from |-> 20, to |-> 3389, world |-> TRUE],
                    [from |-> 0, to |-> 0, world |-> TRUE]}
      BY <2>1, IngressValues
    <2>3. perm \in Seen("ingress")
      BY DEF Seen
    <2>4. perm \in unsafe <=> bad
      BY <2>3
    <2>5. bad <=> perm \in open
      <3> HIDE DEF perm
      <3>1. QED
        BY <2>2 DEF Perm
    <2> HIDE DEF perm, bad, unsafe, open
    <2>6. perm \in unsafe <=> perm \in open
      BY <2>4, <2>5
    <2>7. QED
      BY <2>6 DEF perm
  <1> HIDE DEF unsafe, open
  <1>2. Offenders("ingress", unsafe) = Offenders("ingress", open)
    BY <1>1 DEF Offenders
  <1>3. QED
    BY <1>2 DEF check_security_groups_open_ssh_rdp, OpenPortsOnlyCheck, Check,
                unsafe, open

----------------------------------------------------------------------------
(* Repairs. *)

Repaired == cloud' = cloud /\ fault' = NoFault

LEMMA NothingFails ==
  ASSUME Repaired
  PROVE  /\ \A calls : Fails(calls)' = FALSE /\ TimesOut(calls)' = FALSE
         /\ \A call : FailsIn(call)' = {}
         /\ \A s : \A unsafe : Offenders(s, unsafe)' = Offenders(s, unsafe)
         /\ \A s : Seen(s)' = Seen(s)
  BY DEF Repaired, Fails, TimesOut, FailsIn, Offenders, Seen

LEMMA CheckLoud ==
  ASSUME Repaired, NEW check, NEW severity, NEW calls, NEW s, NEW unsafe
  PROVE  Loud(Check(check, severity, calls, s, unsafe)',
              Check(check, severity, calls, s, unsafe))
  <1> DEFINE found == At(check, severity, Offenders(s, unsafe))
  <1>1. Check(check, severity, calls, s, unsafe)' = Attempt(check, FALSE, found)
    BY NothingFails DEF Check
  <1>2. QED
    BY <1>1, SameLoud DEF Check

LEMMA CheckByNameLoud ==
  ASSUME Repaired, NEW check, NEW severity, NEW calls, NEW s, NEW unsafe
  PROVE  Loud(CheckByName(check, severity, calls, s, unsafe)',
              CheckByName(check, severity, calls, s, unsafe))
  <1> DEFINE found == {Finding(check, severity, p, Bare(p)) :
                         p \in Offenders(s, unsafe)}
  <1>1. CheckByName(check, severity, calls, s, unsafe)'
          = Attempt(check, FALSE, found)
    BY NothingFails DEF CheckByName
  <1>2. Loud(found, found) /\ \A f \in found : f.check = check
    BY DEF Loud, Finding
  <1>3. QED
    BY <1>1, <1>2, AttemptLoud DEF CheckByName

LEMMA BucketLoud ==
  ASSUME Repaired, NEW check, NEW severity, NEW call, NEW raised, NEW s, NEW unsafe
  PROVE  Loud(BucketCheck(check, severity, call, FALSE, s, unsafe)',
              BucketCheck(check, severity, call, raised, s, unsafe))
  <1> DEFINE found == At(check, severity, Offenders(s, unsafe))
             before == At(check, severity, Offenders(s, unsafe) \cup FailsIn(call))
  <1>1. BucketCheck(check, severity, call, FALSE, s, unsafe)'
          = Attempt(check, FALSE, found)
    BY NothingFails DEF BucketCheck
  <1>2. Loud(found, before) /\ \A f \in found : f.check = check
    BY AtFewer, AtParts
  <1>3. QED
    BY <1>1, <1>2, AttemptLoud DEF BucketCheck

LEMMA PasswordLoud ==
  ASSUME Repaired, Shape, provider = "aws"
  PROVE  Loud(check_iam_password_policy', check_iam_password_policy)
  <1> DEFINE id    == "aws_iam_password_policy"
             call  == {"GetAccountPasswordPolicy"}
             open  == Offenders("password_length", {NoPolicy}) # {}
             short == Offenders("password_length", 0..13)
             none  == At(id, "high", {"global"})
             weak  == At(id, "medium", short)
             found == IF open THEN none ELSE weak
             before == IF Fails(call) \/ open THEN none ELSE weak
  <1>1. short \subseteq {"global"}
    BY ValuesAre, AwsSettings DEF Shape, Offenders, Settings, PlacesOf, AwsGlobal
  <1>2. /\ Loud(none, none) /\ Loud(weak, weak) /\ Loud(weak, none)
        /\ \A f \in none \cup weak : f.check = id
    BY <1>1, AtFewer, AtParts
  <1>3. check_iam_password_policy' = Attempt(id, FALSE, found)
    BY NothingFails DEF check_iam_password_policy
  <1>4. check_iam_password_policy = Attempt(id, TimesOut(call), before)
    BY DEF check_iam_password_policy
  <1> HIDE DEF none, weak
  <1>5. Loud(found, before) /\ \A f \in found : f.check = id
    BY <1>2
  <1> HIDE DEF found, before
  <1>6. QED
    BY <1>3, <1>4, <1>5, AttemptLoud

LEMMA AwsLoud ==
  ASSUME Repaired, UNCHANGED provider, Shape, Shape', provider = "aws"
  PROVE  Loud(aws_run_all', aws_run_all)
  <1>1. Loud(check_iam_root_mfa', check_iam_root_mfa)
    BY CheckLoud DEF check_iam_root_mfa
  <1>2. Loud(check_iam_password_policy', check_iam_password_policy)
    BY PasswordLoud
  <1>3. Loud(check_iam_access_key_age', check_iam_access_key_age)
    <2>1. (Shape /\ provider = "aws" => check_iam_access_key_age = StaleKeysOnlyCheck)'
      BY StaleKeysOnly, PTL
    <2>2. QED
      BY <2>1, StaleKeysOnly, CheckLoud DEF StaleKeysOnlyCheck
  <1>4. Loud(check_iam_wildcard_policies', check_iam_wildcard_policies)
    BY CheckLoud DEF check_iam_wildcard_policies
  <1>5. Loud(check_iam_user_mfa', check_iam_user_mfa)
    BY CheckLoud DEF check_iam_user_mfa
  <1>6. Loud(check_s3_public_access', check_s3_public_access)
    BY BucketLoud, NothingFails DEF check_s3_public_access
  <1>7. Loud(check_s3_encryption', check_s3_encryption)
    BY BucketLoud, NothingFails DEF check_s3_encryption
  <1>8. Loud(check_s3_versioning', check_s3_versioning)
    BY BucketLoud, NothingFails DEF check_s3_versioning
  <1>9. Loud(check_s3_access_logging', check_s3_access_logging)
    BY BucketLoud, NothingFails DEF check_s3_access_logging
  <1>10. Loud(check_security_groups_open_ssh_rdp', check_security_groups_open_ssh_rdp)
    <2>1. (Shape /\ provider = "aws" => check_security_groups_open_ssh_rdp = OpenPortsOnlyCheck)'
      BY OpenPortsOnly, PTL
    <2>2. QED
      BY <2>1, OpenPortsOnly, CheckLoud DEF OpenPortsOnlyCheck
  <1>11. Loud(check_ec2_imdsv2', check_ec2_imdsv2)
    BY CheckLoud DEF check_ec2_imdsv2
  <1>12. Loud(check_rds_public_access', check_rds_public_access)
    BY CheckLoud DEF check_rds_public_access
  <1>13. Loud(check_rds_encryption', check_rds_encryption)
    BY CheckLoud DEF check_rds_encryption
  <1>14. Loud(check_rds_backup_retention', check_rds_backup_retention)
    BY CheckLoud DEF check_rds_backup_retention
  <1>15. Loud(check_rds_deletion_protection', check_rds_deletion_protection)
    BY CheckLoud DEF check_rds_deletion_protection
  <1>16. Loud(check_cloudtrail_enabled', check_cloudtrail_enabled)
    BY CheckLoud DEF check_cloudtrail_enabled
  <1>17. Loud(check_cloudtrail_log_validation', check_cloudtrail_log_validation)
    <2> DEFINE unsafe ==
          IF Offenders("trail", {"none"}) = {} THEN {FALSE} ELSE {}
    <2>1. Offenders("trail_validated", unsafe)' = Offenders("trail_validated", unsafe)
      BY DEF Repaired, Offenders, Seen
    <2> HIDE DEF unsafe
    <2>2. QED
      BY <2>1, NothingFails, SameLoud DEF check_cloudtrail_log_validation, Check, unsafe
  <1>18. Loud(check_guardduty_enabled', check_guardduty_enabled)
    BY CheckLoud DEF check_guardduty_enabled
  <1>19. Loud(check_ebs_volume_encryption', check_ebs_volume_encryption)
    BY CheckLoud DEF check_ebs_volume_encryption
  <1>20. Loud(check_kms_key_rotation', check_kms_key_rotation)
    BY AtParts DEF check_kms_key_rotation, Attempt, Failed, Loud, BestEffort
  <1>21. Loud(check_ebs_encryption_by_default', check_ebs_encryption_by_default)
    BY AtParts DEF check_ebs_encryption_by_default, Loud, BestEffort
  <1>22. Loud(check_vpc_flow_logs', check_vpc_flow_logs)
    BY AtParts DEF check_vpc_flow_logs, Loud, BestEffort
  <1>23. Loud(check_secretsmanager_rotation', check_secretsmanager_rotation)
    BY AtParts DEF check_secretsmanager_rotation, Loud, BestEffort
  <1>24. \A A \in
    {check_iam_root_mfa', check_iam_password_policy',
     check_iam_access_key_age', check_iam_wildcard_policies',
     check_iam_user_mfa', check_s3_public_access', check_s3_encryption',
     check_s3_versioning', check_s3_access_logging',
     check_security_groups_open_ssh_rdp', check_ec2_imdsv2',
     check_rds_public_access', check_rds_encryption',
     check_rds_backup_retention', check_rds_deletion_protection',
     check_cloudtrail_enabled', check_cloudtrail_log_validation',
     check_guardduty_enabled', check_ebs_volume_encryption',
     check_kms_key_rotation', check_ebs_encryption_by_default',
     check_vpc_flow_logs', check_secretsmanager_rotation'} :
          \E B \in
    {check_iam_root_mfa, check_iam_password_policy,
     check_iam_access_key_age, check_iam_wildcard_policies,
     check_iam_user_mfa, check_s3_public_access, check_s3_encryption,
     check_s3_versioning, check_s3_access_logging,
     check_security_groups_open_ssh_rdp, check_ec2_imdsv2,
     check_rds_public_access, check_rds_encryption,
     check_rds_backup_retention, check_rds_deletion_protection,
     check_cloudtrail_enabled, check_cloudtrail_log_validation,
     check_guardduty_enabled, check_ebs_volume_encryption,
     check_kms_key_rotation, check_ebs_encryption_by_default,
     check_vpc_flow_logs, check_secretsmanager_rotation} :
            Loud(A, B)
    BY <1>1, <1>2, <1>3, <1>4, <1>5, <1>6, <1>7, <1>8, <1>9, <1>10, <1>11,
       <1>12, <1>13, <1>14, <1>15, <1>16, <1>17, <1>18, <1>19, <1>20,
       <1>21, <1>22, <1>23
  <1>25. QED
    BY <1>24, UnionLoud DEF aws_run_all

LEMMA AzureLoud ==
  ASSUME Repaired
  PROVE  Loud(azure_run_all', azure_run_all)
  <1>1. Loud(check_storage_https_only', check_storage_https_only)
    BY CheckLoud DEF check_storage_https_only
  <1>2. Loud(check_storage_public_blob', check_storage_public_blob)
    BY CheckLoud DEF check_storage_public_blob
  <1>3. Loud(check_storage_min_tls', check_storage_min_tls)
    BY CheckLoud DEF check_storage_min_tls
  <1>4. Loud(check_nsg_open_management', check_nsg_open_management)
    BY CheckByNameLoud DEF check_nsg_open_management
  <1>5. Loud(check_sql_auditing', check_sql_auditing)
    BY CheckLoud DEF check_sql_auditing
  <1>6. Loud(check_vm_disk_encryption', check_vm_disk_encryption)
    BY CheckByNameLoud DEF check_vm_disk_encryption
  <1>7. Loud(check_keyvault_soft_delete', check_keyvault_soft_delete)
    BY CheckLoud DEF check_keyvault_soft_delete
  <1>8. \A A \in
    {check_storage_https_only', check_storage_public_blob',
     check_storage_min_tls', check_nsg_open_management',
     check_sql_auditing', check_vm_disk_encryption',
     check_keyvault_soft_delete'} :
          \E B \in
    {check_storage_https_only, check_storage_public_blob,
     check_storage_min_tls, check_nsg_open_management, check_sql_auditing,
     check_vm_disk_encryption, check_keyvault_soft_delete} :
            Loud(A, B)
    BY <1>1, <1>2, <1>3, <1>4, <1>5, <1>6, <1>7
  <1>9. QED
    BY <1>8, UnionLoud DEF azure_run_all

LEMMA GcpLoud ==
  ASSUME Repaired
  PROVE  Loud(gcp_run_all', gcp_run_all)
  <1>1. Loud(check_bucket_public_access', check_bucket_public_access)
    BY CheckLoud DEF check_bucket_public_access
  <1>2. Loud(check_bucket_uniform_access', check_bucket_uniform_access)
    BY CheckLoud DEF check_bucket_uniform_access
  <1>3. Loud(check_firewall_open_ingress', check_firewall_open_ingress)
    BY CheckLoud DEF check_firewall_open_ingress
  <1>4. Loud(check_instance_public_ip', check_instance_public_ip)
    BY CheckByNameLoud DEF check_instance_public_ip
  <1>5. Loud(check_sa_key_rotation', check_sa_key_rotation)
    BY CheckLoud DEF check_sa_key_rotation
  <1>6. Loud(check_sql_public_ip', check_sql_public_ip)
    BY CheckLoud DEF check_sql_public_ip
  <1>7. Loud(check_audit_logging', check_audit_logging)
    BY CheckLoud DEF check_audit_logging
  <1>8. \A A \in
    {check_bucket_public_access', check_bucket_uniform_access',
     check_firewall_open_ingress', check_instance_public_ip',
     check_sa_key_rotation', check_sql_public_ip', check_audit_logging'} :
          \E B \in
    {check_bucket_public_access, check_bucket_uniform_access,
     check_firewall_open_ingress, check_instance_public_ip,
     check_sa_key_rotation, check_sql_public_ip, check_audit_logging} :
            Loud(A, B)
    BY <1>1, <1>2, <1>3, <1>4, <1>5, <1>6, <1>7
  <1>9. QED
    BY <1>8, UnionLoud DEF gcp_run_all

LEMMA CloudsDescribed ==
  Shape /\ provider \in Clouds => Described(run_all, Mapped)
  BY RunAllDescribed

\* A check that reports something once the fault is repaired reported it
\* before, or reported an error, or is one of the four that pass over what they
\* cannot read: for every setting, every call and every place of a fault.
\* (run_all and the checks of the three auditors.)
THEOREM FaultsTold == Spec => FaultsAreLoud
  <1>1. ASSUME IInv, Repair
        PROVE  \A f \in run_all' :
                 \/ <<f.check, f.place>> \in Offences(run_all)
                 \/ \E e \in run_all : e.error /\ e.check = f.check
                 \/ f.check \in BestEffort
    <2>1. Repaired /\ UNCHANGED provider /\ Shape /\ Shape'
      BY <1>1, ShapeKept, StepKeeps DEF Repair, Repaired, IInv, Next
    <2>2. provider \in Clouds
      BY <1>1 DEF IInv, Shape, Repair, Calls, Clouds
    <2>3. Loud(run_all', run_all)
      BY <2>1, <2>2, AwsLoud, AzureLoud, GcpLoud DEF run_all, Clouds
    <2>4. \A f \in run_all' : f.check # "IAC-005"
      <3>1. (Shape /\ provider \in Clouds => Described(run_all, Mapped))'
        BY CloudsDescribed, PTL
      <3>2. Described(run_all', Mapped)
        BY <2>1, <2>2, <3>1
      <3>3. "IAC-005" \notin Mapped
        BY DEF Mapped, AwsMapped, GcpMapped, AzureMapped
      <3>4. QED
        BY <3>2, <3>3 DEF Described, Findings
    <2>5. QED
      BY <2>3, <2>4 DEF Loud, Offences
  <1>2. IInv /\ [Next]_vars =>
          [Repair => \A f \in run_all' :
             \/ <<f.check, f.place>> \in Offences(run_all)
             \/ \E e \in run_all : e.error /\ e.check = f.check
             \/ f.check \in BestEffort]_vars
    BY <1>1
  <1>3. QED
    BY <1>2, PostureInvariant, PTL DEF Spec, FaultsAreLoud

----------------------------------------------------------------------------
(* Settings made safer. *)

\* Of a setting's values, in order, all but the misjudged ones are unsafe from
\* the first one on that is.
Upward(s, unsafe) ==
  \A i, j \in 1..Len(Values[s]) :
    i < j /\ Values[s][i] \in unsafe =>
      Values[s][j] \in unsafe \/ Misjudged(s, Values[s][j])

Eased == Shape /\ Shape' /\ UNCHANGED <<provider, fault>> /\ Hardened

LEMMA Ranked ==
  ASSUME NEW s, NEW v \in InRange(s)
  PROVE  Rank(s, v) \in 1..Len(Values[s]) /\ Values[s][Rank(s, v)] = v
  BY DEF Rank, InRange

LEMMA EasedOffenders ==
  ASSUME Eased, NEW s \in Settings, NEW unsafe, Upward(s, unsafe)
  PROVE  Offenders(s, unsafe)' \subseteq Offenders(s, unsafe)
  <1> SUFFICES ASSUME NEW p \in DOMAIN cloud'[s], cloud'[s][p] \in unsafe
               PROVE  p \in DOMAIN cloud[s] /\ cloud[s][p] \in unsafe
    BY DEF Offenders
  <1>1. s \in Settings' /\ InRange(s)' = InRange(s)
    BY DEF Eased, Settings, Values, InRange
  <1>2. DOMAIN cloud[s] = PlacesOf(s) /\ DOMAIN cloud'[s] = PlacesOf(s)
    BY <1>1 DEF Eased, Shape
  <1>3. cloud[s][p] \in InRange(s) /\ cloud'[s][p] \in InRange(s)
    BY <1>1, <1>2 DEF Eased, Shape
  <1>4. CASE cloud'[s][p] = cloud[s][p]
    BY <1>2, <1>4
  <1>5. CASE cloud'[s][p] # cloud[s][p]
    <2>1. /\ Rank(s, cloud'[s][p]) < Rank(s, cloud[s][p])
          /\ ~Misjudged(s, cloud[s][p])
      BY <1>2, <1>5 DEF Eased, Hardened
    <2>2. /\ Rank(s, cloud[s][p]) \in 1..Len(Values[s])
          /\ Rank(s, cloud'[s][p]) \in 1..Len(Values[s])
          /\ Values[s][Rank(s, cloud[s][p])] = cloud[s][p]
          /\ Values[s][Rank(s, cloud'[s][p])] = cloud'[s][p]
      BY <1>3, Ranked
    <2>3. QED
      BY <1>2, <2>1, <2>2 DEF Upward
  <1>6. QED
    BY <1>4, <1>5

LEMMA EasedFaults ==
  ASSUME Eased
  PROVE  /\ \A calls : Fails(calls)' = Fails(calls) /\ TimesOut(calls)' = TimesOut(calls)
         /\ \A call : FailsIn(call)' = FailsIn(call)
  BY DEF Eased, Fails, TimesOut, FailsIn

LEMMA CheckCovered ==
  ASSUME Eased, NEW check, NEW severity, NEW calls, NEW s \in Settings, NEW unsafe,
         Upward(s, unsafe)
  PROVE  Covered(Check(check, severity, calls, s, unsafe)',
                 Check(check, severity, calls, s, unsafe))
  <1>1. Covered(At(check, severity, Offenders(s, unsafe)'),
                At(check, severity, Offenders(s, unsafe)))
    BY EasedOffenders, AtFewer
  <1>2. Check(check, severity, calls, s, unsafe)' =
          Attempt(check, Fails(calls), At(check, severity, Offenders(s, unsafe)'))
    BY EasedFaults DEF Check
  <1>3. QED
    BY <1>1, <1>2, AttemptCovered DEF Check

LEMMA CheckByNameCovered ==
  ASSUME Eased, NEW check, NEW severity, NEW calls, NEW s \in Settings, NEW unsafe,
         Upward(s, unsafe)
  PROVE  Covered(CheckByName(check, severity, calls, s, unsafe)',
                 CheckByName(check, severity, calls, s, unsafe))
  <1> DEFINE Named(places) == {Finding(check, severity, p, Bare(p)) : p \in places}
  <1>1. \A p : /\ Finding(check, severity, p, Bare(p)).check = check
               /\ Finding(check, severity, p, Bare(p)).place = p
    BY DEF Finding
  <1>2. Covered(Named(Offenders(s, unsafe)'), Named(Offenders(s, unsafe)))
    BY <1>1, EasedOffenders DEF Covered
  <1>3. CheckByName(check, severity, calls, s, unsafe)' =
          Attempt(check, Fails(calls), Named(Offenders(s, unsafe)'))
    BY EasedFaults DEF CheckByName
  <1>4. QED
    BY <1>2, <1>3, AttemptCovered DEF CheckByName

LEMMA BucketCovered ==
  ASSUME Eased, NEW check, NEW severity, NEW call, NEW raises, NEW s \in Settings,
         NEW unsafe, Upward(s, unsafe)
  PROVE  Covered(BucketCheck(check, severity, call, raises, s, unsafe)',
                 BucketCheck(check, severity, call, raises, s, unsafe))
  <1> DEFINE raised == Fails({"ListBuckets"}) \/ raises
  <1>1. Offenders(s, unsafe)' \cup FailsIn(call) \subseteq Offenders(s, unsafe) \cup FailsIn(call)
    BY EasedOffenders
  <1>2. Covered(At(check, severity, Offenders(s, unsafe)' \cup FailsIn(call)),
                At(check, severity, Offenders(s, unsafe) \cup FailsIn(call)))
    BY <1>1, AtFewer
  <1>3. BucketCheck(check, severity, call, raises, s, unsafe)' =
          Attempt(check, raised, At(check, severity, Offenders(s, unsafe)' \cup FailsIn(call)))
    BY EasedFaults DEF BucketCheck
  <1>4. BucketCheck(check, severity, call, raises, s, unsafe) =
          Attempt(check, raised, At(check, severity, Offenders(s, unsafe) \cup FailsIn(call)))
    BY DEF BucketCheck
  <1> HIDE DEF raised
  <1>5. QED
    BY <1>2, <1>3, <1>4, AttemptCovered

\* A resource that cannot be read is passed over.
LEMMA PassedCovered ==
  ASSUME Eased, NEW check, NEW severity, NEW s \in Settings, NEW unsafe, NEW passed,
         Upward(s, unsafe)
  PROVE  Covered(At(check, severity, Offenders(s, unsafe)' \ passed),
                 At(check, severity, Offenders(s, unsafe) \ passed))
  <1>1. Offenders(s, unsafe)' \ passed \subseteq Offenders(s, unsafe) \ passed
    BY EasedOffenders
  <1>2. QED
    BY <1>1, AtFewer

----------------------------------------------------------------------------
LEMMA TwoUpward ==
  ASSUME NEW s, NEW a, NEW b, NEW unsafe, Values[s] = <<a, b>>, b \in unsafe
  PROVE  Upward(s, unsafe)
  <1> SUFFICES ASSUME NEW i \in 1..2, NEW j \in 1..2, i < j
               PROVE  Values[s][j] \in unsafe
    BY DEF Upward
  <1>1. j = 2
    OBVIOUS
  <1>2. QED
    BY <1>1

LEMMA ThreeUpward ==
  ASSUME NEW s, NEW a, NEW b, NEW c, NEW unsafe, Values[s] = <<a, b, c>>,
         a \notin unsafe, c \in unsafe \/ Misjudged(s, c)
  PROVE  Upward(s, unsafe)
  <1> SUFFICES ASSUME NEW i \in 1..3, NEW j \in 1..3, i < j, Values[s][i] \in unsafe
               PROVE  Values[s][j] \in unsafe \/ Misjudged(s, Values[s][j])
    BY DEF Upward
  <1>1. i = 2 /\ j = 3
    BY SMT
  <1>2. QED
    BY <1>1

LEMMA PairRanked ==
  ASSUME NEW s, NEW a, NEW b, Values[s] = <<a, b>>, a # b
  PROVE  /\ InRange(s) = {a, b}
         /\ \A v, w \in InRange(s) : Rank(s, v) < Rank(s, w) => w = b
  <1>1. InRange(s) = {a, b}
    BY DEF InRange
  <1>2. \A v \in InRange(s) : Rank(s, v) \in 1..2 /\ Values[s][Rank(s, v)] = v
    BY Ranked
  <1>3. QED
    BY <1>1, <1>2

LEMMA AwsPairs ==
  /\ AwsValues["root_mfa"] = <<TRUE, FALSE>>
  /\ AwsValues["user_admin"] = <<FALSE, TRUE>>
  /\ AwsValues["user_mfa"] = <<TRUE, FALSE>>
  /\ AwsValues["bucket_crypt"] = <<TRUE, FALSE>>
  /\ AwsValues["bucket_versions"] = <<"Enabled", "Suspended">>
  /\ AwsValues["bucket_logging"] = <<TRUE, FALSE>>
  /\ AwsValues["trail_validated"] = <<TRUE, FALSE>>
  /\ AwsValues["imds"] = <<"required", "optional">>
  /\ AwsValues["db_public"] = <<FALSE, TRUE>>
  /\ AwsValues["db_encrypted"] = <<TRUE, FALSE>>
  /\ AwsValues["db_backup_days"] = <<7, 6>>
  /\ AwsValues["db_protected"] = <<TRUE, FALSE>>
  /\ AwsValues["key_rotates"] = <<TRUE, FALSE>>
  /\ AwsValues["detector"] = <<TRUE, FALSE>>
  /\ AwsValues["ebs_default"] = <<TRUE, FALSE>>
  /\ AwsValues["volume_crypt"] = <<TRUE, FALSE>>
  /\ AwsValues["vpc_flow_log"] = <<TRUE, FALSE>>
  /\ AwsValues["secret_rotates"] = <<TRUE, FALSE>>
  <1>1. /\ AwsValues["root_mfa"] = <<TRUE, FALSE>>
        /\ AwsValues["user_admin"] = <<FALSE, TRUE>>
        /\ AwsValues["user_mfa"] = <<TRUE, FALSE>>
    BY ZenonT(40) DEF AwsValues
  <1>2. /\ AwsValues["bucket_crypt"] = <<TRUE, FALSE>>
        /\ AwsValues["bucket_versions"] = <<"Enabled", "Suspended">>
        /\ AwsValues["bucket_logging"] = <<TRUE, FALSE>>
    BY ZenonT(40) DEF AwsValues
  <1>3. /\ AwsValues["trail_validated"] = <<TRUE, FALSE>>
        /\ AwsValues["imds"] = <<"required", "optional">>
        /\ AwsValues["db_public"] = <<FALSE, TRUE>>
    BY ZenonT(40) DEF AwsValues
  <1>4. /\ AwsValues["db_encrypted"] = <<TRUE, FALSE>>
        /\ AwsValues["db_backup_days"] = <<7, 6>>
        /\ AwsValues["db_protected"] = <<TRUE, FALSE>>
    BY ZenonT(40) DEF AwsValues
  <1>5. /\ AwsValues["key_rotates"] = <<TRUE, FALSE>>
        /\ AwsValues["detector"] = <<TRUE, FALSE>>
        /\ AwsValues["ebs_default"] = <<TRUE, FALSE>>
    BY ZenonT(40) DEF AwsValues
  <1>6. /\ AwsValues["volume_crypt"] = <<TRUE, FALSE>>
        /\ AwsValues["vpc_flow_log"] = <<TRUE, FALSE>>
        /\ AwsValues["secret_rotates"] = <<TRUE, FALSE>>
    BY ZenonT(40) DEF AwsValues
  <1>7. QED
    BY <1>1, <1>2, <1>3, <1>4, <1>5, <1>6

LEMMA AwsTriples ==
  /\ AwsValues["bucket_block"] = <<"all", "some", "none">>
  /\ AwsValues["trail"] = <<"multi", "single", "none">>
  /\ AwsValues["password_length"] = <<14, 13, NoPolicy>>
  BY ZenonT(40) DEF AwsValues

LEMMA AwsUpward ==
  ASSUME provider = "aws"
  PROVE  /\ \A s \in {"root_mfa", "user_mfa", "bucket_crypt", "bucket_logging",
                      "trail_validated", "db_encrypted", "db_protected",
                      "key_rotates", "detector", "ebs_default", "volume_crypt",
                      "vpc_flow_log", "secret_rotates"} : Upward(s, {FALSE})
         /\ \A s \in {"user_admin", "db_public"} : Upward(s, {TRUE})
         /\ Upward("bucket_versions", {"Suspended"})
         /\ Upward("imds", {"optional"})
         /\ Upward("db_backup_days", 0..6)
         /\ Upward("bucket_block", {"some", "none"})
         /\ Upward("trail", {"single", "none"}) /\ Upward("trail", {"none"})
         /\ Upward("password_length", -1..13) /\ Upward("password_length", {NoPolicy})
         /\ Upward("access_key", {[active |-> TRUE, age |-> 91]})
         /\ Upward("ingress", {Perm(22, 22, TRUE), Perm(20, 3389, TRUE)})
  <1>0. Values = AwsValues
    BY ValuesAre
  <1>1. FALSE \in {FALSE} /\ TRUE \in {TRUE}
    OBVIOUS
  <1>2. ASSUME NEW s \in {"root_mfa", "user_mfa", "bucket_crypt", "bucket_logging",
                      "trail_validated", "db_encrypted", "db_protected",
                      "key_rotates", "detector", "ebs_default", "volume_crypt",
                      "vpc_flow_log", "secret_rotates"}
        PROVE  Upward(s, {FALSE})
    <2>1. Values[s] = <<TRUE, FALSE>>
      BY <1>0, AwsPairs, Zenon
    <2>2. QED
      BY <1>1, <2>1, TwoUpward, Zenon
  <1>3. ASSUME NEW s \in {"user_admin", "db_public"} PROVE Upward(s, {TRUE})
    <2>1. Values[s] = <<FALSE, TRUE>>
      BY <1>0, AwsPairs, Zenon
    <2>2. QED
      BY <1>1, <2>1, TwoUpward, Zenon
  <1>4. Upward("bucket_versions", {"Suspended"}) /\ Upward("imds", {"optional"})
    BY <1>0, AwsPairs, TwoUpward, Zenon
  <1>5. Upward("db_backup_days", 0..6)
    <2>1. 6 \in 0..6
      OBVIOUS
    <2>2. QED
      BY <1>0, <2>1, AwsPairs, TwoUpward, Zenon
  <1>6. Upward("bucket_block", {"some", "none"})
    <2>1. "all" \notin {"some", "none"} /\ "none" \in {"some", "none"}
      OBVIOUS
    <2>2. QED
      BY <1>0, <2>1, AwsTriples, ThreeUpward, Zenon
  <1>7. Upward("trail", {"single", "none"}) /\ Upward("trail", {"none"})
    <2>1. /\ "multi" \notin {"single", "none"} /\ "none" \in {"single", "none"}
          /\ "multi" \notin {"none"} /\ "none" \in {"none"}
      OBVIOUS
    <2>2. QED
      BY <1>0, <2>1, AwsTriples, ThreeUpward, Zenon
  <1>8. Upward("password_length", -1..13) /\ Upward("password_length", {NoPolicy})
    <2>1. /\ 14 \notin -1..13 /\ NoPolicy \in -1..13
          /\ 14 \notin {NoPolicy} /\ NoPolicy \in {NoPolicy}
      BY DEF NoPolicy
    <2>2. QED
      BY <1>0, <2>1, AwsTriples, ThreeUpward, Zenon
  <1>9. Upward("access_key", {[active |-> TRUE, age |-> 91]})
    <2> DEFINE a == [active |-> FALSE, age |-> 91]
               b == [active |-> TRUE, age |-> 90]
               c == [active |-> TRUE, age |-> 91]
               d == [active |-> TRUE, age |-> NoDate]
    <2>2. a # c /\ b # c /\ d.age = NoDate
      OBVIOUS
    <2>3. Values["access_key"] = <<a, b, c, d>>
      <3>1. AwsValues["access_key"] = <<a, b, c, d>>
        BY AwsEntries
      <3> HIDE DEF a, b, c, d
      <3>2. QED
        BY <1>0, <3>1
    <2>1. c = [active |-> TRUE, age |-> 91]
      OBVIOUS
    <2> HIDE DEF a, b, c, d
    <2>4. Misjudged("access_key", d)
      BY <2>2 DEF Misjudged
    <2>5. Upward("access_key", {c})
      <3> SUFFICES ASSUME NEW i \in 1..4, NEW j \in 1..4, i < j,
                          Values["access_key"][i] \in {c}
                   PROVE  Misjudged("access_key", Values["access_key"][j])
        BY <2>3 DEF Upward
      <3>1. i = 3 /\ j = 4
        BY <2>2, <2>3
      <3>2. QED
        BY <2>3, <2>4, <3>1
    <2>6. QED
      BY <2>1, <2>5
  <1>10. Upward("ingress", {Perm(22, 22, TRUE), Perm(20, 3389, TRUE)})
    <2> DEFINE a == [from |-> 22, to |-> 22, world |-> FALSE]
               b == [from |-> 23, to |-> 3388, world |-> TRUE]
               c == [from |-> 22, to |-> 22, world |-> TRUE]
               d == [from |-> 20, to |-> 3389, world |-> TRUE]
               e == [from |-> 0, to |-> 0, world |-> TRUE]
    <2>1. c = Perm(22, 22, TRUE) /\ d = Perm(20, 3389, TRUE)
      BY Zenon DEF Perm
    <2>2. a # c /\ b # c /\ a # d /\ b # d
      OBVIOUS
    <2>3. Values["ingress"] = <<a, b, c, d, e>>
      <3>1. AwsValues["ingress"] = <<a, b, c, d, e>>
        BY AwsEntries
      <3> HIDE DEF a, b, c, d, e
      <3>2. QED
        BY <1>0, <3>1
    <2>4. Misjudged("ingress", e)
      BY Zenon DEF Misjudged, AllTraffic, Perm
    <2> HIDE DEF a, b, c, d, e
    <2>5. Upward("ingress", {c, d})
      <3> SUFFICES ASSUME NEW i \in 1..5, NEW j \in 1..5, i < j,
                          Values["ingress"][i] \in {c, d}
                   PROVE  \/ Values["ingress"][j] \in {c, d}
                          \/ Misjudged("ingress", Values["ingress"][j])
        BY <2>3 DEF Upward
      <3>1. i >= 3
        BY <2>2, <2>3
      <3>2. QED
        BY <2>3, <2>4, <3>1
    <2>6. QED
      BY <2>5 DEF c, d, Perm
  <1>11. QED
    BY <1>2, <1>3, <1>4, <1>5, <1>6, <1>7, <1>8, <1>9, <1>10

LEMMA PasswordCovered ==
  ASSUME Eased, provider = "aws"
  PROVE  Covered(check_iam_password_policy', check_iam_password_policy)
  <1> DEFINE id    == "aws_iam_password_policy"
             call  == {"GetAccountPasswordPolicy"}
             open  == Offenders("password_length", {NoPolicy})
             short == Offenders("password_length", 0..13)
             low   == Offenders("password_length", -1..13)
             none  == At(id, "high", {"global"})
             Told(policy, weak) ==
               IF Fails(call) \/ policy # {} THEN none ELSE At(id, "medium", weak)
  <1>0. "password_length" \in Settings /\ "password_length" \in AwsGlobal
    BY ValuesAre, AwsSettings DEF Settings, AwsGlobal
  <1>1. open' \subseteq open /\ low' \subseteq low
    BY <1>0, AwsUpward, EasedOffenders
  <1>2. short' \subseteq low' /\ low \subseteq short \cup open
    BY DEF Offenders, NoPolicy
  <1>3. short' \subseteq {"global"}
    <2>1. DOMAIN cloud'["password_length"] = PlacesOf("password_length")'
      BY <1>0 DEF Eased, Shape, Settings, Values
    <2>2. PlacesOf("password_length")' = {"global"}
      BY <1>0 DEF PlacesOf
    <2>3. QED
      BY <2>1, <2>2 DEF Offenders
  <1>4. check_iam_password_policy' = Attempt(id, TimesOut(call), Told(open', short'))
    BY EasedFaults DEF check_iam_password_policy
  <1>5. check_iam_password_policy = Attempt(id, TimesOut(call), Told(open, short))
    BY DEF check_iam_password_policy
  <1>6. Covered(Told(open', short'), Told(open, short))
    <2>1. Covered(none, none) /\ Covered(At(id, "medium", short'), none)
      BY <1>3, AtFewer
    <2>2. CASE open = {}
      <3>1. short' \subseteq short /\ open' = {}
        BY <1>1, <1>2, <2>2
      <3>2. Covered(At(id, "medium", short'), At(id, "medium", short))
        BY <3>1, AtFewer
      <3> HIDE DEF open, short, none
      <3>3. QED
        BY <2>1, <2>2, <3>1, <3>2
    <2>3. CASE open # {}
      <3> HIDE DEF open, short, none
      <3>1. QED
        BY <2>1, <2>3
    <2>4. QED
      BY <2>2, <2>3
  <1> HIDE DEF Told
  <1>7. QED
    BY <1>4, <1>5, <1>6, AttemptCovered

\* Without a trail its validation is not looked at; a trail that is missing
\* counts as misjudged, so that hardening leaves it missing.
LEMMA ValidationCovered ==
  ASSUME Eased, provider = "aws"
  PROVE  Covered(check_cloudtrail_log_validation', check_cloudtrail_log_validation)
  <1> DEFINE id     == "aws_cloudtrail_log_validation"
             none   == Offenders("trail", {"none"})
             unsafe == IF none = {} THEN {FALSE} ELSE {}
             found  == Offenders("trail_validated", unsafe)
  <1>0. /\ {"trail", "trail_validated"} \subseteq Settings
        /\ {"trail", "trail_validated"} \subseteq Settings'
        /\ PlacesOf("trail")' = PlacesOf("trail")
    <2>1. {"trail", "trail_validated"} \subseteq Settings
      BY ValuesAre, AwsSettings DEF Settings
    <2>2. Settings' = Settings /\ PlacesOf("trail")' = PlacesOf("trail")
      BY DEF Settings, Values, Eased, PlacesOf
    <2>3. QED
      BY <2>1, <2>2
  <1>1. none \subseteq none'
    <2> SUFFICES ASSUME NEW p \in DOMAIN cloud["trail"], cloud["trail"][p] = "none"
                 PROVE  p \in DOMAIN cloud'["trail"] /\ cloud'["trail"][p] = "none"
      BY DEF Offenders
    <2>1. p \in PlacesOf("trail") /\ p \in DOMAIN cloud'["trail"]
      BY <1>0 DEF Eased, Shape
    <2>2. QED
      BY <1>0, <2>1 DEF Eased, Hardened, Misjudged
  <1>2. found' \subseteq found
    <2>1. Offenders("trail_validated", {FALSE})' \subseteq Offenders("trail_validated", {FALSE})
      BY <1>0, AwsUpward, EasedOffenders
    <2>2. CASE none' = {}
      <3>1. unsafe = {FALSE} /\ unsafe' = {FALSE}
        BY <1>1, <2>2
      <3>2. /\ found' = Offenders("trail_validated", {FALSE})'
            /\ found = Offenders("trail_validated", {FALSE})
        BY <3>1 DEF Offenders
      <3>3. QED
        BY <2>1, <3>2
    <2>3. CASE none' # {}
      <3>1. unsafe' = {}
        BY <2>3
      <3>2. found' = {}
        BY <3>1 DEF Offenders
      <3>3. QED
        BY <3>2
    <2>4. QED
      BY <2>2, <2>3
  <1>3. Covered(At(id, "medium", found'), At(id, "medium", found))
    BY <1>2, AtFewer
  <1>4. check_cloudtrail_log_validation' =
          Attempt(id, Fails({"DescribeTrails"}), At(id, "medium", found'))
    BY EasedFaults DEF check_cloudtrail_log_validation, Check
  <1>5. check_cloudtrail_log_validation =
          Attempt(id, Fails({"DescribeTrails"}), At(id, "medium", found))
    BY DEF check_cloudtrail_log_validation, Check
  <1> HIDE DEF found
  <1>6. QED
    BY <1>3, <1>4, <1>5, AttemptCovered

LEMMA AwsCovered ==
  ASSUME Eased, provider = "aws"
  PROVE  Covered(aws_run_all', aws_run_all)
  <1>0. Settings = DOMAIN AwsValues /\ Shape /\ Shape' /\ provider' = "aws"
    BY ValuesAre DEF Settings, Eased
  <1> USE AwsSettings
  <1>1. Covered(check_iam_root_mfa', check_iam_root_mfa)
    BY <1>0, AwsUpward, CheckCovered DEF check_iam_root_mfa
  <1>2. Covered(check_iam_password_policy', check_iam_password_policy)
    BY PasswordCovered
  <1>3. Covered(check_iam_access_key_age', check_iam_access_key_age)
    <2>1. (Shape /\ provider = "aws" => check_iam_access_key_age = StaleKeysOnlyCheck)'
      BY StaleKeysOnly, PTL
    <2>2. Covered(StaleKeysOnlyCheck', StaleKeysOnlyCheck)
      BY <1>0, AwsUpward, CheckCovered DEF StaleKeysOnlyCheck
    <2>3. QED
      BY <1>0, <2>1, <2>2, StaleKeysOnly
  <1>4. Covered(check_iam_wildcard_policies', check_iam_wildcard_policies)
    BY <1>0, AwsUpward, CheckCovered DEF check_iam_wildcard_policies
  <1>5. Covered(check_iam_user_mfa', check_iam_user_mfa)
    BY <1>0, AwsUpward, CheckCovered DEF check_iam_user_mfa
  <1>6. Covered(check_s3_public_access', check_s3_public_access)
    BY <1>0, AwsUpward, EasedFaults, BucketCovered DEF check_s3_public_access
  <1>7. Covered(check_s3_encryption', check_s3_encryption)
    BY <1>0, AwsUpward, EasedFaults, BucketCovered DEF check_s3_encryption
  <1>8. Covered(check_s3_versioning', check_s3_versioning)
    <2> PICK raises : raises = FALSE
      OBVIOUS
    <2>1. "bucket_versions" \in Settings /\ Upward("bucket_versions", {"Suspended"})
      BY <1>0, AwsUpward
    <2>2. QED
      BY <2>1, BucketCovered, Zenon DEF check_s3_versioning
  <1>9. Covered(check_s3_access_logging', check_s3_access_logging)
    <2> PICK raises : raises = FALSE
      OBVIOUS
    <2>1. "bucket_logging" \in Settings /\ Upward("bucket_logging", {FALSE})
      BY <1>0, AwsUpward
    <2>2. QED
      BY <2>1, BucketCovered, Zenon DEF check_s3_access_logging
  <1>10. Covered(check_security_groups_open_ssh_rdp', check_security_groups_open_ssh_rdp)
    <2>1. (Shape /\ provider = "aws" => check_security_groups_open_ssh_rdp = OpenPortsOnlyCheck)'
      BY OpenPortsOnly, PTL
    <2>2. Covered(OpenPortsOnlyCheck', OpenPortsOnlyCheck)
      BY <1>0, AwsUpward, CheckCovered DEF OpenPortsOnlyCheck
    <2>3. QED
      BY <1>0, <2>1, <2>2, OpenPortsOnly
  <1>11. Covered(check_ec2_imdsv2', check_ec2_imdsv2)
    BY <1>0, AwsUpward, CheckCovered DEF check_ec2_imdsv2
  <1>12. Covered(check_rds_public_access', check_rds_public_access)
    BY <1>0, AwsUpward, CheckCovered DEF check_rds_public_access
  <1>13. Covered(check_rds_encryption', check_rds_encryption)
    BY <1>0, AwsUpward, CheckCovered DEF check_rds_encryption
  <1>14. Covered(check_rds_backup_retention', check_rds_backup_retention)
    BY <1>0, AwsUpward, CheckCovered DEF check_rds_backup_retention
  <1>15. Covered(check_rds_deletion_protection', check_rds_deletion_protection)
    BY <1>0, AwsUpward, CheckCovered DEF check_rds_deletion_protection
  <1>16. Covered(check_cloudtrail_enabled', check_cloudtrail_enabled)
    BY <1>0, AwsUpward, CheckCovered, SMTT(30) DEF check_cloudtrail_enabled
  <1>17. Covered(check_cloudtrail_log_validation', check_cloudtrail_log_validation)
    BY ValidationCovered
  <1>18. Covered(check_guardduty_enabled', check_guardduty_enabled)
    BY <1>0, AwsUpward, CheckCovered DEF check_guardduty_enabled
  <1>19. Covered(check_ebs_volume_encryption', check_ebs_volume_encryption)
    BY <1>0, AwsUpward, CheckCovered DEF check_ebs_volume_encryption
  <1>20. Covered(check_kms_key_rotation', check_kms_key_rotation)
    <2> PICK passed : passed = FailsIn("GetKeyRotationStatus")
      OBVIOUS
    <2>1. "key_rotates" \in Settings /\ Upward("key_rotates", {FALSE})
      BY <1>0, AwsUpward
    <2>2. Covered(At("aws_kms_key_rotation", "medium", Offenders("key_rotates", {FALSE})' \ passed),
                  At("aws_kms_key_rotation", "medium", Offenders("key_rotates", {FALSE}) \ passed))
      BY <2>1, PassedCovered, Zenon
    <2>3. QED
      BY <2>2, EasedFaults, AttemptCovered DEF check_kms_key_rotation
  <1>21. Covered(check_ebs_encryption_by_default', check_ebs_encryption_by_default)
    <2> PICK passed : passed = FailsIn("GetEbsEncryptionByDefault")
      OBVIOUS
    <2>1. "ebs_default" \in Settings /\ Upward("ebs_default", {FALSE})
      BY <1>0, AwsUpward
    <2>2. Covered(At("aws_ebs_default_encryption", "medium", Offenders("ebs_default", {FALSE})' \ passed),
                  At("aws_ebs_default_encryption", "medium", Offenders("ebs_default", {FALSE}) \ passed))
      BY <2>1, PassedCovered, Zenon
    <2>3. QED
      BY <2>2, EasedFaults DEF check_ebs_encryption_by_default
  <1>22. Covered(check_vpc_flow_logs', check_vpc_flow_logs)
    <2> PICK passed : passed = (FailsIn("DescribeVpcs") \cup FailsIn("DescribeFlowLogs"))
      OBVIOUS
    <2>1. "vpc_flow_log" \in Settings /\ Upward("vpc_flow_log", {FALSE})
      BY <1>0, AwsUpward
    <2>2. Covered(At("aws_vpc_flow_logs", "medium", Offenders("vpc_flow_log", {FALSE})' \ passed),
                  At("aws_vpc_flow_logs", "medium", Offenders("vpc_flow_log", {FALSE}) \ passed))
      BY <2>1, PassedCovered, Zenon
    <2>3. QED
      BY <2>2, EasedFaults DEF check_vpc_flow_logs
  <1>23. Covered(check_secretsmanager_rotation', check_secretsmanager_rotation)
    <2> PICK passed : passed = FailsIn("ListSecrets")
      OBVIOUS
    <2>1. "secret_rotates" \in Settings /\ Upward("secret_rotates", {FALSE})
      BY <1>0, AwsUpward
    <2>2. Covered(At("aws_secretsmanager_rotation", "low", Offenders("secret_rotates", {FALSE})' \ passed),
                  At("aws_secretsmanager_rotation", "low", Offenders("secret_rotates", {FALSE}) \ passed))
      BY <2>1, PassedCovered, Zenon
    <2>3. QED
      BY <2>2, EasedFaults DEF check_secretsmanager_rotation
  <1>24. \A A \in
    {check_iam_root_mfa', check_iam_password_policy',
     check_iam_access_key_age', check_iam_wildcard_policies',
     check_iam_user_mfa', check_s3_public_access', check_s3_encryption',
     check_s3_versioning', check_s3_access_logging',
     check_security_groups_open_ssh_rdp', check_ec2_imdsv2',
     check_rds_public_access', check_rds_encryption',
     check_rds_backup_retention', check_rds_deletion_protection',
     check_cloudtrail_enabled', check_cloudtrail_log_validation',
     check_guardduty_enabled', check_ebs_volume_encryption',
     check_kms_key_rotation', check_ebs_encryption_by_default',
     check_vpc_flow_logs', check_secretsmanager_rotation'} :
          \E B \in
    {check_iam_root_mfa, check_iam_password_policy,
     check_iam_access_key_age, check_iam_wildcard_policies,
     check_iam_user_mfa, check_s3_public_access, check_s3_encryption,
     check_s3_versioning, check_s3_access_logging,
     check_security_groups_open_ssh_rdp, check_ec2_imdsv2,
     check_rds_public_access, check_rds_encryption,
     check_rds_backup_retention, check_rds_deletion_protection,
     check_cloudtrail_enabled, check_cloudtrail_log_validation,
     check_guardduty_enabled, check_ebs_volume_encryption,
     check_kms_key_rotation, check_ebs_encryption_by_default,
     check_vpc_flow_logs, check_secretsmanager_rotation} :
            Covered(A, B)
    BY <1>1, <1>2, <1>3, <1>4, <1>5, <1>6, <1>7, <1>8, <1>9, <1>10,
       <1>11, <1>12, <1>13, <1>14, <1>15, <1>16, <1>17, <1>18, <1>19,
       <1>20, <1>21, <1>22, <1>23
  <1>25. QED
    BY <1>24, UnionCovered DEF aws_run_all

LEMMA AzureEntries ==
  /\ AzureValues["https_only"] = <<TRUE, FALSE>>
  /\ AzureValues["blob_public"] = <<FALSE, TRUE>>
  /\ AzureValues["min_tls"] = <<"TLS1_3", "TLS1_2", "TLS1_1", "TLS1_0", "None">>
  /\ AzureValues["nsg_rule"] =
       <<Rule(FALSE, TRUE, "*", "22"), Rule(TRUE, FALSE, "*", "22"),
         Rule(TRUE, TRUE, "10.0.0.0/8", "22"),
         Rule(TRUE, TRUE, "*", "443"), Rule(TRUE, TRUE, "*", "22"),
         Rule(TRUE, TRUE, "internet", "*"), PortRange>>
  /\ AzureValues["sql_audited"] = <<TRUE, FALSE>>
  /\ AzureValues["vm_crypt"] = <<TRUE, FALSE>>
  /\ AzureValues["vault"] = <<"both", "soft_delete", "neither">>
  BY Zenon DEF AzureValues

\* The rules that allow a management port in from anywhere.
OpenRules ==
  [inbound : {TRUE}, allow : {TRUE}, source : {"*", "0.0.0.0/0", "internet"},
   port : {"22", "3389", "*"}]

LEMMA RulesJudged ==
  /\ Rule(FALSE, TRUE, "*", "22") \notin OpenRules
  /\ Rule(TRUE, FALSE, "*", "22") \notin OpenRules
  /\ Rule(TRUE, TRUE, "10.0.0.0/8", "22") \notin OpenRules
  /\ Rule(TRUE, TRUE, "*", "443") \notin OpenRules
  /\ Rule(TRUE, TRUE, "internet", "*") \in OpenRules
  BY DEF Rule, OpenRules

LEMMA NsgUpward ==
  ASSUME provider = "azure"
  PROVE  Upward("nsg_rule", OpenRules)
  <1>1. PICK a, b, c, d, e, f, g :
          /\ Values["nsg_rule"] = <<a, b, c, d, e, f, g>>
          /\ {a, b, c, d} \cap OpenRules = {}
          /\ f \in OpenRules /\ g = PortRange
    <2> DEFINE a == Rule(FALSE, TRUE, "*", "22")
               b == Rule(TRUE, FALSE, "*", "22")
               c == Rule(TRUE, TRUE, "10.0.0.0/8", "22")
               d == Rule(TRUE, TRUE, "*", "443")
               e == Rule(TRUE, TRUE, "*", "22")
               f == Rule(TRUE, TRUE, "internet", "*")
    <2>1. Values["nsg_rule"] = <<a, b, c, d, e, f, PortRange>>
      BY ValuesAre, AzureEntries, Zenon
    <2>2. a \notin OpenRules /\ b \notin OpenRules /\ c \notin OpenRules
          /\ d \notin OpenRules /\ f \in OpenRules
      BY RulesJudged, Zenon
    <2> HIDE DEF a, b, c, d, e, f
    <2>3. QED
      BY <2>1, <2>2
  <1>2. Misjudged("nsg_rule", g)
    BY <1>1 DEF Misjudged
  <1> SUFFICES ASSUME NEW i \in 1..7, NEW j \in 1..7, i < j,
                      Values["nsg_rule"][i] \in OpenRules
               PROVE  \/ Values["nsg_rule"][j] \in OpenRules
                      \/ Misjudged("nsg_rule", Values["nsg_rule"][j])
    BY <1>1 DEF Upward
  <1>3. j = 6 \/ j = 7
    BY <1>1
  <1>4. QED
    BY <1>1, <1>2, <1>3

LEMMA AzureUpward ==
  ASSUME provider = "azure"
  PROVE  /\ \A s \in {"https_only", "sql_audited", "vm_crypt"} : Upward(s, {FALSE})
         /\ Upward("blob_public", {TRUE})
         /\ Upward("min_tls", {"None", "TLS1_0", "TLS1_1"})
         /\ Upward("vault", {"soft_delete", "neither"})
  <1>0. Values = AzureValues
    BY ValuesAre
  <1>1. FALSE \in {FALSE} /\ TRUE \in {TRUE}
    OBVIOUS
  <1>2. ASSUME NEW s \in {"https_only", "sql_audited", "vm_crypt"}
        PROVE  Upward(s, {FALSE})
    <2>1. Values[s] = <<TRUE, FALSE>>
      BY <1>0, AzureEntries, Zenon
    <2>2. QED
      BY <1>1, <2>1, TwoUpward, Zenon
  <1>3. Upward("blob_public", {TRUE})
    BY <1>0, <1>1, AzureEntries, TwoUpward, Zenon
  <1>4. Upward("min_tls", {"None", "TLS1_0", "TLS1_1"})
    <2>1. Values["min_tls"] = <<"TLS1_3", "TLS1_2", "TLS1_1", "TLS1_0", "None">>
      BY <1>0, AzureEntries, Zenon
    <2> SUFFICES ASSUME NEW i \in 1..5, NEW j \in 1..5, i < j,
                        Values["min_tls"][i] \in {"None", "TLS1_0", "TLS1_1"}
                 PROVE  Values["min_tls"][j] \in {"None", "TLS1_0", "TLS1_1"}
      BY <2>1 DEF Upward
    <2>2. i >= 3
      BY <2>1
    <2>3. j = 4 \/ j = 5
      BY <2>2
    <2>4. QED
      BY <2>1, <2>3
  <1>5. Upward("vault", {"soft_delete", "neither"})
    <2>1. "both" \notin {"soft_delete", "neither"} /\ "neither" \in {"soft_delete", "neither"}
      OBVIOUS
    <2>2. QED
      BY <1>0, <2>1, AzureEntries, ThreeUpward, Zenon
  <1>6. QED
    BY <1>2, <1>3, <1>4, <1>5

LEMMA AzureCovered ==
  ASSUME Eased, provider = "azure"
  PROVE  Covered(azure_run_all', azure_run_all)
  <1>0. Settings = DOMAIN AzureValues
    BY ValuesAre DEF Settings
  <1> USE AzureSettings
  <1>1. Covered(check_storage_https_only', check_storage_https_only)
    BY <1>0, AzureUpward, CheckCovered DEF check_storage_https_only
  <1>2. Covered(check_storage_public_blob', check_storage_public_blob)
    BY <1>0, AzureUpward, CheckCovered DEF check_storage_public_blob
  <1>3. Covered(check_storage_min_tls', check_storage_min_tls)
    BY <1>0, AzureUpward, CheckCovered DEF check_storage_min_tls
  <1>4. Covered(check_nsg_open_management', check_nsg_open_management)
    <2>1. "nsg_rule" \in Settings /\ Upward("nsg_rule", OpenRules)
      BY <1>0, NsgUpward
    <2>2. QED
      BY <2>1, CheckByNameCovered DEF check_nsg_open_management, OpenRules
  <1>5. Covered(check_sql_auditing', check_sql_auditing)
    BY <1>0, AzureUpward, CheckCovered DEF check_sql_auditing
  <1>6. Covered(check_vm_disk_encryption', check_vm_disk_encryption)
    BY <1>0, AzureUpward, CheckByNameCovered DEF check_vm_disk_encryption
  <1>7. Covered(check_keyvault_soft_delete', check_keyvault_soft_delete)
    BY <1>0, AzureUpward, CheckCovered DEF check_keyvault_soft_delete
  <1>8. \A A \in
    {check_storage_https_only', check_storage_public_blob',
     check_storage_min_tls', check_nsg_open_management', check_sql_auditing',
     check_vm_disk_encryption', check_keyvault_soft_delete'} :
          \E B \in
    {check_storage_https_only, check_storage_public_blob,
     check_storage_min_tls, check_nsg_open_management, check_sql_auditing,
     check_vm_disk_encryption, check_keyvault_soft_delete} :
            Covered(A, B)
    BY <1>1, <1>2, <1>3, <1>4, <1>5, <1>6, <1>7
  <1>9. QED
    BY <1>8, UnionCovered DEF azure_run_all

\* The firewalls that let everyone in to a management port.
OpenFirewalls ==
  {Firewall(TRUE, TRUE, ports) : ports \in
     {ps \in SUBSET {"22", "3389", "443", "20-3389"} :
        ps \cap {"22", "3389"} # {} \/ ps = {}}}

LEMMA FirewallsJudged ==
  /\ Firewall(FALSE, TRUE, {"22"}) \notin OpenFirewalls
  /\ Firewall(TRUE, FALSE, {"22"}) \notin OpenFirewalls
  /\ Firewall(TRUE, TRUE, {"443"}) \notin OpenFirewalls
  /\ Firewall(TRUE, TRUE, {}) \in OpenFirewalls
  <1>1. \A o \in OpenFirewalls :
          /\ o.ingress = TRUE /\ o.world = TRUE
          /\ o.ports \cap {"22", "3389"} # {} \/ o.ports = {}
    <2> SUFFICES ASSUME NEW ports, ports \cap {"22", "3389"} # {} \/ ports = {}
                 PROVE  LET o == Firewall(TRUE, TRUE, ports) IN
                        /\ o.ingress = TRUE /\ o.world = TRUE
                        /\ o.ports \cap {"22", "3389"} # {} \/ o.ports = {}
      BY Zenon DEF OpenFirewalls
    <2>1. QED
      BY DEF Firewall
  <1>2. /\ Firewall(FALSE, TRUE, {"22"}).ingress = FALSE
        /\ Firewall(TRUE, FALSE, {"22"}).world = FALSE
        /\ Firewall(TRUE, TRUE, {"443"}).ports = {"443"}
    BY DEF Firewall
  <1>3. {"443"} \cap {"22", "3389"} = {} /\ {"443"} # {}
    OBVIOUS
  <1>4. {} \in {ps \in SUBSET {"22", "3389", "443", "20-3389"} :
                  ps \cap {"22", "3389"} # {} \/ ps = {}}
    OBVIOUS
  <1>5. Firewall(TRUE, TRUE, {}) \in OpenFirewalls
    BY <1>4, Zenon DEF OpenFirewalls
  <1> HIDE DEF OpenFirewalls
  <1>6. QED
    BY <1>1, <1>2, <1>3, <1>5

LEMMA FirewallUpward ==
  ASSUME provider = "gcp"
  PROVE  Upward("firewall", OpenFirewalls)
  <1>1. PICK a, b, c, d, e, f :
          /\ Values["firewall"] = <<a, b, c, d, e, f>>
          /\ {a, b, c} \cap OpenFirewalls = {}
          /\ e \in OpenFirewalls /\ f = OpenRange
    <2> DEFINE a == Firewall(FALSE, TRUE, {"22"})
               b == Firewall(TRUE, FALSE, {"22"})
               c == Firewall(TRUE, TRUE, {"443"})
               d == Firewall(TRUE, TRUE, {"22", "443"})
               e == Firewall(TRUE, TRUE, {})
    <2>1. Values["firewall"] = <<a, b, c, d, e, OpenRange>>
      BY ValuesAre, GcpEntries, Zenon
    <2>2. a \notin OpenFirewalls /\ b \notin OpenFirewalls /\ c \notin OpenFirewalls
          /\ e \in OpenFirewalls
      BY FirewallsJudged, Zenon
    <2> HIDE DEF a, b, c, d, e
    <2>3. QED
      BY <2>1, <2>2
  <1>2. Misjudged("firewall", f)
    BY <1>1 DEF Misjudged
  <1> SUFFICES ASSUME NEW i \in 1..6, NEW j \in 1..6, i < j,
                      Values["firewall"][i] \in OpenFirewalls
               PROVE  \/ Values["firewall"][j] \in OpenFirewalls
                      \/ Misjudged("firewall", Values["firewall"][j])
    BY <1>1 DEF Upward
  <1>3. j = 5 \/ j = 6
    BY <1>1
  <1>4. QED
    BY <1>1, <1>2, <1>3

LEMMA GcpUpward ==
  ASSUME provider = "gcp"
  PROVE  /\ \A s \in {"bucket_uniform", "audit_config"} : Upward(s, {FALSE})
         /\ \A s \in {"external_ip", "sql_ipv4"} : Upward(s, {TRUE})
         /\ Upward("bucket_member", {"allUsers", "allAuthenticatedUsers"})
         /\ Upward("oldest_key", {90})
  <1>0. Values = GcpValues
    BY ValuesAre
  <1>1. FALSE \in {FALSE} /\ TRUE \in {TRUE} /\ 90 \in {90}
    OBVIOUS
  <1>2. ASSUME NEW s \in {"bucket_uniform", "audit_config"} PROVE Upward(s, {FALSE})
    <2>1. Values[s] = <<TRUE, FALSE>>
      BY <1>0, GcpEntries, Zenon
    <2>2. QED
      BY <1>1, <2>1, TwoUpward, Zenon
  <1>3. ASSUME NEW s \in {"external_ip", "sql_ipv4"} PROVE Upward(s, {TRUE})
    <2>1. Values[s] = <<FALSE, TRUE>>
      BY <1>0, GcpEntries, Zenon
    <2>2. QED
      BY <1>1, <2>1, TwoUpward, Zenon
  <1>4. Upward("bucket_member", {"allUsers", "allAuthenticatedUsers"})
    <2>1. /\ "owner" \notin {"allUsers", "allAuthenticatedUsers"}
          /\ "allUsers" \in {"allUsers", "allAuthenticatedUsers"}
      OBVIOUS
    <2>2. QED
      BY <1>0, <2>1, GcpEntries, ThreeUpward, Zenon
  <1>5. Upward("oldest_key", {90})
    BY <1>0, <1>1, GcpEntries, TwoUpward, ZenonT(40)
  <1>6. QED
    BY <1>2, <1>3, <1>4, <1>5

LEMMA GcpCovered ==
  ASSUME Eased, provider = "gcp"
  PROVE  Covered(gcp_run_all', gcp_run_all)
  <1>0. Settings = DOMAIN GcpValues
    BY ValuesAre DEF Settings
  <1> USE GcpSettings
  <1>1. Covered(check_bucket_public_access', check_bucket_public_access)
    BY <1>0, GcpUpward, CheckCovered DEF check_bucket_public_access
  <1>2. Covered(check_bucket_uniform_access', check_bucket_uniform_access)
    BY <1>0, GcpUpward, CheckCovered DEF check_bucket_uniform_access
  <1>3. Covered(check_firewall_open_ingress', check_firewall_open_ingress)
    <2>1. "firewall" \in Settings /\ Upward("firewall", OpenFirewalls)
      BY <1>0, FirewallUpward
    <2>2. QED
      BY <2>1, CheckCovered DEF check_firewall_open_ingress, OpenFirewalls
  <1>4. Covered(check_instance_public_ip', check_instance_public_ip)
    BY <1>0, GcpUpward, CheckByNameCovered DEF check_instance_public_ip
  <1>5. Covered(check_sa_key_rotation', check_sa_key_rotation)
    BY <1>0, GcpUpward, CheckCovered DEF check_sa_key_rotation
  <1>6. Covered(check_sql_public_ip', check_sql_public_ip)
    BY <1>0, GcpUpward, CheckCovered DEF check_sql_public_ip
  <1>7. Covered(check_audit_logging', check_audit_logging)
    BY <1>0, GcpUpward, CheckCovered DEF check_audit_logging
  <1>8. \A A \in
    {check_bucket_public_access', check_bucket_uniform_access',
     check_firewall_open_ingress', check_instance_public_ip',
     check_sa_key_rotation', check_sql_public_ip', check_audit_logging'} :
          \E B \in
    {check_bucket_public_access, check_bucket_uniform_access,
     check_firewall_open_ingress, check_instance_public_ip,
     check_sa_key_rotation, check_sql_public_ip, check_audit_logging} :
            Covered(A, B)
    BY <1>1, <1>2, <1>3, <1>4, <1>5, <1>6, <1>7
  <1>9. QED
    BY <1>8, UnionCovered DEF gcp_run_all

LEMMA FileEntries ==
  /\ KubernetesValues["submitted"] = <<TRUE, FALSE>>
  /\ KubernetesValues["pod"] = <<"unprivileged", "privileged">>
  /\ KubernetesValues["role"] =
       <<"scoped", "wildcard_verbs", "wildcard", "wildcard_at_top">>
  /\ TerraformValues["ingress_line"] =
       <<"10.0.0.0/8:22", "0.0.0.0/0:8022", "0.0.0.0/0:22">>
  /\ TerraformValues["encrypted_line"] = <<TRUE, FALSE>>
  /\ TerraformValues["secret_line"] = <<"variable", "literal">>
  /\ TerraformValues["public_line"] = <<FALSE, TRUE>>
  BY Zenon DEF KubernetesValues, TerraformValues

\* Without manifests nothing is submitted by hardening: their absence counts as
\* misjudged. A role that is not under spec is never reported.
LEMMA KubernetesCovered ==
  ASSUME Eased, provider = "kubernetes"
  PROVE  Covered(audit_kubernetes_cluster', audit_kubernetes_cluster)
  <1>0. Values = KubernetesValues /\ Settings = {"submitted", "pod", "role"}
    BY ValuesAre, FileSettings DEF Settings
  <1>1. Upward("pod", {"privileged"})
    <2>1. "privileged" \in {"privileged"}
      OBVIOUS
    <2>2. QED
      BY <1>0, <2>1, FileEntries, TwoUpward, Zenon
  <1>2. Upward("role", {"wildcard"})
    <2>1. Values["role"] =
            <<"scoped", "wildcard_verbs", "wildcard", "wildcard_at_top">>
      BY <1>0, FileEntries
    <2>2. Misjudged("role", "wildcard_at_top")
      BY DEF Misjudged
    <2> SUFFICES ASSUME NEW i \in 1..4, NEW j \in 1..4, i < j,
                        Values["role"][i] = "wildcard"
                 PROVE  Misjudged("role", Values["role"][j])
      BY <2>1 DEF Upward
    <2>3. i = 3 /\ j = 4
      BY <2>1
    <2>4. QED
      BY <2>1, <2>2, <2>3
  <1>3. Covered(At("K8S-001", "critical", Offenders("pod", {"privileged"})'),
                At("K8S-001", "critical", Offenders("pod", {"privileged"})))
    BY <1>0, <1>1, EasedOffenders, AtFewer
  <1>4. Covered(At("K8S-002", "high", Offenders("role", {"wildcard"})'),
                At("K8S-002", "high", Offenders("role", {"wildcard"})))
    BY <1>0, <1>2, EasedOffenders, AtFewer
  <1>5. Submitted => Submitted'
    <2> SUFFICES ASSUME NEW p \in DOMAIN cloud["submitted"],
                        cloud["submitted"][p] = TRUE
                 PROVE  p \in DOMAIN cloud'["submitted"] /\ cloud'["submitted"][p] = TRUE
      BY DEF Submitted, Offenders
    <2>1. /\ "submitted" \in Settings /\ "submitted" \in Settings'
          /\ PlacesOf("submitted")' = PlacesOf("submitted")
          /\ Values["submitted"] = <<TRUE, FALSE>>
      BY <1>0, FileEntries DEF Eased, Settings, Values, PlacesOf
    <2>2. p \in PlacesOf("submitted") /\ p \in DOMAIN cloud'["submitted"]
      BY <2>1 DEF Eased, Shape
    <2>3. /\ cloud["submitted"][p] \in InRange("submitted")
          /\ cloud'["submitted"][p] \in InRange("submitted")
      <3>1. InRange("submitted")' = InRange("submitted")
        BY DEF Eased, InRange, Values
      <3>2. QED
        BY <2>1, <2>2, <3>1 DEF Eased, Shape
    <2>4. QED
      <3> SUFFICES ASSUME cloud'["submitted"][p] # cloud["submitted"][p]
                   PROVE  FALSE
        BY <2>2
      <3>1. Rank("submitted", cloud'["submitted"][p]) < Rank("submitted", cloud["submitted"][p])
        BY <2>1, <2>2 DEF Eased, Hardened
      <3>2. TRUE # FALSE
        OBVIOUS
      <3>3. \A v, w \in InRange("submitted") :
              Rank("submitted", v) < Rank("submitted", w) => w = FALSE
        BY <2>1, <3>2, PairRanked, Zenon
      <3>4. QED
        BY <2>3, <3>1, <3>3
  <1>6. Submitted' => Submitted
    <2> SUFFICES ASSUME ~Submitted PROVE ~Submitted'
      OBVIOUS
    <2>1. /\ "submitted" \in Settings /\ "submitted" \in Settings'
          /\ PlacesOf("submitted")' = PlacesOf("submitted")
      BY <1>0 DEF Eased, Settings, Values, PlacesOf
    <2>2. ASSUME NEW p \in DOMAIN cloud'["submitted"]
          PROVE  cloud'["submitted"][p] # TRUE
      <3>1. p \in PlacesOf("submitted") /\ p \in DOMAIN cloud["submitted"]
        BY <2>1 DEF Eased, Shape
      <3>2. cloud["submitted"][p] # TRUE
        BY <3>1 DEF Submitted, Offenders
      <3>3. cloud["submitted"][p] \in {TRUE, FALSE}
        <4>1. cloud["submitted"][p] \in InRange("submitted")
          BY <2>1, <3>1 DEF Eased, Shape
        <4>2. InRange("submitted") = {TRUE, FALSE}
          <5>1. TRUE # FALSE /\ Values["submitted"] = <<TRUE, FALSE>>
            BY <1>0, FileEntries
          <5>2. QED
            BY <5>1, PairRanked, Zenon
        <4>3. QED
          BY <4>1, <4>2
      <3>4. Misjudged("submitted", cloud["submitted"][p])
        BY <3>2, <3>3 DEF Misjudged
      <3>5. QED
        BY <2>1, <3>1, <3>2, <3>4 DEF Eased, Hardened
    <2>3. QED
      BY <2>2 DEF Submitted, Offenders
  <1>7. CASE Submitted
    BY <1>3, <1>4, <1>5, <1>7 DEF audit_kubernetes_cluster, Covered
  <1>8. CASE ~Submitted
    <2>1. /\ audit_kubernetes_cluster = DemoFindings
          /\ audit_kubernetes_cluster' = DemoFindings
      BY <1>6, <1>8 DEF audit_kubernetes_cluster, DemoFindings
    <2>2. QED
      BY <2>1 DEF Covered
  <1>9. QED
    BY <1>7, <1>8

\* The issue a clean file is given takes the place of those it no longer has.
LEMMA TerraformCovered ==
  ASSUME Eased, provider = "terraform"
  PROVE  Covered(scan_iac_file', scan_iac_file)
  <1>0. /\ Values = TerraformValues
        /\ Settings = {"ingress_line", "encrypted_line", "secret_line", "public_line"}
    BY ValuesAre, FileSettings DEF Settings
  <1> DEFINE open == {"0.0.0.0/0:8022", "0.0.0.0/0:22"}
  <1>1. "10.0.0.0/8:22" \notin open /\ "0.0.0.0/0:22" \in open
    OBVIOUS
  <1>2. Upward("ingress_line", open)
    BY <1>0, <1>1, FileEntries, ThreeUpward, Zenon
  <1>3. FALSE \in {FALSE} /\ TRUE \in {TRUE} /\ "literal" \in {"literal"}
    OBVIOUS
  <1>4. /\ Upward("encrypted_line", {FALSE}) /\ Upward("secret_line", {"literal"})
        /\ Upward("public_line", {TRUE})
    BY <1>0, <1>3, FileEntries, TwoUpward, Zenon
  <1>5. Covered(At("IAC-001", "critical", Offenders("ingress_line", open)'),
                At("IAC-001", "critical", Offenders("ingress_line", open)))
    BY <1>0, <1>2, EasedOffenders, AtFewer
  <1>6. Covered(At("IAC-002", "high", Offenders("encrypted_line", {FALSE})'),
                At("IAC-002", "high", Offenders("encrypted_line", {FALSE})))
    BY <1>0, <1>4, EasedOffenders, AtFewer
  <1>7. Covered(At("IAC-003", "critical", Offenders("secret_line", {"literal"})'),
                At("IAC-003", "critical", Offenders("secret_line", {"literal"})))
    BY <1>0, <1>4, EasedOffenders, AtFewer
  <1>8. Covered(At("IAC-004", "critical", Offenders("public_line", {TRUE})'),
                At("IAC-004", "critical", Offenders("public_line", {TRUE})))
    BY <1>0, <1>4, EasedOffenders, AtFewer
  <1>9. Covered(LineIssues', LineIssues)
    BY <1>5, <1>6, <1>7, <1>8 DEF LineIssues, Covered
  <1>10. \A f \in LineIssues' : f.check # "IAC-005"
    <2>1. \A places :
            /\ \A f \in At("IAC-001", "critical", places) : f.check = "IAC-001"
            /\ \A f \in At("IAC-002", "high", places) : f.check = "IAC-002"
            /\ \A f \in At("IAC-003", "critical", places) : f.check = "IAC-003"
            /\ \A f \in At("IAC-004", "critical", places) : f.check = "IAC-004"
      BY AtParts
    <2>2. QED
      BY <2>1 DEF LineIssues
  <1>11. \A f \in At("IAC-005", "medium", {"line 12"}) : f.check = "IAC-005"
    <2>1. PICK line : line = {"line 12"}
      OBVIOUS
    <2>2. \A f \in At("IAC-005", "medium", line) : f.check = "IAC-005"
      BY AtParts
    <2>3. QED
      BY <2>1, <2>2
  <1>12. LineIssues' # {} => LineIssues # {}
    BY <1>9, <1>10 DEF Covered
  <1>13. QED
    BY <1>9, <1>11, <1>12 DEF scan_iac_file, Covered

\* Making settings safer, in the order of each setting's values, never makes a
\* check report what it did not report before, whatever else is unsafe and
\* whichever call fails: no check reads safer as worse, and none hides another.
\* (run_all and the checks of the three auditors, auditors/k8s.py, iac_scanner.py.)
THEOREM HardeningAddsNothing == Spec => HardeningNeverAddsFindings
  <1>1. ASSUME IInv, IInv', Next, Hardened
        PROVE  Offences(run_all') \subseteq Offences(run_all)
    <2>1. UNCHANGED <<provider, fault>>
      <3>1. cloud' # cloud
        BY <1>1 DEF Hardened
      <3>2. PICK s \in Settings : \E p \in PlacesOf(s), v \in InRange(s) : Change(s, p, v)
        BY <1>1, <3>1 DEF Next, Break, Repair, Audit, ScanFile, Ingest, Triage
      <3>3. QED
        BY <3>2 DEF Change
    <2>2. Eased
      BY <1>1, <2>1 DEF Eased, IInv
    <2>3. provider \in Providers
      BY <1>1 DEF IInv, Shape
    <2>4. Covered(run_all', run_all)
      <3>1. CASE provider = "aws"
        BY <2>1, <2>2, <3>1, AwsCovered DEF run_all
      <3>2. CASE provider = "azure"
        BY <2>1, <2>2, <3>2, AzureCovered DEF run_all
      <3>3. CASE provider = "gcp"
        BY <2>1, <2>2, <3>3, GcpCovered DEF run_all
      <3>4. CASE provider = "kubernetes"
        BY <2>1, <2>2, <3>4, KubernetesCovered DEF run_all
      <3>5. CASE provider = "terraform"
        BY <2>1, <2>2, <3>5, TerraformCovered DEF run_all
      <3>6. QED
        BY <2>3, <3>1, <3>2, <3>3, <3>4, <3>5, ValuesAre
    <2>5. QED
      BY <2>4 DEF Covered, Offences
  <1>2. IInv /\ IInv' /\ [Next]_vars =>
          [Hardened => Offences(run_all') \subseteq Offences(run_all)]_vars
    BY <1>1
  <1>3. QED
    BY <1>2, PostureInvariant, PTL DEF Spec, HardeningNeverAddsFindings

============================================================================
