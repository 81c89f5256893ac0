----------------------------- MODULE Compliance -----------------------------
(* compliance/mappings.py and compliance/engine.py: which frameworks map a   *)
(* check, the score of a framework, and the evidence report. A framework     *)
(* maps a check to one control, whose number is left out.                    *)
EXTENDS Integers, FiniteSets

AwsMapped ==
  {"aws_iam_root_mfa", "aws_iam_password_policy", "aws_iam_access_key_age",
   "aws_iam_wildcard_policies", "aws_s3_public_access_block",
   "aws_s3_encryption", "aws_sg_open_ssh_rdp", "aws_ec2_imdsv2",
   "aws_rds_public_access", "aws_rds_encryption", "aws_cloudtrail_enabled",
   "aws_kms_key_rotation", "aws_guardduty_enabled", "aws_s3_versioning",
   "aws_s3_access_logging", "aws_ebs_default_encryption",
   "aws_ebs_volume_encryption", "aws_iam_user_mfa",
   "aws_cloudtrail_log_validation", "aws_vpc_flow_logs",
   "aws_rds_backup_retention", "aws_rds_deletion_protection",
   "aws_secretsmanager_rotation"}
IsoMapped ==
  {"aws_iam_root_mfa", "aws_iam_password_policy", "aws_iam_wildcard_policies",
   "aws_s3_public_access_block", "aws_s3_encryption", "aws_sg_open_ssh_rdp",
   "aws_cloudtrail_enabled", "aws_guardduty_enabled",
   "aws_ebs_volume_encryption", "aws_cloudtrail_log_validation"}
NotPciMapped ==
  {"aws_iam_wildcard_policies", "aws_ec2_imdsv2", "aws_guardduty_enabled",
   "aws_s3_versioning", "aws_ebs_volume_encryption",
   "aws_cloudtrail_log_validation", "aws_rds_backup_retention",
   "aws_rds_deletion_protection"}
GcpMapped ==
  {"gcp_bucket_public", "gcp_bucket_ubla", "gcp_firewall_open",
   "gcp_instance_public_ip", "gcp_sa_key_age", "gcp_sql_public_ip",
   "gcp_audit_logging"}
AzureMapped ==
  {"azure_storage_https", "azure_storage_public_blob", "azure_storage_min_tls",
   "azure_nsg_open_mgmt", "azure_sql_auditing", "azure_vm_disk_encryption",
   "azure_keyvault_protection"}

Mapped == AwsMapped \cup GcpMapped \cup AzureMapped

CisOnly ==
  [cis_aws_v2   |-> AwsMapped,
   cis_gcp_v2   |-> GcpMapped,
   cis_azure_v2 |-> AzureMapped,
   soc2         |-> Mapped \ {"aws_rds_deletion_protection"},
   iso27001     |-> IsoMapped,
   pci_dss_v4   |-> AwsMapped \ NotPciMapped]

SEED_MAPPINGS ==
  [cis_aws_v2   |-> AwsMapped \ {"aws_rds_deletion_protection"},
   cis_gcp_v2   |-> GcpMapped,
   cis_azure_v2 |-> AzureMapped,
   soc2         |-> Mapped,
   iso27001     |-> IsoMapped,
   pci_dss_v4   |-> AwsMapped \ NotPciMapped]

FRAMEWORKS == DOMAIN SEED_MAPPINGS

(* Percent of the framework's checks without an open finding, in tenths,     *)
(* rounded. A check that failed to run, or never ran, has none.              *)
compute_scores(failed) ==
  [fw \in FRAMEWORKS |->
     LET applicable == Cardinality(SEED_MAPPINGS[fw])
         passed     == Cardinality(SEED_MAPPINGS[fw] \ failed) IN
     (2000 * passed + applicable) \div (2 * applicable)]

(* A line of the report for each mapped check. *)
evidence_report(fw, failed) ==
  [check \in SEED_MAPPINGS[fw] |-> IF check \in failed THEN "fail" ELSE "pass"]
=============================================================================
