----------------------------- MODULE AwsAuditor -----------------------------
(* auditors/aws.py: the 23 checks of AWSAuditor, each the set of findings it *)
(* returns, or the error run_all makes of the exception it raises.           *)
EXTENDS Auditor

Perm(from, to, world) == [from |-> from, to |-> to, world |-> world]
AllTraffic == Perm(0, 0, TRUE)        \* the rule has no ports: None or 0
NoPolicy == -1
NoDate   == -1

(* Each setting's values, from the safest to the weakest. *)
AwsValues ==
  [root_mfa        |-> <<TRUE, FALSE>>,
   password_length |-> <<14, 13, NoPolicy>>,
   access_key      |-> <<[active |-> FALSE, age |-> 91],
                         [active |-> TRUE, age |-> 90],
                         [active |-> TRUE, age |-> 91],
                         [active |-> TRUE, age |-> NoDate]>>,
   user_admin      |-> <<FALSE, TRUE>>,
   user_mfa        |-> <<TRUE, FALSE>>,
   bucket_block    |-> <<"all", "some", "none">>,
   bucket_crypt    |-> <<TRUE, FALSE>>,
   bucket_versions |-> <<"Enabled", "Suspended">>,
   bucket_logging  |-> <<TRUE, FALSE>>,
   trail           |-> <<"multi", "single", "none">>,
   trail_validated |-> <<TRUE, FALSE>>,
   ingress         |-> <<Perm(22, 22, FALSE), Perm(23, 3388, TRUE),
                         Perm(22, 22, TRUE), Perm(20, 3389, TRUE), AllTraffic>>,
   imds            |-> <<"required", "optional">>,
   db_public       |-> <<FALSE, TRUE>>,
   db_encrypted    |-> <<TRUE, FALSE>>,
   db_backup_days  |-> <<7, 6>>,
   db_protected    |-> <<TRUE, FALSE>>,
   key_rotates     |-> <<TRUE, FALSE>>,
   detector        |-> <<TRUE, FALSE>>,
   ebs_default     |-> <<TRUE, FALSE>>,
   volume_crypt    |-> <<TRUE, FALSE>>,
   vpc_flow_log    |-> <<TRUE, FALSE>>,
   secret_rotates  |-> <<TRUE, FALSE>>]

AwsGlobal == {"root_mfa", "password_length", "access_key", "user_admin",
              "user_mfa", "bucket_block", "bucket_crypt", "bucket_versions",
              "bucket_logging", "trail", "trail_validated"}

check_iam_root_mfa == Check("aws_iam_root_mfa", "critical",
  {"GetAccountSummary"}, "root_mfa", {FALSE})

check_iam_password_policy ==
  LET id   == "aws_iam_password_policy"
      call == {"GetAccountPasswordPolicy"}
      none == Fails(call) \/ Offenders("password_length", {NoPolicy}) # {} IN
  Attempt(id, TimesOut(call),
          IF none THEN At(id, "high", {"global"})
          ELSE At(id, "medium", Offenders("password_length", 0..13)))

check_iam_access_key_age == Check("aws_iam_access_key_age", "medium",
  {"ListUsers", "ListAccessKeys"}, "access_key",
  {key \in Seen("access_key") : key.active /\ key.age > 90})

check_iam_wildcard_policies == Check("aws_iam_wildcard_policies", "high",
  {"ListUsers", "ListAttachedUserPolicies"}, "user_admin", {TRUE})

check_iam_user_mfa == Check("aws_iam_user_mfa", "high",
  {"ListUsers", "ListMFADevices"}, "user_mfa", {FALSE})

(* Each bucket's query is caught: what cannot be read is reported. *)
BucketCheck(id, severity, call, raises, setting, unsafe) ==
  Attempt(id, Fails({"ListBuckets"}) \/ raises,
          At(id, severity, Offenders(setting, unsafe) \cup FailsIn(call)))

check_s3_public_access == BucketCheck("aws_s3_public_access_block", "high",
  "GetPublicAccessBlock", TimesOut({"GetPublicAccessBlock"}),
  "bucket_block", {"some", "none"})

check_s3_encryption == BucketCheck("aws_s3_encryption", "high",
  "GetBucketEncryption", TimesOut({"GetBucketEncryption"}),
  "bucket_crypt", {FALSE})

VersioningSkipped == Check("aws_s3_versioning", "medium", {"ListBuckets"},
  "bucket_versions", IF Fails({"GetBucketVersioning"}) THEN {} ELSE {"Suspended"})

check_s3_versioning == BucketCheck("aws_s3_versioning", "medium",
  "GetBucketVersioning", FALSE, "bucket_versions", {"Suspended"})

check_s3_access_logging == BucketCheck("aws_s3_access_logging", "low",
  "GetBucketLogging", FALSE, "bucket_logging", {FALSE})

(* A rule without ports counts as port 0, and IPv6 ranges are not looked at. *)
check_security_groups_open_ssh_rdp == Check("aws_sg_open_ssh_rdp", "high",
  {"DescribeSecurityGroups"}, "ingress",
  {perm \in Seen("ingress") :
     perm.world /\ \E port \in {22, 3389} : perm.from <= port /\ port <= perm.to})

check_ec2_imdsv2 == Check("aws_ec2_imdsv2", "medium",
  {"DescribeInstances"}, "imds", {"optional"})

check_rds_public_access == Check("aws_rds_public_access", "critical",
  {"DescribeDBInstances"}, "db_public", {TRUE})

check_rds_encryption == Check("aws_rds_encryption", "high",
  {"DescribeDBInstances"}, "db_encrypted", {FALSE})

RetentionReversed == Check("aws_rds_backup_retention", "medium",
  {"DescribeDBInstances"}, "db_backup_days", {7})

check_rds_backup_retention == Check("aws_rds_backup_retention", "medium",
  {"DescribeDBInstances"}, "db_backup_days", 0..6)

check_rds_deletion_protection == Check("aws_rds_deletion_protection", "low",
  {"DescribeDBInstances"}, "db_protected", {FALSE})

check_cloudtrail_enabled == Check("aws_cloudtrail_enabled", "high",
  {"DescribeTrails"}, "trail", {"single", "none"})

(* A missing trail has nothing to validate. *)
check_cloudtrail_log_validation == Check("aws_cloudtrail_log_validation",
  "medium", {"DescribeTrails"}, "trail_validated",
  IF Offenders("trail", {"none"}) = {} THEN {FALSE} ELSE {})

check_guardduty_enabled == Check("aws_guardduty_enabled", "high",
  {"ListDetectors"}, "detector", {FALSE})

check_ebs_volume_encryption == Check("aws_ebs_volume_encryption", "high",
  {"DescribeVolumes"}, "volume_crypt", {FALSE})

(* Best effort: a resource or a region that cannot be read is passed over. *)
check_kms_key_rotation ==
  Attempt("aws_kms_key_rotation", Fails({"ListKeys"}),
          At("aws_kms_key_rotation", "medium",
             Offenders("key_rotates", {FALSE}) \ FailsIn("GetKeyRotationStatus")))

check_ebs_encryption_by_default ==
  At("aws_ebs_default_encryption", "medium",
     Offenders("ebs_default", {FALSE}) \ FailsIn("GetEbsEncryptionByDefault"))

check_vpc_flow_logs ==
  At("aws_vpc_flow_logs", "medium",
     Offenders("vpc_flow_log", {FALSE})
       \ (FailsIn("DescribeVpcs") \cup FailsIn("DescribeFlowLogs")))

check_secretsmanager_rotation ==
  At("aws_secretsmanager_rotation", "low",
     Offenders("secret_rotates", {FALSE}) \ FailsIn("ListSecrets"))

BestEffort == {"aws_kms_key_rotation", "aws_ebs_default_encryption",
               "aws_vpc_flow_logs", "aws_secretsmanager_rotation"}

AwsGlobalCalls == {"GetAccountSummary", "GetAccountPasswordPolicy", "ListUsers",
  "ListAccessKeys", "ListAttachedUserPolicies", "ListMFADevices", "ListBuckets",
  "GetPublicAccessBlock", "GetBucketEncryption", "GetBucketVersioning",
  "GetBucketLogging", "DescribeTrails"}
AwsCalls == AwsGlobalCalls \cup {"DescribeSecurityGroups", "DescribeInstances",
  "DescribeDBInstances", "ListKeys", "GetKeyRotationStatus", "ListDetectors",
  "GetEbsEncryptionByDefault", "DescribeVolumes", "DescribeVpcs",
  "DescribeFlowLogs", "ListSecrets"}

aws_run_all ==
  UNION {check_iam_root_mfa, check_iam_password_policy,
    check_iam_access_key_age, check_iam_wildcard_policies, check_iam_user_mfa,
    check_s3_public_access, check_s3_encryption, check_s3_versioning,
    check_s3_access_logging, check_security_groups_open_ssh_rdp,
    check_ec2_imdsv2, check_rds_public_access, check_rds_encryption,
    check_rds_backup_retention, check_rds_deletion_protection,
    check_cloudtrail_enabled, check_cloudtrail_log_validation,
    check_guardduty_enabled, check_ebs_volume_encryption,
    check_kms_key_rotation, check_ebs_encryption_by_default,
    check_vpc_flow_logs, check_secretsmanager_rotation}
=============================================================================
