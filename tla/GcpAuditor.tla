----------------------------- MODULE GcpAuditor -----------------------------
(* auditors/gcp.py: the checks of GCPAuditor over what its collector lists.  *)
(* The name of an instance is unique in its zone only.                       *)
EXTENDS Auditor

Firewall(ingress, world, ports) ==
  [ingress |-> ingress, world |-> world, ports |-> ports]
OpenRange == Firewall(TRUE, TRUE, {"20-3389"})

GcpValues ==
  [bucket_member  |-> <<"owner", "allAuthenticatedUsers", "allUsers">>,
   bucket_uniform |-> <<TRUE, FALSE>>,
   firewall       |-> <<Firewall(FALSE, TRUE, {"22"}),
                        Firewall(TRUE, FALSE, {"22"}),
                        Firewall(TRUE, TRUE, {"443"}),
                        Firewall(TRUE, TRUE, {"22", "443"}),
                        Firewall(TRUE, TRUE, {}), OpenRange>>,
   external_ip    |-> <<FALSE, TRUE>>,
   oldest_key     |-> <<89, 90>>,
   sql_ipv4       |-> <<FALSE, TRUE>>,
   audit_config   |-> <<TRUE, FALSE>>]

GcpGlobal == {"firewall", "oldest_key", "sql_ipv4", "audit_config"}

GcpCalls == {"buckets", "firewalls", "instances", "service_accounts",
             "sql_instances", "audit_config"}

check_bucket_public_access == Check("gcp_bucket_public", "critical",
  {"buckets"}, "bucket_member", {"allUsers", "allAuthenticatedUsers"})

check_bucket_uniform_access == Check("gcp_bucket_ubla", "medium",
  {"buckets"}, "bucket_uniform", {FALSE})

(* No ports at all means every port; a range is compared as text.            *)
check_firewall_open_ingress == Check("gcp_firewall_open", "high",
  {"firewalls"}, "firewall",
  {Firewall(TRUE, TRUE, ports) : ports \in
     {ps \in SUBSET {"22", "3389", "443", "20-3389"} :
        ps \cap {"22", "3389"} # {} \/ ps = {}}})

check_instance_public_ip == CheckByName("gcp_instance_public_ip", "medium",
  {"instances"}, "external_ip", {TRUE})

(* Reported from day 90 on, where AWS keys are from day 91. *)
check_sa_key_rotation == Check("gcp_sa_key_age", "medium",
  {"service_accounts"}, "oldest_key", {90})

check_sql_public_ip == Check("gcp_sql_public_ip", "high",
  {"sql_instances"}, "sql_ipv4", {TRUE})

check_audit_logging == Check("gcp_audit_logging", "medium",
  {"audit_config"}, "audit_config", {FALSE})

gcp_run_all ==
  UNION {check_bucket_public_access, check_bucket_uniform_access,
    check_firewall_open_ingress, check_instance_public_ip,
    check_sa_key_rotation, check_sql_public_ip, check_audit_logging}
=============================================================================
