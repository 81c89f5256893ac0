---------------------------- MODULE AzureAuditor ----------------------------
(* auditors/azure.py: the checks of AzureAuditor over what its collector     *)
(* lists. The name of a network security group or of a virtual machine is    *)
(* unique in its resource group only.                                        *)
EXTENDS Auditor

Rule(inbound, allow, source, port) ==
  [inbound |-> inbound, allow |-> allow, source |-> source, port |-> port]
PortRange == Rule(TRUE, TRUE, "*", "20-3389")

AzureValues ==
  [https_only  |-> <<TRUE, FALSE>>,
   blob_public |-> <<FALSE, TRUE>>,
   min_tls     |-> <<"TLS1_3", "TLS1_2", "TLS1_1", "TLS1_0", "None">>,
   nsg_rule    |-> <<Rule(FALSE, TRUE, "*", "22"), Rule(TRUE, FALSE, "*", "22"),
                     Rule(TRUE, TRUE, "10.0.0.0/8", "22"),
                     Rule(TRUE, TRUE, "*", "443"), Rule(TRUE, TRUE, "*", "22"),
                     Rule(TRUE, TRUE, "internet", "*"), PortRange>>,
   sql_audited |-> <<TRUE, FALSE>>,
   vm_crypt    |-> <<TRUE, FALSE>>,
   vault       |-> <<"both", "soft_delete", "neither">>]

AzureCalls == {"storage_accounts", "network_security_groups", "sql_servers",
               "virtual_machines", "key_vaults"}

check_storage_https_only == Check("azure_storage_https", "high",
  {"storage_accounts"}, "https_only", {FALSE})

check_storage_public_blob == Check("azure_storage_public_blob", "critical",
  {"storage_accounts"}, "blob_public", {TRUE})

OtherThanTls12 == Check("azure_storage_min_tls", "medium",
  {"storage_accounts"}, "min_tls", {"None", "TLS1_0", "TLS1_1", "TLS1_3"})

(* Versions are compared as text; a missing one reads "None" and sorts low.  *)
check_storage_min_tls == Check("azure_storage_min_tls", "medium",
  {"storage_accounts"}, "min_tls", {"None", "TLS1_0", "TLS1_1"})

(* A port range is compared as text with the two ports and "*". *)
check_nsg_open_management == CheckByName("azure_nsg_open_mgmt", "high",
  {"network_security_groups"}, "nsg_rule",
  [inbound : {TRUE}, allow : {TRUE}, source : {"*", "0.0.0.0/0", "internet"},
   port : {"22", "3389", "*"}])

check_sql_auditing == Check("azure_sql_auditing", "medium",
  {"sql_servers"}, "sql_audited", {FALSE})

check_vm_disk_encryption == CheckByName("azure_vm_disk_encryption", "high",
  {"virtual_machines"}, "vm_crypt", {FALSE})

check_keyvault_soft_delete == Check("azure_keyvault_protection", "high",
  {"key_vaults"}, "vault", {"soft_delete", "neither"})

azure_run_all ==
  UNION {check_storage_https_only, check_storage_public_blob,
    check_storage_min_tls, check_nsg_open_management, check_sql_auditing,
    check_vm_disk_encryption, check_keyvault_soft_delete}
=============================================================================
