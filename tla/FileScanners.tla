---------------------------- MODULE FileScanners ----------------------------
(* auditors/k8s.py and engine/iac_scanner.py: what is submitted as text and  *)
(* judged without a cloud. A setting of a manifest or a file is read by      *)
(* substring, so that a value can offend without being unsafe.               *)
EXTENDS Auditor

(* Manifests: a pod and a role in each place, or no manifest at all. A       *)
(* role's rules are looked for under "spec"; Kubernetes has them at the top. *)
KubernetesValues ==
  [submitted |-> <<TRUE, FALSE>>,
   pod       |-> <<"unprivileged", "privileged">>,
   role      |-> <<"scoped", "wildcard_verbs", "wildcard", "wildcard_at_top">>]

Submitted == Offenders("submitted", {TRUE}) # {}

(* An empty list of manifests is answered with the findings of a demo        *)
(* cluster.                                                                  *)
DemoFindings ==
  {Finding(c[1], c[2], "demo", "demo") :
     c \in {<<"K8S-001", "critical">>, <<"K8S-002", "high">>,
            <<"K8S-003", "medium">>, <<"K8S-004", "high">>}}

audit_kubernetes_cluster ==
  IF Submitted
  THEN At("K8S-001", "critical", Offenders("pod", {"privileged"}))
         \cup At("K8S-002", "high", Offenders("role", {"wildcard"}))
  ELSE DemoFindings

TotalIssues == IF Submitted THEN Cardinality(audit_kubernetes_cluster) ELSE 11

(* In tenths of a percent, 8.5 for each issue. *)
KubernetesScore ==
  IF 85 * TotalIssues > 1000 THEN 0 ELSE 1000 - 85 * TotalIssues

(* A Terraform file with a line of each kind. *)
TerraformValues ==
  [ingress_line   |-> <<"10.0.0.0/8:22", "0.0.0.0/0:8022", "0.0.0.0/0:22">>,
   encrypted_line |-> <<TRUE, FALSE>>,
   secret_line    |-> <<"variable", "literal">>,
   public_line    |-> <<FALSE, TRUE>>]

LineIssues ==
  UNION {At("IAC-001", "critical",
            Offenders("ingress_line", {"0.0.0.0/0:8022", "0.0.0.0/0:22"})),
         At("IAC-002", "high", Offenders("encrypted_line", {FALSE})),
         At("IAC-003", "critical", Offenders("secret_line", {"literal"})),
         At("IAC-004", "critical", Offenders("public_line", {TRUE}))}

(* A file that declares a resource and offends nowhere is given one issue.   *)
scan_iac_file ==
  IF LineIssues # {} THEN LineIssues ELSE At("IAC-005", "medium", {"line 12"})
=============================================================================
