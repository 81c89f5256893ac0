------------------------------ MODULE Posture -------------------------------
(* One connected account from the cloud's settings to what the organisation  *)
(* is told: an audit runs every check of the account's provider and stores   *)
(* what is new, Prowler results are ingested, findings are triaged, and the  *)
(* scores, the evidence and the CI gate are computed from the stored rows.   *)
(* Kubernetes manifests and Terraform files are scanned and scored apart.    *)
(* How audits interleave is the subject of ScanPipeline: here one is a step. *)
EXTENDS AwsAuditor, AzureAuditor, GcpAuditor, FileScanners, Compliance,
        Sequences

CONSTANTS
  Levels,      \* how safe the account is at first
  Triaged,     \* checks whose findings are triaged
  MaxChanges,  \* bound: settings changed
  MaxFaults,   \* bound: faults
  MaxAudits,   \* bound: audits and ingests
  MaxTriages,  \* bound: decisions of reviewers
  MaxSteps     \* bound: all of these together

ASSUME PostureAssumption ==
  /\ IsFiniteSet(Places)
  /\ Levels \subseteq Nat \ {0}

VARIABLES
  provider,    \* the account's provider, or the kind of file scanned
  rows,        \* findings stored for the account
  scanned,     \* the last row of a file scan: issues and score
  left         \* what remains of each bound

vars == <<provider, cloud, fault, rows, scanned, left>>

----------------------------------------------------------------------------
(* The account. *)

ValuesOf == [aws |-> AwsValues, azure |-> AzureValues, gcp |-> GcpValues,
             kubernetes |-> KubernetesValues, terraform |-> TerraformValues]
Providers == DOMAIN ValuesOf
Values   == ValuesOf[provider]
Settings == DOMAIN Values

PlacesOf(s) ==
  IF s \in AwsGlobal \cup GcpGlobal \cup {"submitted"} THEN {"global"} ELSE Places

InRange(s) == {Values[s][i] : i \in 1..Len(Values[s])}

Calls ==
  CASE provider = "aws" -> AwsCalls
    [] provider = "azure" -> AzureCalls
    [] provider = "gcp" -> GcpCalls
    [] OTHER -> {}

run_all ==
  CASE provider = "aws" -> aws_run_all
    [] provider = "azure" -> azure_run_all
    [] provider = "gcp" -> gcp_run_all
    [] provider = "kubernetes" -> audit_kubernetes_cluster
    [] OTHER -> scan_iac_file

----------------------------------------------------------------------------
(* The rows. *)

Statuses == {"open", "accepted_risk", "resolved"}

Row(f) == [check |-> f.check, error |-> f.error, severity |-> f.severity,
           resource |-> f.resource, status |-> "open"]

Stored(f) == \E r \in rows : dedup_hash(r) = dedup_hash(f)

(* _persist_findings: what is stored already is left as it is, and what is   *)
(* found no more stays.                                                      *)
Replaced(found) == {Row(f) : f \in found}

Persisted(found) == rows \cup {Row(f) : f \in {g \in found : ~Stored(g)}}

Open == {r \in rows : r.status = "open"}

_failed_check_ids == {r.check : r \in {q \in Open : ~q.error}}

Scores == compute_scores(_failed_check_ids)

LenientGate(open) ==
  /\ Cardinality({r \in open : r.severity = "critical"}) <= 1
  /\ Cardinality({r \in open : r.severity = "high"}) <= 2

(* The gate of POST /cicd/gate; fail_on_severity is read and not used. *)
evaluate_pipeline_gate(open) ==
  /\ Cardinality({r \in open : r.severity = "critical"}) <= 0
  /\ Cardinality({r \in open : r.severity = "high"}) <= 2

(* parse_prowler_json: a result that failed becomes a finding under a name   *)
(* of its own; an unknown severity is medium.                                *)
RawSeverity(results) ==
  {Finding("prowler_check", r.severity, "all", r.severity) :
     r \in {q \in results : q.failed}}

parse_prowler_json(results) ==
  {Finding("prowler_check", IF r.severity = "unknown" THEN "medium"
                            ELSE r.severity, "all", r.severity) :
     r \in {q \in results : q.failed}}

----------------------------------------------------------------------------

(* An account whose settings are all this safe, or as weak as they get. *)
Uniform(i) == [s \in Settings |-> [p \in PlacesOf(s) |->
                 Values[s][IF i <= Len(Values[s]) THEN i ELSE Len(Values[s])]]]

Init ==
  /\ provider \in Providers
  /\ cloud \in {Uniform(i) : i \in Levels}
  /\ fault = NoFault
  /\ rows = {} /\ scanned = [issues |-> 0, score |-> 1000]
  /\ left = [changes |-> MaxChanges, faults |-> MaxFaults, audits |-> MaxAudits,
             triages |-> MaxTriages, steps |-> MaxSteps]

Spend(what) ==
  /\ left[what] > 0 /\ left.steps > 0
  /\ left' = [left EXCEPT ![what] = @ - 1, !.steps = @ - 1]

(* Somebody changes a setting of the account. *)
Change(s, p, v) ==
  /\ Spend("changes")
  /\ cloud[s][p] # v /\ cloud' = [cloud EXCEPT ![s][p] = v]
  /\ UNCHANGED <<provider, fault, rows, scanned>>

(* A permission is withdrawn, or a call times out, in one place. *)
Break(call, p, kind) ==
  /\ Spend("faults") /\ fault = NoFault
  /\ fault' = [call |-> call, place |-> p, kind |-> kind]
  /\ UNCHANGED <<provider, cloud, rows, scanned>>

Repair ==
  /\ fault # NoFault /\ fault' = NoFault
  /\ UNCHANGED <<provider, cloud, rows, scanned, left>>

Audit ==
  /\ provider \in {"aws", "azure", "gcp"}
  /\ Spend("audits")
  /\ rows' = Persisted(run_all)
  /\ UNCHANGED <<provider, cloud, fault, scanned>>

(* POST /k8s/scan and /iac/scan: a row of their own tables. *)
ScanFile ==
  /\ provider \in {"kubernetes", "terraform"}
  /\ Spend("audits")
  /\ scanned' = IF provider = "kubernetes"
                THEN [issues |-> TotalIssues, score |-> KubernetesScore]
                ELSE [issues |-> Cardinality(run_all), score |-> 0]
  /\ UNCHANGED <<provider, cloud, fault, rows>>

Ingest(results) ==
  /\ provider \in {"aws", "azure", "gcp"}
  /\ Spend("audits")
  /\ rows' = Persisted(parse_prowler_json(results))
  /\ UNCHANGED <<provider, cloud, fault, scanned>>

(* update_finding: a reviewer decides. *)
Triage(r, status) ==
  /\ Spend("triages")
  /\ r.check \in Triaged /\ r.status # status
  /\ rows' = (rows \ {r}) \cup {[r EXCEPT !.status = status]}
  /\ UNCHANGED <<provider, cloud, fault, scanned>>

Next ==
  \/ \E s \in Settings : \E p \in PlacesOf(s), v \in InRange(s) : Change(s, p, v)
  \/ \E call \in Calls, kind \in Kinds :
       \E p \in IF call \in AwsGlobalCalls THEN {"global"} ELSE Places :
         Break(call, p, kind)
  \/ Repair
  \/ Audit
  \/ ScanFile
  \/ \E severity \in {"critical", "unknown"} :
       Ingest([failed : BOOLEAN, severity : {severity}])
  \/ \E r \in rows, status \in Statuses : Triage(r, status)

Spec == Init /\ [][Next]_vars

----------------------------------------------------------------------------
(* Properties. *)

TypeOK ==
  /\ provider \in Providers
  /\ \A s \in Settings : \A p \in PlacesOf(s) : cloud[s][p] \in InRange(s)
  /\ fault # NoFault => fault.call \in Calls /\ fault.kind \in Kinds
  /\ scanned.score \in 0..1000
  /\ \A r \in rows : r.severity \in Severities /\ r.status \in Statuses

(* The checks whose resources have a name in a zone or a resource group only *)
(* and lose all but the first of a name (azure.py:74, gcp.py:81).            *)
NamedInPart == {"azure_nsg_open_mgmt", "azure_vm_disk_encryption",
                "gcp_instance_public_ip"}

(* Two resources that offend against one check have two dedup hashes, or the *)
(* second would never be stored (_persist_findings skips it as a duplicate). *)
OffendersKeptApart ==
  LET found == {f \in run_all : f.check \notin NamedInPart} IN
  Cardinality({dedup_hash(f) : f \in found})
    = Cardinality({<<f.place, dedup_hash(f)>> : f \in found})

(* What the checks take for safer than it is: rules without ports in AWS,    *)
(* port ranges in Azure and GCP, a key without a date, no trail to validate; *)
(* a role whose rules are not under spec, and no manifests at all.           *)
Misjudged(s, v) ==
  \/ s = "ingress" /\ v = AllTraffic
  \/ s = "nsg_rule" /\ v = PortRange
  \/ s = "firewall" /\ v = OpenRange
  \/ s = "access_key" /\ v.age = NoDate
  \/ s = "trail" /\ v = "none"
  \/ s = "submitted" /\ v = FALSE
  \/ s = "role" /\ v = "wildcard_at_top"

Rank(s, v) == CHOOSE i \in 1..Len(Values[s]) : Values[s][i] = v

Hardened ==
  /\ cloud' # cloud
  /\ \A s \in Settings : \A p \in PlacesOf(s) :
       cloud'[s][p] # cloud[s][p] =>
         /\ Rank(s, cloud'[s][p]) < Rank(s, cloud[s][p])
         /\ ~Misjudged(s, cloud[s][p])

Offences(found) ==
  {<<f.check, f.place>> : f \in {g \in found : g.check # "IAC-005"}}

(* Making one setting safer never makes a check report more, whatever else   *)
(* is unsafe and whichever call fails (the issue a clean file is given       *)
(* aside, iac_scanner.py:72).                                                *)
HardeningNeverAddsFindings ==
  [][Hardened => Offences(run_all') \subseteq Offences(run_all)]_vars

(* What an audit misses while a call fails, it says: the check's place is    *)
(* taken by an error (run_all), or the check is one of the four that pass    *)
(* over what they cannot read.                                               *)
FaultsAreLoud ==
  [][Repair => \A f \in run_all' :
       \/ <<f.check, f.place>> \in Offences(run_all)
       \/ \E e \in run_all : e.error /\ e.check = f.check
       \/ f.check \in BestEffort]_vars

(* A score rises, and the gate opens, when a reviewer decides and at no      *)
(* other time: not because a check failed, was not run, or found less.       *)
ImprovesOnlyByTriage ==
  [][rows' # rows =>
       \/ LET before == Scores
              after  == Scores' IN
          /\ \A fw \in FRAMEWORKS : after[fw] <= before[fw]
          /\ evaluate_pipeline_gate(Open)' => evaluate_pipeline_gate(Open)
       \/ \E r \in rows, status \in Statuses : Triage(r, status)]_vars

(* Every open finding of an audit is paid for: it lowers the score of soc2,  *)
(* which maps all checks, is a failed line of the evidence of each framework *)
(* that maps it, and the frameworks' scores and evidence agree.              *)
EveryFindingCounts ==
  LET failed == _failed_check_ids
      scores == compute_scores(failed) IN
  /\ failed \ {"prowler_check"} # {} => scores["soc2"] < 1000
  /\ \A fw \in FRAMEWORKS :
       LET lines == evidence_report(fw, failed) IN
       /\ \A check \in failed : check \in DOMAIN lines => lines[check] = "fail"
       /\ scores[fw] = 1000 <=> \A check \in DOMAIN lines : lines[check] = "pass"

(* A build passes the gate only while no critical finding of an audit that   *)
(* nobody triaged is open, however often the cloud was changed and audited.  *)
CriticalBlocksBuild ==
  evaluate_pipeline_gate(Open) =>
    \A f \in run_all : f.severity = "critical" /\ Stored(f) =>
      \E r \in rows : dedup_hash(r) = dedup_hash(f) /\ r.status # "open"

=============================================================================
