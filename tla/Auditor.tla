------------------------------ MODULE Auditor ------------------------------
(* What the auditors of the three clouds share (auditors/base.py,           *)
(* auditors/findings.py). An account is a function from settings to what     *)
(* the cloud's API says of them in each place; every place holds one         *)
(* resource of each kind, and the resources of two places have one name.     *)
EXTENDS Integers, FiniteSets

CONSTANTS
  Places,      \* regions (AWS), zones (GCP), resource groups (Azure)
  NoFault      \* every API call answers

VARIABLES
  cloud,       \* setting -> place -> value
  fault        \* NoFault, or the call that fails, where, and how

----------------------------------------------------------------------------
(* Findings. *)

Severities == {"info", "low", "medium", "high", "critical"}

Finding(check, severity, place, resource) ==
  [check |-> check, severity |-> severity, place |-> place,
   resource |-> resource, error |-> FALSE]

(* dedup_hash: account, check id and resource; neither region nor severity. *)
dedup_hash(f) == <<f.check, f.error, f.resource>>

----------------------------------------------------------------------------
(* Faults. A denied call raises ClientError, one that times out does not.    *)

Kinds == {"denied", "timeout"}

Fails(calls)    == fault # NoFault /\ fault.call \in calls
TimesOut(calls) == Fails(calls) /\ fault.kind = "timeout"
FailsIn(call)   == IF Fails({call}) THEN {fault.place} ELSE {}

(* run_all turns a check that raises into one "info" finding: what the check *)
(* found before it raised is lost.                                           *)
Failed(check) == {[check |-> check, severity |-> "info", place |-> "all",
                   resource |-> "provider", error |-> TRUE]}

Attempt(check, raises, found) == IF raises THEN Failed(check) ELSE found

----------------------------------------------------------------------------
(* The usual check: one finding for each resource whose setting is unsafe.   *)

Offenders(setting, unsafe) ==
  {p \in DOMAIN cloud[setting] : cloud[setting][p] \in unsafe}

Seen(setting) == {cloud[setting][p] : p \in DOMAIN cloud[setting]}

Bare(p) == "resource"

(* AWS names a regional resource region/id. *)
Qualified(p) == p

At(check, severity, places) ==
  {Finding(check, severity, p, Qualified(p)) : p \in places}

Check(check, severity, calls, setting, unsafe) ==
  Attempt(check, Fails(calls),
          At(check, severity, Offenders(setting, unsafe)))

(* Azure and GCP name it without the resource group or the zone. *)
CheckByName(check, severity, calls, setting, unsafe) ==
  Attempt(check, Fails(calls),
          {Finding(check, severity, p, Bare(p)) :
             p \in Offenders(setting, unsafe)})
=============================================================================
