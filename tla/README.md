# TLA+ models of the Cloud Security Posture Manager

This directory holds the formal models kept beside the code in `src/cspm`: TLA+
modules, the TLC configurations that check them on small instances, and proofs
checked by TLAPS. `PROJECT.json` lists, for every definition, the source lines it
stands for, and every run, seeded fault, hazard and theorem.

    tlc -workers 2 -config scan_async.cfg MCScanPipeline.tla
    tlapm ScanPipelineProofs.tla

## 1. The system

The program is a FastAPI service with a PostgreSQL database and Celery workers on
a Redis broker. Endpoints are `def` functions, so one API process runs many of them
at once on its thread pool; there may be several API and worker processes, and the
worker starts with its default concurrency (`docker-compose.yml:51`). All of them
share state only through the database and the broker.

| Component | State | Operations | Meets others through |
|---|---|---|---|
| Scan pipeline (`service.py`, `tasks.py`, scan routes of `api/router.py`) | accounts, scan runs, findings, compliance snapshots, task messages | trigger, ingest, audit, triage, purge, disconnect | rows and row locks; task messages; audit log |
| Audit log (`shared/audit.py`) | one hash chain per organisation in one table | `record_action`, `verify_chain`, purge | called at the end of seven handlers of `router.py` |
| Drift (`drift/detector.py`, `run_drift_check`, drift routes) | baselines, drift events, violation findings | sweep, check, approve, reject | beat schedule, queue, findings table |
| Entitlements (`billing/entitlements.py`, `plans.py`) | subscription row | trial, lazy expiry, quota and limit checks | every gated handler |
| Billing gateways (`billing/*_gateway.py`) | the same subscription row; Stripe, Razorpay | checkout, portal, webhooks | webhooks arrive whenever the provider sends them |
| Auditors (`auditors/`) | none | one query and predicate per check, `run_all`, Prowler parser | their findings feed the pipeline |
| Compliance (`compliance/`) and CI gate (`integrations/cicd.py`) | none | scores, evidence, pass or fail from the open findings | read the findings |
| File scanners (`auditors/k8s.py`, `engine/iac_scanner.py`) | a row per scan | judge manifests and Terraform text | none |
| Engines (`engine/inventory.py`, `attack_path.py`, `ciem.py`) | assets, attack paths, CIEM records | delete and insert anew on a GET | accounts; each other's rows |
| Access (`api/middleware.py`, `shared/deps.py`, `auth/`, `api/auth_router.py`, `db.py`) | request windows in one process, API keys, memberships, connections and their organisation scope | admit, authenticate, authorise, scope; issue and revoke keys; SCIM | every handler |
| Crypto (`security/`) | none | envelope encryption, key providers | credentials of accounts |
| MSSP (`api/mssp_router.py`) | client organisations and their mapping | create, list | organisations |
| The rest: connectors, notifications, ticketing, reports, GraphQL, CLI, SDKs, web UI | none of their own | outbound calls, read-only queries, rendering | |

What is hard here, and what the properties are for:

* **Overlapping transactions at READ COMMITTED.** Sessions check, then act: the
  quota (`entitlements.py:118`), the SELECT by `dedup_hash` (`service.py:80`), the
  newest audit entry (`audit.py:52`), the baseline (`service.py:241`), the
  subscription (`entitlements.py:23`).
* **Several transactions in one operation.** A scan request commits an audit entry,
  then a queued run, then sends a message; an audit commits its result, then its
  snapshot. A crash or an error can fall in between.
* **The queue.** Messages are acknowledged as the task starts, can be lost with a
  worker, and can be delivered twice after the Redis visibility timeout.
* **Rows that go away**: purge, disconnect, triage while a scan is at work.
* **Webhooks** late, twice and out of order, beside requests that write the same row.
* **Audits that fail in part**: one region, one bucket, one permission.
* **The organisation scope** of the row-level policies, which is a setting of a pooled
  connection and ends with a transaction, while a handler commits several times.

Properties that make each component correct: *scan pipeline* - a scan ends exactly once,
its findings appear with its completion and never without it, counts match rows, nothing
dangles, queued work ends, limits hold; *audit log* - a chain nobody touched verifies,
in a chain that verifies whatever an entry is chained to is there as it was written;
*drift* - one baseline per resource, an approval means the state that was reviewed,
nothing is approved unreviewed; *entitlements and billing* - who pays is served, the
plan in force is the one paid for where the gateway's events say which, a trial happens
once, limits hold up to the requests that overlap; *auditors to gate* - an offence is
reported, a failure is loud, nothing but a decision improves a score; *engines* - a
reader always finds assets, copies do not pile up; *access* - a revoked key stays
revoked, nobody is shown another organisation's rows, at most the limit in any minute.

## 2. Modules

| Module | What it is |
|---|---|
| `ScanPipeline` | The detailed specification of the scan pipeline of one organisation |
| `ScanBook` | What the pipeline promises its readers; `ScanPipeline` implements it |
| `MCScanPipeline` + `scan_*.cfg` | Instances for TLC |
| `ScanPipelineProofs` | Inductive invariant and theorems |
| `ScanBookProofs` | That each run is handled once, and that `ScanPipeline` implements `ScanBook` |
| `AuditChain` | The hash-chained audit log |
| `MCAuditChain` + `audit_*.cfg` | Instances for TLC |
| `AuditChainProofs` | Inductive invariant and theorems |
| `DriftReview` | Drift checks, reviews, the baseline and the findings of rejections, for one account |
| `MCDriftReview` + `drift_*.cfg` | Instances for TLC |
| `DriftReviewProofs` | Inductive invariant and theorems |
| `Subscription` | One organisation's plan: requests, trials, checkouts, webhooks of three billing modes |
| `SubscriptionProofs` | Inductive invariant and theorems |
| `MCSubscription` + `billing*.cfg` | Instances for TLC |
| `Auditor` | What the checks share: findings, hashes, failing calls, `run_all` |
| `AwsAuditor`, `AzureAuditor`, `GcpAuditor` | One operator per check of each provider |
| `FileScanners` | Kubernetes manifests and Terraform files |
| `Compliance` | The mapping of checks to frameworks, scores, evidence |
| `Posture` | Composes the seven above: an account that changes and is audited, triaged, scored and gated |
| `PostureProofs` | Inductive invariant and theorems, check by check |
| `MCPosture` + `posture.cfg` | Instance for TLC |
| `Engines` | Assets, attack paths and CIEM records regenerated by concurrent requests |
| `EnginesProofs` | Inductive invariant and theorems |
| `MCEngines` + `engines.cfg` | Instance for TLC |
| `Access` | Rate limit, identities, API keys, SCIM, connections and the organisation scope |
| `AccessProofs` | Inductive invariant and theorems |
| `MCAccess` + `access*.cfg` | Instances for TLC |

Some definitions belong to no specification: those `PROJECT.json` names under `mutants`
as the `as` of another. Each is a plausible mistake in the definition that follows it;
putting it in that definition's place must make the property named there fail, which
shows that the property depends on the code being right.

### ScanPipeline

Variables hold **committed** rows. What an open transaction has flushed is in the
record of its session (`job[s]`), with the row locks that flush implies, until it
commits. Sessions are Celery workers and API requests.

| Code | Model |
|---|---|
| `trigger_scan` up to `record_action` | `Admit` (account found and quota checked in one step; the audit entry's commit follows) |
| `create_scan_run`; `delay()` | `CreateScanRun`; `Enqueue`, `EnqueueFails` |
| `run_audit(db, account)` in the request, `ingest_findings` | `BeginEager`, `BeginIngest` |
| the task's `db.get` of account and run | `Take` |
| status and `started_at` flushed | `StartQueued` (waits for the row lock), `LoadedRunGone` |
| `auditor.run_all()` returns or raises | `AuditReturns` (any batch of findings), `AuditRaises` |
| one turn of the loop of `_persist_findings` | `PersistOne` |
| the commit at `service.py:141` | `CommitScan`, or `CommitConflicts` on the unique `dedup_hash` |
| `_record_compliance_snapshot` | `RecordSnapshot` |
| `update_finding`, `_retention_purge`, `disconnect_account` | `UpdateFinding`, `RetentionPurge`, `Disconnect` |
| death of a process; the broker's second delivery; the calendar | `Crash`, `Redeliver`, `NewMonth` |

Points where the model follows the code closely and which matter:

* `status = "running"` is flushed, never committed, so no other session ever sees it,
  and `started_at` is invisible to the quota until the run ends.
* The session is created with `autoflush=False` (`db.py:35`): the SELECTs of
  `_persist_findings` see neither its own additions nor those of other open
  transactions.
* The ORM writes `findings_count` only when the new value differs from the one the
  session loaded (`CountAfter`).
* `run_audit` does not look at the status of the run it is given.
* The completing commit is outside the `try`.

A finding is identified by account and check: a pair stands for a `dedup_hash`.
Abstracted: severity and texts of findings, the score arithmetic (a snapshot keeps
the set of failed checks it is computed from), alerts, `completed_at`, `checks_run`.
The purge's age test is any set of resolved findings. A disconnect that fails on a
foreign key (a scan committed after the ORM loaded the account's rows, or a drift
event of the account) changes nothing and is a stuttering step. `dev_seed` is refused
in production and left out. `plan_of`'s lazy trial expiry is in `Subscription`;
here the limit is a constant.

### ScanBook

Three variables: connected accounts, each scan's account and state, each finding's
scan and triage state. A scan is requested once and ends once; its new findings
appear in the step that completes it; a published finding is never taken over. The
refinement mapping forgets queue, sessions, counts and snapshots.

### AuditChain

SHA-256 is taken as free of collisions: a hash is the sequence of everything hashed
into it, "genesis" is the empty sequence. `record_action` is `ReadLast` (the SELECT,
nothing locks it), then `AppendEntry` or `WriteFails` (the exception is swallowed).
The history variables `written` (every row as it was committed), `touched` and `edits`
are there for the properties and the bounds only. `RetentionPurge` is the audit half of
`_retention_purge`; `EditRow` and `DeleteRow` are changes made in the database. An edit
gives a row other content, another row's `seq` or another row's hash as its predecessor,
and leaves its hash alone or computes it anew (`Edits`): `_entry_hash` takes no key, so
whoever can write the table can. `VerifyChain` is the loop of
`verify_chain` over the rows in an order `ORDER BY seq` may return them in.

### DriftReview

One cloud account. Baseline rows are known by the transaction that inserted them:
nothing in the schema makes them unique per resource. Handlers read in one step and
write in a later one, with the values they read.

| Code | Model |
|---|---|
| sweep, `_run_drift_check`, snapshots and the SELECT of `run_drift_check` | `BeginCheck` |
| its two commits | `EstablishBaseline` (no row was read), `RecordDrift` |
| anything raising, a foreign key, a dead worker | `CheckFails` |
| `_drift_or_404` in either request | `OpenReview` |
| `one_or_none` on the baseline | `FindBaseline`, `BaselineAmbiguous` |
| the commit of `approve_drift` | `Approve`, `ApproveStale` (the row to update is gone: `StaleDataError`) |
| the commit of `reject_drift` | `Reject`, `RejectConflict` (the event has a finding already) |
| `_retention_purge`, `disconnect_account` | `RetentionPurge`, `Disconnect` (refused while the account has a drift event) |

The ORM's habit of writing a column only when it differs from what was loaded matters
twice: a status loaded as "approved" is not written again by an approval
(`StatusAfter`), and a baseline loaded with the approved state is not updated
(`Updated`). Rows updated or deleted are found by primary key at the commit, whatever
they hold by then. Neither request looks at the event's present status, as in the
code. Configurations are values up to key and list order, which is the equality
`DeepDiff(ignore_order=True)` decides. Abstracted: the classification of a change and
the rollback texts, the triage status of a rejection's finding, and the alert for
sensitive drift, sent to a task name nobody registers.

### Subscription

One organisation's row of `cspm_subscriptions`. A session loads the row, then writes
back, at its commit, the columns in which its object differs from what it loaded
(`Commit`): this is what SQLAlchemy's UPDATE names, and it is why two sessions can
leave a row that neither wrote.

| Code | Model |
|---|---|
| `get_subscription` | `Request` or `Deliver` (the SELECT), `CreateRow` (the INSERT, refused by the unique `org_id` when another was first) |
| `plan_of`, with its lazy expiry of trials | `ResolvePlan`, `plan_of` |
| `check_account_limit`, `check_api_key_limit`; `require_feature(MULTI_CLOUD)` | `CheckLimit`; `CheckFeature` |
| the commit of `connect_account` or `create_api_key`; deletion | `InsertRow`; `RemoveRow` |
| `start_trial`, `create_checkout` | actions of the same names |
| `POST /billing/webhook` | `Deliver`, `ApplyWebhook` with `handle_webhook` or `handle_razorpay` |
| the customer and the gateway | `Pay`, `SwitchPlan`, `PaymentFails`, `PaymentRecovers`, `Cancel`; each puts its events in `mail` |

The gateway repeats an event until it is acknowledged, in no order. `Tagged` says in
which kinds of event the handler finds an organisation, by what `create_checkout` sends:
Stripe's checkout session carries the id in its metadata and the subscription and
invoices that follow do not (`TaggedByStripe`, `stripe_gateway.py:92-102`), while
Razorpay's notes are on the subscription itself (`TaggedByRazorpay`). The branches of
`handle_webhook` for the other kinds are translated, but no event of Stripe's reaches
them; the tests that reach them post the id by hand. `orderly` is a history variable: no
session overlapped another and no event overtook an older one. Left out: ids of
customers and subscriptions (the portal and the invoice list use them), signatures,
which are taken to hold, and the refusal of every Razorpay event when a secret is
configured, since the route reads Stripe's header only (`billing_router.py:115`); the
model is of a deployment without that secret.

### Auditor, AwsAuditor, AzureAuditor, GcpAuditor, FileScanners, Compliance, Posture

An account is a function from settings to values, per place (region, zone, resource
group); a check is the set of findings it returns for it. Each setting's values are
listed from the safest to the weakest, chosen so that every branch of the check decides
both ways (89 and 90 days, port 22 at either end of a range, a rule without ports).
`fault` is one API call that fails in one place, denied or timed out: most checks then
raise and `run_all` replaces **all** they found by one error (`Attempt`); the bucket
checks report what they cannot read (`BucketCheck`); four pass over it (`BestEffort`).
A dedup hash is account, check and resource name. AWS names a resource `region/id`,
Azure and GCP by its bare name.

`Posture` runs an audit as one step (its interleavings are the subject of
`ScanPipeline`): `Audit` stores what is not stored, `Ingest` does so for Prowler
results, `Triage` decides on a row, `ScanFile` writes the row of a manifest or Terraform
scan, and `Change`, `Break` and `Repair` are the outside world. Scores are in tenths of
a percent, as `round(..., 1)` leaves them. Abstracted: control numbers, titles, texts;
within a line of Terraform, the cases its rules tell apart.

### Engines

A regeneration deletes an organisation's rows and inserts new ones in one transaction at
READ COMMITTED: `StartDelete` takes the snapshot of the DELETE, `FinishDelete` waits
for rows another transaction is deleting and passes over those that went (what
PostgreSQL does), `InsertAndCommit` commits both. The six assets or two paths of one
regeneration are one *generation*, named by the request. `Analyse` and `Record` are
`analyze_iam_entitlements`, including the default account it creates when there is
none. `GET /assets` is `QueryAssets`, a regeneration if nothing matched, `AnswerAssets`.
`dev_seed` (`router.py:241-265`) also inserts an account without asking for the limit; it
is refused in production, which is what is modelled.

### Access

A request is a list of statements, and each COMMIT gives the connection back to the
pool and ends the transaction and with it `app.current_org`. `Visible(c)` is what the
policies of migration 0002 let connection `c` see: everything when the policies do not
bind the database role (`enforced` is FALSE: SQLite, or a superuser as in
`docker-compose.yml`), else the rows of the organisation in scope, and none without a
scope. `cspm_subscriptions` has no policy, so `Plan`, which reads it, does not use
`Visible`. An API key is known by its index; a request presents a key, claims (of a token,
or of the trusted headers) or the SCIM token; signatures and hashes are taken to hold.

| Code | Model |
|---|---|
| `RateLimitMiddleware.dispatch` | `Arrive` (one process; a clock that does not step back) |
| `verify_api_key`: SELECT; commit of `last_used_at` | `VerifyKey`; `TouchKey` |
| `get_org_context`, `require_role` | `ScopeKey`, `VerifyClaims`, `Enter` |
| `_require_scim`, `scim_deprovision_user` | `VerifyScim`, `Deprovision` |
| statements of `list_accounts`, `connect_account`, `create_key`, `revoke_key` | `Select`, `Plan`, `Insert`, `Commit`, `Refresh`, `RecordAction`, `FindKey` |
| `get_db`'s finally | `Close` |

## 3. Runs

All instances stop when their bounds (ids, entries, months, days) are used up, so
deadlock is not checked.

| Run | Instance | Shows |
|---|---|---|
| `scan_async` | 2 workers, 1 request, 2 accounts, 2 scans, batches with a duplicate or two checks; crash, broker outage, purge, triage, disconnect | `TypeOK`, `Anchored`, `StoredMatchesCount`, `TerminalIsFinal`, and that the pipeline implements `ScanBook` |
| `scan_live` | fair; 1 native scan and an upload whose hashes cannot meet it; redelivery, triage, disconnect | `QueuedScanFinishes`, `CompletedScanIsSnapshotted` |
| `scan_eager` | 2 requests, limit 1, 3 scans, 2 months, eager tasks | `QuotaOverrunBounded`, `StoredMatchesCount` (as an equality: nothing is purged), `RecordsWhatItFound` |
| `scan_stuck` | fair, 2 workers, no environment event | **violated** `QueuedScanFinishes` |
| `audit_chain` | 2 organisations, 2 writers, 3 entries, purge, 1 edit, deletions; writers, organisations and contents are symmetric | `TypeOK`, `VerifiedAncestry`, `IntactVerifies` |
| `audit_fork` | 2 writers, nothing else | **violated** `ChainsVerify` |
| `drift_review` | 1 resource with 2 configurations or none, 2 checks, 2 reviewers, 3 inserting transactions; sessions and configurations are symmetric | `TypeOK`, `ViolationHasFinding`, `BaselineFollowsReview`, `DriftIsExact` |
| `billing` | fair; each billing mode, 2 sessions, 1 subscription bought, 4 events, repeated checkouts and activations, 1 trial period, up to 2 rows asked for | `TypeOK`, `InSync`, `PaidIsServed`, `TrialsBounded`, `LimitsBounded`, `PaidForCause`, `PurchaseTakesEffect` |
| `posture` | every check of the 3 providers and both file scanners, 2 regions, accounts at their safest, at the second step and at their weakest; any 3 of 1 change, 1 fault, 2 audits, 1 decision | `TypeOK`, `OffendersKeptApart`, `EveryFindingCounts`, `CriticalBlocksBuild`, `HardeningNeverAddsFindings`, `FaultsAreLoud`, `ImprovesOnlyByTriage` |
| `engines` | 2 sessions, 4 requests, a plan of 1 account; crash, disconnect | `TypeOK`, `AssetsNeverVanish`, `CopiesBounded`, `AccountsBounded`, `LoneRegenerationReplaces` |
| `access` | 2 organisations, 2 sessions, 2 connections, 2 keys of one prefix, limit 2 a minute, 3 requests, policies in force or not; crash | `TypeOK`, `RateBounded`, `OwnRowsOnly`, `RevocationSticks` |
| `access_scope` | the same with the policies in force, 2 requests | **violated** `ScopeLastsRequest` |

Further counterexamples, which are not in `PROJECT.json` and are run by hand; each
violates the property named:

| Configuration | Property | What it shows |
|---|---|---|
| `scan_quota.cfg` (`MCScanPipeline`) | `ScansWithinPlan` | queued scans are not counted by the quota |
| `scan_redelivered.cfg` (`MCScanPipeline`) | `StoredMatchesCount` | a message delivered twice spoils the count |
| `audit_purged.cfg` (`MCAuditChain`) | `ChainsVerify` | the retention purge breaks every chain |
| `audit_rehashed.cfg` (`MCAuditChain`) | `EditsShow` | an edit with recomputed hashes passes `verify_chain` |
| `drift_relearned.cfg` (`MCDriftReview`) | `EstablishedOnce` | an emptied baseline is established anew, unreviewed |
| `drift_twins.cfg` (`MCDriftReview`) | `OneBaselinePerResource` | two first checks leave two baselines |
| `billing_untagged.cfg` (`MCSubscription`) | `Synced` | what follows a purchase at Stripe is forgotten |
| `billing_raced.cfg` (`MCSubscription`) | `PaidIsServedAnyway` | a request that read the row before a webhook takes the purchased plan away |

Why the bounds suffice: two sessions on one account are what a race on a hash, a row
or the quota needs; a third only repeats it. Two accounts show that one account's
scans do not disturb another's. Two checks give a batch that partly overlaps an
earlier one. Three audit entries give a first, an interior and a last one, and two
organisations in one table tell the chains apart; the one edit goes with any number of
purges and deletions (the theorem has any number of edits too). Two months make the quota start
again. Resources drift independently of each other (a baseline row, an event and a
finding name one resource each), so one is enough for the races; three inserting
transactions allow two concurrent first checks and an event, or a baseline and two
events on it. Two sessions
bring the free plan, whose limit is one account, to two. One subscription and four
events are a purchase (two events), a change and its late repetition or a cancellation.
A setting is changed in one place at a time, so two places tell a change from what stays,
and the checks do not look at each other's settings; three steps allow audit, change or
decision, audit. Two requests are a race of engines, four let a lone regeneration follow
two that overlapped. Two sessions on two connections let a connection pass from one
organisation to the other; two admissions and a third request in three ticks reach the
limit, a full minute and the one after it. The theorems of section 5 have no bounds.

The violations are disagreements between the code and what its documents or tests
say; those of the listed runs are described under `findings`:

1. **A scan stays queued for ever** (`scan_stuck`). Two audits of one account read
   before either commits; the second commit meets the unique `dedup_hash`, and the
   exception passes `run_audit` by, whose `try` ended before it.
2. **The monthly scan limit is not a limit** (`scan_quota`). Queued and running scans
   have no committed `started_at`; the quota counts only those that ended.
   With eager tasks the overrun is bounded (`QuotaOverrunBounded`); with the queue
   it is not.
3. **A message delivered twice spoils the count** (`scan_redelivered`).
4. **Concurrent requests break the audit chain** (`audit_fork`), and
5. **so does the retention purge** (`audit_purged`): `GET /audit/verify` reports
   tampering nobody did.
6. **A baseline is approved by nobody** (`drift_relearned`). Once the approved deletion
   of the last resource empties the table, the next check takes itself for the first.
7. **Two baselines for one resource** (`drift_twins`). From then on every approval for
   the resource fails.
8. **The organisation scope is not "reset per request"** (`access_scope`). It ends with
   the first commit, and a handler that inserts or refreshes after it is refused its own
   row where the policies are in force.
9. **An edited entry can pass** (`audit_rehashed`). `audit.py:4` says that any edit of a
   historical row breaks the chain; one whose hash, and those of the later entries, are
   computed anew does not.
10. **Subscription and invoice events are forgotten** (`billing_untagged`). `create_checkout`
   puts the organisation's id on the checkout session; the subscription Stripe creates
   for it does not carry it, and `handle_webhook` acknowledges an event without it.
   A cancelled subscription stays paid for here.
11. **A payer is left on the free plan** (`billing_raced`). `start_trial` reads the row,
   the purchase's webhook makes it active, the trial is committed over it and lapses; or
   `plan_of` writes a lapsed trial off over the purchase. At Stripe no later event
   repairs it.

`Misjudged` in `Posture` lists the weak settings the checks take for safe, and
`NamedInPart` the checks whose resources lose all but the first of a name; the properties
hold everywhere else, so the lists are complete for the values considered.

What `verify_chain` is worth when it does return True is `VerifiedAncestry`: whatever
`record_action` wrote and some entry of the table is chained to, directly or through
others, is in the table as it was written. So to change an entry unnoticed one must
rewrite its hash and those of all later entries, or remove the later ones; that much
passes, as do entries deleted at the end, and edits of the id and the timestamp, which
are not hashed.

## 4. Fairness

`FairSpec` assumes that a request or a worker that has begun takes its next step
(weak fairness of its own actions): threads are scheduled and the database answers. A
waiting task message is taken in the end (strong fairness per message, since a
redelivery of others may interleave): Celery consumes the Redis list in order.
Nothing is assumed of users, crashes, redelivery, purge, disconnect or the calendar.
`scan_live` excludes crashes and broker outages, because the code does lose a queued
run then: the message is acknowledged as the task starts, and nothing looks for old
queued runs. It gives the two batches of an account no hash in common because of
finding 1. `scan_stuck` runs under the same `FairSpec`.

`FairSpec` of `Subscription` assumes that a request that was accepted runs to its end,
and that the gateway delivers some event while one is unacknowledged (weak fairness of
delivery as a whole, since which one is its choice): Stripe and Razorpay retry for days.
That is what `PurchaseTakesEffect` rests on: while a subscription is paid for, the
organisation gets a paid plan, whatever requests overlap the webhook, except where
another write may undo it: at Stripe a trial (finding 11), at Razorpay webhooks or
requests that overtook each other.
Nothing is assumed of customers, of acknowledgements, of the clock or of new requests.

## 5. Proofs

Every invariant, every action property and the refinement that a passing run checks is
also a theorem; only liveness is not. What the theorems quantify over is what the runs
bound: any number of sessions, workers, organisations, requests, messages, rows and
steps. An assumption beyond those named in the modules is part of the theorem and is
given here with its reason; a run shows what happens without it.

### The scan pipeline

`ScanPipelineProofs`, for any accounts, checks, workers, requests, batches and bounds
and **every** environment event including redelivery, from `ScanAssumption` alone:

* `TypeCorrect`: `Spec => []TypeOK`.
* `AlwaysAnchored`: `Spec => []Anchored`.

`Anchored` is not inductive. `IInv` adds what it rests on: an id not yet given out has
no row and no message, and every session works on an id given out (`NewIds`); a run
whose message is not sent, or whose transaction is not committed, is known to its
session alone (`PrivateRuns`); two sessions in a transaction are on different runs,
which is the row lock (`LockExclusive`); a task that has loaded a run agrees with its
row on the account (`LoadedRuns`); runs belong to connected accounts
(`RunsAnchored`). One lemma per action that disturbs it; the steps that only release a
session, stay inside a transaction, end a run or touch no session share
`ReleasePreserves`, `InsidePreserves`, `EndsRunPreserves` and `AsidePreserves`.

* `FindingsRecorded`: `Spec => RecordsWhatItFound`, if nothing is purged. The retention
  purge between the SELECT that finds a row stored and the commit is the one thing that
  loses a finding. `FoundOrAdding` is the invariant: whatever the batch has met so far
  is stored, or is among the rows it will add. It stays so while other transactions
  triage, commit or roll back, because a transaction keeps its account from being
  disconnected (`StoredStays`, from `Anchored`).
* `OverrunIsBounded`: `Spec => []QuotaOverrunBounded`, for a finite, nonempty set of
  requests served at once. `OverrunInv` counts the month's runs together with the
  requests that have passed the quota check and not yet committed a run (`InFlight`);
  with eager tasks no worker adds to them (`EagerIdle`).

`ScanBookProofs`, if no message is delivered twice (`"redelivery" \notin Events`).
`scan_redelivered` has the redelivery, and there two workers that take one message spoil
the count:

* `CountIsStored`: `Spec => []StoredMatchesCount`.
* `EndIsFinal`: `Spec => TerminalIsFinal`.
* `PipelineImplementsBook`: `Spec => ImplementsBook`, the refinement: the initial states
  map to `ScanBook`'s and every step to one of its steps or to a stutter, action by
  action (`BookRequests`, `BookEnds`, `BookCompletes`, `BookEnvironment`, `BookStep`).

`OnceInv` adds to `IInv` that a run has one handler, a session or a message
(`OneHandler`), that what is handled has not ended (`HandledUnfinished`), that
`findings_count` is written by the commit that completes a run and by nothing before
(`CountsUnwritten`), and that the rows stored for a completed run are as many as it
says, or fewer once there is a purge (`StoredCounted`).

### The audit log

`AuditChainProofs`, for any organisations, writers, contents and interference:

* `TypeCorrect`: `Spec => []TypeOK`.
* `VerifyIsSound`: `Spec => []VerifiedAncestry`.
* `IntactChainsVerify`: `Spec => []IntactVerifies`.

`VerifyIsSound` assumes nothing of the rows in the table, which may have been edited any
number of times: the invariant it rests on is that each row *written* carries the hash
of its own content. An entry of a chain that verifies has the hash of its content over
that of the entry before it, down to the first; each beginning of that sequence is then
the hash of one entry read (`VerifiedHashes`), and equal hashes mean equal content
(`HashInjective`). For the converse, the rows of an organisation nobody touched are
those written (`UntouchedStand`), and each written entry is the first of its
organisation or carries the hash of one whose `seq` is one less (`EntriesFollow`). If no
two entries share a predecessor (no fork), the `seq` are then `1..n` without repetition,
so that the order in which `verify_chain` reads is the order of the chain. That the
numbers are distinct and have no gap is an induction, made by taking the least
counterexample (`LeastNat`).

### Drift

`DriftReviewProofs`, for any resources, configurations, workers, reviewers and
transactions:

* `TypeCorrect`: `Spec => []TypeOK`.
* `ViolationsFound`: `Spec => []ViolationHasFinding`.
* `BaselineReviewed`: `Spec => BaselineFollowsReview`, an action property.
* `DriftRecorded`: `Spec => DriftIsExact`, an action property.

`ViolationHasFinding` alone is not inductive, because a request writes with a status it
read long ago. `IInv` adds that a transaction number not yet given out names no event
(`FreshIdsUnused`: so a check never writes over a decided event), and that the event a
request waits on still exists, is decided if it was decided when read, and that the
baseline row it holds is of the event's resource (`ReviewsStand`). `DriftRecorded` needs
besides that the table of baselines is finite (`FiniteBaselines`): the latest row is
chosen in it.

### Billing

`SubscriptionProofs`, for any number of sessions, webhooks, trial periods and rows, in
every billing mode, from `SubscriptionAssumption` (finitely many sessions; `NoRow` is no
row):

* `TypeCorrect`: `Spec => []TypeOK`.
* `TrialsLimited`: `Spec => []TrialsBounded`.
* `LimitsHeld`: `Spec => []LimitsBounded`.
* `PlansHaveCause`: `Spec => []PaidForCause`.
* `PlansStayInSync`: `Spec => []InSync`, which speaks of Razorpay: its events are about
  the subscription and carry the organisation's id. For Stripe `billing_untagged` shows
  that it fails.
* `PayersServed`: `Spec => []PaidIsServed`, in every mode.

Four parts strengthen the first four. `Loaded`: a handler past its first SELECT holds a
row, and there is one. `TrialInv`, under `OneByOne`: once the trial is used, the trials
granted and the sessions that still hold an unused row (`Stale`, each of which may grant
another) are no more than the sessions there are; the `UPDATE` of one session never
resets `trial_used`, because no handler writes FALSE. `LimitInv` counts rows together
with the inserts already decided on (`Inserting`). `CauseInv`: before a purchase or a
trial nothing stored, loaded or on its way names a paid plan. The actions are first
sorted by what they do to a session (`Begins`, `Creates`, `Works`, `Grants`, or nothing:
`Bystander`) and to the rows (`LimitKept`, `Approves`, `Inserts`), in `Effects`; each
invariant is then kept by those few effects.

`InSync` and `PaidIsServed` say how the row follows the one subscription once nothing is
on its way: at Razorpay with its plan and status, at Stripe by being active on some paid
plan (`Follows`). Their invariant, `SyncInv`, speaks of events on their way too
(`Following`): either the row follows already and no event waiting disturbs that
(`Keeps`), or some event waiting will make it follow from whatever row it meets
(`Settles`), and none sent after it disturbs that. Whether an event settles or keeps a
subscription is decided for each kind of event and each gateway (`Decisive`); an event
that is dropped keeps whatever is (`DroppedKeeps`). The other parts make the oldest
event the one under way (`MailOrdered`, `InTurn`) and the free plan one that nobody buys
(`Sold`).

### Audits, scores and the gate

`PostureProofs`, for any finite set of regions, zones or resource groups, any first
state of an account, any faults, changes and decisions and any number of audits, from
`PostureAssumption` (finitely many places: the score counts rows):

* `TypeCorrect`: `Spec => []TypeOK`.
* `OffendersDistinguished`: `Spec => []OffendersKeptApart`.
* `FindingsPaidFor`: `Spec => []EveryFindingCounts`.
* `CriticalsBlock`: `Spec => []CriticalBlocksBuild`.
* `OnlyTriageImproves`: `Spec => ImprovesOnlyByTriage`, an action property.
* `FaultsTold`: `Spec => FaultsAreLoud`, an action property.
* `HardeningAddsNothing`: `Spec => HardeningNeverAddsFindings`, an action property.

`IInv` types the account (`Shape`) and the stored rows, and says that a critical check's
findings, unless it failed, are stored as critical (`RowsShape`). What a check returns is
described once for each (`Described`: its ids, its severity, the place its resource names)
and by union for each provider (`RunAllDescribed`). A score is a rounded share of the
checks mapped to a framework; that one failed check lowers it at all needs fewer than
2000 of them (`Rounding`), and they map at most 64 in all (`MappedFinite`).

The last two theorems compare two runs of every check, one before and one after a step:
`Loud` and `Covered` are the two comparisons, kept by unions, by `Attempt` and by the
shapes the checks have. For hardening, what has to be shown of each check is that the
values it reports are the last ones of the setting's values in their order, except for
those it misjudges (`Upward`), and that two checks that look at two settings, the
password policy and the validation of a trail, do not report more of one for less of the
other.

### Regenerated tables

`EnginesProofs`, for any number of sessions and requests and any positive limit, from
`EnginesAssumption`:

* `TypeCorrect`: `Spec => []TypeOK`.
* `InventoryStands`: `Spec => []AssetsNeverVanish`.
* `OverrunBounded`: `Spec => []AccountsBounded`.
* `LoneReplaces`: `Spec => LoneRegenerationReplaces`, an action property.
* `CopiesStayFew`: `Spec => []CopiesBounded`.

`IInv` adds that a session at work has an id and a table and holds doomed rows only
between its DELETE and its commit (`Working`), that a session that overlapped no other is
alone and its table is as its DELETE saw it (`Undisturbed`), and that the accounts
together with those sessions have decided to insert stay under the bound
(`ProspectBounded`). For `CopiesBounded` each generation in a table is attributed to the
session that inserted it, no two to one (`OneCopyEach`): the DELETE of a session sees
whatever that session had inserted before.

### Access

`AccessProofs`, for any organisations, users, keys, sessions, connections and clients,
with the policies in force or not, from `AccessAssumption`:

* `TypeCorrect`: `Spec => []TypeOK`, which includes that no two sessions hold one
  connection.
* `OrgsIsolated`: `Spec => []OwnRowsOnly`.
* `RevocationsStick`: `Spec => RevocationSticks`, an action property.
* `RatesStayBounded`: `Spec => []RateBounded`.

`OwnRowsOnly` speaks of what a statement was shown; what it rests on is that a free
connection is scoped to nobody and a held one to nobody or its holder's organisation
(`ScopesOwned`), which is what the transaction-local setting is for, and what each
request has when it gets there (`SessionsStand`). `RateBounded` compares the window with
everything a client was ever let through: the window is the end of that, and what has
been popped is older than a minute (`Windowed`), so that a minute that ends now holds no
more than the window does, and an earlier one was counted earlier.

### Only model-checked

Liveness under fairness, `QueuedScanFinishes`, `CompletedScanIsSnapshotted` and
`PurchaseTakesEffect`, is beyond the prover: it needs ENABLED. The three runs that expect a
violation have nothing to prove.


## 6. Not modelled, and what remains

Not modelled, because they keep no state of this program, change none that interacts, or
are not reached: outbound
integrations (notifications, ticketing, SCM), AI assistants and remediation texts,
report and invoice rendering, GraphQL and the read-only reports, CLI and SDKs, web UI,
deployment; MSSP clients (one request inserts an organisation and its mapping in one
transaction, another lists them); `security/` (the envelope format and the key providers: the
cryptography is not ours to check and the rest is one call); `auth/sso.py`, `auth/scim.py`,
`auth/mfa.py`, `auditors/scale.py` and `ai/prioritization.py`, which no route or task
calls; the migrations other than the row policies; `fakes.py`, which stands in for the
clouds in tests.

Hazards without a property, and the part of a hazard its properties leave out, say why
in `PROJECT.json`. The cases a run excludes because the code does go wrong in them have a
configuration of their own in section 3 where a document or a test says otherwise.

What remains:

1. An abstract specification of drift review in which a state becomes the baseline only
   by a review of that state, implemented when one check runs at a time and the
   baseline is never emptied.
2. Proofs: the abstract specification of 1. once it is there, and what is left of the
   scan pipeline when a message is delivered twice: which parts of `OnceInv` survive.
3. The composition of `Access` with a second API process, whose rate windows are its own.
