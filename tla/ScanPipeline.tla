---------------------------- MODULE ScanPipeline ----------------------------
(***************************************************************************)
(* The scan pipeline of one organisation: API requests that trigger or     *)
(* ingest scans, the Celery queue between the API and the audit workers,   *)
(* run_audit and its transaction, the deduplicated findings table, the     *)
(* compliance snapshot, and the handlers that change the same rows         *)
(* meanwhile (triage, retention purge, disconnecting an account).          *)
(*                                                                         *)
(* The database is PostgreSQL at READ COMMITTED, the isolation the engine  *)
(* of db.py gets by default: the variables below hold COMMITTED rows only; *)
(* what an open transaction has flushed lives in the record of its         *)
(* session, with the row locks it implies, until it commits or rolls back. *)
(***************************************************************************)
EXTENDS Integers, Sequences, FiniteSets

CONSTANTS
    Accounts,       \* cloud accounts connected at the start
    NoAccount,      \* "no account" in a record
    Checks,         \* check ids; <<account, check>> stands for a dedup_hash
    NativeBatches,  \* what auditor.run_all() may return: sequences of checks
    IngestBatches,  \* what a Prowler upload may parse to
    Workers,        \* Celery worker processes
    Requests,       \* concurrent API requests
    EagerTasks,     \* CSPM_EAGER_TASKS: audits run inside the request
    ScanLimit,      \* plan.max_scans_per_month, or Unlimited
    Events,         \* the environment events this instance allows
    MaxScans,       \* bound: scan runs ever created
    MaxMonth,       \* bound: calendar months
    MaxCopies       \* bound: copies of one task message the broker delivers

Unlimited == -1

EventKinds ==
    {"crash", "broker", "redelivery", "purge", "triage", "disconnect"}

ASSUME ScanAssumption ==
    /\ NoAccount \notin Accounts
    /\ NativeBatches \subseteq Seq(Checks)
    /\ IngestBatches \subseteq Seq(Checks)
    /\ Workers \cap Requests = {}
    /\ EagerTasks \in BOOLEAN
    /\ ScanLimit \in Nat \cup {Unlimited}
    /\ Events \subseteq EventKinds
    /\ MaxScans \in Nat
    /\ MaxMonth \in Nat \ {0}
    /\ MaxCopies \in Nat \ {0}

VARIABLES
    accounts,   \* rows of cspm_cloud_accounts
    scans,      \* rows of cspm_scan_runs, by id
    findings,   \* rows of cspm_findings, by dedup_hash
    snapshots,  \* rows of cspm_compliance_snapshots
    queue,      \* undelivered copies of each scan's task message
    job,        \* what each worker and request is doing
    nextScan,   \* ids of scan runs are never reused
    month       \* the calendar month

vars == <<accounts, scans, findings, snapshots, queue, job, nextScan, month>>

Sessions == Workers \cup Requests
ScanIds  == 1..MaxScans
Keys     == Accounts \X Checks

----------------------------------------------------------------------------
(* Rows. scan = 0, status "absent" and started = 0 (SQL NULL) mean none.    *)

ScanStatus    == {"absent", "queued", "completed", "failed"}
FindingStatus == {"open", "accepted_risk", "resolved"}
Terminal      == {"completed", "failed"}

ScanRow == [acct : Accounts \cup {NoAccount}, status : ScanStatus,
            started : 0..MaxMonth, count : Nat]
NoScan  == [acct |-> NoAccount, status |-> "absent", started |-> 0, count |-> 0]

FindingRow == [scan : 0..MaxScans, status : FindingStatus \cup {"absent"}]
NoFinding  == [scan |-> 0, status |-> "absent"]

SnapshotRow == [scan : ScanIds, failed : SUBSET Checks]

(* A session's progress through trigger_scan, ingest_prowler or the Celery  *)
(* task, and the locals of run_audit and _persist_findings:                 *)
(*   fresh    the run was created by this transaction, no one else sees it  *)
(*   started  the uncommitted started_at                                    *)
(*   loaded   findings_count as this session read it                        *)
(*   seen     dedup hashes met in this batch                                *)
(*   todo     findings still to look at                                     *)
(*   adding   findings added to the session, not flushed before the commit  *)
Pc  == {"idle", "admitted", "enqueue", "loaded", "auditing", "persist",
        "snapshot"}
Job == [pc : Pc, acct : Accounts \cup {NoAccount}, scan : 0..MaxScans,
        fresh : BOOLEAN, started : 0..MaxMonth, loaded : Nat,
        seen : SUBSET Checks, todo : Seq(Checks), adding : Seq(Checks)]
Idle == [pc |-> "idle", acct |-> NoAccount, scan |-> 0, fresh |-> FALSE,
         started |-> 0, loaded |-> 0, seen |-> {}, todo |-> <<>>,
         adding |-> <<>>]

TypeOK ==
    /\ accounts \subseteq Accounts
    /\ scans \in [ScanIds -> ScanRow]
    /\ findings \in [Keys -> FindingRow]
    /\ snapshots \subseteq SnapshotRow
    /\ queue \in [ScanIds -> 0..MaxCopies]
    /\ job \in [Sessions -> Job]
    /\ nextScan \in 1..(MaxScans + 1)
    /\ month \in 1..MaxMonth

Init ==
    /\ accounts = Accounts
    /\ scans = [n \in ScanIds |-> NoScan]
    /\ findings = [k \in Keys |-> NoFinding]
    /\ snapshots = {}
    /\ queue = [n \in ScanIds |-> 0]
    /\ job = [s \in Sessions |-> Idle]
    /\ nextScan = 1
    /\ month = 1

----------------------------------------------------------------------------
(* Helpers *)

\* Between the flush that opens run_audit's transaction and its commit, the
\* session holds a lock on its scan run's row or, for a run it inserted, the
\* key-share lock its foreign key takes on the account.
InTransaction(s) == job[s].pc \in {"auditing", "persist"}

\* Seeded fault: the flush comes after the audit, so no lock is held.
NeverBusy(a) == FALSE

\* The rows of account a are locked by an audit in progress.
Busy(a) == \E s \in Sessions : InTransaction(s) /\ job[s].acct = a

\* Another session has flushed an update of scan run n.
RowLocked(s, n) ==
    \E t \in Sessions \ {s} : InTransaction(t) /\ job[t].scan = n

\* Scan runs that count against this month's quota. A queued run has no
\* started_at, and one in progress has not committed its own.
ScansThisMonth ==
    {n \in ScanIds : scans[n].status # "absent" /\ scans[n].started >= month}

\* Seeded fault: <= where the code has <.
WithinQuotaOffByOne ==
    ScanLimit = Unlimited \/ Cardinality(ScansThisMonth) <= ScanLimit

WithinQuota ==
    ScanLimit = Unlimited \/ Cardinality(ScansThisMonth) < ScanLimit

\* A row with this dedup_hash is committed, whatever its status.
AlreadyStored(a, c) == findings[<<a, c>>].status # "absent"

\* Seeded fault: the hash does not cover the account.
SelectsForAnyAccount(a, c) == \E b \in Accounts : AlreadyStored(b, c)

\* The SELECT by dedup_hash finds a row.
SelectsByHash(a, c) == AlreadyStored(a, c)

\* Seeded fault: the batch is not deduplicated against itself.
SkipsStoredOnly(j, c) == SelectsByHash(j.acct, c)

\* A finding already met in this batch or already stored is not added.
Skips(j, c) == c \in j.seen \/ SelectsByHash(j.acct, c)

\* Two rows with one dedup_hash cannot be committed.
\* Seeded fault: dedup_hash is not unique.
NoUniqueIndex(s) == FALSE

UniqueViolation(s) ==
    LET j == job[s]
    IN  \/ \E i \in 1..Len(j.adding) : AlreadyStored(j.acct, j.adding[i])
        \/ \E i, k \in 1..Len(j.adding) : i # k /\ j.adding[i] = j.adding[k]

\* Seeded fault: the count includes findings that were skipped.
CountsSkippedToo(s) == Cardinality(job[s].seen)

\* What _persist_findings returns.
Persisted(s) == Len(job[s].adding)

\* Seeded fault: findings_count is not assigned.
KeepsCount(s, row) == row.count

\* The ORM writes findings_count only when it differs from what was loaded.
CountAfter(s, row) ==
    IF Persisted(s) = job[s].loaded THEN row.count ELSE Persisted(s)

\* Seeded fault: the message is acknowledged by no one.
LeftOnQueue(n) == queue

\* Celery acknowledges a task as it starts: the message is gone whatever
\* happens to the task.
TakenOffQueue(n) == [queue EXCEPT ![n] = @ - 1]

\* Seeded fault: a status no reader knows.
PendingRow(a) == [NoScan EXCEPT !.acct = a, !.status = "pending"]

\* create_scan_run: started_at stays NULL.
QueuedRow(a) == [NoScan EXCEPT !.acct = a, !.status = "queued"]

OpenChecks(a) == {c \in Checks : findings[<<a, c>>].status = "open"}

Finish(s) == job' = [job EXCEPT ![s] = Idle]

----------------------------------------------------------------------------
(* API requests: trigger_scan and ingest_prowler                            *)

\* _account_or_404, then check_scan_quota. What follows is a different
\* transaction: record_action commits in between.
Admit(u, a) ==
    /\ job[u].pc = "idle"
    /\ a \in accounts
    /\ WithinQuota
    /\ job' = [job EXCEPT ![u] = [Idle EXCEPT !.pc = "admitted", !.acct = a]]
    /\ UNCHANGED <<accounts, scans, findings, snapshots, queue, nextScan, month>>

\* The account was disconnected meanwhile: the INSERT of the scan run fails
\* on its foreign key and the request ends.
AdmittedAccountGone(u) ==
    /\ job[u].pc = "admitted"
    /\ job[u].acct \notin accounts
    /\ Finish(u)
    /\ UNCHANGED <<accounts, scans, findings, snapshots, queue, nextScan, month>>

\* The asynchronous path: a queued run is committed before the task is sent.
CreateScanRun(u) ==
    /\ ~EagerTasks
    /\ job[u].pc = "admitted"
    /\ job[u].acct \in accounts
    /\ nextScan <= MaxScans
    /\ scans' = [scans EXCEPT ![nextScan] = QueuedRow(job[u].acct)]
    /\ job' = [job EXCEPT ![u] = [@ EXCEPT !.pc = "enqueue", !.scan = nextScan]]
    /\ nextScan' = nextScan + 1
    /\ UNCHANGED <<accounts, findings, snapshots, queue, month>>

\* run_aws_audit.delay(account.id, scan.id)
Enqueue(u) ==
    /\ job[u].pc = "enqueue"
    /\ queue' = [queue EXCEPT ![job[u].scan] = @ + 1]
    /\ Finish(u)
    /\ UNCHANGED <<accounts, scans, findings, snapshots, nextScan, month>>

\* The broker is unreachable: delay() raises after the run is committed.
EnqueueFails(u) ==
    /\ "broker" \in Events
    /\ job[u].pc = "enqueue"
    /\ Finish(u)
    /\ UNCHANGED <<accounts, scans, findings, snapshots, queue, nextScan, month>>

\* The insert and flush of a run created by the transaction that fills it.
BeginFresh(u, pc, batch) ==
    /\ job[u].pc = "admitted"
    /\ job[u].acct \in accounts
    /\ nextScan <= MaxScans
    /\ job' = [job EXCEPT ![u] = [@ EXCEPT !.pc = pc, !.scan = nextScan,
                                           !.fresh = TRUE, !.started = month,
                                           !.todo = batch]]
    /\ nextScan' = nextScan + 1
    /\ UNCHANGED <<accounts, scans, findings, snapshots, queue, month>>

\* The synchronous path: run_audit(db, account) inside the request.
BeginEager(u) == EagerTasks /\ BeginFresh(u, "auditing", <<>>)

\* ingest_findings: the findings are already parsed.
BeginIngest(u) == \E b \in IngestBatches : BeginFresh(u, "persist", b)

----------------------------------------------------------------------------
(* The Celery task _run_aws_audit                                           *)

\* The task reads the account and its scan run. A run's row goes only with
\* its account, so a missing row is the account_not_found return.
Take(w, n) ==
    /\ job[w].pc = "idle"
    /\ queue[n] > 0
    /\ queue' = TakenOffQueue(n)
    /\ IF scans[n].status = "absent"
       THEN UNCHANGED job
       ELSE job' = [job EXCEPT ![w] =
                      [Idle EXCEPT !.pc = "loaded", !.acct = scans[n].acct,
                                   !.scan = n, !.loaded = scans[n].count]]
    /\ UNCHANGED <<accounts, scans, findings, snapshots, nextScan, month>>

\* run_audit on an existing run: status = running and started_at are flushed
\* and lock the row. No test of the run's present status. "running" is never
\* committed, so no one else ever reads it.
StartQueued(w) ==
    /\ job[w].pc = "loaded"
    /\ scans[job[w].scan].status # "absent"
    /\ ~RowLocked(w, job[w].scan)
    /\ job' = [job EXCEPT ![w] = [@ EXCEPT !.pc = "auditing", !.started = month]]
    /\ UNCHANGED <<accounts, scans, findings, snapshots, queue, nextScan, month>>

\* The run was deleted with its account: the UPDATE matches no row.
LoadedRunGone(w) ==
    /\ job[w].pc = "loaded"
    /\ scans[job[w].scan].status = "absent"
    /\ Finish(w)
    /\ UNCHANGED <<accounts, scans, findings, snapshots, queue, nextScan, month>>

----------------------------------------------------------------------------
(* run_audit, in a worker or in a request                                   *)

\* auditor.run_all() returns; a check that raised is a finding of its own.
AuditReturns(s) ==
    /\ job[s].pc = "auditing"
    /\ \E b \in NativeBatches :
         job' = [job EXCEPT ![s] = [@ EXCEPT !.pc = "persist", !.todo = b]]
    /\ UNCHANGED <<accounts, scans, findings, snapshots, queue, nextScan, month>>

\* The run committed by s, over the row it finds there.
ScanRowAfter(s, status) ==
    LET row == scans[job[s].scan]
    IN  [acct |-> job[s].acct, status |-> status, started |-> job[s].started,
         count |-> IF status = "completed" THEN CountAfter(s, row)
                                           ELSE row.count]

\* build_auditor or the auditor raises: the run is committed as failed.
AuditRaises(s) ==
    /\ job[s].pc = "auditing"
    /\ scans' = [scans EXCEPT ![job[s].scan] = ScanRowAfter(s, "failed")]
    /\ Finish(s)
    /\ UNCHANGED <<accounts, findings, snapshots, queue, nextScan, month>>

\* One turn of _persist_findings' loop.
PersistOne(s) ==
    /\ job[s].pc = "persist"
    /\ job[s].todo # <<>>
    /\ LET j == job[s]
           c == Head(j.todo)
       IN  job' = [job EXCEPT ![s] =
             [j EXCEPT !.todo = Tail(j.todo),
                       !.seen = j.seen \cup {c},
                       !.adding = IF Skips(j, c) THEN j.adding
                                  ELSE Append(j.adding, c)]]
    /\ UNCHANGED <<accounts, scans, findings, snapshots, queue, nextScan, month>>

\* db.commit() flushes the new findings and the completed run together.
CommitScan(s) ==
    /\ job[s].pc = "persist"
    /\ job[s].todo = <<>>
    /\ ~UniqueViolation(s)
    /\ scans' = [scans EXCEPT ![job[s].scan] = ScanRowAfter(s, "completed")]
    /\ findings' = [k \in Keys |->
         IF \E i \in 1..Len(job[s].adding) : k = <<job[s].acct, job[s].adding[i]>>
         THEN [scan |-> job[s].scan, status |-> "open"]
         ELSE findings[k]]
    /\ job' = [job EXCEPT ![s] = [@ EXCEPT !.pc = "snapshot"]]
    /\ UNCHANGED <<accounts, snapshots, queue, nextScan, month>>

\* A concurrent scan committed one of the hashes first: IntegrityError. The
\* commit is outside run_audit's try, so the transaction just rolls back.
CommitConflicts(s) ==
    /\ job[s].pc = "persist"
    /\ job[s].todo = <<>>
    /\ UniqueViolation(s)
    /\ Finish(s)
    /\ UNCHANGED <<accounts, scans, findings, snapshots, queue, nextScan, month>>

\* Seeded fault: a passing scan records no snapshot.
SnapshotWhenFailing(s) ==
    /\ job[s].pc = "snapshot"
    /\ snapshots' = IF OpenChecks(job[s].acct) = {} THEN snapshots
                    ELSE snapshots \cup {[scan |-> job[s].scan,
                                          failed |-> OpenChecks(job[s].acct)]}
    /\ Finish(s)
    /\ UNCHANGED <<accounts, scans, findings, queue, nextScan, month>>

\* _record_compliance_snapshot, a transaction of its own. Snapshot rows have
\* no foreign key: they outlive the account.
RecordSnapshot(s) ==
    /\ job[s].pc = "snapshot"
    /\ snapshots' = snapshots \cup
         {[scan |-> job[s].scan, failed |-> OpenChecks(job[s].acct)]}
    /\ Finish(s)
    /\ UNCHANGED <<accounts, scans, findings, queue, nextScan, month>>

----------------------------------------------------------------------------
(* Other handlers and the environment                                       *)

\* update_finding. Rows of cspm_findings written by a drift rejection are
\* not in this module: their hashes never meet a scan's.
UpdateFinding(k, status) ==
    /\ "triage" \in Events
    /\ findings[k].status # "absent"
    /\ findings' = [findings EXCEPT ![k].status = status]
    /\ UNCHANGED <<accounts, scans, snapshots, queue, job, nextScan, month>>

\* _retention_purge: the resolved findings older than the window are any set
\* of resolved findings. Its audit-log half is in module AuditChain.
RetentionPurge(old) ==
    /\ "purge" \in Events
    /\ old # {}
    /\ \A k \in old : findings[k].status = "resolved"
    /\ findings' = [k \in Keys |-> IF k \in old THEN NoFinding ELSE findings[k]]
    /\ UNCHANGED <<accounts, scans, snapshots, queue, job, nextScan, month>>

\* disconnect_account, when it succeeds: the ORM deletes the account with its
\* scan runs and their findings, after the audits that hold those rows end.
\* A delete that meets rows it did not load (a scan committed since, a drift
\* event) fails on a foreign key and changes nothing: a stuttering step.
Disconnect(a) ==
    /\ "disconnect" \in Events
    /\ a \in accounts
    /\ ~Busy(a)
    /\ accounts' = accounts \ {a}
    /\ scans' = [n \in ScanIds |->
                   IF scans[n].acct = a THEN NoScan ELSE scans[n]]
    /\ findings' = [k \in Keys |-> IF k[1] = a THEN NoFinding ELSE findings[k]]
    /\ UNCHANGED <<snapshots, queue, job, nextScan, month>>

\* A process dies: its transaction rolls back and its message is lost.
Crash(s) ==
    /\ "crash" \in Events
    /\ job[s].pc # "idle"
    /\ Finish(s)
    /\ UNCHANGED <<accounts, scans, findings, snapshots, queue, nextScan, month>>

\* A message prefetched but not started for longer than the Redis visibility
\* timeout is delivered again.
Redeliver(n) ==
    /\ "redelivery" \in Events
    /\ queue[n] > 0
    /\ queue[n] < MaxCopies
    /\ queue' = [queue EXCEPT ![n] = @ + 1]
    /\ UNCHANGED <<accounts, scans, findings, snapshots, job, nextScan, month>>

NewMonth ==
    /\ month < MaxMonth
    /\ month' = month + 1
    /\ UNCHANGED <<accounts, scans, findings, snapshots, queue, job, nextScan>>

----------------------------------------------------------------------------
Request(u) ==
    \/ \E a \in Accounts : Admit(u, a)
    \/ AdmittedAccountGone(u)
    \/ CreateScanRun(u)
    \/ Enqueue(u)
    \/ EnqueueFails(u)
    \/ BeginEager(u)
    \/ BeginIngest(u)

Worker(w) ==
    \/ \E n \in ScanIds : Take(w, n)
    \/ StartQueued(w)
    \/ LoadedRunGone(w)

RunAudit(s) ==
    \/ AuditReturns(s)
    \/ AuditRaises(s)
    \/ PersistOne(s)
    \/ CommitScan(s)
    \/ CommitConflicts(s)
    \/ RecordSnapshot(s)

Environment ==
    \/ \E k \in Keys, status \in FindingStatus : UpdateFinding(k, status)
    \/ \E old \in SUBSET Keys : RetentionPurge(old)
    \/ \E a \in Accounts : Disconnect(a)
    \/ \E s \in Sessions : Crash(s)
    \/ \E n \in ScanIds : Redeliver(n)
    \/ NewMonth

Next ==
    \/ \E u \in Requests : Request(u)
    \/ \E w \in Workers : Worker(w)
    \/ \E s \in Sessions : RunAudit(s)
    \/ Environment

Spec == Init /\ [][Next]_vars

\* A request or worker that has begun goes on to its next step. A message
\* that waits is taken in the end, though others are redelivered for ever:
\* the Redis list serves them in the order they were put back. Nothing
\* obliges anyone to send a request.
Fairness ==
    /\ \A u \in Requests : WF_vars(\/ AdmittedAccountGone(u) \/ CreateScanRun(u)
                                   \/ Enqueue(u) \/ BeginEager(u)
                                   \/ BeginIngest(u))
    /\ \A w \in Workers : WF_vars(StartQueued(w) \/ LoadedRunGone(w))
    /\ \A n \in ScanIds : SF_vars(\E w \in Workers : Take(w, n))
    /\ \A s \in Sessions : WF_vars(RunAudit(s))

FairSpec == Spec /\ Fairness

----------------------------------------------------------------------------
(* Properties *)

\* A transaction in progress never loses the rows it stands on: its account
\* and, for a run that was queued, the run itself. And every committed
\* finding belongs to a run of the same connected account that has ended: no
\* reader meets a finding of a scan that is still queued, of a deleted run or
\* of another account. (run_audit against disconnect_account.)
Anchored ==
    /\ \A s \in Sessions : InTransaction(s) =>
         /\ job[s].acct \in accounts
         /\ job[s].fresh \/ /\ scans[job[s].scan].status # "absent"
                            /\ scans[job[s].scan].acct = job[s].acct
    /\ \A k \in Keys : findings[k].status # "absent" =>
         /\ k[1] \in accounts
         /\ scans[findings[k].scan].status \in Terminal
         /\ scans[findings[k].scan].acct = k[1]

\* findings_count of a completed run is the number of rows stored for it,
\* less what the retention purge removed. (The count run_audit writes against
\* the rows the same commit inserts, among concurrent scans.)
StoredMatchesCount ==
    \A n \in ScanIds : scans[n].status = "completed" =>
        LET stored == Cardinality({k \in Keys : findings[k].scan = n})
        IN  /\ stored <= scans[n].count
            /\ "purge" \notin Events => stored = scans[n].count

\* A run that completed or failed is never rewritten; only disconnecting its
\* account removes it. (run_audit does not look at the run's status.)
TerminalIsFinal ==
    [][\A n \in ScanIds : scans[n].status \in Terminal =>
         scans'[n] \in {scans[n], NoScan}]_vars

\* When a scan completes, everything it found is in the findings table,
\* though part of it was skipped on the word of earlier SELECTs.
RecordsWhatItFound ==
    [][\A s \in Sessions : job[s].pc = "persist" /\ job'[s].pc = "snapshot" =>
         \A c \in job[s].seen : AlreadyStored(job[s].acct, c)']_vars

\* With eager tasks the check-then-act on the quota lets an organisation
\* exceed its plan by at most one run per other concurrent request.
QuotaOverrunBounded ==
    (EagerTasks /\ ScanLimit # Unlimited) =>
        Cardinality(ScansThisMonth) <= ScanLimit + Cardinality(Requests) - 1

\* The plan's monthly scan limit is a limit.
ScansWithinPlan ==
    ScanLimit # Unlimited => Cardinality(ScansThisMonth) <= ScanLimit

\* A queued run does not stay queued: it completes, fails or goes with its
\* account.
QueuedScanFinishes ==
    \A n \in ScanIds : scans[n].status = "queued" ~> scans[n].status # "queued"

\* Every completed scan gets its compliance snapshot, written by a second
\* transaction after the one that completed it.
CompletedScanIsSnapshotted ==
    \A n \in ScanIds : scans[n].status = "completed" ~>
        \E row \in snapshots : row.scan = n

\* A snapshot counts as failed every check its scan found failing.
SnapshotCountsWhatScanFound ==
    [][\A s \in Sessions : job[s].pc = "snapshot" /\ snapshots' # snapshots
         /\ job'[s].pc = "idle" => job[s].seen \subseteq OpenChecks(job[s].acct)]_vars

\* What readers see of the scan runs.
RunBook == [n \in ScanIds |-> [acct |-> scans[n].acct, status |-> scans[n].status]]

\* The pipeline implements ScanBook.
Book == INSTANCE ScanBook WITH book <- RunBook, published <- findings
ImplementsBook == Book!Spec

=============================================================================
