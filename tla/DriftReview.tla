---------------------------- MODULE DriftReview ----------------------------
(***************************************************************************)
(* Drift of one cloud account: the checks that Celery Beat's sweep sends   *)
(* to the workers (run_drift_check), the reviewers' approve and reject     *)
(* requests, the baseline both sides read and write, and the findings      *)
(* rejections open. PostgreSQL at READ COMMITTED, sessions without         *)
(* autoflush: a handler reads in one step and writes in a later one, with  *)
(* the values it read.                                                     *)
(***************************************************************************)
EXTENDS Integers, FiniteSets

CONSTANTS
    Resources,  \* resource ids: "sg:sg-1", "s3:logs", ...
    Configs,    \* normalised configurations, up to key and list order
    Absent,     \* the resource does not exist; a NULL before or after state
    Workers,    \* Celery workers running drift checks
    Reviewers,  \* concurrent approve and reject requests
    MaxTxn      \* bound: transactions that insert rows

ASSUME DriftAssumption ==
    /\ Absent \notin Configs
    /\ IsFiniteSet(Resources)
    /\ MaxTxn \in Nat

VARIABLES
    connected,   \* the account is connected
    baselines,   \* rows of cspm_baselines
    events,      \* rows of cspm_drift_events, by id
    violations,  \* the finding of each rejected event, by event id
    check,       \* what each worker is doing
    review,      \* what each review request is doing
    nextTxn      \* the number of the next inserting transaction

vars == <<connected, baselines, events, violations, check, review, nextTxn>>

State == Configs \cup {Absent}

(* Rows. Nothing makes a baseline unique per resource: a row is known by    *)
(* the transaction that inserted it. A check inserts one event per resource *)
(* at most, so <<transaction, resource>> is an event's id.                  *)
Row      == [txn : 1..MaxTxn, res : Resources, cfg : Configs]
EventIds == (1..MaxTxn) \X Resources

EventStatus == {"absent", "pending_review", "approved", "violation"}
Event   == [before : State, after : State, status : EventStatus]
NoEvent == [before |-> Absent, after |-> Absent, status |-> "absent"]

\* The finding of a rejected event: its triage status is left out. "purged"
\* is a row that was there and is no more; to the code it is absent.
FindingState == {"absent", "stored", "purged"}
NoRow        == {"absent", "purged"}

\* A check's locals: the snapshots it took, the baseline rows it read.
Check     == [pc : {"idle", "compare"},
              current : [Resources -> State], existing : SUBSET Row]
IdleCheck == [pc |-> "idle", current |-> [r \in Resources |-> Absent],
              existing |-> {}]

\* A request's locals: the event, its status when read, the row to replace.
Review     == [pc : {"idle", "approve", "approving", "reject"},
               evt : EventIds \cup {<<>>}, loaded : EventStatus,
               baseline : SUBSET Row]
IdleReview == [pc |-> "idle", evt |-> <<>>, loaded |-> "absent", baseline |-> {}]

TypeOK ==
    /\ connected \in BOOLEAN
    /\ baselines \subseteq Row
    /\ events \in [EventIds -> Event]
    /\ violations \in [EventIds -> FindingState]
    /\ check \in [Workers -> Check]
    /\ review \in [Reviewers -> Review]
    /\ nextTxn \in 1..(MaxTxn + 1)

Init ==
    /\ connected = TRUE
    /\ baselines = {}
    /\ events = [e \in EventIds |-> NoEvent]
    /\ violations = [e \in EventIds |-> "absent"]
    /\ check = [w \in Workers |-> IdleCheck]
    /\ review = [u \in Reviewers |-> IdleReview]
    /\ nextTxn = 1

----------------------------------------------------------------------------
(* Helpers *)

RowsOf(rows, r) == {b \in rows : b.res = r}

\* {b.resource_id: b.config_snapshot for b in existing}: of several rows of
\* one resource the last one wins, in an order the query leaves open.
BaselineMaps(existing) ==
    {m \in [Resources -> State] : \A r \in Resources :
        LET cfgs == {b.cfg : b \in RowsOf(existing, r)}
        IN  IF cfgs = {} THEN m[r] = Absent ELSE m[r] \in cfgs}

\* Seeded fault: resources that vanished are not compared.
DiffWithoutDeleted(baseline, current) ==
    {r \in Resources : current[r] \notin {Absent, baseline[r]}}

\* diff_snapshots: created, deleted and changed resources. Which of these a
\* drift is follows from its before and after states.
DiffSnapshots(baseline, current) ==
    {r \in Resources : current[r] # baseline[r]}

\* Seeded fault: resources that do not exist get a row too.
EstablishedForAll(current) ==
    {[txn |-> nextTxn, res |-> r, cfg |-> current[r]] : r \in Resources}

\* The baseline rows a first check inserts, in transaction nextTxn.
Established(current) ==
    {[txn |-> nextTxn, res |-> r, cfg |-> current[r]] :
        r \in {q \in Resources : current[q] # Absent}}

\* The events a check inserts.
Recorded(baseline, current) ==
    [e \in EventIds |->
        IF e[1] = nextTxn /\ e[2] \in DiffSnapshots(baseline, current)
        THEN [before |-> baseline[e[2]], after |-> current[e[2]],
              status |-> "pending_review"]
        ELSE events[e]]

\* A commit with nothing to insert takes no number.
NextAfter(inserts) == IF inserts THEN nextTxn + 1 ELSE nextTxn

FinishCheck(w)  == check' = [check EXCEPT ![w] = IdleCheck]
FinishReview(u) == review' = [review EXCEPT ![u] = IdleReview]

----------------------------------------------------------------------------
(* The drift check *)

\* The sweep sends a task for every active account, whether or not the last
\* one has run. resource_snapshots may find anything: the cloud changes as it
\* likes between two checks, and while one asks for resource after resource.
\* As nothing else depends on when it asked, the step that reads the
\* baselines, some time later, stands for both.
BeginCheck(w) ==
    /\ check[w].pc = "idle"
    /\ connected
    /\ \E current \in [Resources -> State] :
         check' = [check EXCEPT ![w] = [pc |-> "compare", current |-> current,
                                        existing |-> baselines]]
    /\ UNCHANGED <<connected, baselines, events, violations, review, nextTxn>>

\* No baseline was read: the snapshots become the baseline, without an event.
EstablishBaseline(w) ==
    /\ check[w].pc = "compare"
    /\ check[w].existing = {}
    /\ connected
    /\ LET rows == Established(check[w].current)
       IN  /\ rows # {} => nextTxn <= MaxTxn
           /\ baselines' = baselines \cup rows
           /\ nextTxn' = NextAfter(rows # {})
    /\ FinishCheck(w)
    /\ UNCHANGED <<connected, events, violations, review>>

RecordDrift(w) ==
    /\ check[w].pc = "compare"
    /\ check[w].existing # {}
    /\ connected
    /\ \E baseline \in BaselineMaps(check[w].existing) :
         LET drifted == DiffSnapshots(baseline, check[w].current)
         IN  /\ drifted # {} => nextTxn <= MaxTxn
             /\ events' = Recorded(baseline, check[w].current)
             /\ nextTxn' = NextAfter(drifted # {})
    /\ FinishCheck(w)
    /\ UNCHANGED <<connected, baselines, violations, review>>

\* build_auditor or a snapshot call raises, the account went away under the
\* commit (foreign key), or the worker died: nothing is committed.
CheckFails(w) ==
    /\ check[w].pc # "idle"
    /\ FinishCheck(w)
    /\ UNCHANGED <<connected, baselines, events, violations, review, nextTxn>>

----------------------------------------------------------------------------
(* Review requests *)

\* _drift_or_404. The event's status is read but not looked at.
OpenReview(u, verb, e) ==
    /\ review[u].pc = "idle"
    /\ events[e].status # "absent"
    /\ review' = [review EXCEPT ![u] =
         [IdleReview EXCEPT !.pc = verb, !.evt = e, !.loaded = events[e].status]]
    /\ UNCHANGED <<connected, baselines, events, violations, check, nextTxn>>

\* approve_drift's one_or_none: at most one row.
FindBaseline(u) ==
    /\ review[u].pc = "approve"
    /\ LET rows == RowsOf(baselines, review[u].evt[2])
       IN  /\ Cardinality(rows) <= 1
           /\ review' = [review EXCEPT ![u] =
                           [@ EXCEPT !.pc = "approving", !.baseline = rows]]
    /\ UNCHANGED <<connected, baselines, events, violations, check, nextTxn>>

\* one_or_none meets several rows: MultipleResultsFound, and nothing changes.
BaselineAmbiguous(u) ==
    /\ review[u].pc = "approve"
    /\ Cardinality(RowsOf(baselines, review[u].evt[2])) > 1
    /\ FinishReview(u)
    /\ UNCHANGED <<connected, baselines, events, violations, check, nextTxn>>

\* The rows the ORM updates: it compares with the value it loaded.
Updated(u) ==
    {b \in review[u].baseline : b.cfg # events[review[u].evt].after}

\* A row to update was deleted since it was read.
StaleRow(u) ==
    /\ events[review[u].evt].after # Absent
    /\ \E b \in Updated(u) : \A c \in baselines : c.txn # b.txn \/ c.res # b.res

\* Rows of baselines with the same primary key as one of rows.
SameRows(rows) ==
    {c \in baselines : \E b \in rows : b.txn = c.txn /\ b.res = c.res}

\* What the commit of an approval makes of the table.
BaselinesAfter(u) ==
    LET e     == review[u].evt
        after == events[e].after
        new   == [txn |-> nextTxn, res |-> e[2], cfg |-> after]
    IN  IF after = Absent THEN baselines \ SameRows(review[u].baseline)
        ELSE IF review[u].baseline = {} THEN baselines \cup {new}
        ELSE (baselines \ SameRows(Updated(u)))
               \cup {[c EXCEPT !.cfg = after] : c \in SameRows(Updated(u))}

Inserts(u) ==
    review[u].baseline = {} /\ events[review[u].evt].after # Absent

\* The ORM writes a status only when it differs from the one loaded.
StatusAfter(u, status) ==
    [events EXCEPT ![review[u].evt].status =
        IF review[u].loaded = status THEN @ ELSE status]

\* Seeded fault: the event's status is left to a commit that never comes.
StatusForgotten(u) == events

ApprovedEvents(u) == StatusAfter(u, "approved")

Approve(u) ==
    /\ review[u].pc = "approving"
    /\ ~StaleRow(u)
    /\ Inserts(u) => nextTxn <= MaxTxn
    /\ events' = ApprovedEvents(u)
    /\ baselines' = BaselinesAfter(u)
    /\ nextTxn' = NextAfter(Inserts(u))
    /\ FinishReview(u)
    /\ UNCHANGED <<connected, violations, check>>

\* StaleDataError: the transaction rolls back, the event keeps its status.
ApproveStale(u) ==
    /\ review[u].pc = "approving"
    /\ StaleRow(u)
    /\ FinishReview(u)
    /\ UNCHANGED <<connected, baselines, events, violations, check, nextTxn>>

\* dedup_hash hashes the event id: the second finding of an event is refused
\* and takes the new status with it.
RejectConflict(u) ==
    /\ review[u].pc = "reject"
    /\ violations[review[u].evt] \notin NoRow
    /\ FinishReview(u)
    /\ UNCHANGED <<connected, baselines, events, violations, check, nextTxn>>

\* Seeded fault: the status is committed before the finding is inserted.
RejectStatusFirst(u) ==
    /\ review[u].pc = "reject"
    /\ events' = StatusAfter(u, "violation")
    /\ FinishReview(u)
    /\ UNCHANGED <<connected, baselines, violations, check, nextTxn>>

\* One commit: the status and a finding of severity high.
Reject(u) ==
    /\ review[u].pc = "reject"
    /\ violations[review[u].evt] \in NoRow
    /\ events' = StatusAfter(u, "violation")
    /\ violations' = [violations EXCEPT ![review[u].evt] = "stored"]
    /\ FinishReview(u)
    /\ UNCHANGED <<connected, baselines, check, nextTxn>>
----------------------------------------------------------------------------
(* Other handlers                                                           *)

\* _retention_purge: which findings are resolved and old enough is left open.
RetentionPurge(e) ==
    /\ violations[e] = "stored"
    /\ violations' = [violations EXCEPT ![e] = "purged"]
    /\ UNCHANGED <<connected, baselines, events, check, review, nextTxn>>

\* disconnect_account: the baselines go with the account (ON DELETE CASCADE).
\* Drift events reference it without a cascade: while there is one the
\* DELETE fails and nothing changes.
Disconnect ==
    /\ connected
    /\ \A e \in EventIds : events[e].status = "absent"
    /\ connected' = FALSE
    /\ baselines' = {}
    /\ UNCHANGED <<events, violations, check, review, nextTxn>>

----------------------------------------------------------------------------
DriftCheck(w) ==
    \/ BeginCheck(w)
    \/ EstablishBaseline(w)
    \/ RecordDrift(w)
    \/ CheckFails(w)

ReviewRequest(u) ==
    \/ \E verb \in {"approve", "reject"}, e \in EventIds : OpenReview(u, verb, e)
    \/ FindBaseline(u)
    \/ BaselineAmbiguous(u)
    \/ Approve(u)
    \/ ApproveStale(u)
    \/ RejectConflict(u)
    \/ Reject(u)

Next ==
    \/ \E w \in Workers : DriftCheck(w)
    \/ \E u \in Reviewers : ReviewRequest(u)
    \/ \E e \in EventIds : RetentionPurge(e)
    \/ Disconnect

Spec == Init /\ [][Next]_vars

----------------------------------------------------------------------------
(* Properties *)

\* An event marked as a violation has its finding, unless that was resolved
\* and purged; and only an event that was reviewed has one. (approve_drift
\* and reject_drift writing one event with statuses they read earlier, the
\* unique dedup_hash, triage and purge.)
ViolationHasFinding ==
    \A e \in EventIds :
        /\ events[e].status = "violation" => violations[e] # "absent"
        /\ violations[e] # "absent" => events[e].status \in {"violation", "approved"}

\* The drift of resource r to state was recorded, and is not still pending.
Reviewed(r, state) ==
    \E e \in EventIds : /\ e[2] = r
                        /\ events[e].after = state
                        /\ events[e].status \in {"approved", "violation"}

\* A check that read no baseline may establish row b.
Learns(b) ==
    \E w \in Workers : /\ check[w].pc = "compare"
                       /\ check[w].existing = {}
                       /\ check[w].current[b.res] = b.cfg

SameKey(b, c) == b.txn = c.txn /\ b.res = c.res

\* What the baseline says of a resource changes only to a state whose drift a
\* reviewer has decided on, or when a check that found no baseline at all
\* establishes one; it is forgotten only by such a decision or with the
\* account. (approve_drift and run_drift_check, from what each read earlier.)
BaselineFollowsReview ==
    [][/\ \A b \in baselines' \ baselines : Learns(b) \/ Reviewed(b.res, b.cfg)'
       /\ \A b \in baselines : \/ \E c \in baselines' : SameKey(b, c)
                               \/ Reviewed(b.res, Absent)'
                               \/ ~connected']_vars

\* The baseline of resource r is still the one check w read.
Steady(w, r) ==
    /\ RowsOf(baselines, r) = RowsOf(check[w].existing, r)
    /\ Cardinality(RowsOf(baselines, r)) <= 1

\* What check w found of resource r is not the approved state.
Drifted(w, r) ==
    IF check[w].current[r] = Absent THEN RowsOf(baselines, r) # {}
    ELSE \A b \in RowsOf(baselines, r) : b.cfg # check[w].current[r]

\* A check that ends well has an event exactly for the resources it found in
\* another state than the approved one, as long as their baseline did not
\* change under it. (run_drift_check's comparison with the baseline it read,
\* against the one that is there when it commits.)
DriftIsExact ==
    [][\A w \in Workers, r \in Resources :
         RecordDrift(w) /\ Steady(w, r) /\ nextTxn <= MaxTxn =>
            (events'[<<nextTxn, r>>].status # "absent" <=> Drifted(w, r))]_vars

\* A resource has one approved configuration.
OneBaselinePerResource ==
    \A b, c \in baselines : b.res = c.res => b = c

\* Only the first drift check establishes a baseline: from the first event
\* on, what is in it was approved.
EstablishedOnce ==
    [][(\E e \in EventIds : events[e].status # "absent") =>
         \A b \in baselines' \ baselines : Reviewed(b.res, b.cfg)']_vars

=============================================================================
