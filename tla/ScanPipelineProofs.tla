------------------------- MODULE ScanPipelineProofs -------------------------
(***************************************************************************)
(* Proofs about ScanPipeline, for any number of accounts, checks, workers, *)
(* requests and scans, with every environment event allowed.               *)
(***************************************************************************)
EXTENDS ScanPipeline, FiniteSetTheorems, TLAPS

(* The inductive invariant. Anchored alone is not inductive: it needs that  *)
(* the id of a run under construction is known to its session alone, that   *)
(* the row lock keeps duplicate deliveries apart, and that a task and its   *)
(* run agree on the account.                                                *)

\* s works on run job[s].scan.
Refers(s) == job[s].pc \notin {"idle", "admitted"}

\* s created its run and has told no one: not sent yet, or not committed.
Private(s) == job[s].pc = "enqueue" \/ (InTransaction(s) /\ job[s].fresh)

NewIds ==
    /\ \A n \in ScanIds : n >= nextScan => scans[n] = NoScan /\ queue[n] = 0
    /\ \A s \in Sessions : Refers(s) =>
         job[s].scan \in ScanIds /\ job[s].scan < nextScan

PrivateRuns ==
    \A s \in Sessions : Private(s) =>
        /\ queue[job[s].scan] = 0
        /\ \A t \in Sessions \ {s} : Refers(t) => job[t].scan # job[s].scan
        /\ job[s].pc # "enqueue" => scans[job[s].scan] = NoScan

LockExclusive ==
    \A s, t \in Sessions :
        InTransaction(s) /\ InTransaction(t) /\ job[s].scan = job[t].scan
            => s = t

TransactionsAnchored ==
    \A s \in Sessions : InTransaction(s) =>
        /\ job[s].acct \in accounts
        /\ job[s].fresh \/ /\ scans[job[s].scan].status # "absent"
                           /\ scans[job[s].scan].acct = job[s].acct

LoadedRuns ==
    \A s \in Sessions : job[s].pc = "loaded" =>
        /\ ~job[s].fresh
        /\ scans[job[s].scan].status # "absent" =>
             scans[job[s].scan].acct = job[s].acct

RunsAnchored ==
    \A n \in ScanIds :
        scans[n] = NoScan \/ (scans[n].status # "absent" /\ scans[n].acct \in accounts)

FindingsAnchored ==
    \A k \in Keys : findings[k].status # "absent" =>
        /\ findings[k].scan \in ScanIds
        /\ scans[findings[k].scan].status \in Terminal
        /\ scans[findings[k].scan].acct = k[1]

IInv ==
    /\ TypeOK
    /\ NewIds
    /\ PrivateRuns
    /\ LockExclusive
    /\ TransactionsAnchored
    /\ LoadedRuns
    /\ RunsAnchored
    /\ FindingsAnchored

----------------------------------------------------------------------------
(* Lemmas *)

\* The records the operators build have their types.
LEMMA RowTypes ==
    /\ Idle \in Job
    /\ NoScan \in ScanRow
    /\ NoFinding \in FindingRow
    /\ \A a \in Accounts : QueuedRow(a) \in ScanRow
  <1>1. <<>> \in Seq(Checks) /\ 0 \in 0..MaxScans /\ 0 \in 0..MaxMonth
    BY ScanAssumption
  <1>2. Idle \in Job
    BY <1>1 DEF Idle, Job, Pc
  <1>3. NoScan \in ScanRow
    BY <1>1 DEF NoScan, ScanRow, ScanStatus
  <1>4. NoFinding \in FindingRow
    BY <1>1 DEF NoFinding, FindingRow
  <1>5. \A a \in Accounts : QueuedRow(a) \in ScanRow
    BY <1>3 DEF QueuedRow, ScanRow, ScanStatus
  <1>6. QED
    BY <1>2, <1>3, <1>4, <1>5

\* What a session commits to its run's row is a scan row.
LEMMA CommittedRowType ==
    ASSUME TypeOK, NEW s \in Sessions, job[s].scan \in ScanIds,
           NEW status \in ScanStatus
    PROVE  ScanRowAfter(s, status) \in ScanRow
  <1>1. job[s] \in Job /\ scans[job[s].scan] \in ScanRow
    BY DEF TypeOK
  <1>2. Len(job[s].adding) \in Nat
    BY <1>1 DEF Job
  <1>3. QED
    BY <1>1, <1>2 DEF ScanRowAfter, CountAfter, Persisted, ScanRow, Job

\* Whoever loaded, created or locked a run works on it.
LEMMA RefersTo ==
    ASSUME NEW t \in Sessions
    PROVE  /\ Private(t) => Refers(t)
           /\ InTransaction(t) => Refers(t)
           /\ job[t].pc = "loaded" => Refers(t)
  BY DEF Private, Refers, InTransaction

\* A step of session s leaves every other session as it was.
LEMMA OneSession ==
    ASSUME job \in [Sessions -> Job], NEW s \in Sessions, NEW j \in Job,
           job' = [job EXCEPT ![s] = j]
    PROVE  /\ job' \in [Sessions -> Job]
           /\ job'[s] = j
           /\ \A t \in Sessions \ {s} :
                /\ job'[t] = job[t]
                /\ Refers(t)' <=> Refers(t)
                /\ InTransaction(t)' <=> InTransaction(t)
                /\ Private(t)' <=> Private(t)
           /\ Refers(s)' <=> j.pc \notin {"idle", "admitted"}
           /\ InTransaction(s)' <=> j.pc \in {"auditing", "persist"}
           /\ Private(s)' <=> \/ j.pc = "enqueue"
                              \/ j.pc \in {"auditing", "persist"} /\ j.fresh
  <1>1. /\ job' \in [Sessions -> Job]
        /\ job'[s] = j
        /\ \A t \in Sessions \ {s} : job'[t] = job[t]
    OBVIOUS
  <1>2. QED
    BY <1>1 DEF Refers, InTransaction, Private

\* A session that lets go of its run (it ends, fails, crashes, or has just
\* been admitted), at most adding a snapshot, preserves the invariant.
LEMMA ReleasePreserves ==
    ASSUME IInv, NEW s \in Sessions, NEW j \in Job, j.pc \in {"idle", "admitted"},
           job' = [job EXCEPT ![s] = j], snapshots' \subseteq SnapshotRow,
           UNCHANGED <<accounts, scans, findings, queue, nextScan, month>>
    PROVE  IInv'
  <1>0. job \in [Sessions -> Job]
    BY DEF IInv, TypeOK
  <1>1. /\ job' \in [Sessions -> Job]
        /\ job'[s].pc # "loaded" /\ ~Refers(s)' /\ ~InTransaction(s)' /\ ~Private(s)'
        /\ \A t \in Sessions \ {s} : /\ job'[t] = job[t]
                                     /\ Refers(t)' <=> Refers(t)
                                     /\ InTransaction(t)' <=> InTransaction(t)
                                     /\ Private(t)' <=> Private(t)
    BY <1>0, OneSession
  <1>4. TypeOK'
    BY <1>1 DEF IInv, TypeOK
  <1>5. NewIds'
    BY <1>1 DEF IInv, NewIds
  <1>6. PrivateRuns'
    BY <1>1 DEF IInv, PrivateRuns
  <1>7. LockExclusive' /\ TransactionsAnchored' /\ LoadedRuns'
    BY <1>1 DEF IInv, LockExclusive, TransactionsAnchored, LoadedRuns
  <1>8. RunsAnchored' /\ FindingsAnchored'
    BY DEF IInv, RunsAnchored, FindingsAnchored
  <1>9. QED
    BY <1>4, <1>5, <1>6, <1>7, <1>8 DEF IInv

LEMMA FinishPreserves ==
    ASSUME IInv, NEW s \in Sessions, Finish(s),
           UNCHANGED <<accounts, scans, findings, snapshots, queue, nextScan, month>>
    PROVE  IInv'
  <1>1. Idle.pc = "idle" /\ job' = [job EXCEPT ![s] = Idle]
    BY DEF Idle, Finish
  <1>2. snapshots' \subseteq SnapshotRow
    BY DEF IInv, TypeOK
  <1>3. QED
    BY <1>1, <1>2, ReleasePreserves, RowTypes

\* A step inside the transaction, which keeps its run and its account,
\* preserves the invariant.
LEMMA InsidePreserves ==
    ASSUME IInv, NEW s \in Sessions, InTransaction(s), NEW j \in Job,
           j.pc \in {"auditing", "persist"}, j.scan = job[s].scan,
           j.acct = job[s].acct, j.fresh = job[s].fresh,
           job' = [job EXCEPT ![s] = j],
           UNCHANGED <<accounts, scans, findings, snapshots, queue, nextScan, month>>
    PROVE  IInv'
  <1>0. job \in [Sessions -> Job] /\ Refers(s)
    BY DEF IInv, TypeOK, Refers, InTransaction
  <1>1. job' \in [Sessions -> Job] /\ job'[s].pc # "loaded"
    BY <1>0, OneSession
  <1>2. \A t \in Sessions : /\ job'[t].scan = job[t].scan
                            /\ job'[t].acct = job[t].acct
                            /\ job'[t].fresh = job[t].fresh
                            /\ job'[t].pc = "loaded" <=> job[t].pc = "loaded"
                            /\ job'[t].pc = "enqueue" <=> job[t].pc = "enqueue"
    BY <1>0, OneSession DEF InTransaction
  <1>3. \A t \in Sessions : /\ Refers(t)' <=> Refers(t)
                            /\ InTransaction(t)' <=> InTransaction(t)
    BY <1>0, OneSession
  <1>4. \A t \in Sessions : Private(t)' <=> Private(t)
    BY <1>2, <1>3 DEF Private
  <1>5. TypeOK'
    BY <1>1 DEF IInv, TypeOK
  <1>6. NewIds'
    BY <1>2, <1>3 DEF IInv, NewIds
  <1>7. PrivateRuns'
    BY <1>2, <1>3, <1>4 DEF IInv, PrivateRuns
  <1>8. LockExclusive' /\ TransactionsAnchored' /\ LoadedRuns'
    BY <1>2, <1>3 DEF IInv, LockExclusive, TransactionsAnchored, LoadedRuns
  <1>9. RunsAnchored' /\ FindingsAnchored'
    BY DEF IInv, RunsAnchored, FindingsAnchored
  <1>10. QED
    BY <1>5, <1>6, <1>7, <1>8, <1>9 DEF IInv

----------------------------------------------------------------------------
(* One lemma for each action that disturbs the invariant.                   *)

LEMMA CreateScanRunPreserves ==
    ASSUME IInv, NEW u \in Requests, CreateScanRun(u)
    PROVE  IInv'
  <1> DEFINE j == [job[u] EXCEPT !.pc = "enqueue", !.scan = nextScan]
  <1> USE DEF ScanIds
  <1>a. /\ u \in Sessions /\ job \in [Sessions -> Job] /\ job[u] \in Job
        /\ nextScan \in ScanIds /\ nextScan \in Nat /\ nextScan \in 0..MaxScans
        /\ nextScan' = nextScan + 1 /\ nextScan' \in 1..(MaxScans + 1)
        /\ job[u].acct \in accounts /\ accounts \subseteq Accounts
    BY ScanAssumption DEF CreateScanRun, IInv, TypeOK, Sessions
  <1>b. /\ scans' = [scans EXCEPT ![nextScan] = QueuedRow(job[u].acct)]
        /\ UNCHANGED <<accounts, findings, snapshots, queue, month>>
    BY DEF CreateScanRun
  <1>1. /\ j \in Job /\ j.pc = "enqueue" /\ j.scan = nextScan
        /\ job' = [job EXCEPT ![u] = j]
    <2>1. j \in Job /\ j.pc = "enqueue" /\ j.scan = nextScan
      BY <1>a DEF Job, Pc
    <2>2. job' = [job EXCEPT ![u] = j]
      BY DEF CreateScanRun
    <2>3. QED
      BY <2>1, <2>2
  <1> HIDE DEF j
  <1>2. /\ job' \in [Sessions -> Job]
        /\ job'[u].pc = "enqueue" /\ job'[u].scan = nextScan
        /\ Refers(u)' /\ ~InTransaction(u)'
        /\ \A t \in Sessions \ {u} : /\ job'[t] = job[t]
                                     /\ Refers(t)' <=> Refers(t)
                                     /\ InTransaction(t)' <=> InTransaction(t)
                                     /\ Private(t)' <=> Private(t)
    BY <1>a, <1>b, <1>1, OneSession
  <1>3. /\ scans' \in [ScanIds -> ScanRow]
        /\ scans'[nextScan] = QueuedRow(job[u].acct)
        /\ scans'[nextScan].status = "queued" /\ scans'[nextScan].acct = job[u].acct
        /\ \A n \in ScanIds : n # nextScan => scans'[n] = scans[n]
    BY <1>a, <1>b, RowTypes DEF IInv, TypeOK, QueuedRow, NoScan
  <1>4. /\ scans[nextScan] = NoScan /\ queue[nextScan] = 0
        /\ \A t \in Sessions : Refers(t) => job[t].scan \in ScanIds /\ job[t].scan < nextScan
        /\ \A n \in ScanIds : n < nextScan => n # nextScan
    BY <1>a, <1>b DEF IInv, NewIds
  <1>5. TypeOK'
    BY <1>a, <1>b, <1>2, <1>3 DEF IInv, TypeOK
  <1>6. NewIds'
    <2>1. \A n \in ScanIds : n >= nextScan' => n >= nextScan /\ n # nextScan
      BY <1>a
    <2>2. \A n \in ScanIds : n <= nextScan => n < nextScan'
      BY <1>a
    <2>3. QED
      BY <1>a, <1>b, <1>2, <1>3, <1>4, <2>1, <2>2 DEF IInv, NewIds
  <1>c. \A t \in Sessions : Refers(t) =>
           /\ job[t].scan \in ScanIds /\ job[t].scan # nextScan
           /\ scans'[job[t].scan] = scans[job[t].scan]
    BY <1>3, <1>4
  <1>7. PrivateRuns'
    BY <1>b, <1>c, <1>2, <1>4, RefersTo DEF IInv, PrivateRuns
  <1>8. LockExclusive' /\ TransactionsAnchored'
    BY <1>b, <1>c, <1>2, RefersTo DEF IInv, LockExclusive, TransactionsAnchored
  <1>9. LoadedRuns'
    BY <1>b, <1>c, <1>2, RefersTo DEF IInv, LoadedRuns
  <1>10. RunsAnchored' /\ FindingsAnchored'
    BY <1>a, <1>b, <1>3, <1>4 DEF IInv, RunsAnchored, FindingsAnchored, NoScan, Terminal
  <1>11. QED
    BY <1>5, <1>6, <1>7, <1>8, <1>9, <1>10 DEF IInv

LEMMA EnqueuePreserves ==
    ASSUME IInv, NEW u \in Requests, Enqueue(u)
    PROVE  IInv'
  <1> USE DEF Enqueue, Finish
  <1>0. /\ u \in Sessions /\ job \in [Sessions -> Job] /\ Idle \in Job
        /\ Idle.pc = "idle" /\ Private(u) /\ Refers(u) /\ job[u].scan \in ScanIds
        /\ job[u].scan < nextScan /\ queue[job[u].scan] = 0
    BY RowTypes DEF IInv, TypeOK, Sessions, Idle, Private, Refers, NewIds, PrivateRuns
  <1>1. /\ job' \in [Sessions -> Job]
        /\ job'[u].pc # "loaded" /\ ~Refers(u)' /\ ~InTransaction(u)' /\ ~Private(u)'
        /\ \A t \in Sessions \ {u} : /\ job'[t] = job[t]
                                     /\ Refers(t)' <=> Refers(t)
                                     /\ InTransaction(t)' <=> InTransaction(t)
                                     /\ Private(t)' <=> Private(t)
    BY <1>0, OneSession
  <1>2. /\ queue' \in [ScanIds -> 0..MaxCopies]
        /\ \A n \in ScanIds \ {job[u].scan} : queue'[n] = queue[n]
    BY <1>0, ScanAssumption DEF IInv, TypeOK
  <1>3. TypeOK'
    BY <1>1, <1>2 DEF IInv, TypeOK
  <1>4. NewIds'
    <2>1. \A n \in ScanIds : n >= nextScan => n # job[u].scan
      BY <1>0 DEF IInv, TypeOK, ScanIds
    <2>2. QED
      BY <1>0, <1>1, <1>2, <2>1 DEF IInv, NewIds
  <1>5. PrivateRuns'
    <2>1. \A t \in Sessions \ {u} : Private(t) =>
             Refers(t) /\ job[t].scan # job[u].scan /\ job[t].scan \in ScanIds
      BY <1>0 DEF IInv, PrivateRuns, Private, Refers, InTransaction, NewIds
    <2>2. QED
      BY <1>1, <1>2, <2>1 DEF IInv, PrivateRuns
  <1>6. LockExclusive' /\ TransactionsAnchored' /\ LoadedRuns'
    BY <1>1 DEF IInv, LockExclusive, TransactionsAnchored, LoadedRuns
  <1>7. RunsAnchored' /\ FindingsAnchored'
    BY DEF IInv, RunsAnchored, FindingsAnchored
  <1>8. QED
    BY <1>3, <1>4, <1>5, <1>6, <1>7 DEF IInv

LEMMA BeginFreshPreserves ==
    ASSUME IInv, NEW u \in Requests, NEW pc \in {"auditing", "persist"},
           NEW batch \in Seq(Checks), BeginFresh(u, pc, batch)
    PROVE  IInv'
  <1> DEFINE j == [job[u] EXCEPT !.pc = pc, !.scan = nextScan, !.fresh = TRUE,
                                 !.started = month, !.todo = batch]
  <1> USE DEF ScanIds
  <1>a. /\ u \in Sessions /\ job \in [Sessions -> Job] /\ job[u] \in Job
        /\ nextScan \in ScanIds /\ nextScan \in Nat /\ nextScan \in 0..MaxScans
        /\ nextScan' = nextScan + 1 /\ nextScan' \in 1..(MaxScans + 1)
        /\ job[u].acct \in accounts /\ month \in 0..MaxMonth
    BY ScanAssumption DEF BeginFresh, IInv, TypeOK, Sessions
  <1>b. UNCHANGED <<accounts, scans, findings, snapshots, queue, month>>
    BY DEF BeginFresh
  <1>1. /\ j \in Job /\ job' = [job EXCEPT ![u] = j] /\ j.pc = pc
        /\ j.scan = nextScan /\ j.fresh = TRUE /\ j.acct = job[u].acct
    <2>1. /\ j \in Job /\ j.pc = pc /\ j.scan = nextScan /\ j.fresh = TRUE
          /\ j.acct = job[u].acct
      BY <1>a DEF Job, Pc
    <2>2. job' = [job EXCEPT ![u] = j]
      BY DEF BeginFresh
    <2>3. QED
      BY <2>1, <2>2
  <1> HIDE DEF j
  <1>2. /\ job' \in [Sessions -> Job]
        /\ job'[u] = j /\ Refers(u)' /\ InTransaction(u)' /\ Private(u)'
        /\ job'[u].pc # "loaded"
        /\ \A t \in Sessions \ {u} : /\ job'[t] = job[t]
                                     /\ Refers(t)' <=> Refers(t)
                                     /\ InTransaction(t)' <=> InTransaction(t)
                                     /\ Private(t)' <=> Private(t)
    BY <1>a, <1>b, <1>1, OneSession
  <1>3. /\ scans[nextScan] = NoScan /\ queue[nextScan] = 0
        /\ \A t \in Sessions : Refers(t) => job[t].scan \in ScanIds /\ job[t].scan < nextScan
        /\ \A n \in ScanIds : n < nextScan => n # nextScan
    BY <1>a, <1>b DEF IInv, NewIds
  <1>4. TypeOK'
    BY <1>a, <1>b, <1>2 DEF IInv, TypeOK
  <1>5. NewIds'
    <2>1. \A n \in ScanIds : n >= nextScan' => n >= nextScan /\ n # nextScan
      BY <1>a
    <2>2. \A n \in ScanIds : n <= nextScan => n < nextScan'
      BY <1>a
    <2>3. QED
      BY <1>a, <1>b, <1>1, <1>2, <1>3, <2>1, <2>2 DEF IInv, NewIds
  <1>c. \A t \in Sessions : Refers(t) => job[t].scan # nextScan
    BY <1>3
  <1>6. PrivateRuns'
    BY <1>b, <1>c, <1>1, <1>2, <1>3, RefersTo DEF IInv, PrivateRuns
  <1>7. LockExclusive'
    BY <1>c, <1>1, <1>2, RefersTo DEF IInv, LockExclusive
  <1>7b. TransactionsAnchored'
    BY <1>a, <1>b, <1>1, <1>2 DEF IInv, TransactionsAnchored
  <1>8. LoadedRuns'
    BY <1>b, <1>2 DEF IInv, LoadedRuns
  <1>9. RunsAnchored' /\ FindingsAnchored'
    BY <1>b DEF IInv, RunsAnchored, FindingsAnchored
  <1>10. QED
    BY <1>4, <1>5, <1>6, <1>7, <1>7b, <1>8, <1>9 DEF IInv

LEMMA TakePreserves ==
    ASSUME IInv, NEW w \in Workers, NEW n \in ScanIds, Take(w, n)
    PROVE  IInv'
  <1>a. /\ w \in Sessions /\ job \in [Sessions -> Job] /\ scans[n] \in ScanRow
        /\ Idle \in Job /\ n \in 0..MaxScans /\ queue[n] > 0
        /\ nextScan \in Nat /\ n \in Nat /\ MaxCopies \in Nat
    BY RowTypes, ScanAssumption DEF Take, IInv, TypeOK, Sessions, ScanIds
  <1>b. UNCHANGED <<accounts, scans, findings, snapshots, nextScan, month>>
    BY DEF Take
  <1>c. /\ queue' \in [ScanIds -> 0..MaxCopies]
        /\ \A m \in ScanIds : queue[m] = 0 => queue'[m] = 0
    BY <1>a DEF Take, TakenOffQueue, IInv, TypeOK
  <1>d. n < nextScan
    BY <1>a DEF IInv, NewIds
  <1>1. CASE scans[n].status = "absent"
    <2>1. UNCHANGED job
      BY <1>1 DEF Take
    <2>2. UNCHANGED <<Refers(w), InTransaction(w)>> /\ TypeOK'
      BY <1>b, <1>c, <2>1 DEF IInv, TypeOK, Refers, InTransaction
    <2>3. \A t \in Sessions : /\ Refers(t)' <=> Refers(t)
                              /\ InTransaction(t)' <=> InTransaction(t)
                              /\ Private(t)' <=> Private(t)
      BY <2>1 DEF Refers, InTransaction, Private
    <2>4. NewIds'
      BY <1>b, <1>c, <2>1, <2>3 DEF IInv, NewIds
    <2>5. PrivateRuns'
      BY <1>b, <1>c, <2>1, <2>3, RefersTo DEF IInv, PrivateRuns, NewIds
    <2>6. LockExclusive' /\ TransactionsAnchored' /\ LoadedRuns'
      BY <1>b, <2>1, <2>3 DEF IInv, LockExclusive, TransactionsAnchored, LoadedRuns
    <2>7. RunsAnchored' /\ FindingsAnchored'
      BY <1>b DEF IInv, RunsAnchored, FindingsAnchored
    <2>8. QED
      BY <2>2, <2>4, <2>5, <2>6, <2>7 DEF IInv
  <1>2. CASE scans[n].status # "absent"
    <2> DEFINE j == [Idle EXCEPT !.pc = "loaded", !.acct = scans[n].acct,
                                 !.scan = n, !.loaded = scans[n].count]
    <2>1. /\ j \in Job /\ j.pc = "loaded" /\ j.scan = n /\ j.fresh = FALSE
          /\ j.acct = scans[n].acct
      BY <1>a DEF Job, Pc, Idle, ScanRow
    <2>2. job' = [job EXCEPT ![w] = j]
      BY <1>2 DEF Take
    <2> HIDE DEF j
    <2>3. /\ job' \in [Sessions -> Job] /\ job'[w] = j
          /\ Refers(w)' /\ ~InTransaction(w)' /\ ~Private(w)'
          /\ \A t \in Sessions \ {w} : /\ job'[t] = job[t]
                                       /\ Refers(t)' <=> Refers(t)
                                       /\ InTransaction(t)' <=> InTransaction(t)
                                       /\ Private(t)' <=> Private(t)
      BY <1>a, <2>1, <2>2, OneSession
    <2>4. TypeOK'
      BY <1>b, <1>c, <2>3 DEF IInv, TypeOK
    <2>5. NewIds'
      BY <1>b, <1>c, <1>d, <2>1, <2>3 DEF IInv, NewIds
    <2>6. PrivateRuns'
      <3>1. \A t \in Sessions : Private(t) => queue[job[t].scan] = 0
                                             /\ job[t].scan \in ScanIds
        BY RefersTo DEF IInv, PrivateRuns, NewIds
      <3>2. \A t \in Sessions : Private(t) => job[t].scan # n
        BY <1>a, <3>1
      <3>3. QED
        BY <1>b, <1>c, <2>1, <2>3, <3>1, <3>2 DEF IInv, PrivateRuns
    <2>7. LockExclusive' /\ TransactionsAnchored' /\ LoadedRuns'
      BY <1>b, <2>1, <2>3 DEF IInv, LockExclusive, TransactionsAnchored, LoadedRuns
    <2>8. RunsAnchored' /\ FindingsAnchored'
      BY <1>b DEF IInv, RunsAnchored, FindingsAnchored
    <2>9. QED
      BY <2>4, <2>5, <2>6, <2>7, <2>8 DEF IInv
  <1>3. QED
    BY <1>1, <1>2

LEMMA StartQueuedPreserves ==
    ASSUME IInv, NEW w \in Workers, StartQueued(w)
    PROVE  IInv'
  <1> DEFINE j == [job[w] EXCEPT !.pc = "auditing", !.started = month]
  <1>a. /\ w \in Sessions /\ job \in [Sessions -> Job] /\ job[w] \in Job
        /\ month \in 0..MaxMonth /\ job[w].pc = "loaded" /\ ~job[w].fresh
        /\ Refers(w) /\ ~InTransaction(w) /\ ~Private(w)
    BY ScanAssumption DEF StartQueued, IInv, TypeOK, Sessions, LoadedRuns,
                          Refers, InTransaction, Private
  <1>b. /\ job[w].scan \in ScanIds /\ scans[job[w].scan].status # "absent"
        /\ scans[job[w].scan].acct = job[w].acct /\ job[w].acct \in accounts
    BY <1>a DEF StartQueued, IInv, NewIds, LoadedRuns, RunsAnchored, NoScan
  <1>c. UNCHANGED <<accounts, scans, findings, snapshots, queue, nextScan, month>>
    BY DEF StartQueued
  <1>d. \A t \in Sessions \ {w} : InTransaction(t) => job[t].scan # job[w].scan
    BY DEF StartQueued, RowLocked
  <1>1. /\ j \in Job /\ j.pc = "auditing" /\ j.scan = job[w].scan
        /\ j.fresh = job[w].fresh /\ j.acct = job[w].acct
    BY <1>a DEF Job, Pc
  <1>2. job' = [job EXCEPT ![w] = j]
    BY DEF StartQueued
  <1> HIDE DEF j
  <1>3. /\ job' \in [Sessions -> Job] /\ job'[w] = j
        /\ Refers(w)' /\ InTransaction(w)' /\ ~Private(w)'
        /\ \A t \in Sessions \ {w} : /\ job'[t] = job[t]
                                     /\ Refers(t)' <=> Refers(t)
                                     /\ InTransaction(t)' <=> InTransaction(t)
                                     /\ Private(t)' <=> Private(t)
    BY <1>a, <1>1, <1>2, OneSession
  <1>4. TypeOK'
    BY <1>c, <1>3 DEF IInv, TypeOK
  <1>5. NewIds'
    BY <1>a, <1>c, <1>1, <1>3 DEF IInv, NewIds
  <1>6. PrivateRuns'
    BY <1>a, <1>c, <1>1, <1>3 DEF IInv, PrivateRuns
  <1>7. LockExclusive'
    BY <1>d, <1>1, <1>3 DEF IInv, LockExclusive
  <1>8. TransactionsAnchored' /\ LoadedRuns'
    BY <1>b, <1>c, <1>1, <1>3 DEF IInv, TransactionsAnchored, LoadedRuns
  <1>9. RunsAnchored' /\ FindingsAnchored'
    BY <1>c DEF IInv, RunsAnchored, FindingsAnchored
  <1>10. QED
    BY <1>4, <1>5, <1>6, <1>7, <1>8, <1>9 DEF IInv

\* A session in a transaction ends its run: it writes a terminal row of its
\* account over the run it holds, leaves the transaction, and may add findings
\* of that run and account.
LEMMA EndsRunPreserves ==
    ASSUME IInv, NEW s \in Sessions, InTransaction(s),
           NEW status \in Terminal, NEW j \in Job, j.pc \in {"idle", "snapshot"},
           j.pc = "snapshot" => j.scan = job[s].scan,
           job' = [job EXCEPT ![s] = j],
           scans' = [scans EXCEPT ![job[s].scan] = ScanRowAfter(s, status)],
           findings' \in [Keys -> FindingRow],
           \A k \in Keys : \/ findings'[k] = findings[k]
                           \/ findings'[k].scan = job[s].scan /\ k[1] = job[s].acct,
           UNCHANGED <<accounts, snapshots, queue, nextScan, month>>
    PROVE  IInv'
  <1> DEFINE n == job[s].scan
  <1>a. /\ job \in [Sessions -> Job] /\ Refers(s) /\ n \in ScanIds
        /\ job[s].acct \in accounts /\ status \in ScanStatus
    BY RefersTo DEF IInv, TypeOK, NewIds, TransactionsAnchored, Terminal, ScanStatus
  <1>b. scans[n] = NoScan \/ scans[n].acct = job[s].acct
    <2>1. CASE job[s].fresh
      <3>1. Private(s) /\ job[s].pc # "enqueue"
        BY <2>1 DEF Private, InTransaction
      <3>2. QED
        BY <3>1 DEF IInv, PrivateRuns
    <2>2. CASE ~job[s].fresh
      BY <2>2 DEF IInv, TransactionsAnchored
    <2>3. QED
      BY <2>1, <2>2
  <1>c. /\ scans' \in [ScanIds -> ScanRow]
        /\ scans'[n].status \in Terminal /\ scans'[n].acct = job[s].acct
        /\ scans'[n] # NoScan
        /\ \A m \in ScanIds : m # n => scans'[m] = scans[m]
    BY <1>a, CommittedRowType DEF IInv, TypeOK, ScanRowAfter, Terminal, NoScan
  <1>1. /\ job' \in [Sessions -> Job] /\ job'[s] = j
        /\ Refers(s)' => j.scan = n
        /\ ~InTransaction(s)' /\ ~Private(s)' /\ j.pc # "loaded"
        /\ \A t \in Sessions \ {s} : /\ job'[t] = job[t]
                                     /\ Refers(t)' <=> Refers(t)
                                     /\ InTransaction(t)' <=> InTransaction(t)
                                     /\ Private(t)' <=> Private(t)
    BY <1>a, OneSession
  <1>2. \A t \in Sessions \ {s} : InTransaction(t) \/ Private(t) => job[t].scan # n
    BY <1>a DEF IInv, LockExclusive, PrivateRuns
  <1>3. TypeOK'
    BY <1>1, <1>c DEF IInv, TypeOK
  <1>4. NewIds'
    <2>1. n < nextScan /\ n \in Nat /\ nextScan \in Nat
      BY <1>a DEF IInv, NewIds, TypeOK, ScanIds
    <2>2. \A m \in ScanIds : m >= nextScan => m # n
      BY <2>1 DEF ScanIds
    <2>3. QED
      BY <1>1, <1>c, <2>1, <2>2, <1>a DEF IInv, NewIds
  <1>5. PrivateRuns'
    <2>1. \A t \in Sessions \ {s} : Private(t) => job[s].scan # job[t].scan
      BY <1>2
    <2>2. \A t \in Sessions \ {s} : Private(t) =>
              scans'[job[t].scan] = scans[job[t].scan]
      BY <1>2, <1>c, RefersTo DEF IInv, NewIds
    <2>3. QED
      BY <1>1, <2>1, <2>2 DEF IInv, PrivateRuns
  <1>6. LockExclusive'
    BY <1>1 DEF IInv, LockExclusive
  <1>7. TransactionsAnchored'
    <2>1. \A t \in Sessions \ {s} : InTransaction(t) =>
              scans'[job[t].scan] = scans[job[t].scan]
      BY <1>2, <1>c, RefersTo DEF IInv, NewIds
    <2>2. QED
      BY <1>1, <2>1 DEF IInv, TransactionsAnchored
  <1>8. LoadedRuns'
    <2> SUFFICES ASSUME NEW t \in Sessions \ {s}, job[t].pc = "loaded"
                 PROVE  /\ ~job[t].fresh
                        /\ scans'[job[t].scan].status # "absent" =>
                             scans'[job[t].scan].acct = job[t].acct
      BY <1>1 DEF LoadedRuns
    <2>1. Refers(t) /\ job[t].scan \in ScanIds
      BY RefersTo DEF IInv, NewIds
    <2>2. /\ ~job[t].fresh
          /\ scans[job[t].scan].status # "absent" =>
               scans[job[t].scan].acct = job[t].acct
      BY DEF IInv, LoadedRuns
    <2>3. CASE job[t].scan # n
      BY <2>1, <2>2, <2>3, <1>c
    <2>4. CASE job[t].scan = n
      <3>1. ~job[s].fresh
        BY <2>1, <2>4 DEF IInv, PrivateRuns, Private
      <3>2. scans[n].status # "absent" /\ scans[n].acct = job[s].acct
        BY <3>1 DEF IInv, TransactionsAnchored
      <3>3. QED
        BY <2>2, <2>4, <3>2, <1>c
    <2>5. QED
      BY <2>3, <2>4
  <1>9. RunsAnchored'
    BY <1>a, <1>c DEF IInv, RunsAnchored, Terminal
  <1>10. FindingsAnchored'
    <2> SUFFICES ASSUME NEW k \in Keys, findings'[k].status # "absent"
                 PROVE  /\ findings'[k].scan \in ScanIds
                        /\ scans'[findings'[k].scan].status \in Terminal
                        /\ scans'[findings'[k].scan].acct = k[1]
      BY DEF FindingsAnchored
    <2>1. CASE findings'[k].scan = n /\ k[1] = job[s].acct
      BY <2>1, <1>a, <1>c
    <2>2. CASE findings'[k] = findings[k]
      <3>1. /\ findings[k].scan \in ScanIds
            /\ scans[findings[k].scan].status \in Terminal
            /\ scans[findings[k].scan].acct = k[1]
        BY <2>2 DEF IInv, FindingsAnchored
      <3>2. CASE findings[k].scan = n
        <4>1. scans[n] # NoScan
          BY <3>1, <3>2 DEF NoScan, Terminal
        <4>2. QED
          BY <4>1, <3>1, <3>2, <1>a, <1>b, <1>c, <2>2
      <3>3. CASE findings[k].scan # n
        BY <3>1, <3>3, <1>c, <2>2
      <3>4. QED
        BY <3>2, <3>3
    <2>3. QED
      BY <2>1, <2>2
  <1>11. QED
    BY <1>3, <1>4, <1>5, <1>6, <1>7, <1>8, <1>9, <1>10 DEF IInv

LEMMA AuditRaisesPreserves ==
    ASSUME IInv, NEW s \in Sessions, AuditRaises(s)
    PROVE  IInv'
  <1>1. InTransaction(s) /\ "failed" \in Terminal /\ Idle.pc = "idle"
    BY DEF AuditRaises, InTransaction, Terminal, Idle
  <1>2. findings' \in [Keys -> FindingRow]
    BY DEF AuditRaises, IInv, TypeOK
  <1>3. /\ job' = [job EXCEPT ![s] = Idle]
        /\ scans' = [scans EXCEPT ![job[s].scan] = ScanRowAfter(s, "failed")]
        /\ \A k \in Keys : findings'[k] = findings[k]
        /\ UNCHANGED <<accounts, snapshots, queue, nextScan, month>>
    BY DEF AuditRaises, Finish
  <1>4. QED
    BY <1>1, <1>2, <1>3, RowTypes, EndsRunPreserves

LEMMA CommitScanPreserves ==
    ASSUME IInv, NEW s \in Sessions, CommitScan(s)
    PROVE  IInv'
  <1> DEFINE j == [job[s] EXCEPT !.pc = "snapshot"]
             new(k) == \E i \in 1..Len(job[s].adding) :
                          k = <<job[s].acct, job[s].adding[i]>>
  <1>1. InTransaction(s) /\ "completed" \in Terminal
    BY DEF CommitScan, InTransaction, Terminal
  <1>2. job[s] \in Job
    BY DEF IInv, TypeOK
  <1>3. j \in Job /\ j.pc = "snapshot" /\ j.scan = job[s].scan
    BY <1>2 DEF Job, Pc
  <1>4. /\ job' = [job EXCEPT ![s] = j]
        /\ scans' = [scans EXCEPT ![job[s].scan] = ScanRowAfter(s, "completed")]
        /\ findings' = [k \in Keys |->
              IF new(k) THEN [scan |-> job[s].scan, status |-> "open"]
                        ELSE findings[k]]
        /\ UNCHANGED <<accounts, snapshots, queue, nextScan, month>>
    BY DEF CommitScan
  <1>5. [scan |-> job[s].scan, status |-> "open"] \in FindingRow
    BY <1>2 DEF Job, FindingRow, FindingStatus
  <1>6. findings' \in [Keys -> FindingRow]
    BY <1>4, <1>5 DEF IInv, TypeOK
  <1>7. \A k \in Keys : new(k) => k[1] = job[s].acct
    OBVIOUS
  <1>8. \A k \in Keys : \/ findings'[k] = findings[k]
                        \/ findings'[k].scan = job[s].scan /\ k[1] = job[s].acct
    BY <1>4, <1>7
  <1> HIDE DEF j, new
  <1>9. QED
    BY <1>1, <1>3, <1>4, <1>6, <1>8, EndsRunPreserves

\* Disconnecting account a takes only what is a's; no transaction stands on it.
LEMMA DisconnectPreserves ==
    ASSUME IInv, NEW a \in Accounts, Disconnect(a)
    PROVE  IInv'
  <1>a. /\ accounts' = accounts \ {a}
        /\ \A s \in Sessions : InTransaction(s) => job[s].acct # a
        /\ UNCHANGED <<snapshots, queue, job, nextScan, month>>
    BY DEF Disconnect, Busy
  <1>b. NoScan \in ScanRow /\ NoScan.acct # a /\ NoFinding \in FindingRow
        /\ NoFinding.status = "absent" /\ NoScan.status = "absent"
    BY RowTypes, ScanAssumption DEF NoScan, NoFinding
  <1>c. /\ scans' \in [ScanIds -> ScanRow]
        /\ \A n \in ScanIds : scans[n].acct # a => scans'[n] = scans[n]
        /\ \A n \in ScanIds : scans[n].acct = a => scans'[n] = NoScan
    BY <1>b DEF Disconnect, IInv, TypeOK
  <1>d. /\ findings' \in [Keys -> FindingRow]
        /\ \A k \in Keys : findings'[k].status # "absent" =>
              findings'[k] = findings[k] /\ k[1] # a
    BY <1>b DEF Disconnect, IInv, TypeOK
  <1>e. \A s \in Sessions : /\ Refers(s)' <=> Refers(s)
                            /\ InTransaction(s)' <=> InTransaction(s)
                            /\ Private(s)' <=> Private(s)
    BY <1>a DEF Refers, InTransaction, Private
  <1>f. \A n \in ScanIds : scans[n] = NoScan => scans'[n] = NoScan
    BY <1>b, <1>c
  <1>1. TypeOK'
    BY <1>a, <1>c, <1>d DEF IInv, TypeOK
  <1>2. NewIds'
    BY <1>a, <1>e, <1>f DEF IInv, NewIds
  <1>3. PrivateRuns'
    <2>1. \A s \in Sessions : Private(s) => job[s].scan \in ScanIds
      BY RefersTo DEF IInv, NewIds
    <2>2. QED
      BY <1>a, <1>e, <1>f, <2>1 DEF IInv, PrivateRuns
  <1>4. LockExclusive'
    BY <1>a, <1>e DEF IInv, LockExclusive
  <1>5. TransactionsAnchored'
    <2>1. \A s \in Sessions : InTransaction(s) => job[s].scan \in ScanIds
      BY RefersTo DEF IInv, NewIds
    <2>2. QED
      BY <1>a, <1>c, <1>e, <2>1 DEF IInv, TransactionsAnchored
  <1>6. LoadedRuns'
    <2>1. \A s \in Sessions : job[s].pc = "loaded" => job[s].scan \in ScanIds
      BY RefersTo DEF IInv, NewIds
    <2>2. QED
      BY <1>a, <1>b, <1>c, <2>1 DEF IInv, LoadedRuns
  <1>7. RunsAnchored'
    BY <1>a, <1>c, <1>f DEF IInv, RunsAnchored
  <1>8. FindingsAnchored'
    BY <1>c, <1>d DEF IInv, FindingsAnchored
  <1>9. QED
    BY <1>1, <1>2, <1>3, <1>4, <1>5, <1>6, <1>7, <1>8 DEF IInv

\* A step that touches no session and no run (triage, purge, the calendar, a
\* redelivered message) preserves the invariant when it keeps the types,
\* invents no finding and no message.
LEMMA AsidePreserves ==
    ASSUME IInv, TypeOK',
           \A k \in Keys : findings'[k].status # "absent" =>
               findings[k].status # "absent" /\ findings'[k].scan = findings[k].scan,
           \A n \in ScanIds : queue[n] = 0 => queue'[n] = 0,
           UNCHANGED <<accounts, scans, job, nextScan>>
    PROVE  IInv'
  <1>1. \A s \in Sessions : /\ Refers(s)' <=> Refers(s)
                            /\ InTransaction(s)' <=> InTransaction(s)
                            /\ Private(s)' <=> Private(s)
    BY DEF Refers, InTransaction, Private
  <1>2. NewIds'
    BY <1>1 DEF IInv, NewIds
  <1>3. PrivateRuns'
    <2>1. \A s \in Sessions : Private(s) => job[s].scan \in ScanIds
      BY RefersTo DEF IInv, NewIds
    <2>2. QED
      BY <1>1, <2>1 DEF IInv, PrivateRuns
  <1>4. LockExclusive' /\ TransactionsAnchored' /\ LoadedRuns' /\ RunsAnchored'
    BY <1>1 DEF IInv, LockExclusive, TransactionsAnchored, LoadedRuns, RunsAnchored
  <1>5. FindingsAnchored'
    BY DEF IInv, FindingsAnchored
  <1>6. QED
    BY <1>2, <1>3, <1>4, <1>5 DEF IInv

LEMMA EnvironmentPreserves ==
    ASSUME IInv, Environment
    PROVE  IInv'
  <1>0. TypeOK
    BY DEF IInv
  <1>1. ASSUME NEW k \in Keys, NEW status \in FindingStatus,
               UpdateFinding(k, status)
        PROVE  IInv'
    <2>1. [findings[k] EXCEPT !.status = status] \in FindingRow
      BY <1>0 DEF TypeOK, FindingRow
    <2>2. TypeOK'
      BY <1>0, <1>1, <2>1 DEF UpdateFinding, TypeOK
    <2>3. /\ \A m \in Keys : findings'[m].status # "absent" =>
               findings[m].status # "absent" /\ findings'[m].scan = findings[m].scan
          /\ UNCHANGED <<accounts, scans, queue, job, nextScan>>
      BY <1>0, <1>1 DEF UpdateFinding, TypeOK, FindingRow
    <2>4. QED
      BY <2>2, <2>3, AsidePreserves
  <1>2. ASSUME NEW old \in SUBSET Keys, RetentionPurge(old)
        PROVE  IInv'
    <2>1. TypeOK'
      BY <1>0, <1>2, RowTypes DEF RetentionPurge, TypeOK
    <2>2. /\ \A m \in Keys : findings'[m].status # "absent" =>
               findings[m].status # "absent" /\ findings'[m].scan = findings[m].scan
          /\ UNCHANGED <<accounts, scans, queue, job, nextScan>>
      BY <1>2 DEF RetentionPurge, NoFinding
    <2>3. QED
      BY <2>1, <2>2, AsidePreserves
  <1>3. ASSUME NEW a \in Accounts, Disconnect(a)
        PROVE  IInv'
    BY <1>3, DisconnectPreserves
  <1>4. ASSUME NEW s \in Sessions, Crash(s)
        PROVE  IInv'
    BY <1>4, FinishPreserves DEF Crash
  <1>5. ASSUME NEW n \in ScanIds, Redeliver(n)
        PROVE  IInv'
    <2>1. queue' \in [ScanIds -> 0..MaxCopies]
      BY <1>0, <1>5, ScanAssumption DEF Redeliver, TypeOK
    <2>2. TypeOK' /\ UNCHANGED <<accounts, scans, findings, job, nextScan>>
      BY <1>0, <1>5, <2>1 DEF Redeliver, TypeOK
    <2>3. \A m \in ScanIds : queue[m] = 0 => queue'[m] = 0
      BY <1>0, <1>5 DEF Redeliver, TypeOK
    <2>4. QED
      BY <2>2, <2>3, AsidePreserves
  <1>6. ASSUME NewMonth
        PROVE  IInv'
    <2>1. TypeOK' /\ UNCHANGED <<accounts, scans, findings, queue, job, nextScan>>
      BY <1>0, <1>6, ScanAssumption DEF NewMonth, TypeOK
    <2>2. QED
      BY <2>1, AsidePreserves
  <1>7. QED
    BY <1>1, <1>2, <1>3, <1>4, <1>5, <1>6 DEF Environment

LEMMA RequestPreserves ==
    ASSUME IInv, NEW u \in Requests, Request(u)
    PROVE  IInv'
  <1>0. u \in Sessions /\ snapshots \subseteq SnapshotRow
    BY DEF Sessions, IInv, TypeOK
  <1>1. ASSUME NEW a \in Accounts, Admit(u, a)
        PROVE  IInv'
    <2> DEFINE j == [Idle EXCEPT !.pc = "admitted", !.acct = a]
    <2>1. j \in Job /\ j.pc = "admitted"
      BY RowTypes DEF Job, Pc
    <2>2. /\ job' = [job EXCEPT ![u] = j]
          /\ UNCHANGED <<accounts, scans, findings, snapshots, queue, nextScan, month>>
      BY <1>1 DEF Admit
    <2> HIDE DEF j
    <2>3. QED
      BY <1>0, <2>1, <2>2, ReleasePreserves
  <1>2. ASSUME AdmittedAccountGone(u)
        PROVE  IInv'
    BY <1>0, <1>2, FinishPreserves DEF AdmittedAccountGone
  <1>3. ASSUME EnqueueFails(u)
        PROVE  IInv'
    BY <1>0, <1>3, FinishPreserves DEF EnqueueFails
  <1>4. ASSUME BeginEager(u)
        PROVE  IInv'
    <2>1. BeginFresh(u, "auditing", <<>>) /\ <<>> \in Seq(Checks)
      BY <1>4 DEF BeginEager
    <2>2. QED
      BY <2>1, BeginFreshPreserves
  <1>5. ASSUME BeginIngest(u)
        PROVE  IInv'
    <2>1. PICK b \in IngestBatches : BeginFresh(u, "persist", b)
      BY <1>5 DEF BeginIngest
    <2>2. QED
      BY <2>1, ScanAssumption, BeginFreshPreserves
  <1>6. QED
    BY <1>1, <1>2, <1>3, <1>4, <1>5, CreateScanRunPreserves, EnqueuePreserves
       DEF Request

LEMMA WorkerPreserves ==
    ASSUME IInv, NEW w \in Workers, Worker(w)
    PROVE  IInv'
  <1>1. ASSUME LoadedRunGone(w)
        PROVE  IInv'
    BY <1>1, FinishPreserves DEF LoadedRunGone, Sessions
  <1>2. QED
    BY <1>1, TakePreserves, StartQueuedPreserves DEF Worker

LEMMA RunAuditPreserves ==
    ASSUME IInv, NEW s \in Sessions, RunAudit(s)
    PROVE  IInv'
  <1>0. job[s] \in Job
    BY DEF IInv, TypeOK
  <1>1. ASSUME AuditReturns(s)
        PROVE  IInv'
    <2>1. PICK b \in NativeBatches :
             job' = [job EXCEPT ![s] = [@ EXCEPT !.pc = "persist", !.todo = b]]
      BY <1>1 DEF AuditReturns
    <2> DEFINE j == [job[s] EXCEPT !.pc = "persist", !.todo = b]
    <2>2. /\ j \in Job /\ j.pc = "persist" /\ j.scan = job[s].scan
          /\ j.acct = job[s].acct /\ j.fresh = job[s].fresh
      BY <1>0, ScanAssumption DEF Job, Pc
    <2>3. job' = [job EXCEPT ![s] = j]
      BY <2>1
    <2>4. /\ InTransaction(s)
          /\ UNCHANGED <<accounts, scans, findings, snapshots, queue, nextScan, month>>
      BY <1>1 DEF AuditReturns, InTransaction
    <2> HIDE DEF j
    <2>5. QED
      BY <2>2, <2>3, <2>4, InsidePreserves
  <1>2. ASSUME PersistOne(s)
        PROVE  IInv'
    <2> DEFINE c == Head(job[s].todo)
               j == [job[s] EXCEPT !.todo = Tail(job[s].todo),
                                   !.seen = job[s].seen \cup {c},
                                   !.adding = IF Skips(job[s], c) THEN job[s].adding
                                              ELSE Append(job[s].adding, c)]
    <2>1. job[s].todo \in Seq(Checks) /\ job[s].todo # <<>> /\ job[s].pc = "persist"
      BY <1>0, <1>2 DEF PersistOne, Job
    <2>2. c \in Checks /\ Tail(job[s].todo) \in Seq(Checks)
      BY <2>1
    <2> HIDE DEF c
    <2>3. Append(job[s].adding, c) \in Seq(Checks)
      BY <1>0, <2>2 DEF Job
    <2>4. /\ j \in Job /\ j.pc = "persist" /\ j.scan = job[s].scan
          /\ j.acct = job[s].acct /\ j.fresh = job[s].fresh
      BY <1>0, <2>1, <2>2, <2>3 DEF Job
    <2>5. job' = [job EXCEPT ![s] = j]
      BY <1>2 DEF PersistOne, c
    <2>6. /\ InTransaction(s)
          /\ UNCHANGED <<accounts, scans, findings, snapshots, queue, nextScan, month>>
      BY <1>2 DEF PersistOne, InTransaction
    <2> HIDE DEF j
    <2>7. QED
      BY <2>4, <2>5, <2>6, InsidePreserves
  <1>3. ASSUME CommitConflicts(s)
        PROVE  IInv'
    BY <1>3, FinishPreserves DEF CommitConflicts
  <1>4. ASSUME RecordSnapshot(s)
        PROVE  IInv'
    <2>1. job[s].scan \in ScanIds
      BY <1>4 DEF RecordSnapshot, IInv, NewIds, Refers
    <2>2. [scan |-> job[s].scan, failed |-> OpenChecks(job[s].acct)] \in SnapshotRow
      BY <2>1 DEF SnapshotRow, OpenChecks
    <2>3. /\ snapshots' \subseteq SnapshotRow
          /\ job' = [job EXCEPT ![s] = Idle] /\ Idle.pc = "idle"
          /\ UNCHANGED <<accounts, scans, findings, queue, nextScan, month>>
      BY <1>4, <2>2 DEF RecordSnapshot, Finish, Idle, IInv, TypeOK
    <2>4. QED
      BY <2>3, RowTypes, ReleasePreserves
  <1>5. QED
    BY <1>1, <1>2, <1>3, <1>4, AuditRaisesPreserves, CommitScanPreserves
       DEF RunAudit

LEMMA StepPreserves == IInv /\ [Next]_vars => IInv'
  <1>1. ASSUME IInv, UNCHANGED vars
        PROVE  IInv'
    <2>1. TypeOK' /\ UNCHANGED <<accounts, scans, findings, queue, job, nextScan>>
      BY <1>1 DEF vars, IInv, TypeOK
    <2>2. QED
      BY <1>1, <2>1, AsidePreserves
  <1>2. ASSUME IInv, Next
        PROVE  IInv'
    BY <1>2, RequestPreserves, WorkerPreserves, RunAuditPreserves,
       EnvironmentPreserves DEF Next
  <1>3. QED
    BY <1>1, <1>2

LEMMA InitEstablishes == Init => IInv
  <1> SUFFICES ASSUME Init PROVE IInv
    OBVIOUS
  <1>1. /\ \A n \in ScanIds : scans[n] = NoScan /\ queue[n] = 0
        /\ \A k \in Keys : findings[k].status = "absent"
        /\ \A s \in Sessions : job[s].pc = "idle"
    BY DEF Init, NoFinding, Idle
  <1>2. \A s \in Sessions : ~Refers(s) /\ ~InTransaction(s) /\ ~Private(s)
    BY <1>1 DEF Refers, InTransaction, Private
  <1>3. TypeOK
    <2>1. 0 \in 0..MaxCopies /\ 1 \in 1..(MaxScans + 1) /\ 1 \in 1..MaxMonth
      BY ScanAssumption
    <2>2. QED
      BY <2>1, RowTypes DEF Init, TypeOK
  <1>4. QED
    BY <1>1, <1>2, <1>3 DEF IInv, NewIds, PrivateRuns, LockExclusive,
       TransactionsAnchored, LoadedRuns, RunsAnchored, FindingsAnchored

----------------------------------------------------------------------------
(* Theorems *)

\* The strengthening of Anchored holds of every reachable state.
THEOREM InvariantHolds == Spec => []IInv
  BY InitEstablishes, StepPreserves, PTL DEF Spec

\* Every row, message and session record keeps its type: a redelivered
\* message never exceeds its bound, an id is never reused.
THEOREM TypeCorrect == Spec => []TypeOK
  <1>1. IInv => TypeOK
    BY DEF IInv
  <1>2. QED
    BY <1>1, InvariantHolds, PTL

\* A transaction keeps the rows it stands on and committed findings belong to
\* ended runs of connected accounts, whatever crashes, is delivered twice, is
\* purged, triaged or disconnected in between.
THEOREM AlwaysAnchored == Spec => []Anchored
  <1>1. ASSUME IInv PROVE Anchored
    <2>1. \A s \in Sessions : InTransaction(s) =>
            /\ job[s].acct \in accounts
            /\ job[s].fresh \/ /\ scans[job[s].scan].status # "absent"
                               /\ scans[job[s].scan].acct = job[s].acct
      BY <1>1 DEF IInv, TransactionsAnchored
    <2>2. ASSUME NEW k \in Keys, findings[k].status # "absent"
          PROVE  /\ k[1] \in accounts
                 /\ scans[findings[k].scan].status \in Terminal
                 /\ scans[findings[k].scan].acct = k[1]
      <3>1. /\ findings[k].scan \in ScanIds
            /\ scans[findings[k].scan].status \in Terminal
            /\ scans[findings[k].scan].acct = k[1]
        BY <1>1, <2>2 DEF IInv, FindingsAnchored
      <3>2. QED
        BY <1>1, <3>1 DEF IInv, RunsAnchored, NoScan, Terminal
    <2>3. QED
      BY <2>1, <2>2 DEF Anchored
  <1>2. QED
    BY <1>1, InvariantHolds, PTL

----------------------------------------------------------------------------
(* RecordsWhatItFound, when nothing is purged while scans run.              *)

\* A finding this batch has met is stored already or will be added.
FoundOrAdding ==
    \A s \in Sessions :
        /\ job[s].pc \notin {"persist", "snapshot"} => job[s].seen = {}
        /\ job[s].pc = "persist" =>
             \A c \in job[s].seen :
                 \/ AlreadyStored(job[s].acct, c)
                 \/ \E i \in 1..Len(job[s].adding) : job[s].adding[i] = c

\* The findings of an account stay stored while a transaction stands on it.
LEMMA StoredStays ==
    ASSUME IInv, "purge" \notin Events, [Next]_vars,
           NEW s \in Sessions, InTransaction(s),
           NEW c \in Checks, AlreadyStored(job[s].acct, c)
    PROVE  findings'[<<job[s].acct, c>>].status # "absent"
  <1> SUFFICES ASSUME NEW k, k = <<job[s].acct, c>>
               PROVE  findings'[k].status # "absent"
    OBVIOUS
  <1>1. k \in Keys /\ findings[k].status # "absent" /\ findings[k] \in FindingRow
    BY DEF IInv, TypeOK, TransactionsAnchored, Keys, AlreadyStored
  <1>2. ASSUME NEW u \in Requests, Request(u)
        PROVE  findings' = findings
    BY <1>2 DEF Request, Admit, AdmittedAccountGone, CreateScanRun, Enqueue,
       EnqueueFails, BeginEager, BeginIngest, BeginFresh
  <1>3. ASSUME NEW w \in Workers, Worker(w)
        PROVE  findings' = findings
    BY <1>3 DEF Worker, Take, StartQueued, LoadedRunGone
  <1>4. ASSUME NEW t \in Sessions, RunAudit(t)
        PROVE  findings' = findings \/ findings'[k].status # "absent"
    <2>1. CASE CommitScan(t)
      BY <1>1, <2>1 DEF CommitScan
    <2>2. CASE ~CommitScan(t)
      BY <1>4, <2>2 DEF RunAudit, AuditReturns, AuditRaises, PersistOne,
         CommitConflicts, RecordSnapshot
    <2>3. QED
      BY <2>1, <2>2
  <1>5. ASSUME NEW a \in Accounts, Disconnect(a)
        PROVE  findings'[k].status # "absent"
    BY <1>1, <1>5 DEF Disconnect, Busy
  <1>6. ASSUME NEW m \in Keys, NEW status \in FindingStatus, UpdateFinding(m, status)
        PROVE  findings'[k].status # "absent"
    BY <1>1, <1>6 DEF UpdateFinding, FindingStatus, IInv, TypeOK, FindingRow
  <1>7. ASSUME Environment
        PROVE  findings' = findings \/ findings'[k].status # "absent"
    BY <1>5, <1>6, <1>7 DEF Environment, RetentionPurge, Crash, Redeliver, NewMonth
  <1>8. CASE UNCHANGED vars
    BY <1>1, <1>8 DEF vars
  <1>9. QED
    BY <1>1, <1>2, <1>3, <1>4, <1>7, <1>8 DEF Next

\* What a step may do to one session's batch.
LEMMA BatchStep ==
    ASSUME IInv, FoundOrAdding, [Next]_vars, NEW s \in Sessions
    PROVE  \/ job'[s] = job[s]
           \/ job'[s].seen = {} /\ job'[s].pc # "snapshot"
           \/ PersistOne(s)
           \/ CommitScan(s)
  <1> DEFINE Fresh == job'[s].seen = {} /\ job'[s].pc # "snapshot"
  <1>0. /\ job \in [Sessions -> Job] /\ Idle.seen = {} /\ Idle.pc = "idle"
        /\ job[s].pc \notin {"persist", "snapshot"} => job[s].seen = {}
    BY DEF IInv, TypeOK, Idle, FoundOrAdding
  <1>1. ASSUME NEW t \in Sessions, Finish(t)
        PROVE  job'[s] = job[s] \/ Fresh
    BY <1>0, <1>1 DEF Finish
  <1>2. ASSUME NEW u \in Requests, Request(u)
        PROVE  job'[s] = job[s] \/ Fresh
    <2>0. u \in Sessions
      BY DEF Sessions
    <2>1. CASE AdmittedAccountGone(u) \/ Enqueue(u) \/ EnqueueFails(u)
      BY <1>1, <2>0, <2>1 DEF AdmittedAccountGone, Enqueue, EnqueueFails
    <2>2. ASSUME NEW a \in Accounts, Admit(u, a)
          PROVE  job'[s] = job[s] \/ Fresh
      BY <1>0, <2>0, <2>2 DEF Admit
    <2>3. CASE CreateScanRun(u)
      BY <1>0, <2>0, <2>3 DEF CreateScanRun, Job
    <2>4. ASSUME NEW pc \in {"auditing", "persist"}, NEW b, BeginFresh(u, pc, b)
          PROVE  job'[s] = job[s] \/ Fresh
      <3>1. CASE s = u
        <4>1. job'[u] = [job[u] EXCEPT !.pc = pc, !.scan = nextScan, !.fresh = TRUE,
                                       !.started = month, !.todo = b]
          BY <1>0, <2>0, <2>4 DEF BeginFresh
        <4>2. job[u].pc = "admitted" /\ job[u] \in Job
          BY <1>0, <2>0, <2>4 DEF BeginFresh
        <4>3. job'[u].seen = job[u].seen /\ job'[u].pc = pc
          BY <4>1, <4>2 DEF Job
        <4>4. QED
          BY <1>0, <3>1, <4>2, <4>3
      <3>2. CASE s # u
        BY <1>0, <2>0, <2>4, <3>2 DEF BeginFresh
      <3>3. QED
        BY <3>1, <3>2
    <2>5. QED
      BY <1>2, <2>1, <2>2, <2>3, <2>4 DEF Request, BeginEager, BeginIngest
  <1>3. ASSUME NEW w \in Workers, Worker(w)
        PROVE  job'[s] = job[s] \/ Fresh
    <2>0. w \in Sessions
      BY DEF Sessions
    <2>1. CASE LoadedRunGone(w)
      BY <1>1, <2>0, <2>1 DEF LoadedRunGone
    <2>2. ASSUME NEW n \in ScanIds, Take(w, n)
          PROVE  job'[s] = job[s] \/ Fresh
      BY <1>0, <2>0, <2>2, ZenonT(40) DEF Take, Idle
    <2>3. CASE StartQueued(w)
      BY <1>0, <2>0, <2>3 DEF StartQueued, Job
    <2>4. QED
      BY <1>3, <2>1, <2>2, <2>3 DEF Worker
  <1>4. ASSUME NEW t \in Sessions, RunAudit(t)
        PROVE  job'[s] = job[s] \/ Fresh \/ PersistOne(s) \/ CommitScan(s)
    <2>1. CASE AuditRaises(t) \/ CommitConflicts(t) \/ RecordSnapshot(t)
      BY <1>1, <2>1 DEF AuditRaises, CommitConflicts, RecordSnapshot
    <2>2. CASE AuditReturns(t)
      BY <1>0, <2>2 DEF AuditReturns, Job
    <2>3. CASE PersistOne(t) /\ s # t
      BY <1>0, <2>3 DEF PersistOne
    <2>4. CASE CommitScan(t) /\ s # t
      BY <1>0, <2>4 DEF CommitScan
    <2>5. QED
      BY <1>4, <2>1, <2>2, <2>3, <2>4 DEF RunAudit
  <1>5. ASSUME Environment
        PROVE  job'[s] = job[s] \/ Fresh
    BY <1>1, <1>5 DEF Environment, UpdateFinding, RetentionPurge, Disconnect, Crash,
       Redeliver, NewMonth
  <1>6. CASE UNCHANGED vars
    BY <1>6 DEF vars
  <1>7. QED
    BY <1>2, <1>3, <1>4, <1>5, <1>6 DEF Next

LEMMA FoundStep ==
    ASSUME IInv, FoundOrAdding, "purge" \notin Events, [Next]_vars
    PROVE  FoundOrAdding'
  <1> SUFFICES ASSUME NEW s \in Sessions
               PROVE  /\ job'[s].pc \notin {"persist", "snapshot"} => job'[s].seen = {}
                      /\ job'[s].pc = "persist" =>
                           \A c \in job'[s].seen :
                             \/ findings'[<<job'[s].acct, c>>].status # "absent"
                             \/ \E i \in 1..Len(job'[s].adding) : job'[s].adding[i] = c
    BY DEF FoundOrAdding, AlreadyStored
  <1>0. job \in [Sessions -> Job] /\ job[s] \in Job
    BY DEF IInv, TypeOK
  <1>1. CASE job'[s] = job[s]
    <2>1. ASSUME job[s].pc = "persist", NEW c \in job[s].seen, AlreadyStored(job[s].acct, c)
          PROVE  findings'[<<job[s].acct, c>>].status # "absent"
      BY <1>0, <2>1, StoredStays DEF InTransaction, Job
    <2>2. QED
      BY <1>1, <2>1 DEF FoundOrAdding
  <1>2. CASE job'[s].seen = {}
    BY <1>2
  <1>3. CASE PersistOne(s)
    <2> SUFFICES ASSUME NEW c, c = Head(job[s].todo)
                 PROVE  \A d \in job'[s].seen :
                            \/ findings'[<<job'[s].acct, d>>].status # "absent"
                            \/ \E i \in 1..Len(job'[s].adding) : job'[s].adding[i] = d
      BY <1>0, <1>3 DEF PersistOne, Job
    <2>0. job[s].pc = "persist" /\ findings' = findings
      BY <1>3 DEF PersistOne
    <2>1. /\ job'[s].seen = job[s].seen \cup {c}
          /\ job'[s].acct = job[s].acct
          /\ job'[s].adding = IF Skips(job[s], c) THEN job[s].adding
                              ELSE Append(job[s].adding, c)
      BY <1>0, <1>3 DEF PersistOne, Job
    <2> DEFINE q == job[s].adding
               q2 == job'[s].adding
    <2>2. q \in Seq(Checks)
      BY <1>0 DEF Job
    <2>3. CASE Skips(job[s], c)
      BY <2>0, <2>1, <2>3, SMTT(30) DEF Skips, SelectsByHash, AlreadyStored, FoundOrAdding
    <2>4. CASE ~Skips(job[s], c)
      <3>1. q2 = Append(q, c)
        BY <2>1, <2>4
      <3>2. /\ Len(q2) = Len(q) + 1 /\ q2[Len(q) + 1] = c
            /\ \A i \in 1..Len(q) : q2[i] = q[i]
        BY <2>2, <3>1
      <3>3. \A i \in 1..Len(q) : i \in 1..Len(q2)
        BY <2>2, <3>2
      <3>4. Len(q) + 1 \in 1..Len(q2)
        BY <2>2, <3>2
      <3>5. \A d \in job[s].seen : \/ AlreadyStored(job[s].acct, d)
                                   \/ \E i \in 1..Len(q) : q[i] = d
        BY <2>0 DEF FoundOrAdding
      <3> HIDE DEF q, q2
      <3>6. \A d \in job[s].seen \cup {c} : \/ AlreadyStored(job[s].acct, d)
                                            \/ \E i \in 1..Len(q2) : q2[i] = d
        BY <3>2, <3>3, <3>4, <3>5
      <3>7. QED
        BY <2>0, <2>1, <3>6 DEF q2, AlreadyStored
    <2>5. QED
      BY <2>3, <2>4
  <1>4. CASE CommitScan(s)
    BY <1>0, <1>4 DEF CommitScan, Job
  <1>5. QED
    BY <1>1, <1>2, <1>3, <1>4, BatchStep

LEMMA FoundInit == Init => FoundOrAdding
  BY DEF Init, Idle, FoundOrAdding

\* When a scan completes, everything it found is in the findings table: a
\* finding it skipped because an earlier SELECT had met it is still there,
\* though accounts are disconnected, findings triaged and other scans
\* committed meanwhile. A purge between the SELECT and the commit is the one
\* thing that loses a finding, hence the assumption.
THEOREM FindingsRecorded ==
    ASSUME "purge" \notin Events
    PROVE  Spec => RecordsWhatItFound
  <1>1. ASSUME IInv, FoundOrAdding, [Next]_vars, NEW s \in Sessions,
               job[s].pc = "persist", job'[s].pc = "snapshot", NEW c \in job[s].seen
        PROVE  AlreadyStored(job[s].acct, c)'
    <2>1. CommitScan(s)
      BY <1>1, BatchStep, ZenonT(40) DEF PersistOne, IInv, TypeOK, Job
    <2>2. job'[s].acct = job[s].acct /\ c \in Checks /\ InTransaction(s)
      BY <1>1, <2>1 DEF CommitScan, IInv, TypeOK, Job, InTransaction
    <2>3. <<job[s].acct, c>> \in Keys
      BY <1>1, <2>2 DEF Keys, IInv, TransactionsAnchored, TypeOK
    <2>4. CASE AlreadyStored(job[s].acct, c)
      BY <1>1, <2>2, <2>4, StoredStays DEF AlreadyStored
    <2>5. CASE \E i \in 1..Len(job[s].adding) : job[s].adding[i] = c
      <3>1. findings'[<<job[s].acct, c>>].status = "open"
        BY <2>1, <2>3, <2>5 DEF CommitScan
      <3>2. QED
        BY <2>2, <3>1 DEF AlreadyStored
    <2>6. QED
      BY <1>1, <2>4, <2>5 DEF FoundOrAdding
  <1>2. IInv /\ FoundOrAdding /\ [Next]_vars =>
          [\A s \in Sessions : job[s].pc = "persist" /\ job'[s].pc = "snapshot" =>
             \A c \in job[s].seen : AlreadyStored(job[s].acct, c)']_vars
    BY <1>1
  <1>3. IInv /\ FoundOrAdding /\ [Next]_vars => FoundOrAdding'
    BY FoundStep
  <1>4. QED
    BY <1>2, <1>3, FoundInit, InvariantHolds, PTL DEF Spec, RecordsWhatItFound

----------------------------------------------------------------------------
(* QuotaOverrunBounded, for any finite number of concurrent requests.       *)

\* With eager tasks nothing is queued and the workers have nothing to do.
EagerIdle ==
    /\ \A n \in ScanIds : queue[n] = 0
    /\ \A s \in Sessions : job[s].pc \notin {"enqueue", "loaded"}
    /\ \A w \in Workers : job[w].pc = "idle"

\* Requests that passed the quota check and have not committed their run.
InFlight == {s \in Sessions : job[s].pc \in {"admitted", "auditing", "persist"}}

\* The runs of the month and those on the way to be.
OverrunInv ==
    /\ EagerIdle
    /\ Cardinality(ScansThisMonth) + Cardinality(InFlight)
         <= ScanLimit + Cardinality(Requests) - 1

\* The assumptions: a limited plan, and at least one request at a time.
LimitedEager ==
    /\ EagerTasks
    /\ ScanLimit # Unlimited
    /\ IsFiniteSet(Requests)
    /\ Requests # {}

LEMMA OverrunSizes ==
    ASSUME LimitedEager, EagerIdle
    PROVE  /\ ScanLimit \in Nat
           /\ IsFiniteSet(ScansThisMonth) /\ Cardinality(ScansThisMonth) \in Nat
           /\ InFlight \subseteq Requests
           /\ IsFiniteSet(InFlight) /\ Cardinality(InFlight) \in Nat
           /\ Cardinality(Requests) \in Nat /\ Cardinality(Requests) >= 1
           /\ Cardinality(InFlight) <= Cardinality(Requests)
  <1>1. ScanLimit \in Nat /\ MaxScans \in Nat
    BY ScanAssumption DEF LimitedEager
  <1>2. IsFiniteSet(ScanIds)
    BY <1>1, FS_Interval DEF ScanIds
  <1>3. ScansThisMonth \in SUBSET ScanIds
    BY DEF ScansThisMonth
  <1>4. IsFiniteSet(ScansThisMonth) /\ Cardinality(ScansThisMonth) \in Nat
    BY <1>2, <1>3, FS_Subset, FS_CardinalityType
  <1>5. InFlight \in SUBSET Requests
    BY DEF InFlight, Sessions, EagerIdle
  <1>6. IsFiniteSet(Requests) /\ Requests # {}
    BY DEF LimitedEager
  <1>7. /\ IsFiniteSet(InFlight) /\ Cardinality(InFlight) \in Nat
        /\ Cardinality(InFlight) <= Cardinality(Requests)
        /\ Cardinality(Requests) \in Nat /\ Cardinality(Requests) # 0
    BY <1>5, <1>6, FS_Subset, FS_CardinalityType, FS_EmptySet
  <1>8. QED
    BY <1>1, <1>4, <1>5, <1>7

\* A step that adds neither a run of the month nor a request in flight.
LEMMA OverrunShrinks ==
    ASSUME LimitedEager, OverrunInv, EagerIdle',
           ScansThisMonth' \subseteq ScansThisMonth, InFlight' \subseteq InFlight
    PROVE  OverrunInv'
  <1> DEFINE R == ScansThisMonth
             F == InFlight
             R2 == ScansThisMonth'
             F2 == InFlight'
  <1>1. /\ IsFiniteSet(R) /\ IsFiniteSet(F) /\ Cardinality(R) \in Nat
        /\ Cardinality(F) \in Nat /\ ScanLimit \in Nat /\ Cardinality(Requests) \in Nat
        /\ Cardinality(R) + Cardinality(F) <= ScanLimit + Cardinality(Requests) - 1
    BY OverrunSizes DEF OverrunInv
  <1>2. R2 \in SUBSET R /\ F2 \in SUBSET F
    OBVIOUS
  <1>3. (Cardinality(R2) + Cardinality(F2) <= ScanLimit + Cardinality(Requests) - 1) => OverrunInv'
    BY DEF OverrunInv
  <1> HIDE DEF R, F, R2, F2
  <1>4. Cardinality(R2) <= Cardinality(R) /\ Cardinality(R2) \in Nat
    BY <1>1, <1>2, FS_Subset, FS_CardinalityType
  <1>5. Cardinality(F2) <= Cardinality(F) /\ Cardinality(F2) \in Nat
    BY <1>1, <1>2, FS_Subset, FS_CardinalityType
  <1>6. QED
    BY <1>1, <1>3, <1>4, <1>5

\* A run joins the month as its request leaves.
LEMMA OverrunEnds ==
    ASSUME LimitedEager, OverrunInv, EagerIdle', NEW n, NEW s \in InFlight,
           ScansThisMonth' \subseteq ScansThisMonth \cup {n},
           InFlight' \subseteq InFlight \ {s}
    PROVE  OverrunInv'
  <1> DEFINE R == ScansThisMonth
             F == InFlight
             R2 == ScansThisMonth'
             F2 == InFlight'
  <1>1. /\ IsFiniteSet(R) /\ IsFiniteSet(F) /\ Cardinality(R) \in Nat
        /\ Cardinality(F) \in Nat /\ ScanLimit \in Nat /\ Cardinality(Requests) \in Nat
        /\ Cardinality(R) + Cardinality(F) <= ScanLimit + Cardinality(Requests) - 1
    BY OverrunSizes DEF OverrunInv
  <1>2. R2 \in SUBSET (R \cup {n}) /\ F2 \in SUBSET (F \ {s}) /\ s \in F
    OBVIOUS
  <1>3. (Cardinality(R2) + Cardinality(F2) <= ScanLimit + Cardinality(Requests) - 1) => OverrunInv'
    BY DEF OverrunInv
  <1> HIDE DEF R, F, R2, F2
  <1>4. IsFiniteSet(R \cup {n}) /\ Cardinality(R \cup {n}) <= Cardinality(R) + 1
        /\ Cardinality(R \cup {n}) \in Nat
    <2>1. /\ IsFiniteSet(R \cup {n})
          /\ Cardinality(R \cup {n}) = IF n \in R THEN Cardinality(R) ELSE Cardinality(R) + 1
      BY <1>1, FS_AddElement
    <2>2. QED
      BY <1>1, <2>1
  <1>5. Cardinality(R2) <= Cardinality(R) + 1 /\ Cardinality(R2) \in Nat
    BY <1>1, <1>2, <1>4, FS_Subset, FS_CardinalityType
  <1>6. IsFiniteSet(F \ {s}) /\ Cardinality(F \ {s}) = Cardinality(F) - 1
    BY <1>1, <1>2, FS_RemoveElement
  <1>7. Cardinality(F2) <= Cardinality(F) - 1 /\ Cardinality(F2) \in Nat
    BY <1>1, <1>2, <1>6, FS_Subset, FS_CardinalityType
  <1>8. QED
    BY <1>1, <1>3, <1>5, <1>7

\* The check admits a request while there is room for one more run.
LEMMA OverrunAdmits ==
    ASSUME LimitedEager, OverrunInv, IInv, NEW u \in Requests, NEW a \in Accounts,
           Admit(u, a)
    PROVE  OverrunInv'
  <1>1. /\ job \in [Sessions -> Job] /\ u \in Sessions
        /\ job' = [job EXCEPT ![u] = [Idle EXCEPT !.pc = "admitted", !.acct = a]]
    BY DEF Admit, IInv, TypeOK, Sessions
  <1>2. EagerIdle'
    BY <1>1, ScanAssumption DEF Admit, OverrunInv, EagerIdle, Idle
  <1>3. ScansThisMonth' = ScansThisMonth
    BY DEF Admit, ScansThisMonth
  <1>4. Cardinality(ScansThisMonth) < ScanLimit
    BY DEF Admit, WithinQuota, LimitedEager
  <1> DEFINE F2 == InFlight'
  <1>5. /\ IsFiniteSet(Requests) /\ Cardinality(Requests) \in Nat /\ ScanLimit \in Nat
        /\ Cardinality(ScansThisMonth) \in Nat
    BY OverrunSizes DEF OverrunInv, LimitedEager
  <1>6. F2 \in SUBSET Requests
    BY <1>2 DEF InFlight, Sessions, EagerIdle
  <1>7. (Cardinality(ScansThisMonth) + Cardinality(F2) <= ScanLimit + Cardinality(Requests) - 1) => OverrunInv'
    BY <1>2, <1>3 DEF OverrunInv
  <1> HIDE DEF F2
  <1>8. Cardinality(F2) <= Cardinality(Requests) /\ Cardinality(F2) \in Nat
    BY <1>5, <1>6, FS_Subset, FS_CardinalityType
  <1>9. QED
    BY <1>4, <1>5, <1>7, <1>8

\* A session that keeps or gives up its place, no run being committed.
LEMMA OverrunOfOne ==
    ASSUME LimitedEager, OverrunInv, IInv, NEW s \in Sessions, NEW j,
           job' = [job EXCEPT ![s] = j],
           \/ j.pc \in {"idle", "snapshot"} /\ (s \in Workers => j.pc = "idle")
           \/ s \in InFlight /\ j.pc \in {"auditing", "persist"},
           UNCHANGED <<scans, queue, month>>
    PROVE  OverrunInv'
  <1>1. job \in [Sessions -> Job] /\ ScansThisMonth' = ScansThisMonth
    BY DEF IInv, TypeOK, ScansThisMonth
  <1>2. s \in InFlight => s \notin Workers
    BY DEF OverrunInv, EagerIdle, InFlight
  <1>3. EagerIdle'
    BY <1>1, <1>2 DEF OverrunInv, EagerIdle, Sessions
  <1>4. InFlight' \subseteq InFlight
    BY <1>1 DEF InFlight
  <1>5. QED
    BY <1>1, <1>3, <1>4, OverrunShrinks

\* A session that commits its run, completed or failed.
LEMMA OverrunOfEnd ==
    ASSUME LimitedEager, OverrunInv, IInv, NEW s \in Sessions, InTransaction(s), NEW j,
           job' = [job EXCEPT ![s] = j], j.pc \in {"idle", "snapshot"},
           NEW row, scans' = [scans EXCEPT ![job[s].scan] = row],
           UNCHANGED <<queue, month>>
    PROVE  OverrunInv'
  <1>1. /\ job \in [Sessions -> Job] /\ s \in InFlight /\ s \notin Workers
    BY DEF IInv, TypeOK, InFlight, InTransaction, OverrunInv, EagerIdle
  <1>2. EagerIdle'
    BY <1>1 DEF OverrunInv, EagerIdle, Sessions
  <1>3. InFlight' \subseteq InFlight \ {s}
    BY <1>1 DEF InFlight
  <1>4. ScansThisMonth' \subseteq ScansThisMonth \cup {job[s].scan}
    BY DEF ScansThisMonth, IInv, TypeOK
  <1>5. QED
    BY <1>1, <1>2, <1>3, <1>4, OverrunEnds

LEMMA OverrunStep ==
    ASSUME LimitedEager, OverrunInv, IInv, [Next]_vars
    PROVE  OverrunInv'
  <1>0. /\ job \in [Sessions -> Job] /\ scans \in [ScanIds -> ScanRow] /\ EagerTasks
        /\ Idle.pc = "idle"
        /\ \A s \in Sessions : s \in InFlight => s \notin Workers
        /\ \A s \in Sessions : job[s].pc # "idle" => s \notin Workers
    BY DEF IInv, TypeOK, LimitedEager, Idle, OverrunInv, EagerIdle, InFlight
  <1>1. ASSUME NEW s \in Sessions, Finish(s), UNCHANGED <<scans, queue, month>>
        PROVE  OverrunInv'
    BY <1>0, <1>1, OverrunOfOne DEF Finish
  <1>2. ASSUME NEW u \in Requests, Request(u)
        PROVE  OverrunInv'
    <2>0. u \in Sessions
      BY DEF Sessions
    <2>1. ASSUME AdmittedAccountGone(u) \/ EnqueueFails(u)
          PROVE  OverrunInv'
      BY <1>1, <2>0, <2>1 DEF AdmittedAccountGone, EnqueueFails
    <2>2. ~CreateScanRun(u) /\ ~Enqueue(u)
      BY <1>0, <2>0 DEF CreateScanRun, Enqueue, OverrunInv, EagerIdle
    <2>3. ASSUME NEW pc \in {"auditing", "persist"}, NEW b, BeginFresh(u, pc, b)
          PROVE  OverrunInv'
      <3> DEFINE j == [job[u] EXCEPT !.pc = pc, !.scan = nextScan, !.fresh = TRUE,
                                     !.started = month, !.todo = b]
      <3>1. job' = [job EXCEPT ![u] = j] /\ UNCHANGED <<scans, queue, month>>
        BY <2>3 DEF BeginFresh
      <3>2. j.pc = pc /\ u \in InFlight
        BY <1>0, <2>0, <2>3 DEF BeginFresh, InFlight, Job
      <3> HIDE DEF j
      <3>3. QED
        BY <2>0, <3>1, <3>2, OverrunOfOne
    <2>4. QED
      BY <1>2, <2>1, <2>2, <2>3, OverrunAdmits DEF Request, BeginEager, BeginIngest
  <1>3. ASSUME NEW w \in Workers
        PROVE  ~Worker(w)
    <2>1. \A n \in ScanIds : ~Take(w, n)
      BY DEF Take, OverrunInv, EagerIdle
    <2>2. ~StartQueued(w) /\ ~LoadedRunGone(w)
      BY DEF StartQueued, LoadedRunGone, OverrunInv, EagerIdle
    <2>3. QED
      BY <2>1, <2>2 DEF Worker
  <1>4. ASSUME NEW s \in Sessions, RunAudit(s)
        PROVE  OverrunInv'
    <2>1. ASSUME CommitConflicts(s)
          PROVE  OverrunInv'
      BY <1>1, <2>1 DEF CommitConflicts
    <2>2. ASSUME RecordSnapshot(s)
          PROVE  OverrunInv'
      BY <1>1, <2>2 DEF RecordSnapshot
    <2>3. ASSUME AuditReturns(s)
          PROVE  OverrunInv'
      <3>1. PICK b : job' = [job EXCEPT ![s] = [job[s] EXCEPT !.pc = "persist", !.todo = b]]
        BY <2>3 DEF AuditReturns
      <3>2. s \in InFlight /\ UNCHANGED <<scans, queue, month>>
            /\ [job[s] EXCEPT !.pc = "persist", !.todo = b].pc = "persist"
        BY <1>0, <2>3 DEF AuditReturns, InFlight, Job
      <3>3. QED
        BY <3>1, <3>2, OverrunOfOne
    <2>4. ASSUME PersistOne(s)
          PROVE  OverrunInv'
      <3>1. /\ \A t \in Sessions : job'[t].pc = job[t].pc
            /\ UNCHANGED <<scans, queue, month>>
        BY <1>0, <2>4 DEF PersistOne, Job
      <3>2. EagerIdle' /\ InFlight' = InFlight /\ ScansThisMonth' = ScansThisMonth
        BY <3>1 DEF OverrunInv, EagerIdle, InFlight, ScansThisMonth, Sessions
      <3>3. QED
        BY <3>2, OverrunShrinks
    <2>5. ASSUME AuditRaises(s)
          PROVE  OverrunInv'
      BY <1>0, <2>5, OverrunOfEnd DEF AuditRaises, Finish, InTransaction
    <2>6. ASSUME CommitScan(s)
          PROVE  OverrunInv'
      <3> DEFINE j == [job[s] EXCEPT !.pc = "snapshot"]
                 row == ScanRowAfter(s, "completed")
      <3>1. /\ job' = [job EXCEPT ![s] = j]
            /\ scans' = [scans EXCEPT ![job[s].scan] = row]
            /\ InTransaction(s) /\ UNCHANGED <<queue, month>>
        BY <2>6 DEF CommitScan, InTransaction
      <3>2. j.pc = "snapshot"
        BY <1>0 DEF Job
      <3> HIDE DEF j, row
      <3>3. QED
        BY <3>1, <3>2, OverrunOfEnd
    <2>7. QED
      BY <1>4, <2>1, <2>2, <2>3, <2>4, <2>5, <2>6 DEF RunAudit
  <1>5. ASSUME UNCHANGED <<queue, job>>, ScansThisMonth' \subseteq ScansThisMonth
        PROVE  OverrunInv'
    BY <1>5, OverrunShrinks DEF OverrunInv, EagerIdle, InFlight
  <1>6. ASSUME Environment
        PROVE  OverrunInv'
    <2>1. ASSUME NEW k \in Keys, NEW status \in FindingStatus, UpdateFinding(k, status)
          PROVE  OverrunInv'
      BY <1>5, <2>1 DEF UpdateFinding, ScansThisMonth
    <2>2. ASSUME NEW old \in SUBSET Keys, RetentionPurge(old)
          PROVE  OverrunInv'
      BY <1>5, <2>2 DEF RetentionPurge, ScansThisMonth
    <2>3. ASSUME NEW a \in Accounts, Disconnect(a)
          PROVE  OverrunInv'
      <3>1. UNCHANGED <<queue, job, month>>
            /\ \A n \in ScanIds : scans'[n] = NoScan \/ scans'[n] = scans[n]
        BY <2>3 DEF Disconnect
      <3>2. ScansThisMonth' \subseteq ScansThisMonth
        BY <3>1 DEF ScansThisMonth, NoScan
      <3>3. QED
        BY <1>5, <3>1, <3>2
    <2>4. ASSUME NEW s \in Sessions, Crash(s)
          PROVE  OverrunInv'
      BY <1>1, <2>4 DEF Crash
    <2>5. \A n \in ScanIds : ~Redeliver(n)
      BY DEF Redeliver, OverrunInv, EagerIdle
    <2>6. ASSUME NewMonth
          PROVE  OverrunInv'
      <3>1. /\ month \in Nat /\ month' = month + 1 /\ UNCHANGED <<scans, queue, job>>
            /\ \A n \in ScanIds : scans[n].started \in Nat
        BY <2>6, <1>0 DEF NewMonth, IInv, TypeOK, ScanRow
      <3>2. ScansThisMonth' \subseteq ScansThisMonth
        BY <3>1 DEF ScansThisMonth
      <3>3. QED
        BY <1>5, <3>1, <3>2
    <2>7. QED
      BY <1>6, <2>1, <2>2, <2>3, <2>4, <2>5, <2>6 DEF Environment
  <1>7. CASE UNCHANGED vars
    BY <1>5, <1>7 DEF vars, ScansThisMonth
  <1>8. QED
    BY <1>2, <1>3, <1>4, <1>6, <1>7 DEF Next

LEMMA OverrunInit ==
    ASSUME LimitedEager, Init
    PROVE  OverrunInv
  <1>1. EagerIdle /\ ScansThisMonth = {} /\ InFlight = {}
    BY DEF Init, Idle, NoScan, EagerIdle, ScansThisMonth, InFlight, Sessions
  <1>2. Cardinality({}) = 0
    BY FS_EmptySet
  <1>3. ScanLimit \in Nat /\ Cardinality(Requests) \in Nat /\ Cardinality(Requests) >= 1
    BY <1>1, OverrunSizes
  <1>4. QED
    BY <1>1, <1>2, <1>3 DEF OverrunInv

\* The check-then-act on the quota lets an organisation exceed its plan by at
\* most one run per other concurrent request, however many there are, and
\* whatever crashes or is disconnected. (With no request at a time at all the
\* bound would be one below the limit.)
THEOREM OverrunIsBounded ==
    ASSUME IsFiniteSet(Requests), Requests # {}
    PROVE  Spec => []QuotaOverrunBounded
  <1>1. CASE LimitedEager
    <2>1. ASSUME OverrunInv PROVE QuotaOverrunBounded
      <3>1. /\ Cardinality(ScansThisMonth) \in Nat /\ Cardinality(InFlight) \in Nat
            /\ ScanLimit \in Nat /\ Cardinality(Requests) \in Nat
        BY <1>1, <2>1, OverrunSizes DEF OverrunInv
      <3>2. QED
        BY <2>1, <3>1 DEF OverrunInv, QuotaOverrunBounded
    <2>2. Init => OverrunInv
      BY <1>1, OverrunInit
    <2>3. OverrunInv /\ IInv /\ [Next]_vars => OverrunInv'
      BY <1>1, OverrunStep
    <2>4. QED
      BY <2>1, <2>2, <2>3, InvariantHolds, PTL DEF Spec
  <1>2. CASE ~LimitedEager
    <2>1. QuotaOverrunBounded
      BY <1>2 DEF LimitedEager, QuotaOverrunBounded
    <2>2. QED
      BY <2>1, PTL
  <1>3. QED
    BY <1>1, <1>2

=============================================================================
