--------------------------- MODULE ScanBookProofs ---------------------------
(***************************************************************************)
(* Proofs about ScanPipeline when the broker delivers each message once    *)
(* ("redelivery" is not among its Events): a run that ended is final, its  *)
(* findings_count is what is stored for it, and the pipeline implements    *)
(* ScanBook. Everything else may happen: crashes, a broker that is down,   *)
(* purges, triage, disconnected accounts, any number of workers.           *)
(***************************************************************************)
EXTENDS ScanPipelineProofs, FiniteSetTheorems

(* The inductive invariant, on top of IInv: a run is handled by one session *)
(* or message at a time, and only until it ends.                            *)

\* s will still write its run, or send it to a worker that will.
Working(s) == job[s].pc \in {"enqueue", "loaded", "auditing", "persist"}

OneHandler ==
    /\ \A s, t \in Sessions :
         Working(s) /\ Working(t) /\ job[s].scan = job[t].scan => s = t
    /\ \A s \in Sessions : Working(s) => queue[job[s].scan] = 0
    /\ \A n \in ScanIds : queue[n] <= 1

Unfinished(n) == scans[n].status \notin Terminal

HandledUnfinished ==
    /\ \A s \in Sessions : Working(s) => Unfinished(job[s].scan)
    /\ \A n \in ScanIds : queue[n] > 0 => Unfinished(n)

\* findings_count is written by the commit that completes the run.
CountsUnwritten ==
    /\ \A n \in ScanIds : Unfinished(n) => scans[n].count = 0
    /\ \A s \in Sessions : job[s].loaded = 0

\* The rows stored for run n.
StoredFor(n) == {k \in Keys : findings[k].scan = n}

StoredCounted ==
    /\ \A k \in Keys : findings[k].status = "absent" => findings[k] = NoFinding
    /\ \A n \in ScanIds : scans[n].status = "completed" =>
         /\ IsFiniteSet(StoredFor(n))
         /\ Cardinality(StoredFor(n)) <= scans[n].count
         /\ "purge" \notin Events => Cardinality(StoredFor(n)) = scans[n].count

Handling == OneHandler /\ HandledUnfinished /\ CountsUnwritten

OnceInv == IInv /\ Handling /\ StoredCounted

----------------------------------------------------------------------------
(* Lemmas on who handles a run *)

LEMMA WorkingRefers ==
    ASSUME IInv, NEW s \in Sessions, Working(s)
    PROVE  /\ Refers(s) /\ job[s].scan \in ScanIds /\ job[s].scan < nextScan
  BY DEF Working, Refers, IInv, NewIds

\* No new session or message handles a run, and a run is only rewritten to
\* its end, by the one that lets go of it, or removed.
LEMMA HandlingKept ==
    ASSUME IInv, Handling, queue' = queue,
           \A t \in Sessions : /\ Working(t)' => Working(t) /\ job'[t].scan = job[t].scan
                               /\ job'[t].loaded = 0,
           \A n \in ScanIds :
               \/ scans'[n] = scans[n]
               \/ scans'[n] = NoScan
               \/ /\ scans'[n].status \in Terminal /\ queue[n] = 0
                  /\ \A t \in Sessions : Working(t)' => job'[t].scan # n
    PROVE  Handling'
  <1>0. NoScan.status \notin Terminal /\ NoScan.count = 0
    BY DEF NoScan, Terminal
  <1>1. OneHandler'
    BY DEF Handling, OneHandler
  <1>2. \A t \in Sessions : Working(t) => job[t].scan \in ScanIds
    BY WorkingRefers
  <1>3. HandledUnfinished'
    BY <1>0, <1>2 DEF Handling, HandledUnfinished, Unfinished
  <1>4. CountsUnwritten'
    BY <1>0 DEF Handling, CountsUnwritten, Unfinished
  <1>5. QED
    BY <1>1, <1>3, <1>4 DEF Handling

\* A step of session s after which it handles no run, or still handles the
\* one it did, leaving the runs alone.
LEMMA HandlingOfOne ==
    ASSUME IInv, Handling, NEW s \in Sessions, NEW j \in Job,
           job' = [job EXCEPT ![s] = j], j.loaded = 0,
           \/ j.pc \in {"idle", "admitted", "snapshot"}
           \/ Working(s) /\ j.scan = job[s].scan,
           UNCHANGED <<scans, queue>>
    PROVE  Handling'
  <1>1. /\ job'[s] = j
        /\ \A t \in Sessions \ {s} : job'[t] = job[t]
    BY DEF IInv, TypeOK
  <1>2. \A t \in Sessions : /\ Working(t)' => Working(t) /\ job'[t].scan = job[t].scan
                            /\ job'[t].loaded = 0
    BY <1>1 DEF Working, Handling, CountsUnwritten
  <1>3. QED
    BY <1>2, HandlingKept

\* A session that ends its run's row keeps Handling.
LEMMA HandlingOfEnd ==
    ASSUME IInv, Handling, NEW s \in Sessions, InTransaction(s), NEW j \in Job,
           job' = [job EXCEPT ![s] = j], j.loaded = 0,
           j.pc \in {"idle", "snapshot"}, NEW status \in Terminal,
           scans' = [scans EXCEPT ![job[s].scan] = ScanRowAfter(s, status)],
           queue' = queue
    PROVE  Handling'
  <1>1. /\ job'[s] = j
        /\ \A t \in Sessions \ {s} : job'[t] = job[t]
    BY DEF IInv, TypeOK
  <1>2. \A t \in Sessions : /\ Working(t)' => Working(t) /\ job'[t].scan = job[t].scan
                            /\ job'[t].loaded = 0
    BY <1>1 DEF Working, Handling, CountsUnwritten
  <1>3. Working(s) /\ ~Working(s)'
    BY <1>1 DEF Working, InTransaction
  <1>4. /\ queue[job[s].scan] = 0
        /\ \A t \in Sessions : Working(t)' => job'[t].scan # job[s].scan
    BY <1>1, <1>2, <1>3 DEF Handling, OneHandler
  <1>5. /\ \A n \in ScanIds \ {job[s].scan} : scans'[n] = scans[n]
        /\ job[s].scan \in ScanIds => scans'[job[s].scan].status = status
    BY DEF IInv, TypeOK, ScanRowAfter
  <1>6. QED
    BY <1>2, <1>4, <1>5, HandlingKept

\* A request that starts on the next run id, whether it commits the run as
\* queued or keeps it to its transaction.
LEMMA HandlingOfNew ==
    ASSUME IInv, Handling, NEW u \in Sessions, NEW j \in Job,
           job' = [job EXCEPT ![u] = j], j.loaded = 0,
           nextScan \in ScanIds, j.scan = nextScan,
           NEW row \in {NoScan} \cup {QueuedRow(a) : a \in Accounts},
           scans' = [scans EXCEPT ![nextScan] = row],
           queue' = queue
    PROVE  Handling'
  <1>1. /\ job'[u] = j
        /\ \A t \in Sessions \ {u} : job'[t] = job[t] /\ (Working(t)' <=> Working(t))
    BY DEF IInv, TypeOK, Working
  <1>2. /\ \A n \in ScanIds \ {nextScan} : scans'[n] = scans[n]
        /\ scans'[nextScan] = row
    BY DEF IInv, TypeOK
  <1>3. row.status \notin Terminal /\ row.count = 0
    <2>1. CASE row = NoScan
      BY <2>1 DEF NoScan, Terminal
    <2>2. ASSUME NEW a \in Accounts, row = QueuedRow(a)
          PROVE  row.status \notin Terminal /\ row.count = 0
      BY <2>2 DEF QueuedRow, NoScan, Terminal
    <2>3. QED
      BY <2>1, <2>2
  <1>4. queue[nextScan] = 0
    BY DEF IInv, NewIds, TypeOK, ScanIds
  <1>5. \A t \in Sessions : Working(t) =>
           job[t].scan \in ScanIds /\ job[t].scan # nextScan
    BY WorkingRefers DEF ScanIds, IInv, TypeOK
  <1>6. OneHandler'
    BY <1>1, <1>4, <1>5 DEF Handling, OneHandler
  <1>7. HandledUnfinished'
    BY <1>1, <1>2, <1>3, <1>5 DEF Handling, HandledUnfinished, Unfinished
  <1>8. CountsUnwritten'
    BY <1>1, <1>2, <1>3 DEF Handling, CountsUnwritten, Unfinished
  <1>9. QED
    BY <1>6, <1>7, <1>8 DEF Handling

LEMMA HandlingOfEnqueue ==
    ASSUME IInv, Handling, NEW u \in Requests, Enqueue(u)
    PROVE  Handling'
  <1>0. u \in Sessions /\ Working(u) /\ job \in [Sessions -> Job]
    BY DEF Sessions, Working, Enqueue, IInv, TypeOK
  <1> DEFINE n == job[u].scan
  <1>1. n \in ScanIds /\ queue[n] = 0 /\ queue \in [ScanIds -> 0..MaxCopies]
    BY <1>0, WorkingRefers DEF Handling, OneHandler, IInv, TypeOK
  <1>2. /\ queue'[n] = 1 /\ \A m \in ScanIds \ {n} : queue'[m] = queue[m]
        /\ job' = [job EXCEPT ![u] = Idle] /\ scans' = scans
    BY <1>1 DEF Enqueue, Finish
  <1>3. /\ job'[u] = Idle /\ ~Working(u)'
        /\ \A t \in Sessions \ {u} : job'[t] = job[t] /\ (Working(t)' <=> Working(t))
    BY <1>0, <1>2 DEF Working, Idle
  <1>4. \A t \in Sessions \ {u} : Working(t) => job[t].scan # n /\ job[t].scan \in ScanIds
    BY <1>0, WorkingRefers DEF Handling, OneHandler
  <1> HIDE DEF n
  <1>5. OneHandler'
    BY <1>2, <1>3, <1>4 DEF Handling, OneHandler
  <1>6. Unfinished(n)
    BY <1>0 DEF Handling, HandledUnfinished, n
  <1>7. HandledUnfinished'
    BY <1>2, <1>3, <1>6 DEF Handling, HandledUnfinished, Unfinished
  <1>8. CountsUnwritten'
    BY <1>2, <1>3 DEF Handling, CountsUnwritten, Unfinished, Idle
  <1>9. QED
    BY <1>5, <1>7, <1>8 DEF Handling

LEMMA HandlingOfTake ==
    ASSUME IInv, Handling, NEW w \in Workers, NEW n \in ScanIds, Take(w, n)
    PROVE  Handling'
  <1>0. w \in Sessions /\ job \in [Sessions -> Job] /\ ~Working(w)
    BY DEF Sessions, Working, Take, IInv, TypeOK
  <1>1. queue[n] = 1 /\ queue \in [ScanIds -> 0..MaxCopies]
    BY DEF Handling, OneHandler, IInv, TypeOK, Take
  <1>2. /\ queue'[n] = 0 /\ \A m \in ScanIds \ {n} : queue'[m] = queue[m]
        /\ scans' = scans
    BY <1>1 DEF Take, TakenOffQueue
  <1>3. Unfinished(n) /\ scans[n].count = 0
    BY <1>1 DEF Handling, HandledUnfinished, CountsUnwritten
  <1>4. \A t \in Sessions : Working(t) => job[t].scan # n /\ job[t].scan \in ScanIds
    BY <1>1, WorkingRefers DEF Handling, OneHandler
  <1>5. /\ \A t \in Sessions \ {w} : job'[t] = job[t] /\ (Working(t)' <=> Working(t))
        /\ Working(w)' => job'[w].scan = n
        /\ job'[w].loaded = 0
    <2>1. CASE scans[n].status = "absent"
      BY <1>0, <2>1 DEF Take, Working, Handling, CountsUnwritten
    <2>2. CASE scans[n].status # "absent"
      BY <1>0, <1>3, <2>2, ZenonT(40) DEF Take, Working, Idle
    <2>3. QED
      BY <2>1, <2>2
  <1>6. OneHandler'
    BY <1>2, <1>4, <1>5 DEF Handling, OneHandler
  <1>7. HandledUnfinished'
    BY <1>2, <1>3, <1>4, <1>5 DEF Handling, HandledUnfinished, Unfinished
  <1>8. CountsUnwritten'
    BY <1>2, <1>5 DEF Handling, CountsUnwritten, Unfinished
  <1>9. QED
    BY <1>6, <1>7, <1>8 DEF Handling

LEMMA HandlingOfRequest ==
    ASSUME IInv, Handling, NEW u \in Requests, Request(u)
    PROVE  Handling'
  <1>0. /\ u \in Sessions /\ job[u] \in Job /\ Idle \in Job
        /\ Idle.pc = "idle" /\ Idle.loaded = 0 /\ job[u].loaded = 0
        /\ scans \in [ScanIds -> ScanRow] /\ month \in 0..MaxMonth
    BY RowTypes DEF Sessions, IInv, TypeOK, Idle, Handling, CountsUnwritten
  <1>1. ASSUME NEW a \in Accounts, Admit(u, a)
        PROVE  Handling'
    <2> DEFINE j == [Idle EXCEPT !.pc = "admitted", !.acct = a]
    <2>1. j \in Job /\ j.pc = "admitted" /\ j.loaded = 0
      BY <1>0, ZenonT(40) DEF Job, Pc, Idle
    <2>2. job' = [job EXCEPT ![u] = j] /\ UNCHANGED <<scans, queue>>
      BY <1>1 DEF Admit
    <2> HIDE DEF j
    <2>3. QED
      BY <1>0, <2>1, <2>2, HandlingOfOne
  <1>2. ASSUME AdmittedAccountGone(u) \/ EnqueueFails(u)
        PROVE  Handling'
    BY <1>0, <1>2, HandlingOfOne DEF AdmittedAccountGone, EnqueueFails, Finish
  <1>3. ASSUME CreateScanRun(u)
        PROVE  Handling'
    <2> DEFINE j == [job[u] EXCEPT !.pc = "enqueue", !.scan = nextScan]
    <2>1. nextScan \in ScanIds /\ nextScan \in 0..MaxScans
      BY <1>3 DEF CreateScanRun, IInv, TypeOK, ScanIds
    <2>2. j \in Job /\ j.scan = nextScan /\ j.loaded = 0
      BY <1>0, <2>1 DEF Job, Pc
    <2>3. /\ job' = [job EXCEPT ![u] = j] /\ queue' = queue
          /\ scans' = [scans EXCEPT ![nextScan] = QueuedRow(job[u].acct)]
          /\ job[u].acct \in Accounts
      BY <1>3 DEF CreateScanRun, IInv, TypeOK
    <2> HIDE DEF j
    <2>4. QED
      BY <1>0, <2>1, <2>2, <2>3, HandlingOfNew
  <1>4. ASSUME NEW pc \in Pc, NEW b \in Seq(Checks), BeginFresh(u, pc, b)
        PROVE  Handling'
    <2> DEFINE j == [job[u] EXCEPT !.pc = pc, !.scan = nextScan, !.fresh = TRUE,
                                   !.started = month, !.todo = b]
    <2>1. nextScan \in ScanIds /\ nextScan \in 0..MaxScans
      BY <1>4 DEF BeginFresh, IInv, TypeOK, ScanIds
    <2>2. j \in Job /\ j.scan = nextScan /\ j.loaded = 0
      BY <1>0, <2>1 DEF Job, Pc
    <2>3. /\ job' = [job EXCEPT ![u] = j] /\ queue' = queue /\ scans' = scans
      BY <1>4 DEF BeginFresh
    <2>4. scans' = [scans EXCEPT ![nextScan] = NoScan]
      BY <1>0, <2>1, <2>3 DEF IInv, NewIds, TypeOK, ScanIds
    <2> HIDE DEF j
    <2>5. QED
      BY <1>0, <2>1, <2>2, <2>3, <2>4, HandlingOfNew
  <1>5. ASSUME BeginEager(u)
        PROVE  Handling'
    <2>1. BeginFresh(u, "auditing", <<>>) /\ <<>> \in Seq(Checks) /\ "auditing" \in Pc
      BY <1>5 DEF BeginEager, Pc
    <2>2. QED
      BY <1>4, <2>1
  <1>6. ASSUME BeginIngest(u)
        PROVE  Handling'
    <2>1. PICK b \in IngestBatches : BeginFresh(u, "persist", b)
      BY <1>6 DEF BeginIngest
    <2>2. b \in Seq(Checks) /\ "persist" \in Pc
      BY ScanAssumption DEF Pc
    <2>3. QED
      BY <1>4, <2>1, <2>2
  <1>7. QED
    BY <1>1, <1>2, <1>3, <1>5, <1>6, HandlingOfEnqueue DEF Request

LEMMA HandlingOfWorker ==
    ASSUME IInv, Handling, NEW w \in Workers, Worker(w)
    PROVE  Handling'
  <1>0. /\ w \in Sessions /\ job[w] \in Job /\ Idle \in Job
        /\ Idle.pc = "idle" /\ Idle.loaded = 0 /\ job[w].loaded = 0
        /\ month \in 0..MaxMonth
    BY RowTypes DEF Sessions, IInv, TypeOK, Idle, Handling, CountsUnwritten
  <1>1. ASSUME LoadedRunGone(w)
        PROVE  Handling'
    BY <1>0, <1>1, HandlingOfOne DEF LoadedRunGone, Finish
  <1>2. ASSUME StartQueued(w)
        PROVE  Handling'
    <2> DEFINE j == [job[w] EXCEPT !.pc = "auditing", !.started = month]
    <2>1. j \in Job /\ j.scan = job[w].scan /\ j.loaded = 0 /\ Working(w)
      BY <1>0, <1>2 DEF Job, Pc, Working, StartQueued
    <2>2. job' = [job EXCEPT ![w] = j] /\ UNCHANGED <<scans, queue>>
      BY <1>2 DEF StartQueued
    <2> HIDE DEF j
    <2>3. QED
      BY <1>0, <2>1, <2>2, HandlingOfOne
  <1>3. QED
    BY <1>1, <1>2, HandlingOfTake DEF Worker

LEMMA HandlingOfRunAudit ==
    ASSUME IInv, Handling, NEW s \in Sessions, RunAudit(s)
    PROVE  Handling'
  <1>0. /\ job[s] \in Job /\ Idle \in Job
        /\ Idle.pc = "idle" /\ Idle.loaded = 0 /\ job[s].loaded = 0
    BY RowTypes DEF IInv, TypeOK, Idle, Handling, CountsUnwritten
  <1>1. ASSUME AuditReturns(s)
        PROVE  Handling'
    <2>1. PICK b \in NativeBatches :
             job' = [job EXCEPT ![s] = [@ EXCEPT !.pc = "persist", !.todo = b]]
      BY <1>1 DEF AuditReturns
    <2> DEFINE j == [job[s] EXCEPT !.pc = "persist", !.todo = b]
    <2>2. j \in Job /\ j.scan = job[s].scan /\ j.loaded = 0 /\ Working(s)
      BY <1>0, <1>1, ScanAssumption DEF Job, Pc, Working, AuditReturns
    <2>3. job' = [job EXCEPT ![s] = j] /\ UNCHANGED <<scans, queue>>
      BY <1>1, <2>1 DEF AuditReturns
    <2> HIDE DEF j
    <2>4. QED
      BY <2>2, <2>3, HandlingOfOne
  <1>2. ASSUME AuditRaises(s)
        PROVE  Handling'
    BY <1>0, <1>2, HandlingOfEnd DEF AuditRaises, Finish, InTransaction, Terminal
  <1>3. ASSUME PersistOne(s)
        PROVE  Handling'
    <2>1. /\ \A t \in Sessions : /\ job'[t].scan = job[t].scan
                                 /\ job'[t].loaded = job[t].loaded
                                 /\ job'[t].pc = job[t].pc
          /\ UNCHANGED <<scans, queue>>
      BY <1>0, <1>3 DEF PersistOne, IInv, TypeOK, Job
    <2>2. QED
      BY <2>1, HandlingKept DEF Working, Handling, CountsUnwritten
  <1>4. ASSUME CommitScan(s)
        PROVE  Handling'
    <2> DEFINE j == [job[s] EXCEPT !.pc = "snapshot"]
    <2>1. j \in Job /\ j.pc = "snapshot" /\ j.loaded = 0 /\ "completed" \in Terminal
      BY <1>0 DEF Job, Pc, Terminal
    <2>2. /\ job' = [job EXCEPT ![s] = j] /\ queue' = queue /\ InTransaction(s)
          /\ scans' = [scans EXCEPT ![job[s].scan] = ScanRowAfter(s, "completed")]
      BY <1>4 DEF CommitScan, InTransaction
    <2> HIDE DEF j
    <2>3. QED
      BY <2>1, <2>2, HandlingOfEnd
  <1>5. ASSUME CommitConflicts(s) \/ RecordSnapshot(s)
        PROVE  Handling'
    BY <1>0, <1>5, HandlingOfOne DEF CommitConflicts, RecordSnapshot, Finish
  <1>6. QED
    BY <1>1, <1>2, <1>3, <1>4, <1>5 DEF RunAudit

LEMMA HandlingOfEnvironment ==
    ASSUME IInv, Handling, "redelivery" \notin Events, Environment
    PROVE  Handling'
  <1>1. ASSUME NEW s \in Sessions, Crash(s)
        PROVE  Handling'
    <2>1. /\ Idle \in Job /\ Idle.pc = "idle" /\ Idle.loaded = 0
      BY RowTypes DEF Idle
    <2>2. QED
      BY <1>1, <2>1, HandlingOfOne DEF Crash, Finish
  <1>2. ASSUME NEW a \in Accounts, Disconnect(a)
        PROVE  Handling'
    BY <1>2, HandlingKept DEF Disconnect, Working, Handling, CountsUnwritten
  <1>3. ASSUME UNCHANGED <<scans, queue, job>>
        PROVE  Handling'
    BY <1>3, HandlingKept DEF Working, Handling, CountsUnwritten
  <1>4. QED
    BY <1>1, <1>2, <1>3 DEF Environment, UpdateFinding, RetentionPurge, Redeliver,
       NewMonth

LEMMA HandlingStep ==
    ASSUME IInv, Handling, "redelivery" \notin Events, [Next]_vars
    PROVE  Handling'
  <1>1. CASE UNCHANGED vars
    BY <1>1, HandlingKept DEF vars, Working, Handling, CountsUnwritten
  <1>2. QED
    BY <1>1, HandlingOfRequest, HandlingOfWorker, HandlingOfRunAudit,
       HandlingOfEnvironment DEF Next

----------------------------------------------------------------------------
(* Lemmas on the rows stored for a run *)

\* Whoever works in a transaction has not ended its run.
LEMMA TransactionUnfinished ==
    ASSUME OnceInv, NEW s \in Sessions, InTransaction(s)
    PROVE  /\ job[s].scan \in ScanIds /\ job[s].scan # 0
           /\ Unfinished(job[s].scan) /\ scans[job[s].scan].count = 0
           /\ \/ scans[job[s].scan] = NoScan
              \/ scans[job[s].scan].status = "queued" /\ scans[job[s].scan].acct = job[s].acct
           /\ job[s].acct \in accounts /\ job[s].acct \in Accounts
           /\ job[s].loaded = 0
  <1>1. Working(s) /\ Refers(s)
    BY DEF Working, InTransaction, Refers
  <1>2. /\ job[s].scan \in ScanIds /\ job[s].scan # 0
        /\ Unfinished(job[s].scan) /\ scans[job[s].scan].count = 0
        /\ job[s].loaded = 0
    BY <1>1 DEF OnceInv, Handling, HandledUnfinished, CountsUnwritten, IInv, NewIds, ScanIds
  <1>3. job[s].acct \in accounts /\ job[s].acct \in Accounts
    BY DEF OnceInv, IInv, TransactionsAnchored, TypeOK
  <1>4. scans[job[s].scan] \in ScanRow
    BY <1>2 DEF OnceInv, IInv, TypeOK
  <1>5. CASE job[s].fresh
    BY <1>1, <1>2, <1>3, <1>5 DEF OnceInv, IInv, PrivateRuns, Private, InTransaction
  <1>6. CASE ~job[s].fresh
    BY <1>2, <1>3, <1>4, <1>6 DEF OnceInv, IInv, TransactionsAnchored, Unfinished,
       ScanRow, ScanStatus, Terminal
  <1>7. QED
    BY <1>5, <1>6, <1>2, <1>3

\* No row is stored yet for a run that has not ended.
LEMMA NothingStored ==
    ASSUME OnceInv, NEW n \in ScanIds, Unfinished(n)
    PROVE  StoredFor(n) = {}
  <1>1. n # 0
    BY DEF ScanIds
  <1>2. \A k \in Keys : findings[k].scan = n => findings[k].status # "absent"
    BY <1>1 DEF OnceInv, StoredCounted, NoFinding
  <1>3. QED
    BY <1>2 DEF StoredFor, OnceInv, IInv, FindingsAnchored, Unfinished

\* The keys of a sequence of checks.
KeysOf(a, q) == {<<a, q[i]>> : i \in 1..Len(q)}

\* A sequence without repetitions has as many keys as places.
LEMMA DistinctCount ==
    ASSUME NEW a, NEW q \in Seq(Checks),
           \A i, k \in 1..Len(q) : i # k => q[i] # q[k]
    PROVE  /\ IsFiniteSet(KeysOf(a, q))
           /\ Cardinality(KeysOf(a, q)) = Len(q)
  <1> DEFINE T == {<<a, q[i]>> : i \in 1..Len(q)}
             f == [i \in 1..Len(q) |-> <<a, q[i]>>]
  <1>1. Len(q) \in Nat
    OBVIOUS
  <1>2. f \in Bijection(1..Len(q), T)
    <2>1. f \in [1..Len(q) -> T]
      OBVIOUS
    <2>2. \A i, k \in 1..Len(q) : f[i] = f[k] => i = k
      OBVIOUS
    <2>3. \A t \in T : \E i \in 1..Len(q) : f[i] = t
      OBVIOUS
    <2> HIDE DEF f, T
    <2>4. QED
      BY <2>1, <2>2, <2>3 DEF Bijection, Injection, Surjection, IsInjective
  <1>3. IsFiniteSet(1..Len(q)) /\ Cardinality(1..Len(q)) = Len(q)
    <2> DEFINE m == Len(q)
    <2>1. m \in Nat /\ m \in Int /\ 1 \in Int
      BY <1>1
    <2> HIDE DEF m
    <2>2. IsFiniteSet(1..m) /\ Cardinality(1..m) = IF 1 > m THEN 0 ELSE m - 1 + 1
      BY <2>1, FS_Interval
    <2>3. IsFiniteSet(1..m) /\ Cardinality(1..m) = m
      BY <2>1, <2>2
    <2>4. QED
      BY <2>3 DEF m
  <1>4. ExistsBijection(1..Len(q), T)
    BY <1>2 DEF ExistsBijection
  <1> HIDE DEF T
  <1>5. IsFiniteSet(T) /\ Cardinality(T) = Len(q)
    BY <1>3, <1>4, FS_Bijection
  <1>6. QED
    BY <1>5 DEF T, KeysOf

\* A step that leaves the findings alone and completes no run.
LEMMA StoredKept ==
    ASSUME StoredCounted, findings' = findings,
           \A n \in ScanIds : scans'[n].status = "completed" => scans'[n] = scans[n]
    PROVE  StoredCounted'
  BY DEF StoredCounted, StoredFor

\* The commit of a scan stores exactly the rows it counts.
LEMMA StoredOfCommit ==
    ASSUME OnceInv, NEW s \in Sessions, CommitScan(s)
    PROVE  StoredCounted'
  <1> SUFFICES ASSUME NEW n, n = job[s].scan, NEW q, q = job[s].adding,
                      NEW a, a = job[s].acct
               PROVE  StoredCounted'
    OBVIOUS
  <1> DEFINE New == KeysOf(a, q)
  <1>0. InTransaction(s) /\ job[s] \in Job
    BY DEF CommitScan, InTransaction, OnceInv, IInv, TypeOK
  <1>1. /\ n \in ScanIds /\ n # 0 /\ Unfinished(n) /\ scans[n].count = 0
        /\ a \in Accounts /\ job[s].loaded = 0
    BY <1>0, TransactionUnfinished
  <1>2. q \in Seq(Checks) /\ Len(q) \in Nat
    BY <1>0 DEF Job
  <1>3. /\ \A i, k \in 1..Len(q) : i # k => q[i] # q[k]
        /\ \A i \in 1..Len(q) : findings[<<a, q[i]>>].status = "absent"
    BY DEF CommitScan, UniqueViolation, AlreadyStored
  <1>4. IsFiniteSet(New) /\ Cardinality(New) = Len(q) /\ New \subseteq Keys
    <2>1. \A i \in 1..Len(q) : q[i] \in Checks
      BY <1>2
    <2>2. New \subseteq Keys
      BY <1>1, <2>1 DEF Keys, KeysOf
    <2>3. \A i, k \in 1..Len(q) : i # k => q[i] # q[k]
      BY <1>3
    <2>4. IsFiniteSet(New) /\ Cardinality(New) = Len(q)
      BY <1>2, <2>3, DistinctCount
    <2>5. QED
      BY <2>2, <2>4
  <1>5. /\ \A k \in New : findings'[k] = [scan |-> n, status |-> "open"]
        /\ \A k \in Keys \ New : findings'[k] = findings[k]
    BY <1>4 DEF CommitScan, KeysOf
  <1>6. /\ scans'[n].count = Len(q)
        /\ \A m \in ScanIds \ {n} : scans'[m] = scans[m]
    BY <1>1, <1>2 DEF CommitScan, ScanRowAfter, CountAfter, Persisted, OnceInv, IInv, TypeOK
  <1>7. StoredFor(n) = {} /\ \A k \in New : findings[k].scan = 0
    BY <1>1, <1>3, <1>4, NothingStored DEF KeysOf, OnceInv, StoredCounted, NoFinding
  <1> HIDE DEF New
  <1>8. StoredFor(n)' = New
    BY <1>4, <1>5, <1>7 DEF StoredFor
  <1>9. \A m \in ScanIds \ {n} : StoredFor(m)' = StoredFor(m)
    <2> SUFFICES ASSUME NEW m \in ScanIds \ {n}
                 PROVE  StoredFor(m)' = StoredFor(m)
      OBVIOUS
    <2>1. m # 0
      BY DEF ScanIds
    <2>2. QED
      BY <2>1, <1>4, <1>5, <1>7 DEF StoredFor
  <1>10. \A k \in Keys : findings'[k].status = "absent" => findings'[k] = NoFinding
    BY <1>5 DEF OnceInv, StoredCounted
  <1>11. /\ IsFiniteSet(StoredFor(n))'
         /\ Cardinality(StoredFor(n))' = scans'[n].count
         /\ scans'[n].count \in Nat
    BY <1>2, <1>4, <1>6, <1>8
  <1>12. QED
    BY <1>6, <1>9, <1>10, <1>11 DEF OnceInv, StoredCounted

LEMMA StoredOfDisconnect ==
    ASSUME OnceInv, NEW a \in Accounts, Disconnect(a)
    PROVE  StoredCounted'
  <1>1. ASSUME NEW n \in ScanIds, scans'[n].status = "completed"
        PROVE  scans'[n] = scans[n] /\ StoredFor(n)' = StoredFor(n)
    <2>1. scans[n].acct # a /\ scans'[n] = scans[n] /\ n # 0
      BY <1>1 DEF Disconnect, NoScan, ScanIds
    <2>2. \A k \in Keys : findings[k].scan = n => k[1] # a
      BY <2>1 DEF OnceInv, StoredCounted, NoFinding, IInv, FindingsAnchored
    <2>3. \A k \in Keys : findings'[k] = IF k[1] = a THEN NoFinding ELSE findings[k]
      BY DEF Disconnect
    <2>4. QED
      BY <2>1, <2>2, <2>3 DEF StoredFor, NoFinding
  <1>2. \A k \in Keys : findings'[k].status = "absent" => findings'[k] = NoFinding
    BY DEF Disconnect, OnceInv, StoredCounted
  <1>3. QED
    BY <1>1, <1>2 DEF OnceInv, StoredCounted

LEMMA StoredOfPurge ==
    ASSUME OnceInv, NEW old \in SUBSET Keys, RetentionPurge(old)
    PROVE  StoredCounted'
  <1>1. \A k \in Keys : findings'[k] = IF k \in old THEN NoFinding ELSE findings[k]
    BY DEF RetentionPurge
  <1>2. ASSUME NEW n \in ScanIds, scans[n].status = "completed"
        PROVE  /\ IsFiniteSet(StoredFor(n)')
               /\ Cardinality(StoredFor(n)') <= scans[n].count
    <2>1. n # 0
      BY DEF ScanIds
    <2>2. StoredFor(n)' \subseteq StoredFor(n)
      BY <1>1, <2>1 DEF StoredFor, NoFinding
    <2>3. IsFiniteSet(StoredFor(n)) /\ Cardinality(StoredFor(n)) <= scans[n].count
      BY <1>2 DEF OnceInv, StoredCounted
    <2>4. scans[n].count \in Nat
      BY DEF OnceInv, IInv, TypeOK, ScanRow
    <2> DEFINE T == StoredFor(n)'
               S == StoredFor(n)
    <2>5. IsFiniteSet(S) /\ T \in SUBSET S
      BY <2>2, <2>3
    <2> HIDE DEF T, S
    <2>6. IsFiniteSet(T) /\ Cardinality(T) <= Cardinality(S)
          /\ Cardinality(S) \in Nat /\ Cardinality(T) \in Nat
      BY <2>5, FS_Subset, FS_CardinalityType
    <2>7. QED
      BY <2>3, <2>4, <2>6 DEF T, S
  <1>3. \A k \in Keys : findings'[k].status = "absent" => findings'[k] = NoFinding
    BY <1>1 DEF OnceInv, StoredCounted
  <1>4. "purge" \in Events /\ scans' = scans
    BY DEF RetentionPurge
  <1>5. QED
    BY <1>2, <1>3, <1>4 DEF StoredCounted

LEMMA StoredOfTriage ==
    ASSUME OnceInv, NEW k \in Keys, NEW status \in FindingStatus,
           UpdateFinding(k, status)
    PROVE  StoredCounted'
  <1>1. /\ \A m \in Keys : findings'[m].scan = findings[m].scan
        /\ findings'[k].status # "absent"
        /\ \A m \in Keys \ {k} : findings'[m] = findings[m]
        /\ scans' = scans
    BY DEF UpdateFinding, OnceInv, IInv, TypeOK, FindingRow, FindingStatus
  <1>2. \A n \in ScanIds : StoredFor(n)' = StoredFor(n)
    BY <1>1 DEF StoredFor
  <1>3. QED
    BY <1>1, <1>2 DEF OnceInv, StoredCounted

\* Every step but a commit, a purge, a disconnect and a triage leaves the
\* findings alone and completes no run.
LEMMA StoredStep ==
    ASSUME OnceInv, "redelivery" \notin Events, [Next]_vars
    PROVE  StoredCounted'
  <1>1. ASSUME NEW u \in Requests, Request(u)
        PROVE  StoredCounted'
    <2>1. ASSUME CreateScanRun(u)
          PROVE  \A n \in ScanIds : scans'[n].status = "completed" => scans'[n] = scans[n]
      <3>1. \A n \in ScanIds : \/ scans'[n] = scans[n]
                               \/ scans'[n] = QueuedRow(job[u].acct)
        BY <2>1 DEF CreateScanRun, OnceInv, IInv, TypeOK
      <3>2. QED
        BY <3>1 DEF QueuedRow, NoScan
    <2>2. findings' = findings
      BY <1>1 DEF Request, Admit, AdmittedAccountGone, CreateScanRun, Enqueue,
         EnqueueFails, BeginEager, BeginIngest, BeginFresh
    <2>3. scans' = scans \/ CreateScanRun(u)
      BY <1>1 DEF Request, Admit, AdmittedAccountGone, Enqueue,
         EnqueueFails, BeginEager, BeginIngest, BeginFresh
    <2>4. QED
      BY <2>1, <2>2, <2>3, StoredKept DEF OnceInv
  <1>2. ASSUME NEW w \in Workers, Worker(w)
        PROVE  StoredCounted'
    <2>1. UNCHANGED <<scans, findings>>
      BY <1>2 DEF Worker, Take, StartQueued, LoadedRunGone
    <2>2. QED
      BY <2>1, StoredKept DEF OnceInv
  <1>3. ASSUME NEW s \in Sessions, RunAudit(s)
        PROVE  StoredCounted'
    <2>1. ASSUME AuditRaises(s)
          PROVE  \A n \in ScanIds : scans'[n].status = "completed" => scans'[n] = scans[n]
      <3>1. \A n \in ScanIds : \/ scans'[n] = scans[n]
                               \/ scans'[n] = ScanRowAfter(s, "failed")
        BY <2>1 DEF AuditRaises, OnceInv, IInv, TypeOK
      <3>2. QED
        BY <3>1 DEF ScanRowAfter
    <2>2. CommitScan(s) \/ findings' = findings
      BY <1>3 DEF RunAudit, AuditReturns, AuditRaises, PersistOne, CommitConflicts,
         RecordSnapshot
    <2>3. CommitScan(s) \/ AuditRaises(s) \/ scans' = scans
      BY <1>3 DEF RunAudit, AuditReturns, PersistOne, CommitConflicts, RecordSnapshot
    <2>4. QED
      BY <2>1, <2>2, <2>3, StoredKept, StoredOfCommit DEF OnceInv
  <1>4. ASSUME Environment
        PROVE  StoredCounted'
    <2>1. \/ \E k \in Keys, status \in FindingStatus : UpdateFinding(k, status)
          \/ \E old \in SUBSET Keys : RetentionPurge(old)
          \/ \E a \in Accounts : Disconnect(a)
          \/ UNCHANGED <<scans, findings>>
      BY <1>4 DEF Environment, Crash, Redeliver, NewMonth
    <2>2. QED
      BY <2>1, StoredKept, StoredOfTriage, StoredOfPurge, StoredOfDisconnect DEF OnceInv
  <1>5. CASE UNCHANGED vars
    BY <1>5, StoredKept DEF vars, OnceInv
  <1>6. QED
    BY <1>1, <1>2, <1>3, <1>4, <1>5 DEF Next

LEMMA OnceInvInit == Init => OnceInv
  <1> SUFFICES ASSUME Init PROVE OnceInv
    OBVIOUS
  <1>1. /\ \A n \in ScanIds : scans[n] = NoScan /\ queue[n] = 0
        /\ \A k \in Keys : findings[k] = NoFinding
        /\ \A s \in Sessions : job[s] = Idle
    BY DEF Init
  <1>2. Handling
    BY <1>1 DEF Handling, OneHandler, HandledUnfinished, CountsUnwritten, Unfinished,
       Working, Idle, NoScan, Terminal
  <1>3. StoredCounted
    BY <1>1 DEF StoredCounted, NoScan
  <1>4. QED
    BY <1>2, <1>3, InitEstablishes DEF OnceInv

LEMMA OnceInvStep ==
    ASSUME "redelivery" \notin Events
    PROVE  OnceInv /\ [Next]_vars => OnceInv'
  BY HandlingStep, StoredStep, StepPreserves DEF OnceInv

----------------------------------------------------------------------------
(* Theorems *)

\* While each message is delivered once, a run is handled by one session or
\* message at a time and only until it ends.
THEOREM OnceInvariant ==
    ASSUME "redelivery" \notin Events
    PROVE  Spec => []OnceInv
  BY OnceInvInit, OnceInvStep, PTL DEF Spec

\* findings_count of a completed run is the number of rows stored for it, at
\* most (exactly, while nothing is purged), whatever else runs beside it.
THEOREM CountIsStored ==
    ASSUME "redelivery" \notin Events
    PROVE  Spec => []StoredMatchesCount
  <1>1. OnceInv => StoredMatchesCount
    BY DEF OnceInv, StoredCounted, StoredFor, StoredMatchesCount
  <1>2. QED
    BY <1>1, OnceInvariant, PTL

\* A run that completed or failed is never rewritten, whatever is delivered,
\* crashes or is retried: only disconnecting its account removes it.
THEOREM EndIsFinal ==
    ASSUME "redelivery" \notin Events
    PROVE  Spec => TerminalIsFinal
  <1>1. ASSUME OnceInv, [Next]_vars, NEW n \in ScanIds, scans[n].status \in Terminal
        PROVE  scans'[n] \in {scans[n], NoScan}
    <2>1. ASSUME NEW u \in Requests, Request(u)
          PROVE  scans'[n] = scans[n]
      <3>1. scans[nextScan] # scans[n] \/ nextScan \notin ScanIds
        BY <1>1 DEF OnceInv, IInv, NewIds, TypeOK, ScanIds, NoScan, Terminal
      <3>2. QED
        BY <1>1, <2>1, <3>1 DEF Request, Admit, AdmittedAccountGone, CreateScanRun,
           Enqueue, EnqueueFails, BeginEager, BeginIngest, BeginFresh, OnceInv, IInv, TypeOK
    <2>2. ASSUME NEW w \in Workers, Worker(w)
          PROVE  scans'[n] = scans[n]
      BY <2>2 DEF Worker, Take, StartQueued, LoadedRunGone
    <2>3. ASSUME NEW s \in Sessions, RunAudit(s)
          PROVE  scans'[n] = scans[n]
      <3>1. InTransaction(s) => n # job[s].scan
        BY <1>1, TransactionUnfinished DEF Unfinished
      <3>2. CASE AuditRaises(s) \/ CommitScan(s)
        BY <1>1, <3>1, <3>2 DEF AuditRaises, CommitScan, InTransaction, OnceInv, IInv, TypeOK
      <3>3. CASE ~(AuditRaises(s) \/ CommitScan(s))
        BY <2>3, <3>3 DEF RunAudit, AuditReturns, PersistOne, CommitConflicts, RecordSnapshot
      <3>4. QED
        BY <3>2, <3>3
    <2>4. ASSUME Environment
          PROVE  scans'[n] \in {scans[n], NoScan}
      BY <2>4 DEF Environment, UpdateFinding, RetentionPurge, Disconnect, Crash,
         Redeliver, NewMonth
    <2>5. CASE UNCHANGED vars
      BY <2>5 DEF vars
    <2>6. QED
      BY <1>1, <2>1, <2>2, <2>3, <2>4, <2>5 DEF Next
  <1>2. OnceInv /\ [Next]_vars =>
          [\A n \in ScanIds : scans[n].status \in Terminal =>
             scans'[n] \in {scans[n], NoScan}]_vars
    BY <1>1
  <1>3. QED
    BY <1>2, OnceInvariant, PTL DEF Spec, TerminalIsFinal

----------------------------------------------------------------------------
(* The refinement of ScanBook, one lemma for each kind of step.             *)

\* A step of the pipeline that readers of its tables cannot see.
LEMMA BookStutters ==
    ASSUME UNCHANGED <<accounts, scans, findings>>
    PROVE  UNCHANGED Book!bookVars
  BY DEF Book!bookVars, RunBook

LEMMA BookInit == Init => Book!Init
  BY DEF Init, Book!Init, Book!Keys, Keys, Book!Missing, NoFinding, Book!Unused, NoScan, RunBook

LEMMA BookRequests ==
    ASSUME OnceInv, NEW u \in Requests, CreateScanRun(u)
    PROVE  Book!Next
  <1> SUFFICES ASSUME NEW n, n = nextScan, NEW a, a = job[u].acct
               PROVE  Book!Next
    OBVIOUS
  <1>1. n \in ScanIds /\ a \in accounts /\ a \in Accounts /\ scans[n] = NoScan
    BY DEF CreateScanRun, OnceInv, IInv, TypeOK, ScanIds, NewIds
  <1>2. /\ scans' = [scans EXCEPT ![n] = QueuedRow(a)]
        /\ scans \in [ScanIds -> ScanRow]
        /\ UNCHANGED <<accounts, findings>>
    BY DEF CreateScanRun, OnceInv, IInv, TypeOK
  <1>3. Book!RequestScan(n, a)
    <2>1. RunBook[n] = Book!Unused
      BY <1>1 DEF RunBook, Book!Unused, NoScan
    <2>2. RunBook' = [RunBook EXCEPT ![n] = [acct |-> a, status |-> "queued"]]
      <3>1. /\ scans'[n].acct = a /\ scans'[n].status = "queued"
            /\ \A m \in ScanIds \ {n} : scans'[m] = scans[m]
        BY <1>1, <1>2 DEF QueuedRow, NoScan
      <3>2. QED
        BY <1>1, <3>1 DEF RunBook
    <2>3. QED
      BY <1>1, <1>2, <2>1, <2>2 DEF Book!RequestScan
  <1>4. QED
    BY <1>1, <1>3 DEF Book!Next

\* The end of a run is the end of a pending run of a connected account.
LEMMA BookEnds ==
    ASSUME OnceInv, NEW s \in Sessions, InTransaction(s), NEW status \in Terminal,
           scans' = [scans EXCEPT ![job[s].scan] = ScanRowAfter(s, status)]
    PROVE  /\ job[s].scan \in ScanIds /\ job[s].acct \in accounts
           /\ job[s].acct \in Accounts
           /\ Book!Pending(job[s].scan, job[s].acct)
           /\ RunBook' = [RunBook EXCEPT ![job[s].scan] =
                                          [acct |-> job[s].acct, status |-> status]]
  <1> DEFINE n == job[s].scan
             a == job[s].acct
  <1>1. /\ n \in ScanIds /\ a \in accounts /\ a \in Accounts
        /\ scans[n] = NoScan \/ (scans[n].status = "queued" /\ scans[n].acct = a)
    BY TransactionUnfinished
  <1>2. scans \in [ScanIds -> ScanRow]
    BY DEF OnceInv, IInv, TypeOK
  <1>3. Book!Pending(n, a)
    BY <1>1 DEF Book!Pending, Book!Unused, NoScan, RunBook
  <1>4. /\ scans'[n].acct = a /\ scans'[n].status = status
        /\ \A m \in ScanIds \ {n} : scans'[m] = scans[m]
    BY <1>1, <1>2 DEF ScanRowAfter
  <1>5. RunBook' = [RunBook EXCEPT ![n] = [acct |-> a, status |-> status]]
    BY <1>1, <1>4 DEF RunBook
  <1>6. QED
    BY <1>1, <1>3, <1>5

LEMMA BookFails ==
    ASSUME OnceInv, NEW s \in Sessions, AuditRaises(s)
    PROVE  Book!Next
  <1> SUFFICES ASSUME NEW n, n = job[s].scan, NEW a, a = job[s].acct
               PROVE  Book!Next
    OBVIOUS
  <1>1. /\ InTransaction(s) /\ "failed" \in Terminal
        /\ scans' = [scans EXCEPT ![job[s].scan] = ScanRowAfter(s, "failed")]
        /\ UNCHANGED <<accounts, findings>>
    BY DEF AuditRaises, InTransaction, Terminal
  <1>2. /\ n \in ScanIds /\ a \in accounts /\ a \in Accounts /\ Book!Pending(n, a)
        /\ RunBook' = [RunBook EXCEPT ![n] = [acct |-> a, status |-> "failed"]]
    BY <1>1, BookEnds
  <1>3. Book!Fail(n, a)
    BY <1>1, <1>2 DEF Book!Fail
  <1>4. QED
    BY <1>2, <1>3 DEF Book!Next

LEMMA BookCompletes ==
    ASSUME OnceInv, NEW s \in Sessions, CommitScan(s)
    PROVE  Book!Next
  <1> SUFFICES ASSUME NEW n, n = job[s].scan, NEW a, a = job[s].acct,
                      NEW q, q = job[s].adding
               PROVE  Book!Next
    OBVIOUS
  <1> DEFINE new == {q[i] : i \in 1..Len(q)}
  <1>1. /\ InTransaction(s) /\ "completed" \in Terminal
        /\ scans' = [scans EXCEPT ![job[s].scan] = ScanRowAfter(s, "completed")]
        /\ accounts' = accounts
    BY DEF CommitScan, InTransaction, Terminal
  <1>2. /\ n \in ScanIds /\ a \in accounts /\ a \in Accounts /\ Book!Pending(n, a)
        /\ RunBook' = [RunBook EXCEPT ![n] = [acct |-> a, status |-> "completed"]]
    BY <1>1, BookEnds
  <1>3. q \in Seq(Checks)
    BY DEF OnceInv, IInv, TypeOK, Job
  <1>4. new \in SUBSET Checks
    BY <1>3
  <1>5. \A c \in new : findings[<<a, c>>].status = "absent"
    BY DEF CommitScan, UniqueViolation, AlreadyStored
  <1>6. findings' = [k \in Keys |-> IF k[1] = a /\ k[2] \in new
                                    THEN [scan |-> n, status |-> "open"]
                                    ELSE findings[k]]
    <2>1. \A k \in Keys : (k[1] = a /\ k[2] \in new)
                           <=> (\E i \in 1..Len(q) : k = <<a, q[i]>>)
      BY DEF Keys
    <2>2. findings' = [k \in Keys |-> IF \E i \in 1..Len(q) : k = <<a, q[i]>>
                                      THEN [scan |-> n, status |-> "open"]
                                      ELSE findings[k]]
      BY DEF CommitScan
    <2> HIDE DEF new
    <2>3. QED
      BY <2>1, <2>2
  <1> HIDE DEF new
  <1>7. Book!Complete(n, a, new)
    BY <1>1, <1>2, <1>5, <1>6 DEF Book!Complete, Book!Keys, Keys
  <1>8. QED
    BY <1>2, <1>4, <1>7 DEF Book!Next

LEMMA BookRemoves ==
    ASSUME OnceInv, NEW a \in Accounts, Disconnect(a)
    PROVE  Book!Next
  <1>1. Book!Remove(a)
    BY DEF Disconnect, RunBook, Book!Remove, Book!Unused, NoScan, Book!Missing, NoFinding,
       Book!Keys, Keys
  <1>2. QED
    BY <1>1 DEF Book!Next

LEMMA BookEnvironment ==
    ASSUME OnceInv, Environment
    PROVE  Book!Next \/ UNCHANGED Book!bookVars
  <1>1. ASSUME NEW k \in Keys, NEW status \in FindingStatus, UpdateFinding(k, status)
        PROVE  Book!Next
    <2>1. Book!Triage(k, status)
      BY <1>1 DEF UpdateFinding, RunBook, Book!Triage
    <2>2. QED
      BY <2>1 DEF Book!Next, Book!Keys, Keys
  <1>2. ASSUME NEW old \in SUBSET Keys, RetentionPurge(old)
        PROVE  Book!Next
    <2>1. Book!Purge(old)
      BY <1>2 DEF RetentionPurge, RunBook, Book!Purge, Book!Missing, NoFinding, Book!Keys, Keys
    <2>2. QED
      BY <2>1 DEF Book!Next, Book!Keys, Keys
  <1>3. ASSUME UNCHANGED <<accounts, scans, findings>>
        PROVE  UNCHANGED Book!bookVars
    BY <1>3, BookStutters
  <1>4. QED
    BY <1>1, <1>2, <1>3, BookRemoves DEF Environment, Crash, Redeliver, NewMonth

LEMMA BookStep == OnceInv /\ [Next]_vars => [Book!Next]_Book!bookVars
  <1> SUFFICES ASSUME OnceInv, [Next]_vars
               PROVE  Book!Next \/ UNCHANGED Book!bookVars
    OBVIOUS
  <1>1. ASSUME NEW u \in Requests, Request(u)
        PROVE  Book!Next \/ UNCHANGED Book!bookVars
    <2>1. CreateScanRun(u) \/ UNCHANGED <<accounts, scans, findings>>
      BY <1>1 DEF Request, Admit, AdmittedAccountGone, Enqueue, EnqueueFails,
         BeginEager, BeginIngest, BeginFresh
    <2>2. QED
      BY <2>1, BookRequests, BookStutters
  <1>2. ASSUME NEW w \in Workers, Worker(w)
        PROVE  UNCHANGED Book!bookVars
    BY <1>2, BookStutters DEF Worker, Take, StartQueued, LoadedRunGone
  <1>3. ASSUME NEW s \in Sessions, RunAudit(s)
        PROVE  Book!Next \/ UNCHANGED Book!bookVars
    <2>1. AuditRaises(s) \/ CommitScan(s) \/ UNCHANGED <<accounts, scans, findings>>
      BY <1>3 DEF RunAudit, AuditReturns, PersistOne, CommitConflicts, RecordSnapshot
    <2>2. QED
      BY <2>1, BookFails, BookCompletes, BookStutters
  <1>4. CASE UNCHANGED vars
    BY <1>4, BookStutters DEF vars
  <1>5. QED
    BY <1>1, <1>2, <1>3, <1>4, BookEnvironment DEF Next

\* The pipeline, with its queue, workers, transactions and locks, implements
\* ScanBook: scans end once, with their findings, which are published once.
THEOREM PipelineImplementsBook ==
    ASSUME "redelivery" \notin Events
    PROVE  Spec => ImplementsBook
  BY BookInit, BookStep, OnceInvariant, PTL DEF Spec, ImplementsBook, Book!Spec

=============================================================================
