------------------------- MODULE DriftReviewProofs -------------------------
(***************************************************************************)
(* Proofs about DriftReview, for any resources, configurations, workers    *)
(* and reviewers, and any number of inserting transactions.                *)
(***************************************************************************)
EXTENDS DriftReview, FiniteSetTheorems, TLAPS

(* A request acts on a status and rows it read earlier. What survives in    *)
(* between, whatever the others do: the event exists, a decision on it is   *)
(* never undone to pending, and transaction numbers not yet given out name  *)
(* no event, so that a check never writes over one.                         *)

Decided == {"approved", "violation"}

FreshIdsUnused ==
    \A e \in EventIds : e[1] >= nextTxn => events[e].status = "absent"

ReviewsStand ==
    \A u \in Reviewers : review[u].pc # "idle" =>
        /\ review[u].evt \in EventIds
        /\ events[review[u].evt].status # "absent"
        /\ review[u].loaded \in Decided =>
             events[review[u].evt].status \in Decided
        /\ \A b \in review[u].baseline : b.res = review[u].evt[2]

IInv == TypeOK /\ FreshIdsUnused /\ ReviewsStand /\ ViolationHasFinding

----------------------------------------------------------------------------
\* Component access of event ids.
LEMMA EventIdParts ==
    ASSUME NEW e \in EventIds
    PROVE  e[1] \in 1..MaxTxn /\ e[2] \in Resources /\ e = <<e[1], e[2]>>
  BY DEF EventIds

LEMMA IdleTyped == IdleCheck \in Check /\ IdleReview \in Review
  BY DEF IdleCheck, Check, IdleReview, Review, State, EventStatus

LEMMA InitEstablishes == Init => IInv
  <1> SUFFICES ASSUME Init PROVE IInv
    OBVIOUS
  <1>1. TypeOK
    <2>1. NoEvent \in Event
      BY DEF NoEvent, Event, EventStatus, State
    <2>2. nextTxn \in 1..(MaxTxn + 1)
      BY DriftAssumption DEF Init
    <2>3. QED
      BY <2>1, <2>2, IdleTyped DEF Init, TypeOK, FindingState
  <1>2. FreshIdsUnused
    BY DEF Init, FreshIdsUnused, NoEvent
  <1>3. ReviewsStand
    BY DEF Init, ReviewsStand, IdleReview
  <1>4. ViolationHasFinding
    BY DEF Init, ViolationHasFinding, NoEvent
  <1>5. QED
    BY <1>1, <1>2, <1>3, <1>4 DEF IInv

----------------------------------------------------------------------------
(* Steps that change no event and no finding keep everything but the types  *)
(* and, for a review's own step, that it stands.                            *)

LEMMA QuietStep ==
    ASSUME IInv, TypeOK', events' = events, violations' = violations,
           nextTxn' \in {nextTxn, nextTxn + 1},
           \A u \in Reviewers : \/ review'[u] = review[u]
                                \/ review'[u].pc = "idle"
    PROVE  IInv'
  <1>1. FreshIdsUnused'
    BY EventIdParts DEF IInv, FreshIdsUnused, TypeOK
  <1>2. ReviewsStand'
    BY DEF IInv, ReviewsStand
  <1>3. ViolationHasFinding'
    BY DEF IInv, ViolationHasFinding
  <1>4. QED
    BY <1>1, <1>2, <1>3 DEF IInv

LEMMA CheckStep ==
    ASSUME IInv, NEW w \in Workers, DriftCheck(w)
    PROVE  IInv'
  <1> USE DEF IInv
  <1>1. CASE BeginCheck(w)
    <2>1. TypeOK'
      BY <1>1 DEF BeginCheck, TypeOK, Check
    <2>2. QED
      BY <1>1, <2>1, QuietStep DEF BeginCheck
  <1>2. CASE EstablishBaseline(w)
    <2> DEFINE rows == Established(check[w].current)
    <2>1. nextTxn' \in {nextTxn, nextTxn + 1} /\ nextTxn' \in 1..(MaxTxn + 1)
      BY <1>2, DriftAssumption DEF EstablishBaseline, NextAfter, TypeOK
    <2>2. rows \subseteq Row
      <3> SUFFICES ASSUME NEW r \in Resources, check[w].current[r] # Absent
                   PROVE  [txn |-> nextTxn, res |-> r,
                           cfg |-> check[w].current[r]] \in Row
        BY DEF Established
      <3>1. check[w].current[r] \in Configs
        BY DEF TypeOK, Check, State
      <3>2. rows # {}
        BY DEF Established
      <3>3. nextTxn \in 1..MaxTxn
        BY <1>2, <3>2, DriftAssumption DEF EstablishBaseline, TypeOK
      <3>4. QED
        BY <3>1, <3>3 DEF Row
    <2>3. TypeOK'
      BY <1>2, <2>1, <2>2, IdleTyped DEF EstablishBaseline, FinishCheck, TypeOK
    <2>4. QED
      BY <1>2, <2>1, <2>3, QuietStep DEF EstablishBaseline
  <1>3. CASE RecordDrift(w)
    <2>1. PICK baseline \in BaselineMaps(check[w].existing) :
            /\ DiffSnapshots(baseline, check[w].current) # {} => nextTxn <= MaxTxn
            /\ events' = Recorded(baseline, check[w].current)
            /\ nextTxn' = NextAfter(DiffSnapshots(baseline, check[w].current) # {})
      BY <1>3 DEF RecordDrift
    <2> DEFINE new(e) == e[1] = nextTxn
                           /\ e[2] \in DiffSnapshots(baseline, check[w].current)
    <2>2. /\ nextTxn' \in {nextTxn, nextTxn + 1}
          /\ nextTxn' \in 1..(MaxTxn + 1)
          /\ \A e \in EventIds : new(e) => nextTxn' = nextTxn + 1
      BY <2>1, DriftAssumption DEF NextAfter, TypeOK
    <2>3. \A e \in EventIds :
            /\ new(e) => events'[e] = [before |-> baseline[e[2]],
                                       after |-> check[w].current[e[2]],
                                       status |-> "pending_review"]
            /\ ~new(e) => events'[e] = events[e]
      BY <2>1 DEF Recorded
    <2>4. \A e \in EventIds : new(e) => events[e].status = "absent"
      BY EventIdParts DEF FreshIdsUnused, TypeOK
    <2>5. events' \in [EventIds -> Event]
      <3>1. ASSUME NEW e \in EventIds PROVE events'[e] \in Event
        <4>1. baseline[e[2]] \in State /\ check[w].current[e[2]] \in State
          BY EventIdParts DEF BaselineMaps, TypeOK, Check
        <4>2. CASE new(e)
          <5>1. events'[e] = [before |-> baseline[e[2]],
                              after |-> check[w].current[e[2]],
                              status |-> "pending_review"]
            BY <2>3, <4>2
          <5>2. "pending_review" \in EventStatus
            BY DEF EventStatus
          <5>3. QED
            BY <4>1, <5>1, <5>2 DEF Event
        <4>3. CASE ~new(e)
          BY <2>3, <4>3 DEF TypeOK
        <4>4. QED
          BY <4>2, <4>3
      <3>2. QED
        BY <2>1, <3>1 DEF Recorded
    <2>6. TypeOK'
      BY <1>3, <2>2, <2>5, IdleTyped DEF RecordDrift, FinishCheck, TypeOK
    <2>7. FreshIdsUnused'
      <3> SUFFICES ASSUME NEW e \in EventIds, e[1] >= nextTxn'
                   PROVE  events'[e].status = "absent"
        BY DEF FreshIdsUnused
      <3>1. nextTxn \in Int /\ e[1] \in Int
        BY EventIdParts DEF TypeOK
      <3>2. ~new(e)
        <4> SUFFICES ASSUME new(e) PROVE FALSE
          OBVIOUS
        <4>1. nextTxn' = nextTxn + 1 /\ e[1] = nextTxn
          BY <2>2
        <4>2. QED
          BY <3>1, <4>1
      <3>3. e[1] >= nextTxn
        BY <2>2, <3>1
      <3>4. QED
        BY <2>3, <3>2, <3>3 DEF FreshIdsUnused
    <2>8. UNCHANGED <<review, violations>>
      BY <1>3 DEF RecordDrift
    <2>9. ReviewsStand'
      BY <2>3, <2>4, <2>8 DEF ReviewsStand
    <2>10. ViolationHasFinding'
      <3> SUFFICES ASSUME NEW e \in EventIds
                   PROVE  /\ events'[e].status = "violation" =>
                               violations[e] # "absent"
                          /\ violations[e] # "absent" =>
                               events'[e].status \in {"violation", "approved"}
        BY <2>8 DEF ViolationHasFinding
      <3>1. CASE new(e)
        <4>1. events'[e].status = "pending_review"
          <5>1. events'[e] = [before |-> baseline[e[2]],
                              after |-> check[w].current[e[2]],
                              status |-> "pending_review"]
            BY <2>3, <3>1
          <5>2. QED
            BY <5>1
        <4>2. violations[e] = "absent"
          BY <2>4, <3>1 DEF ViolationHasFinding
        <4>3. QED
          BY <4>1, <4>2
      <3>2. CASE ~new(e)
        BY <2>3, <3>2 DEF ViolationHasFinding
      <3>3. QED
        BY <3>1, <3>2
    <2>11. QED
      BY <2>6, <2>7, <2>9, <2>10
  <1>4. CASE CheckFails(w)
    <2>1. TypeOK'
      BY <1>4, IdleTyped DEF CheckFails, FinishCheck, TypeOK
    <2>2. QED
      BY <1>4, <2>1, QuietStep DEF CheckFails
  <1>5. QED
    BY <1>1, <1>2, <1>3, <1>4 DEF DriftCheck

----------------------------------------------------------------------------
(* Review requests *)

\* What a decision's write does to the events: nothing to the others, nothing
\* to the states, and the status it leaves is a decision, its own or the one
\* that was there.
LEMMA StatusWrite ==
    ASSUME IInv, NEW u \in Reviewers, review[u].pc # "idle",
           NEW d \in Decided, events' = StatusAfter(u, d)
    PROVE  LET e == review[u].evt
           IN  /\ events' \in [EventIds -> Event]
               /\ \A f \in EventIds \ {e} : events'[f] = events[f]
               /\ e \in EventIds
               /\ events'[e].after = events[e].after
               /\ events'[e].status \in {d, events[e].status}
               /\ events'[e].status \in Decided
  <1> DEFINE e == review[u].evt
             status == IF review[u].loaded = d THEN events[e].status ELSE d
  <1>1. /\ e \in EventIds
        /\ events \in [EventIds -> Event]
        /\ review[u].loaded \in Decided => events[e].status \in Decided
    BY DEF IInv, ReviewsStand, TypeOK
  <1>2. status \in Decided /\ status \in EventStatus
    BY <1>1 DEF Decided, EventStatus
  <1>3. events' = [events EXCEPT ![e].status = status]
    BY DEF StatusAfter
  <1>4. events[e] \in Event /\ [events[e] EXCEPT !.status = status] \in Event
    BY <1>1, <1>2 DEF Event
  <1>5. events'[e] = [events[e] EXCEPT !.status = status]
    BY <1>1, <1>3
  <1>6. events' \in [EventIds -> Event]
    BY <1>1, <1>3, <1>4
  <1>7. events'[e].after = events[e].after /\ events'[e].status = status
    BY <1>4, <1>5 DEF Event
  <1>8. \A f \in EventIds \ {e} : events'[f] = events[f]
    BY <1>1, <1>3
  <1>9. QED
    BY <1>1, <1>2, <1>6, <1>7, <1>8

\* After a decision's write, by a request that is done with it.
LEMMA AfterDecision ==
    ASSUME IInv, NEW u \in Reviewers, review[u].pc # "idle",
           NEW d \in Decided, events' = StatusAfter(u, d), FinishReview(u),
           nextTxn' \in {nextTxn, nextTxn + 1}
    PROVE  FreshIdsUnused' /\ ReviewsStand'
  <1> DEFINE e == review[u].evt
  <1>1. /\ \A f \in EventIds \ {e} : events'[f] = events[f]
        /\ e \in EventIds
        /\ events'[e].status \in Decided
        /\ events[e].status # "absent"
    BY StatusWrite DEF IInv, ReviewsStand
  <1>2. FreshIdsUnused'
    <2> SUFFICES ASSUME NEW f \in EventIds, f[1] >= nextTxn'
                 PROVE  events'[f].status = "absent"
      BY DEF FreshIdsUnused
    <2>1. f[1] >= nextTxn
      BY EventIdParts DEF IInv, TypeOK
    <2>2. events[f].status = "absent"
      BY <2>1 DEF IInv, FreshIdsUnused
    <2>3. QED
      BY <1>1, <2>2
  <1>3. ReviewsStand'
    <2> SUFFICES ASSUME NEW v \in Reviewers, review'[v].pc # "idle"
                 PROVE  /\ review'[v].evt \in EventIds
                        /\ events'[review'[v].evt].status # "absent"
                        /\ review'[v].loaded \in Decided =>
                             events'[review'[v].evt].status \in Decided
                        /\ \A b \in review'[v].baseline :
                             b.res = review'[v].evt[2]
      BY DEF ReviewsStand
    <2>1. review'[v] = review[v] /\ review[v].pc # "idle"
      BY DEF FinishReview, IdleReview, IInv, TypeOK
    <2>2. QED
      BY <1>1, <2>1 DEF IInv, ReviewsStand, Decided
  <1>4. QED
    BY <1>2, <1>3

\* The rows an approval leaves: an untouched row, one it changed, or its own.
LEMMA ApprovalRows ==
    ASSUME IInv, NEW u \in Reviewers, Approve(u)
    PROVE  LET e     == review[u].evt
               after == events[e].after
           IN  /\ baselines' \subseteq Row
               /\ \A b \in baselines' \ baselines :
                    after # Absent /\ b.res = e[2] /\ b.cfg = after
               /\ \A b \in baselines :
                    \/ \E c \in baselines' : SameKey(b, c)
                    \/ after = Absent /\ b.res = e[2]
  <1> DEFINE e == review[u].evt
             after == events[e].after
             new == [txn |-> nextTxn, res |-> e[2], cfg |-> after]
             changed == SameRows(Updated(u))
  <1>1. /\ e \in EventIds /\ after \in State /\ baselines \subseteq Row
        /\ review[u].baseline \subseteq Row
        /\ \A b \in review[u].baseline : b.res = e[2]
        /\ baselines' = BaselinesAfter(u)
    BY DEF IInv, Approve, ReviewsStand, TypeOK, Event, Review
  <1>2. \A rows \in SUBSET review[u].baseline : \A c \in SameRows(rows) :
            c \in baselines /\ c \in Row /\ c.res = e[2]
    BY <1>1 DEF SameRows, Row
  <1>3. CASE after = Absent
    <2>1. baselines' = baselines \ SameRows(review[u].baseline)
      BY <1>1, <1>3 DEF BaselinesAfter
    <2>2. QED
      BY <1>1, <1>2, <1>3, <2>1 DEF SameKey
  <1>4. CASE after # Absent /\ review[u].baseline = {}
    <2>1. baselines' = baselines \cup {new}
      BY <1>1, <1>4 DEF BaselinesAfter
    <2>2. nextTxn \in 1..MaxTxn
      BY <1>4, DriftAssumption DEF Approve, Inserts, IInv, TypeOK
    <2>3. new \in Row
      BY <1>1, <1>4, <2>2, EventIdParts DEF Row, State
    <2>4. QED
      BY <1>1, <1>4, <2>1, <2>3 DEF SameKey
  <1>5. CASE after # Absent /\ review[u].baseline # {}
    <2>1. baselines' = (baselines \ changed) \cup {[c EXCEPT !.cfg = after] : c \in changed}
      BY <1>1, <1>5 DEF BaselinesAfter
    <2>2. Updated(u) \in SUBSET review[u].baseline
      BY DEF Updated
    <2>3. \A c \in changed :
            LET d == [c EXCEPT !.cfg = after]
            IN  /\ c \in baselines /\ c.res = e[2] /\ d \in Row
                /\ d.txn = c.txn /\ d.res = c.res /\ d.cfg = after
      BY <1>1, <1>2, <1>5, <2>2 DEF Row, State
    <2>4. QED
      BY <1>1, <1>5, <2>1, <2>3 DEF SameKey
  <1>6. QED
    BY <1>3, <1>4, <1>5

LEMMA ReviewStep ==
    ASSUME IInv, NEW u \in Reviewers, ReviewRequest(u)
    PROVE  IInv'
  <1> USE DEF IInv
  <1>1. ASSUME NEW verb \in {"approve", "reject"}, NEW e \in EventIds,
               OpenReview(u, verb, e)
        PROVE  IInv'
    <2> DEFINE mine == [IdleReview EXCEPT !.pc = verb, !.evt = e,
                                          !.loaded = events[e].status]
    <2>1. /\ review' = [review EXCEPT ![u] = mine]
          /\ UNCHANGED <<connected, baselines, events, violations, check, nextTxn>>
      BY <1>1 DEF OpenReview
    <2>2. events[e].status \in EventStatus
      BY DEF TypeOK, Event
    <2>3. /\ mine \in Review /\ mine.evt = e /\ mine.loaded = events[e].status
          /\ mine.baseline = {}
      BY <2>2 DEF IdleReview, Review
    <2>4. TypeOK'
      BY <2>1, <2>3 DEF TypeOK
    <2>5. ReviewsStand'
      BY <1>1, <2>1, <2>3 DEF OpenReview, ReviewsStand, TypeOK
    <2>6. FreshIdsUnused' /\ ViolationHasFinding'
      BY <2>1 DEF FreshIdsUnused, ViolationHasFinding
    <2>7. QED
      BY <2>4, <2>5, <2>6
  <1>2. CASE FindBaseline(u)
    <2> DEFINE rows == RowsOf(baselines, review[u].evt[2])
               mine == [review[u] EXCEPT !.pc = "approving", !.baseline = rows]
    <2>1. /\ review' = [review EXCEPT ![u] = mine]
          /\ review[u].pc # "idle"
          /\ UNCHANGED <<connected, baselines, events, violations, check, nextTxn>>
      BY <1>2 DEF FindBaseline
    <2>2. /\ mine \in Review /\ mine.evt = review[u].evt
          /\ mine.loaded = review[u].loaded /\ mine.baseline = rows
      BY DEF TypeOK, Review, RowsOf
    <2>3. TypeOK'
      BY <2>1, <2>2 DEF TypeOK
    <2>4. ReviewsStand'
      BY <2>1, <2>2 DEF ReviewsStand, RowsOf, TypeOK
    <2>5. FreshIdsUnused' /\ ViolationHasFinding'
      BY <2>1 DEF FreshIdsUnused, ViolationHasFinding
    <2>6. QED
      BY <2>3, <2>4, <2>5
  <1>3. ASSUME FinishReview(u),
               UNCHANGED <<connected, baselines, events, violations, check, nextTxn>>
        PROVE  IInv'
    <2>1. TypeOK'
      BY <1>3, IdleTyped DEF TypeOK, FinishReview
    <2>2. \A v \in Reviewers : review'[v] = review[v] \/ review'[v].pc = "idle"
      BY <1>3 DEF FinishReview, IdleReview, TypeOK
    <2>3. QED
      BY <1>3, <2>1, <2>2, QuietStep
  <1>4. CASE Approve(u)
    <2>1. /\ review[u].pc # "idle" /\ FinishReview(u)
          /\ events' = StatusAfter(u, "approved") /\ "approved" \in Decided
          /\ UNCHANGED <<connected, violations, check>>
      BY <1>4 DEF Approve, ApprovedEvents, Decided
    <2>2. nextTxn' \in {nextTxn, nextTxn + 1} /\ nextTxn' \in 1..(MaxTxn + 1)
      BY <1>4, DriftAssumption DEF Approve, NextAfter, TypeOK
    <2>3. FreshIdsUnused' /\ ReviewsStand'
      BY <2>1, <2>2, AfterDecision
    <2>4. /\ events' \in [EventIds -> Event]
          /\ \A f \in EventIds \ {review[u].evt} : events'[f] = events[f]
          /\ events'[review[u].evt].status
                \in {"approved", events[review[u].evt].status}
          /\ events'[review[u].evt].status \in Decided
      BY <2>1, StatusWrite
    <2>5. TypeOK'
      BY <1>4, <2>1, <2>2, <2>4, ApprovalRows, IdleTyped DEF TypeOK, FinishReview
    <2>6. ViolationHasFinding'
      BY <2>1, <2>4 DEF ViolationHasFinding, Decided
    <2>7. QED
      BY <2>3, <2>5, <2>6
  <1>5. CASE Reject(u)
    <2>1. /\ review[u].pc # "idle" /\ FinishReview(u)
          /\ events' = StatusAfter(u, "violation") /\ "violation" \in Decided
          /\ violations' = [violations EXCEPT ![review[u].evt] = "stored"]
          /\ UNCHANGED <<connected, baselines, check, nextTxn>>
      BY <1>5 DEF Reject, Decided
    <2>2. FreshIdsUnused' /\ ReviewsStand'
      BY <2>1, AfterDecision
    <2>3. /\ events' \in [EventIds -> Event]
          /\ \A f \in EventIds \ {review[u].evt} : events'[f] = events[f]
          /\ review[u].evt \in EventIds
          /\ events'[review[u].evt].status \in Decided
      BY <2>1, StatusWrite
    <2>4. TypeOK'
      BY <2>1, <2>3, IdleTyped DEF TypeOK, FinishReview, FindingState
    <2>5. ViolationHasFinding'
      BY <2>1, <2>3 DEF ViolationHasFinding, Decided, TypeOK
    <2>6. QED
      BY <2>2, <2>4, <2>5
  <1>6. QED
    BY <1>1, <1>2, <1>3, <1>4, <1>5
    DEF ReviewRequest, BaselineAmbiguous, ApproveStale, RejectConflict

----------------------------------------------------------------------------
(* The theorems *)

LEMMA StepPreserves == IInv /\ [Next]_vars => IInv'
  <1> SUFFICES ASSUME IInv, [Next]_vars PROVE IInv'
    OBVIOUS
  <1> USE DEF IInv
  <1>1. CASE \E w \in Workers : DriftCheck(w)
    BY <1>1, CheckStep
  <1>2. CASE \E u \in Reviewers : ReviewRequest(u)
    BY <1>2, ReviewStep
  <1>3. ASSUME NEW e \in EventIds, RetentionPurge(e) PROVE IInv'
    <2>1. TypeOK'
      BY <1>3 DEF RetentionPurge, TypeOK, FindingState
    <2>2. FreshIdsUnused' /\ ReviewsStand'
      BY <1>3 DEF RetentionPurge, FreshIdsUnused, ReviewsStand
    <2>3. ViolationHasFinding'
      BY <1>3 DEF RetentionPurge, ViolationHasFinding, TypeOK
    <2>4. QED
      BY <2>1, <2>2, <2>3
  <1>4. CASE Disconnect
    <2>1. TypeOK'
      BY <1>4 DEF Disconnect, TypeOK
    <2>2. QED
      BY <1>4, <2>1, QuietStep DEF Disconnect
  <1>5. CASE UNCHANGED vars
    BY <1>5 DEF vars, TypeOK, FreshIdsUnused, ReviewsStand, ViolationHasFinding
  <1>6. QED
    BY <1>1, <1>2, <1>3, <1>4, <1>5 DEF Next

\* The inductive invariant: types, transaction numbers that name no event
\* before they are given out, and requests whose event and whose decisions
\* stand while they wait. (approve_drift, reject_drift, run_drift_check.)
THEOREM InvariantHolds == Spec => []IInv
  <1>1. QED
    BY InitEstablishes, StepPreserves, PTL DEF Spec

\* Rows and the locals of checks and requests keep their types.
THEOREM TypeCorrect == Spec => []TypeOK
  <1>1. IInv => TypeOK
    BY DEF IInv
  <1>2. QED
    BY <1>1, InvariantHolds, PTL

\* A violation has its finding, or had it until it was purged, and only a
\* reviewed event has one, whatever requests decide on it at once.
\* (approve_drift and reject_drift.)
THEOREM ViolationsFound == Spec => []ViolationHasFinding
  <1>1. IInv => ViolationHasFinding
    BY DEF IInv
  <1>2. QED
    BY <1>1, InvariantHolds, PTL

LEMMA StepFollowsReview ==
    ASSUME IInv, [Next]_vars
    PROVE  /\ \A b \in baselines' \ baselines :
                 Learns(b) \/ Reviewed(b.res, b.cfg)'
           /\ \A b \in baselines : \/ \E c \in baselines' : SameKey(b, c)
                                   \/ Reviewed(b.res, Absent)'
                                   \/ ~connected'
  <1> DEFINE Goal == /\ \A b \in baselines' \ baselines :
                           Learns(b) \/ Reviewed(b.res, b.cfg)'
                     /\ \A b \in baselines :
                           \/ \E c \in baselines' : SameKey(b, c)
                           \/ Reviewed(b.res, Absent)'
                           \/ ~connected'
  <1>1. ASSUME baselines' = baselines PROVE Goal
    BY <1>1 DEF SameKey
  <1>2. ASSUME NEW w \in Workers, EstablishBaseline(w) PROVE Goal
    <2>1. baselines' = baselines \cup Established(check[w].current)
      BY <1>2 DEF EstablishBaseline
    <2>2. \A b \in Established(check[w].current) :
              b.cfg = check[w].current[b.res]
      BY DEF Established
    <2>3. QED
      BY <1>2, <2>1, <2>2 DEF EstablishBaseline, Learns, SameKey
  <1>3. ASSUME NEW u \in Reviewers, Approve(u) PROVE Goal
    <2> DEFINE e == review[u].evt
               after == events[e].after
    <2>1. /\ e \in EventIds
          /\ events'[e].after = after
          /\ events'[e].status \in {"approved", "violation"}
      BY <1>3, StatusWrite DEF Approve, ApprovedEvents, Decided
    <2>2. ASSUME NEW r, NEW state, r = e[2], state = after
          PROVE  Reviewed(r, state)'
      BY <2>1, <2>2 DEF Reviewed
    <2>3. QED
      BY <1>3, <2>2, ApprovalRows
  <1>4. CASE Disconnect
    BY <1>4 DEF Disconnect
  <1>5. QED
    BY <1>1, <1>2, <1>3, <1>4
    DEF Next, vars, DriftCheck, BeginCheck, RecordDrift, CheckFails,
        ReviewRequest, OpenReview, FindBaseline, BaselineAmbiguous,
        ApproveStale, RejectConflict, Reject, RetentionPurge

\* The baseline takes on, or drops, a state only on a reviewer's decision, but
\* for a check that read none at all: for any number of stale requests and
\* concurrent checks. (approve_drift and run_drift_check.)
THEOREM BaselineReviewed == Spec => BaselineFollowsReview
  <1>1. IInv /\ [Next]_vars =>
          [/\ \A b \in baselines' \ baselines :
                Learns(b) \/ Reviewed(b.res, b.cfg)'
           /\ \A b \in baselines : \/ \E c \in baselines' : SameKey(b, c)
                                   \/ Reviewed(b.res, Absent)'
                                   \/ ~connected']_vars
    BY StepFollowsReview
  <1>2. QED
    BY <1>1, InvariantHolds, PTL DEF Spec, BaselineFollowsReview

----------------------------------------------------------------------------
(* A check compares with the baseline it read, and commits later.           *)

\* The table of baselines is finite: a commit adds rows for resources there
\* are, or one.
FiniteBaselines == IsFiniteSet(baselines)

LEMMA InitFinite == Init => FiniteBaselines
  BY FS_EmptySet DEF Init, FiniteBaselines

LEMMA StepFinite == FiniteBaselines /\ [Next]_vars => FiniteBaselines'
  <1> SUFFICES ASSUME FiniteBaselines, [Next]_vars PROVE FiniteBaselines'
    OBVIOUS
  <1> USE DEF FiniteBaselines
  <1>1. CASE baselines' = baselines
    BY <1>1
  <1>2. ASSUME NEW w \in Workers, EstablishBaseline(w) PROVE FiniteBaselines'
    <2> DEFINE current == check[w].current
               present == {q \in Resources : current[q] # Absent}
               rows == Established(current)
               f == [r \in present |->
                       [txn |-> nextTxn, res |-> r, cfg |-> current[r]]]
    <2>1. IsFiniteSet(present)
      BY DriftAssumption, FS_Subset
    <2>2. f \in Surjection(present, rows)
      BY DEF Surjection, Established
    <2>3. IsFiniteSet(rows)
      <3> HIDE DEF f, present, rows
      <3>1. QED
        BY <2>1, <2>2, FS_Surjection
    <2>4. baselines' = baselines \cup rows
      BY <1>2 DEF EstablishBaseline
    <2>5. QED
      BY <2>3, <2>4, FS_Union
  <1>3. ASSUME NEW u \in Reviewers, Approve(u) PROVE FiniteBaselines'
    <2> DEFINE e == review[u].evt
               after == events[e].after
               new == [txn |-> nextTxn, res |-> e[2], cfg |-> after]
               changed == SameRows(Updated(u))
               rows == {[c EXCEPT !.cfg = after] : c \in changed}
               f == [c \in changed |-> [c EXCEPT !.cfg = after]]
    <2>1. IsFiniteSet(changed)
      <3>1. changed \in SUBSET baselines
        BY DEF SameRows
      <3>2. QED
        BY <3>1, FS_Subset
    <2>2. f \in Surjection(changed, rows)
      BY DEF Surjection
    <2>3. IsFiniteSet(rows)
      <3> HIDE DEF f, changed, rows
      <3>1. QED
        BY <2>1, <2>2, FS_Surjection
    <2>4. \/ baselines' = baselines \ SameRows(review[u].baseline)
          \/ baselines' = baselines \cup {new}
          \/ baselines' = (baselines \ changed) \cup rows
      BY <1>3 DEF Approve, BaselinesAfter
    <2>5. /\ IsFiniteSet(baselines \ SameRows(review[u].baseline))
          /\ IsFiniteSet(baselines \ changed)
      BY FS_Difference
    <2>6. IsFiniteSet(baselines \cup {new})
      BY FS_AddElement
    <2>7. IsFiniteSet((baselines \ changed) \cup rows)
      <3> HIDE DEF changed, rows
      <3>1. QED
        BY <2>3, <2>5, FS_Union
    <2>8. QED
      BY <2>4, <2>5, <2>6, <2>7
  <1>4. CASE Disconnect
    BY <1>4, FS_EmptySet DEF Disconnect
  <1>5. QED
    BY <1>1, <1>2, <1>3, <1>4
    DEF Next, vars, DriftCheck, BeginCheck, RecordDrift, CheckFails,
        ReviewRequest, OpenReview, FindBaseline, BaselineAmbiguous,
        ApproveStale, RejectConflict, Reject, RetentionPurge

\* Rows of which there is one at most are the same row.
LEMMA AtMostOne ==
    ASSUME NEW rows, IsFiniteSet(rows), Cardinality(rows) <= 1
    PROVE  \A b, c \in rows : b = c
  <1>1. Cardinality(rows) \in Nat
    BY FS_CardinalityType
  <1>2. CASE Cardinality(rows) = 0
    BY <1>2, FS_EmptySet
  <1>3. CASE Cardinality(rows) = 1
    <2>1. PICK x : rows = {x}
      BY <1>3, FS_Singleton
    <2>2. QED
      BY <2>1
  <1>4. QED
    BY <1>1, <1>2, <1>3

\* The map run_drift_check makes of the rows it read has, of a resource whose
\* baseline is still the one row or none it read, that row's configuration.
LEMMA MapIsBaseline ==
    ASSUME IInv, FiniteBaselines, NEW w \in Workers, NEW r \in Resources,
           Steady(w, r), NEW baseline \in BaselineMaps(check[w].existing)
    PROVE  check[w].current[r] # baseline[r] <=> Drifted(w, r)
  <1> DEFINE rows == RowsOf(baselines, r)
             current == check[w].current[r]
             cfgs == {b.cfg : b \in rows}
  <1>1. rows = RowsOf(check[w].existing, r) /\ Cardinality(rows) <= 1
    BY DEF Steady
  <1>2. \A b, c \in rows : b = c
    <2>1. rows \in SUBSET baselines
      BY DEF RowsOf
    <2>2. IsFiniteSet(rows)
      BY <2>1, FS_Subset DEF FiniteBaselines
    <2>3. QED
      BY <1>1, <2>2, AtMostOne
  <1>3. \A b \in rows : b.cfg \in Configs /\ b.cfg # Absent
    BY DriftAssumption DEF IInv, TypeOK, RowsOf, Row
  <1>4. IF cfgs = {} THEN baseline[r] = Absent ELSE baseline[r] \in cfgs
    BY <1>1 DEF BaselineMaps
  <1>5. CASE rows = {}
    BY <1>4, <1>5 DEF Drifted
  <1>6. CASE rows # {}
    <2>1. PICK b \in rows : TRUE
      BY <1>6
    <2>2. baseline[r] = b.cfg
      BY <1>2, <1>4, <2>1
    <2>3. Drifted(w, r) <=> IF current = Absent THEN TRUE ELSE b.cfg # current
      BY <1>2, <1>6, <2>1 DEF Drifted
    <2>4. QED
      BY <1>3, <2>2, <2>3
  <1>7. QED
    BY <1>5, <1>6

LEMMA RecordsExactly ==
    ASSUME IInv, FiniteBaselines, NEW w \in Workers, NEW r \in Resources,
           RecordDrift(w), Steady(w, r), nextTxn <= MaxTxn
    PROVE  events'[<<nextTxn, r>>].status # "absent" <=> Drifted(w, r)
  <1> DEFINE e == <<nextTxn, r>>
  <1>1. PICK baseline \in BaselineMaps(check[w].existing) :
          events' = Recorded(baseline, check[w].current)
    BY DEF RecordDrift
  <1>2. e \in EventIds /\ e[1] = nextTxn /\ e[2] = r
    BY DriftAssumption DEF IInv, TypeOK, EventIds
  <1>3. events[e].status = "absent"
    <2>1. e[1] >= nextTxn
      BY <1>2 DEF IInv, TypeOK
    <2>2. QED
      BY <1>2, <2>1 DEF IInv, FreshIdsUnused
  <1>4. events'[e] = IF r \in DiffSnapshots(baseline, check[w].current)
                     THEN [before |-> baseline[r], after |-> check[w].current[r],
                           status |-> "pending_review"]
                     ELSE events[e]
    BY <1>1, <1>2 DEF Recorded
  <1>5. events'[e].status # "absent" <=> check[w].current[r] # baseline[r]
    BY <1>3, <1>4 DEF DiffSnapshots
  <1>6. QED
    BY <1>5, MapIsBaseline

\* A check that ends well has recorded a drift for exactly the resources it
\* found in another state than the approved one, as far as their baseline is
\* still what it read: whatever other checks and reviewers committed in
\* between. (run_drift_check, diff_snapshots and approve_drift.)
THEOREM DriftRecorded == Spec => DriftIsExact
  <1>1. IInv /\ FiniteBaselines /\ [Next]_vars =>
          [\A w \in Workers, r \in Resources :
             RecordDrift(w) /\ Steady(w, r) /\ nextTxn <= MaxTxn =>
               (events'[<<nextTxn, r>>].status # "absent" <=> Drifted(w, r))]_vars
    BY RecordsExactly
  <1>2. Spec => []FiniteBaselines
    BY InitFinite, StepFinite, PTL DEF Spec
  <1>3. QED
    BY <1>1, <1>2, InvariantHolds, PTL DEF Spec, DriftIsExact

=============================================================================
