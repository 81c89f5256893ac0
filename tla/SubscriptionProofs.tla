------------------------- MODULE SubscriptionProofs -------------------------
(***************************************************************************)
(* Proofs about Subscription, for any number of sessions, webhooks, trials *)
(* and rows, in every billing mode.                                        *)
(***************************************************************************)
EXTENDS Subscription, FiniteSetTheorems, SequenceTheorems, TLAPS

(* A handler that is past its first SELECT has loaded a row, and there is   *)
(* one; only the webhook handler has an event.                              *)
Loaded ==
  \A s \in Sessions :
    /\ sess[s].pc \in {"loaded", "count", "gate", "insert"} =>
         sub \in Row /\ sess[s].seen \in Row
    /\ sess[s].req.op = "webhook" => sess[s].req.event \in Event

TInv == TypeOK /\ Loaded

----------------------------------------------------------------------------
(* Rows. *)

LEMMA FreshTyped == FreshRow \in Row
  BY DEF FreshRow, Row, PlanIds, Statuses, NoEnd

LEMMA IdleTyped ==
  /\ Idle \in Session /\ Idle.pc = "idle" /\ Idle.req.op = "none" /\ Idle.seen = NoRow
  BY DEF Idle, Session, Req, PlanIds, NoEvent

(* What a commit makes of the row, column by column.                        *)
LEMMA CommitTyped ==
    ASSUME NEW seen \in Row, NEW wanted \in Row, sub \in Row
    PROVE  /\ Commit(seen, wanted) \in Row
           /\ Commit(seen, wanted).plan =
                IF wanted.plan # seen.plan THEN wanted.plan ELSE sub.plan
           /\ Commit(seen, wanted).trial_used =
                IF wanted.trial_used # seen.trial_used THEN wanted.trial_used
                ELSE sub.trial_used
  BY DEF Commit, Row

LEMMA ExpiredTyped ==
    ASSUME NEW row \in Row
    PROVE  /\ Expired(row) \in Row /\ Expired(row).trial_used = row.trial_used
           /\ Expired(row).plan = "free"
  BY DEF Expired, Row, PlanIds, Statuses

LEMMA ChangedTyped ==
    ASSUME NEW row \in Row, NEW p \in PlanIds, NEW st \in Statuses
    PROVE  /\ change_plan(row, p, st) \in Row
           /\ change_plan(row, p, st).trial_used = row.trial_used
  BY DEF change_plan, Row

LEMMA HandledTyped ==
    ASSUME NEW row \in Row, NEW e \in Event
    PROVE  Handled(e, row) \in Row /\ Handled(e, row).trial_used = row.trial_used
  <1> DEFINE Kept(r) == r \in Row /\ r.trial_used = row.trial_used
  <1>1. e.plan \in PlanIds /\ e.status \in Statuses
    BY DEF Event
  <1>2. /\ Kept(row)
        /\ Kept(change_plan(row, e.plan, "active")) /\ Kept(change_plan(row, e.plan, e.status))
        /\ Kept(change_plan(row, "free", "canceled"))
    BY <1>1, ChangedTyped DEF PlanIds, Statuses
  <1>3. /\ Kept([row EXCEPT !.status = "active"])
        /\ Kept([row EXCEPT !.status = "past_due"])
    BY DEF Row, Statuses
  <1> HIDE DEF Kept
  <1>4. Kept(handle_webhook(e, row))
    BY <1>2, <1>3 DEF handle_webhook
  <1>5. Kept(handle_razorpay(e, row))
    BY <1>2, <1>3 DEF handle_razorpay
  <1>6. QED
    BY <1>4, <1>5 DEF Handled, Kept

LEMMA PlanTyped ==
    ASSUME NEW row \in Row
    PROVE  plan_of(row) \in PlanIds
  BY DEF plan_of, get_plan, PlanIds

LEMMA LimitTyped ==
    ASSUME NEW k \in Kinds, NEW p \in PlanIds
    PROVE  PLANS[k][p] \in 0..Unlimited
  <1>1. Unlimited \in Nat /\ 50 <= Unlimited
    BY SMT DEF Unlimited
  <1>2. \A q \in PlanIds : PLANS["accounts"][q] \in 0..Unlimited
    BY <1>1, SMT DEF PLANS, PlanIds
  <1>3. \A q \in PlanIds : PLANS["keys"][q] \in 0..Unlimited
    BY <1>1, SMT DEF PLANS, PlanIds
  <1>4. QED
    BY <1>2, <1>3 DEF Kinds

----------------------------------------------------------------------------
LEMMA InitTyped == Init => TInv
  <1> SUFFICES ASSUME Init PROVE TInv
    OBVIOUS
  <1>1. mode \in {"manual", "stripe", "razorpay"} /\ sub = NoRow
    BY SubscriptionAssumption DEF Init
  <1>2. sess \in [Sessions -> Session] /\ \A s \in Sessions : sess[s] = Idle
    BY IdleTyped DEF Init
  <1>3. rows \in [Kinds -> Nat] /\ clock \in 0..MaxClock /\ sent \in 0..MaxEvents
    BY SubscriptionAssumption DEF Init
  <1>4. offers \subseteq PlanIds /\ bought \in Seq(Bought) /\ mail \subseteq Event
        /\ granted \in Nat /\ orderly \in BOOLEAN
    BY EmptySeq DEF Init
  <1>5. top \in [Kinds -> 0..Unlimited]
    BY LimitTyped DEF Init, PlanIds
  <1>6. Loaded
    BY <1>2, IdleTyped DEF Loaded
  <1>7. QED
    BY <1>1, <1>2, <1>3, <1>4, <1>5, <1>6 DEF TInv, TypeOK

----------------------------------------------------------------------------
(* What a step does to a session, to the trial and to the rows; every       *)
(* action is one of these.                                                  *)

Others(s) == sess' \in [Sessions -> Session] /\ \A t \in Sessions \ {s} : sess'[t] = sess[t]
Used(row) == row # NoRow /\ row.trial_used
Inserting(k) == {s \in Sessions : sess[s].pc \in {"gate", "insert"} /\ KindOf(s) = k}
LimitKept ==
  top' = top /\ \A k \in Kinds : rows'[k] <= rows[k] /\ Inserting(k)' \subseteq Inserting(k)

(* The gateway, time and removals leave the row and the sessions alone.     *)
Bystander == UNCHANGED <<mode, sub, sess, granted, orderly>>

(* A request or a webhook is taken on, and loads the row.                   *)
Begins(s) ==
  /\ sess[s].pc = "idle" /\ sess'[s].pc \in {"create", "loaded"} /\ sess'[s].seen = sub
  /\ Others(s) /\ UNCHANGED <<mode, sub, granted>>
  /\ orderly' => orderly /\ AllIdle

(* It creates the row it did not find.                                      *)
Creates(s) ==
  /\ sess[s].pc = "create" /\ sess'[s].pc = "loaded" /\ sub = NoRow
  /\ sub' = FreshRow /\ sess'[s].seen = FreshRow
  /\ Others(s) /\ UNCHANGED <<mode, granted, orderly>>

(* It goes on or ends, and grants no trial.                                 *)
Works(s) ==
  /\ sess[s].pc # "idle" /\ sess'[s].pc \notin {"create", "loaded"}
  /\ Used(sub') <=> Used(sub)
  /\ Others(s) /\ UNCHANGED <<mode, granted, orderly>>

(* It grants a trial that was not used when it loaded the row.              *)
Grants(s) ==
  /\ sess[s].pc = "loaded" /\ ~sess[s].seen.trial_used /\ sess'[s].pc = "idle"
  /\ Used(sub') /\ granted' = granted + 1
  /\ Others(s) /\ UNCHANGED <<mode, orderly>>

----------------------------------------------------------------------------
LEMMA LoadedKept ==
    ASSUME TInv, NEW s \in Sessions, Others(s), sub \in Row => sub' \in Row,
           sess'[s].pc \in {"loaded", "count", "gate", "insert"} =>
             sub' \in Row /\ sess'[s].seen \in Row,
           sess'[s].req.op = "webhook" => sess'[s].req.event \in Event
    PROVE  Loaded'
  <1> SUFFICES ASSUME NEW t \in Sessions
               PROVE  /\ sess'[t].pc \in {"loaded", "count", "gate", "insert"} =>
                           sub' \in Row /\ sess'[t].seen \in Row
                      /\ sess'[t].req.op = "webhook" => sess'[t].req.event \in Event
    BY DEF Loaded
  <1>1. CASE t = s
    BY <1>1
  <1>2. CASE t # s
    BY <1>2 DEF TInv, Loaded, Others
  <1>3. QED
    BY <1>1, <1>2

LEMMA DoneTyped ==
    ASSUME TInv, NEW s \in Sessions, Done(s)
    PROVE  Others(s) /\ sess'[s] = Idle
  BY IdleTyped DEF Done, Others, TInv, TypeOK

LEMMA InsertingKept ==
    ASSUME TInv, NEW s \in Sessions, Others(s), top' = top, \A k \in Kinds : rows'[k] <= rows[k],
           sess'[s].pc \notin {"gate", "insert"}
    PROVE  LimitKept
  BY DEF LimitKept, Inserting, Others, KindOf

LEMMA RowsOrder ==
    ASSUME TInv, rows' = rows
    PROVE  \A k \in Kinds : rows'[k] <= rows[k]
  BY DEF TInv, TypeOK

(* The end of a handler that writes at most the row.                        *)
LEMMA EndStep ==
    ASSUME TInv, NEW s \in Sessions, sess[s].pc # "idle", Done(s),
           sub' \in Row \cup {NoRow}, sub \in Row => sub' \in Row, Used(sub') <=> Used(sub),
           offers' \subseteq PlanIds, mail' \subseteq Event,
           UNCHANGED <<mode, rows, clock, granted, top, orderly, bought, sent>>
    PROVE  TInv' /\ Works(s) /\ LimitKept
  <1>1. Others(s) /\ sess'[s] = Idle
    BY DoneTyped
  <1>2. TypeOK'
    BY <1>1 DEF TInv, TypeOK, Others
  <1>3. Loaded'
    BY <1>1, IdleTyped, LoadedKept
  <1>4. Works(s)
    BY <1>1, IdleTyped DEF Works
  <1>5. LimitKept
    BY <1>1, IdleTyped, InsertingKept, RowsOrder
  <1>6. QED
    BY <1>2, <1>3, <1>4, <1>5 DEF TInv

(* The first SELECT.                                                        *)
LEMMA LoadStep ==
    ASSUME TInv, NEW s \in Sessions, NEW r, Load(s, r),
           [pc |-> "create", req |-> r, seen |-> sub, plan |-> "free"] \in Session,
           [pc |-> "loaded", req |-> r, seen |-> sub, plan |-> "free"] \in Session,
           r.op = "webhook" => r.event \in Event,
           orderly' \in BOOLEAN, orderly' => orderly /\ AllIdle,
           UNCHANGED <<mode, sub, rows, clock, granted, top, gateway>>
    PROVE  TInv' /\ Begins(s) /\ LimitKept
  <1>1. /\ sess[s] = Idle /\ sess[s].pc = "idle"
        /\ sess' = [sess EXCEPT ![s] = [pc |-> IF sub = NoRow THEN "create" ELSE "loaded",
                                        req |-> r, seen |-> sub, plan |-> "free"]]
    BY IdleTyped DEF Load
  <1>2. /\ Others(s) /\ sess'[s].seen = sub /\ sess'[s].req = r
        /\ sess'[s].pc = IF sub = NoRow THEN "create" ELSE "loaded"
    BY <1>1 DEF Others, TInv, TypeOK
  <1>3. TypeOK'
    BY <1>2 DEF TInv, TypeOK, Others, gateway
  <1>4. sub = NoRow \/ sub \in Row
    BY DEF TInv, TypeOK
  <1>5. Loaded'
    BY <1>2, <1>4, LoadedKept
  <1>6. Begins(s)
    BY <1>1, <1>2 DEF Begins
  <1>7. LimitKept
    BY <1>2, InsertingKept, RowsOrder
  <1>8. QED
    BY <1>3, <1>5, <1>6, <1>7 DEF TInv

LEMMA RequestStep ==
    ASSUME TInv, NEW s \in Sessions, Request(s)
    PROVE  TInv' /\ Begins(s) /\ LimitKept
  <1>1. PICK r \in Asked : Load(s, r)
    BY DEF Request
  <1>2. /\ sub \in Row \cup {NoRow} /\ orderly \in BOOLEAN
    BY DEF TInv, TypeOK
  <1>3. r \in [op : {"none", "access", "accounts", "gcp", "keys", "checkout", "webhook"},
               plan : PlanIds, event : Event \cup {NoEvent}]
              \cup [op : {"trial"}, plan : TrialPlans, event : {NoEvent}]
        /\ r.op # "webhook"
    <2>1. \A op \in {"access", "accounts", "gcp", "keys"} :
            Req(op, "free", NoEvent).op = op /\
            Req(op, "free", NoEvent) \in
              [op : {"none", "access", "accounts", "gcp", "keys", "checkout", "webhook"},
               plan : PlanIds, event : Event \cup {NoEvent}]
      BY DEF Req, PlanIds
    <2>2. \A q \in TrialPlans : Req("trial", q, NoEvent).op = "trial" /\
            Req("trial", q, NoEvent) \in
              [op : {"trial"}, plan : TrialPlans, event : {NoEvent}]
      BY DEF Req
    <2>3. \A q \in PlanIds : Req("checkout", q, NoEvent).op = "checkout" /\
            Req("checkout", q, NoEvent) \in
              [op : {"none", "access", "accounts", "gcp", "keys", "checkout", "webhook"},
               plan : PlanIds, event : Event \cup {NoEvent}]
      BY DEF Req
    <2>4. {"starter", "pro"} \subseteq PlanIds
      BY DEF PlanIds
    <2>5. QED
      BY <2>1, <2>2, <2>3, <2>4 DEF Asked
  <1>4. /\ [pc |-> "create", req |-> r, seen |-> sub, plan |-> "free"] \in Session
        /\ [pc |-> "loaded", req |-> r, seen |-> sub, plan |-> "free"] \in Session
    BY <1>2, <1>3 DEF Session, PlanIds
  <1>5. /\ orderly' \in BOOLEAN /\ (orderly' => orderly /\ AllIdle)
        /\ UNCHANGED <<mode, sub, rows, clock, granted, top, gateway>>
    BY <1>2 DEF Request
  <1>6. QED
    BY <1>1, <1>3, <1>4, <1>5, LoadStep

LEMMA DeliverStep ==
    ASSUME TInv, NEW s \in Sessions, Deliver(s)
    PROVE  TInv' /\ (Begins(s) \/ Bystander) /\ LimitKept
  <1>1. PICK e \in mail :
          /\ IF e.kind \in Tagged(mode)
             THEN /\ Load(s, Req("webhook", "free", e))
                  /\ orderly' = (orderly /\ AllIdle /\ Oldest(e))
                  /\ UNCHANGED mail
             ELSE /\ mail' = mail \ {e}
                  /\ UNCHANGED <<sess, orderly>>
          /\ UNCHANGED <<mode, sub, rows, clock, granted, top, offers, bought, sent>>
    BY DEF Deliver
  <1>2. e \in Event /\ sub \in Row \cup {NoRow} /\ orderly \in BOOLEAN
    BY DEF TInv, TypeOK
  <1>3. CASE e.kind \in Tagged(mode)
    <2> DEFINE r == Req("webhook", "free", e)
    <2>1. r.op = "webhook" /\ r.event = e
      BY DEF Req
    <2>2. /\ [pc |-> "create", req |-> r, seen |-> sub, plan |-> "free"] \in Session
          /\ [pc |-> "loaded", req |-> r, seen |-> sub, plan |-> "free"] \in Session
      BY <1>2 DEF Session, PlanIds, Req
    <2>3. UNCHANGED <<mode, sub, rows, clock, granted, top, gateway>>
      BY <1>1, <1>3 DEF gateway
    <2>4. orderly' \in BOOLEAN /\ (orderly' => orderly /\ AllIdle) /\ Load(s, r)
      BY <1>1, <1>2, <1>3
    <2> HIDE DEF r
    <2>5. QED
      BY <1>2, <2>1, <2>2, <2>3, <2>4, LoadStep
  <1>4. CASE e.kind \notin Tagged(mode)
    <2>1. TInv'
      BY <1>1, <1>4 DEF TInv, TypeOK, Loaded
    <2>2. Bystander
      BY <1>1, <1>4 DEF Bystander
    <2>3. LimitKept
      BY <1>1, <1>4, RowsOrder DEF LimitKept, Inserting, KindOf
    <2>4. QED
      BY <2>1, <2>2, <2>3
  <1>5. QED
    BY <1>3, <1>4

LEMMA CreateRowStep ==
    ASSUME TInv, NEW s \in Sessions, CreateRow(s)
    PROVE  TInv' /\ (Creates(s) \/ Works(s)) /\ LimitKept
  <1>1. /\ sess[s].pc = "create" /\ sess \in [Sessions -> Session] /\ sess[s] \in Session
        /\ sub \in Row \cup {NoRow}
    BY DEF CreateRow, At, TInv, TypeOK
  <1>2. CASE sub = NoRow
    <2>1. /\ sub' = FreshRow
          /\ sess' = [sess EXCEPT ![s].pc = "loaded", ![s].seen = FreshRow]
          /\ UNCHANGED <<mode, rows, clock, granted, top, orderly, gateway>>
      BY <1>2 DEF CreateRow
    <2>2. /\ Others(s) /\ sess'[s].pc = "loaded" /\ sess'[s].seen = FreshRow
          /\ sess'[s].req = sess[s].req
      BY <1>1, <2>1, FreshTyped DEF Others, Session
    <2>3. TypeOK'
      BY <2>1, <2>2, FreshTyped DEF TInv, TypeOK, Others, gateway
    <2>4. Loaded'
      <3>1. sess'[s].req.op = "webhook" => sess'[s].req.event \in Event
        BY <2>2 DEF TInv, Loaded
      <3>2. QED
        BY <2>1, <2>2, <3>1, FreshTyped, LoadedKept
    <2>5. Creates(s)
      BY <1>1, <1>2, <2>1, <2>2 DEF Creates
    <2>6. LimitKept
      BY <2>1, <2>2, InsertingKept, RowsOrder
    <2>7. QED
      BY <2>3, <2>4, <2>5, <2>6 DEF TInv
  <1>3. CASE sub # NoRow
    <2>1. Done(s) /\ sub' = sub /\ UNCHANGED <<mode, rows, clock, granted, top, orderly, gateway>>
      BY <1>3 DEF CreateRow
    <2>2. offers' \subseteq PlanIds /\ mail' \subseteq Event /\ bought' = bought /\ sent' = sent
      BY <2>1 DEF gateway, TInv, TypeOK
    <2>3. QED
      BY <1>1, <2>1, <2>2, EndStep
  <1>4. QED
    BY <1>2, <1>3

(* A handler that goes on: its request and the row it loaded stay.          *)
LEMMA GoOnStep ==
    ASSUME TInv, NEW s \in Sessions, sess[s].pc \in {"loaded", "count", "gate"},
           Others(s), sess'[s] \in Session, sess'[s].pc \in {"count", "gate", "insert"},
           sess'[s].req = sess[s].req, sess'[s].seen = sess[s].seen,
           sub' \in Row, Used(sub') <=> Used(sub),
           top' \in [Kinds -> 0..Unlimited],
           UNCHANGED <<mode, rows, clock, granted, orderly, gateway>>
    PROVE  TInv' /\ Works(s)
  <1>1. TypeOK'
    BY DEF TInv, TypeOK, Others, gateway
  <1>2. sess[s].seen \in Row /\ (sess[s].req.op = "webhook" => sess[s].req.event \in Event)
    BY DEF TInv, Loaded
  <1>3. Loaded'
    BY <1>2, LoadedKept
  <1>4. Works(s)
    BY DEF Works
  <1>5. QED
    BY <1>1, <1>3, <1>4 DEF TInv

LEMMA ResolvePlanStep ==
    ASSUME TInv, NEW s \in Sessions, ResolvePlan(s)
    PROVE  TInv' /\ Works(s) /\ LimitKept
  <1> DEFINE seen == sess[s].seen
  <1>1. /\ sess[s].pc = "loaded" /\ sub \in Row /\ seen \in Row
        /\ sess \in [Sessions -> Session] /\ sess[s] \in Session
    BY DEF ResolvePlan, At, TInv, TypeOK, Loaded
  <1>2. UNCHANGED <<mode, rows, clock, top, granted, orderly, gateway>>
    BY DEF ResolvePlan
  <1>3. sub' \in Row /\ (Used(sub') <=> Used(sub))
    <2>1. CASE Lapsed(seen)
      <3>1. Expired(seen) \in Row /\ Expired(seen).trial_used = seen.trial_used
        BY <1>1, ExpiredTyped
      <3>2. sub' \in Row /\ sub'.trial_used = sub.trial_used
        BY <1>1, <2>1, <3>1, CommitTyped DEF ResolvePlan
      <3>3. QED
        BY <1>1, <3>2, SubscriptionAssumption DEF Used
    <2>2. CASE ~Lapsed(seen)
      BY <1>1, <2>2 DEF ResolvePlan
    <2>3. QED
      BY <2>1, <2>2
  <1>4. CASE Done(s)
    <2>1. offers' \subseteq PlanIds /\ mail' \subseteq Event /\ bought' = bought /\ sent' = sent
      BY <1>2 DEF gateway, TInv, TypeOK
    <2>2. QED
      BY <1>1, <1>2, <1>3, <1>4, <2>1, EndStep
  <1>5. CASE sess' = [sess EXCEPT ![s].pc = "count", ![s].plan = plan_of(seen)]
    <2>1. plan_of(seen) \in PlanIds
      BY <1>1, PlanTyped
    <2>2. /\ Others(s) /\ sess'[s] \in Session /\ sess'[s].pc = "count"
          /\ sess'[s].req = sess[s].req /\ sess'[s].seen = sess[s].seen
      BY <1>1, <1>5, <2>1 DEF Others, Session
    <2>3. TInv' /\ Works(s)
      BY <1>1, <1>2, <1>3, <2>2, GoOnStep DEF TInv, TypeOK
    <2>4. LimitKept
      BY <1>2, <2>2, InsertingKept, RowsOrder
    <2>5. QED
      BY <2>3, <2>4
  <1>6. QED
    BY <1>4, <1>5 DEF ResolvePlan

(* A limit that lets a request insert is above the rows there are.          *)
Approves(s) ==
  /\ UNCHANGED rows /\ top' \in [Kinds -> Nat]
  /\ \A k \in Kinds : top[k] <= top'[k] /\ Inserting(k)' \subseteq Inserting(k) \cup {s}
  /\ \A k \in Kinds \ {KindOf(s)} : s \notin Inserting(k)'
  /\ top'[KindOf(s)] = Unlimited \/ rows[KindOf(s)] < top'[KindOf(s)]

LEMMA CheckLimitStep ==
    ASSUME TInv, NEW s \in Sessions, CheckLimit(s)
    PROVE  TInv' /\ Works(s) /\ (LimitKept \/ Approves(s) \/ (UNCHANGED rows
             /\ \A k \in Kinds : top[k] <= top'[k] /\ Inserting(k)' \subseteq Inserting(k)))
  <1> DEFINE k == KindOf(s)
             limit == PLANS[k][sess[s].plan]
  <1>1. /\ sess[s].pc = "count" /\ sub \in Row /\ sess[s].seen \in Row /\ k \in Kinds
        /\ sess \in [Sessions -> Session] /\ sess[s] \in Session
        /\ top \in [Kinds -> 0..Unlimited] /\ rows \in [Kinds -> Nat]
    BY DEF CheckLimit, At, TInv, TypeOK, Loaded, KindOf, Kinds
  <1>2. limit \in 0..Unlimited
    BY <1>1, LimitTyped DEF Session
  <1>3. /\ top' = [top EXCEPT ![k] = IF limit > @ THEN limit ELSE @]
        /\ UNCHANGED <<mode, sub, rows, clock, granted, orderly, gateway>>
    BY DEF CheckLimit
  <1>4. Unlimited \in Nat
    BY SMT DEF Unlimited
  <1>5. /\ top' \in [Kinds -> 0..Unlimited] /\ top' \in [Kinds -> Nat]
        /\ \A j \in Kinds : top[j] <= top'[j]
        /\ limit <= top'[k]
    BY <1>1, <1>2, <1>3, <1>4
  <1>6. CASE Included(k, sess[s].plan) /\ UnderLimit(rows[k], limit)
    <2>1. /\ Others(s) /\ sess'[s] \in Session /\ sess'[s].pc \in {"gate", "insert"}
          /\ sess'[s].req = sess[s].req /\ sess'[s].seen = sess[s].seen
      BY <1>1, <1>6 DEF CheckLimit, Others, Session
    <2>2. TInv' /\ Works(s)
      BY <1>1, <1>3, <1>5, <2>1, GoOnStep
    <2>3. top'[k] = Unlimited \/ rows[k] < top'[k]
      BY <1>1, <1>2, <1>4, <1>5, <1>6 DEF UnderLimit
    <2>4. Approves(s)
      BY <1>3, <1>5, <2>1, <2>3 DEF Approves, Inserting, KindOf, Others
    <2>5. QED
      BY <2>2, <2>4
  <1>7. CASE ~(Included(k, sess[s].plan) /\ UnderLimit(rows[k], limit))
    <2>1. Others(s) /\ sess'[s] = Idle
      BY <1>7, DoneTyped DEF CheckLimit
    <2>2. TypeOK'
      BY <1>3, <1>5, <2>1 DEF TInv, TypeOK, Others, gateway
    <2>3. Loaded'
      BY <1>3, <2>1, IdleTyped, LoadedKept
    <2>4. Works(s)
      BY <1>1, <1>3, <2>1, IdleTyped DEF Works
    <2>5. UNCHANGED rows
          /\ \A j \in Kinds : top[j] <= top'[j] /\ Inserting(j)' \subseteq Inserting(j)
      BY <1>3, <1>5, <2>1, IdleTyped DEF Inserting, KindOf, Others
    <2>6. QED
      BY <2>2, <2>3, <2>4, <2>5 DEF TInv
  <1>8. QED
    BY <1>6, <1>7

LEMMA CheckFeatureStep ==
    ASSUME TInv, NEW s \in Sessions, CheckFeature(s)
    PROVE  TInv' /\ Works(s) /\ LimitKept
  <1>1. /\ sess[s].pc = "gate" /\ sub \in Row
        /\ sess \in [Sessions -> Session] /\ sess[s] \in Session
    BY DEF CheckFeature, At, TInv, TypeOK, Loaded
  <1>2. UNCHANGED <<mode, rows, clock, top, granted, orderly, gateway>>
    BY DEF CheckFeature
  <1>3. sub' \in Row /\ (Used(sub') <=> Used(sub))
    BY <1>1, ExpiredTyped, SubscriptionAssumption DEF CheckFeature, Used
  <1>4. CASE Done(s)
    <2>1. offers' \subseteq PlanIds /\ mail' \subseteq Event /\ bought' = bought /\ sent' = sent
      BY <1>2 DEF gateway, TInv, TypeOK
    <2>2. QED
      BY <1>1, <1>2, <1>3, <1>4, <2>1, EndStep
  <1>5. CASE sess' = [sess EXCEPT ![s].pc = "insert"]
    <2>1. /\ Others(s) /\ sess'[s] \in Session /\ sess'[s].pc = "insert"
          /\ sess'[s].req = sess[s].req /\ sess'[s].seen = sess[s].seen
      BY <1>1, <1>5 DEF Others, Session
    <2>2. TInv' /\ Works(s)
      BY <1>1, <1>2, <1>3, <2>1, GoOnStep DEF TInv, TypeOK
    <2>3. \A k \in Kinds : Inserting(k)' \subseteq Inserting(k)
      BY <1>1, <2>1 DEF Inserting, KindOf, Others
    <2>4. LimitKept
      BY <1>2, <2>3, RowsOrder DEF LimitKept
    <2>5. QED
      BY <2>2, <2>4
  <1>6. QED
    BY <1>4, <1>5 DEF CheckFeature

(* A row that was decided on is inserted.                                   *)
Inserts(s) ==
  /\ s \in Inserting(KindOf(s)) /\ top' = top
  /\ rows' = [rows EXCEPT ![KindOf(s)] = @ + 1]
  /\ \A k \in Kinds : Inserting(k)' \subseteq Inserting(k) \ {s}

LEMMA InsertRowStep ==
    ASSUME TInv, NEW s \in Sessions, InsertRow(s)
    PROVE  TInv' /\ Works(s) /\ Inserts(s)
  <1>1. /\ sess[s].pc = "insert" /\ Others(s) /\ sess'[s] = Idle
        /\ rows' = [rows EXCEPT ![KindOf(s)] = @ + 1]
        /\ UNCHANGED <<mode, sub, clock, granted, top, orderly, gateway>>
    BY DoneTyped DEF InsertRow, At
  <1>2. TypeOK'
    <2>1. KindOf(s) \in Kinds /\ rows \in [Kinds -> Nat]
      BY DEF KindOf, Kinds, TInv, TypeOK
    <2>2. rows' \in [Kinds -> Nat]
      BY <1>1, <2>1
    <2>3. QED
      BY <1>1, <2>2 DEF TInv, TypeOK, Others, gateway
  <1>3. Loaded'
    BY <1>1, IdleTyped, LoadedKept
  <1>4. Works(s)
    BY <1>1, IdleTyped DEF Works
  <1>5. Inserts(s)
    BY <1>1, IdleTyped DEF Inserts, Inserting, KindOf, Others
  <1>6. QED
    BY <1>2, <1>3, <1>4, <1>5 DEF TInv

LEMMA StartTrialStep ==
    ASSUME TInv, NEW s \in Sessions, start_trial(s)
    PROVE  TInv' /\ (Works(s) \/ Grants(s)) /\ LimitKept
  <1> DEFINE seen == sess[s].seen
             wanted == [seen EXCEPT !.plan = sess[s].req.plan, !.status = "trialing",
                                    !.trial_used = TRUE, !.trial_ends_at = clock]
  <1>1. /\ sess[s].pc = "loaded" /\ sub \in Row /\ seen \in Row /\ Done(s)
        /\ sess \in [Sessions -> Session] /\ sess[s] \in Session
        /\ sess[s].req.op = "trial" /\ clock \in 0..MaxClock
        /\ UNCHANGED <<mode, rows, clock, top, orderly, gateway>>
    BY DEF start_trial, Does, At, TInv, TypeOK, Loaded
  <1>2. offers' \subseteq PlanIds /\ mail' \subseteq Event /\ bought' = bought /\ sent' = sent
    BY <1>1 DEF gateway, TInv, TypeOK
  <1>3. CASE ~Eligible(seen)
    <2>1. sub' = sub /\ granted' = granted
      BY <1>3 DEF start_trial
    <2>2. QED
      BY <1>1, <1>2, <2>1, EndStep
  <1>4. CASE Eligible(seen)
    <2>1. ~seen.trial_used /\ sub' = Commit(seen, wanted) /\ granted' = granted + 1
      BY <1>1, <1>4 DEF start_trial, Eligible
    <2>2. sess[s].req.plan \in TrialPlans
      BY <1>1 DEF Session
    <2>3. wanted \in Row /\ wanted.trial_used = TRUE
      BY <1>1, <2>2 DEF Row, Statuses
    <2> HIDE DEF wanted
    <2>4. sub' \in Row /\ sub'.trial_used = TRUE
      BY <1>1, <2>1, <2>3, CommitTyped
    <2>5. Others(s) /\ sess'[s] = Idle
      BY <1>1, DoneTyped
    <2>6. TypeOK'
      BY <1>1, <1>2, <2>1, <2>4, <2>5 DEF TInv, TypeOK, Others
    <2>7. Loaded'
      BY <2>4, <2>5, IdleTyped, LoadedKept
    <2>8. Grants(s)
      BY <1>1, <2>1, <2>4, <2>5, IdleTyped, SubscriptionAssumption DEF Grants, Used
    <2>9. LimitKept
      BY <1>1, <2>5, IdleTyped, InsertingKept, RowsOrder
    <2>10. QED
      BY <2>6, <2>7, <2>8, <2>9 DEF TInv
  <1>5. QED
    BY <1>3, <1>4

LEMMA CheckoutStep ==
    ASSUME TInv, NEW s \in Sessions, create_checkout(s)
    PROVE  TInv' /\ Works(s) /\ LimitKept
  <1> DEFINE seen == sess[s].seen
             plan == sess[s].req.plan
  <1>1. /\ sess[s].pc = "loaded" /\ sub \in Row /\ seen \in Row /\ Done(s)
        /\ sess[s] \in Session /\ sess[s].req.op = "checkout"
        /\ UNCHANGED <<mode, rows, clock, top, granted, orderly, bought, mail, sent>>
        /\ sub' = Commit(seen, AfterCheckout(seen, plan))
        /\ offers' = IF mode = "manual" THEN offers ELSE offers \cup {plan}
    BY DEF create_checkout, Does, At, TInv, TypeOK, Loaded
  <1>2. plan \in PlanIds
    BY <1>1 DEF Session
  <1>3. /\ AfterCheckout(seen, plan) \in Row
        /\ AfterCheckout(seen, plan).trial_used = seen.trial_used
    BY <1>1, <1>2, ChangedTyped DEF AfterCheckout, Statuses
  <1>4. sub' \in Row /\ sub'.trial_used = sub.trial_used
    BY <1>1, <1>3, CommitTyped
  <1>5. Used(sub') <=> Used(sub)
    BY <1>1, <1>4, SubscriptionAssumption DEF Used
  <1>6. offers' \subseteq PlanIds /\ mail' \subseteq Event
    BY <1>1, <1>2 DEF TInv, TypeOK
  <1>7. QED
    BY <1>1, <1>4, <1>5, <1>6, EndStep DEF TInv, TypeOK

LEMMA ApplyWebhookStep ==
    ASSUME TInv, NEW s \in Sessions, ApplyWebhook(s)
    PROVE  TInv' /\ Works(s) /\ LimitKept
  <1> DEFINE seen == sess[s].seen
             e == sess[s].req.event
  <1>1. /\ sess[s].pc = "loaded" /\ sub \in Row /\ seen \in Row /\ Done(s) /\ e \in Event
        /\ UNCHANGED <<mode, rows, clock, top, granted, orderly, offers, bought, sent>>
        /\ sub' = Commit(seen, Handled(e, seen))
    BY DEF ApplyWebhook, Does, At, TInv, Loaded
  <1>2. sub' \in Row /\ sub'.trial_used = sub.trial_used
    BY <1>1, HandledTyped, CommitTyped
  <1>3. Used(sub') <=> Used(sub)
    BY <1>1, <1>2, SubscriptionAssumption DEF Used
  <1>4. mail' \subseteq Event
    <2>1. [e EXCEPT !.again = TRUE] \in Event
      BY <1>1 DEF Event
    <2>2. mail' \subseteq mail \cup {[e EXCEPT !.again = TRUE]}
      BY DEF ApplyWebhook
    <2>3. QED
      BY <2>1, <2>2 DEF TInv, TypeOK
  <1>5. offers' \subseteq PlanIds
    BY <1>1 DEF TInv, TypeOK
  <1>6. QED
    BY <1>1, <1>2, <1>3, <1>4, <1>5, EndStep

LEMMA RemoveRowStep ==
    ASSUME TInv, NEW k \in Kinds, RemoveRow(k)
    PROVE  TInv' /\ Bystander /\ LimitKept
  <1>1. /\ rows \in [Kinds -> Nat] /\ rows[k] > 0 /\ rows' = [rows EXCEPT ![k] = @ - 1]
        /\ UNCHANGED <<mode, sub, sess, clock, granted, top, orderly, gateway>>
    BY DEF RemoveRow, TInv, TypeOK
  <1>2. rows' \in [Kinds -> Nat] /\ \A j \in Kinds : rows'[j] <= rows[j]
    BY <1>1
  <1>3. TInv'
    BY <1>1, <1>2 DEF TInv, TypeOK, Loaded, gateway
  <1>4. QED
    BY <1>1, <1>2, <1>3 DEF Bystander, LimitKept, Inserting, KindOf

(* The gateway's webhooks describe one of its subscriptions.                *)
LEMMA PostStep ==
    ASSUME TInv, NEW i \in Nat \ {0}, NEW stripe \in Seq(EventKinds),
           NEW razorpay \in Seq(EventKinds), Post(i, stripe, razorpay),
           bought' \in Seq(Bought), i <= Len(bought'), offers' \subseteq PlanIds
    PROVE  TInv' /\ Bystander /\ LimitKept
  <1> DEFINE kinds == IF mode = "stripe" THEN stripe ELSE razorpay
  <1>1. kinds \in Seq(EventKinds)
    OBVIOUS
  <1> HIDE DEF kinds
  <1>2. /\ sent + Len(kinds) <= MaxEvents /\ sent' = sent + Len(kinds)
        /\ mail' = mail \cup {Note(k, kinds[k], i) : k \in DOMAIN kinds}
        /\ UNCHANGED <<mode, sub, sess, rows, clock, granted, top, orderly>>
    BY DEF Post, kinds
  <1>3. Len(kinds) \in Nat /\ DOMAIN kinds = 1..Len(kinds) /\ sent \in 0..MaxEvents
    BY <1>1, LenProperties DEF TInv, TypeOK
  <1>4. bought'[i] \in Bought
    BY ElementOfSeq, LenProperties
  <1>5. \A k \in DOMAIN kinds : Note(k, kinds[k], i) \in Event
    <2> SUFFICES ASSUME NEW k \in DOMAIN kinds PROVE Note(k, kinds[k], i) \in Event
      OBVIOUS
    <2>1. kinds[k] \in EventKinds
      BY <1>1, <1>3, ElementOfSeq
    <2>2. sent + k \in 1..MaxEvents
      BY <1>2, <1>3, SubscriptionAssumption
    <2>3. QED
      BY <1>4, <2>1, <2>2 DEF Note, Event, Bought
  <1>6. sent' \in 0..MaxEvents
    BY <1>2, <1>3, SubscriptionAssumption
  <1>7. TypeOK'
    BY <1>2, <1>5, <1>6 DEF TInv, TypeOK
  <1>8. Loaded'
    BY <1>2 DEF TInv, Loaded
  <1>9. LimitKept
    BY <1>2, RowsOrder DEF LimitKept, Inserting, KindOf
  <1>10. QED
    BY <1>2, <1>7, <1>8, <1>9 DEF TInv, Bystander

LEMMA Posts ==
  /\ <<"checkout", "paid">> \in Seq(EventKinds) /\ <<"activated">> \in Seq(EventKinds)
  /\ <<"updated">> \in Seq(EventKinds) /\ <<>> \in Seq(EventKinds)
  /\ <<"failed", "updated">> \in Seq(EventKinds) /\ <<"halted">> \in Seq(EventKinds)
  /\ <<"paid", "updated">> \in Seq(EventKinds)
  /\ <<"deleted">> \in Seq(EventKinds) /\ <<"cancelled">> \in Seq(EventKinds)
  BY EmptySeq DEF EventKinds

LEMMA PayStep ==
    ASSUME TInv, Pay
    PROVE  TInv' /\ Bystander /\ LimitKept
  <1>1. PICK p \in offers :
          /\ bought' = Append(bought, [plan |-> p, status |-> "active"])
          /\ offers' = offers \ {p}
          /\ Post(Len(bought) + 1, <<"checkout", "paid">>, <<"activated">>)
    BY DEF Pay
  <1>2. bought \in Seq(Bought) /\ offers \subseteq PlanIds
    BY DEF TInv, TypeOK
  <1>3. [plan |-> p, status |-> "active"] \in Bought
    BY <1>2 DEF Bought, Statuses
  <1>4. bought' \in Seq(Bought) /\ Len(bought') = Len(bought) + 1 /\ Len(bought) \in Nat
    BY <1>1, <1>2, <1>3, AppendProperties, LenProperties
  <1> DEFINE i == Len(bought) + 1
  <1>5. /\ i \in Nat \ {0} /\ i <= Len(bought') /\ offers' \subseteq PlanIds
        /\ Post(i, <<"checkout", "paid">>, <<"activated">>)
    BY <1>1, <1>2, <1>4
  <1> HIDE DEF i
  <1>6. QED
    BY <1>4, <1>5, Posts, PostStep

(* One subscription at the gateway changes.                                 *)
LEMMA GatewayStep ==
    ASSUME TInv, NEW i \in DOMAIN bought, NEW b \in Bought,
           bought' = [bought EXCEPT ![i] = b], UNCHANGED offers,
           NEW stripe \in Seq(EventKinds), NEW razorpay \in Seq(EventKinds),
           Post(i, stripe, razorpay)
    PROVE  TInv' /\ Bystander /\ LimitKept
  <1>1. /\ bought \in Seq(Bought) /\ offers \subseteq PlanIds
        /\ Len(bought) \in Nat /\ i \in 1..Len(bought)
    BY LenProperties DEF TInv, TypeOK
  <1>2. bought' \in Seq(Bought) /\ Len(bought') = Len(bought)
    BY <1>1, ExceptSeq
  <1>3. QED
    BY <1>1, <1>2, PostStep

LEMMA BoughtParts ==
    ASSUME TInv, NEW i \in DOMAIN bought
    PROVE  /\ bought[i] \in Bought /\ bought \in Seq(Bought)
           /\ \A p \in PlanIds :
                /\ [bought EXCEPT ![i].plan = p] =
                     [bought EXCEPT ![i] = [bought[i] EXCEPT !.plan = p]]
                /\ [bought[i] EXCEPT !.plan = p] \in Bought
           /\ \A st \in Statuses :
                /\ [bought EXCEPT ![i].status = st] =
                     [bought EXCEPT ![i] = [bought[i] EXCEPT !.status = st]]
                /\ [bought[i] EXCEPT !.status = st] \in Bought
  <1>1. bought \in Seq(Bought) /\ i \in 1..Len(bought)
    BY LenProperties DEF TInv, TypeOK
  <1>2. bought[i] \in Bought
    BY <1>1, ElementOfSeq
  <1>3. QED
    BY <1>1, <1>2 DEF Bought

LEMMA SubscriptionChangeStep ==
    ASSUME TInv, NEW i \in DOMAIN bought,
           SwitchPlan(i) \/ PaymentFails(i) \/ PaymentRecovers(i) \/ Cancel(i)
    PROVE  TInv' /\ Bystander /\ LimitKept
  <1>1. CASE SwitchPlan(i)
    <2>1. PICK p \in {"starter", "pro"} :
            /\ bought' = [bought EXCEPT ![i].plan = p]
            /\ Post(i, <<"updated">>, <<>>) /\ UNCHANGED offers
      BY <1>1 DEF SwitchPlan
    <2>2. p \in PlanIds
      BY DEF PlanIds
    <2>3. QED
      BY <2>1, <2>2, BoughtParts, Posts, GatewayStep
  <1>2. CASE PaymentFails(i)
    <2>1. "past_due" \in Statuses
      BY DEF Statuses
    <2>2. QED
      BY <1>2, <2>1, BoughtParts, Posts, GatewayStep DEF PaymentFails
  <1>3. CASE PaymentRecovers(i)
    <2>1. "active" \in Statuses
      BY DEF Statuses
    <2>2. QED
      BY <1>3, <2>1, BoughtParts, Posts, GatewayStep DEF PaymentRecovers
  <1>4. CASE Cancel(i)
    <2>1. "canceled" \in Statuses
      BY DEF Statuses
    <2>2. QED
      BY <1>4, <2>1, BoughtParts, Posts, GatewayStep DEF Cancel
  <1>5. QED
    BY <1>1, <1>2, <1>3, <1>4

LEMMA TickStep ==
    ASSUME TInv, Tick
    PROVE  TInv' /\ Bystander /\ LimitKept
  <1>1. /\ clock' \in 0..MaxClock
        /\ UNCHANGED <<mode, sub, sess, rows, granted, top, orderly, gateway>>
    BY SubscriptionAssumption DEF Tick, TInv, TypeOK
  <1>2. TInv'
    BY <1>1 DEF TInv, TypeOK, Loaded, gateway
  <1>3. LimitKept
    BY <1>1, RowsOrder DEF LimitKept, Inserting, KindOf
  <1>4. Bystander
    BY <1>1 DEF Bystander
  <1>5. QED
    BY <1>2, <1>3, <1>4

----------------------------------------------------------------------------
(* Every step has one of the effects above.                                 *)

SessionEffect(s) == Begins(s) \/ Creates(s) \/ Works(s) \/ Grants(s)
LimitEffect ==
  \/ LimitKept
  \/ \E s \in Sessions : Approves(s) \/ Inserts(s)
  \/ UNCHANGED rows /\ \A k \in Kinds : top[k] <= top'[k] /\ Inserting(k)' \subseteq Inserting(k)

LEMMA Effects ==
    ASSUME TInv, Next
    PROVE  TInv' /\ (Bystander \/ \E s \in Sessions : SessionEffect(s)) /\ LimitEffect
  <1>1. ASSUME NEW s \in Sessions, Request(s) \/ Deliver(s) \/ Handle(s)
        PROVE  TInv' /\ (Bystander \/ SessionEffect(s)) /\ LimitEffect
    BY <1>1, RequestStep, DeliverStep, CreateRowStep, ResolvePlanStep, CheckLimitStep,
       CheckFeatureStep, InsertRowStep, StartTrialStep, CheckoutStep, ApplyWebhookStep
       DEF Handle, SessionEffect, LimitEffect
  <1>2. ASSUME NEW k \in Kinds, RemoveRow(k)
        PROVE  TInv' /\ Bystander /\ LimitEffect
    BY <1>2, RemoveRowStep DEF LimitEffect
  <1>3. CASE Pay \/ Tick
    BY <1>3, PayStep, TickStep DEF LimitEffect
  <1>4. ASSUME NEW i \in DOMAIN bought,
               SwitchPlan(i) \/ PaymentFails(i) \/ PaymentRecovers(i) \/ Cancel(i)
        PROVE  TInv' /\ Bystander /\ LimitEffect
    BY <1>4, SubscriptionChangeStep DEF LimitEffect
  <1>5. QED
    BY <1>1, <1>2, <1>3, <1>4 DEF Next

----------------------------------------------------------------------------
(* Trials. A session that loaded the row before the trial was used may      *)
(* still grant another: granted trials and such sessions are no more than   *)
(* the sessions there are.                                                  *)

Stale == {s \in Sessions : sess[s].pc = "loaded" /\ ~sess[s].seen.trial_used}

(* While requests do not overlap, one session works, on the row as it is.   *)
OneByOne ==
  orderly =>
    /\ \A s, t \in Sessions : sess[s].pc # "idle" /\ sess[t].pc # "idle" => s = t
    /\ \A s \in Sessions : sess[s].pc = "loaded" => sess[s].seen = sub

TrialInv ==
  /\ ~Used(sub) => granted = 0
  /\ Used(sub) => granted + Cardinality(Stale) <= Cardinality(Sessions)
  /\ orderly => granted <= 1

LEMMA SetsOfSessions ==
    ASSUME NEW S \in SUBSET Sessions
    PROVE  /\ IsFiniteSet(S) /\ Cardinality(S) \in Nat /\ Cardinality(Sessions) \in Nat
           /\ Cardinality(S) <= Cardinality(Sessions)
           /\ \A s \in S : Cardinality(S \ {s}) = Cardinality(S) - 1
           /\ \A T \in SUBSET S : Cardinality(T) \in Nat /\ Cardinality(T) <= Cardinality(S)
  <1>1. IsFiniteSet(S) /\ Cardinality(S) <= Cardinality(Sessions)
    BY SubscriptionAssumption, FS_Subset
  <1>2. Cardinality(S) \in Nat /\ Cardinality(Sessions) \in Nat
    BY <1>1, SubscriptionAssumption, FS_CardinalityType
  <1>3. \A s \in S : Cardinality(S \ {s}) = Cardinality(S) - 1
    BY <1>1, FS_RemoveElement
  <1>4. ASSUME NEW T \in SUBSET S
        PROVE  Cardinality(T) \in Nat /\ Cardinality(T) <= Cardinality(S)
    <2>1. IsFiniteSet(T) /\ Cardinality(T) <= Cardinality(S)
      BY <1>1, FS_Subset
    <2>2. QED
      BY <2>1, FS_CardinalityType
  <1>5. QED
    BY <1>1, <1>2, <1>3, <1>4

LEMMA SomeSession == Cardinality(Sessions) \in Nat /\ Cardinality(Sessions) >= 1
  BY SubscriptionAssumption, FS_EmptySet, FS_CardinalityType

LEMMA OneByOneKept ==
    ASSUME TInv, OneByOne, Bystander \/ \E s \in Sessions : SessionEffect(s)
    PROVE  OneByOne'
  <1>1. CASE Bystander
    BY <1>1 DEF Bystander, OneByOne
  <1>2. ASSUME NEW s \in Sessions, Begins(s) PROVE OneByOne'
    BY <1>2, IdleTyped DEF Begins, OneByOne, Others, AllIdle
  <1>3. ASSUME NEW s \in Sessions, Creates(s) PROVE OneByOne'
    BY <1>3 DEF Creates, OneByOne, Others
  <1>4. ASSUME NEW s \in Sessions, Works(s) PROVE OneByOne'
    BY <1>4 DEF Works, OneByOne, Others
  <1>5. ASSUME NEW s \in Sessions, Grants(s) PROVE OneByOne'
    BY <1>5 DEF Grants, OneByOne, Others
  <1>6. QED
    BY <1>1, <1>2, <1>3, <1>4, <1>5 DEF SessionEffect

LEMMA TrialKept ==
    ASSUME TInv, TInv', OneByOne, TrialInv, Bystander \/ \E s \in Sessions : SessionEffect(s)
    PROVE  TrialInv'
  <1> USE DEF TrialInv
  <1>1. granted \in Nat /\ Stale \in SUBSET Sessions /\ Stale' \in SUBSET Sessions
        /\ orderly \in BOOLEAN
    BY DEF TInv, TypeOK, Stale
  <1>2. ASSUME Used(sub') <=> Used(sub), granted' = granted, orderly' => orderly,
               Used(sub) => Stale' \subseteq Stale
        PROVE  TrialInv'
    <2>1. Cardinality(Stale') \in Nat /\ Cardinality(Stale) \in Nat
          /\ Cardinality(Sessions) \in Nat
      BY <1>1, SetsOfSessions
    <2>2. Used(sub) => Cardinality(Stale') <= Cardinality(Stale)
      BY <1>1, <1>2, SetsOfSessions
    <2>3. QED
      BY <1>1, <1>2, <2>1, <2>2
  <1>3. CASE Bystander
    BY <1>2, <1>3 DEF Bystander, Stale
  <1>4. ASSUME NEW s \in Sessions, Begins(s) PROVE TrialInv'
    BY <1>2, <1>4 DEF Begins, Stale, Others, Used
  <1>5. ASSUME NEW s \in Sessions, Creates(s) PROVE TrialInv'
    BY <1>1, <1>5 DEF Creates, Used, FreshRow
  <1>6. ASSUME NEW s \in Sessions, Works(s) PROVE TrialInv'
    BY <1>2, <1>6 DEF Works, Stale, Others
  <1>7. ASSUME NEW s \in Sessions, Grants(s) PROVE TrialInv'
    <2>1. s \in Stale /\ Stale' \subseteq Stale \ {s} /\ granted' = granted + 1 /\ Used(sub')
          /\ orderly' = orderly
      BY <1>7 DEF Grants, Stale, Others
    <2>2. /\ Cardinality(Stale \ {s}) = Cardinality(Stale) - 1
          /\ Cardinality(Stale) <= Cardinality(Sessions)
          /\ Cardinality(Stale) \in Nat /\ Cardinality(Sessions) \in Nat
      BY <1>1, <2>1, SetsOfSessions
    <2>3. Cardinality(Stale') \in Nat /\ Cardinality(Stale') <= Cardinality(Stale \ {s})
      <3>1. Stale \ {s} \in SUBSET Sessions
        BY <1>1
      <3>2. QED
        BY <2>1, <3>1, SetsOfSessions
    <2>4. orderly => ~Used(sub)
      BY <1>7 DEF Grants, OneByOne, Used
    <2>5. CASE Used(sub)
      BY <1>1, <2>1, <2>2, <2>3, <2>4, <2>5
    <2>6. CASE ~Used(sub)
      BY <1>1, <2>1, <2>2, <2>3, <2>6
    <2>7. QED
      BY <2>5, <2>6
  <1>8. QED
    BY <1>3, <1>4, <1>5, <1>6, <1>7 DEF SessionEffect

----------------------------------------------------------------------------
(* Limits. The rows there are and those that sessions were allowed to       *)
(* insert.                                                                  *)

LimitInv ==
  \A k \in Kinds :
    \/ top[k] = Unlimited
    \/ rows[k] + Cardinality(Inserting(k)) < top[k] + Cardinality(Sessions)

LEMMA LimitsKept ==
    ASSUME TInv, TInv', LimitInv, LimitEffect
    PROVE  LimitInv'
  <1> SUFFICES ASSUME NEW k \in Kinds, top'[k] # Unlimited
               PROVE  rows'[k] + Cardinality(Inserting(k)') < top'[k] + Cardinality(Sessions)
    BY DEF LimitInv
  <1>1. /\ Inserting(k) \in SUBSET Sessions /\ Inserting(k)' \in SUBSET Sessions
        /\ rows[k] \in Nat /\ rows'[k] \in Nat
    BY DEF Inserting, TInv, TypeOK
  <1>2. /\ top[k] \in Nat /\ top'[k] \in Nat
        /\ top[k] <= top'[k] => top[k] # Unlimited
    <2>1. Unlimited \in Nat
      BY SMT DEF Unlimited
    <2>2. top[k] \in 0..Unlimited /\ top'[k] \in 0..Unlimited
      BY DEF TInv, TypeOK
    <2>3. QED
      BY <2>1, <2>2
  <1>3. /\ Cardinality(Inserting(k)) \in Nat /\ Cardinality(Sessions) \in Nat
        /\ Cardinality(Inserting(k)') \in Nat
        /\ Cardinality(Inserting(k)') <= Cardinality(Sessions)
    BY <1>1, SetsOfSessions
  <1>4. /\ top[k] # Unlimited
        /\ rows[k] + Cardinality(Inserting(k)) < top[k] + Cardinality(Sessions)
    <2>1. top[k] <= top'[k]
      BY <1>2 DEF LimitEffect, LimitKept, Approves, Inserts
    <2>2. QED
      BY <1>2, <2>1 DEF LimitInv
  <1>5. ASSUME Inserting(k)' \subseteq Inserting(k), rows'[k] <= rows[k], top[k] <= top'[k]
        PROVE  rows'[k] + Cardinality(Inserting(k)') < top'[k] + Cardinality(Sessions)
    <2>1. Cardinality(Inserting(k)') <= Cardinality(Inserting(k))
      BY <1>1, <1>5, SetsOfSessions
    <2>2. QED
      BY <1>1, <1>2, <1>3, <1>4, <1>5, <2>1
  <1>6. CASE LimitKept
    <2>1. Inserting(k)' \subseteq Inserting(k) /\ rows'[k] <= rows[k] /\ top'[k] = top[k]
      BY <1>6 DEF LimitKept
    <2>2. QED
      BY <1>2, <1>5, <2>1
  <1>7. CASE UNCHANGED rows
             /\ \A j \in Kinds : top[j] <= top'[j] /\ Inserting(j)' \subseteq Inserting(j)
    BY <1>1, <1>5, <1>7
  <1>8. ASSUME NEW s \in Sessions, Approves(s)
        PROVE  rows'[k] + Cardinality(Inserting(k)') < top'[k] + Cardinality(Sessions)
    <2>1. CASE k = KindOf(s)
      <3>1. rows'[k] = rows[k] /\ rows[k] < top'[k]
        BY <1>8, <2>1 DEF Approves
      <3>2. QED
        BY <1>1, <1>2, <1>3, <3>1
    <2>2. CASE k # KindOf(s)
      <3>1. Inserting(k)' \subseteq Inserting(k) /\ rows'[k] = rows[k] /\ top[k] <= top'[k]
        BY <1>8, <2>2 DEF Approves
      <3>2. QED
        BY <1>1, <1>5, <3>1
    <2>3. QED
      BY <2>1, <2>2
  <1>9. ASSUME NEW s \in Sessions, Inserts(s)
        PROVE  rows'[k] + Cardinality(Inserting(k)') < top'[k] + Cardinality(Sessions)
    <2>1. rows \in [Kinds -> Nat]
      BY DEF TInv, TypeOK
    <2>2. CASE k = KindOf(s)
      <3>1. /\ s \in Inserting(k) /\ top'[k] = top[k] /\ rows'[k] = rows[k] + 1
            /\ Inserting(k)' \subseteq Inserting(k) \ {s}
        BY <1>9, <2>1, <2>2 DEF Inserts
      <3>2. Cardinality(Inserting(k) \ {s}) = Cardinality(Inserting(k)) - 1
        BY <1>1, <3>1, SetsOfSessions
      <3>3. Cardinality(Inserting(k)') <= Cardinality(Inserting(k) \ {s})
        <4>1. Inserting(k) \ {s} \in SUBSET Sessions
          BY <1>1
        <4>2. QED
          BY <3>1, <4>1, SetsOfSessions
      <3>4. QED
        BY <1>1, <1>2, <1>3, <1>4, <3>1, <3>2, <3>3
    <2>3. CASE k # KindOf(s)
      <3>1. Inserting(k)' \subseteq Inserting(k) /\ rows'[k] = rows[k] /\ top'[k] = top[k]
        BY <1>9, <2>1, <2>3 DEF Inserts
      <3>2. QED
        BY <1>1, <1>2, <1>5, <3>1
    <2>4. QED
      BY <2>2, <2>3
  <1>10. QED
    BY <1>6, <1>7, <1>8, <1>9 DEF LimitEffect

----------------------------------------------------------------------------
(* Causes. Until a subscription is bought or a trial granted, nothing that  *)
(* is stored, loaded or on its way names a paid plan.                       *)

Causeless == mode # "manual" /\ granted = 0 /\ bought = <<>>
Free(row) == row = NoRow \/ row.plan = "free"
CauseInv ==
  Causeless => /\ mail = {} /\ Free(sub)
               /\ \A s \in Sessions : Free(sess[s].seen) /\ sess[s].req.op # "webhook"

(* A cause stays one.                                                       *)
LEMMA CauseStays ==
    ASSUME TInv, Next, Causeless'
    PROVE  Causeless /\ bought' = bought /\ granted' = granted
  <1>1. /\ mode' = mode /\ granted \in Nat /\ granted' \in {granted, granted + 1}
    BY Effects DEF Bystander, SessionEffect, Begins, Creates, Works, Grants, TInv, TypeOK
  <1>2. granted = 0 /\ granted' = granted /\ mode # "manual"
    BY <1>1 DEF Causeless
  <1>3. bought' = bought
    <2>1. bought \in Seq(Bought) /\ bought' = <<>> /\ Len(<<>>) = 0 /\ Len(bought) \in Nat
      BY LenProperties DEF TInv, TypeOK, Causeless
    <2>2. ~Pay
      <3> SUFFICES ASSUME Pay PROVE FALSE
        OBVIOUS
      <3>1. PICK q \in offers : bought' = Append(bought, [plan |-> q, status |-> "active"])
        BY DEF Pay
      <3>2. [plan |-> q, status |-> "active"] \in Bought
        BY DEF TInv, TypeOK, Bought, Statuses
      <3>3. Len(bought') = Len(bought) + 1
        BY <2>1, <3>1, <3>2, AppendProperties
      <3>4. QED
        BY <2>1, <3>3
    <2>3. \A i \in DOMAIN bought :
            ~(SwitchPlan(i) \/ PaymentFails(i) \/ PaymentRecovers(i) \/ Cancel(i))
      <3> SUFFICES ASSUME NEW i \in DOMAIN bought,
                          SwitchPlan(i) \/ PaymentFails(i) \/ PaymentRecovers(i) \/ Cancel(i)
                   PROVE  FALSE
        OBVIOUS
      <3>1. DOMAIN bought' = DOMAIN bought
        BY DEF SwitchPlan, PaymentFails, PaymentRecovers, Cancel, TInv, TypeOK
      <3>2. DOMAIN <<>> = {}
        OBVIOUS
      <3>3. QED
        BY <2>1, <3>1, <3>2
    <2>4. \A s \in Sessions : Request(s) \/ Deliver(s) \/ Handle(s) => bought' = bought
      BY DEF Request, Deliver, Handle, CreateRow, ResolvePlan, CheckLimit, CheckFeature,
             InsertRow, start_trial, create_checkout, ApplyWebhook, gateway
    <2>5. \A k \in Kinds : RemoveRow(k) => bought' = bought
      BY DEF RemoveRow, gateway
    <2>6. Tick => bought' = bought
      BY DEF Tick, gateway
    <2>7. QED
      BY <2>2, <2>3, <2>4, <2>5, <2>6 DEF Next
  <1>4. QED
    BY <1>2, <1>3 DEF Causeless

LEMMA CauseKept ==
    ASSUME TInv, CauseInv, Next
    PROVE  CauseInv'
  <1> DEFINE Goal == /\ mail' = {} /\ Free(sub')
                     /\ \A s \in Sessions : Free(sess'[s].seen) /\ sess'[s].req.op # "webhook"
  <1> SUFFICES ASSUME Causeless' PROVE Goal
    BY DEF CauseInv, Free
  <1>1. /\ Causeless /\ bought' = bought /\ granted' = granted /\ mail = {} /\ Free(sub)
        /\ \A s \in Sessions : Free(sess[s].seen) /\ sess[s].req.op # "webhook"
        /\ granted \in Nat /\ bought = <<>> /\ mode # "manual"
    BY CauseStays DEF CauseInv, TInv, TypeOK, Causeless
  <1>2. Free(Idle.seen) /\ Idle.req.op # "webhook"
    BY IdleTyped DEF Free
  <1>3. ASSUME NEW s \in Sessions, Others(s), mail' = mail, Free(sub'),
               Free(sess'[s].seen), sess'[s].req.op # "webhook"
        PROVE  Goal
    BY <1>1, <1>3 DEF Others
  <1>4. ASSUME NEW s \in Sessions, Done(s), mail' = mail, Free(sub') PROVE Goal
    <2>1. Others(s) /\ sess'[s] = Idle
      BY <1>4, DoneTyped
    <2>2. QED
      BY <1>2, <1>3, <1>4, <2>1
  <1>5. ASSUME UNCHANGED <<sess, sub, mail>> PROVE Goal
    BY <1>1, <1>5
  <1> HIDE DEF Goal
  <1>6. ASSUME NEW s \in Sessions, Request(s) PROVE Goal
    <2>1. PICK q \in Asked : Load(s, q)
      BY <1>6 DEF Request
    <2>2. q.op # "webhook"
      BY <2>1 DEF Asked, Req
    <2>3. Begins(s) /\ mail' = mail
      BY <1>6, RequestStep DEF Request, gateway
    <2>4. sess \in [Sessions -> Session]
      BY DEF TInv, TypeOK
    <2>5. sess'[s].req = q
      BY <2>1, <2>4 DEF Load
    <2>6. Others(s) /\ sess'[s].seen = sub /\ sub' = sub
      BY <2>3 DEF Begins
    <2>7. QED
      BY <1>1, <1>3, <2>2, <2>3, <2>5, <2>6
  <1>7. ASSUME NEW s \in Sessions, Handle(s) PROVE Goal
    <2> DEFINE seen == sess[s].seen
    <2>1. /\ Free(seen) /\ sess[s].req.op # "webhook"
          /\ sess \in [Sessions -> Session] /\ sess[s] \in Session
      BY <1>1 DEF TInv, TypeOK
    <2>2. sess[s].pc \in {"loaded", "count", "gate", "insert"} =>
            sub \in Row /\ seen \in Row /\ sub.plan = "free" /\ seen.plan = "free"
      BY <1>1, SubscriptionAssumption DEF TInv, Loaded, Free
    <2>3. CASE CreateRow(s)
      <3>1. CASE sub # NoRow
        BY <1>1, <1>4, <2>3, <3>1 DEF CreateRow, gateway
      <3>2. CASE sub = NoRow
        <4>1. /\ sub' = FreshRow /\ mail' = mail
              /\ sess' = [sess EXCEPT ![s].pc = "loaded", ![s].seen = FreshRow]
          BY <2>3, <3>2 DEF CreateRow, gateway
        <4>2. sess'[s].seen = FreshRow /\ sess'[s].req = sess[s].req
          BY <2>1, <4>1 DEF Session
        <4>3. Others(s)
          BY <2>3, <3>2, <4>2, CreateRowStep DEF Creates, Works
        <4>4. Free(FreshRow)
          BY DEF Free, FreshRow
        <4>5. QED
          BY <1>3, <2>1, <4>1, <4>2, <4>3, <4>4
      <3>3. QED
        BY <3>1, <3>2
    <2>4. CASE ResolvePlan(s)
      <3>1. sub \in Row /\ seen \in Row /\ sub.plan = "free" /\ mail' = mail
        BY <2>2, <2>4 DEF ResolvePlan, At, gateway
      <3>2. Free(sub')
        <4>1. Expired(seen) \in Row /\ Expired(seen).plan = "free"
          BY <3>1, ExpiredTyped
        <4>2. Commit(seen, Expired(seen)).plan = "free"
          BY <3>1, <4>1, CommitTyped
        <4>3. QED
          BY <3>1, <4>2, <2>4 DEF ResolvePlan, Free
      <3>3. CASE Done(s)
        BY <1>4, <3>1, <3>2, <3>3
      <3>4. CASE sess' = [sess EXCEPT ![s].pc = "count", ![s].plan = plan_of(seen)]
        <4>1. sess'[s].seen = seen /\ sess'[s].req = sess[s].req
          BY <2>1, <3>4 DEF Session
        <4>2. Others(s)
          BY <2>4, ResolvePlanStep DEF Works
        <4>3. QED
          BY <1>3, <2>1, <3>1, <3>2, <4>1, <4>2
      <3>5. QED
        BY <2>4, <3>3, <3>4 DEF ResolvePlan
    <2>5. CASE CheckLimit(s)
      <3>1. mail' = mail /\ sub' = sub
        BY <2>5 DEF CheckLimit, gateway
      <3>2. CASE Done(s)
        BY <1>1, <1>4, <3>1, <3>2
      <3>3. CASE ~Done(s)
        <4>1. sess'[s].seen = seen /\ sess'[s].req = sess[s].req
          BY <2>1, <2>5, <3>3 DEF CheckLimit, Session
        <4>2. Others(s)
          BY <2>5, CheckLimitStep DEF Works
        <4>3. QED
          BY <1>1, <1>3, <2>1, <3>1, <4>1, <4>2
      <3>4. QED
        BY <3>2, <3>3
    <2>6. CASE CheckFeature(s)
      <3>1. sub \in Row /\ mail' = mail
        BY <2>2, <2>6 DEF CheckFeature, At, gateway
      <3>2. Free(sub')
        BY <1>1, <2>6, <3>1, ExpiredTyped DEF CheckFeature, Free
      <3>3. CASE Done(s)
        BY <1>4, <3>1, <3>2, <3>3
      <3>4. CASE ~Done(s)
        <4>1. sess'[s].seen = seen /\ sess'[s].req = sess[s].req
          BY <2>1, <2>6, <3>4 DEF CheckFeature, Session
        <4>2. Others(s)
          BY <2>6, CheckFeatureStep DEF Works
        <4>3. QED
          BY <1>3, <2>1, <3>1, <3>2, <4>1, <4>2
      <3>5. QED
        BY <3>3, <3>4
    <2>7. CASE InsertRow(s)
      BY <1>1, <1>4, <2>7 DEF InsertRow, gateway
    <2>8. CASE start_trial(s)
      <3>1. ~Eligible(seen)
        BY <1>1, <2>8 DEF start_trial
      <3>2. QED
        BY <1>1, <1>4, <2>8, <3>1 DEF start_trial, gateway
    <2>9. CASE create_checkout(s)
      <3>1. /\ sub \in Row /\ seen \in Row /\ sub.plan = "free" /\ mail' = mail /\ Done(s)
            /\ sub' = Commit(seen, seen)
        BY <1>1, <2>2, <2>9 DEF create_checkout, Does, At, AfterCheckout
      <3>2. Free(sub')
        BY <3>1, CommitTyped DEF Free
      <3>3. QED
        BY <1>4, <3>1, <3>2
    <2>10. ~ApplyWebhook(s)
      BY <2>1 DEF ApplyWebhook, Does
    <2>11. QED
      BY <1>7, <2>3, <2>4, <2>5, <2>6, <2>7, <2>8, <2>9, <2>10 DEF Handle
  <1>8. ~Pay
    <2> SUFFICES ASSUME Pay PROVE FALSE
      OBVIOUS
    <2>1. PICK q \in offers : bought' = Append(bought, [plan |-> q, status |-> "active"])
      BY DEF Pay
    <2>2. [plan |-> q, status |-> "active"] \in Bought /\ bought \in Seq(Bought)
      BY DEF TInv, TypeOK, Bought, Statuses
    <2>3. Len(bought') = Len(bought) + 1 /\ Len(bought) \in Nat
      BY <2>1, <2>2, AppendProperties, LenProperties
    <2>4. QED
      BY <1>1, <2>3
  <1>9. DOMAIN bought = {}
    BY <1>1
  <1>10. ASSUME NEW s \in Sessions PROVE ~Deliver(s)
    BY <1>1 DEF Deliver
  <1>11. ASSUME NEW k \in Kinds, RemoveRow(k) PROVE Goal
    BY <1>5, <1>11 DEF RemoveRow, gateway
  <1>12. ASSUME Tick PROVE Goal
    BY <1>5, <1>12 DEF Tick, gateway
  <1>13. QED
    BY <1>6, <1>7, <1>8, <1>9, <1>10, <1>11, <1>12 DEF Next

----------------------------------------------------------------------------
(* The inductive invariant.                                                 *)

IInv == TInv /\ OneByOne /\ TrialInv /\ LimitInv /\ CauseInv

LEMMA Initially == Init => IInv
  <1> SUFFICES ASSUME Init PROVE IInv
    OBVIOUS
  <1>1. TInv
    BY InitTyped
  <1>2. /\ sub = NoRow /\ granted = 0 /\ mail = {}
        /\ \A s \in Sessions : sess[s].pc = "idle" /\ sess[s].seen = NoRow
                             /\ sess[s].req.op = "none"
    BY IdleTyped DEF Init
  <1>3. OneByOne
    BY <1>2 DEF OneByOne
  <1>4. TrialInv
    BY <1>2 DEF TrialInv, Used
  <1>5. LimitInv
    <2> SUFFICES ASSUME NEW k \in Kinds
                 PROVE  rows[k] + Cardinality(Inserting(k)) < top[k] + Cardinality(Sessions)
      BY DEF LimitInv
    <2>1. Inserting(k) = {}
      BY <1>2 DEF Inserting
    <2>2. Cardinality(Inserting(k)) = 0
      BY <2>1, FS_EmptySet
    <2>3. rows[k] = 0 /\ top[k] \in Nat
      <3>1. Unlimited \in Nat
        BY SMT DEF Unlimited
      <3>2. top[k] \in 0..Unlimited
        BY <1>1 DEF TInv, TypeOK
      <3>3. QED
        BY <3>1, <3>2 DEF Init
    <2>4. QED
      BY <2>2, <2>3, SomeSession
  <1>6. CauseInv
    BY <1>2 DEF CauseInv, Free
  <1>7. QED
    BY <1>1, <1>3, <1>4, <1>5, <1>6 DEF IInv

LEMMA Inductive == IInv /\ [Next]_vars => IInv'
  <1> SUFFICES ASSUME IInv, [Next]_vars PROVE IInv'
    OBVIOUS
  <1>1. TInv /\ OneByOne /\ TrialInv /\ LimitInv /\ CauseInv
    BY DEF IInv
  <1>2. CASE Next
    <2>1. TInv' /\ (Bystander \/ \E s \in Sessions : SessionEffect(s)) /\ LimitEffect
      BY <1>1, <1>2, Effects
    <2>2. OneByOne' /\ TrialInv' /\ LimitInv' /\ CauseInv'
      BY <1>1, <1>2, <2>1, OneByOneKept, TrialKept, LimitsKept, CauseKept
    <2>3. QED
      BY <2>1, <2>2 DEF IInv
  <1>3. CASE UNCHANGED vars
    <2>1. TInv'
      BY <1>1, <1>3 DEF TInv, TypeOK, Loaded, vars
    <2>2. OneByOne'
      BY <1>1, <1>3 DEF OneByOne, vars
    <2>3. TrialInv'
      BY <1>1, <1>3 DEF TrialInv, Used, Stale, vars
    <2>4. LimitInv'
      BY <1>1, <1>3 DEF LimitInv, Inserting, KindOf, vars
    <2>5. CauseInv'
      BY <1>1, <1>3 DEF CauseInv, Causeless, Free, vars
    <2>6. QED
      BY <2>1, <2>2, <2>3, <2>4, <2>5 DEF IInv
  <1>4. QED
    BY <1>2, <1>3

(* Whatever the gateway sends and however requests interleave, the state    *)
(* stays one that the invariants describe.                                  *)
THEOREM Invariance == Spec => []IInv
  BY Initially, Inductive, PTL DEF Spec

(* The row, the sessions and the gateway keep their types.                  *)
THEOREM TypeCorrect == Spec => []TypeOK
  <1>1. IInv => TypeOK
    BY DEF IInv, TInv
  <1>2. QED
    BY <1>1, Invariance, PTL

(* start_trial grants one trial while requests do not overlap, and never    *)
(* more than one for each request served at once, for any number of them.   *)
THEOREM TrialsLimited == Spec => []TrialsBounded
  <1>1. IInv => TrialsBounded
    <2> SUFFICES ASSUME IInv PROVE TrialsBounded
      OBVIOUS
    <2>1. Stale \in SUBSET Sessions /\ granted \in Nat /\ TrialInv
      BY DEF IInv, TInv, TypeOK, Stale
    <2>2. Cardinality(Stale) \in Nat
      BY <2>1, SetsOfSessions
    <2>3. granted <= Cardinality(Sessions)
      BY <2>1, <2>2, SomeSession DEF TrialInv
    <2>4. QED
      BY <2>1, <2>3 DEF TrialInv, TrialsBounded
  <1>2. QED
    BY <1>1, Invariance, PTL

(* check_account_limit and check_api_key_limit count before the insert: the *)
(* rows exceed the largest limit applied by less than the requests served   *)
(* at once, for any number of them and of rows.                             *)
THEOREM LimitsHeld == Spec => []LimitsBounded
  <1>1. IInv => LimitsBounded
    <2> SUFFICES ASSUME IInv, NEW k \in Kinds, top[k] # Unlimited
                 PROVE  rows[k] < top[k] + Cardinality(Sessions)
      BY DEF LimitsBounded
    <2>1. Inserting(k) \in SUBSET Sessions /\ rows[k] \in Nat
          /\ rows[k] + Cardinality(Inserting(k)) < top[k] + Cardinality(Sessions)
      BY DEF IInv, TInv, TypeOK, Inserting, LimitInv
    <2>2. Cardinality(Inserting(k)) \in Nat
      BY <2>1, SetsOfSessions
    <2>3. top[k] \in Nat
      <3>1. Unlimited \in Nat
        BY SMT DEF Unlimited
      <3>2. top[k] \in 0..Unlimited
        BY DEF IInv, TInv, TypeOK
      <3>3. QED
        BY <3>1, <3>2
    <2>4. QED
      BY <2>1, <2>2, <2>3, SomeSession
  <1>2. QED
    BY <1>1, Invariance, PTL

(* No order of webhooks, retries and requests entitles an organisation to a *)
(* paid plan that it did not buy, try or, in manual mode, choose.           *)
THEOREM PlansHaveCause == Spec => []PaidForCause
  <1>1. IInv => PaidForCause
    <2> SUFFICES ASSUME IInv, mode # "manual" /\ ~(granted > 0) /\ bought = <<>>
                 PROVE  Entitled = "free"
      BY DEF PaidForCause
    <2>0. Causeless
      BY DEF IInv, TInv, TypeOK, Causeless
    <2>1. Free(sub)
      BY <2>0 DEF IInv, CauseInv
    <2>2. QED
      BY <2>1 DEF Free, Entitled, plan_of, get_plan
  <1>2. QED
    BY <1>1, Invariance, PTL

----------------------------------------------------------------------------
(* The plan paid for. While no request overlaps another and webhooks are    *)
(* applied oldest first, the row follows the gateway's one subscription, or *)
(* an event is on its way that makes it, and every later one keeps it so.   *)

\* What delivering event e comes to: nothing, when no organisation is in it.
Applied(m, e, row) ==
  IF e.kind \notin Tagged(m) THEN row
  ELSE IF m = "razorpay" THEN handle_razorpay(e, row) ELSE handle_webhook(e, row)

\* The row is as Razorpay's subscription b: its plan, active, or not active.
\* With Stripe it is that of some paid plan, whatever became of b.
Follows(m, b, row) ==
  /\ row # NoRow
  /\ IF m = "razorpay"
     THEN IF b.status = "active" THEN row.status = "active" /\ row.plan = b.plan
          ELSE row.status # "active"
     ELSE row.status = "active" /\ row.plan \in PlanIds \ {"free"}

Settles(m, b, e) ==
  e.kind \in Tagged(m) /\ \A row \in Row : Follows(m, b, Applied(m, e, row))
Keeps(m, b, e) ==
  \A row \in Row : Follows(m, b, row) => Follows(m, b, Applied(m, e, row))

OnItsWay ==
  \/ Follows(mode, bought[1], sub) /\ \A f \in mail : Keeps(mode, bought[1], f)
  \/ \E e \in mail : /\ Settles(mode, bought[1], e)
                     /\ \A f \in mail : f.n > e.n => Keeps(mode, bought[1], f)

Following == orderly /\ Len(bought) = 1 => OnItsWay

\* Webhooks are numbered in the order they were sent.
MailOrdered ==
  orderly => /\ \A e \in mail : e.n <= sent
             /\ \A e, f \in mail : e.n = f.n => e = f

\* The webhook under way is the oldest.
InTurn ==
  orderly => \A s \in Sessions : sess[s].req.op = "webhook" =>
               /\ sess[s].pc # "idle"
               /\ sess[s].req.event \in mail /\ Oldest(sess[s].req.event)
               /\ sess[s].req.event.kind \in Tagged(mode)

\* The free plan is not for sale, and no gateway sells in manual mode.
Sold ==
  /\ mode = "manual" => offers = {} /\ bought = <<>>
  /\ "free" \notin offers
  /\ \A i \in DOMAIN bought : bought[i].plan # "free"
  /\ \A s \in Sessions : sess[s].req.op = "checkout" => sess[s].req.plan # "free"

SyncInv == MailOrdered /\ InTurn /\ Sold /\ Following

LEMMA CommitAlone ==
  ASSUME sub \in Row, NEW wanted \in Row
  PROVE  Commit(sub, wanted) = wanted
  BY DEF Commit, Row

LEMMA OneBought ==
  ASSUME TInv, Len(bought) = 1
  PROVE  1 \in DOMAIN bought /\ bought[1] \in Bought
  <1>1. bought \in Seq(Bought) /\ DOMAIN bought = 1..Len(bought)
    BY LenProperties DEF TInv, TypeOK
  <1>2. 1 \in 1..Len(bought)
    OBVIOUS
  <1>3. QED
    BY <1>1, <1>2, ElementOfSeq

\* Expiry and trials leave a row that follows a subscription following it.
LEMMA ExpiredFollows ==
  ASSUME NEW m, NEW b, NEW row \in Row, Follows(m, b, row), Lapsed(row)
  PROVE  Follows(m, b, Expired(row))
  BY SubscriptionAssumption, ExpiredTyped DEF Follows, Lapsed, Expired, Row

LEMMA Redelivered ==
  ASSUME NEW e \in Event, NEW m, NEW b
  PROVE  LET f == [e EXCEPT !.again = TRUE] IN
         /\ f.n = e.n /\ f \in Event
         /\ Settles(m, b, e) => Settles(m, b, f)
         /\ Keeps(m, b, e) => Keeps(m, b, f)
  <1> DEFINE f == [e EXCEPT !.again = TRUE]
  <1>1. /\ f.n = e.n /\ f.kind = e.kind /\ f.plan = e.plan /\ f.status = e.status
        /\ f \in Event
    BY DEF Event
  <1> HIDE DEF f
  <1>2. \A row \in Row : Applied(m, f, row) = Applied(m, e, row)
    BY <1>1 DEF Applied, handle_webhook, handle_razorpay
  <1>3. /\ Settles(m, b, e) => Settles(m, b, f)
        /\ Keeps(m, b, e) => Keeps(m, b, f)
    BY <1>1, <1>2 DEF Settles, Keeps
  <1>4. QED
    BY <1>1, <1>3 DEF f

\* The events that end what the gateway posts of a change, as far as the
\* handler can tell whom they are about.
Decisive(m, b, e) ==
  /\ e.plan = b.plan /\ e.status = b.status /\ b.plan # "free"
  /\ \/ m = "stripe" /\ e.kind = "checkout" /\ b.status = "active"
     \/ /\ m = "razorpay"
        /\ \/ e.kind = "activated" /\ b.status = "active"
           \/ e.kind = "halted" /\ b.status = "past_due"
           \/ e.kind = "cancelled" /\ b.status = "canceled"

LEMMA DecisiveSettles ==
  ASSUME NEW m, NEW b \in Bought, NEW e \in Event, Decisive(m, b, e)
  PROVE  Settles(m, b, e)
  <1>0. e.kind \in Tagged(m)
    BY DEF Decisive, Tagged, TaggedByStripe, TaggedByRazorpay
  <1> SUFFICES ASSUME NEW row \in Row PROVE Follows(m, b, Applied(m, e, row))
    BY <1>0 DEF Settles
  <1>1. e.plan \in PlanIds /\ e.status \in Statuses
    BY DEF Event
  <1>2. /\ change_plan(row, e.plan, "active") \in Row
        /\ change_plan(row, "free", "canceled") \in Row
        /\ [row EXCEPT !.status = "past_due"] \in Row
    BY <1>1 DEF change_plan, Row, PlanIds, Statuses
  <1>3. \A r \in Row : r # NoRow
    BY SubscriptionAssumption
  <1>4. /\ change_plan(row, e.plan, "active").status = "active"
        /\ change_plan(row, e.plan, "active").plan = e.plan
        /\ change_plan(row, "free", "canceled").status = "canceled"
        /\ [row EXCEPT !.status = "past_due"].status = "past_due"
    BY DEF change_plan, Row
  <1>5. CASE m = "stripe"
    <2>1. Applied(m, e, row) = change_plan(row, e.plan, "active")
      BY <1>0, <1>5 DEF Decisive, Applied, handle_webhook
    <2>2. QED
      BY <1>1, <1>2, <1>3, <1>4, <1>5, <2>1 DEF Decisive, Follows
  <1>6. CASE m = "razorpay"
    BY <1>0, <1>2, <1>3, <1>4, <1>6 DEF Decisive, Follows, Applied, handle_razorpay
  <1>7. QED
    BY <1>5, <1>6 DEF Decisive

\* An event without an organisation changes nothing.
LEMMA DroppedKeeps ==
  ASSUME NEW m, NEW b, NEW e, e.kind \notin Tagged(m)
  PROVE  Keeps(m, b, e) /\ ~Settles(m, b, e)
  BY DEF Keeps, Settles, Applied

----------------------------------------------------------------------------
(* A step of a session that applies no webhook. *)
LEMMA QuietSync ==
  ASSUME TInv, SyncInv, NEW s \in Sessions, Others(s),
         UNCHANGED <<mode, bought, mail, sent>>, orderly' => orderly,
         "free" \notin offers', mode = "manual" => offers' = offers,
         sess'[s].req.op = "webhook" => sess'[s].req = sess[s].req /\ sess'[s].pc # "idle",
         sess'[s].req.op = "checkout" => sess'[s].req.plan # "free",
         orderly /\ Len(bought) = 1 /\ Follows(mode, bought[1], sub)
           => Follows(mode, bought[1], sub')
  PROVE  SyncInv'
  <1>1. MailOrdered'
    BY DEF SyncInv, MailOrdered
  <1>2. InTurn'
    BY DEF SyncInv, InTurn, Others, Oldest
  <1>3. Sold'
    BY DEF SyncInv, Sold, Others
  <1>4. Following'
    BY DEF SyncInv, Following, OnItsWay
  <1>5. QED
    BY <1>1, <1>2, <1>3, <1>4 DEF SyncInv

\* What the gateway posts of a change ends in an event that settles the row.
LEMMA PostSync ==
  ASSUME TInv, SyncInv, UNCHANGED <<mode, sub, sess, orderly>>, Sold',
         NEW posted \in SUBSET Event, mail' = mail \cup posted,
         sent' \in Nat, sent <= sent',
         \A e \in posted : e.n > sent /\ e.n <= sent',
         \A e, f \in posted : e.n = f.n => e = f,
         Len(bought') = 1 =>
           \/ \E e \in posted :
                /\ Settles(mode, bought'[1], e)
                /\ \A f \in posted : f.n > e.n => Keeps(mode, bought'[1], f)
           \/ /\ mode = "stripe" /\ Len(bought) = 1
              /\ \A f \in posted : f.kind \notin Tagged(mode)
  PROVE  SyncInv'
  <1>1. /\ mail \subseteq Event /\ sent \in Nat
        /\ \A e \in Event : e.n \in Nat
        /\ orderly => \A e \in mail : e.n <= sent
    BY SubscriptionAssumption DEF TInv, TypeOK, Event, SyncInv, MailOrdered
  <1>2. MailOrdered'
    <2> SUFFICES ASSUME orderly
                 PROVE  /\ \A e \in mail' : e.n <= sent'
                        /\ \A e, f \in mail' : e.n = f.n => e = f
      BY DEF MailOrdered
    <2>1. \A e \in mail' : e.n <= sent'
      BY <1>1
    <2>2. ASSUME NEW e \in mail', NEW f \in mail', e.n = f.n PROVE e = f
      <3>1. CASE e \in mail /\ f \in mail
        BY <2>2, <3>1 DEF SyncInv, MailOrdered
      <3>2. CASE e \in posted /\ f \in posted
        BY <2>2, <3>2
      <3>3. CASE e \in mail /\ f \in posted
        BY <1>1, <2>2, <3>3
      <3>4. CASE e \in posted /\ f \in mail
        BY <1>1, <2>2, <3>4
      <3>5. QED
        BY <3>1, <3>2, <3>3, <3>4
    <2>3. QED
      BY <2>1, <2>2
  <1>3. InTurn'
    <2> SUFFICES ASSUME orderly, NEW s \in Sessions, sess[s].req.op = "webhook"
                 PROVE  /\ sess[s].pc # "idle"
                        /\ sess[s].req.event \in mail' /\ Oldest(sess[s].req.event)'
                        /\ sess[s].req.event.kind \in Tagged(mode)
      BY DEF InTurn, Oldest
    <2>1. PICK e : e = sess[s].req.event
      OBVIOUS
    <2>2. /\ sess[s].pc # "idle" /\ e \in mail /\ \A f \in mail : e.n <= f.n
          /\ e.kind \in Tagged(mode)
      BY <2>1 DEF SyncInv, InTurn, Oldest
    <2>3. \A f \in mail' : e.n <= f.n
      BY <1>1, <2>2
    <2>4. QED
      BY <2>1, <2>2, <2>3 DEF Oldest
  <1>4. Following'
    <2> SUFFICES ASSUME orderly, Len(bought') = 1 PROVE OnItsWay'
      BY DEF Following
    <2>1. PICK c : c = bought'[1]
      OBVIOUS
    <2>2. SUFFICES \/ Follows(mode, c, sub) /\ \A f \in mail' : Keeps(mode, c, f)
                   \/ \E g \in mail' : /\ Settles(mode, c, g)
                                       /\ \A f \in mail' : f.n > g.n => Keeps(mode, c, f)
      BY <2>1 DEF OnItsWay
    <2>3. ASSUME NEW e \in posted, Settles(mode, c, e),
                 \A f \in posted : f.n > e.n => Keeps(mode, c, f)
          PROVE  \E g \in mail' : /\ Settles(mode, c, g)
                                  /\ \A f \in mail' : f.n > g.n => Keeps(mode, c, f)
      <3>1. \A f \in mail : ~(f.n > e.n)
        BY <1>1
      <3>2. QED
        BY <2>3, <3>1
    <2>4. CASE /\ mode = "stripe" /\ Len(bought) = 1
               /\ \A f \in posted : f.kind \notin Tagged(mode)
      <3>1. PICK b : b = bought[1]
        OBVIOUS
      <3>2. \/ Follows(mode, b, sub) /\ \A f \in mail : Keeps(mode, b, f)
            \/ \E g \in mail : /\ Settles(mode, b, g)
                               /\ \A f \in mail : f.n > g.n => Keeps(mode, b, f)
        BY <2>4, <3>1 DEF SyncInv, Following, OnItsWay
      <3>3. /\ Follows(mode, b, sub) => Follows(mode, c, sub)
            /\ \A f : Settles(mode, b, f) => Settles(mode, c, f)
            /\ \A f : Keeps(mode, b, f) => Keeps(mode, c, f)
        BY <2>4 DEF Follows, Settles, Keeps
      <3>4. \A f \in posted : Keeps(mode, c, f)
        BY <2>4, DroppedKeeps
      <3>5. QED
        BY <3>2, <3>3, <3>4
    <2>5. QED
      BY <2>1, <2>3, <2>4
  <1>5. QED
    BY <1>2, <1>3, <1>4 DEF SyncInv

LEMMA RequestSync ==
  ASSUME TInv, SyncInv, NEW s \in Sessions, Request(s)
  PROVE  SyncInv'
  <1>1. PICK r \in Asked : Load(s, r)
    BY DEF Request
  <1>2. /\ r.op # "webhook"
        /\ r.op = "checkout" => r.plan # "free"
    BY DEF Asked, Req
  <1>3. Others(s) /\ UNCHANGED <<mode, sub>>
    BY RequestStep DEF Begins
  <1>4. sess'[s].req = r
    BY <1>1 DEF Load, TInv, TypeOK
  <1>5. /\ UNCHANGED <<bought, mail, sent, offers>>
        /\ orderly' => orderly
    BY DEF Request, gateway, TInv, TypeOK
  <1>6. "free" \notin offers'
    BY <1>5 DEF SyncInv, Sold
  <1>7. QED
    BY <1>2, <1>3, <1>4, <1>5, <1>6, QuietSync

\* The end of a handler, or its next step for the same request.
LEMMA WorkSync ==
  ASSUME TInv, SyncInv, NEW s \in Sessions, Others(s),
         UNCHANGED <<mode, orderly, gateway>>,
         (sess'[s].req = sess[s].req /\ sess'[s].pc # "idle") \/ sess'[s] = Idle,
         orderly /\ Len(bought) = 1 /\ Follows(mode, bought[1], sub)
           => Follows(mode, bought[1], sub')
  PROVE  SyncInv'
  <1>1. /\ UNCHANGED <<bought, mail, sent, offers>> /\ "free" \notin offers'
        /\ sess[s].req.op = "checkout" => sess[s].req.plan # "free"
    BY DEF gateway, SyncInv, Sold
  <1>2. /\ sess'[s].req.op = "webhook" => sess'[s].req = sess[s].req /\ sess'[s].pc # "idle"
        /\ sess'[s].req.op = "checkout" => sess'[s].req.plan # "free"
    BY <1>1, IdleTyped
  <1>3. QED
    BY <1>1, <1>2, QuietSync

LEMMA CreateRowSync ==
  ASSUME TInv, SyncInv, NEW s \in Sessions, CreateRow(s)
  PROVE  SyncInv'
  <1>1. /\ sess \in [Sessions -> Session] /\ sess[s] \in Session
        /\ UNCHANGED <<mode, orderly, gateway>>
    BY DEF CreateRow, TInv, TypeOK
  <1>2. CASE sub = NoRow
    <2>1. sess' = [sess EXCEPT ![s].pc = "loaded", ![s].seen = FreshRow]
      BY <1>2 DEF CreateRow
    <2>2. Others(s)
      BY <1>2, <2>1, CreateRowStep DEF Creates, Works
    <2>3. sess'[s].req = sess[s].req /\ sess'[s].pc # "idle"
      BY <1>1, <2>1 DEF Session
    <2>4. ~Follows(mode, bought[1], sub)
      BY <1>2 DEF Follows
    <2>5. QED
      BY <1>1, <2>2, <2>3, <2>4, WorkSync
  <1>3. CASE sub # NoRow
    <2>1. Done(s) /\ sub' = sub
      BY <1>3 DEF CreateRow
    <2>2. QED
      BY <1>1, <2>1, DoneTyped, WorkSync
  <1>4. QED
    BY <1>2, <1>3

LEMMA ResolvePlanSync ==
  ASSUME TInv, OneByOne, SyncInv, NEW s \in Sessions, ResolvePlan(s)
  PROVE  SyncInv'
  <1> DEFINE seen == sess[s].seen
  <1>1. /\ sess \in [Sessions -> Session] /\ sess[s] \in Session
        /\ UNCHANGED <<mode, orderly, gateway>>
        /\ sess[s].pc = "loaded" /\ sub \in Row /\ seen \in Row
    BY DEF ResolvePlan, At, TInv, TypeOK, Loaded
  <1>2. Others(s)
    BY ResolvePlanStep DEF Works
  <1>3. (sess'[s].req = sess[s].req /\ sess'[s].pc # "idle") \/ sess'[s] = Idle
    <2>1. CASE Done(s)
      BY <2>1, DoneTyped
    <2>2. CASE ~Done(s)
      BY <1>1, <2>2 DEF ResolvePlan, Session
    <2>3. QED
      BY <2>1, <2>2
  <1>4. ASSUME orderly, Follows(mode, bought[1], sub) PROVE Follows(mode, bought[1], sub')
    <2>1. seen = sub
      BY <1>1, <1>4 DEF OneByOne
    <2>2. CASE Lapsed(seen)
      <3>1. sub' = Expired(sub)
        BY <1>1, <2>1, <2>2, ExpiredTyped, CommitAlone DEF ResolvePlan
      <3>2. QED
        BY <1>1, <1>4, <2>1, <2>2, <3>1, ExpiredFollows
    <2>3. CASE ~Lapsed(seen)
      BY <1>4, <2>3 DEF ResolvePlan
    <2>4. QED
      BY <2>2, <2>3
  <1>5. QED
    BY <1>1, <1>2, <1>3, <1>4, WorkSync

LEMMA CheckLimitSync ==
  ASSUME TInv, SyncInv, NEW s \in Sessions, CheckLimit(s) \/ InsertRow(s)
  PROVE  SyncInv'
  <1>1. /\ sess \in [Sessions -> Session] /\ sess[s] \in Session
        /\ UNCHANGED <<mode, sub, orderly, gateway>>
    BY DEF CheckLimit, InsertRow, TInv, TypeOK
  <1>2. Others(s) /\ ((sess'[s].req = sess[s].req /\ sess'[s].pc # "idle") \/ sess'[s] = Idle)
    <2>1. CASE Done(s)
      BY <2>1, DoneTyped
    <2>2. CASE ~Done(s)
      BY <1>1, <2>2, CheckLimitStep DEF CheckLimit, InsertRow, Session, Works
    <2>3. QED
      BY <2>1, <2>2
  <1>3. QED
    BY <1>1, <1>2, WorkSync

LEMMA CheckFeatureSync ==
  ASSUME TInv, SyncInv, NEW s \in Sessions, CheckFeature(s)
  PROVE  SyncInv'
  <1>1. /\ sess \in [Sessions -> Session] /\ sess[s] \in Session
        /\ UNCHANGED <<mode, orderly, gateway>> /\ sub \in Row
    BY DEF CheckFeature, At, TInv, TypeOK, Loaded
  <1>2. Others(s)
    BY CheckFeatureStep DEF Works
  <1>3. (sess'[s].req = sess[s].req /\ sess'[s].pc # "idle") \/ sess'[s] = Idle
    <2>1. CASE Done(s)
      BY <2>1, DoneTyped
    <2>2. CASE ~Done(s)
      BY <1>1, <2>2 DEF CheckFeature, Session
    <2>3. QED
      BY <2>1, <2>2
  <1>4. ASSUME Follows(mode, bought[1], sub) PROVE Follows(mode, bought[1], sub')
    BY <1>1, <1>4, ExpiredFollows DEF CheckFeature
  <1>5. QED
    BY <1>1, <1>2, <1>3, <1>4, WorkSync

\* An organisation whose subscription is active is not eligible for a trial.
LEMMA StartTrialSync ==
  ASSUME TInv, OneByOne, SyncInv, NEW s \in Sessions, start_trial(s)
  PROVE  SyncInv'
  <1> DEFINE seen == sess[s].seen
             wanted == [seen EXCEPT !.plan = sess[s].req.plan, !.status = "trialing",
                                    !.trial_used = TRUE, !.trial_ends_at = clock]
  <1>1. /\ sess \in [Sessions -> Session] /\ sess[s] \in Session
        /\ UNCHANGED <<mode, orderly, gateway>> /\ Done(s)
        /\ sess[s].pc = "loaded" /\ sub \in Row /\ seen \in Row
        /\ sess[s].req.op = "trial" /\ clock \in 0..MaxClock
    BY DEF start_trial, Does, At, TInv, TypeOK, Loaded
  <1>2. Others(s) /\ sess'[s] = Idle
    BY <1>1, DoneTyped
  <1>3. ASSUME orderly, Len(bought) = 1, Follows(mode, bought[1], sub)
        PROVE  Follows(mode, bought[1], sub')
    <2>1. seen = sub
      BY <1>1, <1>3 DEF OneByOne
    <2>2. CASE ~Eligible(seen)
      BY <1>3, <2>2 DEF start_trial
    <2>3. CASE Eligible(seen)
      <3>1. bought[1].plan # "free"
        BY <1>3, OneBought DEF SyncInv, Sold
      <3>2. mode = "razorpay" /\ bought[1].status # "active"
        BY <1>3, <2>1, <2>3, <3>1 DEF Follows, Eligible
      <3>3. sess[s].req.plan \in TrialPlans
        BY <1>1 DEF Session
      <3>4. wanted \in Row /\ wanted.status = "trialing"
        BY <1>1, <3>3 DEF Row, Statuses
      <3>5. sub' = Commit(seen, wanted)
        BY <2>3 DEF start_trial
      <3> HIDE DEF wanted
      <3>6. sub' = wanted
        BY <1>1, <2>1, <3>4, <3>5, CommitAlone
      <3>7. QED
        BY <3>2, <3>4, <3>6, SubscriptionAssumption DEF Follows
    <2>4. QED
      BY <2>2, <2>3
  <1>4. QED
    BY <1>1, <1>2, <1>3, WorkSync

LEMMA CheckoutSync ==
  ASSUME TInv, OneByOne, SyncInv, NEW s \in Sessions, create_checkout(s)
  PROVE  SyncInv'
  <1> DEFINE seen == sess[s].seen
             plan == sess[s].req.plan
  <1>1. /\ sess[s].pc = "loaded" /\ sub \in Row /\ seen \in Row /\ Done(s)
        /\ UNCHANGED <<mode, orderly, bought, mail, sent>>
        /\ sub' = Commit(seen, AfterCheckout(seen, plan))
        /\ offers' = IF mode = "manual" THEN offers ELSE offers \cup {plan}
        /\ sess[s].req.op = "checkout"
    BY DEF create_checkout, Does, At, TInv, TypeOK, Loaded
  <1>2. Others(s) /\ sess'[s] = Idle
    BY <1>1, DoneTyped
  <1>3. "free" \notin offers' /\ (mode = "manual" => offers' = offers)
    BY <1>1 DEF SyncInv, Sold
  <1>4. ASSUME orderly, Len(bought) = 1 PROVE sub' = sub
    <2>1. seen = sub
      BY <1>1, <1>4 DEF OneByOne
    <2>2. mode # "manual"
      <3>1. 1 \in DOMAIN bought
        BY <1>4, OneBought
      <3>2. QED
        BY <3>1 DEF SyncInv, Sold
    <2>3. QED
      BY <1>1, <2>1, <2>2, CommitAlone DEF AfterCheckout
  <1>5. /\ sess'[s].req.op # "webhook" /\ sess'[s].req.op # "checkout"
    BY <1>2, IdleTyped
  <1>6. QED
    BY <1>1, <1>2, <1>3, <1>4, <1>5, QuietSync

LEMMA DeliverSync ==
  ASSUME TInv, SyncInv, NEW s \in Sessions, Deliver(s)
  PROVE  SyncInv'
  <1>1. PICK e \in mail :
          /\ \A t \in Sessions : sess[t].req.event # e
          /\ IF e.kind \in Tagged(mode)
             THEN /\ Load(s, Req("webhook", "free", e))
                  /\ orderly' = (orderly /\ AllIdle /\ Oldest(e))
                  /\ UNCHANGED mail
             ELSE /\ mail' = mail \ {e}
                  /\ UNCHANGED <<sess, orderly>>
          /\ UNCHANGED <<mode, sub, rows, clock, granted, top, offers, bought, sent>>
    BY DEF Deliver
  <1>2. CASE e.kind \in Tagged(mode)
    <2>1. /\ sess' = [sess EXCEPT ![s] =
               [pc |-> IF sub = NoRow THEN "create" ELSE "loaded",
                req |-> Req("webhook", "free", e), seen |-> sub, plan |-> "free"]]
          /\ orderly' = (orderly /\ AllIdle /\ Oldest(e))
          /\ UNCHANGED <<mail, mode, sub, offers, bought, sent>>
      BY <1>1, <1>2 DEF Load
    <2>2. /\ sess'[s].req = Req("webhook", "free", e)
          /\ \A t \in Sessions \ {s} : sess'[t] = sess[t]
      BY <2>1 DEF TInv, TypeOK
    <2>3. sess'[s].req.op = "webhook" /\ sess'[s].req.event = e /\ sess'[s].pc # "idle"
      BY <2>1, <2>2 DEF Req, TInv, TypeOK
    <2>4. MailOrdered' /\ Following'
      BY <2>1 DEF SyncInv, MailOrdered, Following, OnItsWay
    <2>5. Sold'
      BY <2>1, <2>2, <2>3 DEF SyncInv, Sold
    <2>6. InTurn'
      <3> SUFFICES ASSUME orderly', NEW t \in Sessions, sess'[t].req.op = "webhook"
                   PROVE  /\ sess'[t].pc # "idle" /\ sess'[t].req.event \in mail'
                          /\ \A f \in mail' : sess'[t].req.event.n <= f.n
                          /\ sess'[t].req.event.kind \in Tagged(mode')
        BY DEF InTurn, Oldest
      <3>1. AllIdle /\ Oldest(e) /\ orderly
        BY <2>1 DEF TInv, TypeOK
      <3>2. CASE t = s
        BY <1>2, <2>1, <2>3, <3>1, <3>2 DEF Oldest
      <3>3. CASE t # s
        BY <2>2, <3>1, <3>3, IdleTyped DEF AllIdle
      <3>4. QED
        BY <3>2, <3>3
    <2>7. QED
      BY <2>4, <2>5, <2>6 DEF SyncInv
  <1>3. CASE e.kind \notin Tagged(mode)
    <2>1. mail' = mail \ {e} /\ UNCHANGED <<mode, sub, sess, orderly, offers, bought, sent>>
      BY <1>1, <1>3
    <2>2. MailOrdered' /\ Sold'
      BY <2>1 DEF SyncInv, MailOrdered, Sold
    <2>3. InTurn'
      BY <1>1, <2>1 DEF SyncInv, InTurn, Oldest
    <2>4. Following'
      <3>1. ASSUME NEW b PROVE ~Settles(mode, b, e)
        BY <1>3, DroppedKeeps
      <3>2. QED
        BY <2>1, <3>1 DEF SyncInv, Following, OnItsWay
    <2>5. QED
      BY <2>2, <2>3, <2>4 DEF SyncInv
  <1>4. QED
    BY <1>2, <1>3

LEMMA ApplyWebhookSync ==
  ASSUME TInv, OneByOne, SyncInv, NEW s \in Sessions, ApplyWebhook(s)
  PROVE  SyncInv'
  <1> DEFINE seen == sess[s].seen
  <1>1. PICK e : e = sess[s].req.event
    OBVIOUS
  <1> DEFINE again == [e EXCEPT !.again = TRUE]
  <1>2. /\ sess[s].pc = "loaded" /\ sub \in Row /\ seen \in Row /\ Done(s) /\ e \in Event
        /\ UNCHANGED <<mode, orderly, offers, bought, sent>>
        /\ sub' = Commit(seen, Handled(e, seen))
        /\ sess[s].req.op = "webhook"
        /\ mail' = mail \ {e} \/ mail' = (mail \ {e}) \cup {again}
    BY <1>1 DEF ApplyWebhook, Does, At, TInv, Loaded
  <1>3. /\ again.n = e.n /\ again \in Event
        /\ \A m, b : Settles(m, b, e) => Settles(m, b, again)
        /\ \A m, b : Keeps(m, b, e) => Keeps(m, b, again)
    BY <1>2, Redelivered
  <1> HIDE DEF again
  <1>4. /\ Others(s) /\ sess'[s] = Idle
        /\ sess'[s].req.op # "webhook" /\ sess'[s].req.op # "checkout"
    BY <1>2, DoneTyped, IdleTyped
  <1>5. Sold'
    BY <1>2, <1>4 DEF SyncInv, Sold, Others
  <1>6. ASSUME orderly
        PROVE  /\ e \in mail /\ \A f \in mail : e.n <= f.n
               /\ sub' = Applied(mode, e, sub)
               /\ \A t \in Sessions \ {s} : sess[t].req.op # "webhook"
    <2>1. e \in mail /\ (\A f \in mail : e.n <= f.n) /\ e.kind \in Tagged(mode)
      BY <1>1, <1>2, <1>6 DEF SyncInv, InTurn, Oldest
    <2>2. seen = sub
      BY <1>2, <1>6 DEF OneByOne
    <2>3. Handled(e, sub) \in Row
      BY <1>2, HandledTyped
    <2>4. sub' = Handled(e, sub)
      BY <1>2, <2>2, <2>3, CommitAlone
    <2>5. ASSUME NEW t \in Sessions \ {s}, sess[t].req.op = "webhook" PROVE FALSE
      <3>1. sess[t].pc # "idle"
        BY <1>6, <2>5 DEF SyncInv, InTurn
      <3>2. sess[t].pc = "idle"
        BY <1>2, <1>6 DEF OneByOne
      <3>3. QED
        BY <3>1, <3>2
    <2>6. QED
      BY <2>1, <2>4, <2>5 DEF Handled, Applied
  <1>7. InTurn'
    BY <1>2, <1>4, <1>6 DEF InTurn, Others
  <1>8. /\ \A f \in Event : f.n \in Nat
        /\ mail \subseteq Event
        /\ \A f \in mail' : f = again \/ (f \in mail /\ f # e)
        /\ orderly => \A f \in mail : f.n <= sent
        /\ orderly => \A f, g \in mail : f.n = g.n => f = g
    <2>1. MailOrdered
      BY DEF SyncInv
    <2>2. \A f \in Event : f.n \in Nat
      BY SubscriptionAssumption DEF Event
    <2>3. \A f \in mail' : f = again \/ (f \in mail /\ f # e)
      BY <1>2
    <2>4. mail \subseteq Event
      BY DEF TInv, TypeOK
    <2>5. /\ orderly => \A f \in mail : f.n <= sent
          /\ orderly => \A f, g \in mail : f.n = g.n => f = g
      BY <2>1 DEF MailOrdered
    <2>6. QED
      BY <2>2, <2>3, <2>4, <2>5
  <1>9. MailOrdered'
    <2> SUFFICES ASSUME orderly
                 PROVE  /\ \A f \in mail' : f.n <= sent
                        /\ \A f, g \in mail' : f.n = g.n => f = g
      BY <1>2 DEF MailOrdered
    <2>1. e \in mail
      BY <1>6
    <2>2. QED
      BY <1>3, <1>8, <2>1
  <1>10. Following'
    <2> SUFFICES ASSUME orderly, Len(bought) = 1 PROVE OnItsWay'
      BY <1>2 DEF Following
    <2>1. OnItsWay /\ e \in mail /\ sub' = Applied(mode, e, sub)
      BY <1>6 DEF SyncInv, Following
    <2>2. PICK b : b = bought[1]
      OBVIOUS
    <2>3. SUFFICES \/ Follows(mode, b, sub') /\ \A f \in mail' : Keeps(mode, b, f)
                   \/ \E g \in mail' : /\ Settles(mode, b, g)
                                       /\ \A f \in mail' : f.n > g.n => Keeps(mode, b, f)
      BY <1>2, <2>2 DEF OnItsWay
    <2>4. CASE Follows(mode, b, sub) /\ \A f \in mail : Keeps(mode, b, f)
      <3>1. Follows(mode, b, sub')
        BY <1>2, <2>1, <2>4 DEF Keeps
      <3>2. \A f \in mail' : Keeps(mode, b, f)
        BY <1>3, <1>8, <2>1, <2>4
      <3>3. QED
        BY <3>1, <3>2
    <2>5. ASSUME NEW g \in mail, Settles(mode, b, g),
                 \A f \in mail : f.n > g.n => Keeps(mode, b, f)
          PROVE  \/ Follows(mode, b, sub') /\ \A f \in mail' : Keeps(mode, b, f)
                 \/ \E h \in mail' : /\ Settles(mode, b, h)
                                     /\ \A f \in mail' : f.n > h.n => Keeps(mode, b, f)
      <3>1. \A f \in mail \ {e} : f.n > e.n
        BY <1>6, <1>8, <2>1
      <3>2. CASE g = e
        <4>1. Follows(mode, b, sub')
          BY <1>2, <2>1, <2>5, <3>2 DEF Settles
        <4>2. \A f \in mail' : f # again => Keeps(mode, b, f)
          BY <1>8, <2>5, <3>1, <3>2
        <4>3. CASE again \in mail'
          <5>1. Settles(mode, b, again)
            BY <1>3, <2>5, <3>2
          <5>2. again.n \in Nat
            BY <1>3, <1>8
          <5>3. \A f \in mail' : f.n > again.n => f # again
            BY <5>2
          <5>4. QED
            BY <4>2, <4>3, <5>1, <5>3
        <4>4. CASE again \notin mail'
          BY <4>1, <4>2, <4>4
        <4>5. QED
          BY <4>3, <4>4
      <3>3. CASE g # e
        <4>1. g \in mail'
          BY <1>2, <3>3
        <4>2. g.n > e.n /\ e.n \in Nat /\ g.n \in Nat
          BY <1>8, <2>1, <3>1, <3>3
        <4>3. \A f \in mail' : f.n > g.n => Keeps(mode, b, f)
          BY <1>3, <1>8, <2>5, <4>2
        <4>4. QED
          BY <2>5, <4>1, <4>3
      <3>4. QED
        BY <3>2, <3>3
    <2>6. QED
      BY <2>1, <2>2, <2>4, <2>5 DEF OnItsWay
  <1>11. QED
    BY <1>5, <1>7, <1>9, <1>10 DEF SyncInv

\* Removals and time touch neither the gateway nor the sessions.
LEMMA BystanderSync ==
  ASSUME SyncInv, UNCHANGED <<mode, sub, sess, orderly, gateway>>
  PROVE  SyncInv'
  BY DEF SyncInv, MailOrdered, InTurn, Sold, Following, OnItsWay, Oldest, gateway

\* What is bought changes, and the gateway posts what it has to say of it.
LEMMA GatewaySync ==
  ASSUME TInv, TInv', SyncInv, NEW i \in Nat \ {0}, NEW stripe \in Seq(EventKinds),
         NEW razorpay \in Seq(EventKinds), Post(i, stripe, razorpay), Sold',
         bought' \in Seq(Bought), i <= Len(bought'), mode # "manual",
         Len(bought') = 1 =>
           LET kinds == IF mode = "stripe" THEN stripe ELSE razorpay
               e(k) == Note(k, kinds[k], i) IN
           \/ \E k \in DOMAIN kinds :
                /\ Decisive(mode, bought'[1], e(k))
                /\ \A j \in DOMAIN kinds : j > k => Keeps(mode, bought'[1], e(j))
           \/ /\ mode = "stripe" /\ Len(bought) = 1
              /\ \A k \in DOMAIN kinds : kinds[k] \notin Tagged(mode)
  PROVE  SyncInv'
  <1> DEFINE ks == IF mode = "stripe" THEN stripe ELSE razorpay
  <1>1. PICK kinds : kinds = ks
    OBVIOUS
  <1>2. kinds \in Seq(EventKinds)
    BY <1>1
  <1>3. /\ sent + Len(kinds) <= MaxEvents /\ sent' = sent + Len(kinds)
        /\ mail' = mail \cup {Note(k, kinds[k], i) : k \in DOMAIN kinds}
        /\ UNCHANGED <<mode, sub, sess, orderly>>
    BY <1>1 DEF Post
  <1>4. Len(kinds) \in Nat /\ DOMAIN kinds = 1..Len(kinds) /\ sent \in Nat
    BY <1>2, LenProperties DEF TInv, TypeOK
  <1>5. PICK note : note = [k \in DOMAIN kinds |-> Note(k, kinds[k], i)]
    OBVIOUS
  <1>6. /\ \A k \in DOMAIN kinds : note[k] = Note(k, kinds[k], i) /\ note[k].n = sent + k
        /\ mail' = mail \cup {note[k] : k \in DOMAIN kinds}
    BY <1>3, <1>5 DEF Note
  <1>7. PICK posted : posted = {note[k] : k \in DOMAIN kinds}
    OBVIOUS
  <1>8. mail' = mail \cup posted /\ posted \in SUBSET Event
    BY <1>6, <1>7 DEF TInv, TypeOK
  <1>9. /\ sent' \in Nat /\ sent <= sent'
        /\ \A e \in posted : e.n > sent /\ e.n <= sent'
        /\ \A e, f \in posted : e.n = f.n => e = f
    BY <1>3, <1>4, <1>6, <1>7
  <1>10. ASSUME NEW k \in DOMAIN kinds, Len(bought') = 1,
                Decisive(mode, bought'[1], note[k]),
                \A j \in DOMAIN kinds : j > k => Keeps(mode, bought'[1], note[j])
         PROVE  \E e \in posted :
                  /\ Settles(mode, bought'[1], e)
                  /\ \A f \in posted : f.n > e.n => Keeps(mode, bought'[1], f)
    <2>1. PICK b : b = bought'[1]
      OBVIOUS
    <2>2. b \in Bought
      <3>1. 1 \in 1..Len(bought')
        BY <1>10
      <3>2. QED
        BY <2>1, <3>1, ElementOfSeq
    <2>3. note[k] \in Event /\ note[k] \in posted
      BY <1>7, <1>8
    <2>4. Settles(mode, b, note[k])
      BY <1>10, <2>1, <2>2, <2>3, DecisiveSettles
    <2>5. \A f \in posted : f.n > note[k].n => Keeps(mode, b, f)
      BY <1>4, <1>6, <1>7, <1>10, <2>1
    <2>6. QED
      BY <2>1, <2>3, <2>4, <2>5
  <1>11. ASSUME \A k \in DOMAIN kinds : kinds[k] \notin Tagged(mode)
         PROVE  \A f \in posted : f.kind \notin Tagged(mode)
    <2>1. ASSUME NEW k \in DOMAIN kinds PROVE note[k].kind = kinds[k]
      <3>1. PICK kind : kind = kinds[k]
        OBVIOUS
      <3>2. Note(k, kind, i).kind = kind
        BY DEF Note
      <3>3. QED
        BY <1>6, <3>1, <3>2
    <2>2. QED
      BY <1>7, <1>11, <2>1
  <1>12. Len(bought') = 1 =>
           \/ \E e \in posted :
                /\ Settles(mode, bought'[1], e)
                /\ \A f \in posted : f.n > e.n => Keeps(mode, bought'[1], f)
           \/ /\ mode = "stripe" /\ Len(bought) = 1
              /\ \A f \in posted : f.kind \notin Tagged(mode)
    BY <1>1, <1>6, <1>10, <1>11
  <1>13. QED
    BY <1>3, <1>8, <1>9, <1>12, PostSync

LEMMA PaySync ==
  ASSUME TInv, TInv', SyncInv, Pay
  PROVE  SyncInv'
  <1>1. PICK p \in offers :
          /\ bought' = Append(bought, [plan |-> p, status |-> "active"])
          /\ offers' = offers \ {p}
          /\ Post(Len(bought) + 1, <<"checkout", "paid">>, <<"activated">>)
    BY DEF Pay
  <1>2. /\ bought \in Seq(Bought) /\ offers \subseteq PlanIds
        /\ mode # "manual" /\ p # "free" /\ mode \in {"manual", "stripe", "razorpay"}
    BY DEF TInv, TypeOK, SyncInv, Sold
  <1>3. PICK b : b = [plan |-> p, status |-> "active"]
    OBVIOUS
  <1>4. b \in Bought /\ b.plan = p /\ b.status = "active"
    BY <1>2, <1>3 DEF Bought, Statuses
  <1>5. PICK i : i = Len(bought) + 1
    OBVIOUS
  <1>6. /\ bought' \in Seq(Bought) /\ Len(bought') = i /\ i \in Nat \ {0}
        /\ bought'[i] = b /\ \A j \in 1..Len(bought) : bought'[j] = bought[j]
    BY <1>1, <1>2, <1>3, <1>4, <1>5, AppendProperties, LenProperties
  <1>7. Sold'
    <2>1. \A j \in DOMAIN bought' : bought'[j].plan # "free"
      <3> SUFFICES ASSUME NEW j \in 1..i PROVE bought'[j].plan # "free"
        BY <1>6, LenProperties
      <3>1. CASE j = i
        BY <1>2, <1>4, <1>6, <3>1
      <3>2. CASE j # i
        BY <1>2, <1>5, <1>6, <3>2, LenProperties DEF SyncInv, Sold
      <3>3. QED
        BY <3>1, <3>2
    <2>2. UNCHANGED <<mode, sess>>
      BY <1>1 DEF Post
    <2>3. QED
      BY <1>1, <1>2, <2>1, <2>2 DEF SyncInv, Sold
  <1>8. Post(i, <<"checkout", "paid">>, <<"activated">>)
    BY <1>1, <1>5
  <1> DEFINE kinds == IF mode = "stripe" THEN <<"checkout", "paid">> ELSE <<"activated">>
             e(k) == Note(k, kinds[k], i)
  <1>9. ASSUME Len(bought') = 1
        PROVE  \E k \in DOMAIN kinds :
                 /\ Decisive(mode, bought'[1], e(k))
                 /\ \A j \in DOMAIN kinds : j > k => Keeps(mode, bought'[1], e(j))
    <2>1. i = 1 /\ bought'[1] = b
      BY <1>6, <1>9
    <2>2. \A k : /\ e(k).plan = b.plan /\ e(k).status = b.status /\ e(k).kind = kinds[k]
      BY <1>6 DEF Note
    <2>3. CASE mode = "stripe"
      <3>1. kinds[1] = "checkout" /\ kinds[2] = "paid" /\ DOMAIN kinds = {1, 2}
        BY <2>3
      <3>2. Decisive(mode, b, e(1))
        BY <1>2, <1>4, <2>2, <2>3, <3>1 DEF Decisive
      <3>3. e(2).kind \notin Tagged(mode)
        BY <2>2, <2>3, <3>1 DEF Tagged, TaggedByStripe
      <3> HIDE DEF e, kinds
      <3>4. Keeps(mode, b, e(2))
        BY <3>3, DroppedKeeps
      <3>5. QED
        BY <2>1, <3>1, <3>2, <3>4
    <2>4. CASE mode = "razorpay"
      <3>1. kinds[1] = "activated" /\ DOMAIN kinds = {1}
        BY <2>4
      <3>2. Decisive(mode, b, e(1))
        BY <1>2, <1>4, <2>2, <2>4, <3>1 DEF Decisive
      <3> HIDE DEF e, kinds
      <3>3. QED
        BY <2>1, <3>1, <3>2
    <2>5. QED
      BY <1>2, <2>3, <2>4
  <1>10. i <= Len(bought')
    BY <1>6
  <1> HIDE DEF e
  <1>11. QED
    BY <1>2, <1>6, <1>7, <1>8, <1>9, <1>10, Posts, GatewaySync DEF e

\* One subscription at the gateway becomes b. Razorpay's event tells it;
\* those of Stripe do not tell of whom.
LEMMA ChangeSync ==
  ASSUME TInv, TInv', SyncInv, NEW i \in DOMAIN bought, NEW b \in Bought,
         b.plan # "free", bought' = [bought EXCEPT ![i] = b], UNCHANGED offers,
         NEW stripe \in Seq(EventKinds), NEW razorpay \in Seq(EventKinds),
         Post(i, stripe, razorpay),
         \A k \in DOMAIN stripe : stripe[k] \notin TaggedByStripe,
         mode = "razorpay" =>
           /\ Len(razorpay) = 1
           /\ \A e : (e.plan = b.plan /\ e.status = b.status /\ e.kind = razorpay[1])
                       => Decisive(mode, b, e)
  PROVE  SyncInv'
  <1>1. /\ bought \in Seq(Bought) /\ Len(bought) \in Nat /\ i \in 1..Len(bought)
        /\ DOMAIN bought = 1..Len(bought)
    BY LenProperties DEF TInv, TypeOK
  <1>2. /\ bought' \in Seq(Bought) /\ Len(bought') = Len(bought)
        /\ bought'[i] = b /\ \A j \in DOMAIN bought \ {i} : bought'[j] = bought[j]
        /\ DOMAIN bought' = DOMAIN bought
    BY <1>1, ExceptSeq
  <1>3. mode # "manual" /\ mode \in {"manual", "stripe", "razorpay"}
    BY <1>1 DEF SyncInv, Sold, TInv, TypeOK
  <1>4. Sold'
    <2>1. UNCHANGED <<mode, sess>>
      BY DEF Post
    <2>2. \A j \in DOMAIN bought' : bought'[j].plan # "free"
      BY <1>2 DEF SyncInv, Sold
    <2>3. QED
      BY <1>3, <2>1, <2>2 DEF SyncInv, Sold
  <1> DEFINE kinds == IF mode = "stripe" THEN stripe ELSE razorpay
             e(k) == Note(k, kinds[k], i)
  <1>5. CASE mode = "stripe"
    <2>1. \A k \in DOMAIN kinds : kinds[k] \notin Tagged(mode)
      BY <1>5 DEF Tagged
    <2> HIDE DEF kinds
    <2>2. i \in Nat \ {0} /\ i <= Len(bought')
      BY <1>1, <1>2
    <2>3. QED
      BY <1>2, <1>3, <1>4, <1>5, <2>1, <2>2, GatewaySync DEF kinds
  <1>6. CASE mode = "razorpay"
    <2>1. 1 \in DOMAIN kinds /\ \A j \in DOMAIN kinds : ~(j > 1)
      BY <1>6, LenProperties
    <2>2. ASSUME Len(bought') = 1 PROVE Decisive(mode, bought'[1], e(1))
      <3>1. bought'[1] = b
        BY <1>1, <1>2, <2>2
      <3>2. e(1).plan = b.plan /\ e(1).status = b.status /\ e(1).kind = razorpay[1]
        BY <1>2, <1>6 DEF Note
      <3>3. QED
        BY <1>6, <3>1, <3>2
    <2> HIDE DEF e, kinds
    <2>3. Len(bought') = 1 =>
            \E k \in DOMAIN kinds :
              /\ Decisive(mode, bought'[1], e(k))
              /\ \A j \in DOMAIN kinds : j > k => Keeps(mode, bought'[1], e(j))
      BY <2>1, <2>2
    <2>4. i \in Nat \ {0} /\ i <= Len(bought')
      BY <1>1, <1>2
    <2>5. QED
      BY <1>2, <1>3, <1>4, <2>3, <2>4, GatewaySync DEF e, kinds
  <1>7. QED
    BY <1>3, <1>5, <1>6

\* What a change of status comes to.
LEMMA StatusSync ==
  ASSUME TInv, TInv', SyncInv, NEW i \in DOMAIN bought, NEW st \in Statuses,
         bought' = [bought EXCEPT ![i].status = st], UNCHANGED offers,
         NEW stripe \in Seq(EventKinds), NEW razorpay \in Seq(EventKinds),
         Post(i, stripe, razorpay),
         \A k \in DOMAIN stripe : stripe[k] \notin TaggedByStripe,
         Len(razorpay) = 1,
         \/ razorpay[1] = "activated" /\ st = "active"
         \/ razorpay[1] = "halted" /\ st = "past_due"
         \/ razorpay[1] = "cancelled" /\ st = "canceled"
  PROVE  SyncInv'
  <1>1. bought[i] \in Bought /\ bought[i].plan # "free"
    BY BoughtParts DEF SyncInv, Sold
  <1>2. PICK b : b = [bought[i] EXCEPT !.status = st]
    OBVIOUS
  <1>3. b \in Bought /\ b.plan # "free" /\ b.status = st /\ bought' = [bought EXCEPT ![i] = b]
    BY <1>1, <1>2, BoughtParts DEF Bought
  <1>4. ASSUME mode = "razorpay"
        PROVE  \A e : (e.plan = b.plan /\ e.status = b.status /\ e.kind = razorpay[1])
                        => Decisive(mode, b, e)
    BY <1>3, <1>4 DEF Decisive
  <1>5. QED
    BY <1>3, <1>4, ChangeSync

LEMMA SubscriptionChangeSync ==
  ASSUME TInv, TInv', SyncInv, NEW i \in DOMAIN bought,
         SwitchPlan(i) \/ PaymentFails(i) \/ PaymentRecovers(i) \/ Cancel(i)
  PROVE  SyncInv'
  <1>1. PICK updated, failed, paid, deleted, none, halted, activated, cancelled :
          /\ updated = <<"updated">> /\ failed = <<"failed", "updated">>
          /\ paid = <<"paid", "updated">> /\ deleted = <<"deleted">> /\ none = <<>>
          /\ halted = <<"halted">> /\ activated = <<"activated">>
          /\ cancelled = <<"cancelled">>
    OBVIOUS
  <1>2. \A ks \in {updated, failed, paid, deleted, none, halted, activated, cancelled} :
          ks \in Seq(EventKinds)
    BY <1>1, Posts
  <1>3. \A ks \in {updated, failed, paid, deleted} :
          \A k \in DOMAIN ks : ks[k] \notin TaggedByStripe
    BY <1>1 DEF TaggedByStripe
  <1>4. CASE SwitchPlan(i)
    <2>1. PICK p \in {"starter", "pro"} :
            /\ mode = "stripe" /\ bought' = [bought EXCEPT ![i].plan = p]
            /\ Post(i, updated, none) /\ UNCHANGED offers
      BY <1>1, <1>4 DEF SwitchPlan
    <2>2. PICK b : b = [bought[i] EXCEPT !.plan = p]
      OBVIOUS
    <2>3. p \in PlanIds /\ p # "free"
      BY DEF PlanIds
    <2>4. b \in Bought /\ b.plan = p /\ bought' = [bought EXCEPT ![i] = b]
      BY <2>1, <2>2, <2>3, BoughtParts DEF Bought
    <2>5. QED
      BY <1>2, <1>3, <2>1, <2>3, <2>4, ChangeSync
  <1>5. CASE PaymentFails(i)
    <2>1. /\ bought' = [bought EXCEPT ![i].status = "past_due"] /\ UNCHANGED offers
          /\ Post(i, failed, halted)
      BY <1>1, <1>5 DEF PaymentFails
    <2>2. "past_due" \in Statuses /\ Len(halted) = 1 /\ halted[1] = "halted"
      BY <1>1 DEF Statuses
    <2>3. QED
      BY <1>2, <1>3, <2>1, <2>2, StatusSync
  <1>6. CASE PaymentRecovers(i)
    <2>1. /\ bought' = [bought EXCEPT ![i].status = "active"] /\ UNCHANGED offers
          /\ Post(i, paid, activated)
      BY <1>1, <1>6 DEF PaymentRecovers
    <2>2. "active" \in Statuses /\ Len(activated) = 1 /\ activated[1] = "activated"
      BY <1>1 DEF Statuses
    <2>3. QED
      BY <1>2, <1>3, <2>1, <2>2, StatusSync
  <1>7. CASE Cancel(i)
    <2>1. /\ bought' = [bought EXCEPT ![i].status = "canceled"] /\ UNCHANGED offers
          /\ Post(i, deleted, cancelled)
      BY <1>1, <1>7 DEF Cancel
    <2>2. "canceled" \in Statuses /\ Len(cancelled) = 1 /\ cancelled[1] = "cancelled"
      BY <1>1 DEF Statuses
    <2>3. QED
      BY <1>2, <1>3, <2>1, <2>2, StatusSync
  <1>8. QED
    BY <1>4, <1>5, <1>6, <1>7

LEMMA SyncInitially == Init => SyncInv
  <1> SUFFICES ASSUME Init PROVE SyncInv
    OBVIOUS
  <1>1. /\ mail = {} /\ offers = {} /\ bought = <<>>
        /\ \A s \in Sessions : sess[s].req.op = "none"
    BY IdleTyped DEF Init
  <1>2. QED
    BY <1>1 DEF SyncInv, MailOrdered, InTurn, Sold, Following

LEMMA SyncInductive == IInv /\ IInv' /\ SyncInv /\ [Next]_vars => SyncInv'
  <1> SUFFICES ASSUME IInv, IInv', SyncInv, [Next]_vars PROVE SyncInv'
    OBVIOUS
  <1>1. TInv /\ TInv' /\ OneByOne
    BY DEF IInv
  <1>2. ASSUME NEW s \in Sessions, Request(s) \/ Deliver(s) \/ Handle(s)
        PROVE  SyncInv'
    BY <1>1, <1>2, RequestSync, DeliverSync, CreateRowSync, ResolvePlanSync, CheckLimitSync,
       CheckFeatureSync, StartTrialSync, CheckoutSync, ApplyWebhookSync DEF Handle
  <1>3. ASSUME NEW k \in Kinds, RemoveRow(k) PROVE SyncInv'
    BY <1>3, BystanderSync DEF RemoveRow
  <1>4. CASE Tick
    BY <1>4, BystanderSync DEF Tick
  <1>5. CASE Pay
    BY <1>1, <1>5, PaySync
  <1>6. ASSUME NEW i \in DOMAIN bought,
               SwitchPlan(i) \/ PaymentFails(i) \/ PaymentRecovers(i) \/ Cancel(i)
        PROVE  SyncInv'
    BY <1>1, <1>6, SubscriptionChangeSync
  <1>7. CASE UNCHANGED vars
    BY <1>7, BystanderSync DEF vars, gateway
  <1>8. QED
    BY <1>2, <1>3, <1>4, <1>5, <1>6, <1>7 DEF Next

(* The auxiliary invariant of the two theorems that follow.                  *)
THEOREM SyncInvariance == Spec => []SyncInv
  BY SyncInitially, SyncInductive, Invariance, PTL DEF Spec

\* With every event applied, the row follows the subscription.
LEMMA QuietFollows ==
  ASSUME IInv, SyncInv, orderly, Quiet, Len(bought) = 1
  PROVE  Follows(mode, bought[1], sub) /\ bought[1] \in Bought /\ sub \in Row
  <1>1. TInv /\ mail = {}
    BY DEF IInv, Quiet
  <1>2. Follows(mode, bought[1], sub)
    BY <1>1 DEF SyncInv, Following, OnItsWay
  <1>3. QED
    BY <1>1, <1>2, OneBought DEF TInv, TypeOK, Follows

(* In Razorpay mode, once every event is applied, oldest first and with no   *)
(* request in between, the organisation has the plan it pays for.            *)
THEOREM PlansStayInSync == Spec => []InSync
  <1>1. IInv /\ SyncInv => InSync
    <2> SUFFICES ASSUME IInv, SyncInv, mode = "razorpay", orderly, Quiet, Len(bought) = 1
                 PROVE  \/ Entitled = Charged
                        \/ Charged = "free" /\ sub.status = "trialing"
      BY DEF InSync
    <2>1. Follows("razorpay", bought[1], sub) /\ bought[1] \in Bought /\ sub \in Row
      BY QuietFollows
    <2>2. CASE bought[1].status = "active"
      <3>1. sub.status = "active" /\ sub.plan = bought[1].plan /\ sub # NoRow
        BY <2>1, <2>2 DEF Follows
      <3>2. Entitled = bought[1].plan
        BY <2>1, <3>1 DEF Entitled, plan_of, Lapsed, get_plan, Bought
      <3>3. QED
        BY <2>2, <3>2 DEF Charged
    <2>3. CASE bought[1].status # "active"
      <3>1. sub.status # "active" /\ sub # NoRow
        BY <2>1, <2>3 DEF Follows
      <3>2. Charged = "free"
        BY <2>3 DEF Charged
      <3>3. CASE sub.status = "trialing"
        BY <3>2, <3>3
      <3>4. CASE sub.status # "trialing"
        BY <3>1, <3>2, <3>4 DEF Entitled, plan_of
      <3>5. QED
        BY <3>3, <3>4
    <2>4. QED
      BY <2>2, <2>3
  <1>2. QED
    BY <1>1, Invariance, SyncInvariance, PTL

(* In every mode, Stripe's with its unrecognised events included: whoever    *)
(* pays is not left on the free plan, if the purchase was applied alone.     *)
THEOREM PayersServed == Spec => []PaidIsServed
  <1>1. IInv /\ SyncInv => PaidIsServed
    <2> SUFFICES ASSUME IInv, SyncInv, orderly, Quiet, Len(bought) = 1, Charged # "free"
                 PROVE  Entitled # "free"
      BY DEF PaidIsServed
    <2>1. Follows(mode, bought[1], sub) /\ bought[1] \in Bought /\ sub \in Row
      BY QuietFollows
    <2>2. bought[1].status = "active" /\ bought[1].plan # "free"
      BY DEF Charged
    <2>3. sub # NoRow /\ sub.status = "active" /\ sub.plan \in PlanIds \ {"free"}
      BY <2>1, <2>2 DEF Follows, Bought
    <2>4. QED
      BY <2>3 DEF Entitled, plan_of, Lapsed, get_plan
  <1>2. QED
    BY <1>1, Invariance, SyncInvariance, PTL

=============================================================================
