---------------------------- MODULE Subscription ----------------------------
(* One organisation's row in cspm_subscriptions: requests that resolve its   *)
(* plan (entitlements.py), trials, checkouts, and the webhooks of the        *)
(* payment gateway (stripe_gateway.py, razorpay_gateway.py), which arrive    *)
(* late, twice and in any order. A session loads the row, then writes back   *)
(* the columns it changed: SQLAlchemy's UPDATE names no other column.        *)
EXTENDS Integers, FiniteSets, Sequences

CONSTANTS
  Sessions,     \* database sessions: requests served at once
  Modes,        \* values of CSPM_BILLING_MODE to consider
  Repeated,     \* event kinds whose acknowledgement may be lost
  Requests,     \* operations the instance explores, by mode
  TrialPlans,   \* plans asked for by POST /billing/trial
  Offered,      \* plans asked for by POST /billing/checkout
  NoRow,        \* no subscription row yet
  MaxClock,     \* bound: trial periods that pass
  MaxEvents,    \* bound: webhooks the gateway sends
  MaxRows,      \* bound: accounts or keys beyond which none is asked for
  MaxBought     \* bound: subscriptions bought at the gateway

VARIABLES
  mode,     \* the deployment's billing mode
  sub,      \* the row, or NoRow
  sess,     \* what each session is doing
  rows,     \* rows of each limited kind the organisation has
  clock,    \* trial periods (14 days) that have passed
  offers,   \* checkout pages open at the gateway
  bought,   \* subscriptions at the gateway
  mail,     \* webhooks not yet acknowledged
  sent,     \* history: webhooks sent
  granted,  \* history: trials granted
  top,      \* history: the largest limit of each kind a request was held to
  orderly   \* history: no two sessions overlapped, no webhook overtook another

vars == <<mode, sub, sess, rows, clock, offers, bought, mail, sent, granted,
          top, orderly>>
gateway == <<offers, bought, mail, sent>>

----------------------------------------------------------------------------
(* Plans. *)

PlanIds == {"free", "starter", "pro", "business", "enterprise", "mssp"}
Unlimited == 1000 * 1000   \* stands for UNLIMITED: above every plan's limit
MultiCloud  == PlanIds \ {"free", "starter"}
WithApiKeys == PlanIds \ {"free"}
PLANS == [accounts |-> [free |-> 1, starter |-> 3, pro |-> 15, business |-> 50,
                        enterprise |-> Unlimited, mssp |-> Unlimited],
          keys     |-> [free |-> 0, starter |-> 3, pro |-> 10, business |-> 25,
                        enterprise |-> Unlimited, mssp |-> Unlimited]]
Kinds == {"accounts", "keys"}

get_plan(p) == IF p \in PlanIds THEN p ELSE "free"

Statuses == {"active", "trialing", "past_due", "canceled"}
NoEnd    == -1
Row == [plan : PlanIds \cup TrialPlans, status : Statuses, trial_used : BOOLEAN,
        trial_ends_at : {NoEnd} \cup 0..MaxClock]

ASSUME SubscriptionAssumption ==
  /\ IsFiniteSet(Sessions) /\ Sessions # {}
  /\ Modes \subseteq {"manual", "stripe", "razorpay"}
  /\ NoRow \notin Row
  /\ MaxClock \in Nat /\ MaxEvents \in Nat

FreshRow == [plan |-> "free", status |-> "active", trial_used |-> FALSE,
             trial_ends_at |-> NoEnd]

Lapsed(row) == row.status = "trialing" /\ row.trial_ends_at < clock

plan_of(row) ==
  IF Lapsed(row) \/ row.status \notin {"active", "trialing"}
  THEN "free" ELSE get_plan(row.plan)

Entitled == IF sub = NoRow THEN "free" ELSE plan_of(sub)

WholeRow(seen, wanted) == wanted

(* An UPDATE sets the columns in which the session's object differs from     *)
(* what it loaded, whatever the row has become.                              *)
Commit(seen, wanted) ==
  LET column(c) == IF wanted[c] # seen[c] THEN wanted[c] ELSE sub[c] IN
  [plan |-> column("plan"), status |-> column("status"),
   trial_used |-> column("trial_used"), trial_ends_at |-> column("trial_ends_at")]

Expired(row) == [row EXCEPT !.status = "canceled", !.plan = "free"]
change_plan(row, plan, status) == [row EXCEPT !.plan = plan, !.status = status]

----------------------------------------------------------------------------
(* Webhooks: what each event asks of the row. *)

EventKinds == {"checkout", "updated", "deleted", "paid", "failed",
               "activated", "halted", "cancelled"}
Event == [n : 1..MaxEvents, kind : EventKinds, plan : PlanIds,
          status : Statuses, again : BOOLEAN]

KeepsStatus(e, row) ==
  CASE e.kind = "checkout" -> [row EXCEPT !.plan = e.plan]
    [] OTHER               -> row

handle_webhook(e, row) ==
  CASE e.kind = "checkout" -> change_plan(row, e.plan, "active")
    [] e.kind = "updated" -> change_plan(row, e.plan, e.status)
    [] e.kind = "deleted" -> change_plan(row, "free", "canceled")
    [] e.kind = "paid"    -> [row EXCEPT !.status = "active"]
    [] e.kind = "failed"  -> [row EXCEPT !.status = "past_due"]
    [] OTHER              -> row

KeepsCancelled(e, row) ==
  IF e.kind = "activated" THEN change_plan(row, e.plan, "active") ELSE row

handle_razorpay(e, row) ==
  CASE e.kind = "activated" -> change_plan(row, e.plan, "active")
    [] e.kind = "halted"    -> [row EXCEPT !.status = "past_due"]
    [] e.kind = "cancelled" -> change_plan(row, "free", "canceled")
    [] OTHER                -> row

Handled(e, row) ==
  IF mode = "razorpay" THEN handle_razorpay(e, row) ELSE handle_webhook(e, row)

(* create_checkout writes the organisation's id on Stripe's checkout session *)
(* only, and on Razorpay's subscription itself: Stripe's later events about  *)
(* the subscription and its invoices do not carry it. (No Razorpay secret is *)
(* configured: with one, the route, which reads Stripe's signature header,   *)
(* has every Razorpay webhook refused.)                                      *)
TaggedByStripe   == {"checkout"}
TaggedByRazorpay == {"activated", "halted", "cancelled"}

(* The kinds in which the handler finds an organisation.                     *)
Tagged(m) == IF m = "razorpay" THEN TaggedByRazorpay ELSE TaggedByStripe

----------------------------------------------------------------------------
(* Requests. *)

NoEvent == [n |-> 0]
Req(op, plan, e) == [op |-> op, plan |-> plan, event |-> e]
Asked ==
  {r \in {Req(op, "free", NoEvent) : op \in {"access", "accounts", "gcp", "keys"}}
         \cup {Req("trial", p, NoEvent) : p \in TrialPlans}
         \cup {Req("checkout", p, NoEvent) : p \in
                 (Offered \cap (IF mode = "manual" THEN PlanIds
                                ELSE {"starter", "pro"}))
                   \ {"free", "enterprise"}} :
     r.op \in Requests[mode]}

Idle == [pc |-> "idle", req |-> Req("none", "free", NoEvent), seen |-> NoRow,
         plan |-> "free"]
AllIdle == \A s \in Sessions : sess[s] = Idle
At(s, pc) == sess[s].pc = pc
Does(s, op) == At(s, "loaded") /\ sess[s].req.op = op
KindOf(s) == IF sess[s].req.op = "keys" THEN "keys" ELSE "accounts"
Done(s) == sess' = [sess EXCEPT ![s] = Idle]

Bought == [plan : PlanIds, status : Statuses]

Session ==
  [pc : {"idle", "create", "loaded", "count", "gate", "insert"},
   req : [op : {"none", "access", "accounts", "gcp", "keys", "checkout", "webhook"},
          plan : PlanIds, event : Event \cup {NoEvent}]
         \cup [op : {"trial"}, plan : TrialPlans, event : {NoEvent}],
   seen : Row \cup {NoRow}, plan : PlanIds]

TypeOK ==
  /\ mode \in {"manual", "stripe", "razorpay"}
  /\ sub \in Row \cup {NoRow}
  /\ sess \in [Sessions -> Session]
  /\ rows \in [Kinds -> Nat]
  /\ clock \in 0..MaxClock
  /\ offers \subseteq PlanIds
  /\ bought \in Seq(Bought)
  /\ mail \subseteq Event
  /\ sent \in 0..MaxEvents
  /\ granted \in Nat
  /\ top \in [Kinds -> 0..Unlimited]
  /\ orderly \in BOOLEAN

Init ==
  /\ mode \in Modes
  /\ sub = NoRow
  /\ sess = [s \in Sessions |-> Idle]
  /\ rows = [k \in Kinds |-> 0]
  /\ clock = 0
  /\ offers = {} /\ bought = <<>> /\ mail = {} /\ sent = 0
  /\ granted = 0
  /\ top = [k \in Kinds |-> PLANS[k]["free"]]
  /\ orderly = TRUE

(* get_subscription: the first SELECT of a request or of a webhook. *)
Load(s, r) ==
  /\ sess[s] = Idle
  /\ sess' = [sess EXCEPT ![s] =
       [pc |-> IF sub = NoRow THEN "create" ELSE "loaded", req |-> r,
        seen |-> sub, plan |-> "free"]]

(* A plan check that finds no trial to write off changes nothing: not asked. *)
Request(s) ==
  /\ \E r \in Asked :
       /\ r.op = "access" /\ sub # NoRow => sub.status = "trialing"
       /\ r.op \in {"accounts", "gcp"} => rows["accounts"] < MaxRows
       /\ r.op = "keys" => rows["keys"] < MaxRows
       /\ r.op = "checkout" => Len(bought) < MaxBought
       /\ Load(s, r)
  /\ orderly' = (orderly /\ AllIdle)
  /\ UNCHANGED <<mode, sub, rows, clock, granted, top, gateway>>

(* get_subscription finds no row and inserts one; the unique org_id refuses  *)
(* the second insert, and the request fails.                                 *)
CreateRow(s) ==
  /\ At(s, "create")
  /\ \/ /\ sub = NoRow
        /\ sub' = FreshRow
        /\ sess' = [sess EXCEPT ![s].pc = "loaded", ![s].seen = FreshRow]
     \/ /\ sub # NoRow
        /\ Done(s)
        /\ UNCHANGED sub
  /\ UNCHANGED <<mode, rows, clock, granted, top, orderly, gateway>>

(* plan_of: a lapsed trial is written off by whoever sees it first. *)
ResolvePlan(s) ==
  /\ At(s, "loaded")
  /\ sess[s].req.op \in {"access", "accounts", "gcp", "keys"}
  /\ LET seen == sess[s].seen IN
       /\ IF Lapsed(seen) THEN sub' = Commit(seen, Expired(seen))
          ELSE UNCHANGED sub
       /\ IF sess[s].req.op = "access" THEN Done(s)
          ELSE sess' = [sess EXCEPT ![s].pc = "count",
                                    ![s].plan = plan_of(seen)]
  /\ UNCHANGED <<mode, rows, clock, top, granted, orderly, gateway>>

UpToLimit(n, limit) == limit = Unlimited \/ n <= limit

(* A plan without limit is not counted. *)
UnderLimit(n, limit) == limit = Unlimited \/ n < limit

(* API keys are refused to a plan without the feature before any is counted. *)
Included(k, plan) == k = "keys" => plan \in WithApiKeys

(* check_account_limit, check_api_key_limit: count, then decide. *)
CheckLimit(s) ==
  /\ At(s, "count")
  /\ LET k == KindOf(s)
         limit == PLANS[k][sess[s].plan] IN
       /\ IF Included(k, sess[s].plan) /\ UnderLimit(rows[k], limit)
          THEN sess' = [sess EXCEPT
                 ![s].pc = IF sess[s].req.op = "gcp" THEN "gate" ELSE "insert"]
          ELSE Done(s)
       /\ top' = [top EXCEPT ![k] = IF limit > @ THEN limit ELSE @]
  /\ UNCHANGED <<mode, sub, rows, clock, granted, orderly, gateway>>

(* require_feature(MULTI_CLOUD): the plan is resolved once more. *)
CheckFeature(s) ==
  /\ At(s, "gate")
  /\ IF Lapsed(sub) THEN sub' = Expired(sub) ELSE UNCHANGED sub
  /\ IF plan_of(sub) \in MultiCloud
     THEN sess' = [sess EXCEPT ![s].pc = "insert"] ELSE Done(s)
  /\ UNCHANGED <<mode, rows, clock, top, granted, orderly, gateway>>

InsertRow(s) ==
  /\ At(s, "insert")
  /\ rows' = [rows EXCEPT ![KindOf(s)] = @ + 1]
  /\ Done(s)
  /\ UNCHANGED <<mode, sub, clock, granted, top, orderly, gateway>>

(* DELETE /accounts/{id} and DELETE /apikeys/{id}. *)
RemoveMissing(k) ==
  /\ "remove" \in Requests[mode]
  /\ rows' = [rows EXCEPT ![k] = @ - 1]
  /\ UNCHANGED <<mode, sub, sess, clock, granted, top, orderly, gateway>>

RemoveRow(k) ==
  /\ "remove" \in Requests[mode] /\ rows[k] > 0
  /\ rows' = [rows EXCEPT ![k] = @ - 1]
  /\ UNCHANGED <<mode, sub, sess, clock, granted, top, orderly, gateway>>

EligibleAgain(row) == ~(row.status = "active" /\ row.plan # "free")

Eligible(row) == ~row.trial_used /\ ~(row.status = "active" /\ row.plan # "free")

start_trial(s) ==
  /\ Does(s, "trial")
  /\ LET seen == sess[s].seen IN
       IF Eligible(seen)
       THEN /\ sub' = Commit(seen, [seen EXCEPT !.plan = sess[s].req.plan,
                 !.status = "trialing", !.trial_used = TRUE,
                 !.trial_ends_at = clock])
            /\ granted' = granted + 1
       ELSE UNCHANGED <<sub, granted>>
  /\ Done(s)
  /\ UNCHANGED <<mode, rows, clock, top, orderly, gateway>>

(* create_checkout: the manual mode flips the plan; the gateways open a page *)
(* (Stripe's idempotency key gives one page per plan) and nothing changes    *)
(* here: the ids of the customer and the subscription are left out.          *)
FlipsBeforePayment(row, plan) == change_plan(row, plan, "active")

AfterCheckout(row, plan) ==
  IF mode = "manual" THEN change_plan(row, plan, "active") ELSE row

create_checkout(s) ==
  /\ Does(s, "checkout")
  /\ LET seen == sess[s].seen
         plan == sess[s].req.plan IN
       /\ sub' = Commit(seen, AfterCheckout(seen, plan))
       /\ offers' = IF mode = "manual" THEN offers ELSE offers \cup {plan}
       /\ UNCHANGED <<bought, mail, sent>>
  /\ Done(s)
  /\ UNCHANGED <<mode, rows, clock, top, granted, orderly>>

(* POST /billing/webhook: the gateway posts any unacknowledged event, the    *)
(* oldest first when deliveries are in order. An event without the           *)
(* organisation's id is acknowledged and forgotten.                          *)
Oldest(e) == \A f \in mail : e.n <= f.n

Deliver(s) ==
  \E e \in mail :
    /\ \A t \in Sessions : sess[t].req.event # e
    /\ IF e.kind \in Tagged(mode)
       THEN /\ Load(s, Req("webhook", "free", e))
            /\ orderly' = (orderly /\ AllIdle /\ Oldest(e))
            /\ UNCHANGED mail
       ELSE /\ mail' = mail \ {e}
            /\ UNCHANGED <<sess, orderly>>
    /\ UNCHANGED <<mode, sub, rows, clock, granted, top, offers, bought, sent>>

(* The handler's commit; its acknowledgement may be lost, once per event.    *)
ApplyWebhook(s) ==
  /\ Does(s, "webhook")
  /\ LET e == sess[s].req.event IN
       /\ sub' = Commit(sess[s].seen, Handled(e, sess[s].seen))
       /\ \/ mail' = mail \ {e}
          \/ /\ e.kind \in Repeated /\ ~e.again
             /\ mail' = (mail \ {e}) \cup {[e EXCEPT !.again = TRUE]}
  /\ Done(s)
  /\ UNCHANGED <<mode, rows, clock, top, granted, orderly, offers, bought, sent>>

----------------------------------------------------------------------------
(* The gateway and time. *)

Note(k, kind, i) ==
  [n |-> sent + k, kind |-> kind, plan |-> bought'[i].plan,
   status |-> bought'[i].status, again |-> FALSE]

(* In Stripe mode the events of stripe, in Razorpay mode those of razorpay. *)
Post(i, stripe, razorpay) ==
  LET kinds == IF mode = "stripe" THEN stripe ELSE razorpay IN
  /\ sent + Len(kinds) <= MaxEvents
  /\ sent' = sent + Len(kinds)
  /\ mail' = mail \cup {Note(k, kinds[k], i) : k \in DOMAIN kinds}
  /\ UNCHANGED <<mode, sub, sess, rows, clock, granted, top, orderly>>

Pay == \E p \in offers :
  /\ Len(bought) < MaxBought
  /\ bought' = Append(bought, [plan |-> p, status |-> "active"])
  /\ offers' = offers \ {p}
  /\ Post(Len(bought) + 1, <<"checkout", "paid">>, <<"activated">>)

SwitchPlan(i) == \E p \in {"starter", "pro"} :
  /\ mode = "stripe"
  /\ bought[i].status = "active" /\ bought[i].plan # p
  /\ bought' = [bought EXCEPT ![i].plan = p]
  /\ Post(i, <<"updated">>, <<>>) /\ UNCHANGED offers

PaymentFails(i) ==
  /\ bought[i].status = "active"
  /\ bought' = [bought EXCEPT ![i].status = "past_due"]
  /\ Post(i, <<"failed", "updated">>, <<"halted">>) /\ UNCHANGED offers

PaymentRecovers(i) ==
  /\ bought[i].status = "past_due"
  /\ bought' = [bought EXCEPT ![i].status = "active"]
  /\ Post(i, <<"paid", "updated">>, <<"activated">>) /\ UNCHANGED offers

Cancel(i) ==
  /\ bought[i].status # "canceled"
  /\ bought' = [bought EXCEPT ![i].status = "canceled"]
  /\ Post(i, <<"deleted">>, <<"cancelled">>) /\ UNCHANGED offers

(* Time matters only while a trial's end lies ahead. *)
Tick ==
  /\ sub # NoRow /\ sub.trial_ends_at = clock
  /\ clock < MaxClock /\ clock' = clock + 1
  /\ UNCHANGED <<mode, sub, sess, rows, granted, top, orderly, gateway>>

Handle(s) ==
  \/ CreateRow(s) \/ ResolvePlan(s) \/ CheckLimit(s) \/ CheckFeature(s)
  \/ InsertRow(s) \/ start_trial(s) \/ create_checkout(s) \/ ApplyWebhook(s)

Next ==
  \/ \E s \in Sessions : Request(s) \/ Deliver(s) \/ Handle(s)
  \/ \E k \in Kinds : RemoveRow(k)
  \/ Pay \/ Tick
  \/ \E i \in DOMAIN bought :
       SwitchPlan(i) \/ PaymentFails(i) \/ PaymentRecovers(i) \/ Cancel(i)

Spec == Init /\ [][Next]_vars

(* A request that was accepted runs to its end; a gateway posts an event     *)
(* until it is acknowledged.                                                 *)
FairSpec ==
  /\ Spec
  /\ \A s \in Sessions : WF_vars(Handle(s))
  /\ WF_vars(\E s \in Sessions : Deliver(s))

----------------------------------------------------------------------------
(* Properties. *)

Quiet == mail = {} /\ AllIdle

(* What the gateway charges for: the plan of its one subscription. *)
Charged == IF bought[1].status = "active" THEN bought[1].plan ELSE "free"

(* Razorpay's subscription and the local plan agree once every event is      *)
(* applied, oldest first and with no other request in between: the           *)
(* organisation has the plan it pays for, or a running trial while it pays   *)
(* for none. In Stripe mode only a purchase arrives: see Synced.             *)
InSync ==
  mode = "razorpay" /\ orderly /\ Quiet /\ Len(bought) = 1 =>
    \/ Entitled = Charged
    \/ Charged = "free" /\ sub.status = "trialing"

(* In every mode: nobody who pays is left on the free plan, whatever trial   *)
(* was tried, written off or refused before or after, once the webhooks are  *)
(* applied as above.                                                         *)
PaidIsServed ==
  orderly /\ Quiet /\ Len(bought) = 1 /\ Charged # "free" => Entitled # "free"

(* handle_webhook is to "keep the local plan in sync" (stripe_gateway.py:145).*)
(* It does not: what follows a purchase at Stripe is not recognised.         *)
Synced ==
  orderly /\ Quiet /\ Len(bought) = 1 =>
    \/ Entitled = Charged
    \/ Charged = "free" /\ sub.status = "trialing"

(* PaidIsServed without "orderly": fails when plan_of writes a lapsed trial  *)
(* off, or start_trial grants one, over the purchase a webhook records in    *)
(* between their SELECT and their commit.                                    *)
PaidIsServedAnyway ==
  Quiet /\ Len(bought) = 1 /\ Charged # "free" => Entitled # "free"

(* start_trial is "a one-time 14-day trial": one, unless requests overlap,   *)
(* and then at most one for each request served at once.                     *)
TrialsBounded ==
  granted <= IF orderly THEN 1 ELSE Cardinality(Sessions)

(* Limits are checked before the row is inserted (check_account_limit,       *)
(* check_api_key_limit): concurrent requests overrun the largest limit a     *)
(* request was held to by less than their number.                            *)
LimitsBounded ==
  \A k \in Kinds :
    top[k] = Unlimited \/ rows[k] < top[k] + Cardinality(Sessions)

(* No order of events, retries and requests gives a paid plan to an          *)
(* organisation that neither bought nor tried one (nor chose it in manual    *)
(* mode).                                                                    *)
PaidForCause ==
  Entitled # "free" => mode = "manual" \/ granted > 0 \/ bought # <<>>

Paying == bought # <<>> /\ Charged # "free"

(* A purchase takes effect, and whatever then takes it away is made good,    *)
(* though requests that read the row before may commit after the webhook and *)
(* acknowledgements be lost: at Stripe unless a trial was granted, at        *)
(* Razorpay unless the webhooks or requests overtook each other.             *)
PurchaseTakesEffect ==
  Paying ~> \/ ~Paying \/ Entitled # "free"
            \/ IF mode = "stripe" THEN granted > 0 ELSE ~orderly

=============================================================================
