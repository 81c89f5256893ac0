------------------------------- MODULE Access -------------------------------
(* How a request is let in: the sliding window of api/middleware.py, the     *)
(* identities of shared/deps.py and auth/, the API keys and SCIM calls of    *)
(* api/auth_router.py, and the organisation scope of db.py with the row      *)
(* policies of migration 0002. A handler is the list of its statements:      *)
(* each COMMIT gives the connection back and ends the transaction.           *)
EXTENDS Integers, Sequences, FiniteSets

CONSTANTS
  Orgs, Users, Sessions, Conns,
  KeyPrefixes,   \* 8-character prefixes of API keys
  Clients,       \* pairs of client address and X-Org-Id header
  Limit, Window, \* rate_limit_per_min, and its minute in clock ticks
  Enforcement,   \* whether the row policies bind the database role: the cases
  ClaimRoles,    \* roles that claims and new memberships name
  MaxKeys, MaxRequests, MaxClock   \* bounds

None == "none"

ASSUME AccessAssumption ==
  /\ None \notin Orgs \cup Conns
  /\ ClaimRoles \subseteq {"viewer", "analyst", "admin"}
  /\ Enforcement \subseteq BOOLEAN
  /\ Limit \in Nat /\ Window \in Nat
  /\ MaxKeys \in Nat /\ MaxRequests \in Nat /\ MaxClock \in Nat

VARIABLES
  enforced,   \* the row policies are in force: Postgres, and no BYPASSRLS role
  keys,       \* cspm_api_keys, in order of creation
  members,    \* org_memberships: the role of a user in an organisation
  plans,      \* organisations with a row in cspm_subscriptions
  guc,        \* app.current_org on each connection
  sess,       \* what each session is doing
  hits,       \* RateLimitMiddleware._hits
  admitted,   \* history: when each client's requests were let through
  clock, requests

vars == <<enforced, keys, members, plans, guc, sess, hits, admitted, clock,
          requests>>
stored == <<keys, members, plans>>
traffic == <<hits, admitted, clock, requests>>

----------------------------------------------------------------------------
(* Identities. *)

Roles == {"viewer", "analyst", "admin"}

Key == [org : Orgs, role : Roles, prefix : KeyPrefixes, revoked : BOOLEAN]

(* What a request presents: an API key, claims (a token's, or the trusted    *)
(* headers', which do not expire), or the SCIM bearer token.                 *)
Claims == [kind : {"claims"}, org : Orgs, user : Users, role : ClaimRoles,
           exp : {1, MaxClock + 1}]
Bearer == [kind : {"key"}, id : DOMAIN keys]
Scim == [kind |-> "scim"]

(* require_role of the routes. *)
Allowed(op) ==
  CASE op = "list" -> Roles
    [] op = "connect" -> {"analyst", "admin"}
    [] OTHER -> {"admin"}

(* The statements of GET /accounts, POST /accounts, POST and DELETE /apikeys *)
(* and SCIM's DELETE /Users after the caller is known.                       *)
Statements(op) ==
  [list |-> <<"select">>,
   connect |-> <<"plan", "insert", "commit", "refresh", "audit">>,
   create_key |-> <<"plan", "insert", "commit", "refresh">>,
   revoke_key |-> <<"find", "commit">>,
   deprovision |-> <<"delete", "commit">>][op]

Steps == {"select", "plan", "insert", "commit", "refresh", "audit", "find", "delete"}

Ops == {"list", "connect", "create_key", "revoke_key"}

(* saw: the organisations whose rows the statement under way was shown.      *)
Session ==
  [pc : {"idle", "auth", "touch", "scope", "run", "hidden"},
   cred : {Scim} \cup Claims \cup [kind : {"key"}, id : 1..MaxKeys],
   op : {None, "list", "connect", "create_key", "revoke_key", "deprovision"},
   org : Orgs \cup {None}, conn : Conns \cup {None}, key : 0..MaxKeys,
   todo : Seq(Steps), saw : SUBSET Orgs]

At(pc, cred, op, org, conn, todo) ==
  [pc |-> pc, cred |-> cred, op |-> op, org |-> org, conn |-> conn,
   key |-> 0, todo |-> todo, saw |-> {}]

Idle == At("idle", Scim, None, None, None, <<>>)

Is(s, pc) == sess[s].pc = pc

TypeOK ==
  /\ enforced \in BOOLEAN
  /\ keys \in Seq(Key) /\ Len(keys) <= MaxKeys
  /\ members \in [Orgs \X Users -> Roles \cup {None}]
  /\ plans \subseteq Orgs
  /\ guc \in [Conns -> Orgs \cup {None}]
  /\ DOMAIN hits = Clients /\ DOMAIN admitted = Clients
  /\ clock \in 0..MaxClock /\ requests \in 0..MaxRequests
  /\ sess \in [Sessions -> Session]
  /\ \A s, t \in Sessions :
       s # t /\ sess[s].conn # None => sess[s].conn # sess[t].conn

Init ==
  /\ enforced \in Enforcement
  /\ keys = <<>> /\ plans = {}
  /\ members = [ou \in Orgs \X Users |-> None]
  /\ guc = [c \in Conns |-> None]
  /\ sess = [s \in Sessions |-> Idle]
  /\ hits = [c \in Clients |-> <<>>] /\ admitted = hits
  /\ clock = 0 /\ requests = 0

----------------------------------------------------------------------------
(* Connections and the organisation scope. *)

(* One connection for every session (SQLite's StaticPool). *)
StaticPool == Conns

(* Session.close and Session.commit return the connection to the pool. *)
Free == Conns \ {sess[s].conn : s \in Sessions}
HeldBy(s) == IF sess[s].conn = None THEN Free ELSE {sess[s].conn}

(* A setting of the connection, which the pool's next user inherits. *)
SessionLevel(c) == guc[c]

(* set_config(..., true): the setting ends with its transaction. *)
AfterTransaction(c) == None

EndTransaction(c) == guc' = [guc EXCEPT ![c] = AfterTransaction(c)]

(* The organisations whose rows a statement on connection c is shown, of the *)
(* tables that have a policy (accounts, findings, drift events, audit log,   *)
(* memberships and API keys; cspm_subscriptions has none): org_id is         *)
(* compared with app.current_org, unset or empty before set_org_scope.       *)
Visible(c) == IF enforced THEN {guc[c]} \ {None} ELSE Orgs

Finish(s, c) ==
  /\ sess' = [sess EXCEPT ![s] = Idle]
  /\ EndTransaction(c)

----------------------------------------------------------------------------
(* RateLimitMiddleware. *)

(* Hits are popped from the left while the first of them is before oldest. *)
PopUntil(w, oldest) ==
  LET popped == CHOOSE n \in 0..Len(w) :
                  /\ \A i \in 1..n : w[i] < oldest
                  /\ n < Len(w) => w[n + 1] >= oldest
  IN SubSeq(w, popped + 1, Len(w))

(* Also popping a hit that is exactly a minute old. *)
RecentOffByOne(w) == PopUntil(w, clock - Window + 1)

(* The window once hits before the last minute are popped. *)
Recent(w) == PopUntil(w, clock - Window)

Start(s, cred, op) ==
  sess' = [sess EXCEPT ![s] = At("auth", cred, op, None, None, <<>>)]

Arrive(s, c) ==
  /\ Is(s, "idle") /\ requests < MaxRequests
  /\ requests' = requests + 1
  /\ LET window == Recent(hits[c]) IN
     IF Len(window) >= Limit
     THEN /\ hits' = [hits EXCEPT ![c] = window]
          /\ UNCHANGED <<admitted, sess>>
     ELSE /\ hits' = [hits EXCEPT ![c] = Append(window, clock)]
          /\ admitted' = [admitted EXCEPT ![c] = Append(@, clock)]
          /\ \/ \E cred \in Bearer \cup Claims, op \in Ops : Start(s, cred, op)
             \/ Start(s, Scim, "deprovision")
  /\ UNCHANGED <<enforced, stored, guc, clock>>

Tick ==
  /\ clock < MaxClock
  /\ clock' = clock + 1
  /\ UNCHANGED <<enforced, stored, guc, sess, hits, admitted, requests>>

----------------------------------------------------------------------------
(* get_org_context and require_role. *)

(* set_org_scope, and the role check: 403, or the handler starts. *)
Enter(s, c, org, role) ==
  IF role \in Allowed(sess[s].op)
  THEN /\ guc' = [guc EXCEPT ![c] = org]
       /\ sess' = [sess EXCEPT ![s] =
            At("run", Scim, sess[s].op, org, c, Statements(sess[s].op))]
  ELSE Finish(s, c)

(* verify_api_key: keys of this prefix that are not revoked and that the     *)
(* policies show; none or another key is a 401, several a 500.               *)
Candidates(id, c) ==
  {k \in DOMAIN keys : /\ keys[k].prefix = keys[id].prefix /\ ~keys[k].revoked
                       /\ keys[k].org \in Visible(c)}

VerifyKey(s) == \E c \in Free :
  /\ Is(s, "auth") /\ sess[s].cred.kind = "key"
  /\ IF Candidates(sess[s].cred.id, c) = {sess[s].cred.id}
     THEN /\ sess' = [sess EXCEPT ![s].pc = "touch", ![s].conn = c,
                                  ![s].key = sess[s].cred.id, ![s].saw = Visible(c)]
          /\ UNCHANGED guc
     ELSE Finish(s, c)
  /\ UNCHANGED <<enforced, stored, traffic>>

(* An UPDATE of every column as it was read. *)
WholeRow(row) == [row EXCEPT !.revoked = FALSE]

(* candidate.last_used_at = now: the UPDATE sets that column alone. *)
Touched(row) == row

TouchKey(s) ==
  /\ Is(s, "touch")
  /\ keys' = [keys EXCEPT ![sess[s].key] = Touched(@)]
  /\ sess' = [sess EXCEPT ![s].pc = "scope", ![s].conn = None, ![s].saw = {}]
  /\ EndTransaction(sess[s].conn)
  /\ UNCHANGED <<enforced, members, plans, traffic>>

ScopeKey(s) == \E c \in Free :
  /\ Is(s, "scope")
  /\ Enter(s, c, keys[sess[s].key].org, keys[sess[s].key].role)
  /\ UNCHANGED <<enforced, stored, traffic>>

(* The membership's role, if the policies show it before the scope is set;   *)
(* else the highest of the claims.                                           *)
RoleOf(cl, c) ==
  IF cl.org \in Visible(c) /\ members[cl.org, cl.user] # None
  THEN members[cl.org, cl.user] ELSE cl.role

VerifyClaims(s) == \E c \in Free :
  /\ Is(s, "auth") /\ sess[s].cred.kind = "claims"
  /\ LET cl == sess[s].cred IN
     IF cl.exp > clock THEN Enter(s, c, cl.org, RoleOf(cl, c)) ELSE Finish(s, c)
  /\ UNCHANGED <<enforced, stored, traffic>>

(* _require_scim: no organisation, and no scope. *)
VerifyScim(s) ==
  /\ Is(s, "auth") /\ sess[s].cred.kind = "scim"
  /\ sess' = [sess EXCEPT ![s].pc = "run", ![s].todo = Statements("deprovision")]
  /\ UNCHANGED <<enforced, stored, guc, traffic>>

----------------------------------------------------------------------------
(* The statements of a handler. *)

Proceed(s, c) ==
  sess' = [sess EXCEPT ![s].todo = Tail(@), ![s].conn = c, ![s].saw = Visible(c)]

Does(s, st) == Is(s, "run") /\ sess[s].todo # <<>> /\ Head(sess[s].todo) = st

(* The policies hide the caller's own rows, or refuse its insert: a 500. *)
Hidden(s, c) ==
  /\ sess' = [sess EXCEPT ![s].pc = "hidden", ![s].conn = None, ![s].saw = Visible(c)]
  /\ EndTransaction(c)

(* A list endpoint's query. *)
Select(s) == \E c \in HeldBy(s) :
  /\ Does(s, "select")
  /\ Proceed(s, c)
  /\ UNCHANGED <<enforced, stored, guc, traffic>>

(* get_subscription: the first call commits a row of its own; the table has  *)
(* no policy.                                                                *)
Plan(s) == \E c \in HeldBy(s) :
  /\ Does(s, "plan")
  /\ plans' = plans \cup {sess[s].org}
  /\ IF sess[s].org \in plans
     THEN Proceed(s, c) /\ UNCHANGED guc
     ELSE /\ sess' = [sess EXCEPT ![s].todo = Tail(@), ![s].conn = None, ![s].saw = {}]
          /\ EndTransaction(c)
  /\ UNCHANGED <<enforced, keys, members, traffic>>

(* db.add and its flush, which the WITH CHECK of the policy may refuse; the  *)
(* new row is visible to others from the commit on.                          *)
Insert(s) == \E c \in HeldBy(s) :
  /\ Does(s, "insert")
  /\ IF sess[s].org \in Visible(c) THEN Proceed(s, c) /\ UNCHANGED guc ELSE Hidden(s, c)
  /\ UNCHANGED <<enforced, stored, traffic>>

Created(s) == \E k \in [org : {sess[s].org}, role : Roles, prefix : KeyPrefixes,
                        revoked : {FALSE}] : keys' = Append(keys, k)

Commit(s) == \E c \in HeldBy(s) :
  /\ Does(s, "commit")
  /\ IF sess[s].op = "create_key" /\ Len(keys) < MaxKeys THEN Created(s)
     ELSE keys' = [k \in DOMAIN keys |->
            IF sess[s].op = "revoke_key" /\ k = sess[s].key
            THEN [keys[k] EXCEPT !.revoked = TRUE] ELSE keys[k]]
  /\ sess' = [sess EXCEPT ![s].todo = Tail(@), ![s].conn = None, ![s].saw = {}]
  /\ EndTransaction(c)
  /\ UNCHANGED <<enforced, members, plans, traffic>>

(* db.refresh after the commit: a new transaction reads the row again. *)
Refresh(s) == \E c \in HeldBy(s) :
  /\ Does(s, "refresh")
  /\ IF sess[s].org \in Visible(c) THEN Proceed(s, c) /\ UNCHANGED guc ELSE Hidden(s, c)
  /\ UNCHANGED <<enforced, stored, traffic>>

(* record_action: its own transaction, and a failure is only logged. *)
RecordAction(s) == \E c \in HeldBy(s) :
  /\ Does(s, "audit")
  /\ sess' = [sess EXCEPT ![s].todo = Tail(@), ![s].conn = None, ![s].saw = {}]
  /\ EndTransaction(c)
  /\ UNCHANGED <<enforced, stored, traffic>>

(* revoke_key: the key by its id and the caller's organisation, or a 404. *)
FindKey(s) == \E c \in HeldBy(s) :
  /\ Does(s, "find")
  /\ LET mine == {k \in DOMAIN keys : keys[k].org = sess[s].org /\ keys[k].org \in Visible(c)} IN
     \/ \E k \in mine :
          /\ sess' = [sess EXCEPT ![s].todo = Tail(@), ![s].conn = c, ![s].key = k,
                                  ![s].saw = Visible(c)]
          /\ UNCHANGED guc
     \/ mine = {} /\ Finish(s, c)
  /\ UNCHANGED <<enforced, stored, traffic>>

(* scim_deprovision_user: the memberships that the policies show. *)
Deprovision(s) == \E u \in Users, c \in HeldBy(s) :
  /\ Does(s, "delete")
  /\ members' = [ou \in DOMAIN members |->
       IF ou[2] = u /\ ou[1] \in Visible(c) THEN None ELSE members[ou]]
  /\ Proceed(s, c)
  /\ UNCHANGED <<enforced, keys, plans, guc, traffic>>

(* get_db's finally: the response is sent and the session closed. *)
Close(s) ==
  /\ sess[s].pc \in {"run", "hidden"}
  /\ Is(s, "run") => sess[s].todo = <<>>
  /\ IF sess[s].conn = None
     THEN sess' = [sess EXCEPT ![s] = Idle] /\ UNCHANGED guc
     ELSE Finish(s, sess[s].conn)
  /\ UNCHANGED <<enforced, stored, traffic>>

(* A request dies: its transaction is rolled back. *)
Crash(s) ==
  /\ ~Is(s, "idle") /\ sess[s].conn # None
  /\ Finish(s, sess[s].conn)
  /\ UNCHANGED <<enforced, stored, traffic>>

(* The platform adds a membership (bound: one at a time). *)
Join ==
  /\ \A ou \in DOMAIN members : members[ou] = None
  /\ \E ou \in DOMAIN members, r \in ClaimRoles : members' = [members EXCEPT ![ou] = r]
  /\ UNCHANGED <<enforced, keys, plans, guc, sess, traffic>>

Next ==
  \/ \E s \in Sessions :
       \/ \E c \in Clients : Arrive(s, c)
       \/ VerifyKey(s) \/ TouchKey(s) \/ ScopeKey(s) \/ VerifyClaims(s) \/ VerifyScim(s)
       \/ Select(s) \/ Plan(s) \/ Insert(s) \/ Commit(s) \/ Refresh(s)
       \/ RecordAction(s) \/ FindKey(s) \/ Deprovision(s) \/ Close(s) \/ Crash(s)
  \/ Tick \/ Join

Spec == Init /\ [][Next]_vars

----------------------------------------------------------------------------
(* Properties. *)

(* No client is let through more than Limit times in any minute, although    *)
(* the window slides and refused requests prune it (RateLimitMiddleware).    *)
RateBounded ==
  \A c \in Clients, t \in 0..MaxClock :
    Cardinality({i \in DOMAIN admitted[c] :
                   t <= admitted[c][i] /\ admitted[c][i] <= t + Window}) <= Limit

(* Under the row policies no statement is shown another organisation's rows, *)
(* whoever used its connection before and wherever its request commits       *)
(* (set_org_scope, migration 0002).                                          *)
OwnRowsOnly ==
  enforced => \A s \in Sessions : sess[s].saw \subseteq {sess[s].org}

(* A revoked key stays revoked: a request that read it before the revocation *)
(* and marks it used after does not restore it (verify_api_key, revoke_key). *)
RevocationSticks ==
  [][\A k \in DOMAIN keys : keys[k].revoked => keys'[k].revoked]_vars

(* db.py: the scope "is reset per request", so until then the caller's rows  *)
(* are shown to it.                                                          *)
ScopeLastsRequest == \A s \in Sessions : ~Is(s, "hidden")
=============================================================================
