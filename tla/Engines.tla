------------------------------- MODULE Engines -------------------------------
(* What GET /assets, /attack-paths and /ciem write (engine/inventory.py,     *)
(* attack_path.py, ciem.py): a request deletes the organisation's rows and   *)
(* inserts a new generation in one READ COMMITTED transaction. A DELETE sees *)
(* the rows committed when it starts, waits for those that another           *)
(* transaction is deleting, and passes over them when they are gone.         *)
EXTENDS Integers, FiniteSets

CONSTANTS
  Sessions,     \* requests served at once
  Limit,        \* accounts the organisation's plan allows
  MaxRequests   \* bound: requests

ASSUME EnginesAssumption ==
  /\ IsFiniteSet(Sessions)
  /\ Limit \in Nat \ {0}
  /\ MaxRequests \in Nat

Tables == {"assets", "paths"}

VARIABLES
  accounts,   \* connected accounts: their ids
  tables,     \* generations of rows in cspm_assets and cspm_attack_paths
  ciem,       \* analyses in cspm_ciem_records: 4 rows each, by account
  sess,       \* what each session is doing
  requests,   \* requests so far: the source of ids
  alone       \* history: sessions that overlapped no other

vars == <<accounts, tables, ciem, sess, requests, alone>>

----------------------------------------------------------------------------
(* One session. seen: the rows its DELETE saw; doomed: those it deleted and  *)
(* has not committed; todo: the tables and engines left to it.               *)

Ops == {"assets", "filtered", "paths", "ciem", "demo", "connect"}

Idle == [pc |-> "idle", op |-> "none", id |-> 0, table |-> "none",
         seen |-> {}, doomed |-> {}]

Busy(s) == sess[s].pc # "idle"
Is(s, pc) == sess[s].pc = pc
Goto(s, pc) == sess' = [sess EXCEPT ![s].pc = pc]
End(s) == sess' = [sess EXCEPT ![s] = Idle]

Ids == 1..MaxRequests

Session ==
  [pc : {"idle", "query", "delete", "wait", "insert", "answer",
         "analyse", "record", "count", "connect"},
   op : Ops \cup {"none"}, id : {0} \cup Ids, table : Tables \cup {"none"},
   seen : SUBSET Ids, doomed : SUBSET Ids]

TypeOK ==
  /\ accounts \subseteq Ids
  /\ tables \in [Tables -> SUBSET Ids]
  /\ ciem \in [Ids -> Nat]
  /\ requests \in 0..MaxRequests
  /\ alone \subseteq Sessions
  /\ sess \in [Sessions -> Session]
  /\ \A s \in Sessions : sess[s].doomed \subseteq sess[s].seen

Init ==
  /\ accounts = {}
  /\ tables = [t \in Tables |-> {}]
  /\ ciem = [a \in Ids |-> 0]
  /\ sess = [s \in Sessions |-> Idle]
  /\ requests = 0 /\ alone = {}

----------------------------------------------------------------------------
(* Requests. *)

FirstStep(op) ==
  CASE op \in {"assets", "filtered"} -> "query"
    [] op \in {"paths", "demo"} -> "delete"
    [] op = "ciem" -> "analyse"
    [] OTHER -> "count"

Request(s, op) ==
  /\ ~Busy(s) /\ requests < MaxRequests
  /\ requests' = requests + 1
  /\ sess' = [sess EXCEPT ![s] =
       [Idle EXCEPT !.pc = FirstStep(op), !.op = op, !.id = requests + 1,
                    !.table = IF op = "paths" THEN "paths" ELSE "assets"]]
  /\ alone' = IF \E t \in Sessions : Busy(t) THEN {} ELSE {s}
  /\ UNCHANGED <<accounts, tables, ciem>>

(* GET /assets: the rows the filters match; the sync is for an empty answer, *)
(* whether the inventory is empty or the filters match nothing in it.        *)
QueryAssets(s) ==
  /\ Is(s, "query")
  /\ IF sess[s].op = "filtered" \/ tables["assets"] = {}
     THEN Goto(s, "delete") ELSE End(s)
  /\ UNCHANGED <<accounts, tables, ciem, requests, alone>>

(* The DELETE of sync_asset_inventory or generate_attack_paths starts. *)
StartDelete(s) ==
  /\ Is(s, "delete")
  /\ sess' = [sess EXCEPT ![s].pc = "wait", ![s].seen = tables[sess[s].table]]
  /\ UNCHANGED <<accounts, tables, ciem, requests, alone>>

Locked(s) ==
  \E t \in Sessions \ {s} : sess[t].doomed \cap sess[s].seen # {}
                              /\ sess[t].table = sess[s].table

(* A DELETE that also takes rows committed after it started (a TRUNCATE). *)
Truncated(s) == tables[sess[s].table]

(* The rows a DELETE takes: those it saw that are still there. *)
Doomed(s) == sess[s].seen \cap tables[sess[s].table]

(* A sync that commits between its DELETE and its INSERT. *)
Kept(doomed) == doomed

(* Rows that vanish before the transaction that deletes them commits: none. *)
Uncommitted(doomed) == {}

FinishDelete(s) ==
  /\ Is(s, "wait") /\ ~Locked(s)
  /\ sess' = [sess EXCEPT ![s].pc = "insert", ![s].doomed = Doomed(s)]
  /\ tables' = [tables EXCEPT ![sess[s].table] = @ \ Uncommitted(Doomed(s))]
  /\ UNCHANGED <<accounts, ciem, requests, alone>>

NextStep(s) ==
  CASE sess[s].op = "demo" -> IF sess[s].table = "assets" THEN "analyse" ELSE "idle"
    [] sess[s].op \in {"assets", "filtered"} -> "answer"
    [] OTHER -> "idle"

(* A regeneration without its DELETE. *)
KeepsOld(old, doomed, id) == old \cup {id}

(* The rows once a regeneration commits: six assets or two paths, as one. *)
Regenerated(old, doomed, id) == (old \ doomed) \cup {id}

InsertAndCommit(s) ==
  /\ Is(s, "insert")
  /\ LET t == sess[s].table IN
     tables' = [tables EXCEPT ![t] = Regenerated(@, sess[s].doomed, sess[s].id)]
  /\ sess' = [sess EXCEPT ![s] =
       IF NextStep(s) = "idle" THEN Idle
       ELSE [@ EXCEPT !.pc = NextStep(s), !.seen = {}, !.doomed = {}]]
  /\ UNCHANGED <<accounts, ciem, requests, alone>>

(* GET /assets, after its sync: every row, whatever the filters were. *)
AnswerAssets(s) ==
  /\ Is(s, "answer")
  /\ End(s)
  /\ UNCHANGED <<accounts, tables, ciem, requests, alone>>

(* analyze_iam_entitlements: the organisation's accounts, or a default one   *)
(* that no limit is asked for; four records for each, and none is deleted.   *)
AlwaysDefault(seen) == TRUE

NeedsDefault(seen) == seen = {}

Analyse(s) ==
  /\ Is(s, "analyse")
  /\ sess' = [sess EXCEPT ![s].pc = "record", ![s].seen =
       IF NeedsDefault(accounts) THEN {sess[s].id} ELSE accounts]
  /\ UNCHANGED <<accounts, tables, ciem, requests, alone>>

Record(s) ==
  /\ Is(s, "record")
  /\ accounts' = accounts \cup (sess[s].seen \cap {sess[s].id})
  /\ ciem' = [a \in DOMAIN ciem |-> ciem[a] + IF a \in sess[s].seen THEN 1 ELSE 0]
  /\ sess' = [sess EXCEPT ![s] =
       IF sess[s].op = "demo"
       THEN [@ EXCEPT !.pc = "delete", !.table = "paths", !.seen = {}]
       ELSE Idle]
  /\ UNCHANGED <<tables, requests, alone>>

(* POST /accounts: check_account_limit, then the insert. *)
CountAccounts(s) ==
  /\ Is(s, "count")
  /\ IF Cardinality(accounts) < Limit THEN Goto(s, "connect") ELSE End(s)
  /\ UNCHANGED <<accounts, tables, ciem, requests, alone>>

Connect(s) ==
  /\ Is(s, "connect")
  /\ accounts' = accounts \cup {sess[s].id}
  /\ End(s)
  /\ UNCHANGED <<tables, ciem, requests, alone>>

(* DELETE /accounts/{id}: neither assets nor CIEM records reference it. *)
Disconnect(a) ==
  /\ accounts' = accounts \ {a}
  /\ UNCHANGED <<tables, ciem, sess, requests, alone>>

(* A request dies: its transaction is rolled back. *)
Crash(s) ==
  /\ Busy(s) /\ End(s)
  /\ alone' = alone \ {s}
  /\ UNCHANGED <<accounts, tables, ciem, requests>>

Next ==
  \/ \E s \in Sessions :
       \/ \E op \in Ops : Request(s, op)
       \/ QueryAssets(s) \/ StartDelete(s) \/ FinishDelete(s)
       \/ InsertAndCommit(s) \/ AnswerAssets(s) \/ Analyse(s) \/ Record(s)
       \/ CountAccounts(s) \/ Connect(s) \/ Crash(s)
  \/ \E a \in accounts : Disconnect(a)

Spec == Init /\ [][Next]_vars

----------------------------------------------------------------------------
(* Properties. *)

(* GET /assets answers with assets, even while other requests replace them:  *)
(* the delete and the insert of a sync are one commit.                       *)
AssetsNeverVanish ==
  \A s \in Sessions : Is(s, "answer") => tables["assets"] # {}

(* Overlapping regenerations each insert a generation and miss the other's:  *)
(* an organisation has at most as many copies of its assets and paths as     *)
(* requests are served at once.                                              *)
CopiesBounded == \A t \in Tables : Cardinality(tables[t]) <= Cardinality(Sessions)

(* A regeneration that no other request overlaps leaves one generation, and  *)
(* so clears the copies that earlier overlaps left.                          *)
LoneRegenerationReplaces ==
  [][\A s \in Sessions :
       Is(s, "insert") /\ ~Is(s, "insert")' /\ s \in alone /\ s \in alone'
         => Cardinality(tables'[sess[s].table]) = 1]_vars

(* Accounts are limited by the plan (check_account_limit); the default       *)
(* account of an analysis and overlapping requests exceed the limit by less  *)
(* than the requests served at once.                                         *)
AccountsBounded == Cardinality(accounts) < Limit + Cardinality(Sessions)
=============================================================================
