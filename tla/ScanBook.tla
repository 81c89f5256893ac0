------------------------------ MODULE ScanBook ------------------------------
(***************************************************************************)
(* What the scan pipeline promises its readers (the dashboard, compliance  *)
(* scoring, alerts), with no queue, worker, transaction or lock in sight:  *)
(*                                                                         *)
(*  - a scan run is requested at most once, and ends at most once;         *)
(*  - the findings a scan adds appear in the same step as its completion,  *)
(*    never before it and never without it;                                *)
(*  - a finding is published once per account and check: publishing never  *)
(*    takes over a row that another scan published or a user triaged.      *)
(*                                                                         *)
(* ScanPipeline implements it while the broker delivers each message once. *)
(***************************************************************************)
CONSTANTS Accounts, NoAccount, Checks, ScanIds, FindingStatus

VARIABLES
    accounts,   \* connected accounts
    book,       \* each scan run's account and state
    published   \* each finding's scan run and triage state

bookVars == <<accounts, book, published>>

Keys    == Accounts \X Checks
Unused  == [acct |-> NoAccount, status |-> "absent"]
Missing == [scan |-> 0, status |-> "absent"]

Init ==
    /\ accounts = Accounts
    /\ book = [n \in ScanIds |-> Unused]
    /\ published = [k \in Keys |-> Missing]

\* A scan run that may still end: nothing is known of it, or it is queued.
Pending(n, a) == book[n] \in {Unused, [acct |-> a, status |-> "queued"]}

RequestScan(n, a) ==
    /\ a \in accounts
    /\ book[n] = Unused
    /\ book' = [book EXCEPT ![n] = [acct |-> a, status |-> "queued"]]
    /\ UNCHANGED <<accounts, published>>

Complete(n, a, new) ==
    /\ a \in accounts
    /\ Pending(n, a)
    /\ \A c \in new : published[<<a, c>>].status = "absent"
    /\ book' = [book EXCEPT ![n] = [acct |-> a, status |-> "completed"]]
    /\ published' = [k \in Keys |-> IF k[1] = a /\ k[2] \in new
                                    THEN [scan |-> n, status |-> "open"]
                                    ELSE published[k]]
    /\ UNCHANGED accounts

Fail(n, a) ==
    /\ a \in accounts
    /\ Pending(n, a)
    /\ book' = [book EXCEPT ![n] = [acct |-> a, status |-> "failed"]]
    /\ UNCHANGED <<accounts, published>>

Triage(k, status) ==
    /\ published[k].status # "absent"
    /\ published' = [published EXCEPT ![k].status = status]
    /\ UNCHANGED <<accounts, book>>

Purge(old) ==
    /\ \A k \in old : published[k].status = "resolved"
    /\ published' = [k \in Keys |-> IF k \in old THEN Missing ELSE published[k]]
    /\ UNCHANGED <<accounts, book>>

Remove(a) ==
    /\ a \in accounts
    /\ accounts' = accounts \ {a}
    /\ book' = [n \in ScanIds |-> IF book[n].acct = a THEN Unused ELSE book[n]]
    /\ published' = [k \in Keys |-> IF k[1] = a THEN Missing ELSE published[k]]

Next ==
    \/ \E n \in ScanIds, a \in Accounts :
         \/ RequestScan(n, a)
         \/ \E new \in SUBSET Checks : Complete(n, a, new)
         \/ Fail(n, a)
    \/ \E k \in Keys, status \in FindingStatus : Triage(k, status)
    \/ \E old \in SUBSET Keys : Purge(old)
    \/ \E a \in Accounts : Remove(a)

Spec == Init /\ [][Next]_bookVars

=============================================================================
