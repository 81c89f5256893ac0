---------------------------- MODULE EnginesProofs ---------------------------
(***************************************************************************)
(* Proofs about Engines, for any number of sessions and requests and any   *)
(* limit of accounts.                                                      *)
(***************************************************************************)
EXTENDS Engines, FiniteSetTheorems, TLAPS

(* A session at work has an id, and names the table it replaces.            *)
Working ==
  \A s \in Sessions :
    /\ Busy(s) => sess[s].id \in Ids /\ sess[s].table \in Tables
    /\ sess[s].pc \in {"wait", "insert"} \/ sess[s].doomed = {}
    /\ Busy(s) /\ sess[s].op \in {"assets", "filtered"} => sess[s].table = "assets"

(* A session that overlapped no other is the only one at work, and nobody   *)
(* has changed its table since its DELETE started.                          *)
Undisturbed ==
  \A s \in alone :
    /\ \A t \in Sessions \ {s} : ~Busy(t)
    /\ Is(s, "wait") => sess[s].seen = tables[sess[s].table]
    /\ Is(s, "insert") => sess[s].doomed = tables[sess[s].table]

(* The accounts there are and those that sessions have decided to insert.   *)
Inserting == {s \in Sessions : \/ Is(s, "connect")
                               \/ Is(s, "record") /\ sess[s].id \in sess[s].seen}
Prospective == accounts \cup {sess[s].id : s \in Inserting}

ProspectBounded == Cardinality(Prospective) < Limit + Cardinality(Sessions)

IInv == TypeOK /\ Working /\ AssetsNeverVanish /\ Undisturbed /\ ProspectBounded

----------------------------------------------------------------------------
LEMMA IdleTyped == Idle \in Session
  BY DEF Idle, Session

LEMMA ProspectiveFinite ==
    ASSUME TypeOK, Working
    PROVE  /\ Prospective \subseteq Ids /\ IsFiniteSet(Prospective)
           /\ Cardinality(Prospective) \in Nat
           /\ Cardinality(Sessions) \in Nat
  <1>1. Prospective \subseteq Ids
    BY DEF Prospective, Inserting, Working, TypeOK, Busy, Is
  <1>2. IsFiniteSet(Ids)
    BY EnginesAssumption, FS_Interval DEF Ids
  <1>3. QED
    BY <1>1, <1>2, EnginesAssumption, FS_Subset, FS_CardinalityType

LEMMA InitEstablishes == Init => IInv
  <1> SUFFICES ASSUME Init PROVE IInv
    OBVIOUS
  <1>1. TypeOK
    BY IdleTyped, EnginesAssumption DEF Init, TypeOK, Idle
  <1>2. Working /\ AssetsNeverVanish /\ Undisturbed
    BY DEF Init, Working, AssetsNeverVanish, Undisturbed, Busy, Is, Idle
  <1>3. Prospective = {}
    BY DEF Init, Prospective, Inserting, Is, Idle
  <1>4. ProspectBounded
    <2>1. Cardinality({}) = 0 /\ Cardinality(Sessions) \in Nat
      BY FS_EmptySet, EnginesAssumption, FS_CardinalityType
    <2>2. QED
      BY <1>3, <2>1, EnginesAssumption DEF ProspectBounded
  <1>5. QED
    BY <1>1, <1>2, <1>4 DEF IInv

(* A step after which no account is there or to be inserted that was not    *)
(* before.                                                                  *)
LEMMA NoNewProspect ==
    ASSUME IInv, TypeOK', Working', Prospective' \subseteq Prospective
    PROVE  ProspectBounded'
  <1>1. IsFiniteSet(Prospective) /\ Cardinality(Prospective) \in Nat
    BY ProspectiveFinite DEF IInv
  <1>2. Cardinality(Prospective') <= Cardinality(Prospective)
    BY <1>1, FS_Subset
  <1>3. IsFiniteSet(Prospective')
    BY <1>1, FS_Subset
  <1>4. Cardinality(Prospective') \in Nat /\ Cardinality(Sessions) \in Nat
    BY <1>3, EnginesAssumption, FS_CardinalityType
  <1>5. QED
    BY <1>1, <1>2, <1>4, EnginesAssumption DEF IInv, ProspectBounded

(* The ids that sessions are to insert are no more than the sessions.       *)
LEMMA PendingBounded ==
    ASSUME NEW S \in SUBSET Sessions, NEW g, NEW A, IsFiniteSet(A)
    PROVE  /\ IsFiniteSet(A \cup {g[s] : s \in S})
           /\ Cardinality(A \cup {g[s] : s \in S}) <= Cardinality(A) + Cardinality(Sessions)
  <1> DEFINE I == {g[s] : s \in S}
  <1>1. IsFiniteSet(S) /\ Cardinality(S) <= Cardinality(Sessions)
    BY EnginesAssumption, FS_Subset
  <1> DEFINE f == [s \in S |-> g[s]]
  <1>2. f \in Surjection(S, I)
    BY DEF Surjection
  <1>3. IsFiniteSet(I) /\ Cardinality(I) <= Cardinality(S)
    BY <1>1, <1>2, FS_Surjection
  <1>4. /\ IsFiniteSet(A \cup I) /\ IsFiniteSet(A \cap I)
        /\ Cardinality(A \cup I) = Cardinality(A) + Cardinality(I) - Cardinality(A \cap I)
    BY <1>3, FS_Union, FS_Intersection
  <1>5. /\ Cardinality(A) \in Nat /\ Cardinality(I) \in Nat /\ Cardinality(S) \in Nat
        /\ Cardinality(A \cap I) \in Nat /\ Cardinality(Sessions) \in Nat
        /\ Cardinality(A \cup I) \in Nat
    BY <1>1, <1>3, <1>4, EnginesAssumption, FS_CardinalityType
  <1>6. QED
    BY <1>1, <1>3, <1>4, <1>5

(* With fewer accounts than the limit no more are to be inserted than are   *)
(* allowed: each session inserts one.                                       *)
LEMMA UnderLimit ==
    ASSUME TypeOK', Working', accounts' = accounts, accounts \subseteq Ids,
           Cardinality(accounts) < Limit
    PROVE  ProspectBounded'
  <1>1. IsFiniteSet(accounts')
    <2>1. IsFiniteSet(Ids)
      BY EnginesAssumption, FS_Interval DEF Ids
    <2>2. QED
      BY <2>1, FS_Subset
  <1> DEFINE g == [s \in Sessions |-> sess'[s].id]
  <1>2. Inserting' \in SUBSET Sessions
    BY DEF Inserting
  <1>3. Prospective' = accounts' \cup {g[s] : s \in Inserting'}
    BY <1>2 DEF Prospective
  <1>4. /\ IsFiniteSet(Prospective')
        /\ Cardinality(Prospective') <= Cardinality(accounts') + Cardinality(Sessions)
    BY <1>1, <1>2, <1>3, PendingBounded
  <1>5. /\ Cardinality(accounts') \in Nat /\ Cardinality(Sessions) \in Nat
        /\ Cardinality(Prospective') \in Nat
    BY <1>1, <1>4, EnginesAssumption, FS_CardinalityType
  <1>6. QED
    BY <1>4, <1>5, EnginesAssumption DEF ProspectBounded

(* A session at work moves, to another point of its request or to its end.  *)
MovesOn(s) ==
  /\ Busy(s)
  /\ sess' \in [Sessions -> Session]
  /\ \A t \in Sessions \ {s} : sess'[t] = sess[t]
  /\ sess'[s].doomed \subseteq sess'[s].seen
  /\ \/ sess'[s].pc = "idle" /\ sess'[s].doomed = {}
     \/ /\ sess'[s].id = sess[s].id /\ sess'[s].op = sess[s].op
        /\ sess'[s].pc \in {"wait", "insert"} \/ sess'[s].doomed = {}
        /\ sess'[s].table = sess[s].table \/ (sess'[s].table \in Tables /\ sess[s].op = "demo")
  /\ requests' = requests /\ alone' \subseteq alone

LEMMA MovesOnTyped ==
    ASSUME IInv, NEW s \in Sessions, MovesOn(s), tables' \in [Tables -> SUBSET Ids],
           accounts' \subseteq Ids, ciem' \in [Ids -> Nat]
    PROVE  TypeOK' /\ Working'
  <1>1. TypeOK'
    BY DEF IInv, TypeOK, MovesOn
  <1>2. Working'
    BY DEF IInv, Working, MovesOn, Busy
  <1>3. QED
    BY <1>1, <1>2

LEMMA MovesOnUndisturbed ==
    ASSUME IInv, NEW s \in Sessions, MovesOn(s),
           s \in alone =>
             /\ sess'[s].pc = "wait" => sess'[s].seen = tables'[sess'[s].table]
             /\ sess'[s].pc = "insert" => sess'[s].doomed = tables'[sess'[s].table]
    PROVE  Undisturbed'
  <1> SUFFICES ASSUME NEW t \in alone'
               PROVE  /\ \A u \in Sessions \ {t} : ~Busy(u)'
                      /\ Is(t, "wait")' => sess'[t].seen = tables'[sess'[t].table]
                      /\ Is(t, "insert")' => sess'[t].doomed = tables'[sess'[t].table]
    BY DEF Undisturbed
  <1>1. t \in alone /\ \A u \in Sessions \ {t} : ~Busy(u)
    BY DEF IInv, Undisturbed, MovesOn
  <1>2. t = s
    BY <1>1 DEF MovesOn
  <1>3. \A u \in Sessions \ {t} : ~Busy(u)'
    BY <1>1, <1>2 DEF MovesOn, Busy
  <1>4. s \in alone
    BY <1>1, <1>2
  <1>5. /\ sess'[s].pc = "wait" => sess'[s].seen = tables'[sess'[s].table]
        /\ sess'[s].pc = "insert" => sess'[s].doomed = tables'[sess'[s].table]
    BY <1>4
  <1>6. QED
    BY <1>2, <1>3, <1>5 DEF Is

(* No account is there, or to be inserted, that was not before.             *)
LEMMA MovesOnProspect ==
    ASSUME IInv, NEW s \in Sessions, MovesOn(s), TypeOK', Working',
           accounts' \subseteq Prospective,
           s \in Inserting' => sess'[s].id \in Prospective
    PROVE  ProspectBounded'
  <1>1. \A t \in Inserting' : t # s => t \in Inserting /\ sess'[t].id = sess[t].id
    BY DEF MovesOn, Inserting, Is
  <1>2. Prospective' \subseteq Prospective
    BY <1>1 DEF Prospective
  <1>3. QED
    BY <1>2, NoNewProspect

(* A step of a session that touches no account and no asset.                *)
LEMMA PlainMove ==
    ASSUME IInv, NEW s \in Sessions, MovesOn(s), UNCHANGED <<accounts, tables, ciem>>,
           sess'[s].pc \in {"idle", "delete", "wait", "insert"},
           s \in alone =>
             /\ sess'[s].pc = "wait" => sess'[s].seen = tables[sess'[s].table]
             /\ sess'[s].pc = "insert" => sess'[s].doomed = tables[sess'[s].table]
    PROVE  IInv'
  <1>1. TypeOK' /\ Working'
    BY MovesOnTyped DEF IInv, TypeOK
  <1>2. Undisturbed'
    BY MovesOnUndisturbed
  <1>3. AssetsNeverVanish'
    BY DEF IInv, AssetsNeverVanish, MovesOn, Is
  <1>4. ProspectBounded'
    BY <1>1, MovesOnProspect DEF Prospective, Inserting, Is
  <1>5. QED
    BY <1>1, <1>2, <1>3, <1>4 DEF IInv

----------------------------------------------------------------------------
LEMMA RequestStep ==
    ASSUME IInv, NEW s \in Sessions, NEW op \in Ops, Request(s, op)
    PROVE  IInv'
  <1> DEFINE r == [Idle EXCEPT !.pc = FirstStep(op), !.op = op, !.id = requests + 1,
                    !.table = IF op = "paths" THEN "paths" ELSE "assets"]
  <1>1. /\ requests + 1 \in Ids /\ requests + 1 \in 0..MaxRequests
    BY EnginesAssumption DEF Request, IInv, TypeOK, Ids
  <1>2. FirstStep(op) \in {"query", "delete", "analyse", "count"}
    BY DEF FirstStep, Ops
  <1>3. r \in Session
    BY <1>1, <1>2 DEF Idle, Session, Tables
  <1>4. /\ sess' \in [Sessions -> Session] /\ sess'[s] = r
        /\ \A t \in Sessions \ {s} : sess'[t] = sess[t]
    BY <1>3 DEF Request, IInv, TypeOK
  <1>5. /\ r.pc = FirstStep(op) /\ r.id = requests + 1 /\ r.table \in Tables
        /\ r.op = op /\ (op # "paths" => r.table = "assets")
        /\ r.seen = {} /\ r.doomed = {}
    BY DEF Idle, Tables
  <1> HIDE DEF r
  <1>6. /\ UNCHANGED <<accounts, tables, ciem>> /\ requests' = requests + 1 /\ ~Busy(s)
        /\ alone' = IF \E t \in Sessions : Busy(t) THEN {} ELSE {s}
    BY DEF Request
  <1>7. TypeOK'
    BY <1>1, <1>4, <1>5, <1>6 DEF IInv, TypeOK
  <1>8. Working'
    <2> SUFFICES ASSUME NEW t \in Sessions
                 PROVE  /\ Busy(t)' => sess'[t].id \in Ids /\ sess'[t].table \in Tables
                        /\ sess'[t].pc \in {"wait", "insert"} \/ sess'[t].doomed = {}
                        /\ Busy(t)' /\ sess'[t].op \in {"assets", "filtered"} =>
                             sess'[t].table = "assets"
      BY DEF Working
    <2>1. CASE t = s
      BY <1>1, <1>4, <1>5, <2>1
    <2>2. CASE t # s
      BY <1>4, <2>2 DEF IInv, Working, Busy
    <2>3. QED
      BY <2>1, <2>2
  <1>9. AssetsNeverVanish'
    BY <1>2, <1>4, <1>5, <1>6 DEF IInv, AssetsNeverVanish, Is
  <1>10. Undisturbed'
    BY <1>2, <1>4, <1>5, <1>6 DEF Undisturbed, Busy, Is
  <1>11. Inserting' \subseteq Inserting /\ \A t \in Inserting' : sess'[t].id = sess[t].id
    BY <1>2, <1>4, <1>5 DEF Inserting, Is
  <1>12. Prospective' \subseteq Prospective
    BY <1>6, <1>11 DEF Prospective
  <1>13. ProspectBounded'
    BY <1>7, <1>8, <1>12, NoNewProspect
  <1>14. QED
    BY <1>7, <1>8, <1>9, <1>10, <1>13 DEF IInv

(* A session ends its request: its answer is sent, or it dies.              *)
LEMMA EndStep ==
    ASSUME IInv, NEW s \in Sessions, Busy(s), End(s), requests' = requests,
           alone' \subseteq alone, UNCHANGED <<accounts, tables, ciem>>
    PROVE  IInv'
  <1>1. sess' \in [Sessions -> Session] /\ sess'[s] = Idle
        /\ \A t \in Sessions \ {s} : sess'[t] = sess[t]
    BY IdleTyped DEF End, IInv, TypeOK
  <1>2. MovesOn(s) /\ sess'[s].pc = "idle"
    BY <1>1 DEF MovesOn, Idle
  <1>3. QED
    BY <1>2, PlainMove

(* A session goes on to another statement of the same request.              *)
LEMMA GotoStep ==
    ASSUME IInv, NEW s \in Sessions, Busy(s), NEW pc \in {"delete", "connect"},
           sess[s].pc \in {"query", "count"},
           Goto(s, pc), requests' = requests, alone' = alone
    PROVE  /\ MovesOn(s) /\ sess'[s].pc = pc /\ sess'[s].id = sess[s].id
  <1>1. sess \in [Sessions -> Session] /\ sess[s] \in Session /\ sess[s].doomed = {}
    BY DEF IInv, TypeOK, Working
  <1>2. /\ sess' \in [Sessions -> Session] /\ sess'[s].pc = pc /\ sess'[s].id = sess[s].id
        /\ sess'[s].op = sess[s].op /\ sess'[s].table = sess[s].table
        /\ sess'[s].doomed = {} /\ \A t \in Sessions \ {s} : sess'[t] = sess[t]
    BY <1>1 DEF Goto, Session
  <1>3. QED
    BY <1>2 DEF MovesOn

LEMMA QueryAssetsStep ==
    ASSUME IInv, NEW s \in Sessions, QueryAssets(s)
    PROVE  IInv'
  <1>1. Busy(s)
    BY DEF QueryAssets, Is, Busy
  <1>2. CASE Goto(s, "delete")
    BY <1>1, <1>2, GotoStep, PlainMove DEF QueryAssets, Is
  <1>3. CASE End(s)
    BY <1>1, <1>3, EndStep DEF QueryAssets
  <1>4. QED
    BY <1>2, <1>3 DEF QueryAssets

LEMMA StartDeleteStep ==
    ASSUME IInv, NEW s \in Sessions, StartDelete(s)
    PROVE  IInv'
  <1>1. sess \in [Sessions -> Session] /\ sess[s] \in Session /\ Busy(s)
        /\ sess[s].table \in Tables /\ sess[s].doomed = {}
    BY DEF StartDelete, Is, Busy, IInv, TypeOK, Working
  <1>2. tables[sess[s].table] \in SUBSET Ids
    BY <1>1 DEF IInv, TypeOK
  <1>3. /\ sess' \in [Sessions -> Session] /\ sess'[s].doomed = {} /\ sess'[s].pc = "wait"
        /\ sess'[s].seen = tables[sess[s].table] /\ sess'[s].op = sess[s].op
        /\ sess'[s].table = sess[s].table /\ sess'[s].id = sess[s].id
        /\ \A t \in Sessions \ {s} : sess'[t] = sess[t]
    BY <1>1, <1>2 DEF StartDelete, Session
  <1>4. MovesOn(s)
    BY <1>1, <1>3 DEF MovesOn, StartDelete
  <1>5. QED
    BY <1>3, <1>4, PlainMove DEF StartDelete

LEMMA FinishDeleteStep ==
    ASSUME IInv, NEW s \in Sessions, FinishDelete(s)
    PROVE  IInv'
  <1> DEFINE d == Doomed(s)
  <1>1. /\ sess \in [Sessions -> Session] /\ sess[s] \in Session /\ Busy(s)
        /\ sess[s].table \in Tables /\ tables \in [Tables -> SUBSET Ids]
        /\ sess[s].pc = "wait"
    BY DEF FinishDelete, Is, Busy, IInv, TypeOK, Working
  <1>2. d \in SUBSET Ids /\ d \subseteq sess[s].seen
    BY <1>1 DEF Doomed, Session
  <1>3. /\ sess' \in [Sessions -> Session] /\ sess'[s].doomed = d /\ sess'[s].pc = "insert"
        /\ sess'[s].seen = sess[s].seen /\ sess'[s].op = sess[s].op
        /\ sess'[s].table = sess[s].table /\ sess'[s].id = sess[s].id
        /\ \A t \in Sessions \ {s} : sess'[t] = sess[t]
    BY <1>1, <1>2 DEF FinishDelete, Session
  <1>4. tables' = tables
    BY <1>1 DEF FinishDelete, Uncommitted
  <1>5. MovesOn(s)
    BY <1>1, <1>2, <1>3 DEF MovesOn, FinishDelete
  <1>6. s \in alone => sess'[s].doomed = tables[sess'[s].table]
    BY <1>1, <1>3 DEF IInv, Undisturbed, Doomed, Is
  <1>7. QED
    BY <1>3, <1>4, <1>5, <1>6, PlainMove DEF FinishDelete

LEMMA InsertAndCommitStep ==
    ASSUME IInv, NEW s \in Sessions, InsertAndCommit(s)
    PROVE  IInv'
  <1> DEFINE T == sess[s].table
             id == sess[s].id
  <1>1. /\ sess \in [Sessions -> Session] /\ sess[s] \in Session /\ Busy(s)
        /\ T \in Tables /\ id \in Ids /\ tables \in [Tables -> SUBSET Ids]
        /\ sess[s].op \in {"assets", "filtered"} => T = "assets"
    BY DEF InsertAndCommit, Is, Busy, IInv, TypeOK, Working
  <1>2. /\ tables' = [tables EXCEPT ![T] = (@ \ sess[s].doomed) \cup {id}]
        /\ accounts' = accounts /\ ciem' = ciem /\ requests' = requests /\ alone' = alone
    BY DEF InsertAndCommit, Regenerated
  <1>3. /\ tables' \in [Tables -> SUBSET Ids] /\ id \in tables'[T]
        /\ tables["assets"] # {} => tables'["assets"] # {}
    BY <1>1, <1>2 DEF Tables
  <1>4. /\ NextStep(s) \in {"idle", "analyse", "answer"}
        /\ NextStep(s) = "answer" => T = "assets"
    BY <1>1 DEF NextStep
  <1>5. ASSUME NextStep(s) = "idle"
        PROVE  MovesOn(s) /\ sess'[s].pc = "idle"
    <2>1. sess' \in [Sessions -> Session] /\ sess'[s] = Idle
          /\ \A t \in Sessions \ {s} : sess'[t] = sess[t]
      BY <1>1, <1>5, IdleTyped DEF InsertAndCommit
    <2>2. QED
      BY <1>1, <1>2, <2>1 DEF MovesOn, Idle
  <1>6. ASSUME NextStep(s) # "idle"
        PROVE  /\ MovesOn(s) /\ sess'[s].pc \in {"analyse", "answer"}
               /\ sess'[s].pc = "answer" => T = "assets"
    <2>1. NextStep(s) \in {"analyse", "answer"}
      BY <1>4, <1>6
    <2>2. /\ sess' \in [Sessions -> Session] /\ sess'[s].pc = NextStep(s)
          /\ sess'[s].id = sess[s].id /\ sess'[s].op = sess[s].op
          /\ sess'[s].table = sess[s].table /\ sess'[s].doomed = {}
          /\ \A t \in Sessions \ {s} : sess'[t] = sess[t]
      BY <1>1, <1>6, <2>1 DEF InsertAndCommit, Session
    <2>3. QED
      BY <1>1, <1>2, <1>4, <2>1, <2>2 DEF MovesOn
  <1>7. /\ MovesOn(s) /\ sess'[s].pc \in {"idle", "analyse", "answer"}
        /\ sess'[s].pc = "answer" => T = "assets"
    BY <1>5, <1>6
  <1>8. TypeOK' /\ Working'
    <2>1. accounts' \subseteq Ids /\ ciem' \in [Ids -> Nat]
      BY <1>2 DEF IInv, TypeOK
    <2>2. QED
      BY <1>3, <1>7, <2>1, MovesOnTyped
  <1>9. Undisturbed'
    BY <1>7, MovesOnUndisturbed
  <1>10. ProspectBounded'
    BY <1>2, <1>7, <1>8, MovesOnProspect DEF Prospective, Inserting, Is
  <1>11. AssetsNeverVanish'
    <2> SUFFICES ASSUME NEW t \in Sessions, sess'[t].pc = "answer"
                 PROVE  tables'["assets"] # {}
      BY DEF AssetsNeverVanish, Is
    <2>1. CASE t = s
      BY <1>3, <1>7, <2>1
    <2>2. CASE t # s
      BY <1>3, <1>7, <2>2 DEF IInv, AssetsNeverVanish, MovesOn, Is
    <2>3. QED
      BY <2>1, <2>2
  <1>12. QED
    BY <1>8, <1>9, <1>10, <1>11 DEF IInv

LEMMA AnalyseStep ==
    ASSUME IInv, NEW s \in Sessions, Analyse(s)
    PROVE  IInv'
  <1> DEFINE seen == IF NeedsDefault(accounts) THEN {sess[s].id} ELSE accounts
  <1>1. /\ sess \in [Sessions -> Session] /\ sess[s] \in Session /\ Busy(s)
        /\ sess[s].id \in Ids /\ sess[s].doomed = {} /\ accounts \subseteq Ids
    BY DEF Analyse, Is, Busy, IInv, TypeOK, Working
  <1>2. seen \in SUBSET Ids
    BY <1>1
  <1>3. /\ sess' \in [Sessions -> Session] /\ sess'[s].pc = "record" /\ sess'[s].seen = seen
        /\ sess'[s].id = sess[s].id /\ sess'[s].op = sess[s].op
        /\ sess'[s].table = sess[s].table /\ sess'[s].doomed = {}
        /\ \A t \in Sessions \ {s} : sess'[t] = sess[t]
    BY <1>1, <1>2 DEF Analyse, Session
  <1>4. MovesOn(s) /\ UNCHANGED <<accounts, tables, ciem>>
    BY <1>1, <1>3 DEF MovesOn, Analyse
  <1>5. TypeOK' /\ Working'
    BY <1>4, MovesOnTyped DEF IInv, TypeOK
  <1>6. Undisturbed'
    BY <1>3, <1>4, MovesOnUndisturbed
  <1>7. AssetsNeverVanish'
    BY <1>3, <1>4 DEF IInv, AssetsNeverVanish, Is
  <1>8. ProspectBounded'
    <2>1. CASE accounts = {}
      <3>1. Cardinality(accounts) < Limit /\ accounts \subseteq Ids
        BY <2>1, FS_EmptySet, EnginesAssumption
      <3>2. QED
        BY <1>4, <1>5, <3>1, UnderLimit
    <2>2. CASE accounts # {}
      <3>1. seen = accounts
        BY <2>2 DEF NeedsDefault
      <3>2. sess'[s].id \in accounts \/ s \notin Inserting'
        BY <1>3, <3>1 DEF Inserting, Is
      <3>3. QED
        BY <1>4, <1>5, <3>2, MovesOnProspect DEF Prospective
    <2>3. QED
      BY <2>1, <2>2
  <1>9. QED
    BY <1>5, <1>6, <1>7, <1>8 DEF IInv

LEMMA RecordStep ==
    ASSUME IInv, NEW s \in Sessions, Record(s)
    PROVE  IInv'
  <1>1. /\ sess \in [Sessions -> Session] /\ sess[s] \in Session /\ Busy(s)
        /\ sess[s].pc = "record" /\ sess[s].doomed = {}
    BY DEF Record, Is, Busy, IInv, TypeOK, Working
  <1>2. accounts' \subseteq Prospective /\ accounts' \subseteq Ids
    <2>1. sess[s].id \in sess[s].seen => s \in Inserting
      BY <1>1 DEF Inserting, Is
    <2>2. accounts' \subseteq Prospective
      BY <2>1 DEF Record, Prospective
    <2>3. QED
      BY <2>2, ProspectiveFinite DEF IInv
  <1>3. ciem' \in [Ids -> Nat]
    BY DEF Record, IInv, TypeOK
  <1>4. MovesOn(s) /\ sess'[s].pc \in {"idle", "delete"}
    <2>1. CASE sess[s].op = "demo"
      <3>1. /\ sess' \in [Sessions -> Session] /\ sess'[s].pc = "delete"
            /\ sess'[s].id = sess[s].id /\ sess'[s].op = sess[s].op
            /\ sess'[s].table = "paths" /\ sess'[s].doomed = {}
            /\ \A t \in Sessions \ {s} : sess'[t] = sess[t]
        BY <1>1, <2>1 DEF Record, Session, Tables
      <3>2. QED
        BY <1>1, <2>1, <3>1 DEF MovesOn, Record, Tables
    <2>2. CASE sess[s].op # "demo"
      <3>1. sess' \in [Sessions -> Session] /\ sess'[s] = Idle
            /\ \A t \in Sessions \ {s} : sess'[t] = sess[t]
        BY <1>1, <2>2, IdleTyped DEF Record
      <3>2. QED
        BY <1>1, <3>1, ZenonT(40) DEF MovesOn, Record, Idle
    <2>3. QED
      BY <2>1, <2>2
  <1>5. tables' = tables
    BY DEF Record
  <1>6. TypeOK' /\ Working'
    BY <1>2, <1>3, <1>4, <1>5, MovesOnTyped DEF IInv, TypeOK
  <1>7. Undisturbed'
    BY <1>4, MovesOnUndisturbed
  <1>8. AssetsNeverVanish'
    BY <1>4, <1>5 DEF IInv, AssetsNeverVanish, MovesOn, Is
  <1>9. ProspectBounded'
    BY <1>2, <1>4, <1>6, MovesOnProspect DEF Inserting, Is
  <1>10. QED
    BY <1>6, <1>7, <1>8, <1>9 DEF IInv

LEMMA CountAccountsStep ==
    ASSUME IInv, NEW s \in Sessions, CountAccounts(s)
    PROVE  IInv'
  <1>1. Busy(s) /\ sess[s].pc = "count" /\ UNCHANGED <<accounts, tables, ciem, requests, alone>>
    BY DEF CountAccounts, Is, Busy
  <1>2. CASE ~(Cardinality(accounts) < Limit)
    BY <1>1, <1>2, EndStep DEF CountAccounts
  <1>3. CASE Cardinality(accounts) < Limit
    <2>1. MovesOn(s) /\ sess'[s].pc = "connect"
      BY <1>1, <1>3, GotoStep DEF CountAccounts
    <2>2. TypeOK' /\ Working'
      BY <1>1, <2>1, MovesOnTyped DEF IInv, TypeOK
    <2>3. Undisturbed'
      BY <2>1, MovesOnUndisturbed
    <2>4. AssetsNeverVanish'
      BY <1>1, <2>1 DEF IInv, AssetsNeverVanish, MovesOn, Is
    <2>5. ProspectBounded'
      BY <1>1, <1>3, <2>2, UnderLimit DEF IInv, TypeOK
    <2>6. QED
      BY <2>2, <2>3, <2>4, <2>5 DEF IInv
  <1>4. QED
    BY <1>2, <1>3

LEMMA ConnectStep ==
    ASSUME IInv, NEW s \in Sessions, Connect(s)
    PROVE  IInv'
  <1>1. /\ sess' \in [Sessions -> Session] /\ sess'[s] = Idle
        /\ \A t \in Sessions \ {s} : sess'[t] = sess[t]
        /\ accounts' = accounts \cup {sess[s].id} /\ UNCHANGED <<tables, ciem, requests, alone>>
        /\ Busy(s) /\ s \in Inserting
    BY IdleTyped DEF Connect, End, Is, Busy, IInv, TypeOK, Inserting
  <1>2. MovesOn(s) /\ sess'[s].pc = "idle"
    BY <1>1 DEF MovesOn, Idle
  <1>3. accounts' \subseteq Prospective /\ accounts' \subseteq Ids
    BY <1>1, ProspectiveFinite DEF Prospective, IInv
  <1>4. TypeOK' /\ Working'
    BY <1>1, <1>2, <1>3, MovesOnTyped DEF IInv, TypeOK
  <1>5. Undisturbed'
    BY <1>2, MovesOnUndisturbed
  <1>6. AssetsNeverVanish'
    BY <1>1, <1>2 DEF IInv, AssetsNeverVanish, Is
  <1>7. ProspectBounded'
    BY <1>2, <1>3, <1>4, MovesOnProspect DEF Inserting, Is
  <1>8. QED
    BY <1>4, <1>5, <1>6, <1>7 DEF IInv

LEMMA DisconnectStep ==
    ASSUME IInv, NEW a \in accounts, Disconnect(a)
    PROVE  IInv'
  <1>1. TypeOK' /\ Working'
    BY DEF Disconnect, IInv, TypeOK, Working, Busy
  <1>2. Undisturbed' /\ AssetsNeverVanish'
    BY DEF Disconnect, IInv, Undisturbed, AssetsNeverVanish, Busy, Is
  <1>3. Prospective' \subseteq Prospective
    BY DEF Disconnect, Prospective, Inserting, Is
  <1>4. QED
    BY <1>1, <1>2, <1>3, NoNewProspect DEF IInv

LEMMA NextPreserves == IInv /\ [Next]_vars => IInv'
  <1> SUFFICES ASSUME IInv, [Next]_vars PROVE IInv'
    OBVIOUS
  <1>1. CASE UNCHANGED vars
    <2>1. TypeOK' /\ Working' /\ AssetsNeverVanish' /\ Undisturbed'
      BY <1>1 DEF vars, IInv, TypeOK, Working, AssetsNeverVanish, Undisturbed, Busy, Is
    <2>2. Prospective' \subseteq Prospective
      BY <1>1 DEF vars, Prospective, Inserting, Is
    <2>3. QED
      BY <2>1, <2>2, NoNewProspect DEF IInv
  <1>2. ASSUME NEW s \in Sessions,
               \/ \E op \in Ops : Request(s, op)
               \/ QueryAssets(s) \/ StartDelete(s) \/ FinishDelete(s)
               \/ InsertAndCommit(s) \/ Analyse(s) \/ Record(s)
               \/ CountAccounts(s) \/ Connect(s)
        PROVE  IInv'
    BY <1>2, RequestStep, QueryAssetsStep, StartDeleteStep, FinishDeleteStep,
       InsertAndCommitStep, AnalyseStep, RecordStep, CountAccountsStep, ConnectStep
  <1>3. ASSUME NEW s \in Sessions, AnswerAssets(s) \/ Crash(s)
        PROVE  IInv'
    BY <1>3, EndStep DEF AnswerAssets, Crash, Is, Busy
  <1>4. QED
    BY <1>1, <1>2, <1>3, DisconnectStep DEF Next

----------------------------------------------------------------------------
(* Theorems.                                                                *)

(* The invariant the others rest on.                                        *)
THEOREM Invariance == Spec => []IInv
  BY InitEstablishes, NextPreserves, PTL DEF Spec

(* Accounts, rows and sessions stay well formed.                            *)
THEOREM TypeCorrect == Spec => []TypeOK
  <1>1. IInv => TypeOK
    BY DEF IInv
  <1>2. QED
    BY <1>1, Invariance, PTL

(* GET /assets never answers with an empty inventory, however many requests *)
(* replace it meanwhile: each DELETE and its INSERT are one transaction     *)
(* (sync_asset_inventory).                                                  *)
THEOREM InventoryStands == Spec => []AssetsNeverVanish
  <1>1. IInv => AssetsNeverVanish
    BY DEF IInv
  <1>2. QED
    BY <1>1, Invariance, PTL

(* The plan's limit of accounts is exceeded by less than the requests       *)
(* served at once, the default accounts of analyze_iam_entitlements         *)
(* included (check_account_limit).                                          *)
THEOREM OverrunBounded == Spec => []AccountsBounded
  <1>1. IInv => AccountsBounded
    <2> SUFFICES ASSUME IInv PROVE AccountsBounded
      OBVIOUS
    <2>1. accounts \subseteq Prospective /\ IsFiniteSet(Prospective)
          /\ Cardinality(Prospective) \in Nat /\ Cardinality(Sessions) \in Nat
      BY ProspectiveFinite DEF IInv, Prospective
    <2>2. Cardinality(accounts) <= Cardinality(Prospective) /\ IsFiniteSet(accounts)
      BY <2>1, FS_Subset
    <2>3. Cardinality(accounts) \in Nat
      BY <2>2, FS_CardinalityType
    <2>4. QED
      BY <2>1, <2>2, <2>3, EnginesAssumption DEF IInv, ProspectBounded, AccountsBounded
  <1>2. QED
    BY <1>1, Invariance, PTL

(* A regeneration that overlapped no other request leaves exactly its own   *)
(* generation, whatever copies were there (sync_asset_inventory,            *)
(* generate_attack_paths).                                                  *)
THEOREM LoneReplaces == Spec => LoneRegenerationReplaces
  <1> DEFINE Lone(s) == Is(s, "insert") /\ ~Is(s, "insert")' /\ s \in alone /\ s \in alone'
             One == \A s \in Sessions : Lone(s) => Cardinality(tables'[sess[s].table]) = 1
  <1>1. IInv /\ [Next]_vars => [One]_vars
    <2> SUFFICES ASSUME IInv, Next, NEW s \in Sessions, Lone(s)
                 PROVE  Cardinality(tables'[sess[s].table]) = 1
      BY DEF Is
    <2>1. /\ sess[s].pc = "insert" /\ sess'[s] # sess[s] /\ s \in alone'
          /\ \A t \in Sessions \ {s} : ~Busy(t)
          /\ sess[s].doomed = tables[sess[s].table]
          /\ sess[s].table \in Tables /\ tables \in [Tables -> SUBSET Ids]
      BY DEF IInv, Undisturbed, Working, TypeOK, Busy, Is
    <2>2. InsertAndCommit(s)
      <3>1. \A op \in Ops : ~Request(s, op)
        BY <2>1 DEF Request, Busy
      <3>2. \A t \in Sessions \ {s}, op \in Ops : ~Request(t, op)
        BY <2>1 DEF Request, Busy, IInv, TypeOK
      <3>3. \A t \in Sessions \ {s} :
              ~(\/ QueryAssets(t) \/ StartDelete(t) \/ FinishDelete(t) \/ InsertAndCommit(t)
                \/ AnswerAssets(t) \/ Analyse(t) \/ Record(t) \/ CountAccounts(t)
                \/ Connect(t) \/ Crash(t))
        BY <2>1 DEF QueryAssets, StartDelete, FinishDelete, InsertAndCommit, AnswerAssets,
                    Analyse, Record, CountAccounts, Connect, Crash, Is, Busy
      <3>4. ~(\/ QueryAssets(s) \/ StartDelete(s) \/ FinishDelete(s) \/ AnswerAssets(s)
              \/ Analyse(s) \/ Record(s) \/ CountAccounts(s) \/ Connect(s) \/ Crash(s))
        BY <2>1 DEF QueryAssets, StartDelete, FinishDelete, AnswerAssets,
                    Analyse, Record, CountAccounts, Connect, Crash, Is
      <3>5. \A a \in accounts : ~Disconnect(a)
        BY <2>1 DEF Disconnect
      <3>6. QED
        BY <3>1, <3>2, <3>3, <3>4, <3>5 DEF Next
    <2>3. tables'[sess[s].table] = {sess[s].id}
      BY <2>1, <2>2 DEF InsertAndCommit, Regenerated
    <2>4. QED
      BY <2>3, FS_Singleton
  <1>2. QED
    BY <1>1, Invariance, PTL DEF Spec, LoneRegenerationReplaces
----------------------------------------------------------------------------
(* The copies of a table: each generation that stands was inserted by a     *)
(* session of its own, since a session's DELETE takes whatever that session *)
(* had inserted before.                                                     *)

Attributed(t, by) ==
  /\ by \in [tables[t] -> Sessions]
  /\ \A a, b \in tables[t] : by[a] = by[b] => a = b
  /\ \A s \in Sessions, a \in tables[t] :
       sess[s].table = t /\ by[a] = s =>
         /\ Is(s, "wait") => a \in sess[s].seen
         /\ Is(s, "insert") => a \in sess[s].doomed

OneCopyEach == \A t \in Tables : \E by : Attributed(t, by)

\* A step that leaves the tables alone, and no session newly at its DELETE.
LEMMA CopiesStand ==
  ASSUME OneCopyEach, TypeOK, tables' = tables, sess' \in [Sessions -> Session],
         \A s \in Sessions :
           sess'[s].pc \in {"wait", "insert"} =>
             \/ sess'[s] = sess[s]
             \/ sess'[s].pc = "wait" /\ sess'[s].seen = tables[sess'[s].table]
  PROVE  OneCopyEach'
  <1> SUFFICES ASSUME NEW t \in Tables PROVE \E by : Attributed(t, by)'
    BY DEF OneCopyEach
  <1>1. PICK by : Attributed(t, by)
    BY DEF OneCopyEach
  <1>2. ASSUME NEW s \in Sessions, NEW a \in tables[t], sess'[s].table = t, by[a] = s
        PROVE  /\ sess'[s].pc = "wait" => a \in sess'[s].seen
               /\ sess'[s].pc = "insert" => a \in sess'[s].doomed
    BY <1>1, <1>2 DEF Attributed, Is
  <1>3. Attributed(t, by)'
    BY <1>1, <1>2 DEF Attributed, Is
  <1>4. QED
    BY <1>3

LEMMA FinishDeleteCopies ==
  ASSUME TypeOK, OneCopyEach, NEW s \in Sessions, FinishDelete(s)
  PROVE  OneCopyEach'
  <1> SUFFICES ASSUME NEW t \in Tables PROVE \E by : Attributed(t, by)'
    BY DEF OneCopyEach
  <1>1. PICK by : Attributed(t, by)
    BY DEF OneCopyEach
  <1>2. /\ sess' = [sess EXCEPT ![s].pc = "insert", ![s].doomed = Doomed(s)]
        /\ tables' = [tables EXCEPT ![sess[s].table] = @ \ {}]
        /\ Is(s, "wait")
    BY DEF FinishDelete, Uncommitted
  <1>3. tables'[t] = tables[t]
    BY <1>2 DEF TypeOK
  <1>4. ASSUME NEW u \in Sessions, NEW a \in tables[t], sess'[u].table = t, by[a] = u
        PROVE  /\ sess'[u].pc = "wait" => a \in sess'[u].seen
               /\ sess'[u].pc = "insert" => a \in sess'[u].doomed
    <2>1. CASE u = s
      BY <1>1, <1>2, <1>4, <2>1 DEF Attributed, Is, Doomed, TypeOK, Session
    <2>2. CASE u # s
      BY <1>1, <1>2, <1>4, <2>2 DEF Attributed, Is, TypeOK, Session
    <2>3. QED
      BY <2>1, <2>2
  <1>5. Attributed(t, by)'
    BY <1>1, <1>3, <1>4 DEF Attributed, Is
  <1>6. QED
    BY <1>5

LEMMA InsertAndCommitCopies ==
  ASSUME TypeOK, OneCopyEach, NEW s \in Sessions, InsertAndCommit(s)
  PROVE  OneCopyEach'
  <1> SUFFICES ASSUME NEW t \in Tables PROVE \E by : Attributed(t, by)'
    BY DEF OneCopyEach
  <1>1. PICK by : Attributed(t, by)
    BY DEF OneCopyEach
  <1> DEFINE own == sess[s].table
             id  == sess[s].id
             kept == tables[own] \ sess[s].doomed
             next == [a \in kept \cup {id} |-> IF a = id THEN s ELSE by[a]]
  <1>2. /\ Is(s, "insert")
        /\ tables' = [tables EXCEPT ![own] = kept \cup {id}]
        /\ sess'[s].pc \notin {"wait", "insert"}
        /\ \A u \in Sessions \ {s} : sess'[u] = sess[u]
    BY DEF InsertAndCommit, Regenerated, TypeOK, NextStep, Session, Idle
  <1>3. CASE t # own
    <2>1. tables'[t] = tables[t]
      BY <1>2, <1>3 DEF TypeOK
    <2>2. Attributed(t, by)'
      BY <1>1, <1>2, <2>1 DEF Attributed, Is
    <2>3. QED
      BY <2>2
  <1>4. CASE t = own
    <2>1. tables'[t] = kept \cup {id}
      BY <1>2, <1>4 DEF TypeOK
    <2>2. \A a \in kept : a \in tables[t] /\ by[a] \in Sessions /\ by[a] # s
      BY <1>1, <1>2, <1>4 DEF Attributed, Is
    <2>3. next \in [tables'[t] -> Sessions]
      BY <2>1, <2>2
    <2>4. \A a, b \in tables'[t] : next[a] = next[b] => a = b
      BY <1>1, <2>1, <2>2 DEF Attributed
    <2>5. ASSUME NEW u \in Sessions, NEW a \in tables'[t], sess'[u].table = t, next[a] = u
          PROVE  /\ sess'[u].pc = "wait" => a \in sess'[u].seen
                 /\ sess'[u].pc = "insert" => a \in sess'[u].doomed
      <3>1. CASE u = s
        BY <1>2, <3>1
      <3>2. CASE u # s
        <4>1. a \in kept /\ by[a] = u /\ a \in tables[t] /\ sess'[u] = sess[u]
          BY <1>2, <2>1, <2>2, <2>5, <3>2
        <4>2. QED
          BY <1>1, <2>5, <4>1 DEF Attributed, Is
      <3>3. QED
        BY <3>1, <3>2
    <2>6. PICK f : f = next
      OBVIOUS
    <2> HIDE DEF next
    <2>7. Attributed(t, f)'
      BY <2>3, <2>4, <2>5, <2>6 DEF Attributed, Is
    <2>8. QED
      BY <2>7
  <1>5. QED
    BY <1>3, <1>4

LEMMA NextCopies == IInv /\ IInv' /\ OneCopyEach /\ [Next]_vars => OneCopyEach'
  <1> SUFFICES ASSUME IInv, TypeOK', OneCopyEach, [Next]_vars PROVE OneCopyEach'
    BY DEF IInv
  <1>1. /\ TypeOK
        /\ sess \in [Sessions -> Session] /\ sess' \in [Sessions -> Session]
    BY DEF IInv, TypeOK
  <1>2. ASSUME NEW s \in Sessions, NEW op \in Ops, Request(s, op)
        PROVE  OneCopyEach'
    BY <1>1, <1>2, CopiesStand DEF Request, FirstStep, Idle, TypeOK
  <1>3. ASSUME NEW s \in Sessions,
               \/ QueryAssets(s) \/ AnswerAssets(s) \/ Analyse(s) \/ Record(s)
               \/ CountAccounts(s) \/ Connect(s) \/ Crash(s)
        PROVE  OneCopyEach'
    <2>1. tables' = tables
      BY <1>3 DEF QueryAssets, AnswerAssets, Analyse, Record, CountAccounts,
                  Connect, Crash
    <2>2. /\ \A u \in Sessions \ {s} : sess'[u] = sess[u]
          /\ sess'[s].pc \notin {"wait", "insert"}
      <3>1. CASE QueryAssets(s) \/ CountAccounts(s)
        BY <1>1, <3>1 DEF QueryAssets, CountAccounts, Goto, End, Idle, Session
      <3>2. CASE AnswerAssets(s) \/ Connect(s) \/ Crash(s)
        BY <1>1, <3>2 DEF AnswerAssets, Connect, Crash, End, Idle
      <3>3. CASE Analyse(s)
        BY <1>1, <3>3 DEF Analyse, Session
      <3>4. CASE Record(s)
        BY <1>1, <3>4 DEF Record, Idle, Session
      <3>5. QED
        BY <1>3, <3>1, <3>2, <3>3, <3>4
    <2>3. QED
      BY <1>1, <2>1, <2>2, CopiesStand
  <1>4. ASSUME NEW s \in Sessions, StartDelete(s) PROVE OneCopyEach'
    <2>1. /\ tables' = tables
          /\ \A u \in Sessions \ {s} : sess'[u] = sess[u]
          /\ sess'[s].pc = "wait" /\ sess'[s].seen = tables[sess'[s].table]
      BY <1>1, <1>4, SMTT(30) DEF StartDelete, TypeOK, Session
    <2>2. QED
      BY <1>1, <2>1, CopiesStand
  <1>5. ASSUME NEW a \in accounts, Disconnect(a) PROVE OneCopyEach'
    BY <1>1, <1>5, CopiesStand DEF Disconnect
  <1>6. CASE UNCHANGED vars
    BY <1>1, <1>6, CopiesStand DEF vars
  <1>7. QED
    BY <1>1, <1>2, <1>3, <1>4, <1>5, <1>6, FinishDeleteCopies,
       InsertAndCommitCopies DEF Next

(* Overlapping regenerations leave at most one copy of the assets and of    *)
(* the paths for each request served at once, however many they were        *)
(* (sync_asset_inventory, generate_attack_paths).                           *)
THEOREM CopiesStayFew == Spec => []CopiesBounded
  <1>1. Init => OneCopyEach
    <2> SUFFICES ASSUME Init, NEW t \in Tables PROVE \E by : Attributed(t, by)
      BY DEF OneCopyEach
    <2>1. tables[t] = {}
      BY DEF Init
    <2>2. Attributed(t, [a \in {} |-> 0])
      BY <2>1 DEF Attributed
    <2>3. QED
      BY <2>2
  <1>2. OneCopyEach => CopiesBounded
    <2> SUFFICES ASSUME OneCopyEach, NEW t \in Tables
                 PROVE  Cardinality(tables[t]) <= Cardinality(Sessions)
      BY DEF CopiesBounded
    <2>1. PICK by : Attributed(t, by)
      BY DEF OneCopyEach
    <2>2. by \in Injection(tables[t], Sessions)
      BY <2>1 DEF Attributed, Injection, IsInjective
    <2>3. QED
      BY <2>2, EnginesAssumption, FS_Injection
  <1>3. Spec => []OneCopyEach
    BY <1>1, NextCopies, Invariance, PTL DEF Spec
  <1>4. QED
    BY <1>2, <1>3, PTL
=============================================================================
