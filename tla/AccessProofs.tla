---------------------------- MODULE AccessProofs ----------------------------
(***************************************************************************)
(* Proofs about Access, for any organisations, keys, sessions, connections *)
(* and clients.                                                            *)
(***************************************************************************)
EXTENDS Access, SequenceTheorems, FiniteSetTheorems, WellFoundedInduction, TLAPS

(* What holds of a session between two of its statements: it keeps a        *)
(* connection only while it touches a key or runs a handler, it knows its   *)
(* operation, the key it acts for exists, and every handler but SCIM's has  *)
(* an organisation.                                                         *)
Standing(r) ==
  /\ r.pc \in {"idle", "auth", "scope", "hidden"} => r.conn = None
  /\ r.pc = "touch" => r.conn # None
  /\ r.pc \in {"auth", "touch", "scope"} => r.op # None
  /\ r.pc \in {"touch", "scope"} => r.key \in 1..Len(keys)
  /\ r.pc = "auth" /\ r.cred.kind = "scim" => r.op = "deprovision"
  /\ r.pc = "run" =>
       \/ r.org \in Orgs
       \/ /\ r.op = "deprovision"
          /\ r.todo \in {<<"delete", "commit">>, <<"commit">>, <<>>}

SessionsStand == \A s \in Sessions : Standing(sess[s])

(* A connection is scoped to nobody, or to the organisation of the session  *)
(* that holds it: this is what the next user of a connection relies on.     *)
ScopesOwned ==
  /\ \A c \in Free : guc[c] = None
  /\ \A s \in Sessions : sess[s].conn # None => guc[sess[s].conn] \in {None, sess[s].org}

IInv == TypeOK /\ SessionsStand /\ ScopesOwned /\ OwnRowsOnly

----------------------------------------------------------------------------
LEMMA IdleTyped == Idle \in Session
  BY AccessAssumption, EmptySeq DEF Idle, At, Session, Scim

LEMMA StatementsTyped ==
    ASSUME NEW op \in Ops \cup {"deprovision"}
    PROVE  Statements(op) \in Seq(Steps)
  <1>1. CASE op = "list"
    BY <1>1 DEF Statements, Steps
  <1>2. CASE op = "connect"
    BY <1>2 DEF Statements, Steps
  <1>3. CASE op = "create_key"
    BY <1>3 DEF Statements, Steps
  <1>4. CASE op = "revoke_key"
    BY <1>4 DEF Statements, Steps
  <1>5. CASE op = "deprovision"
    BY <1>5 DEF Statements, Steps
  <1>6. QED
    BY <1>1, <1>2, <1>3, <1>4, <1>5 DEF Ops

LEMMA InitEstablishes == Init => IInv
  <1> SUFFICES ASSUME Init PROVE IInv
    OBVIOUS
  <1>1. TypeOK
    <2>1. keys \in Seq(Key) /\ Len(keys) <= MaxKeys
      BY EmptySeq, AccessAssumption DEF Init
    <2>2. members \in [Orgs \X Users -> Roles \cup {None}]
      BY DEF Init
    <2>3. enforced \in BOOLEAN /\ clock \in 0..MaxClock /\ requests \in 0..MaxRequests
      BY AccessAssumption DEF Init
    <2>4. /\ plans \subseteq Orgs /\ guc \in [Conns -> Orgs \cup {None}]
          /\ DOMAIN hits = Clients /\ DOMAIN admitted = Clients
      BY DEF Init
    <2>5. sess \in [Sessions -> Session] /\ \A s \in Sessions : sess[s].conn = None
      BY IdleTyped DEF Init, Idle, At
    <2>6. QED
      BY <2>1, <2>2, <2>3, <2>4, <2>5 DEF TypeOK
  <1>2. SessionsStand
    BY DEF Init, SessionsStand, Standing, Idle, At
  <1>3. ScopesOwned
    BY DEF Init, ScopesOwned, Idle, At, Free
  <1>4. OwnRowsOnly
    BY DEF Init, OwnRowsOnly, Idle, At
  <1>5. QED
    BY <1>1, <1>2, <1>3, <1>4 DEF IInv

----------------------------------------------------------------------------
(* The tables a step leaves well formed, with no key removed.               *)
TablesKept ==
  /\ enforced' = enforced
  /\ keys' \in Seq(Key) /\ Len(keys') <= MaxKeys /\ Len(keys) <= Len(keys')
  /\ members' \in [Orgs \X Users -> Roles \cup {None}]
  /\ plans' \subseteq Orgs
  /\ DOMAIN hits' = Clients /\ DOMAIN admitted' = Clients
  /\ clock' \in 0..MaxClock /\ requests' \in 0..MaxRequests

(* Session s moves, the others do not; the connection it may use is its own *)
(* or a free one, and one it gives back is scoped to nobody.                *)
LEMMA SessionStep ==
    ASSUME IInv, NEW s \in Sessions, TablesKept,
           sess' \in [Sessions -> Session],
           \A t \in Sessions \ {s} : sess'[t] = sess[t],
           Standing(sess[s])',
           enforced => sess'[s].saw \subseteq {sess'[s].org},
           \/ guc' = guc /\ sess[s].conn = None /\ sess'[s].conn = None
           \/ \E c \in HeldBy(s), v \in Orgs \cup {None} :
                /\ guc' = [guc EXCEPT ![c] = v]
                /\ \/ sess'[s].conn = None /\ v = None
                   \/ sess'[s].conn = c /\ v \in {None, sess'[s].org}
    PROVE  IInv'
  <1>1. \A t \in Sessions : sess[t] \in Session
    BY DEF IInv, TypeOK
  <1>2. SessionsStand'
    <2> SUFFICES ASSUME NEW t \in Sessions PROVE Standing(sess[t])'
      BY DEF SessionsStand
    <2>1. CASE t = s
      BY <2>1
    <2>2. CASE t # s
      <3>1. Standing(sess[t]) /\ sess'[t] = sess[t]
        BY <2>2 DEF IInv, SessionsStand
      <3>2. Len(keys) \in Nat /\ Len(keys') \in Nat /\ Len(keys) <= Len(keys')
        BY LenProperties DEF TablesKept, IInv, TypeOK
      <3>3. 1..Len(keys) \subseteq 1..Len(keys')
        BY <3>2
      <3>4. QED
        BY <3>1, <3>3 DEF Standing
    <2>3. QED
      BY <2>1, <2>2
  <1>3. OwnRowsOnly'
    BY DEF IInv, OwnRowsOnly, TablesKept
  <1>4. CASE guc' = guc /\ sess[s].conn = None /\ sess'[s].conn = None
    <2>1. TypeOK'
      BY <1>4, SMTT(30) DEF IInv, TypeOK, TablesKept
    <2>2. Free' = Free
      BY <1>4 DEF Free
    <2>3. ScopesOwned'
      BY <1>4, <2>2 DEF IInv, ScopesOwned
    <2>4. QED
      BY <1>2, <1>3, <2>1, <2>3 DEF IInv
  <1>5. CASE \E c \in HeldBy(s), v \in Orgs \cup {None} :
               /\ guc' = [guc EXCEPT ![c] = v]
               /\ \/ sess'[s].conn = None /\ v = None
                  \/ sess'[s].conn = c /\ v \in {None, sess'[s].org}
    <2> PICK c \in HeldBy(s), v \in Orgs \cup {None} :
               /\ guc' = [guc EXCEPT ![c] = v]
               /\ \/ sess'[s].conn = None /\ v = None
                  \/ sess'[s].conn = c /\ v \in {None, sess'[s].org}
      BY <1>5
    <2>1. c \in Conns /\ c # None
      BY <1>1, AccessAssumption DEF HeldBy, Free, Session
    <2>2. \A t \in Sessions \ {s} : sess[t].conn # c
      BY <2>1 DEF HeldBy, Free, IInv, TypeOK
    <2>3. TypeOK'
      BY <2>1, <2>2 DEF IInv, TypeOK, TablesKept
    <2>4. ASSUME NEW d \in Free', d # c PROVE d \in Free
      <3>1. d \in Conns /\ \A t \in Sessions : sess'[t].conn # d
        BY DEF Free
      <3>2. d # sess[s].conn
        BY <2>4, <3>1, AccessAssumption DEF HeldBy
      <3>3. \A t \in Sessions : sess[t].conn # d
        BY <3>1, <3>2
      <3>4. QED
        BY <3>1, <3>3 DEF Free
    <2>5. c \in Free' => v = None
      BY DEF Free
    <2>6. ScopesOwned'
      BY <2>1, <2>2, <2>4, <2>5, <1>1 DEF IInv, TypeOK, ScopesOwned, Free
    <2>7. QED
      BY <1>2, <1>3, <2>3, <2>6 DEF IInv
  <1>6. QED
    BY <1>4, <1>5

(* A step of another table or of the clock.                                 *)
LEMMA QuietStep ==
    ASSUME IInv, TablesKept, keys' = keys, guc' = guc, sess' = sess
    PROVE  IInv'
  BY DEF IInv, TypeOK, TablesKept, SessionsStand, Standing, ScopesOwned, Free, OwnRowsOnly

(* What a session's own connection shows it.                                *)
LEMMA OwnConnection ==
    ASSUME IInv, NEW s \in Sessions, NEW c \in HeldBy(s)
    PROVE  /\ c \in Conns /\ guc[c] \in Orgs \cup {None}
           /\ guc[c] \in {None, sess[s].org}
           /\ Visible(c) \subseteq Orgs
           /\ enforced => Visible(c) \subseteq {sess[s].org}
           /\ guc = [guc EXCEPT ![c] = guc[c]]
  <1>1. c \in Conns
    BY AccessAssumption DEF HeldBy, Free, Session, IInv, TypeOK
  <1>2. guc[c] \in Orgs \cup {None} /\ guc[c] \in {None, sess[s].org}
    BY <1>1 DEF HeldBy, IInv, TypeOK, ScopesOwned
  <1>3. QED
    BY <1>1, <1>2 DEF Visible, IInv, TypeOK

----------------------------------------------------------------------------
(* A step that takes no key away and leaves the other tables alone.         *)
LEMMA TablesUnchanged ==
    ASSUME IInv, UNCHANGED <<enforced, stored, traffic>>
    PROVE  TablesKept
  BY LenProperties DEF IInv, TypeOK, TablesKept, stored, traffic

LEMMA KeyOf ==
    ASSUME IInv, NEW k \in 1..Len(keys)
    PROVE  k \in 0..MaxKeys /\ keys[k] \in Key /\ keys[k].org \in Orgs
  <1>1. keys \in Seq(Key) /\ Len(keys) <= MaxKeys
    BY DEF IInv, TypeOK
  <1>2. keys[k] \in Key
    BY <1>1, ElementOfSeq
  <1>3. Len(keys) \in Nat
    BY <1>1, LenProperties
  <1>4. k \in 0..MaxKeys
    BY <1>1, <1>3, AccessAssumption
  <1>5. QED
    BY <1>2, <1>4 DEF Key

(* set_org_scope and the role check, on a free connection.                  *)
LEMMA EnterStep ==
    ASSUME IInv, NEW s \in Sessions, NEW c \in Free, NEW org \in Orgs, NEW role,
           sess[s].pc \in {"auth", "scope"}, sess[s].op # None,
           Enter(s, c, org, role), UNCHANGED <<enforced, stored, traffic>>
    PROVE  IInv'
  <1>1. TablesKept
    BY TablesUnchanged
  <1>2. sess \in [Sessions -> Session] /\ sess[s].conn = None
    BY DEF IInv, TypeOK, SessionsStand, Standing
  <1>3. c \in HeldBy(s) /\ c \in Conns
    BY <1>2 DEF HeldBy, Free
  <1>4. CASE role \in Allowed(sess[s].op)
    <2>1. Statements(sess[s].op) \in Seq(Steps)
      BY <1>2, StatementsTyped DEF Session, Ops
    <2> DEFINE r == At("run", Scim, sess[s].op, org, c, Statements(sess[s].op))
    <2>2. r \in Session
      <3>2. sess[s].op \in {None} \cup Ops \cup {"deprovision"}
        BY <1>2 DEF Session, Ops
      <3>3. 0 \in 0..MaxKeys
        BY AccessAssumption
      <3>4. QED
        BY <1>3, <2>1, <3>2, <3>3 DEF At, Session, Ops
    <2>3. /\ sess' \in [Sessions -> Session] /\ sess'[s] = r
          /\ \A t \in Sessions \ {s} : sess'[t] = sess[t]
      BY <1>2, <1>4, <2>2 DEF Enter
    <2>4. /\ sess'[s].pc = "run" /\ sess'[s].org = org /\ sess'[s].conn = c
          /\ sess'[s].saw = {} /\ guc' = [guc EXCEPT ![c] = org]
      BY <1>2, <1>4, <2>3 DEF Enter, At
    <2>5. Standing(sess[s])'
      BY <2>4 DEF Standing
    <2>6. QED
      BY <1>1, <1>3, <2>3, <2>4, <2>5, SessionStep
  <1>5. CASE role \notin Allowed(sess[s].op)
    <2>1. /\ sess' = [sess EXCEPT ![s] = Idle]
          /\ guc' = [guc EXCEPT ![c] = None]
      BY <1>5 DEF Enter, Finish, EndTransaction, AfterTransaction
    <2>2. sess' \in [Sessions -> Session] /\ sess'[s] = Idle
      BY <1>2, <2>1, IdleTyped
    <2>3. Standing(sess[s])'
      BY <2>2 DEF Standing, Idle, At
    <2>4. QED
      BY <1>1, <1>2, <1>3, <2>1, <2>2, <2>3, SessionStep DEF Idle, At
  <1>6. QED
    BY <1>4, <1>5

(* The end of a request, on a connection it holds or has just taken.        *)
LEMMA FinishStep ==
    ASSUME IInv, NEW s \in Sessions, NEW c \in HeldBy(s), Finish(s, c),
           UNCHANGED <<enforced, stored, traffic>>
    PROVE  IInv'
  <1>1. /\ sess' = [sess EXCEPT ![s] = Idle]
        /\ guc' = [guc EXCEPT ![c] = None]
    BY DEF Finish, EndTransaction, AfterTransaction
  <1>2. sess' \in [Sessions -> Session] /\ sess'[s] = Idle
    BY <1>1, IdleTyped DEF IInv, TypeOK
  <1>3. Standing(sess[s])'
    BY <1>2 DEF Standing, Idle, At
  <1>4. QED
    BY <1>1, <1>2, <1>3, TablesUnchanged, SessionStep DEF Idle, At

(* SCIM's handler has no organisation, and runs to its end.                 *)
LEMMA Onward ==
    ASSUME IInv, NEW s \in Sessions, NEW st, Does(s, st)
    PROVE  \/ sess[s].org \in Orgs
           \/ /\ sess[s].op = "deprovision"
              /\ Tail(sess[s].todo) \in {<<"delete", "commit">>, <<"commit">>, <<>>}
  <1>1. Tail(<<"delete", "commit">>) = <<"commit">> /\ Tail(<<"commit">>) = <<>>
    OBVIOUS
  <1>2. Standing(sess[s]) /\ sess[s].pc = "run" /\ sess[s].todo # <<>>
    BY DEF IInv, SessionsStand, Does, Is
  <1>3. QED
    BY <1>1, <1>2 DEF Standing

(* A statement of a handler that is shown the rows of its connection.       *)
LEMMA ProceedStep ==
    ASSUME IInv, NEW s \in Sessions, NEW c \in HeldBy(s), NEW st,
           Does(s, st), Proceed(s, c), guc' = guc, TablesKept
    PROVE  IInv'
  <1>1. sess \in [Sessions -> Session] /\ sess[s] \in Session
    BY DEF IInv, TypeOK
  <1>2. Tail(sess[s].todo) \in Seq(Steps)
    BY <1>1, HeadTailProperties DEF Does, Session
  <1>3. Visible(c) \in SUBSET Orgs /\ c \in Conns
    BY OwnConnection
  <1>4. sess' \in [Sessions -> Session]
    BY <1>1, <1>2, <1>3 DEF Proceed, Session
  <1>5. /\ sess'[s].pc = "run" /\ sess'[s].org = sess[s].org /\ sess'[s].op = sess[s].op
        /\ sess'[s].conn = c /\ sess'[s].saw = Visible(c)
        /\ sess'[s].todo = Tail(sess[s].todo)
        /\ \A t \in Sessions \ {s} : sess'[t] = sess[t]
    BY <1>1 DEF Proceed, Does, Is
  <1>6. Standing(sess[s])'
    BY <1>5, Onward DEF Standing
  <1>7. guc' = [guc EXCEPT ![c] = guc[c]] /\ guc[c] \in Orgs \cup {None}
        /\ guc[c] \in {None, sess'[s].org}
    BY <1>5, OwnConnection
  <1>8. enforced => sess'[s].saw \subseteq {sess'[s].org}
    BY <1>5, OwnConnection
  <1>9. QED
    BY <1>4, <1>5, <1>6, <1>7, <1>8, SessionStep

(* A statement that commits, and gives the connection back.                 *)
LEMMA CommitStep ==
    ASSUME IInv, NEW s \in Sessions, NEW c \in HeldBy(s), NEW st,
           Does(s, st), TablesKept, guc' = [guc EXCEPT ![c] = None],
           sess' = [sess EXCEPT ![s].todo = Tail(@), ![s].conn = None, ![s].saw = {}]
    PROVE  IInv'
  <1>1. sess \in [Sessions -> Session] /\ sess[s] \in Session
    BY DEF IInv, TypeOK
  <1>2. Tail(sess[s].todo) \in Seq(Steps)
    BY <1>1, HeadTailProperties DEF Does, Session
  <1>3. sess' \in [Sessions -> Session]
    BY <1>1, <1>2 DEF Session
  <1>4. /\ sess'[s].pc = "run" /\ sess'[s].org = sess[s].org /\ sess'[s].op = sess[s].op
        /\ sess'[s].conn = None /\ sess'[s].saw = {}
        /\ sess'[s].todo = Tail(sess[s].todo)
        /\ \A t \in Sessions \ {s} : sess'[t] = sess[t]
    BY <1>1 DEF Does, Is
  <1>5. Standing(sess[s])'
    BY <1>4, Onward DEF Standing
  <1>6. QED
    BY <1>3, <1>4, <1>5, SessionStep

(* A statement that the policies refuse.                                    *)
LEMMA HiddenStep ==
    ASSUME IInv, NEW s \in Sessions, NEW c \in HeldBy(s), Hidden(s, c),
           UNCHANGED <<enforced, stored, traffic>>
    PROVE  IInv'
  <1>1. sess \in [Sessions -> Session] /\ sess[s] \in Session
    BY DEF IInv, TypeOK
  <1>2. Visible(c) \in SUBSET Orgs
    BY OwnConnection
  <1>3. sess' \in [Sessions -> Session]
    BY <1>1, <1>2 DEF Hidden, Session
  <1>4. /\ sess'[s].pc = "hidden" /\ sess'[s].org = sess[s].org
        /\ sess'[s].conn = None /\ sess'[s].saw = Visible(c)
        /\ \A t \in Sessions \ {s} : sess'[t] = sess[t]
        /\ guc' = [guc EXCEPT ![c] = None]
    BY <1>1 DEF Hidden, EndTransaction, AfterTransaction
  <1>5. Standing(sess[s])'
    BY <1>4 DEF Standing
  <1>6. enforced => sess'[s].saw \subseteq {sess'[s].org}
    BY <1>4, OwnConnection
  <1>7. QED
    BY <1>3, <1>4, <1>5, <1>6, TablesUnchanged, SessionStep

----------------------------------------------------------------------------
(* The actions of a session.                                                *)

LEMMA ArriveStep ==
    ASSUME IInv, NEW s \in Sessions, NEW c \in Clients, Arrive(s, c)
    PROVE  IInv'
  <1>1. TablesKept
    BY LenProperties, AccessAssumption DEF IInv, TypeOK, TablesKept, Arrive, stored
  <1>2. sess \in [Sessions -> Session] /\ sess[s].conn = None /\ guc' = guc
    BY DEF IInv, TypeOK, SessionsStand, Standing, Arrive, Is
  <1>3. CASE sess' = sess
    <2>1. keys' = keys
      BY DEF Arrive, stored
    <2>2. QED
      BY <1>1, <1>2, <1>3, <2>1, QuietStep
  <1>4. ASSUME NEW cred \in Bearer \cup Claims \cup {Scim},
               NEW op \in Ops \cup {"deprovision"},
               cred = Scim => op = "deprovision", Start(s, cred, op)
        PROVE  IInv'
    <2>1. cred \in {Scim} \cup Claims \cup [kind : {"key"}, id : 1..MaxKeys]
      <3>1. DOMAIN keys \subseteq 1..MaxKeys
        BY LenProperties, AccessAssumption DEF IInv, TypeOK
      <3>2. QED
        BY <3>1 DEF Bearer
    <2>2. At("auth", cred, op, None, None, <<>>) \in Session
      BY <2>1, AccessAssumption DEF At, Session, Ops
    <2>3. /\ sess' \in [Sessions -> Session]
          /\ sess'[s] = At("auth", cred, op, None, None, <<>>)
          /\ \A t \in Sessions \ {s} : sess'[t] = sess[t]
      BY <1>2, <1>4, <2>2 DEF Start
    <2>4. cred.kind = "scim" => cred = Scim
      BY DEF Bearer, Claims, Scim
    <2>5. Standing(sess[s])'
      BY <1>4, <2>3, <2>4 DEF Standing, At, None, Ops
    <2>6. sess'[s].conn = None /\ sess'[s].saw = {}
      BY <2>3 DEF At
    <2>7. QED
      BY <1>1, <1>2, <2>3, <2>5, <2>6, SessionStep
  <1>5. QED
    <2>1. \A cred \in Bearer \cup Claims : cred # Scim
      BY DEF Bearer, Claims, Scim
    <2>2. CASE Len(Recent(hits[c])) >= Limit
      BY <1>3, <2>2 DEF Arrive
    <2>3. CASE ~(Len(Recent(hits[c])) >= Limit)
      <3>1. \/ \E cred \in Bearer \cup Claims, op \in Ops : Start(s, cred, op)
            \/ Start(s, Scim, "deprovision")
        BY <2>3 DEF Arrive
      <3>2. QED
        BY <1>4, <2>1, <3>1
    <2>4. QED
      BY <2>2, <2>3

LEMMA VerifyKeyStep ==
    ASSUME IInv, NEW s \in Sessions, VerifyKey(s)
    PROVE  IInv'
  <1> PICK c \in Free :
        /\ Is(s, "auth") /\ sess[s].cred.kind = "key"
        /\ IF Candidates(sess[s].cred.id, c) = {sess[s].cred.id}
           THEN /\ sess' = [sess EXCEPT ![s].pc = "touch", ![s].conn = c,
                                        ![s].key = sess[s].cred.id, ![s].saw = Visible(c)]
                /\ UNCHANGED guc
           ELSE Finish(s, c)
        /\ UNCHANGED <<enforced, stored, traffic>>
    BY DEF VerifyKey
  <1>1. sess \in [Sessions -> Session] /\ sess[s] \in Session /\ sess[s].conn = None
    BY DEF IInv, TypeOK, SessionsStand, Standing, Is
  <1>2. c \in HeldBy(s)
    BY <1>1 DEF HeldBy
  <1>3. CASE Candidates(sess[s].cred.id, c) = {sess[s].cred.id}
    <2> DEFINE id == sess[s].cred.id
    <2>1. id \in 1..Len(keys)
      <3>1. id \in DOMAIN keys
        BY <1>3 DEF Candidates
      <3>2. QED
        BY <3>1, LenProperties DEF IInv, TypeOK
    <2>2. id \in 0..MaxKeys /\ Visible(c) \in SUBSET Orgs /\ c \in Conns /\ c # None
      BY <1>2, <2>1, KeyOf, OwnConnection, AccessAssumption
    <2>3. sess' \in [Sessions -> Session]
      BY <1>1, <1>3, <2>2 DEF Session
    <2>4. /\ sess'[s].pc = "touch" /\ sess'[s].conn = c /\ sess'[s].key = id
          /\ sess'[s].op = sess[s].op /\ sess[s].op # None
          /\ sess'[s].saw = Visible(c) /\ sess'[s].org = sess[s].org
          /\ \A t \in Sessions \ {s} : sess'[t] = sess[t]
          /\ guc' = [guc EXCEPT ![c] = guc[c]]
      BY <1>1, <1>2, <1>3, OwnConnection DEF Session, IInv, SessionsStand, Standing, Is
    <2>5. TablesKept /\ keys' = keys
      BY TablesUnchanged DEF stored
    <2>6. Standing(sess[s])'
      BY <2>1, <2>2, <2>4, <2>5 DEF Standing
    <2>7. /\ enforced => sess'[s].saw \subseteq {sess'[s].org}
          /\ guc[c] \in Orgs \cup {None} /\ guc[c] \in {None, sess'[s].org}
      BY <1>2, <2>4, OwnConnection
    <2>8. QED
      BY <1>2, <2>3, <2>4, <2>5, <2>6, <2>7, SessionStep
  <1>4. CASE Candidates(sess[s].cred.id, c) # {sess[s].cred.id}
    BY <1>2, <1>4, FinishStep
  <1>5. QED
    BY <1>3, <1>4

LEMMA TouchKeyStep ==
    ASSUME IInv, NEW s \in Sessions, TouchKey(s)
    PROVE  IInv'
  <1>1. /\ sess \in [Sessions -> Session] /\ sess[s] \in Session
        /\ sess[s].pc = "touch" /\ sess[s].conn # None /\ sess[s].key \in 1..Len(keys)
        /\ sess[s].op # None
    BY DEF IInv, TypeOK, SessionsStand, Standing, TouchKey, Is
  <1>2. sess[s].conn \in HeldBy(s)
    BY <1>1 DEF HeldBy
  <1>3. keys' = keys
    BY DEF TouchKey, Touched, IInv, TypeOK
  <1>4. TablesKept
    BY <1>3, TablesUnchanged DEF TouchKey, stored
  <1>5. sess' \in [Sessions -> Session]
    BY <1>1, AccessAssumption DEF TouchKey, Session
  <1>6. /\ sess'[s].pc = "scope" /\ sess'[s].conn = None /\ sess'[s].saw = {}
        /\ sess'[s].key = sess[s].key /\ sess'[s].op = sess[s].op
        /\ \A t \in Sessions \ {s} : sess'[t] = sess[t]
        /\ guc' = [guc EXCEPT ![sess[s].conn] = None]
    BY <1>1 DEF TouchKey, EndTransaction, AfterTransaction, Session
  <1>7. Standing(sess[s])'
    BY <1>1, <1>3, <1>6 DEF Standing
  <1>8. QED
    BY <1>2, <1>4, <1>5, <1>6, <1>7, SessionStep

LEMMA ScopeKeyStep ==
    ASSUME IInv, NEW s \in Sessions, ScopeKey(s)
    PROVE  IInv'
  <1>1. PICK c \in Free : /\ Is(s, "scope")
                          /\ Enter(s, c, keys[sess[s].key].org, keys[sess[s].key].role)
                          /\ UNCHANGED <<enforced, stored, traffic>>
    BY DEF ScopeKey
  <1>2. /\ sess[s].key \in 1..Len(keys) /\ sess[s].pc \in {"auth", "scope"}
        /\ sess[s].op # None
    BY <1>1 DEF Is, IInv, SessionsStand, Standing
  <1>3. keys[sess[s].key].org \in Orgs
    BY <1>2, KeyOf
  <1>4. QED
    BY <1>1, <1>2, <1>3, EnterStep

LEMMA VerifyClaimsStep ==
    ASSUME IInv, NEW s \in Sessions, VerifyClaims(s)
    PROVE  IInv'
  <1> DEFINE cl == sess[s].cred
  <1>1. PICK c \in Free :
          /\ Is(s, "auth") /\ cl.kind = "claims"
          /\ IF cl.exp > clock THEN Enter(s, c, cl.org, RoleOf(cl, c)) ELSE Finish(s, c)
          /\ UNCHANGED <<enforced, stored, traffic>>
    BY DEF VerifyClaims
  <1>2. /\ sess[s] \in Session /\ sess[s].pc \in {"auth", "scope"}
        /\ sess[s].conn = None /\ sess[s].op # None
    BY <1>1 DEF Is, IInv, TypeOK, SessionsStand, Standing
  <1>3. c \in HeldBy(s)
    BY <1>2 DEF HeldBy
  <1>4. cl.org \in Orgs
    BY <1>1, <1>2 DEF Session, Claims, Scim
  <1>5. QED
    BY <1>1, <1>2, <1>3, <1>4, EnterStep, FinishStep

LEMMA VerifyScimStep ==
    ASSUME IInv, NEW s \in Sessions, VerifyScim(s)
    PROVE  IInv'
  <1>1. /\ sess \in [Sessions -> Session] /\ sess[s] \in Session /\ sess[s].conn = None
        /\ sess[s].op = "deprovision"
    BY DEF IInv, TypeOK, SessionsStand, Standing, VerifyScim, Is
  <1>2. Statements("deprovision") = <<"delete", "commit">>
    BY DEF Statements
  <1>3. sess' \in [Sessions -> Session]
    BY <1>1, StatementsTyped, ZenonT(40) DEF VerifyScim, Session
  <1>4. /\ sess'[s].pc = "run" /\ sess'[s].op = "deprovision" /\ sess'[s].conn = None
        /\ sess'[s].todo = <<"delete", "commit">> /\ guc' = guc
        /\ sess'[s].saw = sess[s].saw /\ sess'[s].org = sess[s].org
        /\ \A t \in Sessions \ {s} : sess'[t] = sess[t]
    BY <1>1, <1>2 DEF VerifyScim, Session
  <1>5. Standing(sess[s])'
    BY <1>4 DEF Standing
  <1>6. enforced => sess'[s].saw \subseteq {sess'[s].org}
    BY <1>4 DEF IInv, OwnRowsOnly
  <1>7. TablesKept
    BY TablesUnchanged DEF VerifyScim
  <1>8. QED
    BY <1>1, <1>3, <1>4, <1>5, <1>6, <1>7, SessionStep

LEMMA SelectStep ==
    ASSUME IInv, NEW s \in Sessions, Select(s)
    PROVE  IInv'
  BY ProceedStep, TablesUnchanged DEF Select

(* Only a handler with an organisation asks for its plan or inserts.        *)
LEMMA OrgOfHandler ==
    ASSUME IInv, NEW s \in Sessions, NEW st \in Steps \ {"delete", "commit"}, Does(s, st)
    PROVE  sess[s].org \in Orgs
  <1>1. Head(<<"delete", "commit">>) = "delete" /\ Head(<<"commit">>) = "commit"
    OBVIOUS
  <1>2. QED
    BY <1>1 DEF IInv, SessionsStand, Standing, Does, Is

LEMMA PlanStep ==
    ASSUME IInv, NEW s \in Sessions, Plan(s)
    PROVE  IInv'
  <1>1. PICK c \in HeldBy(s) :
          /\ Does(s, "plan")
          /\ plans' = plans \cup {sess[s].org}
          /\ IF sess[s].org \in plans
             THEN Proceed(s, c) /\ UNCHANGED guc
             ELSE /\ sess' = [sess EXCEPT ![s].todo = Tail(@), ![s].conn = None,
                                          ![s].saw = {}]
                  /\ EndTransaction(c)
          /\ UNCHANGED <<enforced, keys, members, traffic>>
    BY DEF Plan
  <1>2. sess[s].org \in Orgs
    BY <1>1, OrgOfHandler DEF Steps
  <1>3. TablesKept
    BY <1>1, <1>2, LenProperties DEF IInv, TypeOK, TablesKept, traffic
  <1>4. CASE sess[s].org \in plans
    BY <1>1, <1>3, <1>4, ProceedStep
  <1>5. CASE sess[s].org \notin plans
    BY <1>1, <1>3, <1>5, CommitStep DEF EndTransaction, AfterTransaction
  <1>6. QED
    BY <1>4, <1>5

LEMMA InsertStep ==
    ASSUME IInv, NEW s \in Sessions, Insert(s)
    PROVE  IInv'
  BY ProceedStep, HiddenStep, TablesUnchanged DEF Insert

LEMMA RefreshStep ==
    ASSUME IInv, NEW s \in Sessions, Refresh(s)
    PROVE  IInv'
  BY ProceedStep, HiddenStep, TablesUnchanged DEF Refresh

(* The keys a commit leaves: one more, or the same with one revoked.        *)
LEMMA CommittedKeys ==
    ASSUME IInv, NEW s \in Sessions, Commit(s)
    PROVE  /\ keys' \in Seq(Key) /\ Len(keys') <= MaxKeys /\ Len(keys) <= Len(keys')
           /\ \A k \in 1..Len(keys) : keys[k].revoked => keys'[k].revoked
  <1>1. /\ keys \in Seq(Key) /\ Len(keys) \in Nat /\ Len(keys) <= MaxKeys
        /\ DOMAIN keys = 1..Len(keys) /\ \A k \in 1..Len(keys) : keys[k] \in Key
    BY LenProperties, ElementOfSeq DEF IInv, TypeOK
  <1>2. CASE sess[s].op = "create_key" /\ Len(keys) < MaxKeys
    <2>1. Does(s, "commit")
      BY DEF Commit
    <2>2. sess[s].org \in Orgs
      BY <1>2, <2>1 DEF IInv, SessionsStand, Standing, Does, Is
    <2>3. PICK k \in Key : keys' = Append(keys, k)
      BY <1>2, <2>2 DEF Commit, Created, Key
    <2>4. /\ keys' \in Seq(Key) /\ Len(keys') = Len(keys) + 1
          /\ \A i \in 1..Len(keys) : keys'[i] = keys[i]
      BY <1>1, <2>3, AppendProperties
    <2>5. Len(keys') <= MaxKeys
      BY <1>1, <1>2, <2>4, AccessAssumption
    <2>6. QED
      BY <1>1, <2>4, <2>5
  <1>3. CASE ~(sess[s].op = "create_key" /\ Len(keys) < MaxKeys)
    <2> DEFINE r(k) == IF sess[s].op = "revoke_key" /\ k = sess[s].key
                       THEN [keys[k] EXCEPT !.revoked = TRUE] ELSE keys[k]
    <2>1. keys' = [k \in 1..Len(keys) |-> r(k)]
      BY <1>1, <1>3 DEF Commit
    <2>2. \A k \in 1..Len(keys) : r(k) \in Key /\ (keys[k].revoked => r(k).revoked)
      BY <1>1 DEF Key
    <2>3. keys' \in [1..Len(keys) -> Key]
      BY <2>1, <2>2
    <2>4. keys' \in Seq(Key) /\ Len(keys') = Len(keys)
      BY <1>1, <2>3
    <2>5. QED
      BY <1>1, <2>1, <2>2, <2>4
  <1>4. QED
    BY <1>2, <1>3

LEMMA CommitActionStep ==
    ASSUME IInv, NEW s \in Sessions, Commit(s)
    PROVE  IInv'
  <1>1. PICK c \in HeldBy(s) :
          /\ Does(s, "commit")
          /\ sess' = [sess EXCEPT ![s].todo = Tail(@), ![s].conn = None, ![s].saw = {}]
          /\ guc' = [guc EXCEPT ![c] = None]
          /\ UNCHANGED <<enforced, members, plans, traffic>>
    BY DEF Commit, EndTransaction, AfterTransaction
  <1>2. TablesKept
    BY <1>1, CommittedKeys DEF IInv, TypeOK, TablesKept, traffic
  <1>3. QED
    BY <1>1, <1>2, CommitStep

LEMMA RecordActionStep ==
    ASSUME IInv, NEW s \in Sessions, RecordAction(s)
    PROVE  IInv'
  BY CommitStep, TablesUnchanged DEF RecordAction, EndTransaction, AfterTransaction

LEMMA FindKeyStep ==
    ASSUME IInv, NEW s \in Sessions, FindKey(s)
    PROVE  IInv'
  <1>1. PICK c \in HeldBy(s) :
          /\ Does(s, "find")
          /\ \/ \E k \in DOMAIN keys :
                  /\ sess' = [sess EXCEPT ![s].todo = Tail(@), ![s].conn = c, ![s].key = k,
                                          ![s].saw = Visible(c)]
                  /\ guc' = guc
             \/ Finish(s, c)
          /\ UNCHANGED <<enforced, stored, traffic>>
    BY DEF FindKey
  <1>2. CASE Finish(s, c)
    BY <1>1, <1>2, FinishStep
  <1>3. ASSUME NEW k \in DOMAIN keys, guc' = guc,
               sess' = [sess EXCEPT ![s].todo = Tail(@), ![s].conn = c, ![s].key = k,
                                    ![s].saw = Visible(c)]
        PROVE  IInv'
    <2>1. sess \in [Sessions -> Session] /\ sess[s] \in Session
      BY DEF IInv, TypeOK
    <2>2. Tail(sess[s].todo) \in Seq(Steps)
      BY <1>1, <2>1, HeadTailProperties DEF Does, Session
    <2>3. k \in 0..MaxKeys /\ Visible(c) \in SUBSET Orgs /\ c \in Conns
      <3>1. k \in 1..Len(keys)
        BY LenProperties DEF IInv, TypeOK
      <3>2. QED
        BY <3>1, KeyOf, OwnConnection
    <2>4. sess' \in [Sessions -> Session]
      BY <1>3, <2>1, <2>2, <2>3 DEF Session
    <2>5. /\ sess'[s].pc = "run" /\ sess'[s].org = sess[s].org /\ sess'[s].op = sess[s].op
          /\ sess'[s].conn = c /\ sess'[s].saw = Visible(c)
          /\ sess'[s].todo = Tail(sess[s].todo)
          /\ \A t \in Sessions \ {s} : sess'[t] = sess[t]
          /\ guc' = [guc EXCEPT ![c] = guc[c]]
      BY <1>1, <1>3, <2>1, OwnConnection DEF Does, Is, Session
    <2>6. Standing(sess[s])'
      BY <1>1, <2>5, Onward DEF Standing
    <2>7. /\ enforced => sess'[s].saw \subseteq {sess'[s].org}
          /\ guc[c] \in Orgs \cup {None} /\ guc[c] \in {None, sess'[s].org}
      BY <2>5, OwnConnection
    <2>8. QED
      BY <1>1, <2>4, <2>5, <2>6, <2>7, TablesUnchanged, SessionStep
  <1>4. QED
    BY <1>1, <1>2, <1>3

LEMMA DeprovisionStep ==
    ASSUME IInv, NEW s \in Sessions, Deprovision(s)
    PROVE  IInv'
  <1>1. PICK u \in Users, c \in HeldBy(s) :
          /\ Does(s, "delete")
          /\ members' = [ou \in DOMAIN members |->
               IF ou[2] = u /\ ou[1] \in Visible(c) THEN None ELSE members[ou]]
          /\ Proceed(s, c)
          /\ UNCHANGED <<enforced, keys, plans, guc, traffic>>
    BY DEF Deprovision
  <1>2. members' \in [Orgs \X Users -> Roles \cup {None}]
    BY <1>1 DEF IInv, TypeOK
  <1>3. TablesKept
    BY <1>1, <1>2, LenProperties DEF IInv, TypeOK, TablesKept, traffic
  <1>4. QED
    BY <1>1, <1>3, ProceedStep

LEMMA CloseStep ==
    ASSUME IInv, NEW s \in Sessions, Close(s)
    PROVE  IInv'
  <1>1. CASE sess[s].conn = None
    <2>1. sess' = [sess EXCEPT ![s] = Idle] /\ guc' = guc
      BY <1>1 DEF Close
    <2>2. sess' \in [Sessions -> Session] /\ sess'[s] = Idle
      BY <2>1, IdleTyped DEF IInv, TypeOK
    <2>3. Standing(sess[s])'
      BY <2>2 DEF Standing, Idle, At
    <2>4. TablesKept
      BY TablesUnchanged DEF Close
    <2>5. sess'[s].conn = None /\ sess'[s].saw = {}
      BY <2>2 DEF Idle, At
    <2>6. QED
      BY <1>1, <2>1, <2>2, <2>3, <2>4, <2>5, SessionStep
  <1>2. CASE sess[s].conn # None
    BY <1>2, FinishStep DEF Close, HeldBy
  <1>3. QED
    BY <1>1, <1>2

LEMMA CrashStep ==
    ASSUME IInv, NEW s \in Sessions, Crash(s)
    PROVE  IInv'
  BY FinishStep DEF Crash, HeldBy

LEMMA TickStep ==
    ASSUME IInv, Tick
    PROVE  IInv'
  <1>1. clock' \in 0..MaxClock
    BY AccessAssumption DEF Tick, IInv, TypeOK
  <1>2. TablesKept
    BY <1>1, LenProperties DEF Tick, IInv, TypeOK, TablesKept, stored
  <1>3. QED
    BY <1>2, QuietStep DEF Tick, stored

LEMMA JoinStep ==
    ASSUME IInv, Join
    PROVE  IInv'
  <1>1. members' \in [Orgs \X Users -> Roles \cup {None}]
    BY AccessAssumption DEF Join, IInv, TypeOK, Roles
  <1>2. TablesKept
    BY <1>1, LenProperties DEF Join, IInv, TypeOK, TablesKept, traffic
  <1>3. QED
    BY <1>2, QuietStep DEF Join

LEMMA NextPreserves == IInv /\ [Next]_vars => IInv'
  <1> SUFFICES ASSUME IInv, [Next]_vars PROVE IInv'
    OBVIOUS
  <1>1. CASE UNCHANGED vars
    BY <1>1, TablesUnchanged, QuietStep DEF vars, stored, traffic
  <1>2. CASE Tick \/ Join
    BY <1>2, TickStep, JoinStep
  <1>3. ASSUME NEW s \in Sessions,
               \/ \E c \in Clients : Arrive(s, c)
               \/ VerifyKey(s) \/ TouchKey(s) \/ ScopeKey(s) \/ VerifyClaims(s)
               \/ VerifyScim(s) \/ Select(s) \/ Plan(s) \/ Insert(s) \/ Commit(s)
               \/ Refresh(s) \/ RecordAction(s) \/ FindKey(s) \/ Deprovision(s)
               \/ Close(s) \/ Crash(s)
        PROVE  IInv'
    BY <1>3, ArriveStep, VerifyKeyStep, TouchKeyStep, ScopeKeyStep, VerifyClaimsStep,
       VerifyScimStep, SelectStep, PlanStep, InsertStep, CommitActionStep, RefreshStep,
       RecordActionStep, FindKeyStep, DeprovisionStep, CloseStep, CrashStep
  <1>4. QED
    BY <1>1, <1>2, <1>3 DEF Next

----------------------------------------------------------------------------
(* Theorems.                                                                *)

(* The invariant the others rest on.                                        *)
THEOREM Invariance == Spec => []IInv
  BY InitEstablishes, NextPreserves, PTL DEF Spec

(* The keys, memberships, plans and settings stay well formed, and no two   *)
(* sessions hold the same connection (db.py's pool and get_db).             *)
THEOREM TypeCorrect == Spec => []TypeOK
  <1>1. IInv => TypeOK
    BY DEF IInv
  <1>2. QED
    BY <1>1, Invariance, PTL

(* With the row policies in force no statement of any handler is shown rows *)
(* of another organisation than the caller's, with any number of sessions   *)
(* and pooled connections (set_org_scope, migration 0002).                  *)
THEOREM OrgsIsolated == Spec => []OwnRowsOnly
  <1>1. IInv => OwnRowsOnly
    BY DEF IInv
  <1>2. QED
    BY <1>1, Invariance, PTL

(* A revoked API key is never restored, whatever requests read it before it *)
(* was revoked (verify_api_key, revoke_key).                                *)
THEOREM RevocationsStick == Spec => RevocationSticks
  <1> DEFINE Kept == \A k \in DOMAIN keys : keys[k].revoked => keys'[k].revoked
  <1>1. IInv /\ [Next]_vars => [Kept]_vars
    <2> SUFFICES ASSUME IInv, [Next]_vars PROVE Kept
      OBVIOUS
    <2>1. CASE keys' = keys
      BY <2>1
    <2>2. ASSUME NEW s \in Sessions, TouchKey(s) PROVE keys' = keys
      BY <2>2 DEF TouchKey, Touched, IInv, TypeOK
    <2>3. ASSUME NEW s \in Sessions, Commit(s) PROVE Kept
      BY <2>3, CommittedKeys, LenProperties DEF IInv, TypeOK
    <2>4. \/ keys' = keys
          \/ \E s \in Sessions : TouchKey(s) \/ Commit(s)
      <3>1. ASSUME NEW s \in Sessions, NEW c \in Clients, Arrive(s, c)
            PROVE  keys' = keys
        BY <3>1 DEF Arrive, stored
      <3>2. ASSUME NEW s \in Sessions, \/ VerifyKey(s) \/ ScopeKey(s)
                                       \/ VerifyClaims(s) \/ VerifyScim(s)
            PROVE  keys' = keys
        BY <3>2 DEF VerifyKey, ScopeKey, VerifyClaims, VerifyScim, stored
      <3>3. ASSUME NEW s \in Sessions, \/ Select(s) \/ Plan(s) \/ Insert(s)
                                       \/ Refresh(s) \/ RecordAction(s) \/ FindKey(s)
            PROVE  keys' = keys
        BY <3>3 DEF Select, Plan, Insert, Refresh, RecordAction, FindKey, stored
      <3>4. ASSUME NEW s \in Sessions, Deprovision(s) \/ Close(s) \/ Crash(s)
            PROVE  keys' = keys
        BY <3>4 DEF Deprovision, Close, Crash, stored
      <3>5. ASSUME Tick \/ Join \/ UNCHANGED vars PROVE keys' = keys
        BY <3>5 DEF Tick, Join, vars, stored
      <3>6. QED
        BY <3>1, <3>2, <3>3, <3>4, <3>5, Zenon DEF Next
    <2>5. QED
      BY <2>1, <2>2, <2>3, <2>4
  <1>2. QED
    BY <1>1, Invariance, PTL DEF Spec, RevocationSticks

----------------------------------------------------------------------------
(* The sliding window. What a client's window holds is the end of what it   *)
(* was let through, and what is missing from it is older than a minute.     *)

Windowed(c) ==
  LET past == admitted[c]  window == hits[c] IN
  /\ past \in Seq(Nat) /\ window \in Seq(Nat)
  /\ \A i \in 1..Len(past) : past[i] <= clock
  /\ \E k \in 0..Len(past) :
       /\ Len(window) = Len(past) - k
       /\ \A i \in 1..Len(window) : window[i] = past[k + i]
       /\ \A i \in 1..k : past[i] < clock - Window

Within(c, t) ==
  {i \in DOMAIN admitted[c] : t <= admitted[c][i] /\ admitted[c][i] <= t + Window}

RateInv == (\A c \in Clients : Windowed(c)) /\ RateBounded

LEMMA LeastNat ==
    ASSUME NEW T \in SUBSET Nat, T # {}
    PROVE  \E k \in T : \A j \in T : k <= j
  <1> DEFINE R == OpToRel(<, Nat)
  <1>1. IsWellFoundedOn(R, Nat)
    BY NatLessThanWellFounded
  <1>2. \A x, y \in Nat : x < y => <<x, y>> \in R
    BY DEF OpToRel
  <1> HIDE DEF R
  <1>3. PICK k \in T : \A j \in T : ~ (<<j, k>> \in R)
    BY <1>1, WFMin
  <1>4. ASSUME NEW j \in T PROVE k <= j
    <2>1. j \in Nat /\ k \in Nat
      OBVIOUS
    <2>2. ~ (j < k)
      BY <1>2, <1>3, <2>1
    <2>3. QED
      BY <2>1, <2>2
  <1>5. QED
    BY <1>4

\* Popping leaves the end of the window, and pops only what is old.
LEMMA Popping ==
  ASSUME NEW w \in Seq(Nat), NEW oldest \in Int
  PROVE  /\ PopUntil(w, oldest) \in Seq(Nat)
         /\ \E n \in 0..Len(w) :
              /\ Len(PopUntil(w, oldest)) = Len(w) - n
              /\ \A i \in 1..(Len(w) - n) : PopUntil(w, oldest)[i] = w[n + i]
              /\ \A i \in 1..n : w[i] < oldest
  <1> DEFINE Stop(n) == /\ \A i \in 1..n : w[i] < oldest
                        /\ n < Len(w) => w[n + 1] >= oldest
             T == {k \in 0..Len(w) : k < Len(w) => w[k + 1] >= oldest}
  <1>0. Len(w) \in Nat /\ \A i \in 1..Len(w) : w[i] \in Nat
    BY LenProperties, ElementOfSeq
  <1>1. \E n \in 0..Len(w) : Stop(n)
    <2>1. T \in SUBSET Nat /\ Len(w) \in T
      BY <1>0
    <2>2. PICK k \in T : \A j \in T : k <= j
      BY <2>1, LeastNat
    <2>3. ASSUME NEW i \in 1..k PROVE w[i] < oldest
      <3>1. /\ k \in 0..Len(w) /\ i \in Nat /\ 1 <= i /\ i <= k
            /\ i - 1 \in 0..Len(w) /\ i - 1 < Len(w) /\ ~(k <= i - 1)
        BY <1>0, <2>2
      <3>2. i - 1 \notin T
        BY <2>2, <3>1
      <3>3. ~(w[(i - 1) + 1] >= oldest)
        BY <3>1, <3>2
      <3>4. w[i] \in Nat /\ (i - 1) + 1 = i
        BY <1>0, <3>1
      <3>5. QED
        BY <3>3, <3>4
    <2>4. QED
      BY <2>2, <2>3
  <1> DEFINE n == CHOOSE m \in 0..Len(w) : Stop(m)
  <1>2. n \in 0..Len(w) /\ Stop(n)
    BY <1>1
  <1>3. PopUntil(w, oldest) = SubSeq(w, n + 1, Len(w))
    BY DEF PopUntil
  <1> HIDE DEF n
  <1>4. /\ SubSeq(w, n + 1, Len(w)) \in Seq(Nat)
        /\ Len(SubSeq(w, n + 1, Len(w))) = Len(w) - n
        /\ \A i \in 1..(Len(w) - n) : SubSeq(w, n + 1, Len(w))[i] = w[n + i]
    BY <1>0, <1>2, SubSeqProperties
  <1>5. QED
    BY <1>2, <1>3, <1>4

\* After popping, what a window lacks is older than a minute.
LEMMA RecentWindowed ==
  ASSUME TypeOK, NEW c \in Clients, Windowed(c)
  PROVE  /\ Recent(hits[c]) \in Seq(Nat)
         /\ \E k \in 0..Len(admitted[c]) :
              /\ Len(Recent(hits[c])) = Len(admitted[c]) - k
              /\ \A i \in 1..Len(Recent(hits[c])) :
                   Recent(hits[c])[i] = admitted[c][k + i]
              /\ \A i \in 1..k : admitted[c][i] < clock - Window
  <1> DEFINE past == admitted[c]
             w == hits[c]
             r == Recent(w)
  <1>1. /\ w \in Seq(Nat) /\ past \in Seq(Nat)
        /\ clock - Window \in Int
    BY AccessAssumption DEF Windowed, TypeOK
  <1>2. PICK k \in 0..Len(past) :
          /\ Len(w) = Len(past) - k
          /\ \A i \in 1..Len(w) : w[i] = past[k + i]
          /\ \A i \in 1..k : past[i] < clock - Window
    BY DEF Windowed
  <1>3. /\ r \in Seq(Nat)
        /\ \E n \in 0..Len(w) :
             /\ Len(r) = Len(w) - n
             /\ \A i \in 1..(Len(w) - n) : r[i] = w[n + i]
             /\ \A i \in 1..n : w[i] < clock - Window
    BY <1>1, Popping DEF Recent
  <1>4. PICK n \in 0..Len(w) :
          /\ Len(r) = Len(w) - n
          /\ \A i \in 1..(Len(w) - n) : r[i] = w[n + i]
          /\ \A i \in 1..n : w[i] < clock - Window
    BY <1>3
  <1>5. Len(past) \in Nat /\ Len(w) \in Nat
    BY <1>1, LenProperties
  <1> HIDE DEF r, w, past
  <1>6. k + n \in 0..Len(past) /\ Len(r) = Len(past) - (k + n)
    BY <1>2, <1>4, <1>5
  <1>7. \A i \in 1..Len(r) : r[i] = past[(k + n) + i]
    <2> SUFFICES ASSUME NEW i \in 1..Len(r) PROVE r[i] = past[(k + n) + i]
      OBVIOUS
    <2>1. r[i] = w[n + i] /\ n + i \in 1..Len(w)
      BY <1>4, <1>5
    <2>2. w[n + i] = past[k + (n + i)] /\ k + (n + i) = (k + n) + i
      BY <1>2, <1>5, <2>1
    <2>3. QED
      BY <2>1, <2>2
  <1>8. \A i \in 1..(k + n) : past[i] < clock - Window
    <2> SUFFICES ASSUME NEW i \in 1..(k + n) PROVE past[i] < clock - Window
      OBVIOUS
    <2>1. CASE i <= k
      BY <1>2, <2>1
    <2>2. CASE i > k
      <3>1. i - k \in 1..n /\ k + (i - k) = i /\ i - k \in 1..Len(w)
        BY <1>4, <1>5, <2>2
      <3>2. QED
        BY <1>2, <1>4, <3>1
    <2>3. QED
      BY <2>1, <2>2
  <1>9. QED
    BY <1>3, <1>6, <1>7, <1>8 DEF r, w, past

\* A request let through is one more in each of the last minutes, and those
\* before it there are in the window.
LEMMA AdmittedBounded ==
  ASSUME TypeOK, RateInv, NEW c \in Clients, Len(Recent(hits[c])) < Limit,
         DOMAIN admitted' = Clients,
         admitted'[c] = Append(admitted[c], clock), NEW t \in 0..MaxClock
  PROVE  Cardinality(Within(c, t)') <= Limit
  <1> DEFINE past == admitted[c]
  <1>1. PICK k \in 0..Len(past) :
          /\ Len(Recent(hits[c])) = Len(past) - k
          /\ \A i \in 1..k : past[i] < clock - Window
    BY RecentWindowed DEF RateInv
  <1>2. /\ past \in Seq(Nat) /\ Len(past) \in Nat /\ clock \in Nat
        /\ Limit \in Nat /\ Window \in Nat
        /\ DOMAIN past = 1..Len(past) /\ \A i \in 1..Len(past) : past[i] \in Nat
    <2>1. past \in Seq(Nat)
      BY DEF RateInv, Windowed
    <2>2. clock \in Nat /\ Limit \in Nat /\ Window \in Nat
      BY AccessAssumption DEF TypeOK
    <2>3. QED
      BY <2>1, <2>2, LenProperties, ElementOfSeq
  <1>3. /\ DOMAIN admitted'[c] = 1..(Len(past) + 1)
        /\ admitted'[c][Len(past) + 1] = clock
        /\ \A i \in 1..Len(past) : admitted'[c][i] = past[i]
    BY <1>2, AppendProperties
  <1>4. Within(c, t)' = {i \in 1..(Len(past) + 1) :
                           t <= admitted'[c][i] /\ admitted'[c][i] <= t + Window}
    BY <1>3 DEF Within
  <1> HIDE DEF past
  <1>5. CASE t + Window < clock
    <2>1. Within(c, t)' = {i \in 1..Len(past) : t <= past[i] /\ past[i] <= t + Window}
      <3>1. ~(admitted'[c][Len(past) + 1] <= t + Window)
        BY <1>2, <1>3, <1>5
      <3>2. \A i \in 1..(Len(past) + 1) : i \in 1..Len(past) \/ i = Len(past) + 1
        BY <1>2
      <3>3. \A i \in 1..Len(past) : i \in 1..(Len(past) + 1)
        BY <1>2
      <3>4. \A i : i \in Within(c, t)' <=>
                    i \in 1..Len(past) /\ t <= past[i] /\ past[i] <= t + Window
        BY <1>3, <1>4, <3>1, <3>2, <3>3, Zenon
      <3>5. QED
        BY <3>4, Zenon
    <2>2. Within(c, t)' = Within(c, t)
      BY <1>2, <2>1 DEF Within, past
    <2>3. QED
      BY <2>2 DEF RateInv, RateBounded, Within
  <1>6. CASE ~(t + Window < clock)
    <2> DEFINE recent == (k + 1)..(Len(past) + 1)
    <2>1. Within(c, t)' \subseteq recent
      <3> SUFFICES ASSUME NEW i \in Within(c, t)' PROVE i \in recent
        OBVIOUS
      <3>0. i \in 1..(Len(past) + 1) /\ t <= admitted'[c][i]
        BY <1>4
      <3>1. ASSUME i <= k PROVE FALSE
        <4>1. i \in 1..k /\ i \in 1..Len(past)
          BY <1>1, <1>2, <3>0, <3>1
        <4>2. past[i] < clock - Window /\ t <= past[i]
          BY <1>1, <1>3, <3>0, <4>1
        <4>3. QED
          BY <1>2, <1>6, <4>1, <4>2
      <3>2. QED
        BY <1>1, <1>2, <3>0, <3>1
    <2>2. IsFiniteSet(recent) /\ Cardinality(recent) = (Len(past) + 1) - (k + 1) + 1
      BY <1>1, <1>2, FS_Interval
    <2>3. Cardinality(recent) <= Limit
      BY <1>1, <1>2, <2>2
    <2> HIDE DEF recent
    <2>4. Cardinality(Within(c, t)') <= Cardinality(recent)
      BY <2>1, <2>2, FS_Subset
    <2>5. IsFiniteSet(Within(c, t)') /\ Cardinality(Within(c, t)') \in Nat
          /\ Cardinality(recent) \in Nat
      BY <2>1, <2>2, FS_Subset, FS_CardinalityType
    <2>6. QED
      BY <1>2, <2>3, <2>4, <2>5
  <1>7. QED
    BY <1>5, <1>6

LEMMA ArriveRate ==
  ASSUME TypeOK, RateInv, NEW s \in Sessions, NEW c \in Clients, Arrive(s, c)
  PROVE  RateInv'
  <1> DEFINE w == Recent(hits[c])
  <1>1. /\ DOMAIN hits = Clients /\ DOMAIN admitted = Clients
        /\ clock' = clock /\ clock \in Nat /\ Limit \in Nat
    BY AccessAssumption DEF TypeOK, Arrive
  <1>2. PICK k \in 0..Len(admitted[c]) :
          /\ Len(w) = Len(admitted[c]) - k
          /\ \A i \in 1..Len(w) : w[i] = admitted[c][k + i]
          /\ \A i \in 1..k : admitted[c][i] < clock - Window
    BY RecentWindowed DEF RateInv
  <1>3. /\ w \in Seq(Nat) /\ admitted[c] \in Seq(Nat)
        /\ Len(w) \in Nat /\ Len(admitted[c]) \in Nat
        /\ \A i \in 1..Len(admitted[c]) : admitted[c][i] <= clock
    BY RecentWindowed, LenProperties DEF RateInv, Windowed
  <1> HIDE DEF w
  <1>4. CASE Len(w) >= Limit
    <2>1. admitted' = admitted /\ hits' = [hits EXCEPT ![c] = w]
      BY <1>4 DEF Arrive, w
    <2>2. Windowed(c)'
      BY <1>1, <1>2, <1>3, <2>1 DEF Windowed
    <2>3. \A d \in Clients \ {c} : Windowed(d)'
      BY <1>1, <2>1 DEF Windowed, RateInv
    <2>4. RateBounded'
      BY <2>1 DEF RateInv, RateBounded
    <2>5. QED
      BY <2>2, <2>3, <2>4 DEF RateInv
  <1>5. CASE ~(Len(w) >= Limit)
    <2>1. /\ admitted' = [admitted EXCEPT ![c] = Append(@, clock)]
          /\ hits' = [hits EXCEPT ![c] = Append(w, clock)]
      BY <1>5 DEF Arrive, w
    <2>2. /\ admitted'[c] = Append(admitted[c], clock)
          /\ hits'[c] = Append(w, clock)
          /\ DOMAIN admitted' = Clients
          /\ \A d \in Clients \ {c} : admitted'[d] = admitted[d] /\ hits'[d] = hits[d]
      BY <1>1, <2>1
    <2>3. Windowed(c)'
      <3>1. /\ admitted'[c] \in Seq(Nat) /\ hits'[c] \in Seq(Nat)
            /\ Len(admitted'[c]) = Len(admitted[c]) + 1 /\ Len(hits'[c]) = Len(w) + 1
            /\ admitted'[c][Len(admitted[c]) + 1] = clock
            /\ hits'[c][Len(w) + 1] = clock
            /\ \A i \in 1..Len(admitted[c]) : admitted'[c][i] = admitted[c][i]
            /\ \A i \in 1..Len(w) : hits'[c][i] = w[i]
        BY <1>1, <1>3, <2>2, AppendProperties
      <3>2. \A i \in 1..Len(admitted'[c]) : admitted'[c][i] <= clock'
        <4> SUFFICES ASSUME NEW i \in 1..(Len(admitted[c]) + 1)
                     PROVE  admitted'[c][i] <= clock
          BY <1>1, <3>1
        <4>1. CASE i = Len(admitted[c]) + 1
          BY <1>1, <3>1, <4>1
        <4>2. CASE i \in 1..Len(admitted[c])
          BY <1>3, <3>1, <4>2
        <4>3. QED
          BY <1>3, <4>1, <4>2
      <3>3. /\ k \in 0..Len(admitted'[c])
            /\ Len(hits'[c]) = Len(admitted'[c]) - k
            /\ \A i \in 1..k : admitted'[c][i] < clock' - Window
        <4>1. k \in 0..Len(admitted[c]) /\ Len(w) = Len(admitted[c]) - k
          BY <1>2
        <4>2. /\ k \in 0..Len(admitted'[c])
              /\ Len(hits'[c]) = Len(admitted'[c]) - k
          BY <1>3, <3>1, <4>1
        <4>3. ASSUME NEW i \in 1..k PROVE admitted'[c][i] < clock' - Window
          <5>1. i \in 1..Len(admitted[c])
            BY <1>3, <4>1
          <5>2. admitted'[c][i] = admitted[c][i]
            BY <3>1, <5>1
          <5>3. admitted[c][i] < clock - Window
            BY <1>2
          <5>4. QED
            BY <1>1, <5>2, <5>3
        <4>4. QED
          BY <4>2, <4>3
      <3>4. \A i \in 1..Len(hits'[c]) : hits'[c][i] = admitted'[c][k + i]
        <4> SUFFICES ASSUME NEW i \in 1..Len(hits'[c])
                     PROVE  hits'[c][i] = admitted'[c][k + i]
          OBVIOUS
        <4>1. CASE i = Len(w) + 1
          <5>1. k + i = Len(admitted[c]) + 1
            BY <1>2, <1>3, <4>1
          <5>2. QED
            BY <3>1, <4>1, <5>1
        <4>2. CASE i \in 1..Len(w)
          <5>1. k + i \in 1..Len(admitted[c])
            BY <1>2, <1>3, <4>2
          <5>2. QED
            BY <1>2, <3>1, <4>2, <5>1
        <4>3. QED
          BY <1>3, <3>1, <4>1, <4>2
      <3>5. QED
        BY <3>1, <3>2, <3>3, <3>4 DEF Windowed
    <2>4. \A d \in Clients \ {c} : Windowed(d)'
      <3> SUFFICES ASSUME NEW d \in Clients \ {c} PROVE Windowed(d)'
        OBVIOUS
      <3>1. admitted'[d] = admitted[d] /\ hits'[d] = hits[d] /\ Windowed(d)
        BY <2>2 DEF RateInv
      <3>2. QED
        BY <1>1, <3>1 DEF Windowed
    <2>5. RateBounded'
      <3> SUFFICES ASSUME NEW d \in Clients, NEW t \in 0..MaxClock
                   PROVE  Cardinality(Within(d, t)') <= Limit
        BY DEF RateBounded, Within
      <3>1. CASE d = c
        <4>1. Len(w) < Limit
          BY <1>1, <1>3, <1>5
        <4>2. Cardinality(Within(c, t)') <= Limit
          BY <2>2, <4>1, AdmittedBounded DEF w
        <4>3. QED
          BY <3>1, <4>2
      <3>2. CASE d # c
        <4>1. Within(d, t)' = Within(d, t)
          BY <2>2, <3>2 DEF Within
        <4>2. QED
          BY <4>1 DEF RateInv, RateBounded, Within
      <3>3. QED
        BY <3>1, <3>2
    <2>6. QED
      BY <2>3, <2>4, <2>5 DEF RateInv
  <1>6. QED
    BY <1>4, <1>5

LEMMA TickRate ==
  ASSUME TypeOK, RateInv, Tick
  PROVE  RateInv'
  <1>1. /\ UNCHANGED <<hits, admitted>> /\ clock' = clock + 1
        /\ clock \in Nat /\ Window \in Nat
    BY AccessAssumption DEF TypeOK, Tick
  <1>2. ASSUME NEW c \in Clients PROVE Windowed(c)'
    <2>1. Windowed(c)
      BY DEF RateInv
    <2>2. /\ admitted[c] \in Seq(Nat) /\ Len(admitted[c]) \in Nat
          /\ \A i \in 1..Len(admitted[c]) : admitted[c][i] \in Nat
      BY <2>1, LenProperties, ElementOfSeq DEF Windowed
    <2>3. PICK k \in 0..Len(admitted[c]) :
            /\ Len(hits[c]) = Len(admitted[c]) - k
            /\ \A i \in 1..Len(hits[c]) : hits[c][i] = admitted[c][k + i]
            /\ \A i \in 1..k : admitted[c][i] < clock - Window
      BY <2>1 DEF Windowed
    <2>4. \A i \in 1..Len(admitted[c]) : admitted[c][i] <= clock
      BY <2>1 DEF Windowed
    <2>5. \A i \in 1..Len(admitted[c]) : admitted[c][i] <= clock + 1
      BY <1>1, <2>2, <2>4
    <2>6. \A i \in 1..k : i \in 1..Len(admitted[c])
      BY <2>2
    <2>7. \A i \in 1..k : admitted[c][i] < (clock + 1) - Window
      BY <1>1, <2>2, <2>3, <2>6
    <2>8. QED
      BY <1>1, <2>1, <2>3, <2>5, <2>7 DEF Windowed
  <1>3. RateBounded'
    BY <1>1 DEF RateInv, RateBounded
  <1>4. QED
    BY <1>2, <1>3 DEF RateInv

(* No client is let through more than Limit times in any minute, although   *)
(* the window slides with each request and refused requests prune it        *)
(* (RateLimitMiddleware).                                                   *)
THEOREM RatesStayBounded == Spec => []RateBounded
  <1>1. Init => RateInv
    <2> SUFFICES ASSUME Init PROVE RateInv
      OBVIOUS
    <2>1. \A c \in Clients : admitted[c] = <<>> /\ hits[c] = <<>>
      BY DEF Init
    <2>2. ASSUME NEW c \in Clients PROVE Windowed(c)
      <3>1. /\ admitted[c] \in Seq(Nat) /\ hits[c] \in Seq(Nat)
            /\ Len(admitted[c]) = 0 /\ Len(hits[c]) = 0
        BY <2>1, EmptySeq
      <3>2. \E k \in 0..Len(admitted[c]) :
              /\ Len(hits[c]) = Len(admitted[c]) - k
              /\ \A i \in 1..Len(hits[c]) : hits[c][i] = admitted[c][k + i]
              /\ \A i \in 1..k : admitted[c][i] < clock - Window
        <4>1. /\ 0 \in 0..Len(admitted[c]) /\ Len(hits[c]) = Len(admitted[c]) - 0
              /\ \A i \in 1..Len(hits[c]) : hits[c][i] = admitted[c][0 + i]
              /\ \A i \in 1..0 : admitted[c][i] < clock - Window
          BY <3>1
        <4>2. QED
          BY <4>1
      <3>3. \A i \in 1..Len(admitted[c]) : admitted[c][i] <= clock
        BY <3>1
      <3>4. QED
        BY <3>1, <3>2, <3>3 DEF Windowed
    <2>3. ASSUME NEW c \in Clients, NEW t \in 0..MaxClock
          PROVE  Cardinality(Within(c, t)) <= Limit
      <3>1. Within(c, t) = {}
        BY <2>1 DEF Within
      <3>2. QED
        BY <3>1, FS_EmptySet, AccessAssumption
    <2>4. QED
      BY <2>2, <2>3 DEF RateInv, RateBounded, Within
  <1>2. TypeOK /\ RateInv /\ [Next]_vars => RateInv'
    <2> SUFFICES ASSUME TypeOK, RateInv, [Next]_vars PROVE RateInv'
      OBVIOUS
    <2>1. CASE UNCHANGED <<hits, admitted, clock>>
      BY <2>1 DEF RateInv, Windowed, RateBounded
    <2>2. \/ UNCHANGED <<hits, admitted, clock>>
          \/ Tick
          \/ \E s \in Sessions, c \in Clients : Arrive(s, c)
      <3>1. ASSUME NEW s \in Sessions,
                   \/ VerifyKey(s) \/ TouchKey(s) \/ ScopeKey(s) \/ VerifyClaims(s)
                   \/ VerifyScim(s) \/ Select(s) \/ Plan(s) \/ Insert(s)
                   \/ Commit(s) \/ Refresh(s) \/ RecordAction(s) \/ FindKey(s)
                   \/ Deprovision(s) \/ Close(s) \/ Crash(s)
            PROVE  UNCHANGED traffic
        BY <3>1, Zenon DEF VerifyKey, TouchKey, ScopeKey, VerifyClaims, VerifyScim,
          Select, Plan, Insert, Commit, Refresh, RecordAction, FindKey,
          Deprovision, Close, Crash
      <3>2. Join => UNCHANGED traffic
        BY DEF Join
      <3>3. vars' = vars => UNCHANGED <<hits, admitted, clock>>
        BY DEF vars
      <3>4. QED
        BY <3>1, <3>2, <3>3 DEF Next, traffic
    <2>3. QED
      BY <2>1, <2>2, ArriveRate, TickRate
  <1>3. RateInv => RateBounded
    BY DEF RateInv
  <1>4. QED
    BY <1>1, <1>2, <1>3, TypeCorrect, PTL DEF Spec
=============================================================================
