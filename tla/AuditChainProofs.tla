-------------------------- MODULE AuditChainProofs --------------------------
(***************************************************************************)
(* Proofs about AuditChain, for any organisations, concurrent writers and  *)
(* contents, with every kind of interference allowed: rows purged, deleted *)
(* and edited, hash columns included.                                      *)
(***************************************************************************)
EXTENDS AuditChain, FiniteSetTheorems, WellFoundedInduction, TLAPS

(* VerifiedAncestry says nothing of chains that do not verify, so it is not  *)
(* inductive, and neither is IntactVerifies. What they rest on is: whatever  *)
(* record_action wrote has the hash of its own content, and the rows of an   *)
(* organisation that nobody touched are those that were written.             *)

WrittenHashed == \A w \in written : w.hash = EntryHash(w, w.prev)

UntouchedStand ==
    /\ \A r \in log : r.org \notin touched => r \in written
    /\ \A w \in written : w.org \notin touched => w \in log

IInv == TypeOK /\ IsFiniteSet(log) /\ WrittenHashed /\ UntouchedStand

Content(r) == [seq |-> r.seq, org |-> r.org, what |-> r.what]

LEMMA RowTyped ==
    ASSUME NEW r \in Row
    PROVE  /\ r.prev \in Hash /\ r.hash \in Hash /\ Content(r) \in Payload
           /\ EntryHash(r, r.prev) = Append(r.prev, Content(r))
           /\ EntryHash(r, r.prev) \in Hash
  <1>1. r.prev \in Hash /\ r.hash \in Hash /\ Content(r) \in Payload
    BY DEF Row, Payload, Content
  <1>2. EntryHash(r, r.prev) = Append(r.prev, Content(r))
    BY DEF EntryHash, Content
  <1>3. QED
    BY <1>1, <1>2 DEF Hash

\* Two hashes are equal only if the same payload was hashed onto the same one.
LEMMA HashInjective ==
    ASSUME NEW g \in Hash, NEW h \in Hash, NEW p \in Payload, NEW q \in Payload,
           Append(g, p) = Append(h, q)
    PROVE  g = h /\ p = q
  <1>1. /\ Len(Append(g, p)) = Len(g) + 1 /\ Len(Append(h, q)) = Len(h) + 1
        /\ Append(g, p)[Len(g) + 1] = p /\ Append(h, q)[Len(h) + 1] = q
        /\ Len(g) \in Nat /\ Len(h) \in Nat
    BY DEF Hash
  <1>2. Len(g) = Len(h) /\ p = q
    BY <1>1
  <1>3. \A i \in 1..Len(g) : g[i] = Append(g, p)[i] /\ h[i] = Append(h, q)[i]
    BY <1>2 DEF Hash
  <1>4. g = h
    BY <1>2, <1>3 DEF Hash
  <1>5. QED
    BY <1>2, <1>4

LEMMA InitEstablishes == Init => IInv
  <1> SUFFICES ASSUME Init PROVE IInv
    OBVIOUS
  <1>1. TypeOK
    BY AuditAssumption DEF Init, TypeOK, Writer
  <1>2. QED
    BY <1>1, FS_EmptySet DEF Init, IInv, WrittenHashed, UntouchedStand

LEMMA RecordActionPreserves ==
    ASSUME IInv, NEW w \in Writers, RecordAction(w)
    PROVE  IInv'
  <1> USE DEF IInv
  <1>1. ASSUME NEW o \in Orgs, NEW c \in Contents, ReadLast(w, o, c)
        PROVE  IInv'
    <2>1. UNCHANGED <<log, nextId, now, history>>
      BY <1>1 DEF ReadLast
    <2>2. \E seq \in Nat \ {0}, prev \in Hash : writer' = [writer EXCEPT ![w] =
             [pc |-> "read", org |-> o, what |-> c, seq |-> seq, prev |-> prev]]
      <3>1. CASE Last(o) = {}
        <4>1. Genesis \in Hash /\ FirstSeq \in Nat \ {0}
          BY DEF Genesis, Hash, FirstSeq
        <4>2. QED
          BY <1>1, <3>1, <4>1 DEF ReadLast
      <3>2. CASE Last(o) # {}
        <4>1. PICK last \in Last(o) : writer' = [writer EXCEPT ![w] =
                [pc |-> "read", org |-> o, what |-> c, seq |-> last.seq + 1,
                 prev |-> last.hash]]
          BY <1>1, <3>2 DEF ReadLast
        <4>2. last.seq + 1 \in Nat \ {0} /\ last.hash \in Hash
          BY DEF Last, Rows, TypeOK, Row
        <4>3. QED
          BY <4>1, <4>2
      <3>3. QED
        BY <3>1, <3>2
    <2>3. TypeOK'
      BY <2>1, <2>2 DEF TypeOK, Writer, history
    <2>4. QED
      BY <2>1, <2>3 DEF WrittenHashed, UntouchedStand, EntryHash, history
  <1>2. ASSUME AppendEntry(w)
        PROVE  IInv'
    <2> DEFINE e == writer[w]
               row == [id |-> nextId, org |-> e.org, what |-> e.what, seq |-> e.seq,
                       prev |-> e.prev, hash |-> EntryHash(e, e.prev), ts |-> now]
    <2>1. /\ log' = log \cup {row} /\ written' = written \cup {row}
          /\ nextId' = nextId + 1 /\ UNCHANGED <<touched, edits, now>>
          /\ writer' = [writer EXCEPT ![w] = Idle]
          /\ nextId <= MaxEntries /\ e.pc = "read"
      BY <1>2 DEF AppendEntry
    <2>2. /\ e.org \in Orgs /\ e.what \in Contents /\ e.seq \in Nat \ {0}
          /\ e.prev \in Hash
      BY <2>1 DEF TypeOK, Writer, Idle
    <2>3. [seq |-> e.seq, org |-> e.org, what |-> e.what] \in Payload
      BY <2>2 DEF Payload
    <2>4. EntryHash(e, e.prev) \in Hash
      BY <2>2, <2>3 DEF EntryHash, Hash
    <2>5. nextId \in 1..MaxEntries /\ nextId + 1 \in 1..(MaxEntries + 1)
      BY <2>1, AuditAssumption DEF TypeOK
    <2>6. row \in Row
      BY <2>2, <2>4, <2>5 DEF Row, TypeOK
    <2>7. row.hash = EntryHash(row, row.prev)
      BY DEF EntryHash
    <2> HIDE DEF row, e
    <2>8. TypeOK'
      BY <2>1, <2>5, <2>6 DEF TypeOK, Writer
    <2>9. WrittenHashed' /\ UntouchedStand'
      BY <2>1, <2>7 DEF WrittenHashed, UntouchedStand, EntryHash
    <2>10. IsFiniteSet(log')
      BY <2>1, FS_AddElement
    <2>11. QED
      BY <2>8, <2>9, <2>10
  <1>3. ASSUME WriteFails(w)
        PROVE  IInv'
    <2>1. TypeOK'
      BY <1>3 DEF WriteFails, TypeOK, Writer, history
    <2>2. QED
      BY <1>3, <2>1 DEF WriteFails, WrittenHashed, UntouchedStand, EntryHash, history
  <1>4. QED
    BY <1>1, <1>2, <1>3 DEF RecordAction

\* An edited row is a row of the same organisation.
LEMMA EditsTyped ==
    ASSUME TypeOK, NEW r \in log, NEW e \in Edits(r)
    PROVE  e \in Row /\ e.org = r.org
  <1> DEFINE changed == {[r EXCEPT !.what = c] : c \in Contents}
                          \cup {[r EXCEPT !.seq = q.seq] : q \in log}
                          \cup {[r EXCEPT !.prev = q.hash] : q \in log}
  <1>1. r \in Row /\ \A q \in log : q.seq \in Nat \ {0} /\ q.hash \in Hash
    BY DEF TypeOK, Row
  <1>2. \A d \in changed : d \in Row /\ d.org = r.org
    BY <1>1 DEF Row
  <1>3. e \in changed \/ \E d \in changed : e = [d EXCEPT !.hash = EntryHash(d, d.prev)]
    BY DEF Edits
  <1> HIDE DEF changed
  <1>4. ASSUME NEW d \in changed, e = [d EXCEPT !.hash = EntryHash(d, d.prev)]
        PROVE  e \in Row /\ e.org = r.org
    <2>1. d \in Row /\ d.org = r.org /\ EntryHash(d, d.prev) \in Hash
      BY <1>2, RowTyped
    <2>2. QED
      BY <1>4, <2>1 DEF Row
  <1>5. QED
    BY <1>2, <1>3, <1>4

LEMMA OutsidePreserves ==
    ASSUME IInv, Outside
    PROVE  IInv'
  <1> USE DEF IInv
  <1>0. \A r \in log : r.org \in Orgs
    BY DEF TypeOK, Row
  <1>1. ASSUME log' \subseteq log, touched' = touched \cup {r.org : r \in log \ log'},
               UNCHANGED <<written, edits, writer, nextId, now>>
        PROVE  IInv'
    <2>1. IsFiniteSet(log')
      BY <1>1, FS_Subset
    <2>2. TypeOK'
      BY <1>0, <1>1 DEF TypeOK
    <2>3. QED
      BY <1>1, <2>1, <2>2 DEF WrittenHashed, UntouchedStand, EntryHash
  <1>2. CASE RetentionPurge
    BY <1>1, <1>2 DEF RetentionPurge
  <1>3. ASSUME NEW r \in log, DeleteRow(r)
        PROVE  IInv'
    <2>1. log \ log' = {r}
      BY <1>3 DEF DeleteRow
    <2>2. {q.org : q \in log \ log'} = {r.org}
      BY <2>1
    <2>3. QED
      BY <1>1, <1>3, <2>2 DEF DeleteRow
  <1>4. ASSUME NEW r \in log, NEW e \in Edits(r), EditRow(r, e)
        PROVE  IInv'
    <2>1. /\ log' = (log \ {r}) \cup {e} /\ touched' = touched \cup {r.org}
          /\ edits < MaxEdits /\ edits' = edits + 1
          /\ UNCHANGED <<written, writer, nextId, now>>
      BY <1>4 DEF EditRow
    <2>2. e \in Row /\ e.org = r.org
      BY EditsTyped
    <2>3. TypeOK'
      BY <1>0, <2>1, <2>2, AuditAssumption DEF TypeOK
    <2>4. IsFiniteSet(log')
      <3>1. IsFiniteSet(log \ {r})
        BY FS_Subset, log \ {r} \subseteq log
      <3>2. QED
        BY <2>1, <3>1, FS_AddElement
    <2>5. UntouchedStand'
      BY <2>1, <2>2 DEF UntouchedStand
    <2>6. QED
      BY <2>1, <2>3, <2>4, <2>5 DEF WrittenHashed, EntryHash
  <1>5. CASE Tick
    <2>1. TypeOK'
      BY <1>5, AuditAssumption DEF Tick, TypeOK, history
    <2>2. QED
      BY <1>5, <2>1 DEF Tick, WrittenHashed, UntouchedStand, EntryHash, history
  <1>6. QED
    BY <1>2, <1>3, <1>4, <1>5 DEF Outside

\* A set of numbers has a least one.
LEMMA LeastNat ==
    ASSUME NEW T \in SUBSET Nat, T # {}
    PROVE  \E k \in T : \A j \in T : k <= j
  <1> DEFINE R == OpToRel(<, Nat)
  <1>1. IsWellFoundedOn(R, Nat)
    BY NatLessThanWellFounded
  <1>2. \A x, y \in Nat : x < y => <<x, y>> \in R
    BY DEF OpToRel
  <1> HIDE DEF R
  <1>3. PICK k \in T : \A j \in T : ~ (<<j, k>> \in R)
    BY <1>1, WFMin
  <1>4. \A j \in T : k <= j
    <2> SUFFICES ASSUME NEW j \in T PROVE k <= j
      OBVIOUS
    <2>1. j \in Nat /\ k \in Nat
      OBVIOUS
    <2>2. ~ (j < k)
      BY <1>2, <1>3, <2>1
    <2>3. QED
      BY <2>1, <2>2
  <1>5. QED
    BY <1>4

\* In a chain that verifies, the hash of the i-th entry is the contents of the
\* entries up to it.
LEMMA VerifiedHashes ==
    ASSUME TypeOK, NEW o \in Orgs, NEW n \in Nat, NEW s \in [1..n -> Rows(o)],
           Chained(s), NEW i \in 1..n
    PROVE  Len(s[i].hash) = i /\ \A j \in 1..i : s[i].hash[j] = Content(s[j])
  <1> DEFINE Spelt(k) == Len(s[k].hash) = k /\ \A j \in 1..k : s[k].hash[j] = Content(s[j])
             Bad == {k \in 1..n : ~Spelt(k)}
  <1>1. SUFFICES ASSUME Bad # {} PROVE FALSE
    BY DEF Bad
  <1>2. PICK k \in Bad : \A j \in Bad : k <= j
    <2>1. Bad \in SUBSET Nat
      OBVIOUS
    <2> HIDE DEF Bad
    <2>2. QED
      BY <1>1, <2>1, LeastNat
  <1>3. k \in 1..n /\ k \in Nat /\ ~Spelt(k)
    OBVIOUS
  <1>4. \A j \in 1..n : s[j] \in Row
    BY DEF Rows, TypeOK
  <1>5. /\ s[k].hash = Append(s[k].prev, Content(s[k]))
        /\ s[k].prev = IF k = 1 THEN Genesis ELSE s[k - 1].hash
    <2>1. Linked(s, k) /\ s[k].hash = EntryHash(s[k], s[k].prev)
      BY <1>3 DEF Chained
    <2>2. QED
      BY <1>3, <1>4, <2>1, RowTyped DEF Linked
  <1>6. s[k].prev \in Seq(Payload) /\ Content(s[k]) \in Payload
    BY <1>3, <1>4, RowTyped DEF Hash
  <1>7. Len(s[k].prev) = k - 1 /\ \A j \in 1..(k - 1) : s[k].prev[j] = Content(s[j])
    <2>1. CASE k = 1
      BY <1>5, <2>1 DEF Genesis
    <2>2. CASE k # 1
      <3>1. k - 1 \in 1..n /\ ~(k <= k - 1)
        BY <1>3, <2>2
      <3>2. Spelt(k - 1)
        BY <1>2, <3>1
      <3>3. QED
        BY <1>5, <2>2, <3>2
    <2>3. QED
      BY <2>1, <2>2
  <1>8. Len(s[k].hash) = k /\ s[k].hash[k] = Content(s[k])
    BY <1>3, <1>5, <1>6, <1>7
  <1>9. \A j \in 1..(k - 1) : s[k].hash[j] = s[k].prev[j]
    BY <1>3, <1>5, <1>6, <1>7
  <1>10. \A j \in 1..k : j = k \/ j \in 1..(k - 1)
    BY <1>3
  <1>11. Spelt(k)
    BY <1>7, <1>8, <1>9, <1>10
  <1>12. QED
    BY <1>3, <1>11

LEMMA InvariantImplies == IInv => VerifiedAncestry
  <1> SUFFICES ASSUME IInv, NEW o \in Orgs, NEW s \in Orders(o), Chained(s),
                      NEW r \in Rows(o), NEW w \in written, ChainedTo(r, w)
               PROVE  \E q \in Rows(o) : SameEntry(q, w)
    BY DEF VerifiedAncestry, VerifyChain
  <1> DEFINE n == Cardinality(Rows(o))
  <1>1. n \in Nat
    <2>1. IsFiniteSet(Rows(o))
      BY FS_Subset, Rows(o) \subseteq log DEF IInv, Rows
    <2>2. QED
      BY <2>1, FS_CardinalityType
  <1>2. s \in [1..n -> Rows(o)] /\ \E i \in 1..n : s[i] = r
    BY DEF Orders
  <1> HIDE DEF n
  <1>3. PICK m \in 1..n : s[m] = r
    BY <1>2
  <1>4. TypeOK /\ r \in Row /\ w \in Row /\ \A i \in 1..n : s[i] \in Row
    BY <1>2 DEF IInv, TypeOK, Rows
  <1>5. \A i \in 1..n : Len(s[i].hash) = i /\ \A j \in 1..i : s[i].hash[j] = Content(s[j])
    BY <1>1, <1>2, <1>4, VerifiedHashes
  <1>6. w.hash = Append(w.prev, Content(w))
    BY <1>4, RowTyped DEF IInv, WrittenHashed
  <1> DEFINE k == Len(w.hash)
  <1>7. k \in Nat \ {0} /\ k <= m /\ k \in 1..n
    <2>1. k = Len(w.prev) + 1 /\ Len(w.prev) \in Nat
      BY <1>4, <1>6, RowTyped DEF Hash
    <2>2. k <= Len(r.hash) /\ Len(r.hash) = m
      BY <1>3, <1>5 DEF ChainedTo
    <2>3. QED
      BY <1>1, <1>3, <2>1, <2>2
  <1>8. \A j \in 1..k : w.hash[j] = Content(s[j])
    <2>1. SUFFICES ASSUME NEW j \in 1..k PROVE w.hash[j] = Content(s[j])
      OBVIOUS
    <2>2. w.hash = SubSeq(r.hash, 1, k) /\ r.hash \in Seq(Payload) /\ Len(r.hash) = m
      BY <1>3, <1>4, <1>5 DEF ChainedTo, Row, Hash
    <2>3. j \in Nat /\ j >= 1 /\ j <= k /\ j <= m
      BY <1>1, <1>7, <2>1
    <2>4. SubSeq(r.hash, 1, k)[j] = r.hash[j]
      BY <1>1, <1>7, <2>2, <2>3
    <2>5. r.hash[j] = Content(s[j])
      BY <1>3, <1>5, <2>3
    <2>6. QED
      BY <2>2, <2>4, <2>5
  <1>9. w.hash = s[k].hash
    <2>1. /\ w.hash \in Seq(Payload) /\ s[k].hash \in Seq(Payload)
          /\ Len(s[k].hash) = k /\ \A j \in 1..k : s[k].hash[j] = w.hash[j]
      BY <1>4, <1>5, <1>7, <1>8 DEF Row, Hash
    <2>2. QED
      BY <2>1
  <1> HIDE DEF k
  <1>10. s[k].hash = Append(s[k].prev, Content(s[k])) /\ s[k] \in Rows(o)
    BY <1>2, <1>4, <1>7, RowTyped DEF Chained
  <1>11. s[k].prev = w.prev /\ Content(s[k]) = Content(w)
    <2>1. /\ s[k].prev \in Hash /\ w.prev \in Hash
          /\ Content(s[k]) \in Payload /\ Content(w) \in Payload
      BY <1>4, <1>7, RowTyped
    <2>2. Append(s[k].prev, Content(s[k])) = Append(w.prev, Content(w))
      BY <1>6, <1>9, <1>10
    <2>3. QED
      BY <2>1, <2>2, HashInjective
  <1>12. SameEntry(s[k], w)
    BY <1>9, <1>11 DEF SameEntry, Content
  <1>13. QED
    BY <1>10, <1>12

----------------------------------------------------------------------------
(* Theorems *)

\* Whatever record_action wrote carries the hash of its own content, and the
\* rows of an organisation nobody touched are exactly those it wrote.
THEOREM InvariantHolds == Spec => []IInv
  <1>1. IInv /\ [Next]_vars => IInv'
    <2> SUFFICES ASSUME IInv, [Next]_vars PROVE IInv'
      OBVIOUS
    <2>1. CASE Next
      BY <2>1, RecordActionPreserves, OutsidePreserves DEF Next
    <2>2. CASE UNCHANGED vars
      BY <2>2 DEF vars, IInv, TypeOK, WrittenHashed, UntouchedStand, EntryHash
    <2>3. QED
      BY <2>1, <2>2
  <1>2. QED
    BY <1>1, InitEstablishes, PTL DEF Spec

\* Rows, hashes and the locals of record_action keep their types.
THEOREM TypeCorrect == Spec => []TypeOK
  <1>1. IInv => TypeOK
    BY DEF IInv
  <1>2. QED
    BY <1>1, InvariantHolds, PTL

\* When verify_chain returns True, whatever was written and some entry of the
\* chain is chained to is there, as it was written: for any number of writers,
\* and of deletions, purges and edits, of hash columns too.
THEOREM VerifyIsSound == Spec => []VerifiedAncestry
  BY InvariantHolds, InvariantImplies, PTL

----------------------------------------------------------------------------
(* IntactVerifies. It needs to know where seq and the previous hash of an   *)
(* entry come from: the entry it was chained to, where nobody touched it.   *)

\* Entry e is the first one, or follows the one that was written before it.
Follows(e) ==
    \/ e.prev = Genesis /\ e.seq = 1
    \/ \E q \in written : /\ q.org = e.org /\ q.hash = e.prev
                          /\ e.seq = q.seq + 1

EntriesFollow ==
    /\ \A r \in written : r.org \notin touched => Follows(r)
    /\ \A w \in Writers :
         writer[w].pc = "read" /\ writer[w].org \notin touched => Follows(writer[w])

LEMMA FollowsStays ==
    ASSUME NEW e, Follows(e), written \subseteq written'
    PROVE  \/ e.prev = Genesis /\ e.seq = 1
           \/ \E q \in written' : q.org = e.org /\ q.hash = e.prev /\ e.seq = q.seq + 1
  BY DEF Follows

LEMMA FollowInit == Init => EntriesFollow
  BY DEF Init, EntriesFollow, Idle

LEMMA FollowStep ==
    ASSUME IInv, EntriesFollow, [Next]_vars
    PROVE  EntriesFollow'
  <1>0. writer \in [Writers -> Writer]
    BY DEF IInv, TypeOK
  <1>1. ASSUME UNCHANGED <<written, writer>>, touched \subseteq touched'
        PROVE  EntriesFollow'
    BY <1>1 DEF EntriesFollow, Follows
  <1>2. ASSUME NEW w \in Writers, NEW o \in Orgs, NEW c \in Contents, ReadLast(w, o, c)
        PROVE  EntriesFollow'
    <2>1. /\ written' = written /\ touched' = touched
          /\ \A v \in Writers \ {w} : writer'[v] = writer[v]
      BY <1>0, <1>2 DEF ReadLast, history
    <2>2. o \notin touched =>
            \/ writer'[w].prev = Genesis /\ writer'[w].seq = 1
            \/ \E q \in written : /\ q.org = writer'[w].org /\ q.hash = writer'[w].prev
                                  /\ writer'[w].seq = q.seq + 1
      <3>1. CASE Last(o) = {}
        BY <1>0, <1>2, <3>1 DEF ReadLast, FirstSeq
      <3>2. CASE Last(o) # {}
        <4>1. PICK last \in Last(o) : writer' = [writer EXCEPT ![w] =
                [pc |-> "read", org |-> o, what |-> c, seq |-> last.seq + 1,
                 prev |-> last.hash]]
          BY <1>2, <3>2 DEF ReadLast
        <4>2. last \in log /\ last.org = o
          BY DEF Last, Rows
        <4>3. o \notin touched => last \in written
          BY <4>2 DEF IInv, UntouchedStand
        <4>4. QED
          BY <1>0, <4>1, <4>2, <4>3
      <3>3. QED
        BY <3>1, <3>2
    <2>3. writer'[w].org = o
      BY <1>0, <1>2 DEF ReadLast
    <2>4. QED
      BY <2>1, <2>2, <2>3 DEF EntriesFollow, Follows
  <1>3. ASSUME NEW w \in Writers, AppendEntry(w)
        PROVE  EntriesFollow'
    <2>1. PICK row : /\ written' = written \cup {row}
                     /\ row.org = writer[w].org /\ row.prev = writer[w].prev
                     /\ row.seq = writer[w].seq
                     /\ writer' = [writer EXCEPT ![w] = Idle]
                     /\ writer[w].pc = "read" /\ touched' = touched
      BY <1>3 DEF AppendEntry
    <2>2. row.org \notin touched => Follows(row)
      BY <2>1 DEF EntriesFollow, Follows
    <2>3. \A v \in Writers : writer'[v].pc = "read" /\ writer'[v].org \notin touched =>
             writer'[v] = writer[v] /\ Follows(writer[v])
      BY <1>0, <2>1 DEF EntriesFollow, Idle
    <2>4. \A r \in written' : r.org \notin touched => Follows(r)
      BY <2>1, <2>2 DEF EntriesFollow
    <2>5. written \subseteq written'
      BY <2>1
    <2>6. QED
      BY <2>1, <2>3, <2>4, <2>5, FollowsStays DEF EntriesFollow, Follows
  <1>4. ASSUME NEW w \in Writers, WriteFails(w)
        PROVE  EntriesFollow'
    BY <1>0, <1>4 DEF WriteFails, EntriesFollow, Follows, Idle, history
  <1>5. Outside => UNCHANGED <<written, writer>> /\ touched \subseteq touched'
    BY DEF Outside, RetentionPurge, EditRow, DeleteRow, Tick, history
  <1>6. QED
    BY <1>1, <1>2, <1>3, <1>4, <1>5 DEF Next, RecordAction, vars

\* A finite set of n positive numbers that holds, with each number but 1, the
\* one below it, is 1..n.
LEMMA DownwardClosed ==
    ASSUME NEW S \in SUBSET (Nat \ {0}), IsFiniteSet(S),
           \A k \in S : k = 1 \/ k - 1 \in S
    PROVE  S = 1..Cardinality(S)
  <1> DEFINE n == Cardinality(S)
  <1>1. n \in Nat
    BY FS_CardinalityType
  <1>2. Cardinality(S) = n
    OBVIOUS
  <1> HIDE DEF n
  <1>3. IsFiniteSet(1..n) /\ Cardinality(1..n) = n
    <2>1. IsFiniteSet(1..n) /\ Cardinality(1..n) = IF 1 > n THEN 0 ELSE n - 1 + 1
      BY <1>1, FS_Interval
    <2>2. QED
      BY <1>1, <2>1
  <1>4. ASSUME NEW k \in 1..n, k \notin S
        PROVE  FALSE
    <2>0. k \in Nat /\ k >= 1 /\ k <= n
      BY <1>1, <1>4
    <2>1. ASSUME NEW j \in S, j > k
          PROVE  FALSE
      <3> DEFINE T == {i \in S : i > k}
      <3>1. T \in SUBSET Nat /\ T # {}
        BY <2>1
      <3>2. PICK i \in T : \A m \in T : i <= m
        <4> HIDE DEF T
        <4>1. QED
          BY <3>1, LeastNat
      <3>3. i \in Nat /\ i > k /\ i \in S
        OBVIOUS
      <3>4. i - 1 \in S /\ i - 1 # k
        BY <1>4, <2>0, <3>3
      <3>5. i - 1 \in T
        BY <2>0, <3>3, <3>4
      <3>6. i <= i - 1
        BY <3>2, <3>5
      <3>7. QED
        BY <3>3, <3>6
    <2>2. S \in SUBSET (1..(k - 1))
      <3> SUFFICES ASSUME NEW j \in S PROVE j \in 1..(k - 1)
        OBVIOUS
      <3>1. j \in Nat /\ j # 0 /\ j # k /\ ~ (j > k)
        BY <1>4, <2>1
      <3>2. QED
        BY <2>0, <3>1
    <2>3. IsFiniteSet(1..(k - 1)) /\ Cardinality(1..(k - 1)) = k - 1
      <3> DEFINE m == k - 1
      <3>1. m \in Nat
        BY <2>0
      <3> HIDE DEF m
      <3>2. IsFiniteSet(1..m) /\ Cardinality(1..m) = IF 1 > m THEN 0 ELSE m - 1 + 1
        BY <3>1, FS_Interval
      <3>3. IsFiniteSet(1..m) /\ Cardinality(1..m) = m
        BY <3>1, <3>2
      <3>4. QED
        BY <3>3 DEF m
    <2>4. n <= k - 1
      <3> DEFINE U == 1..(k - 1)
      <3>1. S \in SUBSET U /\ IsFiniteSet(U) /\ Cardinality(U) = k - 1
        BY <2>2, <2>3
      <3> HIDE DEF U
      <3>2. Cardinality(S) <= Cardinality(U)
        BY <3>1, FS_Subset
      <3>3. QED
        BY <1>2, <3>1, <3>2
    <2>5. QED
      BY <1>1, <2>0, <2>4
  <1>5. 1..n \in SUBSET S
    BY <1>4
  <1>6. S = 1..n
    BY <1>2, <1>3, <1>5, FS_Subset
  <1>7. QED
    BY <1>6 DEF n

\* The rows of an organisation nobody touched are all it has written.
LEMMA UntouchedRows ==
    ASSUME IInv, NEW o \in Orgs \ touched
    PROVE  Rows(o) = {r \in written : r.org = o}
  BY DEF IInv, UntouchedStand, Rows

\* In an untouched chain without forks every entry has a seq of its own.
LEMMA SeqIdentifies ==
    ASSUME IInv, EntriesFollow, NEW o \in Orgs \ touched,
           Rows(o) = {r \in written : r.org = o}, ~Forked(o),
           NEW r \in Rows(o), NEW q \in Rows(o), r.seq = q.seq
    PROVE  r = q
  <1> SUFFICES ASSUME r # q PROVE FALSE
    OBVIOUS
  <1> DEFINE T == {k \in Nat : \E x, y \in Rows(o) : x # y /\ x.seq = k /\ y.seq = k}
  <1>0. \A x \in Rows(o) : x \in Row /\ x \in written /\ x.org = o
    BY DEF Rows, IInv, TypeOK
  <1>1. T \in SUBSET Nat /\ T # {}
    <2>1. r.seq \in T
      BY <1>0 DEF Row
    <2>2. QED
      BY <2>1
  <1>2. PICK k \in T : \A m \in T : k <= m
    <2> HIDE DEF T
    <2>1. QED
      BY <1>1, LeastNat
  <1>3. PICK x \in Rows(o), y \in Rows(o) : x # y /\ x.seq = k /\ y.seq = k
    OBVIOUS
  <1>4. x.prev # y.prev
    BY <1>3 DEF Forked
  <1>5. Follows(x) /\ Follows(y) /\ x.org = o /\ y.org = o
    BY <1>0 DEF EntriesFollow
  <1>6. \A p \in written : p.seq \in Nat /\ p.seq # 0
    BY DEF IInv, TypeOK, Row
  <1>7. PICK a \in written, b \in written :
          /\ a.org = o /\ a.hash = x.prev /\ k = a.seq + 1
          /\ b.org = o /\ b.hash = y.prev /\ k = b.seq + 1
    BY <1>3, <1>4, <1>5, <1>6 DEF Follows
  <1>8. /\ a \in Rows(o) /\ b \in Rows(o) /\ a # b
        /\ a.seq = k - 1 /\ b.seq = k - 1 /\ k - 1 \in Nat
    BY <1>4, <1>6, <1>7
  <1>9. k - 1 \in T
    BY <1>8
  <1>10. k <= k - 1
    BY <1>2, <1>9
  <1>11. QED
    BY <1>8, <1>10

LEMMA FirstHasGenesis ==
    ASSUME IInv, NEW r \in written, Follows(r)
    PROVE  r.seq = 1 <=> r.prev = Genesis
  <1>1. \A q \in written : q.seq \in Nat /\ q.seq # 0 /\ q.hash # Genesis
    <2> SUFFICES ASSUME NEW q \in written
                 PROVE  q.seq \in Nat /\ q.seq # 0 /\ q.hash # Genesis
      OBVIOUS
    <2>1. q \in Row /\ q.hash = EntryHash(q, q.prev)
      BY DEF IInv, TypeOK, WrittenHashed
    <2>2. q.prev \in Hash /\ [seq |-> q.seq, org |-> q.org, what |-> q.what] \in Payload
      BY <2>1 DEF Row, Payload
    <2>3. q.hash # Genesis
      BY <2>1, <2>2 DEF EntryHash, Genesis, Hash
    <2>4. QED
      BY <2>1, <2>3 DEF Row
  <1>2. QED
    BY <1>1 DEF Follows

\* An organisation whose entries nobody touched and whose chain did not fork
\* verifies: ordered by seq, each entry follows the one before it.
THEOREM IntactChainsVerify == Spec => []IntactVerifies
  <1>1. ASSUME IInv, EntriesFollow
        PROVE  IntactVerifies
    <2> SUFFICES ASSUME NEW o \in Orgs \ touched, ~Forked(o)
                 PROVE  VerifyChain(o)
      BY DEF IntactVerifies
    <2>0. Rows(o) = {r \in written : r.org = o}
      BY <1>1, UntouchedRows
    <2> DEFINE R == Rows(o)
               S == {r.seq : r \in R}
               n == Cardinality(R)
               s == [i \in 1..n |-> CHOOSE r \in R : r.seq = i]
    <2>1. \A r \in R : /\ r \in Row /\ r \in written /\ r.org = o
                       /\ r.seq \in Nat \ {0} /\ Follows(r)
      BY <1>1, <2>0 DEF Rows, IInv, TypeOK, Row, EntriesFollow
    <2>2. \A r, q \in R : r.seq = q.seq => r = q
      BY <1>1, <2>0, SeqIdentifies
    <2>3. IsFiniteSet(R)
      BY <1>1, FS_Subset, Rows(o) \subseteq log DEF IInv, Rows
    <2>4. \A r \in R : r.seq = 1 <=> r.prev = Genesis
      BY <1>1, <2>1, FirstHasGenesis
    <2>5. \A r \in R : r.seq # 1 =>
            \E q \in R : q.hash = r.prev /\ r.seq = q.seq + 1
      BY <2>0, <2>1, <2>4 DEF Follows
    <2>6. S = 1..n /\ n \in Nat
      <3> DEFINE f == [r \in R |-> r.seq]
      <3>1. f \in Bijection(R, S)
        <4>1. f \in [R -> S] /\ (\A t \in S : \E r \in R : f[r] = t)
          OBVIOUS
        <4>2. \A r, q \in R : f[r] = f[q] => r = q
          BY <2>2
        <4> HIDE DEF f, S, R
        <4>3. QED
          BY <4>1, <4>2 DEF Bijection, Injection, Surjection, IsInjective
      <3>2. ExistsBijection(R, S)
        BY <3>1 DEF ExistsBijection
      <3>3. S \in SUBSET (Nat \ {0}) /\ (\A k \in S : k = 1 \/ k - 1 \in S)
        <4>1. ASSUME NEW k \in S
              PROVE  k \in Nat \ {0} /\ (k = 1 \/ k - 1 \in S)
          <5>1. PICK r \in R : r.seq = k
            OBVIOUS
          <5>2. CASE k # 1
            <6>1. PICK q \in R : r.seq = q.seq + 1
              BY <2>5, <5>1, <5>2
            <6>2. q.seq = k - 1
              BY <2>1, <5>1, <6>1
            <6>3. QED
              BY <2>1, <5>1, <6>2
          <5>3. QED
            BY <2>1, <5>1, <5>2
        <4>2. QED
          BY <4>1
      <3> HIDE DEF S, R
      <3>4. IsFiniteSet(S) /\ Cardinality(S) = n /\ n \in Nat
        BY <2>3, <3>2, FS_Bijection, FS_CardinalityType
      <3> HIDE DEF n
      <3>5. QED
        BY <3>3, <3>4, DownwardClosed
    <2> HIDE DEF n
    <2>7. \A i \in 1..n : s[i] \in R /\ s[i].seq = i
      <3> SUFFICES ASSUME NEW i \in 1..n PROVE s[i] \in R /\ s[i].seq = i
        OBVIOUS
      <3>1. \E r \in R : r.seq = i
        BY <2>6
      <3>2. QED
        BY <3>1
    <2>8. \A r \in R : r.seq \in 1..n /\ s[r.seq] = r
      BY <2>2, <2>6, <2>7
    <2>9. s \in [1..n -> R] /\ DOMAIN s = 1..n
      BY <2>7
    <2> HIDE DEF s
    <2>10. s \in Orders(o)
      <3>1. \A r \in R : \E i \in 1..n : s[i] = r
        BY <2>8
      <3>2. \A i, j \in 1..n : i < j => s[i].seq <= s[j].seq
        BY <2>6, <2>7
      <3>3. QED
        BY <2>9, <3>1, <3>2 DEF Orders, n
    <2>11. ASSUME NEW i \in 1..n
           PROVE  Linked(s, i) /\ s[i].hash = EntryHash(s[i], s[i].prev)
      <3>1. s[i] \in R /\ s[i].seq = i
        BY <2>7
      <3>2. s[i].hash = EntryHash(s[i], s[i].prev)
        BY <1>1, <2>1, <3>1 DEF IInv, WrittenHashed
      <3>3. CASE i = 1
        BY <2>4, <3>1, <3>2, <3>3 DEF Linked
      <3>4. CASE i # 1
        <4>1. PICK q \in R : q.hash = s[i].prev /\ i = q.seq + 1
          BY <2>5, <3>1, <3>4
        <4>2. q.seq = i - 1
          BY <2>1, <2>6, <4>1
        <4>3. s[i - 1] = q
          BY <2>8, <4>2
        <4>4. QED
          BY <3>2, <3>4, <4>1, <4>3 DEF Linked
      <3>5. QED
        BY <3>2, <3>3, <3>4
    <2>12. QED
      BY <2>9, <2>10, <2>11 DEF VerifyChain, Chained
  <1>2. IInv /\ EntriesFollow /\ [Next]_vars => EntriesFollow'
    BY FollowStep
  <1>3. QED
    BY <1>1, <1>2, FollowInit, InvariantHolds, PTL DEF Spec

=============================================================================
