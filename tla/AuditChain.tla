----------------------------- MODULE AuditChain -----------------------------
(***************************************************************************)
(* The hash-chained audit log of shared/audit.py: record_action, called by *)
(* concurrent request handlers; verify_chain; and what removes or changes  *)
(* rows behind its back: the retention purge of tasks.py, and an operator  *)
(* who deletes rows in the database or edits them, hash columns included.  *)
(*                                                                         *)
(* SHA-256 is taken to be free of collisions: a hash IS the sequence of    *)
(* everything hashed into it, so hashing a payload onto the previous hash  *)
(* is appending to that sequence, and "genesis" is the empty sequence. It  *)
(* takes no key: whoever can write the table can compute a hash as well.   *)
(***************************************************************************)
EXTENDS Integers, Sequences, FiniteSets

CONSTANTS
    Orgs,        \* organisations, each with its chain in the shared table
    Writers,     \* request handlers that may be inside record_action
    Contents,    \* user, action, resource, meta and address of an entry
    Events,      \* what this instance allows besides record_action
    Retention,   \* audit_retention_days
    MaxEntries,  \* bound: entries ever written
    MaxEdits,    \* bound: rows edited
    MaxTime      \* bound: the clock, in days

EventKinds == {"purge", "edit", "delete"}

ASSUME AuditAssumption ==
    /\ Events \subseteq EventKinds
    /\ Retention \in Nat
    /\ MaxEntries \in Nat
    /\ MaxEdits \in Nat
    /\ MaxTime \in Nat

VARIABLES
    log,      \* committed rows of audit_log
    written,  \* history: every row as record_action committed it
    touched,  \* history: organisations of rows that were changed or removed
    edits,    \* history: edits made
    writer,   \* the locals of each record_action in progress
    nextId,   \* primary keys are never reused
    now       \* the clock

vars == <<log, written, touched, edits, writer, nextId, now>>
history == <<written, touched, edits>>

----------------------------------------------------------------------------
Payload == [seq : Nat \ {0}, org : Orgs, what : Contents]
Hash    == Seq(Payload)
Genesis == <<>>

Row    == [id : 1..MaxEntries, org : Orgs, what : Contents, seq : Nat \ {0},
           prev : Hash, hash : Hash, ts : 0..MaxTime]

\* A handler inside record_action has read the newest entry: it knows the seq
\* and the previous hash of the one it will write.
Idle   == [pc |-> "idle"]
Writer == {Idle} \cup [pc : {"read"}, org : Orgs, what : Contents,
                       seq : Nat \ {0}, prev : Hash]

TypeOK ==
    /\ log \subseteq Row
    /\ written \subseteq Row
    /\ touched \subseteq Orgs
    /\ edits \in 0..MaxEdits
    /\ writer \in [Writers -> Writer]
    /\ nextId \in 1..(MaxEntries + 1)
    /\ now \in 0..MaxTime

Init ==
    /\ log = {}
    /\ written = {}
    /\ touched = {}
    /\ edits = 0
    /\ writer = [w \in Writers |-> Idle]
    /\ nextId = 1
    /\ now = 0

Rows(o) == {r \in log : r.org = o}

\* Seeded fault: the content is left out of the payload.
ContentNotHashed(r, prev) ==
    Append(prev, [seq |-> r.seq, org |-> r.org])

\* _entry_hash: neither the id nor the timestamp is in the payload.
EntryHash(r, prev) ==
    Append(prev, [seq |-> r.seq, org |-> r.org, what |-> r.what])

\* Seeded fault: the query does not filter by organisation.
LastOfAnyOrg(o) == {r \in log : \A q \in log : q.seq <= r.seq}

\* The entries ORDER BY seq DESC LIMIT 1 may return: more than one when
\* entries share the highest seq.
Last(o) == {r \in Rows(o) : \A q \in Rows(o) : q.seq <= r.seq}

\* Seeded fault: the first entry keeps the column's default.
ColumnDefault == 0

\* The seq of an organisation's first entry.
FirstSeq == 1

----------------------------------------------------------------------------
(* record_action                                                            *)

\* The SELECT of the newest entry of the organisation. Nothing locks it.
ReadLast(w, o, c) ==
    /\ writer[w].pc = "idle"
    /\ \/ /\ Last(o) = {}
          /\ writer' = [writer EXCEPT ![w] =
               [pc |-> "read", org |-> o, what |-> c, seq |-> FirstSeq,
                prev |-> Genesis]]
       \/ \E last \in Last(o) :
            writer' = [writer EXCEPT ![w] =
              [pc |-> "read", org |-> o, what |-> c, seq |-> last.seq + 1,
               prev |-> last.hash]]
    /\ UNCHANGED <<log, nextId, now, history>>

\* Insert, hash and commit. (org_id, seq) is not unique: nothing conflicts.
AppendEntry(w) ==
    /\ writer[w].pc = "read"
    /\ nextId <= MaxEntries
    /\ LET e == writer[w]
           row == [id |-> nextId, org |-> e.org, what |-> e.what, seq |-> e.seq,
                   prev |-> e.prev, hash |-> EntryHash(e, e.prev), ts |-> now]
       IN  /\ log' = log \cup {row}
           /\ written' = written \cup {row}
    /\ nextId' = nextId + 1
    /\ writer' = [writer EXCEPT ![w] = Idle]
    /\ UNCHANGED <<touched, edits, now>>

\* Any exception, or the end of the process: rolled back, the entry is lost
\* and the request goes on without it.
WriteFails(w) ==
    /\ writer[w].pc = "read"
    /\ writer' = [writer EXCEPT ![w] = Idle]
    /\ UNCHANGED <<log, nextId, now, history>>

----------------------------------------------------------------------------
(* What else changes the table                                              *)

\* _retention_purge, over all organisations.
RetentionPurge ==
    /\ "purge" \in Events
    /\ \E r \in log : r.ts < now - Retention
    /\ log' = {r \in log : r.ts >= now - Retention}
    /\ touched' = touched \cup {r.org : r \in log \ log'}
    /\ UNCHANGED <<written, edits, writer, nextId, now>>

\* What an operator can make of a row: other content, the place of another
\* row, another predecessor; and the hash is left alone or computed anew.
Edits(r) ==
    LET changed == {[r EXCEPT !.what = c] : c \in Contents}
                     \cup {[r EXCEPT !.seq = q.seq] : q \in log}
                     \cup {[r EXCEPT !.prev = q.hash] : q \in log}
    IN  (changed \cup {[e EXCEPT !.hash = EntryHash(e, e.prev)] : e \in changed}) \ {r}

EditRow(r, e) ==
    /\ "edit" \in Events /\ edits < MaxEdits
    /\ r \in log /\ e \in Edits(r)
    /\ log' = (log \ {r}) \cup {e}
    /\ touched' = touched \cup {r.org}
    /\ edits' = edits + 1
    /\ UNCHANGED <<written, writer, nextId, now>>

DeleteRow(r) ==
    /\ "delete" \in Events
    /\ r \in log
    /\ log' = log \ {r}
    /\ touched' = touched \cup {r.org}
    /\ UNCHANGED <<written, edits, writer, nextId, now>>

Tick ==
    /\ now < MaxTime
    /\ now' = now + 1
    /\ UNCHANGED <<log, writer, nextId, history>>

----------------------------------------------------------------------------
RecordAction(w) ==
    \/ \E o \in Orgs, c \in Contents : ReadLast(w, o, c)
    \/ AppendEntry(w)
    \/ WriteFails(w)

Outside ==
    \/ RetentionPurge
    \/ \E r \in log : \E e \in Edits(r) : EditRow(r, e)
    \/ \E r \in log : DeleteRow(r)
    \/ Tick

Next == (\E w \in Writers : RecordAction(w)) \/ Outside

Spec == Init /\ [][Next]_vars

----------------------------------------------------------------------------
(* verify_chain                                                             *)

\* The orders in which ORDER BY seq ASC may return an organisation's rows.
Orders(o) ==
    LET n == Cardinality(Rows(o))
    IN  {s \in [1..n -> Rows(o)] :
           /\ \A r \in Rows(o) : \E i \in 1..n : s[i] = r
           /\ \A i, j \in 1..n : i < j => s[i].seq <= s[j].seq}

\* The loop: each entry names the hash of the one before it, the first one
\* "genesis", and its own hash is that of its content.
Linked(s, i) == s[i].prev = IF i = 1 THEN Genesis ELSE s[i - 1].hash

Chained(s) ==
    \A i \in DOMAIN s : Linked(s, i) /\ s[i].hash = EntryHash(s[i], s[i].prev)

VerifyChain(o) == \E s \in Orders(o) : Chained(s)

----------------------------------------------------------------------------
(* Properties *)

\* The same entry, but for the id and the timestamp, which are not hashed.
SameEntry(q, w) ==
    /\ q.org = w.org /\ q.seq = w.seq /\ q.what = w.what
    /\ q.prev = w.prev /\ q.hash = w.hash

\* The hash of entry r was computed over that of entry w, directly or through
\* the entries between them, or is that of w.
ChainedTo(r, w) ==
    /\ Len(w.hash) <= Len(r.hash)
    /\ w.hash = SubSeq(r.hash, 1, Len(w.hash))

\* What verify_chain's True is worth when rows were deleted, purged and edited
\* at will, recomputed hashes included: whatever record_action wrote and some
\* entry in the table is chained to is in the table, as it was written. To
\* hide a change of an entry one must rewrite its hash and every later one, or
\* remove all later entries. That much does pass: the hashes take no key and
\* verify_chain knows no hash from outside the table.
VerifiedAncestry ==
    \A o \in Orgs : VerifyChain(o) =>
        \A r \in Rows(o), w \in written :
            ChainedTo(r, w) => \E q \in Rows(o) : SameEntry(q, w)

\* "Any edit/deletion of a historical row breaks the chain" (audit.py:4): a
\* chain that verifies consists of entries as they were written. This fails
\* when the hashes are recomputed.
EditsShow == \A o \in Orgs : VerifyChain(o) => Rows(o) \subseteq written

\* Entries that share a predecessor.
Forked(o) == \E r, q \in Rows(o) : r # q /\ r.prev = q.prev

\* An organisation whose entries nobody removed or edited, and whose chain did
\* not fork, verifies: failed writes, and whatever happens to the entries of
\* others in the same table, do not make its chain look tampered with.
IntactVerifies == \A o \in Orgs \ touched : ~Forked(o) => VerifyChain(o)

\* Entries written by record_action and edited by no one verify.
ChainsVerify == \A o \in Orgs : VerifyChain(o)

=============================================================================
