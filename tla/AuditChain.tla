----------------------------- MODULE AuditChain -----------------------------
(***************************************************************************)
(* The audit subsystem: app/services/audit_service.py,                     *)
(* app/repositories/pg/audit_repo.py and app/domain/audit.py on PostgreSQL *)
(* at READ COMMITTED.  The api and worker processes append from many       *)
(* transactions at once; each append runs lock, read of the head, INSERT   *)
(* and COMMIT as separate statements, and any of them may fail.            *)
(*                                                                         *)
(* SHA256 is taken as collision free: the hash of (prev, view) is the      *)
(* sequence prev with view appended, so an entry hash stands for exactly   *)
(* the history it commits to.                                              *)
(***************************************************************************)
EXTENDS Naturals, Sequences, FiniteSets, FiniteSetsExt

CONSTANTS
    Transactions,  \* database transactions that record an event
    Payloads,      \* business views of events
    Stored,        \* what a business view reads back as after JSONB columns
    Verifiers,     \* runs of reverify_audit_chain
    Nobody         \* the lock is free; no payload

ASSUME AuditAssumption ==
    /\ Stored \in [Payloads -> Payloads]
    /\ Nobody \notin Transactions
    /\ Nobody \notin Payloads

VARIABLES
    table,    \* committed rows of audit_events, by id
    nextId,   \* the sequence behind the id column; a rollback leaves a gap
    lock,     \* holder of pg_advisory_xact_lock(_AUDIT_LOCK_KEY)
    tx,       \* the transactions
    ver,      \* result computed by a verifier and not saved yet
    checks    \* rows of audit_chain_verifications

vars == <<table, nextId, lock, tx, ver, checks>>

GENESIS_HASH == <<>>

compute_entry_hash(prev, view) == Append(prev, view)

NoRow == [payload |-> Nobody, prev_hash |-> GENESIS_HASH, entry_hash |-> GENESIS_HASH]

NewTx == [pc |-> "new", payload |-> Nobody, prev |-> GENESIS_HASH, id |-> 0, row |-> NoRow]

NoResult == [verified |-> FALSE, entries |-> 0, first_bad |-> 0, head |-> GENESIS_HASH]

Init ==
    /\ table = [i \in {} |-> NoRow]
    /\ nextId = 1
    /\ lock = Nobody
    /\ tx = [t \in Transactions |-> NewTx]
    /\ ver = [v \in Verifiers |-> [pc |-> "new", result |-> NoResult]]
    /\ checks = <<>>

\* ORDER BY id DESC LIMIT 1 over the committed rows.
CurrentHead(rows) ==
    IF DOMAIN rows = {} THEN GENESIS_HASH ELSE rows[Max(DOMAIN rows)].entry_hash

\* record: the event is built; the transaction asks for the lock.
Begin(t, p) ==
    /\ tx[t].pc = "new"
    /\ tx' = [tx EXCEPT ![t] = [NewTx EXCEPT !.pc = "wait", !.payload = p]]
    /\ UNCHANGED <<table, nextId, lock, ver, checks>>

\* Mutant: the lock does not reach across processes.
LockOfOwnProcess(t) ==
    /\ tx[t].pc = "wait"
    /\ lock' = t
    /\ tx' = [tx EXCEPT ![t] = [@ EXCEPT !.pc = "read"]]
    /\ UNCHANGED <<table, nextId, ver, checks>>

\* SELECT pg_advisory_xact_lock returns.
Lock(t) ==
    /\ tx[t].pc = "wait"
    /\ lock = Nobody
    /\ lock' = t
    /\ tx' = [tx EXCEPT ![t] = [@ EXCEPT !.pc = "read"]]
    /\ UNCHANGED <<table, nextId, ver, checks>>

\* _current_head_hash, a statement with a snapshot of its own.
ReadHead(t) ==
    /\ tx[t].pc = "read"
    /\ tx' = [tx EXCEPT ![t] = [@ EXCEPT !.pc = "insert", !.prev = CurrentHead(table)]]
    /\ UNCHANGED <<table, nextId, lock, ver, checks>>

\* The row as the INSERT stores it: hashed from the Python values, stored as JSONB.
NewRow(q) == [payload |-> Stored[q.payload],
              prev_hash |-> q.prev,
              entry_hash |-> compute_entry_hash(q.prev, q.payload)]

\* Mutant: the lock is given back after the INSERT, before the COMMIT.
InsertAndUnlock(t) ==
    /\ tx[t].pc = "insert"
    /\ tx' = [tx EXCEPT ![t] = [@ EXCEPT !.pc = "commit", !.id = nextId, !.row = NewRow(tx[t])]]
    /\ nextId' = nextId + 1
    /\ lock' = Nobody
    /\ UNCHANGED <<table, ver, checks>>

\* Mutant: the id is the next free one, but the sequence is not advanced.
InsertWithoutDraw(t) ==
    /\ tx[t].pc = "insert"
    /\ tx' = [tx EXCEPT ![t] = [@ EXCEPT !.pc = "commit", !.id = nextId, !.row = NewRow(tx[t])]]
    /\ UNCHANGED <<table, nextId, lock, ver, checks>>

\* flush: the id is drawn from the sequence; the row is invisible to others.
Insert(t) ==
    /\ tx[t].pc = "insert"
    /\ tx' = [tx EXCEPT ![t] = [@ EXCEPT !.pc = "commit", !.id = nextId, !.row = NewRow(tx[t])]]
    /\ nextId' = nextId + 1
    /\ UNCHANGED <<table, lock, ver, checks>>

WithRow(rows, id, row) == [i \in DOMAIN rows \cup {id} |-> IF i = id THEN row ELSE rows[i]]

\* COMMIT publishes the row and releases the lock.
Commit(t) ==
    /\ tx[t].pc = "commit"
    /\ table' = WithRow(table, tx[t].id, tx[t].row)
    /\ lock' = Nobody
    /\ tx' = [tx EXCEPT ![t] = [@ EXCEPT !.pc = "done"]]
    /\ UNCHANGED <<nextId, ver, checks>>

Active(t) == tx[t].pc \in {"wait", "read", "insert", "commit"}

\* Mutant: a session-level lock, which outlives the transaction.
RollbackKeepsLock(t) ==
    /\ Active(t)
    /\ tx' = [tx EXCEPT ![t] = [NewTx EXCEPT !.pc = "done"]]
    /\ UNCHANGED <<table, nextId, lock, ver, checks>>

(***************************************************************************)
(* The transaction ends without a COMMIT: a statement failed, the caller   *)
(* was cancelled or its process died.  PostgreSQL drops the row and the    *)
(* lock; the sequence keeps its value.                                     *)
(***************************************************************************)
Rollback(t) ==
    /\ Active(t)
    /\ tx' = [tx EXCEPT ![t] = [NewTx EXCEPT !.pc = "done"]]
    /\ lock' = IF lock = t THEN Nobody ELSE lock
    /\ UNCHANGED <<table, nextId, ver, checks>>

\* The prev_hash verify_chain expects of the row with this id.
Earlier(rows, id) == {i \in DOMAIN rows : i < id}

ExpectedPrev(rows, id) ==
    IF Earlier(rows, id) = {} THEN GENESIS_HASH ELSE rows[Max(Earlier(rows, id))].entry_hash

\* Mutant: the content is recomputed but the link is not compared.
ContentOnly(rows, id) ==
    rows[id].entry_hash = compute_entry_hash(rows[id].prev_hash, rows[id].payload)

\* Link and content of one row are as they should be.
EntryOK(rows, id) ==
    /\ rows[id].prev_hash = ExpectedPrev(rows, id)
    /\ rows[id].entry_hash = compute_entry_hash(ExpectedPrev(rows, id), rows[id].payload)

BadRows(rows) == {id \in DOMAIN rows : ~EntryOK(rows, id)}

\* verify_chain: the loop stops at the first bad row and reports its position.
verify_chain(rows) ==
    IF BadRows(rows) = {}
      THEN [verified |-> TRUE, entries |-> Cardinality(DOMAIN rows),
            first_bad |-> 0, head |-> CurrentHead(rows)]
      ELSE [verified |-> FALSE, entries |-> Cardinality(DOMAIN rows),
            first_bad |-> 1 + Cardinality(Earlier(rows, Min(BadRows(rows)))),
            head |-> GENESIS_HASH]

\* run_verification: one SELECT of all rows, without the lock, then the check.
Verify(v) ==
    /\ ver[v].pc = "new"
    /\ ver' = [ver EXCEPT ![v] = [pc |-> "save", result |-> verify_chain(table)]]
    /\ UNCHANGED <<table, nextId, lock, tx, checks>>

\* save_verification and its commit.
Save(v) ==
    /\ ver[v].pc = "save"
    /\ checks' = Append(checks, ver[v].result)
    /\ ver' = [ver EXCEPT ![v] = [@ EXCEPT !.pc = "done"]]
    /\ UNCHANGED <<table, nextId, lock, tx>>

Quiescent ==
    /\ \A t \in Transactions : tx[t].pc = "done"
    /\ \A v \in Verifiers : ver[v].pc = "done"
    /\ UNCHANGED vars

Step(t) == ReadHead(t) \/ Insert(t) \/ Commit(t)

Next ==
    \/ \E t \in Transactions :
          \/ \E p \in Payloads : Begin(t, p)
          \/ Lock(t)
          \/ Step(t)
          \/ Rollback(t)
    \/ \E v \in Verifiers : Verify(v) \/ Save(v)
    \/ Quiescent

Spec == Init /\ [][Next]_vars

\* A statement that was sent returns, unless its transaction is rolled back;
\* PostgreSQL grants the lock to its waiters in turn.
FairSpec ==
    /\ Spec
    /\ \A t \in Transactions : SF_vars(Lock(t)) /\ WF_vars(Step(t))

----------------------------------------------------------------------------
Hash == Seq(Payloads)

RowType == [payload : Payloads \cup {Nobody}, prev_hash : Hash, entry_hash : Hash]

TxType == [pc : {"new", "wait", "read", "insert", "commit", "done"},
           payload : Payloads \cup {Nobody},
           prev : Hash,
           id : Nat,
           row : RowType]

Result == [verified : BOOLEAN, entries : Nat, first_bad : Nat, head : Hash]

\* Rows, transactions and results hold values of their types; ids come from
\* the sequence; a transaction past its start carries an event.
TypeOK ==
    /\ nextId \in Nat \ {0}
    /\ DOMAIN table \subseteq 1 .. (nextId - 1)
    /\ table \in [DOMAIN table -> RowType]
    /\ lock \in Transactions \cup {Nobody}
    /\ tx \in [Transactions -> TxType]
    /\ \A t \in Transactions : Active(t) => tx[t].payload \in Payloads
    /\ ver \in [Verifiers -> [pc : {"new", "save", "done"}, result : Result]]
    /\ checks \in Seq(Result)

\* The hash of the newest row commits to the whole log: seen through it, the
\* tables implement the append-only log, so no append forks the chain, is
\* lost or appears twice, whichever transactions overlap or fail (audit_repo
\* append, "cannot race on prev_hash and fork the chain").
Log == INSTANCE AuditLog WITH log <- CurrentHead(table)

LogSpec == Log!Spec

\* A verification result that describes a history that was committed.
Truthful(r) ==
    /\ r.verified
    /\ r.entries = Len(r.head)
    /\ r.entries > 0 =>
          \E id \in DOMAIN table :
             /\ table[id].entry_hash = r.head
             /\ 1 + Cardinality(Earlier(table, id)) = r.entries

\* Read without the lock, in the middle of appends and rollbacks, the chain
\* still verifies, and what is saved describes a history that was really
\* committed: its head is the hash of a committed row with that many rows up
\* to it (the VERIFIED badge of GET /audit/chain/verify is true).
VerificationTruth == \A k \in DOMAIN checks : Truthful(checks[k])

Edited(id, p) == [table EXCEPT ![id] = [@ EXCEPT !.payload = p]]

Without(id) == [i \in DOMAIN table \ {id} |-> table[i]]

\* Were a stored row changed, or a row other than the newest removed, behind
\* the back of the application, verification would fail and point at the
\* first row concerned (verify_chain, test_worker_detects_tamper).
EditsDetected ==
    \A id \in DOMAIN table :
        LET position == 1 + Cardinality(Earlier(table, id))
        IN  /\ \A p \in Payloads \ {table[id].payload} :
                  LET r == verify_chain(Edited(id, p))
                  IN  ~r.verified /\ r.first_bad = position
            /\ id # Max(DOMAIN table) =>
                  LET r == verify_chain(Without(id))
                  IN  ~r.verified /\ r.first_bad = position

\* audit_repo.py: the bytes hashed before the INSERT and those hashed from
\* the row read back "can never drift", so a verification never fails.
NeverDrifts == \A k \in DOMAIN checks : checks[k].verified

\* Nobody waits for the lock for ever, whoever fails while holding it.
WaitersServed == \A t \in Transactions : tx[t].pc = "wait" ~> tx[t].pc = "done"

============================================================================
