-------------------------- MODULE AuditChainProofs --------------------------
(***************************************************************************)
(* The audit chain for any number of transactions and verifiers.           *)
(*                                                                         *)
(* The argument: the advisory lock makes read-head, INSERT and COMMIT of   *)
(* one transaction exclude those of every other (LockInv), so the head a   *)
(* transaction read is still the head when it commits (HeadInv) and its id *)
(* is above every committed id (RowInv).  Hence a commit extends the chain *)
(* at its end (Extend), which gives the shape of the table (TableInv), the *)
(* refinement of AuditLog and the truth of verifications.                  *)
(***************************************************************************)
EXTENDS AuditChain, FiniteSetTheorems, SequenceTheorems, WellFoundedInduction, TLAPS

LockInv == \A t \in Transactions : tx[t].pc \in {"read", "insert", "commit"} => lock = t

HeadInv == \A t \in Transactions :
              tx[t].pc \in {"insert", "commit"} => tx[t].prev = CurrentHead(table)

RowInv == \A t \in Transactions :
             tx[t].pc = "commit" =>
                /\ tx[t].id \in 1 .. (nextId - 1)
                /\ \A i \in DOMAIN table : i < tx[t].id
                /\ tx[t].row = NewRow(tx[t])

\* A greatest element, so that Max is defined by it.
HasMax(S) == \E m \in S : \A i \in S : i <= m

\* The shape of the committed table.
TableInv ==
    /\ IsFiniteSet(DOMAIN table)
    /\ DOMAIN table # {} => HasMax(DOMAIN table)
    /\ Len(CurrentHead(table)) = Cardinality(DOMAIN table)
    /\ \A id \in DOMAIN table :
          /\ Earlier(table, id) # {} => HasMax(Earlier(table, id))
          /\ table[id].prev_hash = ExpectedPrev(table, id)
          /\ \E p \in Payloads : /\ table[id].payload = Stored[p]
                                 /\ table[id].entry_hash = Append(table[id].prev_hash, p)
          /\ Len(table[id].entry_hash) = 1 + Cardinality(Earlier(table, id))

\* JSONB returns every value that is recorded in the form it was hashed in.
RoundTrips == \A p \in Payloads : Stored[p] = p

\* Results computed or saved are true, provided the stored values round-trip.
ResultInv ==
    RoundTrips =>
       /\ \A v \in Verifiers : ver[v].pc = "save" => Truthful(ver[v].result)
       /\ VerificationTruth

Inv == TypeOK /\ LockInv /\ HeadInv /\ RowInv /\ TableInv /\ ResultInv

----------------------------------------------------------------------------
\* The greatest element is what Max chooses.
LEMMA MaxIs ==
    ASSUME NEW S, S \subseteq Nat, NEW m \in S, \A i \in S : i <= m
    PROVE  Max(S) = m
<1>1. \A x \in S : (\A y \in S : x >= y) => x = m
  OBVIOUS
<1>2. \A y \in S : m >= y
  OBVIOUS
<1>. QED
  BY <1>1, <1>2, Zenon DEF Max

\* In a set of ids with a greatest element Max is a member.
LEMMA MaxIn ==
    ASSUME NEW S, S \subseteq Nat, HasMax(S)
    PROVE  Max(S) \in S /\ \A i \in S : i <= Max(S)
<1>1. PICK m \in S : \A i \in S : i <= m
  BY DEF HasMax
<1>2. Max(S) = m
  BY <1>1, MaxIs
<1>. QED
  BY <1>1, <1>2

\* The hash of a chain head is a sequence of event views.
LEMMA HeadType ==
    ASSUME TypeOK, TableInv
    PROVE  CurrentHead(table) \in Seq(Payloads)
<1>1. CASE DOMAIN table = {}
  BY <1>1 DEF CurrentHead, GENESIS_HASH
<1>2. CASE DOMAIN table # {}
  <2>1. DOMAIN table \subseteq Nat
    BY DEF TypeOK
  <2>2. Max(DOMAIN table) \in DOMAIN table
    BY <1>2, <2>1, MaxIn DEF TableInv
  <2>. QED
    BY <1>2, <2>2 DEF CurrentHead, TypeOK, RowType, Hash
<1>. QED
  BY <1>1, <1>2

\* A COMMIT under an id above all committed ones extends the chain at its
\* end and leaves every earlier row, and what precedes it, as it was.
LEMMA Extend ==
    ASSUME DOMAIN table \subseteq Nat,
           DOMAIN table # {} => HasMax(DOMAIN table),
           NEW n \in Nat, \A i \in DOMAIN table : i < n,
           NEW row, table' = WithRow(table, n, row)
    PROVE  /\ DOMAIN table' = DOMAIN table \cup {n}
           /\ table'[n] = row
           /\ \A i \in DOMAIN table : /\ table'[i] = table[i]
                                     /\ Earlier(table', i) = Earlier(table, i)
                                     /\ i # n
           /\ Earlier(table', n) = DOMAIN table
           /\ CurrentHead(table') = row.entry_hash
           /\ ExpectedPrev(table', n) = CurrentHead(table)
           /\ HasMax(DOMAIN table')
           /\ n \notin DOMAIN table
<1>1. DOMAIN table' = DOMAIN table \cup {n} /\ table'[n] = row /\ n \notin DOMAIN table
  BY DEF WithRow
<1>2. \A i \in DOMAIN table : table'[i] = table[i] /\ i # n
  BY DEF WithRow
<1>3. \A i \in DOMAIN table : Earlier(table', i) = Earlier(table, i)
  BY <1>1 DEF Earlier
<1>4. Earlier(table', n) = DOMAIN table
  BY <1>1 DEF Earlier
<1>5. Max(DOMAIN table') = n
  <2>1. \A i \in DOMAIN table' : i <= n
    BY <1>1
  <2>. QED
    BY <1>1, <2>1, MaxIs
<1>6. CurrentHead(table') = row.entry_hash
  BY <1>1, <1>5 DEF CurrentHead
<1>7. ExpectedPrev(table', n) = CurrentHead(table)
  <2>1. CASE DOMAIN table = {}
    BY <2>1, <1>4 DEF ExpectedPrev, CurrentHead
  <2>2. CASE DOMAIN table # {}
    <3>1. Max(DOMAIN table) \in DOMAIN table
      BY <2>2, MaxIn
    <3>. QED
      BY <3>1, <2>2, <1>2, <1>4 DEF ExpectedPrev, CurrentHead
  <2>. QED
    BY <2>1, <2>2
<1>8. HasMax(DOMAIN table')
  BY <1>1 DEF HasMax
<1>. QED
  BY <1>1, <1>2, <1>3, <1>4, <1>6, <1>7, <1>8

\* Initially nothing is committed, held or saved.
LEMMA InitInv == Init => Inv
<1>. SUFFICES ASSUME Init PROVE Inv
  OBVIOUS
<1>. USE AuditAssumption
<1>1. DOMAIN table = {} /\ CurrentHead(table) = <<>>
  BY DEF Init, CurrentHead, GENESIS_HASH
<1>2. TypeOK
  BY <1>1 DEF Init, TypeOK, TxType, RowType, Hash, Result, NewTx, NoRow, NoResult,
              GENESIS_HASH, Active
<1>3. LockInv /\ HeadInv /\ RowInv
  BY DEF Init, LockInv, HeadInv, RowInv, NewTx
<1>4. TableInv
  BY <1>1, FS_EmptySet DEF TableInv
<1>5. ResultInv
  BY DEF Init, ResultInv, VerificationTruth
<1>. QED
  BY <1>2, <1>3, <1>4, <1>5 DEF Inv

\* The finite pieces of a table have cardinalities.
LEMMA TableFinite ==
    ASSUME NEW rows, IsFiniteSet(DOMAIN rows)
    PROVE  /\ Cardinality(DOMAIN rows) \in Nat
           /\ \A id : Cardinality(Earlier(rows, id)) \in Nat
<1>1. Cardinality(DOMAIN rows) \in Nat
  BY FS_CardinalityType
<1>2. ASSUME NEW id PROVE Cardinality(Earlier(rows, id)) \in Nat
  <2>1. IsFiniteSet(Earlier(rows, id))
    BY FS_Subset DEF Earlier
  <2>. QED
    BY <2>1, FS_CardinalityType
<1>. QED
  BY <1>1, <1>2

\* Verification returns a result; of a table of the right shape, whose values
\* round-trip, it returns a true one.
LEMMA VerifyResult ==
    ASSUME TypeOK, TableInv
    PROVE  /\ verify_chain(table) \in Result
           /\ RoundTrips => Truthful(verify_chain(table))
<1>1. CurrentHead(table) \in Hash
  BY HeadType DEF Hash
<1>2. /\ Cardinality(DOMAIN table) \in Nat
      /\ \A id : Cardinality(Earlier(table, id)) \in Nat
  BY TableFinite DEF TableInv
<1>3. verify_chain(table) \in Result
  <2>1. CASE BadRows(table) = {}
    BY <2>1, <1>1, <1>2 DEF verify_chain, Result
  <2>2. CASE BadRows(table) # {}
    <3>. DEFINE c == Cardinality(Earlier(table, Min(BadRows(table))))
    <3>1. c \in Nat
      BY <1>2
    <3>2. GENESIS_HASH \in Hash
      BY DEF GENESIS_HASH, Hash
    <3>3. verify_chain(table) = [verified |-> FALSE, entries |-> Cardinality(DOMAIN table),
                                 first_bad |-> 1 + c, head |-> GENESIS_HASH]
      BY <2>2 DEF verify_chain
    <3>. QED
      BY <3>1, <3>2, <3>3, <1>2 DEF Result
  <2>. QED
    BY <2>1, <2>2
<1>4. ASSUME RoundTrips PROVE Truthful(verify_chain(table))
  <2>1. BadRows(table) = {}
    <3>1. SUFFICES ASSUME NEW id \in DOMAIN table PROVE EntryOK(table, id)
      BY DEF BadRows
    <3>2. PICK p \in Payloads : /\ table[id].payload = Stored[p]
                                /\ table[id].entry_hash = Append(table[id].prev_hash, p)
      BY DEF TableInv
    <3>3. table[id].prev_hash = ExpectedPrev(table, id)
      BY DEF TableInv
    <3>. QED
      BY <1>4, <3>2, <3>3 DEF EntryOK, compute_entry_hash, RoundTrips
  <2>2. verify_chain(table) = [verified |-> TRUE, entries |-> Cardinality(DOMAIN table),
                               first_bad |-> 0, head |-> CurrentHead(table)]
    BY <2>1 DEF verify_chain
  <2>3. Len(CurrentHead(table)) = Cardinality(DOMAIN table)
    BY DEF TableInv
  <2>4. ASSUME Cardinality(DOMAIN table) > 0
        PROVE  \E id \in DOMAIN table :
                  /\ table[id].entry_hash = CurrentHead(table)
                  /\ 1 + Cardinality(Earlier(table, id)) = Cardinality(DOMAIN table)
    <3>1. DOMAIN table # {}
      BY <2>4, FS_EmptySet
    <3>2. Max(DOMAIN table) \in DOMAIN table
      <4>1. DOMAIN table \subseteq Nat
        BY DEF TypeOK
      <4>. QED
        BY <3>1, <4>1, MaxIn DEF TableInv
    <3>3. table[Max(DOMAIN table)].entry_hash = CurrentHead(table)
      BY <3>1 DEF CurrentHead
    <3>4. Len(table[Max(DOMAIN table)].entry_hash)
             = 1 + Cardinality(Earlier(table, Max(DOMAIN table)))
      BY <3>2 DEF TableInv
    <3>. QED
      BY <3>2, <3>3, <3>4, <2>3
  <2>. QED
    BY <2>2, <2>3, <2>4 DEF Truthful
<1>. QED
  BY <1>3, <1>4

\* A step that commits nothing keeps the shape of the table and what is said
\* of the history in it.
LEMMA NoCommitKeeps ==
    ASSUME table' = table
    PROVE  /\ TableInv => TableInv'
           /\ CurrentHead(table)' = CurrentHead(table)
           /\ \A r : Truthful(r)' = Truthful(r)
BY DEF TableInv, CurrentHead, Truthful, HasMax, Earlier, ExpectedPrev

\* What a step of the transaction side other than Commit has to provide.
LEMMA PlainStep ==
    ASSUME Inv, table' = table, UNCHANGED <<ver, checks>>, TypeOK', LockInv', HeadInv', RowInv'
    PROVE  Inv'
<1>1. TableInv'
  BY NoCommitKeeps DEF Inv
<1>2. ResultInv'
  <2>1. \A r : Truthful(r)' = Truthful(r)
    BY NoCommitKeeps
  <2>. QED
    BY <2>1 DEF Inv, ResultInv, VerificationTruth, RoundTrips
<1>. QED
  BY <1>1, <1>2 DEF Inv

\* The fresh transaction record has the type of transactions.
LEMMA NewTxType == NewTx \in TxType
<1>1. GENESIS_HASH \in Hash
  BY DEF GENESIS_HASH, Hash
<1>2. NoRow \in RowType
  BY <1>1 DEF NoRow, RowType
<1>. QED
  BY <1>1, <1>2 DEF NewTx, TxType

\* A transaction starts.
LEMMA InvBegin ==
    ASSUME Inv, NEW t \in Transactions, NEW p \in Payloads, Begin(t, p)
    PROVE  Inv'
<1>. USE DEF Begin, Inv
<1>1. table' = table /\ lock' = lock /\ nextId' = nextId /\ UNCHANGED <<ver, checks>>
  OBVIOUS
<1>. DEFINE q == [NewTx EXCEPT !.pc = "wait", !.payload = p]
<1>2. q \in TxType /\ q.pc = "wait" /\ q.payload = p
  BY NewTxType DEF TxType
<1>. HIDE DEF q
<1>3. tx' = [tx EXCEPT ![t] = q]
  BY DEF q
<1>4. TypeOK'
  BY <1>1, <1>2, <1>3 DEF TypeOK, Active
<1>5. LockInv' /\ HeadInv' /\ RowInv'
  <2>1. CurrentHead(table)' = CurrentHead(table)
    BY <1>1, NoCommitKeeps
  <2>. QED
    BY <1>1, <1>2, <1>3, <2>1 DEF TypeOK, LockInv, HeadInv, RowInv, NewRow
<1>. QED
  BY <1>1, <1>4, <1>5, PlainStep

\* The lock is granted: nobody else is between lock and commit.
LEMMA InvLock ==
    ASSUME Inv, NEW t \in Transactions, Lock(t)
    PROVE  Inv'
<1>. USE DEF Lock, Inv
<1>1. table' = table /\ nextId' = nextId /\ UNCHANGED <<ver, checks>>
  OBVIOUS
<1>. DEFINE q == [tx[t] EXCEPT !.pc = "read"]
<1>2. q \in TxType /\ q.pc = "read" /\ q.payload = tx[t].payload
  BY DEF TypeOK, TxType
<1>. HIDE DEF q
<1>3. tx' = [tx EXCEPT ![t] = q]
  BY DEF q
<1>4. TypeOK'
  BY <1>1, <1>2, <1>3 DEF TypeOK, Active
<1>5. LockInv' /\ HeadInv' /\ RowInv'
  <2>1. CurrentHead(table)' = CurrentHead(table)
    BY <1>1, NoCommitKeeps
  <2>2. \A s \in Transactions : tx[s].pc \notin {"read", "insert", "commit"}
    BY AuditAssumption DEF LockInv
  <2>. QED
    BY <1>1, <1>2, <1>3, <2>1, <2>2 DEF TypeOK, LockInv, HeadInv, RowInv
<1>. QED
  BY <1>1, <1>4, <1>5, PlainStep

\* The head is read under the lock.
LEMMA InvReadHead ==
    ASSUME Inv, NEW t \in Transactions, ReadHead(t)
    PROVE  Inv'
<1>. USE DEF ReadHead, Inv
<1>1. table' = table /\ nextId' = nextId /\ lock' = lock /\ UNCHANGED <<ver, checks>>
  OBVIOUS
<1>. DEFINE q == [tx[t] EXCEPT !.pc = "insert", !.prev = CurrentHead(table)]
<1>2. /\ q \in TxType
      /\ q.pc = "insert" /\ q.payload = tx[t].payload /\ q.prev = CurrentHead(table)
  BY HeadType DEF TypeOK, TxType, Hash
<1>. HIDE DEF q
<1>3. tx' = [tx EXCEPT ![t] = q]
  BY DEF q
<1>4. TypeOK'
  BY <1>1, <1>2, <1>3 DEF TypeOK, Active
<1>5. LockInv' /\ HeadInv' /\ RowInv'
  <2>1. CurrentHead(table)' = CurrentHead(table)
    BY <1>1, NoCommitKeeps
  <2>. QED
    BY <1>1, <1>2, <1>3, <2>1 DEF TypeOK, LockInv, HeadInv, RowInv, NewRow
<1>. QED
  BY <1>1, <1>4, <1>5, PlainStep

\* The INSERT draws an id above every committed one.
LEMMA InvInsert ==
    ASSUME Inv, NEW t \in Transactions, Insert(t)
    PROVE  Inv'
<1>. USE DEF Insert, Inv
<1>1. table' = table /\ nextId' = nextId + 1 /\ lock' = lock /\ UNCHANGED <<ver, checks>>
  OBVIOUS
<1>. DEFINE q == [tx[t] EXCEPT !.pc = "commit", !.id = nextId, !.row = NewRow(tx[t])]
<1>2. NewRow(tx[t]) \in RowType
  <2>1. tx[t].payload \in Payloads /\ tx[t].prev \in Seq(Payloads)
    BY DEF TypeOK, TxType, Active, Hash
  <2>2. Append(tx[t].prev, tx[t].payload) \in Seq(Payloads)
    BY <2>1
  <2>3. Stored[tx[t].payload] \in Payloads
    BY <2>1, AuditAssumption
  <2>. QED
    BY <2>1, <2>2, <2>3 DEF NewRow, RowType, Hash, compute_entry_hash
<1>3. /\ q \in TxType
      /\ q.pc = "commit" /\ q.payload = tx[t].payload /\ q.prev = tx[t].prev
      /\ q.id = nextId /\ q.row = NewRow(tx[t])
  BY <1>2 DEF TypeOK, TxType
<1>4. NewRow(q) = NewRow(tx[t])
  BY <1>3 DEF NewRow
<1>. HIDE DEF q
<1>5. tx' = [tx EXCEPT ![t] = q]
  BY DEF q
<1>6. TypeOK'
  <2>1. DOMAIN table' \subseteq 1 .. (nextId' - 1) /\ nextId' \in Nat \ {0}
    BY <1>1 DEF TypeOK
  <2>. QED
    BY <2>1, <1>1, <1>3, <1>5 DEF TypeOK, Active
<1>7. LockInv' /\ HeadInv'
  <2>1. CurrentHead(table)' = CurrentHead(table)
    BY <1>1, NoCommitKeeps
  <2>. QED
    BY <1>1, <1>3, <1>5, <2>1 DEF TypeOK, LockInv, HeadInv
<1>8. RowInv'
  <2>1. \A s \in Transactions : s # t => tx'[s] = tx[s]
    BY <1>5 DEF TypeOK
  <2>2. tx'[t] = q
    BY <1>5 DEF TypeOK
  <2>3. \A i \in DOMAIN table : i < nextId
    BY DEF TypeOK
  <2>4. \A s \in Transactions : tx[s].pc = "commit" => tx[s].id \in 1 .. nextId
    BY DEF RowInv, TypeOK
  <2>5. nextId \in 1 .. nextId
    BY DEF TypeOK
  <2>. QED
    BY <1>1, <1>3, <1>4, <2>1, <2>2, <2>3, <2>4, <2>5 DEF RowInv, TypeOK, NewRow
<1>. QED
  BY <1>1, <1>6, <1>7, <1>8, PlainStep

\* A failed transaction leaves no trace but the gap in the ids.
LEMMA InvRollback ==
    ASSUME Inv, NEW t \in Transactions, Rollback(t)
    PROVE  Inv'
<1>. USE DEF Rollback, Inv
<1>1. table' = table /\ nextId' = nextId /\ UNCHANGED <<ver, checks>>
  OBVIOUS
<1>. DEFINE q == [NewTx EXCEPT !.pc = "done"]
<1>2. q \in TxType /\ q.pc = "done"
  BY NewTxType DEF TxType
<1>. HIDE DEF q
<1>3. tx' = [tx EXCEPT ![t] = q]
  BY DEF q
<1>4. TypeOK'
  BY <1>1, <1>2, <1>3 DEF TypeOK, Active
<1>5. LockInv' /\ HeadInv' /\ RowInv'
  <2>1. CurrentHead(table)' = CurrentHead(table)
    BY <1>1, NoCommitKeeps
  <2>. QED
    BY <1>1, <1>2, <1>3, <2>1 DEF TypeOK, LockInv, HeadInv, RowInv, NewRow
<1>. QED
  BY <1>1, <1>4, <1>5, PlainStep

\* COMMIT: the lock rules out every other appender, so the row extends the
\* chain the transaction read.
LEMMA InvCommit ==
    ASSUME Inv, NEW t \in Transactions, Commit(t)
    PROVE  /\ Inv'
           /\ \E p \in Payloads : CurrentHead(table') = Append(CurrentHead(table), p)
<1>. USE DEF Inv
<1>. DEFINE n == tx[t].id
            row == tx[t].row
            p == tx[t].payload
<1>1. tx[t].pc = "commit" /\ nextId' = nextId /\ UNCHANGED <<ver, checks>> /\ lock' = Nobody
  BY DEF Commit
<1>2. table' = WithRow(table, n, row)
  BY DEF Commit
<1>3. /\ n \in 1 .. (nextId - 1) /\ \A i \in DOMAIN table : i < n
      /\ row = NewRow(tx[t]) /\ tx[t].prev = CurrentHead(table) /\ p \in Payloads
  BY <1>1 DEF RowInv, HeadInv, TypeOK, Active
<1>4. /\ row.prev_hash = CurrentHead(table)
      /\ row.entry_hash = Append(CurrentHead(table), p)
      /\ row.payload = Stored[p]
      /\ row \in RowType
  BY <1>3 DEF NewRow, compute_entry_hash, TypeOK, TxType
<1>. HIDE DEF n, row, p
<1>5. /\ DOMAIN table' = DOMAIN table \cup {n}
      /\ table'[n] = row
      /\ \A i \in DOMAIN table : /\ table'[i] = table[i]
                                 /\ Earlier(table', i) = Earlier(table, i)
                                 /\ i # n
      /\ Earlier(table', n) = DOMAIN table
      /\ CurrentHead(table') = row.entry_hash
      /\ ExpectedPrev(table', n) = CurrentHead(table)
      /\ HasMax(DOMAIN table')
      /\ n \notin DOMAIN table
  <2>1. DOMAIN table \subseteq Nat /\ n \in Nat
    BY <1>3 DEF TypeOK
  <2>2. DOMAIN table # {} => HasMax(DOMAIN table)
    BY DEF TableInv
  <2>3. \A i \in DOMAIN table : i < n
    BY <1>3
  <2>. QED
    BY <1>2, <2>1, <2>2, <2>3, Extend
<1>. DEFINE q == [tx[t] EXCEPT !.pc = "done"]
<1>6. q \in TxType /\ q.pc = "done" /\ tx' = [tx EXCEPT ![t] = q]
  BY DEF Commit, TypeOK, TxType
<1>. HIDE DEF q
<1>7. TypeOK'
  <2>1. DOMAIN table' \subseteq 1 .. (nextId' - 1)
    BY <1>1, <1>3, <1>5 DEF TypeOK
  <2>2. table' \in [DOMAIN table' -> RowType]
    <3>1. \A i \in DOMAIN table' : table'[i] \in RowType
      BY <1>4, <1>5 DEF TypeOK
    <3>2. table' = [i \in DOMAIN table' |-> table'[i]]
      BY <1>2, <1>5 DEF WithRow
    <3>. QED
      BY <3>1, <3>2
  <2>. QED
    BY <1>1, <1>6, <2>1, <2>2 DEF TypeOK, Active
<1>8. LockInv' /\ HeadInv' /\ RowInv'
  <2>1. \A s \in Transactions : tx'[s].pc \notin {"read", "insert", "commit"}
    BY <1>1, <1>6 DEF LockInv, TypeOK
  <2>. QED
    BY <2>1 DEF LockInv, HeadInv, RowInv
<1>9. TableInv'
  <2>1. IsFiniteSet(DOMAIN table') /\ Cardinality(DOMAIN table') = Cardinality(DOMAIN table) + 1
    BY <1>5, FS_AddElement DEF TableInv
  <2>2. CurrentHead(table) \in Seq(Payloads) /\ Len(CurrentHead(table)) = Cardinality(DOMAIN table)
    BY HeadType DEF TableInv
  <2>3. Len(row.entry_hash) = Len(CurrentHead(table)) + 1
    BY <2>2, <1>3, <1>4
  <2>4. Cardinality(DOMAIN table) \in Nat
    BY TableFinite DEF TableInv
  <2>5. ASSUME NEW id \in DOMAIN table'
        PROVE  /\ Earlier(table', id) # {} => HasMax(Earlier(table', id))
               /\ table'[id].prev_hash = ExpectedPrev(table', id)
               /\ \E e \in Payloads : /\ table'[id].payload = Stored[e]
                                      /\ table'[id].entry_hash = Append(table'[id].prev_hash, e)
               /\ Len(table'[id].entry_hash) = 1 + Cardinality(Earlier(table', id))
    <3>1. CASE id = n
      <4>1. Earlier(table', id) = DOMAIN table /\ table'[id] = row
        BY <3>1, <1>5
      <4>2. Earlier(table', id) # {} => HasMax(Earlier(table', id))
        BY <4>1 DEF TableInv
      <4>3. table'[id].prev_hash = ExpectedPrev(table', id)
        BY <3>1, <4>1, <1>4, <1>5
      <4>4. \E e \in Payloads : /\ table'[id].payload = Stored[e]
                                /\ table'[id].entry_hash = Append(table'[id].prev_hash, e)
        BY <4>1, <1>3, <1>4
      <4>5. Len(table'[id].entry_hash) = 1 + Cardinality(Earlier(table', id))
        BY <4>1, <2>2, <2>3, <2>4
      <4>. QED
        BY <4>2, <4>3, <4>4, <4>5
    <3>2. CASE id \in DOMAIN table
      <4>1. ExpectedPrev(table', id) = ExpectedPrev(table, id)
        <5>1. CASE Earlier(table, id) = {}
          BY <5>1, <3>2, <1>5 DEF ExpectedPrev
        <5>2. CASE Earlier(table, id) # {}
          <6>1. Earlier(table, id) \subseteq DOMAIN table /\ DOMAIN table \subseteq Nat
            BY DEF Earlier, TypeOK
          <6>2. Max(Earlier(table, id)) \in Earlier(table, id)
            BY <3>2, <5>2, <6>1, MaxIn DEF TableInv
          <6>. QED
            BY <5>2, <3>2, <6>1, <6>2, <1>5 DEF ExpectedPrev
        <5>. QED
          BY <5>1, <5>2
      <4>. QED
        BY <3>2, <4>1, <1>5 DEF TableInv
    <3>. QED
      BY <3>1, <3>2, <1>5
  <2>. QED
    BY <1>5, <2>1, <2>2, <2>3, <2>4, <2>5 DEF TableInv
<1>10. ResultInv'
  <2>1. \A r : Truthful(r) => Truthful(r)'
    BY <1>5 DEF Truthful
  <2>. QED
    BY <1>1, <2>1 DEF ResultInv, VerificationTruth, RoundTrips
<1>11. CurrentHead(table') = Append(CurrentHead(table), p)
  BY <1>4, <1>5
<1>. QED
  BY <1>3, <1>7, <1>8, <1>9, <1>10, <1>11

\* Verifiers compute and save true results.
LEMMA InvVerifier ==
    ASSUME Inv, NEW v \in Verifiers, Verify(v) \/ Save(v)
    PROVE  Inv'
<1>. USE DEF Inv
<1>1. table' = table /\ nextId' = nextId /\ lock' = lock /\ tx' = tx
  BY DEF Verify, Save
<1>2. TableInv' /\ CurrentHead(table)' = CurrentHead(table) /\ \A r : Truthful(r)' = Truthful(r)
  BY <1>1, NoCommitKeeps
<1>3. LockInv' /\ HeadInv' /\ RowInv'
  BY <1>1, <1>2 DEF LockInv, HeadInv, RowInv, NewRow
<1>4. CASE Verify(v)
  <2>1. verify_chain(table) \in Result /\ (RoundTrips => Truthful(verify_chain(table)))
    BY VerifyResult
  <2>2. checks' = checks /\ ver' = [ver EXCEPT ![v] = [pc |-> "save", result |-> verify_chain(table)]]
    BY <1>4 DEF Verify
  <2>3. TypeOK'
    BY <1>1, <2>1, <2>2 DEF TypeOK, Active
  <2>4. ResultInv'
    BY <1>2, <2>1, <2>2 DEF ResultInv, VerificationTruth, TypeOK, RoundTrips
  <2>. QED
    BY <1>2, <1>3, <2>3, <2>4
<1>5. CASE Save(v)
  <2>1. /\ ver[v].pc = "save" /\ checks' = Append(checks, ver[v].result)
        /\ ver' = [ver EXCEPT ![v] = [@ EXCEPT !.pc = "done"]]
    BY <1>5 DEF Save
  <2>2. ver[v].result \in Result /\ checks \in Seq(Result)
    BY DEF TypeOK
  <2>3. /\ checks' \in Seq(Result)
        /\ \A k \in DOMAIN checks' : checks'[k] = ver[v].result \/ \E j \in DOMAIN checks : checks'[k] = checks[j]
    BY <2>1, <2>2
  <2>4. ver' \in [Verifiers -> [pc : {"new", "save", "done"}, result : Result]]
    BY <2>1 DEF TypeOK
  <2>5. TypeOK'
    BY <1>1, <2>3, <2>4 DEF TypeOK, Active
  <2>6. \A w \in Verifiers : ver'[w].pc = "save" => ver'[w] = ver[w]
    BY <2>1 DEF TypeOK
  <2>7. ResultInv'
    BY <1>2, <2>1, <2>3, <2>6 DEF ResultInv, VerificationTruth, RoundTrips
  <2>. QED
    BY <1>2, <1>3, <2>5, <2>7
<1>. QED
  BY <1>4, <1>5

\* Every step keeps the invariant, and the hash of the newest row changes
\* only by the addition of one event.
LEMMA InvStep ==
    ASSUME Inv, [Next]_vars
    PROVE  /\ Inv'
           /\ \/ CurrentHead(table') = CurrentHead(table)
              \/ \E p \in Payloads : CurrentHead(table') = Append(CurrentHead(table), p)
<1>1. CASE UNCHANGED vars
  <2>1. table' = table /\ nextId' = nextId /\ lock' = lock /\ tx' = tx /\ ver' = ver /\ checks' = checks
    BY <1>1 DEF vars
  <2>2. CurrentHead(table)' = CurrentHead(table)
    BY <2>1, NoCommitKeeps
  <2>3. TypeOK' /\ LockInv' /\ HeadInv' /\ RowInv'
    BY <2>1, <2>2 DEF Inv, TypeOK, LockInv, HeadInv, RowInv, NewRow, Active
  <2>. QED
    BY <2>1, <2>3, PlainStep
<1>2. ASSUME NEW t \in Transactions, NEW p \in Payloads, Begin(t, p)
      PROVE  Inv' /\ table' = table
  BY <1>2, InvBegin DEF Begin
<1>3. ASSUME NEW t \in Transactions, Lock(t) PROVE Inv' /\ table' = table
  BY <1>3, InvLock DEF Lock
<1>4. ASSUME NEW t \in Transactions, ReadHead(t) PROVE Inv' /\ table' = table
  BY <1>4, InvReadHead DEF ReadHead
<1>5. ASSUME NEW t \in Transactions, Insert(t) PROVE Inv' /\ table' = table
  BY <1>5, InvInsert DEF Insert
<1>6. ASSUME NEW t \in Transactions, Rollback(t) PROVE Inv' /\ table' = table
  BY <1>6, InvRollback DEF Rollback
<1>7. ASSUME NEW t \in Transactions, Commit(t)
      PROVE  Inv' /\ \E p \in Payloads : CurrentHead(table') = Append(CurrentHead(table), p)
  BY <1>7, InvCommit
<1>8. ASSUME NEW v \in Verifiers, Verify(v) \/ Save(v) PROVE Inv' /\ table' = table
  BY <1>8, InvVerifier DEF Verify, Save
<1>9. CASE Quiescent
  BY <1>1, <1>9 DEF Quiescent
<1>. QED
  BY <1>1, <1>2, <1>3, <1>4, <1>5, <1>6, <1>7, <1>8, <1>9 DEF Next, Step

\* The rows, the transactions and the saved results always have their types.
THEOREM AuditTypeCorrect == Spec => []TypeOK
<1>1. Inv => TypeOK
  BY DEF Inv
<1>. QED
  BY <1>1, InitInv, InvStep, PTL DEF Spec

\* For any number of overlapping and failing transactions the hash chain
\* implements one append-only log: append never forks it, loses an event or
\* records one twice (audit_repo.py append).
THEOREM ImplementsLog == Spec => LogSpec
<1>1. Init => Log!Init
  BY DEF Init, Log!Init, CurrentHead, GENESIS_HASH
<1>2. Inv /\ [Next]_vars => [Log!Next]_(CurrentHead(table))
  BY InvStep DEF Log!Next, Log!Record
<1>. QED
  BY <1>1, <1>2, InitInv, InvStep, PTL DEF Spec, LogSpec, Log!Spec

\* When JSONB returns the recorded values in the form they were hashed in,
\* every saved verification says VERIFIED, of a history that was committed.
THEOREM VerificationsTrue == Spec => [](RoundTrips => VerificationTruth)
<1>1. Inv => (RoundTrips => VerificationTruth)
  BY DEF Inv, ResultInv
<1>. QED
  BY <1>1, InitInv, InvStep, PTL DEF Spec

----------------------------------------------------------------------------
\* The least element is what Min chooses.
LEMMA MinIs ==
    ASSUME NEW S, S \subseteq Nat, NEW m \in S, \A i \in S : m <= i
    PROVE  Min(S) = m
<1>1. \A x \in S : (\A y \in S : x =< y) => x = m
  OBVIOUS
<1>2. \A y \in S : m =< y
  OBVIOUS
<1>. QED
  BY <1>1, <1>2, Zenon DEF Min

\* A set of ids that is not empty has a least one.
LEMMA LeastId ==
    ASSUME NEW S, S \subseteq Nat, S # {}
    PROVE  \E m \in S : \A i \in S : m <= i
<1>. DEFINE R == OpToRel(<, Nat)
<1>1. IsWellFoundedOn(R, Nat)
  BY NatLessThanWellFounded
<1>2. R = {ss \in Nat \X Nat : ss[1] < ss[2]}
  BY DEF OpToRel
<1>. HIDE DEF R
<1>3. PICK x \in S : \A y \in S : ~(<<y, x>> \in R)
  BY <1>1, WFMin
<1>4. \A y \in S : ~(y < x)
  BY <1>2, <1>3
<1>. QED
  BY <1>4

\* The hash of a row commits to its link and its content.
LEMMA RowHash ==
    ASSUME TypeOK, TableInv, RoundTrips, NEW id \in DOMAIN table
    PROVE  /\ table[id].prev_hash \in Seq(Payloads) /\ table[id].payload \in Payloads
           /\ table[id].prev_hash = ExpectedPrev(table, id)
           /\ table[id].entry_hash = Append(table[id].prev_hash, table[id].payload)
           /\ EntryOK(table, id)
<1>1. table[id] \in RowType
  BY DEF TypeOK
<1>2. PICK p \in Payloads : /\ table[id].payload = Stored[p]
                            /\ table[id].entry_hash = Append(table[id].prev_hash, p)
  BY DEF TableInv
<1>3. table[id].payload = p /\ table[id].prev_hash = ExpectedPrev(table, id)
  BY <1>2 DEF RoundTrips, TableInv
<1>. QED
  BY <1>1, <1>2, <1>3 DEF RowType, Hash, EntryOK, compute_entry_hash

\* What verification reports when the first bad row is known.
LEMMA FirstBad ==
    ASSUME NEW rows, DOMAIN rows \subseteq Nat, NEW n \in BadRows(rows),
           \A i \in BadRows(rows) : n <= i
    PROVE  /\ ~verify_chain(rows).verified
           /\ verify_chain(rows).first_bad = 1 + Cardinality(Earlier(rows, n))
<1>1. BadRows(rows) \subseteq Nat
  BY DEF BadRows
<1>2. Min(BadRows(rows)) = n
  BY <1>1, MinIs
<1>. QED
  BY <1>2 DEF verify_chain

\* A row whose payload was changed is the first bad one.
LEMMA EditDetected ==
    ASSUME TypeOK, TableInv, RoundTrips, NEW id \in DOMAIN table,
           NEW p \in Payloads, p # table[id].payload
    PROVE  LET r == verify_chain(Edited(id, p))
           IN  ~r.verified /\ r.first_bad = 1 + Cardinality(Earlier(table, id))
<1>1. PICK rows : rows = Edited(id, p)
  OBVIOUS
<1>2. DOMAIN table \subseteq Nat /\ \A i \in DOMAIN table : table[i] \in RowType
  BY DEF TypeOK
<1>3. /\ DOMAIN rows = DOMAIN table
      /\ \A i \in DOMAIN table : i # id => rows[i] = table[i]
      /\ rows[id] = [table[id] EXCEPT !.payload = p]
  BY <1>1 DEF Edited
<1>4. /\ rows[id].payload = p /\ rows[id].prev_hash = table[id].prev_hash
      /\ rows[id].entry_hash = table[id].entry_hash
  BY <1>2, <1>3 DEF RowType
<1>5. \A i \in DOMAIN table : rows[i].entry_hash = table[i].entry_hash
  BY <1>3, <1>4
<1>6. \A i : Earlier(rows, i) = Earlier(table, i)
  BY <1>3 DEF Earlier
<1>7. ASSUME NEW i \in DOMAIN table PROVE ExpectedPrev(rows, i) = ExpectedPrev(table, i)
  <2>1. CASE Earlier(table, i) = {}
    BY <1>6, <2>1 DEF ExpectedPrev
  <2>2. CASE Earlier(table, i) # {}
    <3>1. Max(Earlier(table, i)) \in Earlier(table, i)
      BY <1>2, <2>2, MaxIn DEF TableInv, Earlier
    <3>2. Max(Earlier(table, i)) \in DOMAIN table
      BY <3>1 DEF Earlier
    <3>. QED
      BY <1>5, <1>6, <2>2, <3>2 DEF ExpectedPrev
  <2>. QED
    BY <2>1, <2>2
<1>8. \A i \in DOMAIN table : i # id => EntryOK(rows, i)
  <2>1. ASSUME NEW i \in DOMAIN table, i # id PROVE EntryOK(rows, i)
    <3>1. EntryOK(table, i) /\ rows[i] = table[i] /\ ExpectedPrev(rows, i) = ExpectedPrev(table, i)
      BY <1>3, <1>7, <2>1, RowHash
    <3>. QED
      BY <3>1 DEF EntryOK
  <2>. QED
    BY <2>1
<1>9. ~EntryOK(rows, id)
  <2>1. PICK prev \in Seq(Payloads) : prev = table[id].prev_hash
    BY RowHash
  <2>2. /\ table[id].payload \in Payloads /\ prev = ExpectedPrev(table, id)
        /\ rows[id].entry_hash = Append(prev, table[id].payload)
    BY <1>4, <2>1, RowHash
  <2>3. ExpectedPrev(rows, id) = prev
    BY <1>7, <2>2
  <2>4. Append(prev, table[id].payload) # Append(prev, p)
    <3>1. /\ Append(prev, table[id].payload)[Len(prev) + 1] = table[id].payload
          /\ Append(prev, p)[Len(prev) + 1] = p
      BY <2>2, AppendProperties
    <3>. QED
      BY <3>1
  <2>. QED
    BY <1>4, <2>2, <2>3, <2>4 DEF EntryOK, compute_entry_hash
<1>10. BadRows(rows) = {id}
  BY <1>3, <1>8, <1>9 DEF BadRows
<1>11. /\ ~verify_chain(rows).verified
       /\ verify_chain(rows).first_bad = 1 + Cardinality(Earlier(rows, id))
  BY <1>2, <1>3, <1>10, FirstBad
<1>. QED
  BY <1>1, <1>6, <1>11

\* After the removal of a row the one that follows it is the first bad one.
LEMMA RemovalDetected ==
    ASSUME TypeOK, TableInv, RoundTrips, NEW id \in DOMAIN table, id # Max(DOMAIN table)
    PROVE  LET r == verify_chain(Without(id))
           IN  ~r.verified /\ r.first_bad = 1 + Cardinality(Earlier(table, id))
<1>1. PICK rows : rows = Without(id)
  OBVIOUS
<1>2. DOMAIN table \subseteq Nat
  BY DEF TypeOK
<1>3. DOMAIN rows = DOMAIN table \ {id} /\ \A i \in DOMAIN rows : rows[i] = table[i]
  BY <1>1 DEF Without
<1>4. PICK n \in DOMAIN table : n > id /\ \A i \in DOMAIN table : i > id => n <= i
  <2>. DEFINE later == {i \in DOMAIN table : i > id}
  <2>1. Max(DOMAIN table) \in DOMAIN table /\ id <= Max(DOMAIN table)
    BY <1>2, MaxIn DEF TableInv
  <2>2. later # {} /\ later \subseteq Nat
    BY <1>2, <2>1
  <2>. HIDE DEF later
  <2>3. PICK m \in later : \A i \in later : m <= i
    BY <2>2, LeastId
  <2>. QED
    BY <2>3 DEF later
<1>5. Earlier(rows, n) = Earlier(table, id)
  BY <1>2, <1>3, <1>4 DEF Earlier
<1>6. ASSUME NEW i \in DOMAIN table, i <= id
      PROVE  Earlier(rows, i) = Earlier(table, i) /\ ExpectedPrev(table, i) = ExpectedPrev(rows, i)
  <2>1. Earlier(rows, i) = Earlier(table, i)
    BY <1>2, <1>3, <1>6 DEF Earlier
  <2>2. CASE Earlier(table, i) = {}
    BY <2>1, <2>2 DEF ExpectedPrev
  <2>3. CASE Earlier(table, i) # {}
    <3>1. Max(Earlier(table, i)) \in Earlier(rows, i)
      BY <1>2, <2>1, <2>3, MaxIn DEF TableInv, Earlier
    <3>2. rows[Max(Earlier(table, i))] = table[Max(Earlier(table, i))]
      BY <1>3, <3>1 DEF Earlier
    <3>. QED
      BY <2>1, <2>3, <3>2 DEF ExpectedPrev
  <2>. QED
    BY <2>1, <2>2, <2>3
<1>7. PICK prev \in Seq(Payloads) : prev = table[id].prev_hash
  BY RowHash
<1>8. ExpectedPrev(rows, n) = prev
  <2>1. ExpectedPrev(rows, id) = prev
    BY <1>2, <1>6, <1>7, RowHash
  <2>2. Earlier(rows, id) = Earlier(rows, n)
    BY <1>2, <1>5, <1>6
  <2>. QED
    BY <2>1, <2>2 DEF ExpectedPrev
<1>9. rows[n].prev_hash = Append(prev, table[id].payload)
  <2>1. id \in Earlier(table, n) /\ \A i \in Earlier(table, n) : i <= id
    BY <1>2, <1>4 DEF Earlier
  <2>2. Max(Earlier(table, n)) = id
    BY <1>2, <2>1, MaxIs DEF Earlier
  <2>3. ExpectedPrev(table, n) = table[id].entry_hash
    BY <2>1, <2>2 DEF ExpectedPrev
  <2>4. rows[n] = table[n]
    BY <1>2, <1>3, <1>4
  <2>. QED
    BY <1>7, <2>3, <2>4, RowHash
<1>10. Append(prev, table[id].payload) # prev
  <2>1. table[id].payload \in Payloads /\ Len(prev) \in Nat
    BY RowHash, LenProperties
  <2>2. Len(Append(prev, table[id].payload)) = Len(prev) + 1
    BY <2>1, AppendProperties
  <2>. QED
    BY <2>1, <2>2
<1>11. n \in BadRows(rows)
  BY <1>2, <1>3, <1>4, <1>8, <1>9, <1>10 DEF BadRows, EntryOK
<1>12. ASSUME NEW i \in BadRows(rows) PROVE n <= i
  <2>1. i \in DOMAIN table /\ i # id /\ ~EntryOK(rows, i) /\ rows[i] = table[i]
    BY <1>3 DEF BadRows
  <2>2. ~(i < id)
    <3>1. EntryOK(table, i)
      BY <2>1, RowHash
    <3>. QED
      BY <1>2, <1>6, <2>1, <3>1 DEF EntryOK
  <2>. QED
    BY <1>2, <1>4, <2>1, <2>2
<1>13. /\ ~verify_chain(rows).verified
       /\ verify_chain(rows).first_bad = 1 + Cardinality(Earlier(rows, n))
  BY <1>2, <1>3, <1>11, <1>12, FirstBad
<1>. QED
  BY <1>1, <1>5, <1>13

\* When JSONB returns the recorded values in the form they were hashed in, the
\* change of any row and the removal of any but the newest are found, at their
\* place, in a log of any length (verify_chain).
THEOREM TamperingDetected == Spec => [](RoundTrips => EditsDetected)
<1>1. ASSUME Inv, RoundTrips PROVE EditsDetected
  BY <1>1, EditDetected, RemovalDetected DEF Inv, EditsDetected
<1>2. Inv => (RoundTrips => EditsDetected)
  BY <1>1
<1>. QED
  BY <1>2, InitInv, InvStep, PTL DEF Spec

============================================================================
